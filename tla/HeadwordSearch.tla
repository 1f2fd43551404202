--------------------------- MODULE HeadwordSearch ---------------------------
(***************************************************************************)
(* What WordFinder promises to those who use it (the comments of           *)
(* src/src/wordfinder.hh): the list belongs to the latest query alone, may  *)
(* change until finished() is emitted and is final from then on, and a      *)
(* cancelled search is heard of no more.                                    *)
(***************************************************************************)
EXTENDS Naturals

CONSTANTS Keys, MaxSearches

VARIABLES query,   \* the number of the latest query
          phase,   \* "searching", "answered", or "idle" (none or cancelled)
          shown    \* the list of matches, each with the query it answers

Init == query = 0 /\ phase = "idle" /\ shown = {}

\* A new query replaces the old one, whatever became of that.
Ask ==
  /\ query < MaxSearches
  /\ query' = query + 1
  /\ phase' = "searching"
  /\ shown' = {}

Lists == SUBSET ({query} \X Keys)

Update ==
  /\ phase = "searching"
  /\ shown' \in Lists
  /\ UNCHANGED <<query, phase>>

Answer ==
  /\ phase = "searching"
  /\ phase' = "answered"
  /\ shown' \in Lists
  /\ UNCHANGED query

Cancel ==
  /\ phase = "searching"
  /\ phase' = "idle"
  /\ UNCHANGED <<query, shown>>

Next == Ask \/ Update \/ Answer \/ Cancel

Spec == Init /\ [][Next]_<<query, phase, shown>>
=============================================================================
