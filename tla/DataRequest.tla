----------------------------- MODULE DataRequest -----------------------------
(***************************************************************************)
(* What every DataRequest promises (the comments of                        *)
(* src/src/dict/dictionary.hh): data is only added, having promised any is  *)
(* never taken back, and once the request is finished all of it is final.   *)
(***************************************************************************)
EXTENDS Naturals

VARIABLES size, hasAnyData, isFinished

Init == size \in Nat /\ hasAnyData \in BOOLEAN /\ isFinished = FALSE

\* Data may come with the promise of it, before it or after it.
Grows == size' >= size /\ (hasAnyData => hasAnyData')

Produce == ~isFinished /\ Grows /\ isFinished' = FALSE

Finish == ~isFinished /\ Grows /\ isFinished' = TRUE

Next == Produce \/ Finish

Spec == Init /\ [][Next]_<<size, hasAnyData, isFinished>>
=============================================================================
