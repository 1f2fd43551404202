---------------------------- MODULE HeadwordModel ----------------------------
(***************************************************************************)
(* The list of all headwords of a dictionary in its dialog                   *)
(* (src/src/headwordsmodel.cc): it is fetched a few leaves of the index at a *)
(* time, or all at once, and a filter replaces it by the answer of a search  *)
(* until the filter is cleared.  The searches run on workers; their          *)
(* finished() signals are queued to the GUI thread, where all else happens.  *)
(***************************************************************************)
EXTENDS Naturals, Sequences, FiniteSets, SequencesExt

CONSTANTS
  Headwords,   \* of the dictionary
  Leaves,      \* the leaves of the index in order, each the set of its headwords
  TotalSizes,  \* what getWordCount() may give
  Limit,       \* HEADWORDS_MAX_LIMIT
  BatchSize,   \* how many headwords fetchMore() asks for: 1000
  Filters,     \* patterns
  Matches,     \* Matches[f]: what a prefix match of f gives, never nothing
  MaxRequests  \* bound: searches made

ASSUME HeadwordModelAssumption ==
  /\ {Limit, BatchSize, MaxRequests} \cup TotalSizes \subseteq Nat
  /\ IsFiniteSet(Headwords) /\ Leaves \in Seq(SUBSET Headwords)
  /\ \A f \in Filters : Matches[f] \in Seq(Headwords) /\ Matches[f] # <<>>

VARIABLES
  totalSize,
  words,          \* the list shown
  original_words, filterWords, filtering, finished,
  index,          \* the leaves fetched
  queuedRequests,
  posted,         \* requestFinished() events in the queue
  made,           \* the searches made so far
  filter,         \* history: the filter last set
  mixed,          \* history: it was set while the search of another was queued
  outlived        \* history: a filter was cleared while a search was queued, or an
                  \* event of one that was taken already

listVars == <<words, original_words, filterWords, filtering, finished, index>>
requestVars == <<queuedRequests, posted, made>>
historyVars == <<filter, mixed, outlived>>
modelVars == <<totalSize, listVars, requestVars, historyVars>>

NoFilter == "none"

ModelInit ==
  /\ totalSize \in TotalSizes
  /\ words = <<>> /\ original_words = <<>> /\ filterWords = <<>>
  /\ filtering = FALSE /\ finished = FALSE /\ index = 0
  /\ queuedRequests = <<>> /\ posted = 0 /\ made = 0
  /\ filter = NoFilter /\ mixed = FALSE /\ outlived = FALSE

-----------------------------------------------------------------------------
(* Fetching. *)

\* findHeadWords(): leaves are read until there are enough headwords.
BatchEnd(from) ==
  LET enough == {n \in from + 1 .. Len(Leaves) :
                   Cardinality(UNION {Leaves[i] : i \in from + 1 .. n}) >= BatchSize}
  IN  IF enough = {} THEN Len(Leaves) ELSE Min(enough)

Batch(from, upTo) == SetToSeq(UNION {Leaves[i] : i \in from + 1 .. upTo})

\* canFetchMore(), which the view asks before it fetches.
CanFetchMore == ~filtering /\ ~finished /\ Len(words) < totalSize

\* getHeadwords() replaces the list by all headwords.
FetchAll ==
  /\ CanFetchMore /\ totalSize < Limit
  /\ finished' = TRUE
  /\ words' = Batch(0, Len(Leaves))
  /\ UNCHANGED <<totalSize, original_words, filterWords, filtering, index, requestVars,
                 historyVars>>

FetchSome ==
  /\ CanFetchMore /\ totalSize >= Limit
  /\ index' = BatchEnd(index)
  /\ words' = words \o Batch(index, BatchEnd(index))
  /\ UNCHANGED <<totalSize, original_words, filterWords, filtering, finished, requestVars,
                 historyVars>>

FetchMore == FetchAll \/ FetchSome

-----------------------------------------------------------------------------
(* Filtering. *)

\* setFilter() of an empty pattern, "back to normal state".
ClearFilter ==
  /\ ~finished /\ filtering
  /\ filtering' = FALSE
  /\ words' = original_words
  /\ filter' = NoFilter /\ outlived' = (outlived \/ queuedRequests # <<>> \/ posted > 0)
  /\ UNCHANGED <<totalSize, original_words, filterWords, finished, index, requestVars,
                 mixed>>

\* Mutated form: the list shown is kept, were it filtered already.
KeepShown == words

\* "The first time to enter filtering mode" the list is kept.
KeepOriginal == IF filtering THEN original_words ELSE words

\* setFilter() of another.  The search starts before its signal is connected to;
\* by then its worker may be at work, between its flag and its signal, or gone, so
\* that it is not heard.  A search that fails has no matches.
SetFilter(f) ==
  /\ ~finished /\ made < MaxRequests
  /\ filtering' = TRUE /\ original_words' = KeepOriginal
  /\ filterWords' = <<>>
  /\ \E worker \in {"working", "emitting", "gone"}, found \in {Matches[f], <<>>} :
       queuedRequests' = Append(queuedRequests,
                           [filter |-> f, found |-> found, worker |-> worker,
                            heard |-> worker # "gone"])
  /\ made' = made + 1
  /\ filter' = f /\ mixed' = (queuedRequests # <<>>)
  /\ UNCHANGED <<totalSize, words, finished, index, posted, outlived>>

\* Request::finish() of a worker.
RaiseFlag(i) ==
  /\ queuedRequests[i].worker = "working"
  /\ queuedRequests' = [queuedRequests EXCEPT ![i].worker = "emitting"]
  /\ UNCHANGED <<totalSize, listVars, posted, made, historyVars>>

EmitFinished(i) ==
  /\ queuedRequests[i].worker = "emitting"
  /\ queuedRequests' = [queuedRequests EXCEPT ![i].worker = "gone"]
  /\ posted' = posted + 1
  /\ UNCHANGED <<totalSize, listVars, made, historyVars>>

AllDone(left) == left = <<>>

\* One turn of the loop of requestFinished(): of a request that is finished the
\* words are added, and it is destroyed, which waits for a worker that is yet to
\* emit; the others are left.
Take(r, taken) ==
  IF r.worker = "working" THEN [taken EXCEPT !.left = Append(@, r)]
  ELSE [taken EXCEPT !.words = @ \o r.found,
                     !.waited = @ + (IF r.worker = "emitting" THEN 1 ELSE 0)]

TakeAll(requests, given) ==
  LET taken[i \in 0 .. Len(requests)] ==
        IF i = 0 THEN [left |-> <<>>, words |-> given, waited |-> 0]
        ELSE Take(requests[i], taken[i - 1])
  IN  taken[Len(requests)]

RequestFinished ==
  /\ posted > 0
  /\ LET all == TakeAll(queuedRequests, filterWords)
     IN  /\ posted' = posted - 1 + all.waited
         /\ queuedRequests' = all.left
         /\ filterWords' = all.words
         /\ words' = IF AllDone(all.left) /\ all.words # <<>> THEN all.words ELSE words
  /\ UNCHANGED <<totalSize, original_words, filtering, finished, index, made,
                 historyVars>>

-----------------------------------------------------------------------------
ModelNext ==
  \/ FetchMore \/ ClearFilter \/ RequestFinished
  \/ \E f \in Filters : SetFilter(f)
  \/ \E i \in DOMAIN queuedRequests : RaiseFlag(i) \/ EmitFinished(i)

ModelSpec == ModelInit /\ [][ModelNext]_modelVars

-----------------------------------------------------------------------------
(* Properties. *)

Fetched == UNION {Leaves[i] : i \in 1 .. IF finished THEN Len(Leaves) ELSE index}

\* Without a filter the list has what was fetched of the dictionary and nothing
\* else, and while there is one that list is kept aside: "restore the original
\* model" (src/src/headwordsmodel.cc:44).  Only a search that was still out when
\* its filter was cleared spoils it, or the event of one: it brings the words of
\* the filter back.
OriginalRestored ==
  outlived \/ ToSet(IF filtering THEN original_words ELSE words) = Fetched

\* Once the searches are in, the list shown is the answer of the filter's own
\* search, or what was shown before if it found nothing; the words of other
\* filters come in only if their search was still out when the filter was set.
FilterShown ==
  (filtering /\ ~mixed /\ ~outlived) =>
    /\ filterWords \in {<<>>, Matches[filter]}
    /\ (queuedRequests = <<>> /\ filterWords # <<>>) => words = filterWords

\* A finished search is taken sooner or later, or was finished before its signal
\* was connected to, and then it waits for the next filter's.
NoneForgotten ==
  (\E i \in DOMAIN queuedRequests :
     queuedRequests[i].heard /\ queuedRequests[i].worker = "gone") => posted > 0

\* The list of headwords and its filter do not get in each other's way, but for
\* searches that outlive their filter (src/src/headwordsmodel.cc:68, :101).
ListIsRight == OriginalRestored /\ FilterShown /\ NoneForgotten
=============================================================================
