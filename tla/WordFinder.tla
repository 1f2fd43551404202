----------------------------- MODULE WordFinder -----------------------------
(***************************************************************************)
(* The headword search of the main window and of the scan popup            *)
(* (src/src/wordfinder.cc).  WordFinder lives in the GUI thread.  A search  *)
(* sends one request per (dictionary, writing of the word), each served by  *)
(* a worker thread that fills the request's match list, raises its          *)
(* finished flag and then emits finished(), which reaches the GUI thread as *)
(* a posted event.  A new query cancels the requests of the old one but     *)
(* cannot take them back: it waits, queued, until the last of them is in.   *)
(*                                                                          *)
(* A request is identified by the search it was made for and its slot, the  *)
(* position of its (dictionary, writing) pair in the order startSearch()    *)
(* visits them.  A match is abstracted to a key: the case-folded headword   *)
(* by which matches are merged, numbered by its rank (lower is better).     *)
(***************************************************************************)
EXTENDS Naturals, Sequences, FiniteSets

CONSTANTS
  NSlots,       \* (dictionary, writing) pairs a search visits
  Keys,         \* ranks of the headwords the dictionaries hold
  Found,        \* Found[slot]: the keys the slot's dictionary matches
  Exact,        \* keys that pass the filter of an expression match
  SearchTypes,  \* the kinds of search the callers ask for
  MaxShown,     \* MaxShown[type]: cap on the list handed to the callers
  Network,      \* slots whose request finishes inside cancel()
  MaxSearches,  \* bound on the number of searches
  MaxEvents     \* bound on the events the timer may leave posted

Slots == 1 .. NSlots

ASSUME WordFinderAssumption ==
  /\ NSlots \in Nat
  /\ Keys \subseteq Nat /\ IsFiniteSet(Keys)
  /\ Found \in [Slots -> SUBSET Keys]
  /\ Exact \subseteq Keys
  /\ SearchTypes \subseteq {"PrefixMatch", "StemmedMatch", "ExpressionMatch"}
  /\ \A type \in SearchTypes : MaxShown[type] \in Nat
  /\ Network \subseteq Slots
  /\ MaxSearches \in Nat /\ MaxEvents \in Nat

Request == [search : 1 .. MaxSearches, slot : Slots]
\* An event posted by a request is that request; the timer's is none of them.
Timeout == [search |-> 0, slot |-> 0]

VARIABLES
  search,             \* number of searches asked for so far; the latest one
  searchType,         \* its type
  searchQueued, searchInProgress,
  queuedRequests,     \* requests not seen finished
  finishedRequests,   \* requests seen finished, matches not merged yet
  updateResultsTimer, \* whether the one second timer runs
  resultsArray,       \* merged matches, each tagged with its search
  searchResults,      \* the part of them the callers see
  searchErrorString, searchResultsUncertain,
  gui,                \* where the GUI thread is
  toPoll, newResults, \* the rest of requestFinished()'s loop, and its local
  events,             \* events posted to the WordFinder, oldest first
  worker,             \* state of the thread behind each request
  matches,            \* match list of each request
  outcome,            \* how each request ended
  cancelled,          \* requests whose cancel() has been called
  fate                \* history: what became of the latest search

finderVars == <<searchType, searchQueued, searchInProgress, queuedRequests,
                finishedRequests, updateResultsTimer, resultsArray,
                searchResults, searchErrorString, searchResultsUncertain>>
guiVars == <<gui, toPoll, newResults>>
requestVars == <<worker, matches, outcome, cancelled>>
vars == <<search, finderVars, guiVars, events, requestVars, fate>>

-----------------------------------------------------------------------------
(* Requests. *)

IsFinished(r) == worker[r] \in {"flagged", "done"}

Outcomes == {"ok", "uncertain", "error", "unread"}

\* How a worker may end: everything has been found, or it noticed that it is
\* cancelled; or the dictionary could not be opened ("error"); or reading it threw,
\* which is caught and logged, and leaves no error string ("unread").
MayEnd(slot, found, isCancelled, o) ==
  o \in {"ok", "uncertain"} => (found = Found[slot] \/ isCancelled)

Tagged(r) == {<<r.search, k>> : k \in matches[r]}

\* Matches the current type of search keeps when it merges a request.
Merged(r) == {m \in Tagged(r) : searchType = "ExpressionMatch" => m[2] \in Exact}

\* Mutated form: the cut comes one line late.
PublishedOneMore(S) ==
  {{m \in S : Cardinality({b \in S : b[2] < m[2]}) <= MaxShown[searchType]}}

\* The lists updateResults() may publish: sorted by rank and cut off, or, for
\* an expression match, cut off in order of arrival.
Published(S) ==
  IF searchType = "ExpressionMatch"
  THEN {T \in SUBSET S : \/ T = S /\ Cardinality(S) <= MaxShown[searchType]
                         \/ Cardinality(T) = MaxShown[searchType]}
  ELSE {{m \in S : Cardinality({b \in S : b[2] < m[2]}) < MaxShown[searchType]}}

-----------------------------------------------------------------------------
Init ==
  /\ search = 0
  /\ searchType \in SearchTypes
  /\ searchQueued = FALSE /\ searchInProgress = FALSE
  /\ queuedRequests = {} /\ finishedRequests = {}
  /\ updateResultsTimer = FALSE
  /\ resultsArray = {} /\ searchResults = {}
  /\ searchErrorString = FALSE /\ searchResultsUncertain = FALSE
  /\ gui = "idle" /\ toPoll = {} /\ newResults = FALSE
  /\ events = <<>>
  /\ worker = [r \in Request |-> "none"]
  /\ matches = [r \in Request |-> {}]
  /\ outcome = [r \in Request |-> "ok"]
  /\ cancelled = {}
  /\ fate = "none"

-----------------------------------------------------------------------------
(* The worker behind a request. *)

\* The dictionary found one more match.
AddMatch(r) ==
  /\ worker[r] = "running"
  /\ \E k \in Found[r.slot] \ matches[r] :
       matches' = [matches EXCEPT ![r] = @ \cup {k}]
  /\ UNCHANGED <<search, finderVars, guiVars, events, worker, outcome,
                 cancelled, fate>>

\* finish() raises the flag.
RaiseFlag(r) ==
  /\ worker[r] = "running"
  /\ \E o \in Outcomes :
       /\ MayEnd(r.slot, matches[r], r \in cancelled, o)
       /\ outcome' = [outcome EXCEPT ![r] = o]
  /\ worker' = [worker EXCEPT ![r] = "flagged"]
  /\ UNCHANGED <<search, finderVars, guiVars, events, matches, cancelled,
                 fate>>

\* Mutated form: the signal is connected so that the worker waits until the
\* GUI thread has handled it.
EmitFinishedBlocking(r) ==
  /\ worker[r] = "flagged" /\ gui = "idle"
  /\ worker' = [worker EXCEPT ![r] = "done"]
  /\ events' = Append(events, r)
  /\ UNCHANGED <<search, finderVars, guiVars, matches, outcome, cancelled,
                 fate>>

\* ... and then, outside the lock, emits finished().
EmitFinished(r) ==
  /\ worker[r] = "flagged"
  /\ worker' = [worker EXCEPT ![r] = "done"]
  /\ events' = Append(events, r)
  /\ UNCHANGED <<search, finderVars, guiVars, matches, outcome, cancelled,
                 fate>>

-----------------------------------------------------------------------------
(* The GUI thread. *)

\* cancelSearches(): a worker only gets a flag to notice; a request over the
\* network finishes at once, and its finished() follows.
CancelSearches ==
  /\ cancelled' = cancelled \cup queuedRequests
  /\ worker' = [r \in Request |->
                  IF r \in queuedRequests /\ r.slot \in Network
                     /\ worker[r] = "running"
                  THEN "flagged" ELSE worker[r]]

\* Mutated form: the destructor does not wait.
NoWait(S) == TRUE

\* The destructor of a request waits for its worker to return.
Destroyable(S) == \A r \in S : worker[r] = "done"

\* Mutated form: the verdict of the previous search is kept.
KeepVerdict ==
  UNCHANGED <<searchErrorString, searchResultsUncertain>>

ClearVerdict ==
  searchErrorString' = FALSE /\ searchResultsUncertain' = FALSE

\* Mutated form: requests finished when they are made are not looked at.
PollLater(new) == {}

\* startSearch() ends by handling any requests finished already.
PollAfterStart(new) == new

\* The requests for the slots in `made', of which those in the domain of `ends'
\* have finished, as that tells, before the signal is connected: they are made
\* finished, or their workers were fast.  Theirs bring no event.
SendRequests(s, made, ends) ==
  LET new == {r \in Request : r.search = s /\ r.slot \in made}
      early == {r \in new : r.slot \in DOMAIN ends}
  IN  /\ \A i \in DOMAIN ends : /\ ends[i].found \subseteq Found[i]
                                /\ MayEnd(i, ends[i].found, FALSE, ends[i].outcome)
      /\ worker' = [r \in Request |-> IF r \notin new THEN "none"
                                      ELSE IF r \in early THEN "done" ELSE "running"]
      /\ matches' = [r \in Request |-> IF r \in early THEN ends[r.slot].found ELSE {}]
      /\ outcome' = [r \in Request |-> IF r \in early THEN ends[r.slot].outcome ELSE "ok"]
      /\ queuedRequests' = new

\* startSearch(), with no request left of any earlier search.  A slot's
\* dictionary may lack the features asked for or throw (no request).  The poll
\* that startSearch() ends with follows in gui = "polling".
StartSearch(s) ==
  /\ \E made \in SUBSET Slots : \E early \in SUBSET made :
       \E ends \in [early -> [found : SUBSET Keys, outcome : Outcomes]] :
         SendRequests(s, made, ends)
  /\ cancelled' = {}
  /\ finishedRequests' = {}
  /\ ClearVerdict
  /\ searchQueued' = FALSE
  /\ searchInProgress' = TRUE
  /\ gui' = "polling" /\ toPoll' = PollAfterStart(queuedRequests')
  /\ newResults' = FALSE

\* Mutated form: a search that already runs is left to run on.
DequeueSearch ==
  /\ searchQueued' = FALSE
  /\ searchInProgress' = searchInProgress

\* What cancel() does to the search itself.
StopSearch ==
  /\ searchQueued' = FALSE
  /\ searchInProgress' = FALSE

\* The condition on which a new search starts without waiting.
NothingQueued == queuedRequests = {}

\* prefixMatch(), stemmedMatch(), expressionMatch().
Search(type) ==
  /\ gui = "idle"
  /\ search < MaxSearches
  /\ search' = search + 1
  /\ searchType' = type
  /\ resultsArray' = {} /\ searchResults' = {}
  /\ \/ /\ NothingQueued
        /\ Destroyable(finishedRequests)
        /\ StartSearch(search + 1)
     \/ /\ ~NothingQueued
        /\ CancelSearches
        /\ searchQueued' = TRUE /\ searchInProgress' = FALSE
        /\ UNCHANGED <<queuedRequests, finishedRequests, searchErrorString,
                       searchResultsUncertain, guiVars, matches, outcome>>
  /\ fate' = "asked"
  /\ UNCHANGED <<updateResultsTimer, events>>

\* cancel().
Cancel ==
  /\ gui = "idle"
  /\ CancelSearches
  /\ StopSearch
  /\ fate' = IF fate = "asked" THEN "withdrawn" ELSE fate
  /\ UNCHANGED <<search, searchType, queuedRequests, finishedRequests,
                 updateResultsTimer, resultsArray, searchResults,
                 searchErrorString, searchResultsUncertain, guiVars, events,
                 matches, outcome>>

\* clear(): cancel() ...
ClearBegin ==
  /\ gui = "idle"
  /\ CancelSearches
  /\ StopSearch
  /\ fate' = IF fate = "asked" THEN "withdrawn" ELSE fate
  /\ gui' = "clearing"
  /\ UNCHANGED <<search, searchType, queuedRequests, finishedRequests,
                 updateResultsTimer, resultsArray, searchResults,
                 searchErrorString, searchResultsUncertain, toPoll, newResults,
                 events, matches, outcome>>

\* ... and destroy the requests: each destructor waits for its worker.
ClearEnd ==
  /\ gui = "clearing"
  /\ Destroyable(queuedRequests \cup finishedRequests)
  /\ queuedRequests' = {} /\ finishedRequests' = {}
  /\ gui' = "idle"
  /\ UNCHANGED <<search, searchType, searchQueued, searchInProgress,
                 updateResultsTimer, resultsArray, searchResults,
                 searchErrorString, searchResultsUncertain, toPoll, newResults,
                 events, requestVars, fate>>

\* A posted finished() is delivered: requestFinished() starts its loop.
PollBegin ==
  /\ gui = "idle"
  /\ events # <<>> /\ Head(events) \in Request
  /\ events' = Tail(events)
  /\ gui' = "polling" /\ toPoll' = queuedRequests /\ newResults' = FALSE
  /\ UNCHANGED <<search, finderVars, requestVars, fate>>

\* The loop looks at the next request of the list, which workers may be
\* finishing meanwhile.
PollSkip(r) ==
  /\ gui = "polling" /\ r \in toPoll
  /\ \A q \in toPoll : r.slot <= q.slot
  /\ ~IsFinished(r)
  /\ toPoll' = toPoll \ {r}
  /\ UNCHANGED <<search, finderVars, gui, newResults, events, requestVars,
                 fate>>

\* A finished request with matches is kept for updateResults(); without, it is
\* destroyed, which waits for the worker to leave finish().
PollTake(r) ==
  /\ gui = "polling" /\ r \in toPoll
  /\ \A q \in toPoll : r.slot <= q.slot
  /\ IsFinished(r)
  /\ (matches[r] = {}) => (worker[r] = "done")
  /\ searchErrorString' =
       (searchErrorString \/ (searchInProgress /\ outcome[r] = "error"))
  /\ searchResultsUncertain' =
       (searchResultsUncertain \/ outcome[r] = "uncertain")
  /\ queuedRequests' = queuedRequests \ {r}
  /\ finishedRequests' =
       finishedRequests \cup {q \in {r} : matches[q] # {}}
  /\ newResults' = (newResults \/ matches[r] # {})
  /\ toPoll' = toPoll \ {r}
  /\ UNCHANGED <<search, searchType, searchQueued, searchInProgress,
                 updateResultsTimer, resultsArray, searchResults, gui, events,
                 requestVars, fate>>

\* The merged list once the finished requests are in.
MergedResults == resultsArray \cup UNION {Merged(r) : r \in finishedRequests}

\* Mutated form: the first results end the search.
SearchOverAtOnce == TRUE

\* The condition on which updateResults() emits finished(), not updated().
SearchOver == queuedRequests = {}

\* updateResults() past its guard: merge, publish, and tell the callers.
UpdateResults ==
  /\ Destroyable(finishedRequests)
  /\ updateResultsTimer' = FALSE
  /\ resultsArray' = MergedResults
  /\ finishedRequests' = {}
  /\ searchResults' \in Published(resultsArray')
  /\ searchInProgress' = ~SearchOver
  /\ fate' = IF SearchOver THEN "answered" ELSE fate

\* requestFinished() after its loop.
PollEndIdle ==
  /\ gui = "polling" /\ toPoll = {}
  /\ ~searchInProgress
  /\ queuedRequests # {} \/ ~searchQueued
  /\ queuedRequests = {} => Destroyable(finishedRequests)
  /\ finishedRequests' = IF queuedRequests = {} THEN {} ELSE finishedRequests
  /\ gui' = "idle" /\ newResults' = FALSE
  /\ UNCHANGED <<search, searchType, searchQueued, searchInProgress,
                 queuedRequests, updateResultsTimer, resultsArray,
                 searchResults, searchErrorString, searchResultsUncertain,
                 toPoll, events, requestVars, fate>>

PollEndStart ==
  /\ gui = "polling" /\ toPoll = {}
  /\ ~searchInProgress /\ searchQueued
  /\ queuedRequests = {}
  /\ Destroyable(finishedRequests)
  /\ StartSearch(search)
  /\ UNCHANGED <<search, searchType, updateResultsTimer, resultsArray,
                 searchResults, events, fate>>

PollEndWait ==
  /\ gui = "polling" /\ toPoll = {}
  /\ searchInProgress /\ queuedRequests # {}
  /\ updateResultsTimer' = (updateResultsTimer \/ newResults)
  /\ gui' = "idle" /\ newResults' = FALSE
  /\ UNCHANGED <<search, searchType, searchQueued, searchInProgress,
                 queuedRequests, finishedRequests, resultsArray, searchResults,
                 searchErrorString, searchResultsUncertain, toPoll,
                 events, requestVars, fate>>

PollEndUpdate ==
  /\ gui = "polling" /\ toPoll = {}
  /\ searchInProgress /\ queuedRequests = {}
  /\ UpdateResults
  /\ gui' = "idle" /\ newResults' = FALSE
  /\ UNCHANGED <<search, searchType, searchQueued, queuedRequests,
                 searchErrorString, searchResultsUncertain, toPoll, events,
                 requestVars>>

\* The timer expires; its timeout() is posted too (a queued connection).
TimerFires ==
  /\ updateResultsTimer
  /\ Len(events) < MaxEvents
  /\ updateResultsTimer' = FALSE
  /\ events' = Append(events, Timeout)
  /\ UNCHANGED <<search, searchType, searchQueued, searchInProgress,
                 queuedRequests, finishedRequests, resultsArray, searchResults,
                 searchErrorString, searchResultsUncertain, guiVars,
                 requestVars, fate>>

\* Mutated form: an old timeout is taken for one of this search.
NeverOld == FALSE

OldQueuedSignal == ~searchInProgress

\* A posted timeout() is delivered: updateResults(), which ignores an old one.
TimeoutDelivered ==
  /\ gui = "idle"
  /\ events # <<>> /\ Head(events) = Timeout
  /\ events' = Tail(events)
  /\ \/ /\ ~OldQueuedSignal
        /\ UpdateResults
     \/ /\ OldQueuedSignal
        /\ UNCHANGED <<searchInProgress, finishedRequests, updateResultsTimer,
                       resultsArray, searchResults, fate>>
  /\ UNCHANGED <<search, searchType, searchQueued, queuedRequests,
                 searchErrorString, searchResultsUncertain, guiVars,
                 requestVars>>

-----------------------------------------------------------------------------
WorkerStep(r) == AddMatch(r) \/ RaiseFlag(r) \/ EmitFinished(r)

\* What the GUI thread does by itself; Search, Cancel and ClearBegin are the
\* user's.
GuiStep ==
  \/ ClearEnd
  \/ PollBegin
  \/ \E r \in Request : PollSkip(r) \/ PollTake(r)
  \/ PollEndIdle \/ PollEndStart \/ PollEndWait \/ PollEndUpdate
  \/ TimeoutDelivered

Next ==
  \/ \E type \in SearchTypes : Search(type)
  \/ Cancel
  \/ ClearBegin
  \/ GuiStep
  \/ TimerFires
  \/ \E r \in Request : WorkerStep(r)

\* The thread pool runs every worker to its end, and the event loop delivers
\* every posted event.
Fairness ==
  /\ \A r \in Request : WF_vars(WorkerStep(r))
  /\ WF_vars(GuiStep)

Spec == Init /\ [][Next]_vars /\ Fairness

-----------------------------------------------------------------------------
(* Properties. *)

TypeInv ==
  /\ search \in 0 .. MaxSearches
  /\ (searchQueued \/ searchInProgress) => search # 0
  /\ searchType \in SearchTypes
  /\ searchQueued \in BOOLEAN /\ searchInProgress \in BOOLEAN
  /\ queuedRequests \subseteq Request /\ finishedRequests \subseteq Request
  /\ updateResultsTimer \in BOOLEAN
  /\ resultsArray \subseteq (1 .. MaxSearches) \X Keys
  /\ searchResults \subseteq resultsArray
  /\ searchErrorString \in BOOLEAN /\ searchResultsUncertain \in BOOLEAN
  /\ gui \in {"idle", "polling", "clearing"}
  /\ gui = "clearing" => ~(searchQueued \/ searchInProgress)
  /\ toPoll \subseteq queuedRequests /\ (gui # "polling" => toPoll = {})
  /\ newResults \in BOOLEAN
  /\ events \in Seq(Request \cup {Timeout})
  /\ worker \in [Request -> {"none", "running", "flagged", "done"}]
  /\ matches \in [Request -> SUBSET Keys]
  /\ outcome \in [Request -> Outcomes]
  /\ cancelled \subseteq Request
  /\ fate \in {"none", "asked", "answered", "withdrawn"}

\* Every variable has its type, and the list shown to the callers never
\* exceeds the cap of its kind of search (500 lines, 15 when stemmed).
TypeOK ==
  /\ TypeInv
  /\ Cardinality(searchResults) <= MaxShown[searchType]

\* The requests made for one search.
RequestsOf(s) == {r \in Request : r.search = s /\ worker[r] # "none"}

\* No headword found for an earlier query is ever among the results of the
\* current one, although the requests of the earlier query keep answering
\* after it was replaced.
ResultsAreOfThisSearch ==
  \A m \in resultsArray : m[1] = search

\* When finished() has been emitted for the latest search, the merged list
\* holds what every one of its requests found, none of them was cut short,
\* nothing of the search is left to come, and the list shown is cut from all of
\* it: what a partial list had no room for is back if it is of the best
\* (src/src/wordfinder.cc:470).
FinishedIsComplete ==
  fate = "answered" =>
    /\ queuedRequests = {} /\ finishedRequests = {}
    /\ resultsArray = UNION {Merged(r) : r \in RequestsOf(search)}
    /\ searchResults \in Published(resultsArray)
    /\ \A r \in RequestsOf(search) :
         outcome[r] \in {"ok", "uncertain"} => matches[r] = Found[r.slot]

\* The error string and the uncertain mark a caller reads at finished() tell
\* of the requests of this search and of no other.
VerdictIsOfThisSearch ==
  (fate = "answered" /\ queuedRequests = {}) =>
    /\ searchErrorString <=> \E r \in RequestsOf(search) : outcome[r] = "error"
    /\ searchResultsUncertain <=>
         \E r \in RequestsOf(search) : outcome[r] = "uncertain"

\* Between two events a search that is waiting or running always has a request
\* out, and a request whose worker is through always has its event posted:
\* the finder never waits for an event that will not come.
NeverStranded ==
  gui = "idle" =>
    /\ (searchQueued \/ searchInProgress) => queuedRequests # {}
    /\ ~(searchQueued /\ searchInProgress)
    /\ finishedRequests # {} => queuedRequests # {}
    /\ \A r \in queuedRequests :
         worker[r] = "done" => \E i \in DOMAIN events : events[i] = r

\* The dictionaries are in use only through requests the finder still owns, so
\* that after clear() none of them is.
NoStrayWorker ==
  \A r \in Request :
    worker[r] \in {"running", "flagged"} =>
      r \in queuedRequests \cup finishedRequests

\* Unless it is replaced or cancelled, every search is answered.
SearchAnswered ==
  \A s \in 1 .. MaxSearches :
    search = s ~> (search # s \/ fate \in {"answered", "withdrawn"})

\* clear() returns: the GUI thread is not left waiting in the destructors.
ClearReturns == gui = "clearing" ~> gui = "idle"

-----------------------------------------------------------------------------
(* The inductive invariant behind ResultsAreOfThisSearch and
   FinishedIsComplete. *)

\* A search that waits or runs has been asked for and not yet answered or
\* withdrawn; it does not wait and run at once; while it waits nothing has
\* been merged.
Stage ==
  /\ (searchQueued \/ searchInProgress) => fate = "asked"
  /\ ~(searchQueued /\ searchInProgress)
  /\ searchQueued => resultsArray = {}

\* While a search runs, the requests out are its own and none is cancelled;
\* those no longer out have finished, and the merged list is theirs.
Progress ==
  searchInProgress =>
    /\ cancelled = {}
    /\ queuedRequests \cup finishedRequests \subseteq RequestsOf(search)
    /\ queuedRequests \cap finishedRequests = {}
    /\ \A r \in RequestsOf(search) \ queuedRequests : IsFinished(r)
    /\ resultsArray =
         UNION {Merged(r) : r \in RequestsOf(search)
                                    \ (queuedRequests \cup finishedRequests)}

\* A request that was not cancelled and reports no error found everything.
Complete ==
  \A r \in Request :
    (IsFinished(r) /\ r \notin cancelled /\ outcome[r] \in {"ok", "uncertain"})
      => matches[r] = Found[r.slot]

\* The requests of an answered search have finished.
AnsweredIsOver ==
  fate = "answered" => \A r \in RequestsOf(search) : IsFinished(r)

\* How the search, its requests and the merged list hang together in every
\* reachable state.
SearchInv ==
  /\ TypeInv
  /\ Stage
  /\ Progress
  /\ Complete
  /\ ResultsAreOfThisSearch
  /\ FinishedIsComplete
  /\ AnsweredIsOver
  /\ NoStrayWorker

-----------------------------------------------------------------------------
\* What a caller sees of the finder is a headword search: answered at most
\* once, never after it was cancelled or replaced, and final once answered.
Phase == CASE fate = "asked" -> "searching"
           [] fate = "answered" -> "answered"
           [] OTHER -> "idle"

HS == INSTANCE HeadwordSearch
        WITH query <- search, phase <- Phase, shown <- searchResults

ImplementsHeadwordSearch == HS!Spec
=============================================================================
