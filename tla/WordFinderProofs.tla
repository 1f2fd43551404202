-------------------------- MODULE WordFinderProofs --------------------------
(***************************************************************************)
(* Proofs about WordFinder, for any number of slots, searches and matches. *)
(***************************************************************************)
EXTENDS WordFinder, FiniteSetTheorems, SequenceTheorems, TLAPS

Event == Request \cup {Timeout}

USE DEF Slots

\* Starting a search keeps every variable in its type.
LEMMA StartSearchType ==
  ASSUME NEW s \in 1 .. MaxSearches, StartSearch(s)
  PROVE  /\ worker' \in [Request -> {"none", "running", "flagged", "done"}]
         /\ matches' \in [Request -> SUBSET Keys]
         /\ outcome' \in [Request -> Outcomes]
         /\ cancelled' \subseteq Request
         /\ queuedRequests' \subseteq Request
         /\ finishedRequests' \subseteq Request
         /\ toPoll' \subseteq queuedRequests'
         /\ searchErrorString' \in BOOLEAN
         /\ searchResultsUncertain' \in BOOLEAN
         /\ searchQueued' \in BOOLEAN
         /\ searchInProgress' \in BOOLEAN
         /\ newResults' \in BOOLEAN
         /\ gui' = "polling"
<1>a. PICK made \in SUBSET Slots : \E early \in SUBSET made :
        \E ends \in [early -> [found : SUBSET Keys, outcome : Outcomes]] :
          SendRequests(s, made, ends)
  BY Zenon DEF StartSearch
<1>b. PICK early \in SUBSET made : \E ends \in [early -> [found : SUBSET Keys, outcome : Outcomes]] :
        SendRequests(s, made, ends)
  BY <1>a, Zenon
<1>1. PICK ends \in [early -> [found : SUBSET Keys, outcome : Outcomes]] :
         SendRequests(s, made, ends)
  BY <1>b, Zenon
<1>2. queuedRequests' \subseteq Request /\ toPoll' \subseteq queuedRequests'
  BY <1>1 DEF SendRequests, StartSearch, PollAfterStart
<1>3. worker' \in [Request -> {"none", "running", "flagged", "done"}]
  BY <1>1 DEF SendRequests
<1>4. \A i \in DOMAIN ends : ends[i].found \in SUBSET Keys /\ ends[i].outcome \in Outcomes
  OBVIOUS
<1>5. matches' \in [Request -> SUBSET Keys]
  BY <1>1, <1>4 DEF SendRequests
<1>6. outcome' \in [Request -> Outcomes]
  BY <1>1, <1>4 DEF SendRequests, Outcomes
<1> QED
  BY <1>2, <1>3, <1>5, <1>6 DEF StartSearch, ClearVerdict

\* Updating the results keeps every variable in its type.
LEMMA UpdateResultsType ==
  ASSUME TypeInv, UpdateResults
  PROVE  /\ updateResultsTimer' \in BOOLEAN
         /\ resultsArray' \subseteq (1 .. MaxSearches) \X Keys
         /\ finishedRequests' \subseteq Request
         /\ searchResults' \subseteq resultsArray'
         /\ searchInProgress' \in BOOLEAN
         /\ fate' \in {"none", "asked", "answered", "withdrawn"}
<1>1. \A r \in Request : Merged(r) \subseteq (1 .. MaxSearches) \X Keys
  <2> SUFFICES ASSUME NEW r \in Request, NEW m \in Merged(r)
               PROVE  m \in (1 .. MaxSearches) \X Keys
    OBVIOUS
  <2>1. PICK k \in matches[r] : m = <<r.search, k>>
    BY DEF Merged, Tagged
  <2>2. r.search \in 1 .. MaxSearches /\ k \in Keys
    BY <2>1 DEF Request, TypeInv
  <2> QED
    BY <2>1, <2>2
<1>2. resultsArray' \subseteq (1 .. MaxSearches) \X Keys
  BY <1>1 DEF TypeInv, UpdateResults, MergedResults
<1>3. searchResults' \subseteq resultsArray'
  BY DEF UpdateResults, Published
<1> QED
  BY <1>2, <1>3 DEF TypeInv, UpdateResults, SearchOver

\* Every step keeps every variable in its type.
LEMMA TypeStep == TypeInv /\ [Next]_vars => TypeInv'
<1> SUFFICES ASSUME TypeInv, [Next]_vars PROVE TypeInv'
  OBVIOUS
<1> USE WordFinderAssumption
<1>1. ASSUME NEW type \in SearchTypes, Search(type) PROVE TypeInv'
  <2>1. search + 1 \in 1 .. MaxSearches
    BY <1>1 DEF TypeInv, Search
  <2>2. CASE StartSearch(search + 1)
    BY <1>1, <2>1, <2>2, StartSearchType DEF TypeInv, Search
  <2>3. CASE ~NothingQueued /\ CancelSearches
    <3>1. worker' \in [Request -> {"none", "running", "flagged", "done"}]
      BY <2>3 DEF TypeInv, CancelSearches
    <3>2. cancelled' \subseteq Request
      BY <2>3 DEF TypeInv, CancelSearches
    <3>3. /\ gui = "idle"
          /\ search' = search + 1 /\ searchType' = type
          /\ resultsArray' = {} /\ searchResults' = {}
          /\ searchQueued' = TRUE /\ searchInProgress' = FALSE
          /\ fate' = "asked"
          /\ UNCHANGED <<updateResultsTimer, events, queuedRequests,
                         finishedRequests, searchErrorString,
                         searchResultsUncertain, gui, toPoll, newResults,
                         matches, outcome>>
      BY <1>1, <2>3 DEF Search, guiVars
    <3>4. search' \in 0 .. MaxSearches /\ search' # 0
      BY <2>1, <3>3
    <3> QED
      BY <3>1, <3>2, <3>3, <3>4 DEF TypeInv
  <2> QED
    BY <1>1, <2>2, <2>3 DEF Search
<1>2. CASE Cancel
  BY <1>2 DEF TypeInv, Cancel, CancelSearches, StopSearch, guiVars
<1>3. CASE ClearBegin
  BY <1>3 DEF TypeInv, ClearBegin, CancelSearches, StopSearch
<1>4. CASE ClearEnd
  BY <1>4 DEF TypeInv, ClearEnd, requestVars
<1>5. CASE PollBegin
  <2>1. events' \in Seq(Event)
    BY <1>5, HeadTailProperties DEF TypeInv, PollBegin, Event
  <2> QED
    BY <1>5, <2>1 DEF TypeInv, PollBegin, finderVars, requestVars, Event
<1>6. ASSUME NEW r \in Request, PollSkip(r) PROVE TypeInv'
  BY <1>6 DEF TypeInv, PollSkip, finderVars, requestVars
<1>7. ASSUME NEW r \in Request, PollTake(r) PROVE TypeInv'
  BY <1>7 DEF TypeInv, PollTake, finderVars, requestVars
<1>8. CASE PollEndIdle
  BY <1>8 DEF TypeInv, PollEndIdle, requestVars
<1>9. CASE PollEndStart
  <2>1. search \in 1 .. MaxSearches
    BY <1>9 DEF TypeInv, PollEndStart
  <2> QED
    BY <1>9, <2>1, StartSearchType DEF TypeInv, PollEndStart
<1>10. CASE PollEndWait
  BY <1>10 DEF TypeInv, PollEndWait, requestVars
<1>11. CASE PollEndUpdate
  BY <1>11, UpdateResultsType DEF TypeInv, PollEndUpdate, requestVars
<1>12. CASE TimerFires
  <2>1. events' \in Seq(Event)
    BY <1>12, AppendProperties DEF TypeInv, TimerFires, Event
  <2> QED
    BY <1>12, <2>1 DEF TypeInv, TimerFires, requestVars, guiVars, Event
<1>13. CASE TimeoutDelivered
  <2>1. events' \in Seq(Event)
    BY <1>13, HeadTailProperties DEF TypeInv, TimeoutDelivered, Event
  <2>2. CASE searchInProgress /\ UpdateResults
    BY <1>13, <2>1, <2>2, UpdateResultsType
       DEF TypeInv, TimeoutDelivered, requestVars, guiVars, Event
  <2>3. CASE UNCHANGED <<searchInProgress, finishedRequests,
                         updateResultsTimer, resultsArray, searchResults, fate>>
    BY <1>13, <2>1, <2>3
       DEF TypeInv, TimeoutDelivered, requestVars, guiVars, Event
  <2> QED
    BY <1>13, <2>2, <2>3 DEF TimeoutDelivered, OldQueuedSignal
<1>14. ASSUME NEW r \in Request, AddMatch(r) PROVE TypeInv'
  <2>1. PICK k \in Found[r.slot] :
          matches' = [matches EXCEPT ![r] = @ \cup {k}]
    BY <1>14 DEF AddMatch
  <2>2. r.slot \in Slots
    BY DEF Request
  <2>3. k \in Keys
    BY <2>2
  <2>4. matches' \in [Request -> SUBSET Keys]
    BY <2>1, <2>3 DEF TypeInv
  <2> QED
    BY <1>14, <2>4 DEF TypeInv, AddMatch, finderVars, guiVars
<1>15. ASSUME NEW r \in Request, RaiseFlag(r) PROVE TypeInv'
  BY <1>15 DEF TypeInv, RaiseFlag, finderVars, guiVars
<1>16. ASSUME NEW r \in Request, EmitFinished(r) PROVE TypeInv'
  BY <1>16 DEF TypeInv, EmitFinished, finderVars, guiVars
<1>17. CASE UNCHANGED vars
  BY <1>17 DEF TypeInv, vars, finderVars, guiVars, requestVars
<1> QED
  BY <1>1, <1>2, <1>3, <1>4, <1>5, <1>6, <1>7, <1>8, <1>9, <1>10, <1>11,
     <1>12, <1>13, <1>14, <1>15, <1>16, <1>17
     DEF Next, GuiStep, WorkerStep

\* The initial state has every variable in its type.
LEMMA TypeInit == Init => TypeInv
<1> SUFFICES ASSUME Init PROVE TypeInv
  OBVIOUS
<1>1. events \in Seq(Event)
  BY EmptySeq DEF Init
<1>2. /\ worker \in [Request -> {"none", "running", "flagged", "done"}]
      /\ matches \in [Request -> SUBSET Keys]
      /\ outcome \in [Request -> Outcomes]
  BY DEF Init, Outcomes
<1>3. search \in 0 .. MaxSearches /\ searchType \in SearchTypes
  BY WordFinderAssumption DEF Init
<1>4. /\ resultsArray \subseteq (1 .. MaxSearches) \X Keys
      /\ searchResults \subseteq resultsArray
      /\ queuedRequests \subseteq Request
      /\ finishedRequests \subseteq Request
      /\ cancelled \subseteq Request
  BY DEF Init
<1>5. /\ gui \in {"idle", "polling", "clearing"}
      /\ gui = "clearing" => ~(searchQueued \/ searchInProgress)
      /\ toPoll \subseteq queuedRequests
      /\ gui # "polling" => toPoll = {}
      /\ fate \in {"none", "asked", "answered", "withdrawn"}
      /\ (searchQueued \/ searchInProgress) => search # 0
  BY DEF Init
<1>6. /\ searchQueued \in BOOLEAN /\ searchInProgress \in BOOLEAN
      /\ updateResultsTimer \in BOOLEAN /\ newResults \in BOOLEAN
      /\ searchErrorString \in BOOLEAN /\ searchResultsUncertain \in BOOLEAN
  BY DEF Init
<1> QED
  BY <1>1, <1>2, <1>3, <1>4, <1>5, <1>6 DEF TypeInv, Event

\* Every variable has its type in every reachable state.
THEOREM TypeCorrect == Spec => []TypeInv
  BY TypeInit, TypeStep, PTL DEF Spec

-----------------------------------------------------------------------------
\* A search that starts finds its own requests out, and no others.
LEMMA StartSearchFresh ==
  ASSUME NEW s \in 1 .. MaxSearches, StartSearch(s), search' = s
  PROVE  /\ RequestsOf(search)' = queuedRequests'
         /\ finishedRequests' = {} /\ cancelled' = {}
         /\ searchInProgress' = TRUE /\ searchQueued' = FALSE
         /\ \A r \in Request :
              IsFinished(r)' /\ outcome'[r] \in {"ok", "uncertain"} => matches'[r] = Found[r.slot]
         /\ \A r \in Request :
              worker'[r] \in {"running", "flagged"} => r \in queuedRequests'
<1>a. PICK made \in SUBSET Slots : \E ends : SendRequests(s, made, ends)
  BY Zenon DEF StartSearch
<1>1. PICK ends : SendRequests(s, made, ends)
  BY <1>a, Zenon
<1> DEFINE new == {r \in Request : r.search = s /\ r.slot \in made}
<1>2. queuedRequests' = new /\ \A r \in new : r.search = s
  BY <1>1 DEF SendRequests
<1>3. \A r \in Request : worker'[r] # "none" <=> r \in new
  BY <1>1 DEF SendRequests
<1>4. RequestsOf(search)' = new
  BY <1>2, <1>3 DEF RequestsOf
<1>5. \A r \in Request : worker'[r] \in {"running", "flagged"} => r \in new
  BY <1>3
<1>6. \A r \in Request :
        IsFinished(r)' /\ outcome'[r] \in {"ok", "uncertain"} => matches'[r] = Found[r.slot]
  <2> SUFFICES ASSUME NEW r \in Request, worker'[r] \in {"flagged", "done"},
                      outcome'[r] \in {"ok", "uncertain"}
               PROVE  matches'[r] = Found[r.slot]
    BY DEF IsFinished
  <2>1. r \in new /\ r.slot \in DOMAIN ends
    BY <1>1 DEF SendRequests
  <2>2. matches'[r] = ends[r.slot].found /\ outcome'[r] = ends[r.slot].outcome
    BY <1>1, <2>1 DEF SendRequests
  <2> QED
    BY <1>1, <2>1, <2>2 DEF SendRequests, MayEnd
<1> QED
  BY <1>2, <1>4, <1>5, <1>6 DEF StartSearch

\* Starting a search with nothing merged establishes the invariant.
LEMMA StartSearchInv ==
  ASSUME NEW s \in 1 .. MaxSearches, StartSearch(s), search' = s, TypeInv',
         resultsArray' = {}, fate' = "asked"
  PROVE  SearchInv'
<1>1. Stage'
  BY StartSearchFresh DEF Stage
<1>2. Progress'
  BY StartSearchFresh DEF Progress
<1>3. Complete'
  BY StartSearchFresh DEF Complete
<1>4. NoStrayWorker'
  BY StartSearchFresh DEF NoStrayWorker
<1> QED
  BY <1>1, <1>2, <1>3, <1>4
     DEF SearchInv, ResultsAreOfThisSearch, FinishedIsComplete, AnsweredIsOver

\* Cancelling the requests out cuts none short that is not marked cancelled.
LEMMA CancelSearchesInv ==
  ASSUME TypeInv, Complete, NoStrayWorker, CancelSearches,
         UNCHANGED <<queuedRequests, finishedRequests, matches, outcome>>
  PROVE  /\ Complete'
         /\ NoStrayWorker'
         /\ \A r \in Request : /\ worker'[r] = "none" <=> worker[r] = "none"
                               /\ IsFinished(r) => IsFinished(r)'
<1>1. \A r \in Request :
        \/ worker'[r] = worker[r]
        \/ /\ r \in queuedRequests
           /\ worker[r] = "running" /\ worker'[r] = "flagged"
  BY DEF TypeInv, CancelSearches
<1>2. Complete'
  BY <1>1 DEF Complete, IsFinished, CancelSearches
<1>3. NoStrayWorker'
  BY <1>1 DEF NoStrayWorker
<1> QED
  BY <1>1, <1>2, <1>3 DEF IsFinished

\* What may be shown of a merged list depends on the type of search alone.
LEMMA PublishedFrame ==
  ASSUME UNCHANGED searchType
  PROVE  \A S : Published(S)' = Published(S)
  BY DEF Published

\* A search that stops, or a new one that has to wait, keeps the invariant.
LEMMA StopInv ==
  ASSUME SearchInv, TypeInv', CancelSearches,
         UNCHANGED <<queuedRequests, finishedRequests, matches, outcome>>,
         searchInProgress' = FALSE,
         searchQueued' => (fate' = "asked" /\ resultsArray' = {}),
         \/ resultsArray' = {} /\ fate' = "asked"
         \/ UNCHANGED <<search, searchType, resultsArray, searchResults>>
            /\ (fate' = "answered" => fate = "answered")
  PROVE  SearchInv'
<1> USE DEF SearchInv
<1>1. Complete' /\ NoStrayWorker'
  BY CancelSearchesInv
<1>2. Stage' /\ Progress'
  BY DEF Stage, Progress
<1>3. ResultsAreOfThisSearch'
  BY DEF ResultsAreOfThisSearch
<1>4. FinishedIsComplete' /\ AnsweredIsOver'
  <2> SUFFICES ASSUME fate' = "answered"
               PROVE  FinishedIsComplete' /\ AnsweredIsOver'
    BY DEF FinishedIsComplete, AnsweredIsOver
  <2>1. fate = "answered" /\ UNCHANGED <<search, searchType, resultsArray, searchResults>>
    OBVIOUS
  <2>2. RequestsOf(search)' = RequestsOf(search)
    BY <2>1, CancelSearchesInv DEF RequestsOf
  <2>3. \A r \in Request : Merged(r)' = Merged(r)
    BY <2>1 DEF Merged, Tagged
  <2>4. RequestsOf(search) \subseteq Request
    BY DEF RequestsOf
  <2>5. UNION {Merged(r) : r \in RequestsOf(search)}'
          = UNION {Merged(r) : r \in RequestsOf(search)}
    BY <2>2, <2>3, <2>4
  <2>6. FinishedIsComplete'
    BY <2>1, <2>2, <2>5, PublishedFrame DEF FinishedIsComplete
  <2>7. AnsweredIsOver'
    BY <2>1, <2>2, <2>4, CancelSearchesInv DEF AnsweredIsOver
  <2> QED
    BY <2>6, <2>7
<1> QED
  BY <1>1, <1>2, <1>3, <1>4

\* Merging the finished requests of the running search keeps the invariant;
\* if none is out any more, it makes the search's answer complete.
LEMMA UpdateInv ==
  ASSUME SearchInv, TypeInv', searchInProgress, UpdateResults,
         UNCHANGED <<search, searchType, searchQueued, queuedRequests,
                     worker, matches, outcome, cancelled>>
  PROVE  SearchInv'
<1> USE DEF SearchInv
<1>1. RequestsOf(search)' = RequestsOf(search)
  BY DEF RequestsOf
<1>2. \A r \in Request : /\ Merged(r)' = Merged(r)
                         /\ IsFinished(r)' <=> IsFinished(r)
  BY DEF Merged, Tagged, IsFinished
<1>3. RequestsOf(search) \subseteq Request
  BY DEF RequestsOf
<1>4. fate = "asked" /\ ~searchQueued
  BY DEF Stage
<1>5. finishedRequests \subseteq RequestsOf(search) /\ finishedRequests' = {}
  BY DEF Progress, UpdateResults
<1>6. resultsArray' = UNION {Merged(r) : r \in RequestsOf(search) \ queuedRequests}
  <2> DEFINE Settled == RequestsOf(search) \ (queuedRequests \cup finishedRequests)
  <2>1. resultsArray' = resultsArray
                          \cup UNION {Merged(r) : r \in finishedRequests}
    BY DEF UpdateResults, MergedResults
  <2>3. resultsArray = UNION {Merged(r) : r \in Settled}
    BY DEF Progress
  <2>2. RequestsOf(search) \ queuedRequests
          = Settled \cup finishedRequests
    BY <1>5 DEF Progress
  <2>4. \A m : m \in resultsArray' <=>
                 \E r \in Settled \cup finishedRequests : m \in Merged(r)
    BY <2>1, <2>3
  <2> HIDE DEF Settled
  <2>5. resultsArray' = UNION {Merged(r) : r \in Settled \cup finishedRequests}
    BY <2>4
  <2> QED
    BY <2>2, <2>5 DEF Settled
<1>7. UNION {Merged(r) : r \in RequestsOf(search) \ queuedRequests}'
        = UNION {Merged(r) : r \in RequestsOf(search) \ queuedRequests}
  BY <1>1, <1>2, <1>3
<1>8. Stage'
  BY <1>4 DEF Stage, UpdateResults, SearchOver
<1>9. Progress'
  <2>1. UNION {Merged(r) : r \in RequestsOf(search)
                             \ (queuedRequests \cup finishedRequests)}'
          = resultsArray'
    BY <1>1, <1>2, <1>3, <1>5, <1>6
  <2> QED
    BY <1>1, <1>2, <1>3, <1>5, <2>1 DEF Progress
<1>10. Complete' /\ NoStrayWorker'
  BY <1>2 DEF Complete, NoStrayWorker, UpdateResults, Destroyable, IsFinished
<1>11. ResultsAreOfThisSearch'
  <2>1. \A r \in RequestsOf(search) : \A m \in Merged(r) : m[1] = search
    BY DEF RequestsOf, Merged, Tagged
  <2> QED
    BY <1>6, <2>1 DEF ResultsAreOfThisSearch
<1>12. ASSUME fate' = "answered"
       PROVE  FinishedIsComplete' /\ AnsweredIsOver'
  <2>1. queuedRequests = {}
    BY <1>4, <1>12 DEF UpdateResults, SearchOver
  <2>2. \A r \in RequestsOf(search) : IsFinished(r) /\ r \notin cancelled
    BY <2>1 DEF Progress
  <2>3. AnsweredIsOver'
    BY <1>1, <1>2, <1>3, <2>2 DEF AnsweredIsOver
  <2>4. resultsArray' = UNION {Merged(r) : r \in RequestsOf(search)}'
    BY <1>1, <1>2, <1>3, <1>6, <2>1
  <2>5. \A r \in RequestsOf(search) :
          outcome[r] \in {"ok", "uncertain"} => matches[r] = Found[r.slot]
    BY <1>3, <2>2 DEF Complete
  <2>6. FinishedIsComplete'
    BY <1>1, <1>5, <2>1, <2>4, <2>5, PublishedFrame DEF FinishedIsComplete, UpdateResults
  <2> QED
    BY <2>3, <2>6
<1> QED
  BY <1>8, <1>9, <1>10, <1>11, <1>12
     DEF FinishedIsComplete, AnsweredIsOver

\* Taking a finished request off the queue keeps the invariant.
LEMMA PollTakeInv ==
  ASSUME SearchInv, TypeInv', NEW q \in Request, PollTake(q)
  PROVE  SearchInv'
<1> USE DEF SearchInv
<1>1. q \in queuedRequests /\ IsFinished(q) /\ queuedRequests' = queuedRequests \ {q}
  BY DEF PollTake, TypeInv
<1>2. UNCHANGED <<search, searchType, searchQueued, searchInProgress,
                  resultsArray, worker, matches, outcome, cancelled, fate>>
  BY DEF PollTake, requestVars
<1>3. \/ matches[q] # {} /\ finishedRequests' = finishedRequests \cup {q}
      \/ /\ matches[q] = {} /\ worker[q] = "done"
         /\ finishedRequests' = finishedRequests
  BY DEF PollTake
<1>4. RequestsOf(search)' = RequestsOf(search)
  BY <1>2 DEF RequestsOf
<1>5. \A r \in Request : /\ Merged(r)' = Merged(r)
                         /\ IsFinished(r)' <=> IsFinished(r)
  BY <1>2 DEF Merged, Tagged, IsFinished
<1>6. RequestsOf(search) \subseteq Request
  BY DEF RequestsOf
<1>7. Stage' /\ Complete' /\ ResultsAreOfThisSearch'
  BY <1>2, <1>5 DEF Stage, Complete, ResultsAreOfThisSearch
<1>8. fate # "answered"
  BY <1>1 DEF FinishedIsComplete
<1>9. FinishedIsComplete' /\ AnsweredIsOver'
  BY <1>2, <1>8 DEF FinishedIsComplete, AnsweredIsOver
<1>10. NoStrayWorker'
  BY <1>1, <1>2, <1>3 DEF NoStrayWorker
<1>11. ASSUME searchInProgress PROVE Progress'
  <2> DEFINE Settled == RequestsOf(search) \ (queuedRequests \cup finishedRequests)
  <2>1. resultsArray = UNION {Merged(r) : r \in Settled}
    BY <1>11 DEF Progress
  <2>2. CASE finishedRequests' = finishedRequests \cup {q}
    <3>1. Settled' = Settled
      BY <1>1, <1>4, <2>2
    <3>2. UNION {Merged(r) : r \in Settled}' = UNION {Merged(r) : r \in Settled}
      BY <3>1, <1>5, <1>6
    <3> QED
      BY <1>1, <1>2, <1>4, <1>5, <1>6, <1>11, <2>1, <2>2, <3>2 DEF Progress
  <2>3. CASE matches[q] = {} /\ finishedRequests' = finishedRequests
    <3>1. Merged(q) = {}
      BY <2>3 DEF Merged, Tagged
    <3>2. Settled' = Settled \cup {q}
      BY <1>1, <1>4, <1>11, <2>3 DEF Progress
    <3>3. UNION {Merged(r) : r \in Settled}' = UNION {Merged(r) : r \in Settled}
      BY <3>1, <3>2, <1>5, <1>6
    <3> QED
      BY <1>1, <1>2, <1>4, <1>5, <1>6, <1>11, <2>1, <2>3, <3>3 DEF Progress
  <2> QED
    BY <1>3, <2>2, <2>3
<1> QED
  BY <1>2, <1>7, <1>9, <1>10, <1>11 DEF Progress

\* A worker's step keeps the invariant: it touches one unfinished request.
LEMMA WorkerInv ==
  ASSUME SearchInv, TypeInv', NEW q \in Request, WorkerStep(q)
  PROVE  SearchInv'
<1> USE DEF SearchInv
<1>1. UNCHANGED <<search, searchType, searchQueued, searchInProgress,
                  queuedRequests, finishedRequests, resultsArray, searchResults, cancelled, fate>>
  BY DEF WorkerStep, AddMatch, RaiseFlag, EmitFinished, finderVars
<1>2. \A r \in Request :
        /\ worker'[r] = "none" <=> worker[r] = "none"
        /\ IsFinished(r) => /\ IsFinished(r)' /\ matches'[r] = matches[r]
                            /\ outcome'[r] = outcome[r]
        /\ worker'[r] \in {"running", "flagged"}
             => worker[r] \in {"running", "flagged"}
  BY DEF WorkerStep, AddMatch, RaiseFlag, EmitFinished, TypeInv, IsFinished
<1>3. \A r \in Request :
        (IsFinished(r)' /\ ~IsFinished(r) /\ r \notin cancelled
         /\ outcome'[r] \in {"ok", "uncertain"}) => matches'[r] = Found[r.slot]
  BY DEF WorkerStep, AddMatch, RaiseFlag, MayEnd, EmitFinished, TypeInv, IsFinished
<1>4. RequestsOf(search)' = RequestsOf(search)
  BY <1>1, <1>2 DEF RequestsOf
<1>5. RequestsOf(search) \subseteq Request
  BY DEF RequestsOf
<1>6. \A r \in Request : IsFinished(r) => Merged(r)' = Merged(r)
  BY <1>1, <1>2 DEF Merged, Tagged
<1>7. Stage' /\ ResultsAreOfThisSearch'
  BY <1>1 DEF Stage, ResultsAreOfThisSearch
<1>8. Complete'
  BY <1>1, <1>2, <1>3 DEF Complete
<1>9. NoStrayWorker'
  BY <1>1, <1>2 DEF NoStrayWorker
<1>10. AnsweredIsOver'
  BY <1>1, <1>2, <1>4, <1>5 DEF AnsweredIsOver
<1>11. ASSUME fate = "answered" PROVE FinishedIsComplete'
  <2>1. \A r \in RequestsOf(search) : IsFinished(r)
    BY <1>11 DEF AnsweredIsOver
  <2>2. UNION {Merged(r) : r \in RequestsOf(search)}'
          = UNION {Merged(r) : r \in RequestsOf(search)}
    BY <2>1, <1>4, <1>5, <1>6
  <2> QED
    BY <1>1, <1>2, <1>4, <1>5, <1>11, <2>1, <2>2, PublishedFrame DEF FinishedIsComplete
<1>12. ASSUME searchInProgress PROVE Progress'
  <2> DEFINE Settled == RequestsOf(search) \ (queuedRequests \cup finishedRequests)
  <2>1. \A r \in Settled : r \in Request /\ IsFinished(r)
    BY <1>5, <1>12 DEF Progress
  <2>2. UNION {Merged(r) : r \in Settled}' = UNION {Merged(r) : r \in Settled}
    BY <2>1, <1>1, <1>4, <1>6
  <2> QED
    BY <1>1, <1>2, <1>4, <1>5, <1>12, <2>2 DEF Progress
<1> QED
  BY <1>1, <1>7, <1>8, <1>9, <1>10, <1>11, <1>12
     DEF Progress, FinishedIsComplete

\* A step that moves no request and changes no result keeps the invariant.
LEMMA FrameInv ==
  ASSUME SearchInv, TypeInv',
         UNCHANGED <<search, searchType, searchQueued, searchInProgress,
                     queuedRequests, finishedRequests, resultsArray, searchResults,
                     worker, matches, outcome, cancelled, fate>>
  PROVE  SearchInv'
<1> USE DEF SearchInv
<1>1. RequestsOf(search)' = RequestsOf(search)
  BY DEF RequestsOf
<1>2. \A r \in Request : /\ Merged(r)' = Merged(r)
                         /\ IsFinished(r)' <=> IsFinished(r)
  BY DEF Merged, Tagged, IsFinished
<1>3. RequestsOf(search) \subseteq Request
  BY DEF RequestsOf
<1>4. /\ UNION {Merged(r) : r \in RequestsOf(search)}'
           = UNION {Merged(r) : r \in RequestsOf(search)}
      /\ UNION {Merged(r) : r \in RequestsOf(search)
                              \ (queuedRequests \cup finishedRequests)}'
           = UNION {Merged(r) : r \in RequestsOf(search)
                              \ (queuedRequests \cup finishedRequests)}
  BY <1>1, <1>2, <1>3
<1>5. Stage' /\ Complete' /\ ResultsAreOfThisSearch' /\ NoStrayWorker'
  BY <1>2 DEF Stage, Complete, ResultsAreOfThisSearch, NoStrayWorker
<1>6. Progress'
  BY <1>1, <1>2, <1>3, <1>4 DEF Progress
<1>7. FinishedIsComplete' /\ AnsweredIsOver'
  BY <1>1, <1>2, <1>3, <1>4, PublishedFrame DEF FinishedIsComplete, AnsweredIsOver
<1> QED
  BY <1>5, <1>6, <1>7

\* Destroying requests whose workers are through, when no search runs, keeps
\* the invariant.
LEMMA DropInv ==
  ASSUME SearchInv, TypeInv', ~searchInProgress,
         queuedRequests' \subseteq queuedRequests,
         finishedRequests' \subseteq finishedRequests,
         Destroyable((queuedRequests \ queuedRequests')
                       \cup (finishedRequests \ finishedRequests')),
         UNCHANGED <<search, searchType, searchQueued, searchInProgress,
                     resultsArray, searchResults, worker, matches, outcome, cancelled, fate>>
  PROVE  SearchInv'
<1> USE DEF SearchInv
<1>1. RequestsOf(search)' = RequestsOf(search)
  BY DEF RequestsOf
<1>2. \A r \in Request : /\ Merged(r)' = Merged(r)
                         /\ IsFinished(r)' <=> IsFinished(r)
  BY DEF Merged, Tagged, IsFinished
<1>3. RequestsOf(search) \subseteq Request
  BY DEF RequestsOf
<1>4. UNION {Merged(r) : r \in RequestsOf(search)}'
        = UNION {Merged(r) : r \in RequestsOf(search)}
  BY <1>1, <1>2, <1>3
<1>5. Stage' /\ Complete' /\ ResultsAreOfThisSearch' /\ Progress'
  BY <1>2 DEF Stage, Complete, ResultsAreOfThisSearch, Progress
<1>6. NoStrayWorker'
  BY DEF NoStrayWorker, Destroyable
<1>7. FinishedIsComplete' /\ AnsweredIsOver'
  BY <1>1, <1>2, <1>3, <1>4, PublishedFrame DEF FinishedIsComplete, AnsweredIsOver
<1> QED
  BY <1>5, <1>6, <1>7

-----------------------------------------------------------------------------
LEMMA SearchStep == SearchInv /\ [Next]_vars => SearchInv'
<1> SUFFICES ASSUME SearchInv, [Next]_vars PROVE SearchInv'
  OBVIOUS
<1>0. TypeInv' /\ TypeInv
  BY TypeStep DEF SearchInv
<1>1. ASSUME NEW type \in SearchTypes, Search(type) PROVE SearchInv'
  <2>1. search + 1 \in 1 .. MaxSearches
    BY <1>0, <1>1, WordFinderAssumption DEF TypeInv, Search
  <2>2. CASE StartSearch(search + 1)
    BY <1>0, <1>1, <2>1, <2>2, StartSearchInv DEF Search
  <2>3. CASE ~NothingQueued /\ CancelSearches
    <3>1. /\ resultsArray' = {} /\ fate' = "asked"
          /\ searchInProgress' = FALSE
          /\ UNCHANGED <<queuedRequests, finishedRequests, matches, outcome>>
      BY <1>1, <2>3 DEF Search
    <3> QED
      BY <1>0, <2>3, <3>1, StopInv
  <2> QED
    BY <1>1, <2>2, <2>3 DEF Search
<1>2. CASE Cancel
  BY <1>0, <1>2, StopInv DEF Cancel, StopSearch
<1>3. CASE ClearBegin
  BY <1>0, <1>3, StopInv DEF ClearBegin, StopSearch
<1>4. CASE ClearEnd
  <2>1. ~searchInProgress
    BY <1>4 DEF ClearEnd, SearchInv, TypeInv
  <2> QED
    BY <1>0, <1>4, <2>1, DropInv DEF ClearEnd, requestVars, Destroyable
<1>5. CASE PollBegin
  BY <1>0, <1>5, FrameInv DEF PollBegin, finderVars, requestVars
<1>6. ASSUME NEW r \in Request, PollSkip(r) PROVE SearchInv'
  BY <1>0, <1>6, FrameInv DEF PollSkip, finderVars, requestVars
<1>7. ASSUME NEW r \in Request, PollTake(r) PROVE SearchInv'
  BY <1>0, <1>7, PollTakeInv
<1>8. CASE PollEndIdle
  BY <1>0, <1>8, DropInv DEF PollEndIdle, requestVars, Destroyable
<1>9. CASE PollEndStart
  <2>1. resultsArray = {} /\ fate = "asked" /\ search \in 1 .. MaxSearches
    BY <1>0, <1>9, WordFinderAssumption DEF PollEndStart, SearchInv, Stage, TypeInv
  <2> QED
    BY <1>0, <1>9, <2>1, StartSearchInv DEF PollEndStart
<1>10. CASE PollEndWait
  BY <1>0, <1>10, FrameInv DEF PollEndWait, requestVars
<1>11. CASE PollEndUpdate
  BY <1>0, <1>11, UpdateInv DEF PollEndUpdate, requestVars
<1>12. CASE TimerFires
  BY <1>0, <1>12, FrameInv DEF TimerFires, requestVars
<1>13. CASE TimeoutDelivered
  <2>1. CASE searchInProgress /\ UpdateResults
    BY <1>0, <1>13, <2>1, UpdateInv DEF TimeoutDelivered, requestVars
  <2>2. CASE UNCHANGED <<searchInProgress, finishedRequests,
                         updateResultsTimer, resultsArray, searchResults, fate>>
    BY <1>0, <1>13, <2>2, FrameInv DEF TimeoutDelivered, requestVars
  <2> QED
    BY <1>13, <2>1, <2>2 DEF TimeoutDelivered, OldQueuedSignal
<1>14. ASSUME NEW r \in Request, WorkerStep(r) PROVE SearchInv'
  BY <1>0, <1>14, WorkerInv
<1>15. CASE UNCHANGED vars
  BY <1>0, <1>15, FrameInv DEF vars, finderVars, requestVars
<1> QED
  BY <1>1, <1>2, <1>3, <1>4, <1>5, <1>6, <1>7, <1>8, <1>9, <1>10, <1>11,
     <1>12, <1>13, <1>14, <1>15 DEF Next, GuiStep

\* The inductive invariant holds in every reachable state.
THEOREM SearchInvariant == Spec => []SearchInv
<1>1. Init => SearchInv
  <2> SUFFICES ASSUME Init PROVE SearchInv
    OBVIOUS
  <2>1. TypeInv
    BY TypeInit
  <2>2. Stage /\ Progress /\ ResultsAreOfThisSearch /\ FinishedIsComplete
        /\ AnsweredIsOver
    BY DEF Init, Stage, Progress, ResultsAreOfThisSearch, FinishedIsComplete,
           AnsweredIsOver
  <2>3. Complete /\ NoStrayWorker
    BY DEF Init, Complete, NoStrayWorker, IsFinished
  <2> QED
    BY <2>1, <2>2, <2>3 DEF SearchInv
<1> QED
  BY <1>1, SearchStep, PTL DEF Spec

\* The merged list never holds a headword of an earlier query, whatever the
\* order in which requests of both finish.
THEOREM NoStaleResults == Spec => []ResultsAreOfThisSearch
<1>1. SearchInv => ResultsAreOfThisSearch
  BY DEF SearchInv
<1> QED
  BY <1>1, SearchInvariant, PTL

\* finished() is emitted for a search only when every request of it has been
\* merged in full.
THEOREM AnswerComplete == Spec => []FinishedIsComplete
<1>1. SearchInv => FinishedIsComplete
  BY DEF SearchInv
<1> QED
  BY <1>1, SearchInvariant, PTL

\* A dictionary is in use only through a request the finder still owns.
THEOREM WorkersOwned == Spec => []NoStrayWorker
<1>1. SearchInv => NoStrayWorker
  BY DEF SearchInv
<1> QED
  BY <1>1, SearchInvariant, PTL

-----------------------------------------------------------------------------
(* What its users rely on. *)

(* The refinement. *)

\* A step that leaves the query, its fate and the list alone is not seen.
LEMMA Unseen ==
  ASSUME UNCHANGED <<search, fate, searchResults>>
  PROVE  UNCHANGED <<search, Phase, searchResults>>
BY DEF Phase

\* What is shown after a step belongs to the query after it.
LEMMA ShownIsOfQuery ==
  ASSUME TypeInv', ResultsAreOfThisSearch', UNCHANGED search
  PROVE  searchResults' \in HS!Lists
<1> SUFFICES ASSUME NEW m \in searchResults' PROVE m \in {search} \X Keys
  BY DEF HS!Lists
<1>1. m \in (1 .. MaxSearches) \X Keys /\ m \in resultsArray'
  BY DEF TypeInv
<1>2. m[1] = search
  BY <1>1 DEF ResultsAreOfThisSearch
<1> QED
  BY <1>1, <1>2

\* Cancelling is seen of a search that is still awaited, and of no other.
LEMMA CancelSeen ==
  ASSUME TypeInv, UNCHANGED <<search, searchResults>>,
         fate' = IF fate = "asked" THEN "withdrawn" ELSE fate
  PROVE  HS!Cancel \/ UNCHANGED <<search, Phase, searchResults>>
BY DEF TypeInv, Phase, HS!Cancel

\* updateResults() answers the search, or shows a part of what is to come.
LEMMA UpdateSeen ==
  ASSUME SearchInv, SearchInv', searchInProgress, UpdateResults,
         UNCHANGED search
  PROVE  HS!Answer \/ HS!Update
<1>1. fate = "asked"
  BY DEF SearchInv, Stage
<1>2. searchResults' \in HS!Lists
  BY ShownIsOfQuery DEF SearchInv
<1>3. CASE SearchOver
  <2>1. fate' = "answered"
    BY <1>3 DEF UpdateResults
  <2> QED
    BY <1>1, <1>2, <2>1 DEF Phase, HS!Answer
<1>4. CASE ~SearchOver
  <2>1. fate' = "asked"
    BY <1>1, <1>4 DEF UpdateResults
  <2> QED
    BY <1>1, <1>2, <2>1 DEF Phase, HS!Update
<1> QED
  BY <1>3, <1>4

\* Every step of the finder is one of the abstract search, or not seen.
LEMMA StepSeen ==
  SearchInv /\ SearchInv' /\ [Next]_vars
    => [HS!Next]_<<search, Phase, searchResults>>
<1> SUFFICES ASSUME SearchInv, SearchInv', [Next]_vars
             PROVE  HS!Next \/ UNCHANGED <<search, Phase, searchResults>>
  OBVIOUS
<1>1. ASSUME NEW type \in SearchTypes, Search(type) PROVE HS!Ask
  <2>1. search < MaxSearches /\ search' = search + 1 /\ fate' = "asked"
        /\ searchResults' = {}
    BY <1>1 DEF Search
  <2> QED
    BY <2>1 DEF HS!Ask, Phase
<1>2. CASE Cancel
  BY <1>2, CancelSeen DEF SearchInv, Cancel, HS!Next
<1>3. CASE ClearBegin
  BY <1>3, CancelSeen DEF SearchInv, ClearBegin, HS!Next
<1>4. CASE PollEndUpdate
  BY <1>4, UpdateSeen DEF PollEndUpdate, HS!Next
<1>5. CASE TimeoutDelivered
  <2>1. CASE searchInProgress /\ UpdateResults
    BY <1>5, <2>1, UpdateSeen DEF TimeoutDelivered, HS!Next
  <2>2. CASE UNCHANGED <<fate, searchResults>>
    BY <1>5, <2>2, Unseen DEF TimeoutDelivered
  <2> QED
    BY <1>5, <2>1, <2>2 DEF TimeoutDelivered, OldQueuedSignal
<1>6. CASE ClearEnd \/ PollBegin \/ PollEndIdle \/ PollEndStart
           \/ PollEndWait \/ TimerFires
  BY <1>6, Unseen DEF ClearEnd, PollBegin, PollEndIdle, PollEndStart,
                      PollEndWait, TimerFires, finderVars
<1>7. ASSUME NEW r \in Request, PollSkip(r) \/ PollTake(r) \/ WorkerStep(r)
      PROVE  UNCHANGED <<search, Phase, searchResults>>
  BY <1>7, Unseen DEF PollSkip, PollTake, WorkerStep, AddMatch, RaiseFlag,
                      EmitFinished, finderVars
<1>8. CASE UNCHANGED vars
  BY <1>8, Unseen DEF vars, finderVars
<1> QED
  BY <1>1, <1>2, <1>3, <1>4, <1>5, <1>6, <1>7, <1>8
     DEF Next, GuiStep, HS!Next

\* For its callers the finder is a headword search: the list belongs to the
\* latest query alone, is final once answered, and a query that was cancelled
\* or replaced is never answered.
THEOREM SearchImplemented == Spec => ImplementsHeadwordSearch
<1>1. Init => HS!Init
  BY DEF Init, Phase, HS!Init
<1> QED
  BY <1>1, StepSeen, SearchInvariant, PTL
     DEF Spec, ImplementsHeadwordSearch, HS!Spec

-----------------------------------------------------------------------------
(* The verdict. *)

\* Of a search that runs or has been answered, the verdict so far is that of
\* its requests no longer out.
VerdictInv ==
  (searchInProgress \/ fate = "answered") =>
    LET settled == RequestsOf(search) \ queuedRequests
    IN  /\ searchErrorString <=> \E r \in settled : outcome[r] = "error"
        /\ searchResultsUncertain <=>
             \E r \in settled : outcome[r] = "uncertain"

\* A step that keeps the settled requests, their outcomes and the verdict
\* keeps the invariant, unless it starts or answers a search.
LEMMA VerdictKept ==
  ASSUME SearchInv, VerdictInv, UNCHANGED <<search, searchErrorString, searchResultsUncertain>>,
         (searchInProgress' \/ fate' = "answered")
           => (searchInProgress \/ fate = "answered"),
         (searchInProgress \/ fate = "answered") =>
            /\ UNCHANGED queuedRequests
            /\ \A r \in Request : worker'[r] = "none" <=> worker[r] = "none"
            /\ \A r \in RequestsOf(search) \ queuedRequests :
                 outcome'[r] = outcome[r]
  PROVE  VerdictInv'
<1> SUFFICES ASSUME searchInProgress' \/ fate' = "answered" PROVE VerdictInv'
  BY DEF VerdictInv
<1>1. RequestsOf(search)' = RequestsOf(search)
  BY DEF RequestsOf
<1> QED
  BY <1>1 DEF VerdictInv

\* A search starts with no verdict, no request of it being settled.
LEMMA VerdictAtStart ==
  ASSUME NEW s \in 1 .. MaxSearches, StartSearch(s), search' = s
  PROVE  VerdictInv'
<1>1. RequestsOf(search)' = queuedRequests'
  BY StartSearchFresh
<1>2. searchErrorString' = FALSE /\ searchResultsUncertain' = FALSE
  BY DEF StartSearch, ClearVerdict
<1> QED
  BY <1>1, <1>2 DEF VerdictInv

\* Taking a request of the running search adds its outcome to the verdict.
LEMMA VerdictTaken ==
  ASSUME SearchInv, VerdictInv, NEW q \in Request, PollTake(q)
  PROVE  VerdictInv'
<1>1. q \in queuedRequests /\ queuedRequests' = queuedRequests \ {q}
  BY DEF PollTake, SearchInv, TypeInv
<1>2. fate # "answered" /\ fate' = fate
  BY <1>1 DEF SearchInv, FinishedIsComplete, PollTake
<1>3. UNCHANGED <<search, searchInProgress, outcome, worker>>
  BY DEF PollTake, requestVars
<1> SUFFICES ASSUME searchInProgress PROVE VerdictInv'
  BY <1>2, <1>3 DEF VerdictInv
<1>4. RequestsOf(search)' = RequestsOf(search) /\ q \in RequestsOf(search)
  BY <1>1, <1>3 DEF SearchInv, Progress, RequestsOf
<1>5. RequestsOf(search)' \ queuedRequests'
        = (RequestsOf(search) \ queuedRequests) \cup {q}
  BY <1>1, <1>4
<1>6. /\ searchErrorString' <=> (searchErrorString \/ outcome[q] = "error")
      /\ searchResultsUncertain'
           <=> (searchResultsUncertain \/ outcome[q] = "uncertain")
  BY DEF PollTake
<1> QED
  BY <1>3, <1>5, <1>6 DEF VerdictInv

\* Every step keeps the verdict that of the settled requests.
LEMMA VerdictStep == SearchInv /\ VerdictInv /\ [Next]_vars => VerdictInv'
<1> SUFFICES ASSUME SearchInv, VerdictInv, [Next]_vars PROVE VerdictInv'
  OBVIOUS
<1>0. TypeInv
  BY DEF SearchInv
<1>1. ASSUME NEW type \in SearchTypes, Search(type) PROVE VerdictInv'
  <2>1. search + 1 \in 1 .. MaxSearches /\ search' = search + 1
    BY <1>0, <1>1, WordFinderAssumption DEF TypeInv, Search
  <2>2. CASE StartSearch(search + 1)
    BY <2>1, <2>2, VerdictAtStart
  <2>3. CASE searchInProgress' = FALSE
    BY <1>1, <2>3 DEF Search, VerdictInv
  <2> QED
    BY <1>1, <2>2, <2>3 DEF Search
<1>2. CASE Cancel \/ ClearBegin
  <2>1. /\ UNCHANGED <<search, searchErrorString, searchResultsUncertain,
                       queuedRequests, outcome>>
        /\ CancelSearches /\ searchInProgress' = FALSE
        /\ fate' = "answered" => fate = "answered"
    BY <1>2 DEF Cancel, ClearBegin, StopSearch
  <2>2. \A r \in Request : worker'[r] = "none" <=> worker[r] = "none"
    BY <1>0, <2>1 DEF CancelSearches, TypeInv
  <2> QED
    BY <2>1, <2>2, VerdictKept
<1>3. CASE ClearEnd
  <2>1. ~searchInProgress
    BY <1>0, <1>3 DEF ClearEnd, TypeInv
  <2>2. fate = "answered" => UNCHANGED queuedRequests
    BY <1>3 DEF ClearEnd, SearchInv, FinishedIsComplete
  <2> QED
    BY <1>3, <2>1, <2>2, VerdictKept DEF ClearEnd, requestVars
<1>4. CASE PollBegin \/ PollEndIdle \/ PollEndWait \/ TimerFires
           \/ \E r \in Request : PollSkip(r)
  BY <1>4, VerdictKept DEF PollBegin, PollEndIdle, PollEndWait, TimerFires,
                           PollSkip, finderVars, requestVars
<1>5. ASSUME NEW r \in Request, PollTake(r) PROVE VerdictInv'
  BY <1>5, VerdictTaken
<1>6. CASE PollEndStart
  <2>1. search \in 1 .. MaxSearches /\ search' = search
    BY <1>0, <1>6, WordFinderAssumption DEF PollEndStart, TypeInv
  <2> QED
    BY <1>6, <2>1, VerdictAtStart DEF PollEndStart
<1>7. CASE PollEndUpdate \/ TimeoutDelivered
  <2>1. /\ UNCHANGED <<search, searchErrorString, searchResultsUncertain,
                       queuedRequests, worker, outcome>>
        /\ searchInProgress \/ UNCHANGED <<searchInProgress, fate>>
    BY <1>7 DEF PollEndUpdate, TimeoutDelivered, OldQueuedSignal, requestVars
  <2> QED
    BY <2>1, VerdictKept
<1>8. ASSUME NEW r \in Request, WorkerStep(r) PROVE VerdictInv'
  <2>1. UNCHANGED <<search, searchErrorString, searchResultsUncertain,
                    queuedRequests, searchInProgress, fate>>
    BY <1>8 DEF WorkerStep, AddMatch, RaiseFlag, EmitFinished, finderVars
  <2>2. \A q \in Request :
          /\ worker'[q] = "none" <=> worker[q] = "none"
          /\ outcome'[q] = outcome[q] \/ ~IsFinished(q)
    BY <1>0, <1>8 DEF WorkerStep, AddMatch, RaiseFlag, EmitFinished, TypeInv,
                      IsFinished
  <2>3. (searchInProgress \/ fate = "answered") =>
          \A q \in RequestsOf(search) \ queuedRequests : IsFinished(q)
    BY DEF SearchInv, Progress, AnsweredIsOver
  <2>4. RequestsOf(search) \subseteq Request
    BY DEF RequestsOf
  <2> QED
    BY <2>1, <2>2, <2>3, <2>4, VerdictKept
<1>9. CASE UNCHANGED vars
  BY <1>9, VerdictKept DEF vars, finderVars, requestVars
<1> QED
  BY <1>1, <1>2, <1>3, <1>4, <1>5, <1>6, <1>7, <1>8, <1>9 DEF Next, GuiStep

\* The error string and the uncertain mark read at finished() are those of the
\* search answered: of every request of it, and of no other.
THEOREM VerdictHolds == Spec => []VerdictIsOfThisSearch
<1>1. Init => VerdictInv
  BY DEF Init, VerdictInv
<1>2. SearchInv /\ VerdictInv => VerdictIsOfThisSearch
  BY DEF VerdictInv, VerdictIsOfThisSearch
<1> QED
  BY <1>1, <1>2, VerdictStep, SearchInvariant, PTL DEF Spec
-----------------------------------------------------------------------------
(* Nothing is waited for in vain. *)

Posted(r) == \E i \in DOMAIN events : events[i] = r

\* Every request out whose worker is through has its event posted, or is about
\* to be looked at; and whoever waits between two events has a request out.
Awaited ==
  /\ \A r \in queuedRequests : worker[r] = "done" => (Posted(r) \/ r \in toPoll)
  /\ gui = "idle" =>
       /\ (searchQueued \/ searchInProgress) => queuedRequests # {}
       /\ finishedRequests # {} => queuedRequests # {}

\* Posting an event loses none, and delivering one loses that one only.
LEMMA PostedKept ==
  ASSUME TypeInv, NEW r \in Request, Posted(r)
  PROVE  /\ \A e \in Event : events' = Append(events, e) => Posted(r)'
         /\ (events # <<>> /\ Head(events) # r /\ events' = Tail(events))
              => Posted(r)'
<1> USE DEF Posted
<1>1. events \in Seq(Event)
  BY DEF TypeInv, Event
<1>2. PICK i \in DOMAIN events : events[i] = r
  OBVIOUS
<1>3. i \in 1 .. Len(events) /\ Len(events) \in Nat
  BY <1>1, <1>2
<1>4. ASSUME NEW e \in Event, events' = Append(events, e) PROVE Posted(r)'
  <2>1. i \in DOMAIN Append(events, e) /\ Append(events, e)[i] = events[i]
    BY <1>1, <1>3, AppendProperties
  <2> QED
    BY <1>2, <1>4, <2>1
<1>5. ASSUME events # <<>>, Head(events) # r, events' = Tail(events)
      PROVE  Posted(r)'
  <2>1. i # 1
    BY <1>1, <1>2, <1>5
  <2>2. /\ Tail(events) \in Seq(Event) /\ Len(Tail(events)) = Len(events) - 1
        /\ \A j \in 1 .. Len(Tail(events)) : Tail(events)[j] = events[j + 1]
    BY <1>1, <1>5, HeadTailProperties
  <2>3. i - 1 \in 1 .. Len(Tail(events))
    BY <1>3, <2>1, <2>2
  <2>4. Tail(events)[i - 1] = r /\ i - 1 \in DOMAIN Tail(events)
    BY <1>2, <1>3, <2>2, <2>3
  <2> QED
    BY <1>5, <2>4
<1> QED
  BY <1>4, <1>5

\* What is posted is found in the queue.
LEMMA PostedAtOnce ==
  ASSUME TypeInv, NEW e \in Event, events' = Append(events, e)
  PROVE  Posted(e)'
<1>1. events \in Seq(Event) /\ Len(events) \in Nat
  BY DEF TypeInv, Event
<1>2. /\ Len(events) + 1 \in DOMAIN Append(events, e)
      /\ Append(events, e)[Len(events) + 1] = e
  BY <1>1, AppendProperties
<1> QED
  BY <1>2 DEF Posted

\* Every step keeps what is awaited to come.
LEMMA AwaitedStep == SearchInv /\ Awaited /\ [Next]_vars => Awaited'
<1> SUFFICES ASSUME SearchInv, Awaited, [Next]_vars PROVE Awaited'
  OBVIOUS
<1>0. TypeInv /\ Stage
  BY DEF SearchInv
<1>00. ASSUME UNCHANGED events, NEW r \in Request PROVE Posted(r)' <=> Posted(r)
  BY <1>00 DEF Posted
<1>1. ASSUME NEW s, StartSearch(s) PROVE Awaited'
  <2>1. gui' = "polling" /\ toPoll' = queuedRequests'
    BY <1>1 DEF StartSearch, PollAfterStart
  <2> QED
    BY <2>1 DEF Awaited
<1>2. ASSUME CancelSearches, UNCHANGED <<queuedRequests, toPoll, events>>
      PROVE  \A r \in queuedRequests' :
               worker'[r] = "done" => (Posted(r)' \/ r \in toPoll')
  <2>1. \A r \in Request : worker'[r] = "done" => worker[r] = "done"
    BY <1>2 DEF CancelSearches
  <2> QED
    BY <1>0, <1>00, <1>2, <2>1 DEF Awaited, TypeInv
<1>3. ASSUME NEW type \in SearchTypes, Search(type) PROVE Awaited'
  <2>1. CASE StartSearch(search + 1)
    BY <1>1, <2>1
  <2>2. CASE ~NothingQueued /\ CancelSearches
    <3>1. UNCHANGED <<queuedRequests, finishedRequests, toPoll, gui, events>>
      BY <1>3, <2>2 DEF Search, guiVars
    <3> QED
      BY <1>2, <2>2, <3>1 DEF Awaited, NothingQueued
  <2> QED
    BY <1>3, <2>1, <2>2 DEF Search
<1>4. CASE Cancel
  <2>1. /\ CancelSearches /\ searchQueued' = FALSE /\ searchInProgress' = FALSE
        /\ UNCHANGED <<queuedRequests, finishedRequests, toPoll, gui, events>>
    BY <1>4 DEF Cancel, StopSearch, guiVars
  <2> QED
    BY <1>2, <2>1 DEF Awaited
<1>5. CASE ClearBegin
  <2>1. /\ CancelSearches /\ gui' = "clearing"
        /\ UNCHANGED <<queuedRequests, toPoll, events>>
    BY <1>5 DEF ClearBegin
  <2> QED
    BY <1>2, <2>1 DEF Awaited
<1>6. CASE ClearEnd
  <2>1. queuedRequests' = {} /\ finishedRequests' = {}
        /\ ~searchQueued' /\ ~searchInProgress'
    BY <1>0, <1>6 DEF ClearEnd, TypeInv
  <2> QED
    BY <2>1 DEF Awaited
<1>7. CASE PollBegin
  BY <1>7 DEF PollBegin, finderVars, Awaited
<1>8. ASSUME NEW q \in Request, PollSkip(q) PROVE Awaited'
  <2>1. /\ worker[q] # "done" /\ toPoll' = toPoll \ {q} /\ gui' = "polling"
        /\ UNCHANGED <<queuedRequests, worker, events>>
    BY <1>8 DEF PollSkip, IsFinished, finderVars, requestVars
  <2> QED
    BY <1>0, <1>00, <2>1 DEF Awaited, TypeInv
<1>9. ASSUME NEW q \in Request, PollTake(q) PROVE Awaited'
  <2>1. /\ queuedRequests' = queuedRequests \ {q}
        /\ toPoll' = toPoll \ {q} /\ gui' = "polling"
        /\ UNCHANGED <<worker, events>>
    BY <1>9 DEF PollTake, requestVars
  <2> QED
    BY <1>0, <1>00, <2>1 DEF Awaited, TypeInv
<1>10. CASE PollEndIdle
  <2>1. /\ ~searchInProgress /\ (queuedRequests # {} \/ ~searchQueued)
        /\ finishedRequests' # {} => queuedRequests # {}
        /\ UNCHANGED <<searchQueued, searchInProgress, queuedRequests, toPoll,
                       events, worker>>
    BY <1>10 DEF PollEndIdle, requestVars
  <2> QED
    BY <1>0, <1>00, <2>1 DEF Awaited, TypeInv
<1>11. CASE PollEndStart
  BY <1>1, <1>11 DEF PollEndStart
<1>12. CASE PollEndWait
  <2>1. /\ queuedRequests # {}
        /\ UNCHANGED <<queuedRequests, toPoll, events, worker>>
    BY <1>12 DEF PollEndWait, requestVars
  <2> QED
    BY <1>0, <1>00, <2>1 DEF Awaited, TypeInv
<1>13. CASE PollEndUpdate
  <2>1. /\ queuedRequests' = {} /\ ~searchQueued'
        /\ ~searchInProgress' /\ finishedRequests' = {}
    BY <1>0, <1>13 DEF PollEndUpdate, UpdateResults, SearchOver, Stage
  <2> QED
    BY <2>1 DEF Awaited
<1>14. CASE TimerFires
  <2>1. /\ events' = Append(events, Timeout) /\ Timeout \in Event
        /\ UNCHANGED <<searchQueued, searchInProgress, queuedRequests,
                       finishedRequests, gui, toPoll, worker>>
    BY <1>14 DEF TimerFires, guiVars, requestVars, Event
  <2> QED
    BY <1>0, <2>1, PostedKept DEF Awaited, TypeInv
<1>15. CASE TimeoutDelivered
  <2>1. /\ gui = "idle" /\ events # <<>> /\ Head(events) = Timeout
        /\ events' = Tail(events)
        /\ UNCHANGED <<searchQueued, queuedRequests, gui, toPoll, worker>>
    BY <1>15 DEF TimeoutDelivered, guiVars, requestVars
  <2>2. \A r \in Request : r # Timeout
    BY DEF Request, Timeout
  <2>3. \A r \in Request : Posted(r) => Posted(r)'
    BY <1>0, <2>1, <2>2, PostedKept
  <2>4. \/ UNCHANGED <<searchInProgress, finishedRequests>>
        \/ /\ searchInProgress /\ finishedRequests' = {}
           /\ searchInProgress' => queuedRequests # {}
    BY <1>15 DEF TimeoutDelivered, OldQueuedSignal, UpdateResults, SearchOver
  <2> QED
    BY <1>0, <2>1, <2>3, <2>4 DEF Awaited, TypeInv, Stage
<1>16. ASSUME NEW q \in Request, AddMatch(q) \/ RaiseFlag(q) PROVE Awaited'
  <2>1. /\ UNCHANGED <<searchQueued, searchInProgress, queuedRequests,
                       finishedRequests, gui, toPoll, events>>
        /\ \A r \in Request : worker'[r] = "done" => worker[r] = "done"
    BY <1>0, <1>16 DEF AddMatch, RaiseFlag, finderVars, guiVars, TypeInv
  <2> QED
    BY <1>0, <1>00, <2>1 DEF Awaited, TypeInv
<1>17. ASSUME NEW q \in Request, EmitFinished(q) PROVE Awaited'
  <2>1. /\ UNCHANGED <<searchQueued, searchInProgress, queuedRequests,
                       finishedRequests, gui, toPoll>>
        /\ events' = Append(events, q) /\ q \in Event
        /\ \A r \in Request : r # q => worker'[r] = worker[r]
    BY <1>0, <1>17 DEF EmitFinished, finderVars, guiVars, TypeInv, Event
  <2>2. Posted(q)'
    BY <1>0, <2>1, PostedAtOnce
  <2>3. \A r \in Request : Posted(r) => Posted(r)'
    BY <1>0, <2>1, PostedKept
  <2> QED
    BY <1>0, <2>1, <2>2, <2>3 DEF Awaited, TypeInv
<1>18. CASE UNCHANGED vars
  BY <1>0, <1>00, <1>18 DEF vars, finderVars, guiVars, requestVars, Awaited, TypeInv
<1> QED
  BY <1>3, <1>4, <1>5, <1>6, <1>7, <1>8, <1>9, <1>10, <1>11, <1>12, <1>13,
     <1>14, <1>15, <1>16, <1>17, <1>18 DEF Next, GuiStep, WorkerStep

\* Between two events whoever waits has a request out, and a request whose
\* worker is through has its event posted.
THEOREM NobodyStranded == Spec => []NeverStranded
<1>1. Init => Awaited
  BY DEF Init, Awaited
<1>2. SearchInv /\ Awaited => NeverStranded
  BY DEF SearchInv, TypeInv, Stage, Awaited, Posted, NeverStranded
<1> QED
  BY <1>1, <1>2, AwaitedStep, SearchInvariant, PTL DEF Spec

-----------------------------------------------------------------------------
(* The cap of the list. *)

\* A finite set of ranked matches has a last one.
LEMMA LastRanked ==
  ASSUME NEW T, IsFiniteSet(T), T # {}, \A m \in T : m[2] \in Nat
  PROVE  \E m \in T : \A b \in T : b[2] <= m[2]
<1> DEFINE After(x) == {b \in T : b[2] > x[2]}
           Afters == {After(x) : x \in T}
           R == StrictSubsetOrdering(T)
<1>1. Afters \subseteq FiniteSubsetsOf(T) /\ Afters # {}
  <2>1. \A x \in T : After(x) \subseteq T /\ IsFiniteSet(After(x))
    BY FS_Subset
  <2> QED
    BY <2>1 DEF FiniteSubsetsOf
<1>2. PICK B \in Afters : \A C \in Afters : ~(<<C, B>> \in R)
  <2> HIDE DEF Afters
  <2> QED
    BY <1>1, WFMin, FS_StrictSubsetOrderingWellFounded, Zenon
<1>3. PICK m \in T : B = After(m)
  OBVIOUS
<1>4. ASSUME NEW b \in T, ~(b[2] <= m[2]) PROVE FALSE
  <2>1. After(b) \subseteq After(m) /\ b \in After(m) /\ b \notin After(b)
    BY <1>4
  <2>2. <<After(b), B>> \in R
    BY <1>3, <2>1 DEF StrictSubsetOrdering
  <2> QED
    BY <1>2, <2>2
<1> QED
  BY <1>4

\* Of matches of different ranks at most n have fewer than n before them.
LEMMA FirstRanked ==
  ASSUME NEW S, IsFiniteSet(S), NEW n \in Nat, \A m \in S : m[2] \in Nat,
         \A a, b \in S : a[2] = b[2] => a = b
  PROVE  LET T == {m \in S : Cardinality({b \in S : b[2] < m[2]}) < n}
         IN  Cardinality(T) <= n
<1> DEFINE Before(m) == {b \in S : b[2] < m[2]}
           T == {m \in S : Cardinality(Before(m)) < n}
<1>1. IsFiniteSet(T) /\ T \subseteq S
  BY FS_Subset
<1>2. CASE T = {}
  <2> HIDE DEF T
  <2>1. Cardinality(T) = 0
    BY <1>2, FS_EmptySet, Zenon
  <2> QED
    BY <2>1 DEF T, Before
<1>3. CASE T # {}
  <2>1. \A m \in T : m[2] \in Nat
    BY <1>1
  <2>2. PICK m \in T : \A b \in T : b[2] <= m[2]
    <3> HIDE DEF T
    <3> QED
      BY <1>1, <1>3, <2>1, LastRanked
  <2>3. T \ {m} \subseteq Before(m)
    <3> SUFFICES ASSUME NEW b \in T \ {m} PROVE b[2] < m[2]
      BY <1>1
    <3>1. b[2] <= m[2] /\ b[2] # m[2] /\ b[2] \in Nat /\ m[2] \in Nat
      BY <1>1, <2>1, <2>2
    <3> QED
      BY <3>1
  <2>4. IsFiniteSet(Before(m))
    BY FS_Subset
  <2>5. /\ Cardinality(Before(m)) \in Nat /\ Cardinality(Before(m)) < n
    BY <2>4, FS_CardinalityType
  <2> HIDE DEF T, Before
  <2>6. Cardinality(T \ {m}) <= Cardinality(Before(m))
    BY <2>3, <2>4, FS_Subset
  <2>7. Cardinality(T \ {m}) = Cardinality(T) - 1 /\ Cardinality(T) \in Nat
    BY <1>1, FS_RemoveElement, FS_CardinalityType
  <2> QED
    BY <2>5, <2>6, <2>7 DEF T, Before
<1> QED
  BY <1>2, <1>3

Capped == Cardinality(searchResults) <= MaxShown[searchType]

\* What updateResults() publishes is within the cap.
LEMMA PublishedCapped ==
  ASSUME SearchInv, SearchInv', UpdateResults, UNCHANGED <<search, searchType>>
  PROVE  Capped'
<1>1. /\ searchType \in SearchTypes /\ MaxShown[searchType] \in Nat
      /\ resultsArray' \subseteq (1 .. MaxSearches) \X Keys
      /\ \A m \in resultsArray' : m[1] = search
  BY WordFinderAssumption DEF SearchInv, TypeInv, ResultsAreOfThisSearch
<1> DEFINE S == resultsArray'
           n == MaxShown[searchType]
<1>2. IsFiniteSet(S)
  <2>1. IsFiniteSet(Keys) /\ IsFiniteSet({search})
    BY WordFinderAssumption, FS_Singleton
  <2>2. IsFiniteSet({search} \X Keys)
    BY <2>1, FS_Product
  <2>3. S \subseteq {search} \X Keys
    BY <1>1
  <2> QED
    BY <2>2, <2>3, FS_Subset
<1>3. (\A m \in S : m[2] \in Nat) /\ \A a, b \in S : a[2] = b[2] => a = b
  <2>1. \A m \in S : m = <<search, m[2]>> /\ m[2] \in Keys
    BY <1>1
  <2>2. \A a, b \in S : a[2] = b[2] => a = b
    BY <2>1, Zenon
  <2> QED
    BY <2>1, <2>2, WordFinderAssumption
<1>4. n \in Nat /\ searchResults' \in Published(S) /\ Cardinality(S) \in Nat
  BY <1>1, <1>2, FS_CardinalityType DEF UpdateResults
<1> HIDE DEF S, n
<1>5. CASE searchType = "ExpressionMatch"
  BY <1>1, <1>4, <1>5 DEF Published, Capped, n
<1>6. CASE searchType # "ExpressionMatch"
  <2>1. searchResults' = {m \in S : Cardinality({b \in S : b[2] < m[2]}) < n}
    BY <1>4, <1>6 DEF Published, n
  <2>2. Cardinality(searchResults') <= n
    BY <1>2, <1>3, <1>4, <2>1, FirstRanked
  <2> QED
    BY <2>2 DEF Capped, n
<1> QED
  BY <1>5, <1>6

LEMMA CappedStep == SearchInv /\ Capped /\ [Next]_vars => Capped'
<1> SUFFICES ASSUME SearchInv, Capped, [Next]_vars PROVE Capped'
  OBVIOUS
<1>1. SearchInv'
  BY SearchStep
<1>2. CASE UpdateResults /\ UNCHANGED <<search, searchType>>
  BY <1>1, <1>2, PublishedCapped
<1>3. CASE UNCHANGED <<searchType, searchResults>>
  BY <1>3 DEF Capped
<1>4. CASE searchType' \in SearchTypes /\ searchResults' = {}
  BY <1>4, FS_EmptySet, WordFinderAssumption DEF Capped
<1>5. ASSUME NEW type \in SearchTypes, Search(type) PROVE Capped'
  BY <1>4, <1>5 DEF Search
<1>6. CASE Cancel \/ ClearBegin \/ ClearEnd
  BY <1>3, <1>6 DEF Cancel, ClearBegin, ClearEnd, StopSearch
<1>7. CASE PollBegin \/ PollEndIdle \/ PollEndStart \/ PollEndWait \/ TimerFires
  BY <1>3, <1>7 DEF PollBegin, PollEndIdle, PollEndStart, PollEndWait, TimerFires,
                    finderVars
<1>8. ASSUME NEW r \in Request, PollSkip(r) \/ PollTake(r) \/ WorkerStep(r)
      PROVE  Capped'
  BY <1>3, <1>8 DEF PollSkip, PollTake, WorkerStep, AddMatch, RaiseFlag, EmitFinished, finderVars
<1>9. CASE PollEndUpdate
  BY <1>2, <1>9 DEF PollEndUpdate
<1>10. CASE TimeoutDelivered
  BY <1>2, <1>3, <1>10 DEF TimeoutDelivered, OldQueuedSignal
<1>11. CASE UNCHANGED vars
  BY <1>3, <1>11 DEF vars, finderVars
<1> QED
  BY <1>5, <1>6, <1>7, <1>8, <1>9, <1>10, <1>11 DEF Next, GuiStep

\* The list the callers see never exceeds the cap of its kind of search, whatever
\* the dictionaries answer and in whatever order.
THEOREM ListCapped == Spec => []TypeOK
<1>1. Init => Capped
  BY FS_EmptySet, WordFinderAssumption DEF Init, Capped
<1>2. SearchInv /\ Capped => TypeOK
  BY DEF SearchInv, Capped, TypeOK
<1> QED
  BY <1>1, <1>2, CappedStep, SearchInvariant, PTL DEF Spec
=============================================================================
