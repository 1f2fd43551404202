---------------------------- MODULE FtsIndexing ----------------------------
(***************************************************************************)
(* Building the full-text indexes in the background: FtsIndexing of the     *)
(* GUI thread and the Indexing runnable (src/src/fulltextsearch.cc), the    *)
(* makeFTSIndex() of the dictionaries (src/src/dict/stardict.cc and the     *)
(* others) and that of FtsHelpers (src/src/ftshelpers.cc), with what they   *)
(* leave on the disk when they are cancelled or the program dies.           *)
(***************************************************************************)
EXTENDS Naturals, Sequences, FiniteSets, SequencesExt

CONSTANTS
  NDicts,
  Unreadable,  \* dictionaries whose ensureInitDone() fails
  Addresses,   \* of the articles of a dictionary
  Mark,        \* finish_mark, the document that ends an index
  Parallel,    \* parallelThreads
  PoolSize,    \* threads of the global pool
  MaxCrashes,  \* bound: how often the program dies
  MaxFailures  \* bound: how often the index library fails

Dicts == 1 .. NDicts

ASSUME FtsAssumption ==
  /\ NDicts \in Nat /\ Unreadable \subseteq Dicts
  /\ Addresses \subseteq Nat /\ IsFiniteSet(Addresses) /\ Mark \notin Addresses
  /\ Parallel \in Nat \ {0} /\ PoolSize \in Nat \ {0, 1}
  /\ MaxCrashes \in Nat /\ MaxFailures \in Nat

\* The number a document's data reads as: the mark reads as 0.
Number(doc) == IF doc = Mark THEN 0 ELSE doc

\* The orders in which a process may enumerate the set of addresses.
Orders == SetToSeqs(Addresses)

VARIABLES
  gui,          \* "idle", "stopping", "cleared" (no dictionaries), or "down"
  started, isCancelled,
  indexingExited, \* the semaphore the runnable releases when it is gone
  indexing,     \* where the runnable is; "off" if there is none
  at,           \* the dictionary its loop has come to
  sem,          \* what is left of the semaphore that bounds the builds
  build,        \* build[d]: where the task of d is; "none" if there is none
  completed,    \* dictionaries with FTS_index_completed
  todo,         \* todo[d]: addresses the build of d has still to index
  docs,         \* docs[d]: documents of the build of d, committed or not
  temp, final,  \* temp[d], final[d]: indexes of d on the disk
  order,        \* how this process enumerates addresses
  cut,          \* dictionaries whose latest build was cut short
  failed,       \* dictionaries whose latest build the index library failed
  leftBehind,   \* dictionaries with a temporary index left by an earlier
                \* process, with its mark on, or not read when it was taken up
  crashes, failures

guiVars == <<gui, started, isCancelled>>
leftVars == <<leftBehind, crashes, failures>>
diskVars == <<temp, final, order, leftVars>>
buildVars == <<build, completed, todo, docs, cut, failed>>
vars == <<guiVars, indexingExited, indexing, at, sem, buildVars, diskVars>>

Init ==
  /\ gui = "cleared" /\ started = FALSE /\ isCancelled = FALSE
  /\ indexingExited = 0 /\ indexing = "off" /\ at = 1 /\ sem = Parallel
  /\ build = [d \in Dicts |-> "none"] /\ completed = {}
  /\ todo = [d \in Dicts |-> <<>>] /\ docs = [d \in Dicts |-> <<>>]
  /\ temp = [d \in Dicts |-> <<>>] /\ final = [d \in Dicts |-> <<>>]
  /\ order \in Orders
  /\ cut = {} /\ failed = {} /\ leftBehind = {} /\ crashes = 0 /\ failures = 0

-----------------------------------------------------------------------------
(* The GUI thread. *)

\* Mutated form: what stopped the last runnable stops the next one too.
StillCancelled == isCancelled

NotCancelled == FALSE

\* setDictionaries() and doIndexing(), after a stopIndexing().
DoIndexing ==
  /\ gui = "cleared"
  /\ gui' = "idle" /\ started' = TRUE /\ isCancelled' = NotCancelled
  /\ indexing' = "queued" /\ at' = 1
  /\ UNCHANGED <<indexingExited, sem, buildVars, diskVars>>

\* stopIndexing(): cancels, and waits for the runnable to be gone.
StopIndexing ==
  /\ gui = "idle"
  /\ gui' = "stopping" /\ isCancelled' = TRUE
  /\ UNCHANGED <<started, indexingExited, indexing, at, sem, buildVars, diskVars>>

\* The end of stopIndexing(), and clearDictionaries().
StopReturns ==
  /\ gui = "stopping" /\ indexingExited > 0
  /\ indexingExited' = indexingExited - 1
  /\ gui' = "cleared" /\ started' = FALSE
  /\ UNCHANGED <<isCancelled, indexing, at, sem, buildVars, diskVars>>

\* The dictionaries are loaded anew while nothing indexes them.
Reload ==
  /\ gui = "cleared"
  /\ completed' = {} /\ cut' = {} /\ failed' = {}
  /\ UNCHANGED <<guiVars, indexingExited, indexing, at, sem, build, todo, docs, diskVars>>

-----------------------------------------------------------------------------
(* The runnable, on a thread of the global pool. *)

Active == {d \in Dicts : build[d] \notin {"none", "queued"}}
ThreadFree ==
  Cardinality(Active) + (IF indexing \in {"off", "queued"} THEN 0 ELSE 1)
    < PoolSize

IndexingStarts ==
  /\ indexing = "queued" /\ ThreadFree
  /\ indexing' = "loop"
  /\ UNCHANGED <<guiVars, indexingExited, at, sem, buildVars, diskVars>>

\* One round of the loop over the dictionaries.
IndexingLoops ==
  /\ indexing = "loop"
  /\ \/ /\ isCancelled \/ at > NDicts
        /\ indexing' = "wait" /\ UNCHANGED <<at, sem, build>>
     \/ /\ ~isCancelled /\ at \in completed
        /\ at' = at + 1 /\ UNCHANGED <<indexing, sem, build>>
     \/ /\ ~isCancelled /\ at \in Dicts \ completed
        /\ indexing' = "acquire" /\ UNCHANGED <<at, sem, build>>
  /\ UNCHANGED <<guiVars, indexingExited, completed, todo, docs, cut, failed, diskVars>>

MayBuild == sem > 0

IndexingQueues ==
  /\ indexing = "acquire" /\ MayBuild
  /\ sem' = sem - 1
  /\ build' = [build EXCEPT ![at] = "queued"]
  /\ at' = at + 1 /\ indexing' = "loop"
  /\ UNCHANGED <<guiVars, indexingExited, completed, todo, docs, cut, failed, diskVars>>

\* Mutated form: the tasks are not waited for.
AnyWay == TRUE

NoBuild == \A d \in Dicts : build[d] = "none"

\* Mutated form: the semaphore is not released.
NotReleased == indexingExited

Released == indexingExited + 1

\* waitForFinished() of the synchronizer, and the destructor.
IndexingExits ==
  /\ indexing = "wait" /\ NoBuild
  /\ indexing' = "off" /\ indexingExited' = Released
  /\ UNCHANGED <<guiVars, at, sem, buildVars, diskVars>>

-----------------------------------------------------------------------------
(* The task of a dictionary: its makeFTSIndex(). *)

Marked(index) == index # <<>> /\ Last(index) = Mark

\* The task is over; the semaphore is released by a destructor.
Over(d) ==
  /\ build' = [build EXCEPT ![d] = "none"]
  /\ sem' = sem + 1
  /\ todo' = [todo EXCEPT ![d] = <<>>] /\ docs' = [docs EXCEPT ![d] = <<>>]

\* A task starts on a thread of the pool, or on that of the runnable, which
\* runs what it waits for.  A finished index found on the disk is taken.
BuildStarts(d) ==
  /\ build[d] = "queued" /\ (ThreadFree \/ indexing = "wait")
  /\ \/ /\ Marked(final[d])
        /\ completed' = completed \cup {d} /\ Over(d)
     \/ /\ ~Marked(final[d]) /\ d \in Unreadable
        /\ Over(d) /\ UNCHANGED completed
     \/ /\ ~Marked(final[d]) /\ d \notin Unreadable
        /\ build' = [build EXCEPT ![d] = "opening"]
        /\ UNCHANGED <<completed, sem, todo, docs>>
  /\ UNCHANGED <<guiVars, indexingExited, indexing, at, cut, failed, diskVars>>

\* Mutated form: what was left is begun again from its start.
FromStart(d) == order

\* What is left to index: what comes after the last document of the temporary
\* index, and nothing if that is not among the addresses.
Remaining(d) ==
  IF temp[d] = <<>> THEN order
  ELSE LET lastAt == {i \in DOMAIN order : order[i] = Number(Last(temp[d]))}
       IN  IF lastAt = {} THEN <<>>
           ELSE SubSeq(order, (CHOOSE i \in lastAt : TRUE) + 1, Len(order))

\* The library may fail, a bounded number of times.
LibraryFails == failures < MaxFailures /\ failures' = failures + 1

\* The last document cannot be read: all articles are indexed behind it.
LastUnread(d) ==
  /\ temp[d] # <<>> /\ LibraryFails
  /\ todo' = [todo EXCEPT ![d] = order]
  /\ leftBehind' = leftBehind \cup {d}
  /\ UNCHANGED crashes

\* FtsHelpers::makeFTSIndex() up to its loop; if cancelled it throws, and the
\* index is not completed.
BuildOpens(d) ==
  /\ build[d] = "opening"
  /\ IF isCancelled THEN Over(d) /\ UNCHANGED leftVars
     ELSE /\ build' = [build EXCEPT ![d] = "indexing"]
          /\ docs' = [docs EXCEPT ![d] = temp[d]]
          /\ \/ /\ todo' = [todo EXCEPT ![d] = Remaining(d)]
                /\ UNCHANGED leftVars
             \/ LastUnread(d)
          /\ UNCHANGED sem
  /\ UNCHANGED <<guiVars, indexingExited, indexing, at, completed, cut, failed, temp, final, order>>

IndexArticle(d) ==
  /\ build[d] = "indexing" /\ todo[d] # <<>> /\ ~isCancelled
  /\ docs' = [docs EXCEPT ![d] = Append(@, Head(todo[d]))]
  /\ todo' = [todo EXCEPT ![d] = Tail(@)]
  /\ UNCHANGED <<guiVars, indexingExited, indexing, at, sem, build, completed, cut, failed, diskVars>>

\* The loop returns when cancelled: to its caller the index is made.
BuildEndsEarly(d) ==
  /\ build[d] = "indexing" /\ todo[d] # <<>> /\ isCancelled
  /\ temp' = [temp EXCEPT ![d] = docs[d]]
  /\ completed' = completed \cup {d} /\ cut' = cut \cup {d}
  /\ Over(d)
  /\ UNCHANGED <<guiVars, indexingExited, indexing, at, failed, final, order, leftVars>>

\* Mutated form: the end is not marked.
NoMark(list) == list

WithMark(list) == Append(list, Mark)

\* The end is marked and everything committed.
BuildCommits(d) ==
  /\ build[d] = "indexing" /\ todo[d] = <<>>
  /\ temp' = [temp EXCEPT ![d] = WithMark(docs[d])]
  /\ build' = [build EXCEPT ![d] = "compacting"]
  /\ UNCHANGED <<guiVars, indexingExited, indexing, at, sem, completed, todo, docs, cut, failed, final, order, leftVars>>

BuildCompacts(d) ==
  /\ build[d] = "compacting"
  /\ final' = [final EXCEPT ![d] = temp[d]]
  /\ build' = [build EXCEPT ![d] = "removing"]
  /\ UNCHANGED <<guiVars, indexingExited, indexing, at, sem, completed, todo, docs, cut, failed, temp, order, leftVars>>

BuildEnds(d) ==
  /\ build[d] = "removing"
  /\ temp' = [temp EXCEPT ![d] = <<>>]
  /\ completed' = completed \cup {d}
  /\ Over(d)
  /\ UNCHANGED <<guiVars, indexingExited, indexing, at, cut, failed, final, order, leftVars>>

\* What of the documents reached the disk: some of those not committed.
Kept(d) ==
  IF build[d] = "indexing"
  THEN {SubSeq(docs[d], 1, n) : n \in Len(temp[d]) .. Len(docs[d])}
  ELSE {temp[d]}

\* What a failure leaves in the temporary index; the mark, if it was being
\* committed, or had been.
LeftOver(d) ==
  Kept(d) \cup (IF build[d] = "indexing" /\ todo[d] = <<>>
               THEN {WithMark(docs[d])} ELSE {})

\* An error of the library: in opening the temporary index, in adding or
\* committing documents, or in compacting, which leaves a final index that
\* cannot be read.  It is caught and logged: to the caller the index is made.
BuildFails(d) ==
  /\ LibraryFails
  /\ \/ build[d] = "opening" /\ ~isCancelled
     \/ build[d] = "indexing" /\ (todo[d] = <<>> \/ ~isCancelled)
     \/ build[d] = "compacting"
  /\ \E left \in LeftOver(d) : temp' = [temp EXCEPT ![d] = left]
  /\ leftBehind' = leftBehind \cup {e \in {d} : Marked(temp'[e])}
  /\ final' = [final EXCEPT ![d] = IF build[d] = "compacting" THEN <<>> ELSE @]
  /\ completed' = completed \cup {d} /\ failed' = failed \cup {d}
  /\ Over(d)
  /\ UNCHANGED <<guiVars, indexingExited, indexing, at, cut, order, crashes>>

-----------------------------------------------------------------------------
(* The process. *)

\* The program dies, or ends after stopIndexing(); another one starts, with
\* an order of its own.
Restart ==
  /\ temp' \in [Dicts -> UNION {Kept(d) : d \in Dicts}]
  /\ \A d \in Dicts : temp'[d] \in Kept(d)
  /\ leftBehind' = leftBehind \cup {d \in Dicts : temp'[d] # <<>>}
  /\ order' \in Orders
  /\ gui' = "cleared" /\ started' = FALSE /\ isCancelled' = FALSE
  /\ indexingExited' = 0 /\ indexing' = "off" /\ at' = 1 /\ sem' = Parallel
  /\ build' = [d \in Dicts |-> "none"] /\ completed' = {}
  /\ cut' = {} /\ failed' = {}
  /\ todo' = [d \in Dicts |-> <<>>] /\ docs' = [d \in Dicts |-> <<>>]
  /\ UNCHANGED <<final, failures>>

Crash == crashes < MaxCrashes /\ crashes' = crashes + 1 /\ Restart

-----------------------------------------------------------------------------
BuildStep(d) ==
  \/ BuildStarts(d) \/ BuildOpens(d) \/ IndexArticle(d) \/ BuildEndsEarly(d)
  \/ BuildCommits(d) \/ BuildCompacts(d) \/ BuildEnds(d) \/ BuildFails(d)

IndexingStep == IndexingStarts \/ IndexingLoops \/ IndexingQueues \/ IndexingExits

Next ==
  \/ DoIndexing \/ StopIndexing \/ StopReturns \/ Reload
  \/ IndexingStep
  \/ \E d \in Dicts : BuildStep(d)
  \/ Crash

\* Threads run on.
Fairness ==
  /\ WF_vars(StopReturns)
  /\ WF_vars(IndexingStep)
  /\ \A d \in Dicts : WF_vars(BuildStep(d))

Spec == Init /\ [][Next]_vars /\ Fairness

-----------------------------------------------------------------------------
(* Properties. *)

Documents == Addresses \cup {Mark}

\* While the dictionaries are cleared or replaced no thread is at work on them:
\* stopIndexing() has waited for the runnable, and that for its tasks.
NothingAtWork ==
  gui = "cleared" => indexing = "off" /\ \A d \in Dicts : build[d] = "none"

\* An index marked as ended has every article, once, however its build was
\* stopped, failed and taken up again; but for one that went on from a temporary
\* index begun by an earlier process, which may have enumerated the articles in
\* another order, or left by a failure with its mark on, or whose last document
\* could not be read.
IndexIsWhole ==
  \A d \in Dicts \ leftBehind :
    Marked(final[d]) => /\ ToSet(final[d]) = Documents
                        /\ Len(final[d]) = Cardinality(Documents)

\* A dictionary that says it has its index has one that is marked as ended,
\* whatever earlier builds were stopped at, killed at or left; but for one whose
\* build in this process was cut short or failed.
CompletedIsMade == \A d \in completed \ (cut \cup failed) : Marked(final[d])

\* "Dictionary have index for full-text search", says the comment of
\* haveFTSIndex() (src/src/dict/dictionary.hh).
CompletedIsThere == \A d \in completed : Marked(final[d])

\* stopIndexing() returns: the GUI thread is not left waiting.
StopsInTheEnd == gui = "stopping" ~> gui # "stopping"

\* If indexing is left alone from some time on, every dictionary that can be
\* read says it has its index in the end.
AllCompleted ==
  <>[](gui = "idle") => <>(Dicts \ Unreadable \subseteq completed)
=============================================================================
