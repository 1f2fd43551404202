---------------------------- MODULE ResourceReply ----------------------------
(***************************************************************************)
(* A resource or an article on its way to the page view                    *)
(* (src/src/article_netmgr.cc, src/src/dict/dictionary.cc).  A worker fills *)
(* a DataRequest; an ArticleResourceReply, in the GUI thread, turns it into *)
(* a network reply that announces readyRead() and finished() and lets the   *)
(* view read.  The worker, the GUI thread and the reader run concurrently.  *)
(* Data is abstracted to its number of slices.                              *)
(***************************************************************************)
EXTENDS Integers, Sequences

CONSTANTS
  MaxData,     \* most slices a request may produce
  MaxRead,     \* most slices one read() asks for
  MaxUpdates   \* bound on the updated() signals of a request

ASSUME ResourceReplyAssumption ==
  MaxData \in Nat /\ MaxRead \in Nat \ {0} /\ MaxUpdates \in Nat

VARIABLES
  data, hasAnyData, isFinished,  \* the DataRequest
  worker,                        \* "working", "emitting" finished(), "gone"
  updates,                       \* updated() signals emitted
  posted,                        \* events posted to the reply, oldest first
  reply,                         \* where the constructor is; then "loop", "gone"
  finishSignalSent,
  sent, error,                   \* finished() signals, errorOccurred() or not
  notified,                      \* the reader has been told to read
  reader, sawFinished, sawSize,  \* readData() and its locals
  alreadyRead, eof               \* slices read; readData() returned -1

reqVars == <<data, hasAnyData, isFinished>>
workVars == <<worker, updates>>
outcomeVars == <<finishSignalSent, sent, error>>
replyVars == <<reply, outcomeVars>>
readLocals == <<sawFinished, sawSize, alreadyRead, eof>>
readVars == <<reader, readLocals>>
vars == <<reqVars, workVars, posted, replyVars, notified, readVars>>

Init ==
  /\ data = 0 /\ hasAnyData = FALSE /\ isFinished = FALSE
  /\ worker = "working" /\ updates = 0
  /\ posted = <<>>
  /\ reply = "connect" /\ finishSignalSent = FALSE /\ sent = 0 /\ error = FALSE
  /\ notified = FALSE
  /\ reader = "idle" /\ sawFinished = FALSE /\ sawSize = -1
  /\ alreadyRead = 0 /\ eof = FALSE

-----------------------------------------------------------------------------
(* DataRequest. *)

\* dataSize() waits on the condition, once, if there is a promise of data and none.
SizeReady == ~(hasAnyData /\ data = 0 /\ ~isFinished)

DataSize == IF hasAnyData THEN data ELSE -1

\* cond.wakeAll(), under the lock of the data: who waits goes on with the size as
\* it will be then, and does not look a second time whether there is any.
Woken(caller) == IF caller = "asleep" THEN "woken" ELSE caller

WakeAll == reply' = Woken(reply) /\ reader' = Woken(reader)

\* Signals reach the reply only once it has connected to them.
Post(event) == IF reply = "connect" THEN posted ELSE Append(posted, event)

-----------------------------------------------------------------------------
(* The worker. *)

\* Mutated form: nobody is woken.
AppendSilently ==
  /\ worker = "working" /\ data < MaxData
  /\ data' = data + 1
  /\ UNCHANGED <<hasAnyData, isFinished, workVars, posted, replyVars, notified,
                 readVars>>

\* appendDataSlice(), appendString(); what is appended may be empty.
AppendData ==
  /\ worker = "working" /\ data < MaxData
  /\ data' \in {data, data + 1}
  /\ WakeAll
  /\ UNCHANGED <<hasAnyData, isFinished, workVars, posted, outcomeVars,
                 notified, readLocals>>

\* The request exists: most dictionaries set this after the data is there, a
\* streamed article before.
PromiseData ==
  /\ worker = "working" /\ ~hasAnyData
  /\ hasAnyData' = TRUE
  /\ UNCHANGED <<data, isFinished, workVars, posted, replyVars,
                 notified, readVars>>

\* update(): a streamed article tells of each part.
EmitUpdated ==
  /\ worker = "working" /\ ~isFinished /\ updates < MaxUpdates
  /\ updates' = updates + 1
  /\ posted' = Post("updated")
  /\ UNCHANGED <<reqVars, worker, replyVars, notified, readVars>>

\* finish() raises the flag under the lock and wakes dataSize() ...
RaiseFlag ==
  /\ worker = "working"
  /\ isFinished' = TRUE
  /\ worker' = "emitting"
  /\ WakeAll
  /\ UNCHANGED <<data, hasAnyData, updates, posted, outcomeVars,
                 notified, readLocals>>

\* ... and emits finished() outside it.
EmitFinished ==
  /\ worker = "emitting"
  /\ worker' = "gone"
  /\ posted' = Post("finished")
  /\ UNCHANGED <<reqVars, updates, replyVars, notified, readVars>>

Worker == AppendData \/ PromiseData \/ EmitUpdated \/ RaiseFlag \/ EmitFinished

-----------------------------------------------------------------------------
(* The reply: its constructor, step by step, ... *)

Connect ==
  /\ reply = "connect"
  /\ reply' = "check"
  /\ UNCHANGED <<reqVars, workVars, posted, finishSignalSent, sent, error,
                 notified, readVars>>

\* Mutated form: only the size decides.
CheckSizeOnly ==
  /\ reply = "check"
  /\ reply' = "size"
  /\ UNCHANGED <<reqVars, workVars, posted, finishSignalSent, sent, error,
                 notified, readVars>>

\* if ( req->isFinished() || ...
CheckFinished ==
  /\ reply = "check"
  /\ reply' = IF isFinished THEN "announce" ELSE "size"
  /\ UNCHANGED <<reqVars, workVars, posted, finishSignalSent, sent, error,
                 notified, readVars>>

\* ... || req->dataSize() > 0 )
CheckSize ==
  /\ (reply = "size" /\ SizeReady) \/ reply = "woken"
  /\ reply' = IF DataSize > 0 THEN "announce" ELSE "loop"
  /\ UNCHANGED <<reqVars, workVars, posted, finishSignalSent, sent, error,
                 notified, readVars>>

WaitForSize ==
  /\ reply = "size" /\ ~SizeReady
  /\ reply' = "asleep"
  /\ UNCHANGED <<reqVars, workVars, posted, outcomeVars, notified, readVars>>

\* emit readyReadSignal(), posted to be handled after the construction.
Announce ==
  /\ reply = "announce"
  /\ posted' = Append(posted, "readyReadSignal")
  /\ reply' = "recheck"
  /\ UNCHANGED <<reqVars, workVars, finishSignalSent, sent, error, notified,
                 readVars>>

\* if ( req->isFinished() ) emit finishedSignal().
InPlaceFinish ==
  /\ reply = "recheck"
  /\ posted' = IF isFinished THEN Append(posted, "finishedSignal") ELSE posted
  /\ reply' = "loop"
  /\ UNCHANGED <<reqVars, workVars, finishSignalSent, sent, error, notified,
                 readVars>>

(* ... and its slots. *)

\* Mutated form: finished() is emitted each time.
MaySendAgain == TRUE

NotSentYet == ~finishSignalSent

\* finishedSlot(), of a request that is finished, so that dataSize() does not wait.
FinishedSlot ==
  /\ error' = (error \/ DataSize < 0)
  /\ finishSignalSent' = TRUE
  /\ sent' = IF NotSentYet THEN sent + 1 ELSE sent

Deliver(event) ==
  /\ reply = "loop"
  /\ posted # <<>> /\ Head(posted) = event
  /\ posted' = Tail(posted)
  /\ notified' = TRUE

\* reqUpdated() and readyReadSlot() announce data.
ReadyRead ==
  /\ Deliver("updated") \/ Deliver("readyReadSignal")
  /\ UNCHANGED <<reqVars, workVars, replyVars, readVars>>

\* reqFinished() announces data first; finishedSignal() comes after
\* readyReadSignal() has been handled.
Finished ==
  /\ Deliver("finished") \/ Deliver("finishedSignal")
  /\ FinishedSlot
  /\ UNCHANGED <<reqVars, workVars, reply, readVars>>

\* The view drops the reply, which cancels the request: its worker may finish
\* at any point (RaiseFlag), heard or not.
Destroy ==
  /\ reply = "loop" /\ reader = "idle"
  /\ reply' = "gone"
  /\ UNCHANGED <<reqVars, workVars, posted,
                 finishSignalSent, sent, error, notified, readVars>>

Gui == Connect \/ CheckFinished \/ CheckSize \/ WaitForSize \/ Announce \/ InPlaceFinish
       \/ ReadyRead \/ Finished

-----------------------------------------------------------------------------
(* The reader: once notified it calls readData() until that returns nothing.
   The page view that does so is not part of the sources. *)

\* bool const finished = req->isFinished();
ReadBegin ==
  /\ reply = "loop" /\ reader = "idle" /\ notified /\ ~eof
  /\ notified' = FALSE
  /\ reader' = "begun"
  /\ sawFinished' = isFinished
  /\ UNCHANGED <<reqVars, workVars, posted, replyVars, sawSize, alreadyRead, eof>>

\* qint64 const avail = req->dataSize();
ReadSize ==
  /\ (reader = "begun" /\ SizeReady) \/ reader = "woken"
  /\ reader' = "sized"
  /\ sawSize' = DataSize
  /\ UNCHANGED <<reqVars, workVars, posted, replyVars, notified, sawFinished,
                 alreadyRead, eof>>

ReadWait ==
  /\ reader = "begun" /\ ~SizeReady
  /\ reader' = "asleep"
  /\ UNCHANGED <<reqVars, workVars, posted, replyVars, notified, readLocals>>

\* Mutated form: whether the request is finished is asked again at the end.
FinishedNow == isFinished

FinishedAtStart == sawFinished

ToRead == IF sawSize - alreadyRead < MaxRead THEN sawSize - alreadyRead
          ELSE MaxRead

ReadEnd ==
  /\ reader = "sized"
  /\ reader' = "idle"
  /\ \/ /\ sawSize < 0 \/ ToRead = 0
        /\ eof' = FinishedAtStart
        /\ UNCHANGED <<alreadyRead, notified>>
     \/ /\ sawSize >= 0 /\ ToRead > 0
        /\ alreadyRead' = alreadyRead + ToRead
        /\ notified' = TRUE
        /\ eof' = eof
  /\ UNCHANGED <<reqVars, workVars, posted, replyVars, sawFinished, sawSize>>

Reader == ReadBegin \/ ReadSize \/ ReadWait \/ ReadEnd

-----------------------------------------------------------------------------
Next == Worker \/ Gui \/ Destroy \/ Reader

\* A worker runs to its end; the event loop delivers what is posted; the view
\* reads what it is told of.
Fairness ==
  /\ WF_vars(RaiseFlag) /\ WF_vars(EmitFinished)
  /\ WF_vars(Gui)
  /\ WF_vars(Reader)

Spec == Init /\ [][Next]_vars /\ Fairness

-----------------------------------------------------------------------------
(* Properties. *)

\* Every variable has its type.
TypeOK ==
  /\ data \in 0 .. MaxData
  /\ hasAnyData \in BOOLEAN /\ isFinished \in BOOLEAN
  /\ worker \in {"working", "emitting", "gone"}
  /\ updates \in 0 .. MaxUpdates
  /\ posted \in Seq({"updated", "finished", "readyReadSignal", "finishedSignal"})
  /\ reply \in {"connect", "check", "size", "asleep", "woken", "announce", "recheck",
               "loop", "gone"}
  /\ finishSignalSent \in BOOLEAN
  /\ sent \in 0 .. 1
  /\ error \in BOOLEAN /\ notified \in BOOLEAN
  /\ reader \in {"idle", "begun", "asleep", "woken", "sized"}
  /\ sawFinished \in BOOLEAN
  /\ sawSize \in -1 .. MaxData
  /\ alreadyRead \in 0 .. MaxData
  /\ eof \in BOOLEAN

\* The end of the data is reported only when all of it has been read, although
\* the worker may append and finish between any two steps of readData().
EofMeansAllRead ==
  eof => isFinished /\ (hasAnyData => alreadyRead = data)

\* finished() is emitted for finished requests alone, and says "content not
\* found" exactly when the request never promised any.
VerdictIsFinal ==
  sent > 0 => isFinished /\ (error <=> ~hasAnyData)

\* Whether it finished before, during or after the construction of its reply, the
\* view gets all of the data of a request and the end of it, unless it drops the
\* reply.
AllDelivered == <>(eof \/ reply = "gone")

\* Nobody who waits in dataSize() sleeps on when there is data or the end of it:
\* the size is looked at before the wait and not in a loop around it
\* (src/src/dict/dictionary.cc:116), so that a wake-up lost is not made up for.
WokenInTime ==
  "asleep" \in {reply, reader} => ~SizeReady
=============================================================================
