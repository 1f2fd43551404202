------------------------- MODULE ResourceReplyProofs -------------------------
(***************************************************************************)
(* Proofs about ResourceReply, for any amount of data, any size of a read   *)
(* and any number of updated() signals.                                     *)
(***************************************************************************)
EXTENDS ResourceReply, SequenceTheorems, TLAPS

Events == {"updated", "finished", "readyReadSignal", "finishedSignal"}

EndEvents == {"finished", "finishedSignal"}

\* The flag is the worker's, and it adds nothing once it has raised it.
WorkerInv ==
  /\ worker \in {"working", "emitting", "gone"}
  /\ isFinished \in BOOLEAN /\ (isFinished <=> worker # "working")
  /\ hasAnyData \in BOOLEAN
  /\ data \in 0 .. MaxData
  /\ updates \in 0 .. MaxUpdates

\* What is posted is of the four kinds, and an end is posted only of a request
\* that is finished.
PostedInv ==
  /\ posted \in Seq(Events)
  /\ \A i \in DOMAIN posted : posted[i] \in EndEvents => isFinished

\* finished() is emitted once, the flag telling whether it was, and no error is
\* known before.
ReplyInv ==
  /\ reply \in {"connect", "check", "size", "asleep", "woken", "announce", "recheck",
               "loop", "gone"}
  /\ sent \in 0 .. 1 /\ finishSignalSent \in BOOLEAN
  /\ (finishSignalSent <=> sent = 1)
  /\ error \in BOOLEAN /\ (error => sent = 1)
  /\ notified \in BOOLEAN
  /\ sent = 1 => isFinished /\ (error <=> ~hasAnyData)

\* The locals of readData(): a reader that saw the flag raised, and then took
\* the size, took the final one, and had not to wait for it.
ReadInv ==
  /\ reader \in {"idle", "begun", "asleep", "woken", "sized"}
  /\ sawFinished \in BOOLEAN /\ eof \in BOOLEAN
  /\ sawSize \in -1 .. MaxData
  /\ alreadyRead \in 0 .. data
  /\ reader # "idle" => ~eof /\ (sawFinished => isFinished)
  /\ reader \in {"asleep", "woken"} => ~sawFinished
  /\ reader = "sized" =>
       /\ sawSize <= data /\ (sawSize < 0 \/ alreadyRead <= sawSize)
       /\ sawFinished => sawSize = DataSize
  /\ eof => isFinished /\ (hasAnyData => alreadyRead = data)

ReplyIInv == WorkerInv /\ PostedInv /\ ReplyInv /\ ReadInv /\ WokenInTime

-----------------------------------------------------------------------------
\* Posting an event keeps PostedInv if an end is posted of a finished request.
LEMMA PostedAppend ==
  ASSUME PostedInv, NEW e \in Events, e \in EndEvents => isFinished',
         isFinished => isFinished', posted' = Append(posted, e)
  PROVE  PostedInv'
<1>1. posted' \in Seq(Events) /\ Len(posted') = Len(posted) + 1
      /\ posted'[Len(posted) + 1] = e
      /\ \A i \in 1 .. Len(posted) : posted'[i] = posted[i]
  BY AppendProperties DEF PostedInv
<1>2. DOMAIN posted' = 1 .. Len(posted) + 1 /\ DOMAIN posted = 1 .. Len(posted)
      /\ Len(posted) \in Nat
  BY <1>1, LenProperties DEF PostedInv
<1>3. ASSUME NEW i \in DOMAIN posted', posted'[i] \in EndEvents PROVE isFinished'
  <2>1. CASE i = Len(posted) + 1
    BY <2>1, <1>1, <1>3
  <2>2. CASE i \in 1 .. Len(posted)
    BY <2>2, <1>1, <1>2, <1>3 DEF PostedInv
  <2> QED
    BY <2>1, <2>2, <1>2
<1> QED
  BY <1>1, <1>3 DEF PostedInv

\* So does delivering one.
LEMMA PostedTail ==
  ASSUME PostedInv, posted # <<>>, posted' = Tail(posted), isFinished' = isFinished
  PROVE  PostedInv'
<1>1. /\ posted' \in Seq(Events) /\ Len(posted') = Len(posted) - 1
      /\ \A i \in 1 .. Len(posted') : posted'[i] = posted[i + 1]
  BY HeadTailProperties DEF PostedInv
<1>2. DOMAIN posted' = 1 .. Len(posted) - 1 /\ DOMAIN posted = 1 .. Len(posted)
      /\ Len(posted) \in Nat
  BY <1>1, LenProperties DEF PostedInv
<1>3. \A i \in DOMAIN posted' : i + 1 \in DOMAIN posted /\ posted'[i] = posted[i + 1]
  BY <1>1, <1>2
<1> QED
  BY <1>1, <1>3 DEF PostedInv

\* The event delivered was posted of a request already finished.
LEMMA HeadEnds ==
  ASSUME PostedInv, posted # <<>>, Head(posted) \in EndEvents
  PROVE  isFinished
<1>1. 1 \in DOMAIN posted /\ Head(posted) = posted[1]
  BY HeadTailProperties, EmptySeq, LenProperties DEF PostedInv
<1> QED
  BY <1>1 DEF PostedInv

-----------------------------------------------------------------------------
\* The steps of the worker keep the invariant.
LEMMA WorkerStep ==
  ASSUME ReplyIInv, Worker PROVE ReplyIInv'
<1> USE ResourceReplyAssumption DEF ResourceReplyAssumption, ReplyIInv, WorkerInv
<1>1. PostedInv'
  <2>1. CASE UNCHANGED posted /\ (isFinished => isFinished')
    BY <2>1 DEF PostedInv
  <2>2. CASE posted' = Append(posted, "updated") /\ UNCHANGED isFinished
    BY <2>2, PostedAppend DEF Events, EndEvents
  <2>3. CASE posted' = Append(posted, "finished") /\ isFinished'
    BY <2>3, PostedAppend DEF Events, EndEvents
  <2>4. (UNCHANGED posted /\ (isFinished => isFinished'))
        \/ (posted' = Append(posted, "updated") /\ UNCHANGED isFinished)
        \/ (posted' = Append(posted, "finished") /\ isFinished')
    BY DEF Worker, AppendData, PromiseData, EmitUpdated, RaiseFlag, EmitFinished,
           Post, reqVars
  <2> QED
    BY <2>1, <2>2, <2>3, <2>4
<1>2. WorkerInv'
  <2>1. data' \in 0 .. MaxData /\ updates' \in 0 .. MaxUpdates
    BY DEF Worker, AppendData, PromiseData, EmitUpdated, RaiseFlag, EmitFinished,
           workVars, reqVars
  <2>2. /\ worker' \in {"working", "emitting", "gone"}
        /\ isFinished' \in BOOLEAN /\ (isFinished' <=> worker' # "working")
        /\ hasAnyData' \in BOOLEAN
    <3>1. CASE RaiseFlag
      BY <3>1 DEF RaiseFlag
    <3>2. CASE EmitFinished
      BY <3>2 DEF EmitFinished, reqVars
    <3>3. CASE PromiseData
      BY <3>3 DEF PromiseData, workVars
    <3>4. CASE AppendData \/ EmitUpdated
      BY <3>4 DEF AppendData, EmitUpdated, workVars, reqVars
    <3> QED
      BY <3>1, <3>2, <3>3, <3>4 DEF Worker
  <2> QED
    BY <2>1, <2>2
<1>3. ReplyInv'
  <2>1. UNCHANGED <<sent, finishSignalSent, error, notified>>
    BY DEF Worker, AppendData, PromiseData, EmitUpdated, RaiseFlag, EmitFinished,
           replyVars, outcomeVars
  <2>2. reply' \in {reply, Woken(reply)}
    BY DEF Worker, AppendData, PromiseData, EmitUpdated, RaiseFlag, EmitFinished,
           replyVars, WakeAll
  <2>3. isFinished => isFinished' /\ UNCHANGED hasAnyData
    BY DEF Worker, AppendData, PromiseData, EmitUpdated, RaiseFlag, EmitFinished, reqVars
  <2> QED
    BY <2>1, <2>2, <2>3 DEF ReplyInv, Woken
<1>4. ReadInv'
  <2>1. UNCHANGED <<sawFinished, sawSize, alreadyRead, eof>>
    BY DEF Worker, AppendData, PromiseData, EmitUpdated, RaiseFlag, EmitFinished,
           readVars, readLocals
  <2>2. reader' \in {reader, Woken(reader)}
    BY DEF Worker, AppendData, PromiseData, EmitUpdated, RaiseFlag, EmitFinished,
           readVars, WakeAll
  <2>3. /\ data' >= data
        /\ isFinished => isFinished' /\ UNCHANGED <<data, hasAnyData>>
    BY DEF Worker, AppendData, PromiseData, EmitUpdated, RaiseFlag, EmitFinished, reqVars
  <2> QED
    BY <2>1, <2>2, <2>3, <1>2 DEF ReadInv, DataSize, Woken
<1>5. WokenInTime'
  <2>1. CASE AppendData \/ RaiseFlag
    <3>1. reply' = Woken(reply) /\ reader' = Woken(reader)
      BY <2>1 DEF AppendData, RaiseFlag, WakeAll
    <3> QED
      BY <3>1 DEF WokenInTime, Woken
  <2>2. CASE EmitUpdated \/ EmitFinished
    BY <2>2 DEF EmitUpdated, EmitFinished, WokenInTime, SizeReady, reqVars, replyVars, readVars
  <2>3. CASE PromiseData
    BY <2>3 DEF PromiseData, WokenInTime, SizeReady, replyVars, readVars
  <2> QED
    BY <2>1, <2>2, <2>3 DEF Worker
<1> QED
  BY <1>1, <1>2, <1>3, <1>4, <1>5

\* So do the constructor and the slots of the reply ...
LEMMA GuiStep ==
  ASSUME ReplyIInv, Gui \/ Destroy PROVE ReplyIInv'
<1> USE DEF ReplyIInv
<1>1. WorkerInv' /\ ReadInv'
  BY DEF WorkerInv, ReadInv, DataSize, Gui, Destroy, Connect, CheckFinished,
         CheckSize, WaitForSize, Announce, InPlaceFinish, ReadyRead, Finished, workVars,
         reqVars, readVars, readLocals
<1>2. PostedInv'
  <2>1. CASE UNCHANGED <<posted, isFinished>>
    BY <2>1 DEF PostedInv
  <2>2. CASE posted' = Append(posted, "readyReadSignal") /\ UNCHANGED isFinished
    BY <2>2, PostedAppend DEF Events, EndEvents
  <2>3. CASE posted' = Append(posted, "finishedSignal") /\ isFinished
             /\ UNCHANGED isFinished
    BY <2>3, PostedAppend DEF Events, EndEvents
  <2>4. CASE posted # <<>> /\ posted' = Tail(posted) /\ UNCHANGED isFinished
    BY <2>4, PostedTail
  <2> QED
    BY <2>1, <2>2, <2>3, <2>4
    DEF Gui, Destroy, Connect, CheckFinished, CheckSize, WaitForSize, Announce, InPlaceFinish,
        ReadyRead, Finished, Deliver, reqVars
<1>3. ReplyInv'
  <2>1. CASE Finished
    <3>1. isFinished
      BY <2>1, HeadEnds DEF Finished, Deliver, EndEvents
    <3>2. (DataSize < 0) <=> ~hasAnyData
      BY DEF DataSize, WorkerInv
    <3>3. error' \in BOOLEAN /\ (error' <=> error \/ ~hasAnyData)
      BY <2>1, <3>2 DEF Finished, FinishedSlot, WorkerInv, ReplyInv
    <3>4. finishSignalSent' \in BOOLEAN /\ finishSignalSent'
          /\ notified' \in BOOLEAN
      BY Zenon, <2>1 DEF Finished, FinishedSlot, Deliver
    <3>5. sent' = 1
      BY <2>1 DEF Finished, FinishedSlot, NotSentYet, ReplyInv
    <3>6. UNCHANGED <<hasAnyData, isFinished, reply>>
      BY <2>1 DEF Finished, reqVars
    <3> QED
      BY <3>1, <3>3, <3>4, <3>5, <3>6 DEF ReplyInv
  <2>2. CASE Connect \/ CheckFinished \/ CheckSize \/ WaitForSize \/ Announce \/ InPlaceFinish
             \/ ReadyRead \/ Destroy
    <3>1. notified' \in BOOLEAN
      BY <2>2 DEF ReplyInv, Connect, CheckFinished, CheckSize, WaitForSize, Announce,
                  InPlaceFinish, ReadyRead, Destroy, Deliver
    <3>2. UNCHANGED <<hasAnyData, isFinished, sent, finishSignalSent, error>>
      BY <2>2 DEF Connect, CheckFinished, CheckSize, WaitForSize, Announce, InPlaceFinish,
                  ReadyRead, Destroy, Deliver, reqVars, replyVars, outcomeVars
    <3>3. reply' \in {"connect", "check", "size", "asleep", "woken", "announce", "recheck",
                     "loop", "gone"}
      BY <2>2 DEF ReplyInv, Connect, CheckFinished, CheckSize, WaitForSize, Announce,
                  InPlaceFinish, ReadyRead, Destroy, Deliver, replyVars
    <3> QED
      BY <3>1, <3>2, <3>3 DEF ReplyInv
  <2> QED
    BY <2>1, <2>2 DEF Gui
<1>4. WokenInTime'
  <2>1. UNCHANGED <<data, hasAnyData, isFinished, reader>>
    BY DEF Gui, Destroy, Connect, CheckFinished, CheckSize, WaitForSize, Announce,
           InPlaceFinish, ReadyRead, Finished, reqVars, readVars
  <2>2. reply' = "asleep" => ~SizeReady
    BY DEF Gui, Destroy, Connect, CheckFinished, CheckSize, WaitForSize, Announce,
           InPlaceFinish, ReadyRead, Finished, Deliver, replyVars
  <2> QED
    BY <2>1, <2>2 DEF WokenInTime, SizeReady
<1> QED
  BY <1>1, <1>2, <1>3, <1>4

\* ... and the reader.
LEMMA ReaderStep ==
  ASSUME ReplyIInv, Reader PROVE ReplyIInv'
<1> USE ResourceReplyAssumption DEF ResourceReplyAssumption, ReplyIInv
<1>1. WorkerInv' /\ PostedInv' /\ ReplyInv'
  <2>1. UNCHANGED <<reqVars, workVars, posted, replyVars>>
    BY DEF Reader, ReadBegin, ReadSize, ReadWait, ReadEnd
  <2>2. notified' \in BOOLEAN
    BY DEF ReplyInv, Reader, ReadBegin, ReadSize, ReadWait, ReadEnd
  <2> QED
    BY <2>1, <2>2
    DEF WorkerInv, PostedInv, ReplyInv, reqVars, workVars, replyVars, outcomeVars
<1>0. WokenInTime'
  <2>1. UNCHANGED <<data, hasAnyData, isFinished, reply>>
    BY DEF Reader, ReadBegin, ReadSize, ReadWait, ReadEnd, reqVars, replyVars
  <2>2. reader' = "asleep" => ~SizeReady
    BY DEF Reader, ReadBegin, ReadSize, ReadWait, ReadEnd
  <2> QED
    BY <2>1, <2>2 DEF WokenInTime, SizeReady
<1>2. CASE ReadBegin
  BY <1>0, <1>1, <1>2 DEF ReadInv, WorkerInv, ReadBegin, DataSize, reqVars
<1>3. CASE ReadSize
  BY <1>0, <1>1, <1>3 DEF ReadInv, WorkerInv, ReadSize, DataSize, reqVars
<1>5. CASE ReadWait
  BY <1>0, <1>1, <1>5 DEF ReadInv, WorkerInv, ReadWait, DataSize, SizeReady, reqVars, readLocals
<1>4. CASE ReadEnd
  <2>1. ReadInv'
    BY <1>4 DEF ReadInv, WorkerInv, ReadEnd, ToRead, FinishedAtStart, DataSize, reqVars
  <2> QED
    BY <1>0, <1>1, <2>1
<1> QED
  BY <1>2, <1>3, <1>4, <1>5 DEF Reader

\* The invariant holds in every reachable state.
THEOREM ReplyInvariant == Spec => []ReplyIInv
<1>1. Init => ReplyIInv
  <2> SUFFICES ASSUME Init PROVE ReplyIInv
    OBVIOUS
  <2>1. data = 0 /\ updates = 0 /\ sent = 0 /\ sawSize = -1 /\ alreadyRead = 0
    BY DEF Init
  <2>2. /\ hasAnyData \in BOOLEAN /\ isFinished \in BOOLEAN /\ ~isFinished
        /\ finishSignalSent \in BOOLEAN /\ ~finishSignalSent
        /\ error \in BOOLEAN /\ ~error /\ notified \in BOOLEAN
        /\ sawFinished \in BOOLEAN /\ eof \in BOOLEAN /\ ~eof
        /\ worker = "working" /\ reply = "connect" /\ reader = "idle"
        /\ posted = <<>>
    BY Zenon DEF Init
  <2> QED
    BY <2>1, <2>2, ResourceReplyAssumption
    DEF ResourceReplyAssumption, ReplyIInv, WorkerInv, PostedInv, ReplyInv, ReadInv, WokenInTime
<1>2. ReplyIInv /\ [Next]_vars => ReplyIInv'
  <2>1. CASE UNCHANGED vars
    BY <2>1 DEF vars, reqVars, workVars, replyVars, outcomeVars, readVars, readLocals, ReplyIInv,
                WorkerInv, PostedInv, ReplyInv, ReadInv, DataSize, WokenInTime, SizeReady
  <2> QED
    BY <2>1, WorkerStep, GuiStep, ReaderStep DEF Next
<1> QED
  BY <1>1, <1>2, PTL DEF Spec

-----------------------------------------------------------------------------
\* Every variable of the reply and its request has its type.
THEOREM ReplyTypeCorrect == Spec => []TypeOK
<1>1. ReplyIInv => TypeOK
  BY ResourceReplyAssumption
  DEF ResourceReplyAssumption, ReplyIInv, WorkerInv, PostedInv, ReplyInv, ReadInv, TypeOK, Events
<1> QED
  BY <1>1, ReplyInvariant, PTL

\* readData() reports the end only of data that was read to its end, in
\* whatever step of it the worker appends or finishes.
THEOREM NothingCutOff == Spec => []EofMeansAllRead
<1>1. ReplyIInv => EofMeansAllRead
  BY DEF ReplyIInv, ReadInv, EofMeansAllRead
<1> QED
  BY <1>1, ReplyInvariant, PTL

\* finished() is emitted of finished requests, and the error with it exactly
\* when they promised no data.
THEOREM VerdictFinal == Spec => []VerdictIsFinal
<1>1. ReplyIInv => VerdictIsFinal
  BY DEF ReplyIInv, ReplyInv, VerdictIsFinal
<1> QED
  BY <1>1, ReplyInvariant, PTL

\* Nobody who waits for data sleeps on when there is some, or the end of it.
THEOREM NobodyOversleeps == Spec => []WokenInTime
<1>1. ReplyIInv => WokenInTime
  BY DEF ReplyIInv
<1> QED
  BY <1>1, ReplyInvariant, PTL
=============================================================================
