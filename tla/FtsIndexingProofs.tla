------------------------- MODULE FtsIndexingProofs -------------------------
(***************************************************************************)
(* Proofs about FtsIndexing, for any number of dictionaries and articles,   *)
(* any size of the thread pool, and any number of crashes.                  *)
(***************************************************************************)
EXTENDS FtsIndexing, FiniteSetTheorems, SequenceTheorems, TLAPS

Stages == {"none", "queued", "opening", "indexing", "compacting", "removing"}

\* The semaphore, the runnable and the GUI agree: the runnable is gone, with
\* all of its tasks, before the semaphore is released, and that once; the
\* dictionaries are cleared only after it was acquired.
StopInv ==
  /\ indexingExited \in {0, 1}
  /\ build \in [Dicts -> Stages]
  /\ indexing \in {"off", "queued", "loop", "acquire", "wait"}
  /\ indexingExited = 1 => indexing = "off"
  /\ indexing = "off" => NoBuild
  /\ gui = "cleared" => indexing = "off" /\ indexingExited = 0

\* A step of a build leaves the stages in their type, and is not taken when
\* there is no build.
LEMMA BuildStepStages ==
  ASSUME StopInv, NEW d \in Dicts, BuildStep(d)
  PROVE  /\ build' \in [Dicts -> Stages] /\ build[d] # "none"
         /\ UNCHANGED <<gui, indexing, indexingExited>>
  BY DEF StopInv, Stages, BuildStep, BuildStarts, BuildOpens, IndexArticle,
         BuildEndsEarly, BuildCommits, BuildCompacts, BuildEnds, BuildFails, Over,
         guiVars, buildVars, diskVars

\* StopInv is inductive.
LEMMA StopInvInductive == StopInv /\ [Next]_vars => StopInv'
<1> SUFFICES ASSUME StopInv, [Next]_vars PROVE StopInv'
  OBVIOUS
<1>1. CASE DoIndexing
  BY <1>1 DEF StopInv, DoIndexing, NoBuild, buildVars, diskVars
<1>2. CASE StopIndexing
  BY <1>2 DEF StopInv, StopIndexing, NoBuild, buildVars, diskVars
<1>3. CASE StopReturns
  BY <1>3 DEF StopInv, StopReturns, NoBuild, buildVars, diskVars
<1>4. CASE Reload
  BY <1>4 DEF StopInv, Reload, NoBuild, guiVars, diskVars
<1>5. CASE IndexingStep
  <2>1. CASE IndexingStarts
    BY <2>1 DEF StopInv, IndexingStarts, NoBuild, guiVars, buildVars, diskVars
  <2>2. CASE IndexingLoops
    BY <2>2 DEF StopInv, IndexingLoops, NoBuild, guiVars, diskVars
  <2>3. CASE IndexingQueues
    <3>1. build' \in [Dicts -> Stages]
      BY <2>3 DEF StopInv, IndexingQueues, Stages
    <3>2. indexing = "acquire" /\ indexing' = "loop"
          /\ gui' = gui /\ indexingExited' = indexingExited
      BY <2>3 DEF IndexingQueues, guiVars
    <3> QED
      BY <3>1, <3>2 DEF StopInv
  <2>4. CASE IndexingExits
    BY <2>4 DEF StopInv, IndexingExits, Released, NoBuild, guiVars, buildVars, diskVars
  <2> QED
    BY <1>5, <2>1, <2>2, <2>3, <2>4 DEF IndexingStep
<1>6. CASE \E d \in Dicts : BuildStep(d)
  <2>1. PICK d \in Dicts : BuildStep(d)
    BY <1>6
  <2>2. indexing # "off"
    BY <2>1, BuildStepStages DEF StopInv, NoBuild
  <2> QED
    BY <2>1, <2>2, BuildStepStages DEF StopInv
<1>7. CASE Crash
  BY <1>7 DEF StopInv, Crash, Restart, NoBuild, Stages
<1>8. CASE UNCHANGED vars
  BY <1>8 DEF StopInv, NoBuild, vars, guiVars, buildVars
<1> QED
  BY <1>1, <1>2, <1>3, <1>4, <1>5, <1>6, <1>7, <1>8 DEF Next

\* stopIndexing() of src/src/fulltextsearch.cc returns only when no thread is
\* at work on a dictionary, so that they may be cleared and destroyed.
THEOREM NothingAtWorkHolds == Spec => []NothingAtWork
<1>1. Init => StopInv
  BY DEF Init, StopInv, NoBuild, Stages
<1>2. StopInv => NothingAtWork
  BY DEF StopInv, NothingAtWork, NoBuild
<1> QED
  BY <1>1, <1>2, StopInvInductive, PTL DEF Spec

-----------------------------------------------------------------------------
\* The types of what the builds write.
WritesType ==
  /\ build \in [Dicts -> Stages]
  /\ todo \in [Dicts -> Seq(Addresses)]
  /\ docs \in [Dicts -> Seq(Documents)]
  /\ temp \in [Dicts -> Seq(Documents)]
  /\ final \in [Dicts -> Seq(Documents)]
  /\ order \in Seq(Addresses)
  /\ completed \subseteq Dicts

\* A build has marked the end of the temporary index before it compacts it,
\* and the compacted one is there before it removes the temporary one.
MadeInv ==
  \A d \in Dicts :
    /\ build[d] = "compacting" => Marked(temp[d])
    /\ build[d] = "removing" => Marked(final[d])
    /\ d \in completed \ (cut \cup failed) => Marked(final[d])

LEMMA MarkedEnd ==
  ASSUME NEW s \in Seq(Documents)
  PROVE  WithMark(s) \in Seq(Documents) /\ Marked(WithMark(s))
<1>1. Mark \in Documents
  BY DEF Documents
<1>2. Append(s, Mark) \in Seq(Documents) /\ Len(Append(s, Mark)) = Len(s) + 1
      /\ Append(s, Mark)[Len(s) + 1] = Mark /\ Append(s, Mark) # <<>>
  BY <1>1, AppendProperties
<1> QED
  BY <1>2 DEF WithMark, Marked, Last

\* An order enumerates addresses.
LEMMA OrderType == \A o \in Orders : o \in Seq(Addresses)
<1>1. Cardinality(Addresses) \in Nat
  BY FtsAssumption, FS_CardinalityType
<1> QED
  BY <1>1 DEF Orders, SetToSeqs

\* What is left to index is a list of addresses.
LEMMA RemainingType ==
  ASSUME order \in Seq(Addresses), NEW d \in Dicts
  PROVE  Remaining(d) \in Seq(Addresses)
<1> DEFINE lastAt == {i \in DOMAIN order : order[i] = Number(Last(temp[d]))}
<1>1. CASE temp[d] = <<>>
  BY <1>1 DEF Remaining
<1>2. CASE temp[d] # <<>> /\ lastAt = {}
  <2>1. Remaining(d) = <<>>
    BY <1>2 DEF Remaining
  <2> QED
    BY <2>1
<1>3. CASE temp[d] # <<>> /\ lastAt # {}
  <2> DEFINE i == CHOOSE j \in lastAt : TRUE
  <2>1. i \in lastAt
    BY <1>3
  <2>2. i \in 1 .. Len(order) /\ Len(order) \in Nat
    BY <2>1, LenProperties
  <2>3. Remaining(d) = SubSeq(order, i + 1, Len(order))
    BY <1>3 DEF Remaining
  <2>4. SubSeq(order, i + 1, Len(order)) \in Seq(Addresses)
    <3>1. \A k \in (i + 1) .. Len(order) : order[k] \in Addresses
      BY <2>2
    <3> QED
      BY <2>2, <3>1, SubSeqProperties
  <2> QED
    BY <2>3, <2>4
<1> QED
  BY <1>1, <1>2, <1>3

\* What reached the disk is a list of documents.
LEMMA KeptType ==
  ASSUME WritesType, NEW d \in Dicts
  PROVE  Kept(d) \subseteq Seq(Documents)
<1>1. \A n \in Len(temp[d]) .. Len(docs[d]) :
        SubSeq(docs[d], 1, n) \in Seq(Documents)
  <2> SUFFICES ASSUME NEW n \in Len(temp[d]) .. Len(docs[d])
               PROVE  SubSeq(docs[d], 1, n) \in Seq(Documents)
    OBVIOUS
  <2>1. docs[d] \in Seq(Documents) /\ Len(docs[d]) \in Nat /\ Len(temp[d]) \in Nat
    BY LenProperties DEF WritesType
  <2>2. n \in Int /\ \A k \in 1 .. n : docs[d][k] \in Documents
    BY <2>1, ElementOfSeq
  <2> QED
    BY <2>2, SubSeqProperties
<1> QED
  BY <1>1 DEF Kept, WritesType

\* What a build leaves on the disk keeps MadeInv: one step of one build.
LEMMA BuildStepMade ==
  ASSUME WritesType, MadeInv, NEW d \in Dicts, BuildStep(d)
  PROVE  WritesType' /\ MadeInv'
<1>0. ASSUME Over(d)
      PROVE  /\ build' \in [Dicts -> Stages] /\ todo' \in [Dicts -> Seq(Addresses)]
             /\ docs' \in [Dicts -> Seq(Documents)]
             /\ build'[d] = "none"
             /\ \A e \in Dicts \ {d} : build'[e] = build[e]
  BY <1>0, EmptySeq DEF Over, WritesType, Stages
<1>1. CASE BuildStarts(d)
  <2>1. UNCHANGED <<temp, final, order, cut, failed>>
    BY <1>1 DEF BuildStarts, diskVars
  <2>2. CASE Marked(final[d]) /\ completed' = completed \cup {d} /\ Over(d)
    BY <2>1, <2>2, <1>0 DEF WritesType, MadeInv
  <2>3. CASE Over(d) /\ UNCHANGED completed
    BY <2>1, <2>3, <1>0 DEF WritesType, MadeInv
  <2>4. CASE /\ build' = [build EXCEPT ![d] = "opening"]
             /\ UNCHANGED <<completed, sem, todo, docs>>
    BY <2>1, <2>4 DEF WritesType, MadeInv, Stages
  <2> QED
    BY <1>1, <2>2, <2>3, <2>4 DEF BuildStarts
<1>2. CASE BuildOpens(d)
  <2>1. Remaining(d) \in Seq(Addresses)
    BY RemainingType DEF WritesType
  <2>2. UNCHANGED <<completed, cut, failed, temp, final, order>>
    BY <1>2 DEF BuildOpens
  <2>3. CASE Over(d)
    BY <2>2, <2>3, <1>0 DEF WritesType, MadeInv
  <2>4. ASSUME build' = [build EXCEPT ![d] = "indexing"],
               NEW rest \in Seq(Addresses), todo' = [todo EXCEPT ![d] = rest],
               docs' = [docs EXCEPT ![d] = temp[d]]
        PROVE  WritesType' /\ MadeInv'
    BY <2>2, <2>4 DEF WritesType, MadeInv, Stages
  <2> QED
    BY <1>2, <2>1, <2>3, <2>4 DEF BuildOpens, LastUnread, WritesType
<1>3. CASE IndexArticle(d)
  <2>1. Head(todo[d]) \in Documents /\ Tail(todo[d]) \in Seq(Addresses)
    BY <1>3, HeadTailProperties DEF IndexArticle, WritesType, Documents
  <2>2. Append(docs[d], Head(todo[d])) \in Seq(Documents)
    BY <2>1, AppendProperties DEF WritesType
  <2>3. docs' \in [Dicts -> Seq(Documents)] /\ todo' \in [Dicts -> Seq(Addresses)]
        /\ UNCHANGED <<build, completed, cut, failed, temp, final, order>>
    BY <1>3, <2>1, <2>2 DEF IndexArticle, WritesType, diskVars
  <2> QED
    BY <2>3 DEF WritesType, MadeInv
<1>4. CASE BuildEndsEarly(d)
  <2>1. build' \in [Dicts -> Stages] /\ todo' \in [Dicts -> Seq(Addresses)]
        /\ docs' \in [Dicts -> Seq(Documents)]
        /\ temp' \in [Dicts -> Seq(Documents)]
        /\ UNCHANGED <<final, order, failed>>
        /\ completed' = completed \cup {d} /\ cut' = cut \cup {d}
    BY <1>0, <1>4 DEF BuildEndsEarly, WritesType
  <2>2. build'[d] = "none"
        /\ \A e \in Dicts \ {d} : build'[e] = build[e] /\ temp'[e] = temp[e]
    BY <1>4 DEF BuildEndsEarly, Over, WritesType
  <2> QED
    BY <2>1, <2>2 DEF WritesType, MadeInv
<1>5. CASE BuildCommits(d)
  <2>1. WithMark(docs[d]) \in Seq(Documents) /\ Marked(WithMark(docs[d]))
    BY MarkedEnd DEF WritesType
  <2>2. build' \in [Dicts -> Stages] /\ temp' \in [Dicts -> Seq(Documents)]
        /\ UNCHANGED <<completed, cut, failed, todo, docs, final, order>>
    BY <1>5, <2>1 DEF BuildCommits, WritesType, Stages
  <2>3. build'[d] = "compacting" /\ temp'[d] = WithMark(docs[d])
        /\ \A e \in Dicts \ {d} : build'[e] = build[e] /\ temp'[e] = temp[e]
    BY <1>5 DEF BuildCommits, WritesType
  <2>4. \A e \in Dicts : build'[e] = "compacting" => Marked(temp'[e])
    BY <2>1, <2>3 DEF MadeInv
  <2>5. \A e \in Dicts : build'[e] = "removing" => Marked(final'[e])
    BY <2>2, <2>3 DEF MadeInv
  <2> QED
    BY <2>2, <2>4, <2>5 DEF WritesType, MadeInv, Marked
<1>6. CASE BuildCompacts(d)
  <2>1. build' \in [Dicts -> Stages] /\ final' \in [Dicts -> Seq(Documents)]
        /\ UNCHANGED <<completed, cut, failed, todo, docs, temp, order>>
    BY <1>6 DEF BuildCompacts, WritesType, Stages
  <2>2. build'[d] = "removing" /\ final'[d] = temp[d]
        /\ \A e \in Dicts \ {d} : build'[e] = build[e] /\ final'[e] = final[e]
    BY <1>6 DEF BuildCompacts, WritesType
  <2>3. Marked(temp[d])
    BY <1>6 DEF BuildCompacts, MadeInv
  <2>4. \A e \in Dicts : build'[e] = "compacting" => Marked(temp'[e])
    BY <2>1, <2>2 DEF MadeInv
  <2>5. \A e \in Dicts : Marked(final[e]) => Marked(final'[e])
    BY <2>2, <2>3
  <2>6. \A e \in Dicts : build'[e] = "removing" => Marked(final'[e])
    BY <2>2, <2>3, <2>5 DEF MadeInv
  <2> QED
    BY <2>1, <2>4, <2>5, <2>6 DEF WritesType, MadeInv, Marked
<1>7. CASE BuildEnds(d)
  <2>1. build' \in [Dicts -> Stages] /\ todo' \in [Dicts -> Seq(Addresses)]
        /\ docs' \in [Dicts -> Seq(Documents)]
        /\ temp' \in [Dicts -> Seq(Documents)]
        /\ UNCHANGED <<final, order, cut, failed>>
        /\ completed' = completed \cup {d} /\ Marked(final[d])
    BY <1>0, <1>7, EmptySeq DEF BuildEnds, WritesType, MadeInv
  <2>2. build'[d] = "none"
        /\ \A e \in Dicts \ {d} : build'[e] = build[e] /\ temp'[e] = temp[e]
    BY <1>7 DEF BuildEnds, Over, WritesType
  <2> QED
    BY <2>1, <2>2 DEF WritesType, MadeInv
<1>8. CASE BuildFails(d)
  <2>1. LeftOver(d) \subseteq Seq(Documents)
    BY KeptType, MarkedEnd DEF LeftOver, WritesType
  <2>2. temp' \in [Dicts -> Seq(Documents)]
    BY <1>8, <2>1 DEF BuildFails, WritesType
  <2>3. final' \in [Dicts -> Seq(Documents)]
    BY <1>8, EmptySeq DEF BuildFails, WritesType
  <2>4. build' \in [Dicts -> Stages] /\ todo' \in [Dicts -> Seq(Addresses)]
        /\ docs' \in [Dicts -> Seq(Documents)]
        /\ UNCHANGED <<cut, order>>
        /\ completed' = completed \cup {d} /\ failed' = failed \cup {d}
    BY <1>0, <1>8 DEF BuildFails
  <2>5. build'[d] = "none"
        /\ \A e \in Dicts \ {d} : /\ build'[e] = build[e]
                                  /\ temp'[e] = temp[e] /\ final'[e] = final[e]
    BY <1>8 DEF BuildFails, Over, WritesType
  <2>6. WritesType'
    BY <2>2, <2>3, <2>4 DEF WritesType
  <2>7. ASSUME NEW e \in Dicts
        PROVE  /\ build'[e] = "compacting" => Marked(temp'[e])
               /\ build'[e] = "removing" => Marked(final'[e])
               /\ e \in completed' \ (cut' \cup failed') => Marked(final'[e])
    <3>1. CASE e = d
      BY <2>4, <2>5, <3>1
    <3>2. CASE e # d
      BY <2>4, <2>5, <3>2 DEF MadeInv
    <3> QED
      BY <3>1, <3>2
  <2> QED
    BY <2>6, <2>7 DEF MadeInv, Marked
<1> QED
  BY <1>1, <1>2, <1>3, <1>4, <1>5, <1>6, <1>7, <1>8 DEF BuildStep

\* MadeInv is inductive, with the types of what is written.
LEMMA MadeInvInductive ==
  (WritesType /\ MadeInv) /\ [Next]_vars => (WritesType /\ MadeInv)'
<1> SUFFICES ASSUME WritesType, MadeInv, [Next]_vars
             PROVE  WritesType' /\ MadeInv'
  OBVIOUS
<1>1. CASE DoIndexing \/ StopIndexing \/ StopReturns
  BY <1>1 DEF DoIndexing, StopIndexing, StopReturns, WritesType, MadeInv,
              Marked, buildVars, diskVars
<1>2. CASE Reload
  BY <1>2 DEF Reload, WritesType, MadeInv, Marked, diskVars
<1>3. CASE IndexingStep
  <2>1. CASE IndexingStarts \/ IndexingLoops \/ IndexingExits
    BY <2>1 DEF IndexingStarts, IndexingLoops, IndexingExits, WritesType,
                MadeInv, Marked, buildVars, diskVars
  <2>2. CASE IndexingQueues
    <3>1. UNCHANGED <<completed, cut, failed, todo, docs, temp, final, order>>
          /\ build' \in [Dicts -> Stages]
          /\ \A d \in Dicts : build'[d] \in {build[d], "queued"}
      BY <2>2 DEF IndexingQueues, WritesType, Stages, diskVars
    <3> QED
      BY <3>1 DEF WritesType, MadeInv
  <2> QED
    BY <1>3, <2>1, <2>2 DEF IndexingStep
<1>4. CASE \E d \in Dicts : BuildStep(d)
  BY <1>4, BuildStepMade
<1>5. CASE Crash
  <2>1. \A d \in Dicts : temp'[d] \in Seq(Documents)
    BY <1>5, KeptType DEF Crash, Restart
  <2>2. \E S : temp' \in [Dicts -> S]
    BY <1>5 DEF Crash, Restart
  <2>3. temp' \in [Dicts -> Seq(Documents)]
    BY <2>1, <2>2
  <2>4. order' \in Seq(Addresses)
    BY <1>5, OrderType DEF Crash, Restart
  <2>5. /\ build' = [d \in Dicts |-> "none"] /\ completed' = {}
        /\ todo' = [d \in Dicts |-> <<>>] /\ docs' = [d \in Dicts |-> <<>>]
        /\ final' = final
    BY <1>5 DEF Crash, Restart
  <2>6. build' \in [Dicts -> Stages] /\ todo' \in [Dicts -> Seq(Addresses)]
        /\ docs' \in [Dicts -> Seq(Documents)]
    BY <2>5, EmptySeq DEF Stages
  <2> QED
    BY <2>3, <2>4, <2>5, <2>6 DEF WritesType, MadeInv
<1>6. CASE UNCHANGED vars
  BY <1>6 DEF vars, buildVars, diskVars, WritesType, MadeInv, Marked
<1> QED
  BY <1>1, <1>2, <1>3, <1>4, <1>5, <1>6 DEF Next

\* A dictionary that says it has its full-text index has one that is marked as
\* ended, but for one whose build in this process was cut short or failed
\* (FTS_index_completed of src/src/dict/dictionary.hh).
THEOREM CompletedIsMadeHolds == Spec => []CompletedIsMade
<1>1. Init => WritesType /\ MadeInv
  <2>1. Init => order \in Seq(Addresses)
    BY OrderType DEF Init
  <2> QED
    BY <2>1, EmptySeq DEF Init, WritesType, MadeInv, Stages
<1>2. WritesType /\ MadeInv => CompletedIsMade
  BY DEF WritesType, MadeInv, CompletedIsMade
<1> QED
  BY <1>1, <1>2, MadeInvInductive, PTL DEF Spec


-----------------------------------------------------------------------------
(* A finished index is whole. *)

\* The list holds the first articles of the order, in that order.
Begins(list) ==
  /\ Len(list) <= Len(order)
  /\ \A i \in 1 .. Len(list) : list[i] = order[i]

\* Two lists that make up the order, one after the other.
MakeUp(first, second) ==
  /\ Begins(first)
  /\ Len(first) + Len(second) = Len(order)
  /\ \A i \in 1 .. Len(second) : second[i] = order[Len(first) + i]

\* What a dictionary whose temporary index was not left behind has on the disk
\* and under way: the temporary index holds the first articles of the order, and the
\* rest is still to come; once marked it holds them all; and a finished index
\* is one of all articles in some order.
WholeOf(d) ==
  /\ build[d] \in {"compacting", "removing"} => temp[d] = WithMark(order)
  /\ build[d] \notin {"compacting", "removing"} => Begins(temp[d])
  /\ build[d] = "indexing" => MakeUp(docs[d], todo[d])
  /\ Marked(final[d]) => \E o \in Orders : final[d] = WithMark(o)

WholeInv ==
  /\ order \in Orders
  /\ \A d \in Dicts \ leftBehind : WholeOf(d)

\* The runnable has not come to a dictionary that is being built: no task is
\* queued for a second time.
Ahead ==
  /\ at \in Nat
  /\ indexing \in {"queued", "loop", "acquire"}
       => \A d \in Dicts : d >= at => build[d] = "none"

-----------------------------------------------------------------------------
(* Lists of articles. *)

\* An order enumerates every address, and each once.
LEMMA OrderFacts ==
  ASSUME NEW o \in Orders
  PROVE  /\ o \in Seq(Addresses) /\ Len(o) = Cardinality(Addresses)
         /\ Len(o) \in Nat
         /\ \A i, j \in 1 .. Len(o) : o[i] = o[j] => i = j
         /\ \A a \in Addresses : \E i \in 1 .. Len(o) : o[i] = a
<1> DEFINE D == 1 .. Cardinality(Addresses)
<1>1. Cardinality(Addresses) \in Nat /\ IsFiniteSet(Addresses)
  BY FtsAssumption, FS_CardinalityType
<1>2. o \in [D -> Addresses] /\ \A i, j \in D : i # j => o[i] # o[j]
  BY DEF Orders, SetToSeqs
<1>3. o \in Seq(Addresses) /\ Len(o) = Cardinality(Addresses)
  <2>1. o \in Seq(Addresses)
    BY OrderType
  <2>2. Len(o) \in Nat /\ DOMAIN o = 1 .. Len(o)
    BY <2>1, LenProperties
  <2> QED
    BY <1>1, <1>2, <2>1, <2>2
<1>4. o \in Injection(D, Addresses)
  BY <1>2 DEF Injection, IsInjective
<1>5. IsFiniteSet(D) /\ Cardinality(D) = Cardinality(Addresses)
  BY <1>1, FS_Interval
<1>6. o \in Surjection(D, Addresses)
  BY <1>1, <1>4, <1>5, FS_Injection
<1> QED
  BY <1>1, <1>2, <1>3, <1>6 DEF Surjection

\* A marked list of all addresses is a whole index.
LEMMA WholeIsWhole ==
  ASSUME NEW o \in Orders
  PROVE  /\ ToSet(WithMark(o)) = Documents
         /\ Len(WithMark(o)) = Cardinality(Documents)
<1> DEFINE n == Len(o)
<1>1. o \in Seq(Documents) /\ n \in Nat /\ Mark \in Documents
  BY OrderFacts DEF Documents
<1>2. /\ Len(WithMark(o)) = n + 1
      /\ DOMAIN WithMark(o) = 1 .. n + 1
      /\ \A i \in 1 .. n : WithMark(o)[i] = o[i]
      /\ WithMark(o)[n + 1] = Mark
  BY <1>1, AppendProperties DEF WithMark
<1>3. Cardinality(Documents) = n + 1
  BY OrderFacts, FtsAssumption, FS_AddElement DEF Documents
<1>4. ToSet(WithMark(o)) = {WithMark(o)[i] : i \in 1 .. n + 1}
  BY <1>2 DEF ToSet
<1>5. ASSUME NEW x \in Documents PROVE \E i \in 1 .. n + 1 : WithMark(o)[i] = x
  <2>1. CASE x = Mark
    BY <1>1, <1>2, <2>1
  <2>2. CASE x \in Addresses
    <3>1. PICK i \in 1 .. n : o[i] = x
      BY <2>2, OrderFacts
    <3> QED
      BY <1>1, <1>2, <3>1
  <2> QED
    BY <2>1, <2>2 DEF Documents
<1>6. ASSUME NEW i \in 1 .. n + 1 PROVE WithMark(o)[i] \in Documents
  <2>1. CASE i = n + 1
    BY <1>1, <1>2, <2>1
  <2>2. CASE i \in 1 .. n
    BY <1>1, <1>2, <2>2
  <2> QED
    BY <1>1, <2>1, <2>2
<1> QED
  BY <1>2, <1>3, <1>4, <1>5, <1>6

\* A list with nothing left to come is the whole order.
LEMMA NothingLeft ==
  ASSUME WritesType, order \in Orders, NEW s \in Seq(Documents), MakeUp(s, <<>>)
  PROVE  s = order
<1>1. order \in Seq(Addresses) /\ Len(order) \in Nat /\ Len(s) \in Nat
  BY OrderFacts, LenProperties
<1>2. Len(s) = Len(order) /\ \A i \in 1 .. Len(s) : s[i] = order[i]
  BY <1>1 DEF MakeUp, Begins
<1> QED
  BY <1>1, <1>2, SeqEqual

\* Indexing the next article leaves the rest to come.
LEMMA NextArticle ==
  ASSUME order \in Orders, NEW s \in Seq(Documents), NEW t \in Seq(Addresses),
         t # <<>>, MakeUp(s, t)
  PROVE  MakeUp(Append(s, Head(t)), Tail(t))
<1>1. Len(order) \in Nat /\ Len(s) \in Nat /\ Len(t) \in Nat /\ Len(t) > 0
  BY OrderFacts, LenProperties, EmptySeq
<1>2. /\ Head(t) = t[1] /\ Len(Tail(t)) = Len(t) - 1
      /\ \A i \in 1 .. Len(Tail(t)) : Tail(t)[i] = t[i + 1]
  BY HeadTailProperties
<1>3. Head(t) \in Documents
  BY HeadTailProperties DEF Documents
<1>4. /\ Len(Append(s, Head(t))) = Len(s) + 1
      /\ \A i \in 1 .. Len(s) : Append(s, Head(t))[i] = s[i]
      /\ Append(s, Head(t))[Len(s) + 1] = Head(t)
  BY <1>3, AppendProperties
<1>5. t[1] = order[Len(s) + 1]
  BY <1>1 DEF MakeUp
<1>6. Begins(Append(s, Head(t)))
  <2> SUFFICES ASSUME NEW i \in 1 .. Len(s) + 1
               PROVE  Append(s, Head(t))[i] = order[i]
    BY <1>1, <1>4 DEF Begins, MakeUp
  <2>1. CASE i \in 1 .. Len(s)
    BY <1>4, <2>1 DEF MakeUp, Begins
  <2>2. CASE i = Len(s) + 1
    BY <1>2, <1>4, <1>5, <2>2
  <2> QED
    BY <1>1, <2>1, <2>2
<1>7. ASSUME NEW i \in 1 .. Len(Tail(t))
      PROVE  Tail(t)[i] = order[Len(s) + 1 + i]
  <2>1. i + 1 \in 1 .. Len(t) /\ Tail(t)[i] = t[i + 1]
    BY <1>1, <1>2
  <2>2. t[i + 1] = order[Len(s) + (i + 1)]
    BY <2>1 DEF MakeUp
  <2> QED
    BY <1>1, <2>1, <2>2
<1> QED
  BY <1>1, <1>2, <1>4, <1>6, <1>7 DEF MakeUp

\* A build taken up again goes on where the temporary index ends.
LEMMA GoesOn ==
  ASSUME WritesType, order \in Orders, NEW d \in Dicts, Begins(temp[d])
  PROVE  MakeUp(temp[d], Remaining(d))
<1> DEFINE s == temp[d]
           n == Len(s)
           N == Len(order)
<1>1. s \in Seq(Documents) /\ n \in Nat /\ N \in Nat /\ n <= N
      /\ order \in Seq(Addresses)
  BY OrderFacts, LenProperties DEF WritesType, Begins
<1>2. CASE s = <<>>
  BY <1>1, <1>2 DEF Remaining, MakeUp
<1>3. CASE s # <<>>
  <2> DEFINE lastAt == {i \in DOMAIN order : order[i] = Number(Last(s))}
  <2>1. n \in 1 .. N /\ DOMAIN order = 1 .. N
    BY <1>1, <1>3, EmptySeq, LenProperties
  <2>2. Last(s) = order[n] /\ order[n] \in Addresses
    BY <1>1, <2>1 DEF Begins, Last
  <2>3. Number(Last(s)) = order[n]
    BY <2>2, FtsAssumption DEF Number
  <2>4. lastAt = {n}
    BY <2>1, <2>3, OrderFacts
  <2>5. Remaining(d) = SubSeq(order, n + 1, N)
    BY <1>3, <2>4 DEF Remaining
  <2>6. /\ Len(SubSeq(order, n + 1, N)) = N - n
        /\ \A i \in 1 .. N - n : SubSeq(order, n + 1, N)[i] = order[n + i]
    <3>1. \A k \in n + 1 .. N : order[k] \in Addresses
      BY <1>1, <2>1
    <3>2. n + 1 \in 1 .. N + 1 /\ n \in Nat /\ N \in Nat
      BY <1>1
    <3> HIDE DEF n, N
    <3>3. n + 1 <= N + 1 /\ n + 1 \in Int /\ N \in Int
      BY <3>2
    <3>4. /\ Len(SubSeq(order, n + 1, N))
               = IF n + 1 <= N THEN N - (n + 1) + 1 ELSE 0
          /\ \A i \in 1 .. N - (n + 1) + 1 :
               SubSeq(order, n + 1, N)[i] = order[(n + 1) + i - 1]
      BY <3>1, <3>3, SubSeqProperties
    <3>5. N - (n + 1) + 1 = N - n
      BY <3>2
    <3>6. \A i \in 1 .. N - n : (n + 1) + i - 1 = n + i
      BY <3>2
    <3>7. Len(SubSeq(order, n + 1, N)) = N - n
      BY <3>2, <3>4
    <3>8. ASSUME NEW i \in 1 .. N - n
          PROVE  SubSeq(order, n + 1, N)[i] = order[n + i]
      <4>1. i \in 1 .. N - (n + 1) + 1
        BY <3>5
      <4>2. SubSeq(order, n + 1, N)[i] = order[(n + 1) + i - 1]
        BY <3>4, <4>1
      <4> QED
        BY <3>6, <4>2
    <3> QED
      BY <3>7, <3>8
  <2>7. Len(Remaining(d)) = N - n
    BY Zenon, <2>5, <2>6
  <2>8. \A i \in 1 .. Len(Remaining(d)) : Remaining(d)[i] = order[n + i]
    BY Zenon, <2>5, <2>6, <2>7
  <2>9. n + Len(Remaining(d)) = N
    BY <1>1, <2>7
  <2> QED
    BY <2>8, <2>9 DEF MakeUp
<1> QED
  BY <1>2, <1>3

-----------------------------------------------------------------------------
(* The steps. *)

\* What a step leaves alone of a dictionary keeps it whole.
LEMMA WholeKept ==
  ASSUME NEW d \in Dicts, WholeOf(d), UNCHANGED order,
         temp'[d] = temp[d], final'[d] = final[d],
         build'[d] \in {"compacting", "removing"}
           <=> build[d] \in {"compacting", "removing"},
         build'[d] = "indexing" =>
           build[d] = "indexing" /\ docs'[d] = docs[d] /\ todo'[d] = todo[d]
  PROVE  WholeOf(d)'
BY DEF WholeOf, Begins, MakeUp, WithMark, Marked

\* What a failure keeps of the documents of a build begins the order, too.
LEMMA KeptBegins ==
  ASSUME WritesType, order \in Orders, NEW d \in Dicts, build[d] = "indexing",
         MakeUp(docs[d], todo[d]), NEW kept \in Kept(d)
  PROVE  Begins(kept)
<1>1. /\ docs[d] \in Seq(Documents) /\ Len(docs[d]) \in Nat
      /\ Len(temp[d]) \in Nat /\ Len(order) \in Nat
  BY OrderFacts, LenProperties DEF WritesType
<1>2. PICK n \in Len(temp[d]) .. Len(docs[d]) : kept = SubSeq(docs[d], 1, n)
  BY DEF Kept
<1>3. n \in Nat /\ n <= Len(docs[d])
  BY <1>1, <1>2
<1>4. \A k \in 1 .. n : docs[d][k] \in Documents
  BY <1>1, <1>3, ElementOfSeq
<1>5. Len(kept) = n /\ \A i \in 1 .. n : kept[i] = docs[d][i]
  <2>1. /\ Len(SubSeq(docs[d], 1, n)) = IF 1 <= n THEN n - 1 + 1 ELSE 0
        /\ \A i \in 1 .. n - 1 + 1 : SubSeq(docs[d], 1, n)[i] = docs[d][1 + i - 1]
    BY <1>3, <1>4, SubSeqProperties
  <2> QED
    BY <1>2, <1>3, <2>1
<1>6. Len(docs[d]) <= Len(order)
      /\ \A i \in 1 .. Len(docs[d]) : docs[d][i] = order[i]
  BY DEF MakeUp, Begins
<1>7. \A i \in 1 .. n : docs[d][i] = order[i]
  BY <1>1, <1>3, <1>6
<1>8. Len(kept) <= Len(order)
  BY <1>1, <1>3, <1>5, <1>6
<1> QED
  BY <1>5, <1>7, <1>8 DEF Begins

\* A step of its own build.
LEMMA BuildStepWhole ==
  ASSUME WritesType, WholeInv, NEW d \in Dicts \ leftBehind, BuildStep(d),
         d \notin leftBehind'
  PROVE  WholeOf(d)'
<1>0. WholeOf(d) /\ order \in Orders
  BY DEF WholeInv
<1>1. UNCHANGED order
  BY DEF BuildStep, BuildStarts, BuildOpens, IndexArticle, BuildEndsEarly,
         BuildCommits, BuildCompacts, BuildEnds, BuildFails, diskVars
<1>2. ASSUME Over(d) PROVE build'[d] = "none"
  BY <1>2 DEF Over, WritesType
<1>3. CASE BuildStarts(d)
  <2>1. /\ build[d] = "queued" /\ build'[d] \in {"none", "opening"}
        /\ UNCHANGED <<temp, final>>
    BY <1>2, <1>3 DEF BuildStarts, diskVars, WritesType
  <2> QED
    BY <1>0, <1>1, <2>1, WholeKept
<1>4. CASE BuildOpens(d)
  <2>1. build[d] = "opening" /\ UNCHANGED <<temp, final>>
    BY <1>4 DEF BuildOpens
  <2>2. CASE Over(d)
    BY <1>0, <1>1, <1>2, <2>1, <2>2, WholeKept
  <2>3. CASE ~isCancelled
    <3>0. ~LastUnread(d)
      BY DEF LastUnread
    <3>1. /\ build'[d] = "indexing" /\ docs'[d] = temp[d]
          /\ todo'[d] = Remaining(d)
      BY <1>4, <2>3, <3>0 DEF BuildOpens, WritesType
    <3>2. MakeUp(temp[d], Remaining(d)) /\ Begins(temp[d])
      BY <1>0, <2>1, GoesOn DEF WholeOf
    <3> QED
      BY <1>0, <1>1, <2>1, <3>1, <3>2 DEF WholeOf, MakeUp, Begins, Marked
  <2> QED
    BY <1>4, <2>2, <2>3 DEF BuildOpens
<1>5. CASE IndexArticle(d)
  <2>1. /\ build[d] = "indexing" /\ build'[d] = "indexing" /\ todo[d] # <<>>
        /\ docs'[d] = Append(docs[d], Head(todo[d]))
        /\ todo'[d] = Tail(todo[d])
        /\ UNCHANGED <<temp, final>>
    BY <1>5 DEF IndexArticle, diskVars, WritesType
  <2>2. MakeUp(Append(docs[d], Head(todo[d])), Tail(todo[d]))
    BY <1>0, <2>1, NextArticle DEF WholeOf, WritesType
  <2> QED
    BY <1>0, <1>1, <2>1, <2>2 DEF WholeOf, MakeUp, Begins, Marked
<1>6. CASE BuildEndsEarly(d)
  <2>1. build'[d] = "none" /\ temp'[d] = docs[d] /\ UNCHANGED final
        /\ build[d] = "indexing"
    BY <1>2, <1>6 DEF BuildEndsEarly, WritesType
  <2>2. Begins(docs[d])
    BY <1>0, <2>1 DEF WholeOf, MakeUp
  <2> QED
    BY <1>0, <1>1, <2>1, <2>2 DEF WholeOf, Begins, Marked
<1>7. CASE BuildCommits(d)
  <2>1. /\ build[d] = "indexing" /\ todo[d] = <<>> /\ build'[d] = "compacting"
        /\ temp'[d] = WithMark(docs[d]) /\ UNCHANGED final
    BY <1>7 DEF BuildCommits, WritesType
  <2>2. docs[d] = order
    BY <1>0, <2>1, NothingLeft DEF WholeOf, WritesType
  <2> QED
    BY <1>0, <1>1, <2>1, <2>2 DEF WholeOf, WithMark, Marked
<1>8. CASE BuildCompacts(d)
  <2>1. /\ build[d] = "compacting" /\ build'[d] = "removing"
        /\ final'[d] = temp[d] /\ UNCHANGED temp
    BY <1>8 DEF BuildCompacts, WritesType
  <2> QED
    BY <1>0, <1>1, <2>1 DEF WholeOf, WithMark
<1>9. CASE BuildEnds(d)
  <2>1. build'[d] = "none" /\ temp'[d] = <<>> /\ UNCHANGED final
    BY <1>2, <1>9 DEF BuildEnds, WritesType
  <2>2. Begins(<<>>)
    BY <1>0, OrderFacts DEF Begins
  <2> QED
    BY <1>0, <1>1, <2>1, <2>2 DEF WholeOf, Begins, Marked
<1>10. CASE BuildFails(d)
  <2>1. build'[d] = "none" /\ temp'[d] \in LeftOver(d)
    BY <1>2, <1>10 DEF BuildFails, WritesType
  <2>2. ~Marked(temp'[d]) /\ build[d] \in {"opening", "indexing", "compacting"}
    BY <1>10 DEF BuildFails
  <2>3. build[d] # "compacting"
    <3>1. SUFFICES ASSUME build[d] = "compacting" PROVE FALSE
      OBVIOUS
    <3>2. temp'[d] = temp[d]
      BY <2>1, <3>1 DEF LeftOver, Kept
    <3>3. temp[d] = WithMark(order) /\ order \in Seq(Documents)
      BY <1>0, <3>1, OrderFacts DEF WholeOf, Documents
    <3> QED
      BY <2>2, <3>2, <3>3, MarkedEnd
  <2>4. final'[d] = final[d]
    BY <1>10, <2>3 DEF BuildFails, WritesType
  <2>5. Begins(temp'[d])
    <3>1. CASE build[d] = "opening"
      BY <1>0, <2>1, <3>1 DEF WholeOf, LeftOver, Kept
    <3>2. CASE build[d] = "indexing"
      <4>1. temp'[d] # WithMark(docs[d])
        BY <2>2, MarkedEnd DEF WritesType
      <4>2. temp'[d] \in Kept(d)
        BY <2>1, <4>1 DEF LeftOver
      <4>3. MakeUp(docs[d], todo[d])
        BY <1>0, <3>2 DEF WholeOf
      <4> QED
        BY <1>0, <3>2, <4>2, <4>3, KeptBegins
    <3> QED
      BY <2>2, <2>3, <3>1, <3>2
  <2> QED
    BY <1>0, <1>1, <2>1, <2>4, <2>5 DEF WholeOf, Begins, Marked
<1> QED
  BY <1>3, <1>4, <1>5, <1>6, <1>7, <1>8, <1>9, <1>10 DEF BuildStep

\* A step of the build of another dictionary.
LEMMA OtherBuildStep ==
  ASSUME WritesType, NEW d \in Dicts, BuildStep(d), NEW e \in Dicts \ {d},
         WholeOf(e)
  PROVE  WholeOf(e)'
<1>1. /\ UNCHANGED order
      /\ build'[e] = build[e] /\ temp'[e] = temp[e] /\ final'[e] = final[e]
      /\ docs'[e] = docs[e] /\ todo'[e] = todo[e]
  <2>1. CASE BuildStarts(d) \/ IndexArticle(d) \/ BuildEndsEarly(d)
    BY <2>1 DEF BuildStarts, IndexArticle, BuildEndsEarly, Over, WritesType,
                diskVars
  <2>2. CASE BuildOpens(d)
    BY <2>2 DEF BuildOpens, LastUnread, Over, WritesType
  <2>3. CASE BuildCommits(d) \/ BuildCompacts(d) \/ BuildEnds(d)
    BY <2>3 DEF BuildCommits, BuildCompacts, BuildEnds, Over, WritesType
  <2>4. CASE BuildFails(d)
    BY <2>4 DEF BuildFails, Over, WritesType
  <2> QED
    BY <2>1, <2>2, <2>3, <2>4 DEF BuildStep
<1> QED
  BY <1>1, WholeKept

\* The runnable stays ahead of the builds.
LEMMA AheadStep ==
  StopInv /\ WritesType /\ Ahead /\ [Next]_vars => Ahead'
<1> SUFFICES ASSUME StopInv, WritesType, Ahead, [Next]_vars PROVE Ahead'
  OBVIOUS
<1>1. CASE DoIndexing
  BY <1>1 DEF DoIndexing, StopInv, NoBuild, Ahead, buildVars
<1>2. CASE StopIndexing \/ StopReturns \/ Reload \/ UNCHANGED vars
  BY <1>2 DEF StopIndexing, StopReturns, Reload, vars, buildVars, Ahead
<1>3. CASE IndexingStarts \/ IndexingLoops \/ IndexingExits
  BY <1>3 DEF IndexingStarts, IndexingLoops, IndexingExits, buildVars, Ahead,
              Dicts
<1>4. CASE IndexingQueues
  <2>1. at' = at + 1 /\ build' = [build EXCEPT ![at] = "queued"]
        /\ indexing = "acquire"
    BY <1>4 DEF IndexingQueues
  <2> QED
    BY <2>1 DEF Ahead, WritesType, Dicts
<1>5. ASSUME NEW d \in Dicts, BuildStep(d) PROVE Ahead'
  <2>1. UNCHANGED <<at, indexing>> /\ build[d] # "none"
    BY <1>5 DEF BuildStep, BuildStarts, BuildOpens, IndexArticle,
                BuildEndsEarly, BuildCommits, BuildCompacts, BuildEnds, BuildFails
  <2>2. \A e \in Dicts \ {d} : build'[e] = build[e]
    BY <1>5 DEF BuildStep, BuildStarts, BuildOpens, IndexArticle,
                BuildEndsEarly, BuildCommits, BuildCompacts, BuildEnds, BuildFails,
                Over, WritesType
  <2> QED
    BY <2>1, <2>2 DEF Ahead
<1>6. CASE Crash
  BY <1>6 DEF Crash, Restart, Ahead
<1> QED
  BY <1>1, <1>2, <1>3, <1>4, <1>5, <1>6 DEF Next, IndexingStep

\* WholeInv is inductive, with the types of what is written.
LEMMA WholeStep ==
  WritesType /\ Ahead /\ WholeInv /\ [Next]_vars => WholeInv'
<1> SUFFICES ASSUME WritesType, Ahead, WholeInv, [Next]_vars PROVE WholeInv'
  OBVIOUS
<1>1. CASE DoIndexing \/ StopIndexing \/ StopReturns \/ Reload
           \/ IndexingStarts \/ IndexingLoops \/ IndexingExits \/ UNCHANGED vars
  <2>1. UNCHANGED <<temp, final, order, leftBehind, docs, todo>>
        /\ \A d \in Dicts : build'[d] = build[d] \/ build'[d] = "queued"
    BY <1>1 DEF DoIndexing, StopIndexing, StopReturns, Reload, IndexingStarts,
                IndexingLoops, IndexingExits, vars, buildVars, diskVars, leftVars
  <2>2. UNCHANGED build
    BY <1>1 DEF DoIndexing, StopIndexing, StopReturns, Reload, IndexingStarts,
                IndexingLoops, IndexingExits, vars, buildVars
  <2> QED
    BY <2>1, <2>2, WholeKept DEF WholeInv
<1>2. CASE IndexingQueues
  <2>1. UNCHANGED <<temp, final, order, leftBehind, docs, todo>>
        /\ indexing = "acquire" /\ build' = [build EXCEPT ![at] = "queued"]
    BY <1>2 DEF IndexingQueues, diskVars, leftVars
  <2>2. ASSUME NEW d \in Dicts \ leftBehind PROVE WholeOf(d)'
    <3>1. CASE d = at
      <4>1. build[d] = "none" /\ build'[d] = "queued"
        BY <2>1, <3>1 DEF Ahead, WritesType
      <4> QED
        BY <2>1, <4>1, WholeKept DEF WholeInv
    <3>2. CASE d # at
      <4>1. build'[d] = build[d]
        BY <2>1, <3>2 DEF WritesType
      <4> QED
        BY <2>1, <4>1, WholeKept DEF WholeInv
    <3> QED
      BY <3>1, <3>2
  <2> QED
    BY <2>1, <2>2 DEF WholeInv
<1>3. ASSUME NEW d \in Dicts, BuildStep(d) PROVE WholeInv'
  <2>1. UNCHANGED order /\ leftBehind \subseteq leftBehind'
    BY <1>3 DEF BuildStep, BuildStarts, BuildOpens, LastUnread, IndexArticle,
                BuildEndsEarly, BuildCommits, BuildCompacts, BuildEnds,
                BuildFails, diskVars, leftVars
  <2>2. ASSUME NEW e \in Dicts \ leftBehind' PROVE WholeOf(e)'
    <3>1. CASE e = d
      BY <1>3, <2>1, <2>2, <3>1, BuildStepWhole
    <3>2. CASE e # d
      BY <1>3, <2>1, <2>2, <3>2, OtherBuildStep DEF WholeInv
    <3> QED
      BY <3>1, <3>2
  <2> QED
    BY <2>1, <2>2 DEF WholeInv
<1>4. CASE Crash
  <2>1. /\ order' \in Orders /\ UNCHANGED final
        /\ leftBehind' = leftBehind \cup {d \in Dicts : temp'[d] # <<>>}
        /\ \A d \in Dicts : build'[d] = "none"
    BY <1>4 DEF Crash, Restart
  <2>2. ASSUME NEW d \in Dicts \ leftBehind' PROVE WholeOf(d)'
    <3>1. temp'[d] = <<>> /\ WholeOf(d)
      BY <2>1, <2>2 DEF WholeInv
    <3>2. Len(order') \in Nat
      BY <2>1, OrderFacts
    <3>3. Begins(temp[d])'
      BY <3>1, <3>2 DEF Begins
    <3> QED
      BY <2>1, <3>1, <3>3 DEF WholeOf, Marked, WithMark
  <2> QED
    BY <2>1, <2>2 DEF WholeInv
<1> QED
  BY <1>1, <1>2, <1>3, <1>4 DEF Next, IndexingStep

\* An index marked as ended holds every article, once, however often its build
\* was cancelled, failed and taken up again, but for one that went on from a
\* temporary index of an earlier process, left with its mark on or unread.
THEOREM IndexIsWholeHolds == Spec => []IndexIsWhole
<1>1. Init => WritesType /\ MadeInv
  <2>1. Init => order \in Seq(Addresses)
    BY OrderType DEF Init
  <2> QED
    BY <2>1, EmptySeq DEF Init, WritesType, MadeInv, Stages
<1>2. Init => WholeInv
  <2> SUFFICES ASSUME Init PROVE WholeInv
    OBVIOUS
  <2>1. order \in Orders /\ Len(order) \in Nat
    BY OrderFacts DEF Init
  <2> QED
    BY <2>1 DEF Init, WholeInv, WholeOf, Begins, Marked
<1>3. WholeInv => IndexIsWhole
  BY WholeIsWhole DEF WholeInv, WholeOf, IndexIsWhole
<1>4. Init => StopInv /\ Ahead
  BY DEF Init, StopInv, NoBuild, Stages, Ahead
<1>5. (StopInv /\ WritesType /\ MadeInv /\ Ahead /\ WholeInv) /\ [Next]_vars
        => (StopInv /\ WritesType /\ MadeInv /\ Ahead /\ WholeInv)'
  BY StopInvInductive, MadeInvInductive, AheadStep, WholeStep
<1> QED
  BY <1>1, <1>2, <1>3, <1>4, <1>5, PTL DEF Spec
=============================================================================
