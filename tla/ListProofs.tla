----------------------------- MODULE ListProofs -----------------------------
(***************************************************************************)
(* Proofs about the two lists kept for the user: History, for any words, any *)
(* of them the same but for case, and any sizes of the list; and             *)
(* HeadwordModel, for any dictionary, filters and searches.                  *)
(***************************************************************************)
EXTENDS History, HeadwordModel, FunctionTheorems, FiniteSetTheorems, SequenceTheorems,
        WellFoundedInduction, TLAPS

-----------------------------------------------------------------------------
(* History. *)

\* A set of natural numbers has a smallest one.
LEMMA SmallestNumber ==
  ASSUME NEW T, T \subseteq Nat, T # {}
  PROVE  \E x \in T : \A y \in T : x <= y
<1> DEFINE Below == {1 .. x : x \in T}
           R == StrictSubsetOrdering(Nat)
<1>1. Below \subseteq FiniteSubsetsOf(Nat) /\ Below # {}
  <2>1. ASSUME NEW x \in T
        PROVE  1 .. x \subseteq Nat /\ IsFiniteSet(1 .. x)
    BY FS_Interval
  <2> QED
    BY <2>1 DEF FiniteSubsetsOf
<1>2. PICK B \in Below : \A C \in Below : ~(<<C, B>> \in R)
  <2> HIDE DEF Below
  <2> QED
    BY <1>1, WFMin, FS_StrictSubsetOrderingWellFounded, Zenon
<1>3. PICK x \in T : B = 1 .. x
  OBVIOUS
<1>4. ASSUME NEW y \in T, y < x
      PROVE  FALSE
  <2>1. 1 .. y \subseteq 1 .. x /\ x \in 1 .. x /\ x \notin 1 .. y
    BY <1>4
  <2>2. <<1 .. y, B>> \in R
    BY <2>1, <1>3 DEF StrictSubsetOrdering
  <2> QED
    BY <2>2, <1>2
<1> QED
  BY <1>4

LEMMA RemoveAtFacts ==
  ASSUME NEW S, NEW list \in Seq(S), NEW i \in 1 .. Len(list)
  PROVE  /\ RemoveAt(list, i) \in Seq(S)
         /\ Len(RemoveAt(list, i)) = Len(list) - 1
         /\ \A j \in 1 .. Len(list) - 1 :
              RemoveAt(list, i)[j] = list[IF j < i THEN j ELSE j + 1]
<1> DEFINE front == SubSeq(list, 1, i - 1)
           back == SubSeq(list, i + 1, Len(list))
<1>1. front \in Seq(S) /\ Len(front) = i - 1 /\ \A j \in 1 .. i - 1 : front[j] = list[j]
  OBVIOUS
<1>2. /\ back \in Seq(S) /\ Len(back) = Len(list) - i
      /\ \A j \in 1 .. Len(list) - i : back[j] = list[i + j]
  OBVIOUS
<1> HIDE DEF front, back
<1>3. /\ front \o back \in Seq(S) /\ Len(front \o back) = Len(list) - 1
      /\ \A j \in 1 .. Len(list) - 1 :
           (front \o back)[j] = IF j <= i - 1 THEN front[j] ELSE back[j - (i - 1)]
  BY <1>1, <1>2, ConcatProperties
<1>4. RemoveAt(list, i) = front \o back
  BY DEF RemoveAt, front, back
<1>5. ASSUME NEW j \in 1 .. Len(list) - 1
      PROVE  (front \o back)[j] = list[IF j < i THEN j ELSE j + 1]
  <2>1. CASE j < i
    BY <2>1, <1>1, <1>3
  <2>2. CASE ~(j < i)
    <3>1. j - (i - 1) \in 1 .. Len(list) - i /\ i + (j - (i - 1)) = j + 1
      BY <2>2
    <3> QED
      BY <2>2, <3>1, <1>2, <1>3
  <2> QED
    BY <2>1, <2>2
<1> QED
  BY <1>3, <1>4, <1>5

LEMMA AtMostFacts ==
  ASSUME NEW S, NEW list \in Seq(S), NEW n \in Nat
  PROVE  /\ AtMost(n, list) \in Seq(S)
         /\ Len(AtMost(n, list)) <= n /\ Len(AtMost(n, list)) <= Len(list)
         /\ \A j \in 1 .. Len(AtMost(n, list)) : AtMost(n, list)[j] = list[j]
         /\ IsPrefix(AtMost(n, list), list)
  BY DEF AtMost, IsPrefix

\* What is left when a word is removed is still once each, and holds the word no
\* more, unless it is one that line breaks leave twice.
LEMMA RemoveOneFacts ==
  ASSUME NEW list \in Seq(Words \ Bogus), NEW w \in Words, EachOnce(list)
  PROVE  /\ RemoveOne(list, w) \in Seq(Words \ Bogus)
         /\ Len(RemoveOne(list, w)) <= Len(list)
         /\ EachOnce(RemoveOne(list, w))
         /\ \A j \in DOMAIN RemoveOne(list, w) :
              SameWord(RemoveOne(list, w)[j], w) =>
                \E v \in Words : ~SameWord(Clean[v], v) /\ SameWord(Clean[v], w)
<1> DEFINE at == {i \in DOMAIN list : SameWord(list[i], w)}
<1>1. CASE at = {}
  <2>1. RemoveOne(list, w) = list
    BY <1>1 DEF RemoveOne
  <2> QED
    BY <1>1, <2>1
<1>2. CASE at # {}
  <2>1. \E i \in at : \A j \in at : i <= j
    <3>1. at \subseteq Nat
      OBVIOUS
    <3> HIDE DEF at
    <3> QED
      BY <3>1, <1>2, SmallestNumber
  <2> DEFINE first == CHOOSE i \in at : \A j \in at : i <= j
  <2>2. first \in 1 .. Len(list) /\ SameWord(list[first], w)
    BY <2>1
  <2>3. RemoveOne(list, w) = RemoveAt(list, first)
    BY <1>2 DEF RemoveOne
  <2> HIDE DEF first, at
  <2> DEFINE left == RemoveAt(list, first)
             old(j) == IF j < first THEN j ELSE j + 1
  <2>4. /\ left \in Seq(Words \ Bogus) /\ Len(left) = Len(list) - 1
        /\ \A j \in 1 .. Len(list) - 1 : left[j] = list[old(j)]
    BY <2>2, RemoveAtFacts
  <2>5. \A j \in DOMAIN left : old(j) \in DOMAIN list /\ old(j) # first /\ left[j] = list[old(j)]
    BY <2>2, <2>4
  <2>6. \A i, j \in DOMAIN left : i # j => old(i) # old(j)
    BY <2>2, <2>4
  <2> HIDE DEF left, old
  <2>7. EachOnce(left)
    BY <2>5, <2>6 DEF EachOnce
  <2>8. ASSUME NEW j \in DOMAIN left, SameWord(left[j], w)
        PROVE  \E v \in Words : ~SameWord(Clean[v], v) /\ SameWord(Clean[v], w)
    <3>1. SameWord(list[old(j)], list[first]) /\ first \in DOMAIN list
      BY <2>2, <2>5, <2>8 DEF SameWord
    <3>2. PICK v \in Words : ~SameWord(Clean[v], v) /\ SameWord(Clean[v], list[old(j)])
      BY <3>1, <2>5 DEF EachOnce
    <3> QED
      BY <3>2, <2>5, <2>8 DEF SameWord
  <2>9. left \in Seq(Words \ Bogus) /\ Len(left) <= Len(list)
    BY <2>4 DEF left
  <2> QED
    BY <2>3, <2>7, <2>8, <2>9 DEF left
<1> QED
  BY <1>1, <1>2

\* The front of a list is still once each.
LEMMA AtMostOnce ==
  ASSUME NEW list \in Seq(Words \ Bogus), NEW n \in Nat, EachOnce(list)
  PROVE  EachOnce(AtMost(n, list))
<1>1. \A j \in DOMAIN AtMost(n, list) : j \in DOMAIN list /\ AtMost(n, list)[j] = list[j]
  BY AtMostFacts
<1> QED
  BY <1>1 DEF EachOnce

-----------------------------------------------------------------------------
\* The list, and the file it is read from at the next start, are once each.
HistoryInv == TypeOK /\ CleanIsSaved /\ EachOnce(items) /\ EachOnce(file)

LEMMA HistoryInit == Init => HistoryInv
<1> SUFFICES ASSUME Init PROVE HistoryInv
  OBVIOUS
<1>1. items = <<>> /\ file = <<>>
  BY DEF Init
<1>2. EachOnce(items) /\ EachOnce(file) /\ IsPrefix(items, file)
  BY <1>1 DEF EachOnce, IsPrefix
<1>3. TypeOK
  <2>1. <<>> \in Seq(Words \ Bogus) /\ Len(<<>>) = 0
    OBVIOUS
  <2>2. /\ maxSize \in Nat /\ maxSize \in MaxSizes /\ cfgMaxSize \in MaxSizes
        /\ running \in BOOLEAN /\ addingEnabled \in BOOLEAN /\ dirty \in BOOLEAN
    BY HistoryAssumption DEF HistoryAssumption, Init
  <2>3. interval \in BOOLEAN /\ timer \in BOOLEAN
    BY DEF Init
  <2>4. items \in Seq(Words \ Bogus) /\ file \in Seq(Words \ Bogus) /\ Len(items) = 0
    BY <1>1, <2>1
  <2> QED
    BY <2>2, <2>3, <2>4 DEF TypeOK
<1> QED
  BY <1>2, <1>3 DEF HistoryInv, CleanIsSaved

\* A save writes the list or leaves the file; either way a clean list is in it.
LEMMA SaveFacts ==
  ASSUME HistoryInv, NEW list \in Seq(Words \ Bogus), EachOnce(list), NEW unsaved \in BOOLEAN,
         unsaved \/ (running => IsPrefix(list, file)),
         Save(list, unsaved)
  PROVE  /\ file' \in Seq(Words \ Bogus) /\ EachOnce(file')
         /\ dirty' \in BOOLEAN
         /\ running /\ ~dirty' => IsPrefix(list, file')
<1>1. PICK written \in {FALSE, unsaved} :
        /\ file' = IF written THEN Lines(list) ELSE file
        /\ dirty' = (unsaved /\ ~written)
  BY DEF Save
<1>2. IsPrefix(list, list)
  BY DEF IsPrefix
<1>3. CASE written
  BY <1>1, <1>2, <1>3 DEF Lines
<1>4. CASE ~written
  <2>1. file' = file /\ dirty' = unsaved
    BY <1>1, <1>4
  <2>2. file \in Seq(Words \ Bogus) /\ EachOnce(file)
    BY DEF HistoryInv, TypeOK
  <2> QED
    BY <2>1, <2>2
<1> QED
  BY <1>3, <1>4

LEMMA AddItemStep ==
  ASSUME HistoryInv, NEW w \in Words, NEW forced \in BOOLEAN, AddItem(w, forced)
  PROVE  HistoryInv'
<1> USE DEF HistoryInv
<1> DEFINE rest == RemoveOne(items, w)
           added == <<Clean[w]>> \o rest
<1>1. /\ rest \in Seq(Words \ Bogus) /\ EachOnce(rest)
      /\ \A j \in DOMAIN rest : SameWord(rest[j], w) =>
           \E v \in Words : ~SameWord(Clean[v], v) /\ SameWord(Clean[v], w)
  BY RemoveOneFacts DEF TypeOK
<1>2. Clean[w] \in Words \ Bogus
  BY HistoryAssumption DEF HistoryAssumption, AddItem
<1> HIDE DEF rest
<1>3. /\ added \in Seq(Words \ Bogus) /\ Len(added) = Len(rest) + 1
      /\ added[1] = Clean[w]
      /\ \A j \in 2 .. Len(added) : j - 1 \in DOMAIN rest /\ added[j] = rest[j - 1]
  <2>1. <<Clean[w]>> \in Seq(Words \ Bogus) /\ Len(<<Clean[w]>>) = 1 /\ <<Clean[w]>>[1] = Clean[w]
    BY <1>2
  <2> QED
    BY <1>1, <2>1, ConcatProperties
<1> HIDE DEF added
<1>4. EachOnce(added)
  <2> DEFINE Left(u) == \E v \in Words : ~SameWord(Clean[v], v) /\ SameWord(Clean[v], u)
  <2>1. ASSUME NEW j \in 2 .. Len(added), SameWord(added[1], added[j])
        PROVE  Left(added[1]) /\ Left(added[j])
    <3>1. CASE SameWord(Clean[w], w)
      <4>1. SameWord(rest[j - 1], w)
        BY <1>3, <2>1, <3>1 DEF SameWord
      <4> QED
        BY <1>1, <1>3, <2>1, <3>1, <4>1 DEF SameWord
    <3>2. CASE ~SameWord(Clean[w], w)
      BY <1>3, <2>1, <3>2 DEF SameWord
    <3> QED
      BY <3>1, <3>2
  <2>2. ASSUME NEW i \in 2 .. Len(added), NEW j \in 2 .. Len(added),
               i # j, SameWord(added[i], added[j])
        PROVE  Left(added[i])
    BY <1>1, <1>3, <2>2 DEF EachOnce
  <2>3. ASSUME NEW i \in DOMAIN added, NEW j \in DOMAIN added,
               i # j, SameWord(added[i], added[j])
        PROVE  Left(added[i])
    <3>1. i \in 1 .. Len(added) /\ j \in 1 .. Len(added)
      BY <1>3
    <3>2. CASE i = 1
      BY <3>1, <3>2, <2>1, <2>3
    <3>3. CASE j = 1
      <4>1. SameWord(added[1], added[i])
        BY <2>3, <3>3 DEF SameWord
      <4> QED
        BY <3>1, <3>3, <4>1, <2>1, <2>3
    <3>4. CASE i # 1 /\ j # 1
      BY <3>1, <3>4, <2>2, <2>3
    <3> QED
      BY <3>2, <3>3, <3>4
  <2> QED
    BY <2>3 DEF EachOnce
<1>5. maxSize \in Nat
  BY HistoryAssumption DEF HistoryAssumption, TypeOK
<1>6. items' = AtMost(maxSize, added) /\ dirty' = TRUE
      /\ UNCHANGED <<running, maxSize, addingEnabled, interval, timer, file, cfgMaxSize>>
  BY DEF AddItem, Constrained, added, rest
<1>7. items' \in Seq(Words \ Bogus) /\ Len(items') <= maxSize /\ EachOnce(items')
  BY <1>3, <1>4, <1>5, <1>6, AtMostFacts, AtMostOnce
<1>8. TypeOK'
  BY <1>5, <1>6, <1>7 DEF TypeOK
<1>9. CleanIsSaved' /\ EachOnce(file')
  BY <1>6 DEF CleanIsSaved, EachOnce
<1>10. EachOnce(items)'
  BY <1>7 DEF EachOnce
<1> QED
  BY <1>8, <1>9, <1>10 DEF EachOnce

LEMMA RemoveItemStep ==
  ASSUME HistoryInv, NEW i \in DOMAIN items, RemoveItem(i)
  PROVE  HistoryInv'
<1> USE DEF HistoryInv
<1> DEFINE old(j) == IF j < i THEN j ELSE j + 1
<1>1. items \in Seq(Words \ Bogus) /\ i \in 1 .. Len(items)
  BY DEF TypeOK
<1>2. /\ items' \in Seq(Words \ Bogus) /\ Len(items') = Len(items) - 1
      /\ \A j \in 1 .. Len(items) - 1 : items'[j] = items[old(j)]
  BY <1>1, RemoveAtFacts DEF RemoveItem
<1>3. \A j \in DOMAIN items' : old(j) \in DOMAIN items /\ items'[j] = items[old(j)]
  BY <1>1, <1>2
<1>4. \A j, k \in DOMAIN items' : j # k => old(j) # old(k)
  BY <1>1, <1>2
<1> HIDE DEF old
<1>5. EachOnce(items)'
  BY <1>3, <1>4 DEF EachOnce
<1>6. maxSize \in Nat
  BY HistoryAssumption DEF HistoryAssumption, TypeOK
<1>7. TypeOK' /\ CleanIsSaved' /\ EachOnce(file)'
  BY <1>1, <1>2, <1>6 DEF RemoveItem, TypeOK, CleanIsSaved, EachOnce
<1> QED
  BY <1>5, <1>7

LEMMA SetMaxSizeStep ==
  ASSUME HistoryInv, NEW n \in MaxSizes, SetMaxSize(n)
  PROVE  HistoryInv'
<1> USE DEF HistoryInv
<1>1. n \in Nat /\ items \in Seq(Words \ Bogus)
  BY HistoryAssumption DEF HistoryAssumption, TypeOK
<1>2. items' = AtMost(n, items) /\ dirty' = (dirty \/ items' # items) /\ maxSize' = n
  BY DEF SetMaxSize, Constrained
<1>3. items' \in Seq(Words \ Bogus) /\ Len(items') <= n /\ EachOnce(items')
  BY <1>1, <1>2, AtMostFacts, AtMostOnce
<1>4. EachOnce(items)' /\ EachOnce(file)'
  BY <1>3 DEF SetMaxSize, EachOnce
<1>5. TypeOK'
  BY <1>1, <1>2, <1>3 DEF SetMaxSize, TypeOK
<1>6. CleanIsSaved'
  BY <1>2 DEF SetMaxSize, CleanIsSaved, TypeOK
<1> QED
  BY <1>4, <1>5, <1>6

\* The steps that save, or may: the list, or nothing of it, is what is saved.
LEMMA SavingStep ==
  ASSUME HistoryInv, NEW on \in BOOLEAN,
         TimerEvent \/ SetSaveInterval(on) \/ Quit
  PROVE  HistoryInv'
<1> USE DEF HistoryInv
<1>1. items \in Seq(Words \ Bogus) /\ file \in Seq(Words \ Bogus) /\ dirty \in BOOLEAN
  BY DEF TypeOK
<1>2. /\ file' \in Seq(Words \ Bogus) /\ EachOnce(file') /\ dirty' \in BOOLEAN
      /\ running /\ ~dirty' => IsPrefix(items, file')
  <2>1. CASE Save(items, dirty)
    <3>1. dirty \/ (running => IsPrefix(items, file))
      BY DEF CleanIsSaved
    <3> QED
      BY <1>1, <2>1, <3>1, SaveFacts
  <2>2. CASE UNCHANGED <<file, dirty>>
    BY <1>1, <2>2 DEF CleanIsSaved
  <2> QED
    BY <2>1, <2>2 DEF TimerEvent, SetSaveInterval, Quit
<1>3. /\ UNCHANGED <<items, maxSize, addingEnabled, cfgMaxSize>>
      /\ running' \in BOOLEAN /\ (running' => running)
      /\ interval' \in BOOLEAN /\ timer' \in BOOLEAN
  BY DEF TimerEvent, SetSaveInterval, Quit, Restarted, TypeOK
<1>4. TypeOK' /\ CleanIsSaved'
  BY <1>2, <1>3 DEF TypeOK, CleanIsSaved
<1>5. EachOnce(items)' /\ EachOnce(file)'
  BY <1>2, <1>3 DEF EachOnce
<1> QED
  BY <1>4, <1>5

LEMMA ClearHistoryStep ==
  ASSUME HistoryInv, ClearHistory
  PROVE  HistoryInv'
<1> USE DEF HistoryInv
<1>1. <<>> \in Seq(Words \ Bogus) /\ Len(<<>>) = 0 /\ EachOnce(<<>>)
  BY DEF EachOnce
<1>2. /\ file' \in Seq(Words \ Bogus) /\ EachOnce(file') /\ dirty' \in BOOLEAN
      /\ running /\ ~dirty' => IsPrefix(<<>>, file')
  <2>1. Save(<<>>, TRUE)
    BY DEF ClearHistory
  <2> QED
    BY <1>1, <2>1, SaveFacts
<1>3. maxSize \in Nat
  BY HistoryAssumption DEF HistoryAssumption, TypeOK
<1>4. TypeOK' /\ CleanIsSaved'
  BY <1>1, <1>2, <1>3 DEF ClearHistory, TypeOK, CleanIsSaved
<1>5. EachOnce(items)' /\ EachOnce(file)'
  BY <1>1, <1>2 DEF ClearHistory, EachOnce
<1> QED
  BY <1>4, <1>5

LEMMA StartStep ==
  ASSUME HistoryInv, Start
  PROVE  HistoryInv'
<1> USE DEF HistoryInv
<1>1. cfgMaxSize \in Nat /\ cfgMaxSize + 1 \in Nat /\ file \in Seq(Words \ Bogus)
  BY HistoryAssumption DEF HistoryAssumption, TypeOK
<1>2. /\ items' = AtMost(cfgMaxSize + 1, file) \/ items' = AtMost(0, file)
      /\ maxSize' = cfgMaxSize /\ file' = file
  <2>1. AtMost(0, file) = <<>>
    BY <1>1 DEF AtMost
  <2> QED
    BY <2>1 DEF Start, Load
<1>3. /\ items' \in Seq(Words \ Bogus) /\ Len(items') <= cfgMaxSize + 1
      /\ EachOnce(items') /\ IsPrefix(items', file)
  BY <1>1, <1>2, AtMostFacts, AtMostOnce
<1>4. TypeOK' /\ CleanIsSaved'
  BY <1>2, <1>3 DEF Start, TypeOK, CleanIsSaved
<1>5. EachOnce(items)' /\ EachOnce(file)'
  BY <1>2, <1>3 DEF EachOnce
<1> QED
  BY <1>4, <1>5

\* The invariant that ties the list, its mark and its file together holds in every
\* state (src/src/history.cc): no operation, failed save, crash or restart breaks it.
THEOREM HistoryInvariant == Spec => []HistoryInv
<1>1. HistoryInv /\ [Next]_vars => HistoryInv'
  <2> SUFFICES ASSUME HistoryInv, [Next]_vars PROVE HistoryInv'
    OBVIOUS
  <2>1. ASSUME NEW w \in Words, NEW forced \in BOOLEAN, AddItem(w, forced)
        PROVE  HistoryInv'
    BY <2>1, AddItemStep
  <2>2. ASSUME NEW i \in DOMAIN items, RemoveItem(i)
        PROVE  HistoryInv'
    BY <2>2, RemoveItemStep
  <2>3. ASSUME NEW on \in BOOLEAN, EnableAdd(on)
        PROVE  HistoryInv'
    BY <2>3 DEF EnableAdd, HistoryInv, TypeOK, CleanIsSaved, EachOnce
  <2>4. ASSUME NEW on \in BOOLEAN, SetSaveInterval(on)
        PROVE  HistoryInv'
    BY <2>4, SavingStep
  <2>5. ASSUME NEW n \in MaxSizes, SetMaxSize(n)
        PROVE  HistoryInv'
    BY <2>5, SetMaxSizeStep
  <2>6. CASE TimerEvent
    BY <2>6, SavingStep
  <2>7. CASE ClearHistory
    BY <2>7, ClearHistoryStep
  <2>8. CASE Quit
    BY <2>8, SavingStep
  <2>9. CASE Crash
    BY <2>9 DEF Crash, HistoryInv, TypeOK, CleanIsSaved, EachOnce
  <2>10. CASE Start
    BY <2>10, StartStep
  <2>11. CASE UNCHANGED vars
    BY <2>11 DEF vars, HistoryInv, TypeOK, CleanIsSaved, EachOnce
  <2> QED
    BY <2>1, <2>2, <2>3, <2>4, <2>5, <2>6, <2>7, <2>8, <2>9, <2>10, <2>11 DEF Next
<1> QED
  BY <1>1, HistoryInit, PTL DEF Spec

\* Every variable of the history has its type, and the list has at most one item
\* more than its size (src/src/history.cc:24).
THEOREM HistoryTypeCorrect == Spec => []TypeOK
<1>1. HistoryInv => TypeOK
  BY DEF HistoryInv
<1> QED
  BY <1>1, HistoryInvariant, PTL

\* No word comes to be on the list twice but what words with line breaks become,
\* for any list, size and sequence of operations and restarts
\* (src/src/history.cc:61).
THEOREM NoWordTwice == Spec => []NoDuplicates
<1>1. HistoryInv => NoDuplicates
  BY DEF HistoryInv, NoDuplicates
<1> QED
  BY <1>1, HistoryInvariant, PTL

\* A list not marked dirty is in the file, whichever saves failed before
\* (src/src/history.cc:122).
THEOREM CleanListIsSaved == Spec => []CleanIsSaved
<1>1. HistoryInv => CleanIsSaved
  BY DEF HistoryInv
<1> QED
  BY <1>1, HistoryInvariant, PTL

-----------------------------------------------------------------------------
(* HeadwordModel: its invariant. *)

\* The requests a filter makes; those of which the worker is at work.
Requests ==
  [filter : Filters, found : Seq(Headwords), worker : {"working", "emitting", "gone"},
   heard : BOOLEAN]

Working == {r \in Requests : r.worker = "working"}

\* Types.
ModelTypes ==
  /\ words \in Seq(Headwords) /\ original_words \in Seq(Headwords)
  /\ filterWords \in Seq(Headwords)
  /\ filtering \in BOOLEAN /\ finished \in BOOLEAN
  /\ index \in 0 .. Len(Leaves) /\ posted \in Nat
  /\ queuedRequests \in Seq(Requests)
  /\ mixed \in BOOLEAN /\ outlived \in BOOLEAN

\* Without a filter there are no searches.
Quiet == ~filtering /\ ~outlived => queuedRequests = <<>> /\ posted = 0

\* The words of the filter are those of its own search, which is out or was taken.
OwnSearch ==
  (filtering /\ ~mixed /\ ~outlived) =>
    \/ /\ queuedRequests = <<>> /\ filterWords \in {<<>>, Matches[filter]}
       /\ filterWords # <<>> => words = filterWords
    \/ /\ Len(queuedRequests) = 1 /\ filterWords = <<>>
       /\ queuedRequests[1].found \in {Matches[filter], <<>>}

\* The inductive invariant.
ModelInv == ModelTypes /\ Quiet /\ OwnSearch /\ OriginalRestored /\ NoneForgotten

\* The set as a list, in some order.
LEMMA SeqOfSet ==
  ASSUME NEW S, IsFiniteSet(S)
  PROVE  SetToSeq(S) \in Seq(S) /\ ToSet(SetToSeq(S)) = S
<1> DEFINE n == Cardinality(S)
           Good(f) == f \in [1 .. n -> S] /\ IsInjective(f)
<1>1. n \in Nat /\ \E f : Good(f)
  <2>1. n \in Nat /\ ExistsBijection(1 .. n, S)
    BY FS_CardinalityType
  <2>2. PICK f : f \in Bijection(1 .. n, S)
    BY <2>1 DEF ExistsBijection
  <2>3. f \in [1 .. n -> S] /\ DOMAIN f = 1 .. n /\ \A a, b \in 1 .. n : f[a] = f[b] => a = b
    BY <2>2, Fun_BijectionProperties
  <2> QED
    BY <2>1, <2>3 DEF IsInjective
<1>2. Good(SetToSeq(S))
  BY <1>1, Zenon DEF SetToSeq
<1> DEFINE s == SetToSeq(S)
<1>3. s \in [1 .. n -> S] /\ IsInjective(s)
  BY <1>2
<1> HIDE DEF s, n
<1>4. s \in Seq(S) /\ DOMAIN s = 1 .. n
  <2>1. s \in UNION {[1 .. k -> S] : k \in Nat}
    BY <1>1, <1>3
  <2> QED
    BY <1>3, <2>1, SeqDef
<1>5. s \in Surjection(1 .. n, S)
  <2>1. s \in Injection(1 .. n, S)
    BY <1>3 DEF Injection
  <2>2. Cardinality(1 .. n) = n
    BY <1>1, FS_Interval
  <2> QED
    BY <2>1, <2>2, FS_Injection DEF n
<1>6. ToSet(s) = S
  <2>1. \A x \in S : \E i \in 1 .. n : s[i] = x
    BY <1>5, Zenon DEF Surjection
  <2> QED
    BY <1>3, <1>4, <2>1 DEF ToSet
<1> QED
  BY <1>4, <1>6 DEF s

LEMMA SetOfConcat ==
  ASSUME NEW T, NEW s \in Seq(T), NEW t \in Seq(T)
  PROVE  ToSet(s \o t) = ToSet(s) \cup ToSet(t)
<1>1. Range(s \o t) = Range(s) \cup Range(t)
  BY RangeConcatenation
<1> QED
  BY <1>1, Zenon DEF ToSet, Range

\* A batch has the headwords of its leaves.
LEMMA BatchRight ==
  ASSUME NEW from \in 0 .. Len(Leaves), NEW upTo \in from .. Len(Leaves)
  PROVE  /\ Batch(from, upTo) \in Seq(Headwords)
         /\ ToSet(Batch(from, upTo)) = UNION {Leaves[i] : i \in from + 1 .. upTo}
<1> DEFINE S == UNION {Leaves[i] : i \in from + 1 .. upTo}
<1>1. S \subseteq Headwords
  <2>1. \A i \in from + 1 .. upTo : i \in 1 .. Len(Leaves)
    OBVIOUS
  <2>2. \A i \in 1 .. Len(Leaves) : Leaves[i] \subseteq Headwords
    BY HeadwordModelAssumption, ElementOfSeq DEF HeadwordModelAssumption
  <2> QED
    BY <2>1, <2>2, Zenon
<1>2. IsFiniteSet(S)
  BY <1>1, HeadwordModelAssumption, FS_Subset DEF HeadwordModelAssumption
<1>3. SetToSeq(S) \in Seq(Headwords)
  BY <1>1, <1>2, SeqOfSet, SeqMonotonic
<1> QED
  BY <1>2, <1>3, SeqOfSet DEF Batch
\* What holds of 0, and of a number if it holds of the one before, holds of all.
LEMMA AllUpTo ==
  ASSUME NEW N \in Nat, NEW Good, 0 \in Good,
         \A i \in 1 .. N : i - 1 \in Good => i \in Good
  PROVE  \A i \in 0 .. N : i \in Good
<1> DEFINE Bad == {i \in 0 .. N : i \notin Good}
<1>1. CASE Bad = {}
  BY <1>1
<1>2. CASE Bad # {}
  <2>1. Bad \subseteq Nat
    OBVIOUS
  <2>2. PICK n \in Bad : \A y \in Bad : n <= y
    <3> HIDE DEF Bad
    <3> QED
      BY <1>2, <2>1, SmallestNumber
  <2>3. n \in 0 .. N /\ n \notin Good
    OBVIOUS
  <2>4. n \in 1 .. N /\ n - 1 \in 0 .. N /\ ~(n <= n - 1)
    BY <2>3
  <2>5. n - 1 \in Good
    BY <2>2, <2>4
  <2> QED
    BY <2>3, <2>4, <2>5
<1> QED
  BY <1>1, <1>2

\* The values f has after each of N turns S from b.
Runs(f, N, b, S) == f[0] = b /\ \A i \in 1 .. N : f[i] = S[i][f[i - 1]]

\* A loop of N turns has a value after each of them.
LEMMA LoopExists ==
  ASSUME NEW N \in Nat, NEW X, NEW b \in X, NEW S \in [1 .. N -> [X -> X]]
  PROVE  \E f \in [0 .. N -> X] : Runs(f, N, b, S)
<1> DEFINE P(n) == \E f \in [0 .. n -> X] :
                     f[0] = b /\ \A i \in 1 .. n : f[i] = S[i][f[i - 1]]
           Good == {n \in 0 .. N : P(n)}
<1>1. P(0)
  <2>1. [i \in 0 .. 0 |-> b] \in [0 .. 0 -> X]
    OBVIOUS
  <2>2. 0 \in 0 .. 0 /\ 1 .. 0 = {}
    OBVIOUS
  <2>3. [i \in 0 .. 0 |-> b][0] = b
    BY <2>2
  <2> QED
    BY <2>1, <2>2, <2>3
<1>2. ASSUME NEW n \in 1 .. N, P(n - 1) PROVE P(n)
  <2>1. PICK f \in [0 .. n - 1 -> X] :
          f[0] = b /\ \A i \in 1 .. n - 1 : f[i] = S[i][f[i - 1]]
    BY <1>2
  <2> DEFINE g == [i \in 0 .. n |-> IF i = n THEN S[n][f[n - 1]] ELSE f[i]]
  <2>2. n \in Nat /\ n >= 1 /\ n <= N
    OBVIOUS
  <2>3. g \in [0 .. n -> X]
    <3>1. f[n - 1] \in X
      BY <2>2
    <3>2. S[n][f[n - 1]] \in X
      BY <3>1
    <3>3. \A i \in 0 .. n : i # n => i \in 0 .. n - 1
      BY <2>2
    <3> QED
      BY <3>2, <3>3
  <2>4. g[0] = b
    BY <2>1, <2>2
  <2>5. ASSUME NEW i \in 1 .. n PROVE g[i] = S[i][g[i - 1]]
    <3>1. i - 1 \in 0 .. n /\ i - 1 # n /\ i \in 0 .. n
      BY <2>2
    <3>2. g[i - 1] = f[i - 1]
      BY <3>1
    <3>3. CASE i = n
      BY <3>1, <3>2, <3>3
    <3>4. CASE i # n
      <4>1. i \in 1 .. n - 1
        BY <2>2, <3>4
      <4>2. f[i] = S[i][f[i - 1]]
        BY <2>1, <4>1
      <4> QED
        BY <3>1, <3>2, <3>4, <4>2
    <3> QED
      BY <3>3, <3>4
  <2> HIDE DEF g
  <2> QED
    BY <2>3, <2>4, <2>5
<1> HIDE DEF P
<1>3. 0 \in Good
  BY <1>1
<1>4. \A i \in 1 .. N : i - 1 \in Good => i \in Good
  BY <1>2
<1>5. N \in Good
  <2> HIDE DEF Good
  <2>1. N \in 0 .. N
    OBVIOUS
  <2> QED
    BY <1>3, <1>4, <2>1, AllUpTo
<1> QED
  BY <1>5 DEF P, Runs


\* A batch ends at one of the leaves to come.
LEMMA BatchEndRight ==
  ASSUME NEW from \in 0 .. Len(Leaves)
  PROVE  BatchEnd(from) \in from .. Len(Leaves)
<1> DEFINE enough == {n \in from + 1 .. Len(Leaves) :
                        Cardinality(UNION {Leaves[i] : i \in from + 1 .. n}) >= BatchSize}
<1>1. Len(Leaves) \in Nat
  BY HeadwordModelAssumption, LenProperties DEF HeadwordModelAssumption
<1>2. BatchEnd(from) = IF enough = {} THEN Len(Leaves) ELSE Min(enough)
  BY DEF BatchEnd
<1>3. enough \subseteq from + 1 .. Len(Leaves)
  OBVIOUS
<1> HIDE DEF enough
<1>4. CASE enough = {}
  BY <1>1, <1>2, <1>4
<1>5. CASE enough # {}
  <2>1. enough \subseteq Nat
    BY <1>1, <1>3
  <2>2. \E x \in enough : \A y \in enough : x <= y
    BY <1>5, <2>1, SmallestNumber
  <2>3. Min(enough) \in enough
    BY <2>2, Zenon DEF Min
  <2>4. BatchEnd(from) \in from + 1 .. Len(Leaves)
    BY <1>2, <1>3, <1>5, <2>3, Zenon
  <2> QED
    BY <1>1, <2>4
<1> QED
  BY <1>4, <1>5

\* What the loop of requestFinished() carries from turn to turn.
Takings == [left : Seq(Working), words : Seq(Headwords), waited : Nat]

LEMMA TakeType ==
  ASSUME NEW r \in Requests, NEW t \in Takings
  PROVE  Take(r, t) \in Takings
<1>1. t.left \in Seq(Working) /\ t.words \in Seq(Headwords) /\ t.waited \in Nat
      /\ t = [left |-> t.left, words |-> t.words, waited |-> t.waited]
  BY DEF Takings
<1>2. CASE r.worker = "working"
  <2>1. r \in Working
    BY <1>2 DEF Working
  <2> DEFINE l == Append(t.left, r)
  <2>2. l \in Seq(Working)
    BY <1>1, <2>1, AppendProperties
  <2> HIDE DEF l
  <2>3. [t EXCEPT !.left = l] \in Takings
    BY <2>2 DEF Takings
  <2> QED
    BY <1>2, <2>3 DEF Take, l
<1>3. CASE r.worker # "working"
  <2> DEFINE w == t.words \o r.found
             n == t.waited + (IF r.worker = "emitting" THEN 1 ELSE 0)
  <2>1. w \in Seq(Headwords)
    <3>1. r.found \in Seq(Headwords)
      BY DEF Requests
    <3> QED
      BY <1>1, <3>1, ConcatProperties
  <2>2. n \in Nat
    BY <1>1
  <2> HIDE DEF w, n
  <2>3. [t EXCEPT !.words = w, !.waited = n] \in Takings
    BY <2>1, <2>2 DEF Takings
  <2> QED
    BY <1>3, <2>3 DEF Take, w, n
<1> QED
  BY <1>2, <1>3

\* The loop of requestFinished() has a value after each of its turns.
LEMMA TakeLoop ==
  ASSUME NEW requests \in Seq(Requests), NEW given \in Seq(Headwords)
  PROVE  \E f \in [0 .. Len(requests) -> Takings] :
           /\ f[0] = [left |-> <<>>, words |-> given, waited |-> 0]
           /\ TakeAll(requests, given) = f[Len(requests)]
           /\ \A i \in 1 .. Len(requests) : f[i] = Take(requests[i], f[i - 1])
<1> DEFINE N == Len(requests)
           X == Takings
           b == [left |-> <<>>, words |-> given, waited |-> 0]
           Turn(i, x) == Take(requests[i], x)
           Step(g) == [i \in 0 .. N |-> IF i = 0 THEN b ELSE Turn(i, g[i - 1])]
           S == [i \in 1 .. N |-> [x \in X |-> Turn(i, x)]]
           a == CHOOSE g : g = Step(g)
<1>1. N \in Nat
  BY LenProperties
<1>2. TakeAll(requests, given) = a[N]
  BY Zenon DEF TakeAll
<1>3. b \in X
  <2>1. <<>> \in Seq(Working)
    BY EmptySeq
  <2> QED
    BY <2>1 DEF Takings
<1>4. ASSUME NEW i \in 1 .. N, NEW x \in X PROVE Turn(i, x) \in X
  <2>1. requests[i] \in Requests
    BY ElementOfSeq
  <2> QED
    BY <2>1, TakeType
<1> SUFFICES \E f \in [0 .. N -> X] : /\ f[0] = b /\ TakeAll(requests, given) = f[N]
                                   /\ \A i \in 1 .. N : f[i] = Turn(i, f[i - 1])
  BY Zenon
<1> HIDE DEF N, X, b, Turn
<1>5. S \in [1 .. N -> [X -> X]]
  BY <1>4
<1>6. \A i \in 1 .. N, x \in X : S[i][x] = Turn(i, x)
  OBVIOUS
<1> HIDE DEF S
<1>7. PICK h \in [0 .. N -> X] : Runs(h, N, b, S)
  BY <1>1, <1>3, <1>5, LoopExists
<1>8. h = Step(h)
  <2>1. h = [i \in 0 .. N |-> h[i]]
    BY <1>7
  <2>2. \A i \in 0 .. N : i # 0 => i \in 1 .. N /\ i - 1 \in 0 .. N
    BY <1>1
  <2>3. \A i \in 0 .. N : i # 0 => h[i] = Turn(i, h[i - 1])
    BY <1>6, <1>7, <2>2 DEF Runs
  <2> QED
    BY <1>7, <2>1, <2>3 DEF Runs
<1>9. a = Step(a)
  BY <1>8, Zenon
<1> HIDE DEF a
<1>10. DOMAIN a = 0 .. N /\ a = [i \in 0 .. N |-> a[i]]
      /\ \A i \in 0 .. N : a[i] = IF i = 0 THEN b ELSE Turn(i, a[i - 1])
  BY <1>9, Zenon
<1>11. a[0] = b /\ \A i \in 1 .. N : a[i] = Turn(i, a[i - 1])
  <2>1. 0 \in 0 .. N /\ \A i \in 1 .. N : i \in 0 .. N /\ i # 0
    BY <1>1
  <2> QED
    BY <1>10, <2>1, Zenon
<1>12. a \in [0 .. N -> X]
  <2> DEFINE Good == {i \in 0 .. N : a[i] \in X}
  <2>1. 0 \in Good
    BY <1>1, <1>3, <1>11
  <2>2. ASSUME NEW i \in 1 .. N, i - 1 \in Good PROVE i \in Good
    <3>1. a[i - 1] \in X /\ i \in 0 .. N
      BY <1>1, <2>2
    <3>2. a[i] \in X
      BY <1>4, <1>11, <3>1
    <3> QED
      BY <3>1, <3>2
  <2>3. \A i \in 0 .. N : i \in Good
    <3> HIDE DEF Good
    <3> QED
      BY <1>1, <2>1, <2>2, AllUpTo
  <2> QED
    BY <1>10, <2>3
<1> QED
  BY <1>2, <1>11, <1>12

\* What it leaves is at work, and of a single request it takes all or nothing.
LEMMA TakeAllRight ==
  ASSUME NEW requests \in Seq(Requests), NEW given \in Seq(Headwords)
  PROVE  LET all == TakeAll(requests, given)
         IN  /\ all.left \in Seq(Working) /\ all.words \in Seq(Headwords) /\ all.waited \in Nat
             /\ requests = <<>> => all.left = <<>> /\ all.words = given
             /\ Len(requests) = 1 =>
                  \/ all.left = requests /\ all.words = given
                  \/ all.left = <<>> /\ all.words = given \o requests[1].found
<1> DEFINE n == Len(requests)
           all == TakeAll(requests, given)
<1>1. PICK f \in [0 .. n -> Takings] :
           /\ f[0] = [left |-> <<>>, words |-> given, waited |-> 0]
           /\ all = f[n]
           /\ \A i \in 1 .. n : f[i] = Take(requests[i], f[i - 1])
  BY TakeLoop
<1>2. n \in Nat
  BY LenProperties
<1> HIDE DEF all
<1>3. all \in Takings
  BY <1>1, <1>2
<1>4. requests = <<>> => all.left = <<>> /\ all.words = given
  BY <1>1, EmptySeq
<1>5. ASSUME n = 1
      PROVE  \/ all.left = requests /\ all.words = given
             \/ all.left = <<>> /\ all.words = given \o requests[1].found
  <2>1. all = Take(requests[1], [left |-> <<>>, words |-> given, waited |-> 0])
    BY <1>1, <1>5
  <2>2. requests = <<requests[1]>> /\ Append(<<>>, requests[1]) = <<requests[1]>>
    <3>2. DOMAIN requests = 1 .. 1 /\ requests \in [1 .. 1 -> Requests]
      BY <1>5, LenProperties
    <3>1. requests[1] \in Requests
      BY <3>2
    <3> QED
      BY <1>5, <3>1, <3>2
  <2>3. CASE requests[1].worker = "working"
    BY <2>1, <2>2, <2>3 DEF Take
  <2>4. CASE requests[1].worker # "working"
    BY <2>1, <2>4 DEF Take
  <2> QED
    BY <2>3, <2>4
<1> QED
  BY <1>3, <1>4, <1>5 DEF Takings, all


\* Fetching keeps the invariant: the list grows by what its leaves have.
LEMMA FetchKeeps == ASSUME ModelInv, FetchMore PROVE ModelInv'
<1>1. /\ ~filtering /\ ~finished /\ UNCHANGED <<original_words, filterWords, filtering>>
      /\ UNCHANGED <<queuedRequests, posted, filter, mixed, outlived>>
  BY DEF FetchMore, FetchAll, FetchSome, CanFetchMore, requestVars, historyVars
<1>2. ModelTypes /\ OriginalRestored /\ Len(Leaves) \in Nat
  BY HeadwordModelAssumption, LenProperties DEF ModelInv, HeadwordModelAssumption
<1>3. /\ words' \in Seq(Headwords) /\ index' \in 0 .. Len(Leaves) /\ finished' \in BOOLEAN
      /\ outlived \/ ToSet(words') = Fetched'
  <2>1. CASE FetchAll
    <3>1. finished' = TRUE /\ index' = index /\ words' = Batch(0, Len(Leaves))
      BY <2>1 DEF FetchAll
    <3>2. 0 \in 0 .. Len(Leaves) /\ Len(Leaves) \in 0 .. Len(Leaves) /\ 0 + 1 = 1
      BY <1>2
    <3>3. words' \in Seq(Headwords)
          /\ ToSet(words') = UNION {Leaves[i] : i \in 1 .. Len(Leaves)}
      BY <3>1, <3>2, BatchRight
    <3>4. Fetched' = UNION {Leaves[i] : i \in 1 .. Len(Leaves)}
      BY <3>1 DEF Fetched
    <3> QED
      BY <1>2, <3>1, <3>3, <3>4 DEF ModelTypes
  <2>2. CASE FetchSome
    <3> DEFINE upTo == BatchEnd(index)
               more == Batch(index, upTo)
    <3>1. finished' = finished /\ index' = upTo /\ words' = words \o more
      BY <2>2 DEF FetchSome
    <3>2. index \in 0 .. Len(Leaves) /\ upTo \in index .. Len(Leaves) /\ words \in Seq(Headwords)
      BY <1>2, BatchEndRight DEF ModelTypes
    <3>3. more \in Seq(Headwords) /\ ToSet(more) = UNION {Leaves[i] : i \in index + 1 .. upTo}
      <4> HIDE DEF upTo
      <4> QED
        BY <3>2, BatchRight
    <3> HIDE DEF more, upTo
    <3>4. words \o more \in Seq(Headwords) /\ ToSet(words \o more) = ToSet(words) \cup ToSet(more)
      BY <3>2, <3>3, ConcatProperties, SetOfConcat
    <3>5. Fetched = UNION {Leaves[i] : i \in 1 .. index}
          /\ Fetched' = UNION {Leaves[i] : i \in 1 .. upTo}
      BY <1>1, <3>1 DEF Fetched
    <3>6. \A i : i \in 1 .. upTo <=> i \in 1 .. index \/ i \in index + 1 .. upTo
      BY <1>2, <3>2
    <3>7. Fetched' = Fetched \cup UNION {Leaves[i] : i \in index + 1 .. upTo}
      BY <3>5, <3>6, Zenon
    <3>8. outlived \/ ToSet(words) = Fetched
      BY <1>1, <1>2 DEF OriginalRestored
    <3>9. index' \in 0 .. Len(Leaves)
      BY <1>2, <3>1, <3>2
    <3>10. words' \in Seq(Headwords) /\ (outlived \/ ToSet(words') = Fetched')
      BY <3>1, <3>3, <3>4, <3>7, <3>8, Zenon
    <3>11. finished' \in BOOLEAN
      BY <1>2, <3>1, Zenon DEF ModelTypes
    <3> QED
      BY <3>9, <3>10, <3>11, Zenon
  <2> QED
    BY <2>1, <2>2 DEF FetchMore
<1>4. ModelTypes'
  BY <1>1, <1>2, <1>3 DEF ModelTypes
<1>5. Quiet' /\ OwnSearch' /\ NoneForgotten'
  BY <1>1 DEF ModelInv, Quiet, OwnSearch, NoneForgotten
<1>6. OriginalRestored'
  BY <1>1, <1>3 DEF OriginalRestored
<1> QED
  BY <1>4, <1>5, <1>6 DEF ModelInv

\* Clearing the filter does: the list kept aside comes back.
LEMMA ClearKeeps == ASSUME ModelInv, ClearFilter PROVE ModelInv'
<1>1. /\ filtering /\ filtering' = FALSE /\ words' = original_words
      /\ outlived' = (outlived \/ queuedRequests # <<>> \/ posted > 0)
      /\ UNCHANGED <<original_words, filterWords, finished, index, queuedRequests, posted, mixed>>
  BY DEF ClearFilter, requestVars
<1>2. ModelTypes /\ OriginalRestored /\ NoneForgotten
  BY DEF ModelInv
<1>3. ModelTypes'
  BY <1>1, <1>2 DEF ModelTypes
<1>4. Quiet'
  <2>1. ~outlived' => queuedRequests = <<>> /\ ~(posted > 0)
    BY <1>1, Zenon
  <2>2. posted \in Nat
    BY <1>2 DEF ModelTypes
  <2>3. ~outlived' => queuedRequests = <<>> /\ posted = 0
    BY <2>1, <2>2
  <2> QED
    BY <1>1, <2>3, Zenon DEF Quiet
<1>5. OwnSearch' /\ NoneForgotten'
  BY <1>1, <1>2 DEF OwnSearch, NoneForgotten
<1>6. OriginalRestored'
  <2>1. Fetched' = Fetched
    BY <1>1 DEF Fetched
  <2> QED
    BY <1>1, <1>2, <2>1 DEF OriginalRestored
<1> QED
  BY <1>3, <1>4, <1>5, <1>6 DEF ModelInv

\* Setting one does: the only search out is its own, unless others were out.
LEMMA FilterKeeps ==
  ASSUME ModelInv, NEW f \in Filters, SetFilter(f) PROVE ModelInv'
<1>1. /\ filtering' = TRUE /\ original_words' = KeepOriginal /\ filterWords' = <<>>
      /\ filter' = f /\ mixed' = (queuedRequests # <<>>)
      /\ UNCHANGED <<words, finished, index, posted, outlived>>
  BY DEF SetFilter
<1>2. ModelTypes /\ OriginalRestored /\ NoneForgotten
  BY DEF ModelInv
<1>3. PICK r \in Requests :
        /\ r.found \in {Matches[f], <<>>} /\ (r.heard => r.worker # "gone")
        /\ queuedRequests' = Append(queuedRequests, r)
  <2>1. PICK worker \in {"working", "emitting", "gone"}, found \in {Matches[f], <<>>} :
          queuedRequests' = Append(queuedRequests,
                              [filter |-> f, found |-> found, worker |-> worker,
                               heard |-> worker # "gone"])
    BY DEF SetFilter
  <2> DEFINE r == [filter |-> f, found |-> found, worker |-> worker, heard |-> worker # "gone"]
  <2>2. Matches[f] \in Seq(Headwords) /\ <<>> \in Seq(Headwords)
    BY HeadwordModelAssumption, EmptySeq DEF HeadwordModelAssumption
  <2>3. (worker # "gone") \in BOOLEAN
    OBVIOUS
  <2>4. r \in Requests
    BY <2>2, <2>3 DEF Requests
  <2>5. r.found \in {Matches[f], <<>>} /\ (r.heard => r.worker # "gone")
    BY Zenon
  <2> HIDE DEF r
  <2>6. queuedRequests' = Append(queuedRequests, r)
    BY <2>1 DEF r
  <2> QED
    BY <2>4, <2>5, <2>6
<1> DEFINE n == Len(queuedRequests)
<1>4. /\ queuedRequests' \in Seq(Requests) /\ Len(queuedRequests') = n + 1
      /\ \A i \in 1 .. n : queuedRequests'[i] = queuedRequests[i]
      /\ queuedRequests'[n + 1] = r
  <2>1. queuedRequests \in Seq(Requests)
    BY <1>2 DEF ModelTypes
  <2> QED
    BY <1>3, <2>1, AppendProperties
<1>5. n \in Nat /\ DOMAIN queuedRequests = 1 .. n /\ DOMAIN queuedRequests' = 1 .. n + 1
  BY <1>2, <1>4, LenProperties DEF ModelTypes
<1>6. ModelTypes'
  <2>1. original_words' \in Seq(Headwords) /\ filterWords' \in Seq(Headwords)
    BY <1>1, <1>2, EmptySeq DEF ModelTypes, KeepOriginal
  <2>2. filtering' \in BOOLEAN /\ mixed' \in BOOLEAN
    BY <1>1
  <2> QED
    BY <1>1, <1>2, <1>4, <2>1, <2>2 DEF ModelTypes
<1>7. Quiet'
  BY <1>1 DEF Quiet
<1>8. OwnSearch'
  <2>1. SUFFICES ASSUME ~mixed'
                 PROVE  /\ Len(queuedRequests') = 1 /\ filterWords' = <<>>
                        /\ queuedRequests'[1].found \in {Matches[filter'], <<>>}
    BY DEF OwnSearch
  <2>2. n = 0
    BY <1>1, <2>1, EmptySeq
  <2> HIDE DEF n
  <2> QED
    BY <1>1, <1>3, <1>4, <2>2
<1>9. OriginalRestored'
  <2>1. Fetched' = Fetched
    BY <1>1 DEF Fetched
  <2> QED
    BY <1>1, <1>2, <2>1 DEF OriginalRestored, KeepOriginal
<1>10. NoneForgotten'
  <2> SUFFICES ASSUME NEW i \in DOMAIN queuedRequests',
                      queuedRequests'[i].heard, queuedRequests'[i].worker = "gone"
               PROVE  posted' > 0
    BY DEF NoneForgotten
  <2> HIDE DEF n
  <2>1. i # n + 1
    BY <1>3, <1>4
  <2>2. i \in 1 .. n
    BY <1>5, <2>1
  <2> QED
    BY <1>1, <1>2, <1>4, <1>5, <2>2 DEF NoneForgotten
<1> QED
  BY <1>6, <1>7, <1>8, <1>9, <1>10 DEF ModelInv

\* The steps of a worker.
LEMMA WorkerKeeps ==
  ASSUME ModelInv, NEW i \in DOMAIN queuedRequests, RaiseFlag(i) \/ EmitFinished(i)
  PROVE  ModelInv'
<1>1. ModelTypes /\ OriginalRestored /\ NoneForgotten /\ Quiet /\ OwnSearch
  BY DEF ModelInv
<1>2. PICK w \in {"emitting", "gone"} :
        /\ queuedRequests' = [queuedRequests EXCEPT ![i].worker = w]
        /\ \/ w = "emitting" /\ posted' = posted
           \/ posted' = posted + 1
  BY DEF RaiseFlag, EmitFinished
<1>3. UNCHANGED <<words, original_words, filterWords, filtering, finished, index, filter, mixed,
                  outlived>>
  BY DEF RaiseFlag, EmitFinished, listVars, historyVars
<1> DEFINE n == Len(queuedRequests)
           r == [queuedRequests[i] EXCEPT !.worker = w]
<1>4. n \in Nat /\ DOMAIN queuedRequests = 1 .. n /\ queuedRequests \in Seq(Requests)
  BY <1>1, LenProperties DEF ModelTypes
<1>5. r \in Requests /\ r.found = queuedRequests[i].found /\ r.worker = w
      /\ r.heard = queuedRequests[i].heard
  <2>1. queuedRequests[i] \in Requests
    BY <1>4, ElementOfSeq
  <2> QED
    BY <2>1 DEF Requests
<1>6. queuedRequests' = [queuedRequests EXCEPT ![i] = r]
  BY <1>2
<1> HIDE DEF r
<1>7. /\ queuedRequests' \in Seq(Requests) /\ Len(queuedRequests') = n
      /\ \A j \in 1 .. n : queuedRequests'[j] = IF j = i THEN r ELSE queuedRequests[j]
  BY <1>4, <1>5, <1>6, ExceptSeq
<1>8. DOMAIN queuedRequests' = 1 .. n /\ n > 0
  BY <1>4, <1>7, LenProperties
<1>9. posted' \in Nat /\ (posted > 0 => posted' > 0) /\ (w = "gone" => posted' > 0)
  BY <1>1, <1>2 DEF ModelTypes
<1>10. ModelTypes'
  BY <1>1, <1>3, <1>7, <1>9 DEF ModelTypes
<1>11. queuedRequests # <<>>
  BY <1>8
<1> HIDE DEF n
<1>12. Quiet'
  BY <1>1, <1>3, <1>11 DEF Quiet
<1>13. OwnSearch'
  <2>1. SUFFICES ASSUME filtering, ~mixed, ~outlived
                 PROVE  /\ Len(queuedRequests') = 1 /\ filterWords = <<>>
                        /\ queuedRequests'[1].found \in {Matches[filter], <<>>}
    BY <1>3 DEF OwnSearch
  <2>2. n = 1 /\ filterWords = <<>> /\ queuedRequests[1].found \in {Matches[filter], <<>>}
    BY <1>1, <1>11, <2>1 DEF OwnSearch, n
  <2> QED
    BY <1>5, <1>7, <2>2
<1>14. OriginalRestored'
  BY <1>1, <1>3 DEF OriginalRestored, Fetched
<1>15. NoneForgotten'
  <2> SUFFICES ASSUME NEW j \in 1 .. n,
                      queuedRequests'[j].heard, queuedRequests'[j].worker = "gone"
               PROVE  posted' > 0
    BY <1>8 DEF NoneForgotten
  <2>1. CASE j = i
    BY <1>5, <1>7, <1>9, <2>1
  <2>2. CASE j # i
    BY <1>1, <1>4, <1>7, <1>9, <2>2 DEF NoneForgotten
  <2> QED
    BY <2>1, <2>2
<1> QED
  BY <1>10, <1>12, <1>13, <1>14, <1>15 DEF ModelInv

\* requestFinished() does: what it takes is of the filter, or some search outlived it.
LEMMA TakenKeeps == ASSUME ModelInv, RequestFinished PROVE ModelInv'
<1> DEFINE all == TakeAll(queuedRequests, filterWords)
<1>1. /\ posted > 0 /\ posted' = posted - 1 + all.waited
      /\ queuedRequests' = all.left /\ filterWords' = all.words
      /\ words' = IF all.left = <<>> /\ all.words # <<>> THEN all.words ELSE words
      /\ UNCHANGED <<original_words, filtering, finished, index, filter, mixed, outlived>>
  BY DEF RequestFinished, historyVars, AllDone
<1>2. ModelTypes /\ OriginalRestored /\ Quiet /\ OwnSearch
  BY DEF ModelInv
<1>3. queuedRequests \in Seq(Requests) /\ filterWords \in Seq(Headwords)
  BY <1>2 DEF ModelTypes
<1>4. /\ all.left \in Seq(Working) /\ all.words \in Seq(Headwords) /\ all.waited \in Nat
      /\ queuedRequests = <<>> => all.left = <<>> /\ all.words = filterWords
      /\ Len(queuedRequests) = 1 =>
           \/ all.left = queuedRequests /\ all.words = filterWords
           \/ all.left = <<>> /\ all.words = filterWords \o queuedRequests[1].found
  BY <1>3, TakeAllRight
<1> HIDE DEF all
<1>5. ModelTypes'
  <2>1. Working \subseteq Requests
    BY DEF Working
  <2>2. all.left \in Seq(Requests)
    BY <1>4, <2>1, SeqMonotonic
  <2>3. posted - 1 + all.waited \in Nat
    BY <1>1, <1>2, <1>4 DEF ModelTypes
  <2> QED
    BY <1>1, <1>2, <1>4, <2>2, <2>3 DEF ModelTypes
<1>6. filtering \/ outlived
  BY <1>1, <1>2 DEF Quiet
<1>7. Quiet'
  BY <1>1, <1>6 DEF Quiet
<1>8. OriginalRestored'
  BY <1>1, <1>2, <1>6 DEF OriginalRestored, Fetched
<1>9. OwnSearch'
  <2>1. SUFFICES ASSUME filtering, ~mixed, ~outlived PROVE OwnSearch'
    BY <1>1 DEF OwnSearch
  <2>2. CASE queuedRequests = <<>>
    <3>1. filterWords \in {<<>>, Matches[filter]} /\ all.left = <<>> /\ all.words = filterWords
      BY <1>2, <1>4, <2>1, <2>2, EmptySeq DEF OwnSearch
    <3> QED
      BY <1>1, <3>1 DEF OwnSearch
  <2>3. CASE Len(queuedRequests) = 1 /\ filterWords = <<>>
             /\ queuedRequests[1].found \in {Matches[filter], <<>>}
    <3>1. CASE all.left = queuedRequests /\ all.words = filterWords
      BY <1>1, <2>3, <3>1 DEF OwnSearch
    <3>2. CASE all.left = <<>> /\ all.words = filterWords \o queuedRequests[1].found
      <4>1. queuedRequests[1] \in Requests
        BY <1>3, <2>3, ElementOfSeq
      <4>2. queuedRequests[1].found \in Seq(Headwords)
        BY <4>1 DEF Requests
      <4>3. all.words = queuedRequests[1].found
        BY <2>3, <3>2, <4>2, ConcatEmptySeq
      <4> QED
        BY <1>1, <2>3, <3>2, <4>3 DEF OwnSearch
    <3> QED
      BY <1>4, <2>3, <3>1, <3>2
  <2> QED
    BY <1>2, <2>1, <2>2, <2>3 DEF OwnSearch
<1>10. NoneForgotten'
  <2>1. \A i \in DOMAIN all.left : all.left[i].worker = "working"
    BY <1>4, LenProperties DEF Working
  <2> QED
    BY <1>1, <2>1 DEF NoneForgotten
<1> QED
  BY <1>5, <1>7, <1>8, <1>9, <1>10 DEF ModelInv

\* The invariant holds in every reachable state.
THEOREM ModelInvariant == ModelSpec => []ModelInv
<1>1. ASSUME ModelInit PROVE ModelInv
  <2>1. /\ words = <<>> /\ original_words = <<>> /\ filterWords = <<>> /\ index = 0
        /\ queuedRequests = <<>> /\ posted = 0
    BY <1>1 DEF ModelInit
  <2>2. filtering = FALSE /\ finished = FALSE /\ mixed = FALSE /\ outlived = FALSE
    BY <1>1 DEF ModelInit
  <2>3. ModelTypes
    <3>1. Len(Leaves) \in Nat
      BY HeadwordModelAssumption, LenProperties DEF HeadwordModelAssumption
    <3>2. filtering \in BOOLEAN /\ finished \in BOOLEAN
      BY <2>2, Zenon
    <3>3. mixed \in BOOLEAN /\ outlived \in BOOLEAN
      BY <2>2, Zenon
    <3> QED
      BY <2>1, <2>2, <3>1, <3>2, <3>3, EmptySeq DEF ModelTypes
  <2>4. Quiet /\ OwnSearch /\ NoneForgotten
    <3>1. DOMAIN queuedRequests = {}
      BY <2>1
    <3> QED
      BY <2>1, <2>2, <3>1 DEF Quiet, OwnSearch, NoneForgotten
  <2>5. OriginalRestored
    <3>1. Fetched = {} /\ ToSet(words) = {}
      BY <2>1, <2>2 DEF Fetched, ToSet
    <3> QED
      BY <2>2, <3>1 DEF OriginalRestored
  <2> QED
    BY <2>3, <2>4, <2>5 DEF ModelInv
<1>2. ASSUME ModelInv, [ModelNext]_modelVars PROVE ModelInv'
  <2>1. CASE UNCHANGED modelVars
    <3>1. UNCHANGED <<words, original_words, filterWords, filtering, finished, index,
                      queuedRequests, posted, filter, mixed, outlived>>
      BY <2>1 DEF modelVars, listVars, requestVars, historyVars
    <3> QED
      BY <1>2, <3>1 DEF ModelInv, ModelTypes, Quiet, OwnSearch, OriginalRestored, Fetched,
                        NoneForgotten
  <2> QED
    BY <1>2, <2>1, FetchKeeps, ClearKeeps, FilterKeeps, WorkerKeeps, TakenKeeps DEF ModelNext
<1> QED
  BY <1>1, <1>2, PTL DEF ModelSpec

\* The list shows what was fetched or what its filter found, whatever searches end
\* when, but for searches that outlive their filter; and no search is forgotten.
THEOREM HeadwordListRight == ModelSpec => []ListIsRight
<1>1. ModelInv => ListIsRight
  <2> SUFFICES ASSUME ModelInv PROVE ListIsRight
    OBVIOUS
  <2>1. FilterShown
    <3> SUFFICES ASSUME filtering, ~mixed, ~outlived
                 PROVE  /\ filterWords \in {<<>>, Matches[filter]}
                        /\ (queuedRequests = <<>> /\ filterWords # <<>>) => words = filterWords
      BY DEF FilterShown
    <3> QED
      BY DEF ModelInv, OwnSearch
  <2> QED
    BY <2>1 DEF ModelInv, ListIsRight
<1> QED
  BY <1>1, ModelInvariant, PTL
=============================================================================
