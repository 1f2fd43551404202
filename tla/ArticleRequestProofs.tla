------------------------ MODULE ArticleRequestProofs ------------------------
(***************************************************************************)
(* Proofs about ArticleRequest, for any number of dictionaries, any of      *)
(* which may throw, and phrases of any length.                              *)
(***************************************************************************)
EXTENDS ArticleRequest, FiniteSetTheorems, SequenceTheorems, TLAPS

-----------------------------------------------------------------------------
(* Lists of anything. *)

Elements(list) == {list[i] : i \in DOMAIN list}

IsList(list) == list \in Seq(Elements(list))

LEMMA ListOf ==
  ASSUME NEW S, NEW list \in Seq(S)
  PROVE  /\ IsList(list)
         /\ Len(list) \in Nat /\ DOMAIN list = 1 .. Len(list)
<1>1. Len(list) \in Nat /\ DOMAIN list = 1 .. Len(list)
  BY LenProperties
<1>2. list = [i \in 1 .. Len(list) |-> list[i]]
  BY LenProperties
<1>3. \A i \in 1 .. Len(list) : list[i] \in Elements(list)
  BY <1>1 DEF Elements
<1> QED
  BY <1>1, <1>2, <1>3, IsASeq DEF IsList

LEMMA ListFacts ==
  ASSUME NEW list, IsList(list)
  PROVE  Len(list) \in Nat /\ DOMAIN list = 1 .. Len(list)
BY LenProperties DEF IsList

LEMMA ConcatLists ==
  ASSUME NEW s, IsList(s), NEW t, IsList(t)
  PROVE  /\ IsList(s \o t)
         /\ Len(s \o t) = Len(s) + Len(t)
         /\ \A i \in 1 .. Len(s) : (s \o t)[i] = s[i]
         /\ \A i \in 1 .. Len(t) : (s \o t)[Len(s) + i] = t[i]
<1> DEFINE S == Elements(s) \cup Elements(t)
<1>1. Elements(s) \subseteq S /\ Elements(t) \subseteq S
  OBVIOUS
<1>2. s \in Seq(Elements(s)) /\ t \in Seq(Elements(t))
  BY DEF IsList
<1> HIDE DEF S
<1>3. s \in Seq(S) /\ t \in Seq(S)
  BY <1>1, <1>2, SeqMonotonic
<1>4. /\ s \o t \in Seq(S)
      /\ Len(s \o t) = Len(s) + Len(t)
      /\ \A i \in 1 .. Len(s) + Len(t) :
           (s \o t)[i] = IF i <= Len(s) THEN s[i] ELSE t[i - Len(s)]
  BY <1>3, ConcatProperties
<1>5. Len(s) \in Nat /\ Len(t) \in Nat
  BY ListFacts
<1>6. IsList(s \o t)
  BY <1>4, ListOf
<1>7. ASSUME NEW i \in 1 .. Len(t) PROVE (s \o t)[Len(s) + i] = t[i]
  <2>1. Len(s) + i \in 1 .. Len(s) + Len(t) /\ ~(Len(s) + i <= Len(s))
        /\ (Len(s) + i) - Len(s) = i
    BY <1>5
  <2> QED
    BY <1>4, <2>1
<1>8. ASSUME NEW i \in 1 .. Len(s) PROVE (s \o t)[i] = s[i]
  BY <1>4, <1>5
<1> QED
  BY <1>4, <1>6, <1>7, <1>8

LEMMA ShortLists ==
  /\ IsList(<<>>) /\ Len(<<>>) = 0
  /\ \A a : IsList(<<a>>) /\ Len(<<a>>) = 1 /\ <<a>>[1] = a
  /\ \A a, b : IsList(<<a, b>>) /\ Len(<<a, b>>) = 2
               /\ <<a, b>>[1] = a /\ <<a, b>>[2] = b
<1>1. IsList(<<>>)
  BY EmptySeq, ListOf
<1>2. ASSUME NEW a PROVE IsList(<<a>>)
  <2>1. <<a>> \in Seq({a})
    OBVIOUS
  <2> QED
    BY <2>1, ListOf
<1>3. ASSUME NEW a, NEW b PROVE IsList(<<a, b>>)
  <2>1. <<a, b>> \in Seq({a, b})
    OBVIOUS
  <2> QED
    BY <2>1, ListOf
<1> QED
  BY <1>1, <1>2, <1>3

\* A set of natural numbers has a smallest one.
LEMMA SmallestOf ==
  ASSUME NEW T, T \subseteq Nat, T # {}
  PROVE  \E x \in T : \A y \in T : x <= y
<1> DEFINE Upto == {1 .. x : x \in T}
           R == StrictSubsetOrdering(Nat)
<1>1. Upto \subseteq FiniteSubsetsOf(Nat) /\ Upto # {}
  <2>1. \A x \in T : 1 .. x \subseteq Nat /\ IsFiniteSet(1 .. x)
    BY FS_Interval
  <2> QED
    BY <2>1 DEF FiniteSubsetsOf
<1>2. PICK B \in Upto : \A C \in Upto : ~(<<C, B>> \in R)
  <2> HIDE DEF Upto
  <2> QED
    BY <1>1, WFMin, FS_StrictSubsetOrderingWellFounded, Zenon
<1>3. PICK x \in T : B = 1 .. x
  OBVIOUS
<1>4. ASSUME NEW y \in T, y < x PROVE FALSE
  <2>1. 1 .. y \subseteq 1 .. x /\ x \in 1 .. x /\ x \notin 1 .. y
    BY <1>4
  <2>2. <<1 .. y, B>> \in R
    BY <1>3, <2>1 DEF StrictSubsetOrdering
  <2> QED
    BY <1>2, <2>2
<1> QED
  BY <1>4

LEMMA AscendingList ==
  ASSUME NEW S, IsFiniteSet(S)
  PROVE  IsList(Ascending(S)) /\ Len(Ascending(S)) = Cardinality(S)
<1>1. Cardinality(S) \in Nat
  BY FS_CardinalityType
<1>2. /\ DOMAIN Ascending(S) = 1 .. Cardinality(S)
      /\ Ascending(S) = [k \in 1 .. Cardinality(S) |-> Ascending(S)[k]]
  BY DEF Ascending
<1>3. \A k \in 1 .. Cardinality(S) : Ascending(S)[k] \in Elements(Ascending(S))
  BY <1>2 DEF Elements
<1>4. IsList(Ascending(S))
  BY <1>1, <1>2, <1>3, IsASeq DEF IsList
<1> QED
  BY <1>1, <1>2, <1>4, ListFacts

\* The queue is taken up to the first body that has not finished.
LEMMA FrontFinishedFacts ==
  ASSUME NEW queue, IsList(queue), NEW done
  PROVE  LET n == FrontFinished(queue, done)
         IN  /\ n \in 0 .. Len(queue)
             /\ \A i \in 1 .. n : queue[i] \in done
             /\ n < Len(queue) => queue[n + 1] \notin done
<1> DEFINE N == Len(queue)
           P(n) == /\ \A i \in 1 .. n : queue[i] \in done
                   /\ n < N => queue[n + 1] \notin done
           Out == {i \in 1 .. N : queue[i] \notin done}
<1>1. N \in Nat
  BY ListFacts
<1>2. \E n \in 0 .. N : P(n)
  <2>1. CASE Out = {}
    BY <1>1, <2>1
  <2>2. CASE Out # {}
    <3>1. Out \subseteq Nat
      BY <1>1
    <3>2. PICK m \in Out : \A y \in Out : m <= y
      <4> HIDE DEF Out
      <4> QED
        BY <2>2, <3>1, SmallestOf
    <3>3. m - 1 \in 0 .. N /\ \A i \in 1 .. m - 1 : queue[i] \in done
      BY <1>1, <3>2
    <3>4. queue[(m - 1) + 1] \notin done
      <4>1. m \in Int /\ (m - 1) + 1 = m
        BY <1>1
      <4> QED
        BY <4>1
    <3>5. P(m - 1)
      BY <3>3, <3>4
    <3> QED
      BY <3>3, <3>5
  <2> QED
    BY <2>1, <2>2
<1>3. FrontFinished(queue, done) = CHOOSE n \in 0 .. N : P(n)
  BY DEF FrontFinished
<1> QED
  BY <1>2, <1>3

\* The articles a call appends are a list.
LEMMA NewArticlesList ==
  ASSUME NEW queue, NEW n \in Nat, NEW content
  PROVE  IsList(NewArticles(queue, n, content))
<1> DEFINE S == {i \in 1 .. n : content[queue[i]] = "article"}
           shown == Ascending(S)
           made == NewArticles(queue, n, content)
<1>1. IsFiniteSet(S)
  <2>1. IsFiniteSet(1 .. n) /\ S \subseteq 1 .. n
    BY FS_Interval
  <2> QED
    BY <2>1, FS_Subset
<1>2. Len(shown) \in Nat /\ DOMAIN shown = 1 .. Len(shown)
  BY <1>1, AscendingList, ListFacts
<1>3. /\ DOMAIN made = 1 .. Len(shown)
      /\ made = [k \in 1 .. Len(shown) |-> made[k]]
  BY <1>2 DEF NewArticles
<1>4. \A k \in 1 .. Len(shown) : made[k] \in Elements(made)
  BY <1>3 DEF Elements
<1> QED
  BY <1>2, <1>3, <1>4, IsASeq DEF IsList

-----------------------------------------------------------------------------
(* The page is a data request. *)

\* The stages of a page follow each other: bodies are asked for once all main
\* forms are in, close words and compounds are looked for once all bodies are,
\* and a page that was finished but not cancelled has nothing going on.
StageInv ==
  /\ IsList(data) /\ IsList(bodyRequests)
  /\ alt \in [Dicts -> RequestStates] /\ body \in [Dicts -> RequestStates]
  /\ isFinished \in BOOLEAN /\ altsDone \in BOOLEAN /\ bodyDone \in BOOLEAN
  /\ foundAnyDefinitions \in BOOLEAN
  /\ cancelled => isFinished /\ \E d \in Dicts : alt[d] # "none"
  /\ (isFinished /\ ~cancelled) => (bodyDone /\ finder = "none")
  /\ bodyDone => altsDone
  /\ finder # "none" => bodyDone
  /\ ~altsDone => \A d \in Dicts : body[d] = "none"

\* What a step does to the page: it is added to, and not after it is finished.
Grown ==
  /\ ~isFinished
  /\ IsList(data') /\ Len(data') >= Len(data)
  /\ isFinished' \in BOOLEAN

\* Appending bodies adds to the page, and ends the stage if all are in.
LEMMA AppendBodiesGrows ==
  ASSUME IsList(data), NEW queue, IsList(queue), NEW done, NEW content,
         AppendBodies(queue, done, content), ~bodyDone, ~isFinished,
         foundAnyDefinitions \in BOOLEAN, finder = "none"
  PROVE  /\ Grown /\ IsList(bodyRequests')
         /\ bodyDone' \in BOOLEAN /\ foundAnyDefinitions' \in BOOLEAN
         /\ isFinished' => bodyDone' /\ finder' = "none"
         /\ finder' # "none" => bodyDone'
<1> DEFINE n == FrontFinished(queue, done)
           articles == NewArticles(queue, n, content)
           found == FoundAny(articles)
           last == n = Len(queue)
           tail == CASE ~last -> <<>>
                     [] last /\ found -> <<Token("end")>>
                     [] last /\ ~found -> <<Token("notfound")>>
<1>1. n \in 0 .. Len(queue) /\ Len(queue) \in Nat
  BY FrontFinishedFacts, ListFacts
<1>2. /\ bodyRequests' = SubSeq(queue, n + 1, Len(queue))
      /\ foundAnyDefinitions' = found
      /\ bodyDone' = last
      /\ data' = data \o articles \o tail
      /\ isFinished' = (isFinished \/ (last /\ found))
      /\ finder' = IF last /\ ~found THEN "stemmed" ELSE finder
  BY DEF AppendBodies
<1>3. found \in BOOLEAN /\ last \in BOOLEAN
  BY DEF FoundAny
<1>4. IsList(articles)
  BY <1>1, NewArticlesList
<1>5. IsList(tail)
  BY <1>3, ShortLists
<1>6. IsList(bodyRequests')
  <2> DEFINE S == Elements(queue)
  <2>1. \A i \in n + 1 .. Len(queue) : queue[i] \in S
    BY <1>1, ListFacts DEF Elements
  <2>2. SubSeq(queue, n + 1, Len(queue)) \in Seq(S)
    <3> HIDE DEF n, S
    <3> QED
      BY <1>1, <2>1, SubSeqProperties
  <2> QED
    BY <1>2, <2>2, ListOf
<1> HIDE DEF n, articles, found, last, tail
<1>7. IsList(data \o articles) /\ Len(data \o articles) >= Len(data)
  BY <1>4, ConcatLists, ListFacts
<1>8. /\ IsList((data \o articles) \o tail)
      /\ Len((data \o articles) \o tail) >= Len(data \o articles)
  BY <1>5, <1>7, ConcatLists, ListFacts
<1>9. IsList(data') /\ Len(data') >= Len(data)
  BY <1>2, <1>7, <1>8, ListFacts
<1> QED
  BY <1>2, <1>3, <1>6, <1>9 DEF Grown

\* Giving what was found adds to the page, and is over with the last word.
LEMMA NextStartGrows ==
  ASSUME IsList(data), isFinished \in BOOLEAN, ~isFinished,
         NEW s, NEW good, NEW before,
         IsList(before), NextStart(s, good, before)
  PROVE  Grown /\ (isFinished' => finder' = "none")
<1> DEFINE found == IF good = <<>> THEN <<>>
                    ELSE <<Compound(good[1], good[2])>>
           tail == <<Token("individual"), Token("end")>>
<1>1. IsList(found) /\ IsList(tail)
  BY ShortLists
<1>2. \/ /\ data' = ((data \o before) \o found) \o tail
         /\ isFinished' = TRUE /\ finder' = "none"
      \/ /\ data' = (data \o before) \o found
         /\ isFinished' = isFinished
  BY DEF NextStart
<1> HIDE DEF found, tail
<1>3. IsList(data \o before) /\ Len(data \o before) >= Len(data)
  BY ConcatLists, ListFacts
<1>4. /\ IsList((data \o before) \o found)
      /\ Len((data \o before) \o found) >= Len(data \o before)
  BY <1>1, <1>3, ConcatLists, ListFacts
<1>5. /\ IsList(((data \o before) \o found) \o tail)
      /\ Len(((data \o before) \o found) \o tail)
           >= Len((data \o before) \o found)
  BY <1>1, <1>4, ConcatLists, ListFacts
<1>6. /\ Len(data) \in Nat /\ Len(data \o before) \in Nat
      /\ Len((data \o before) \o found) \in Nat
      /\ Len(((data \o before) \o found) \o tail) \in Nat
  BY <1>3, <1>4, <1>5, ListFacts
<1>7. CASE /\ data' = ((data \o before) \o found) \o tail
           /\ isFinished' = TRUE /\ finder' = "none"
  <2>1. IsList(data') /\ Len(data') >= Len(data)
    BY <1>3, <1>4, <1>5, <1>6, <1>7
  <2> QED
    BY <1>7, <2>1 DEF Grown
<1>8. CASE /\ data' = (data \o before) \o found
           /\ isFinished' = isFinished
  <2>1. IsList(data') /\ Len(data') >= Len(data)
    BY <1>3, <1>4, <1>6, <1>8
  <2> QED
    BY <1>8, <2>1 DEF Grown
<1> QED
  BY <1>2, <1>7, <1>8

\* Asking for the bodies adds to the page those that are there at once.
LEMMA AskForBodiesGrows ==
  ASSUME StageInv, AskForBodies, ~altsDone, ~isFinished
  PROVE  /\ Grown /\ IsList(bodyRequests')
         /\ body' \in [Dicts -> RequestStates] /\ altsDone' = TRUE
         /\ bodyDone' \in BOOLEAN /\ foundAnyDefinitions' \in BOOLEAN
         /\ isFinished' => bodyDone' /\ finder' = "none"
         /\ finder' # "none" => bodyDone'
<1>1. PICK made \in SUBSET Dicts, instant \in SUBSET Dicts, early \in SUBSET Dicts :
        /\ altsDone' = TRUE
        /\ body' = Polled(made, instant, early)
        /\ LookAtOnce(Ascending(made), instant, holds')
  BY DEF AskForBodies
<1>2. IsFiniteSet(made)
  <2>1. 1 \in Int /\ NDicts \in Int
    BY ArticleRequestAssumption
  <2>2. IsFiniteSet(Dicts)
    BY <2>1, FS_Interval, Zenon DEF Dicts
  <2> QED
    BY <2>2, FS_Subset, Zenon
<1>3. IsList(Ascending(made))
  BY <1>2, AscendingList
<1>4. finder = "none" /\ ~bodyDone
  BY DEF StageInv
<1>5. body' \in [Dicts -> RequestStates]
  BY <1>1 DEF RequestStates, Polled
<1>6. AppendBodies(Ascending(made), instant, holds')
  BY <1>1 DEF LookAtOnce
<1>7. /\ IsList(data) /\ foundAnyDefinitions \in BOOLEAN
      /\ bodyDone \in BOOLEAN /\ isFinished \in BOOLEAN
  BY DEF StageInv
<1> HIDE DEF StageInv
<1> QED
  BY <1>1, <1>3, <1>4, <1>5, <1>6, <1>7, AppendBodiesGrows

\* Every step keeps the stages, and adds to a page only before it is finished.
LEMMA StageStep ==
  StageInv /\ [Next]_vars
    => StageInv' /\ (Grown \/ UNCHANGED <<data, isFinished>>)
<1> SUFFICES ASSUME StageInv, [Next]_vars
             PROVE  StageInv' /\ (Grown \/ UNCHANGED <<data, isFinished>>)
  OBVIOUS
<1>1. ASSUME NEW d \in Dicts, AltFinishes(d)
      PROVE  StageInv' /\ UNCHANGED <<data, isFinished>>
  BY <1>1 DEF AltFinishes, StageInv, RequestStates, pageVars, compoundVars
<1>2. ASSUME NEW d \in Dicts, BodyFinishes(d)
      PROVE  StageInv' /\ UNCHANGED <<data, isFinished>>
  BY <1>2 DEF BodyFinishes, StageInv, RequestStates, pageVars, compoundVars
<1>3. CASE Construct
  <2>1. \A d \in Dicts : alt[d] = "none" /\ ~altsDone
    BY <1>3 DEF Construct
  <2>2. ~altsDone /\ ~isFinished /\ ~cancelled
    BY <1>3, <2>1 DEF Construct, StageInv
  <2>3. alt' \in [Dicts -> RequestStates] /\ UNCHANGED cancelled
    BY <1>3 DEF Construct, RequestStates, Polled
  <2>4. CASE AskForBodies
    BY <2>2, <2>3, <2>4, AskForBodiesGrows DEF StageInv, Grown
  <2>5. CASE UNCHANGED <<body, holds, altsDone, bodyRequests, finder,
                         foundAnyDefinitions, bodyDone, data, isFinished>>
    BY <2>2, <2>3, <2>5 DEF StageInv
  <2> QED
    BY <1>3, <2>4, <2>5 DEF Construct
<1>4. ASSUME NEW d \in Dicts, AltSearchFinished(d)
      PROVE  StageInv' /\ (Grown \/ UNCHANGED <<data, isFinished>>)
  <2>1. ~cancelled /\ UNCHANGED cancelled
    BY <1>4 DEF AltSearchFinished
  <2>2. alt' \in [Dicts -> RequestStates]
    BY <1>4 DEF AltSearchFinished, StageInv, RequestStates
  <2>3. CASE ~altsDone /\ AskForBodies
    <3>1. ~isFinished
      BY <2>1, <2>3 DEF StageInv
    <3> QED
      BY <2>1, <2>2, <2>3, <3>1, AskForBodiesGrows DEF StageInv, Grown
  <2>4. CASE UNCHANGED <<body, holds, altsDone, bodyRequests, finder,
                         foundAnyDefinitions, bodyDone, data, isFinished>>
    BY <2>1, <2>2, <2>4 DEF StageInv
  <2> QED
    BY <1>4, <2>3, <2>4 DEF AltSearchFinished
<1>5. ASSUME NEW d \in Dicts, BodyFinished(d)
      PROVE  StageInv' /\ (Grown \/ UNCHANGED <<data, isFinished>>)
  <2>1. ~cancelled /\ body[d] = "finished" /\ UNCHANGED <<alt, altsDone, cancelled>>
    BY <1>5 DEF BodyFinished
  <2>2. body' \in [Dicts -> RequestStates] /\ altsDone
    BY <1>5 DEF BodyFinished, StageInv, RequestStates
  <2>3. CASE ~bodyDone /\ AppendBodies(bodyRequests, Flagged(body), holds)
    <3>1. ~isFinished /\ finder = "none"
      BY <2>1, <2>3 DEF StageInv
    <3>2. /\ Grown /\ IsList(bodyRequests')
          /\ bodyDone' \in BOOLEAN /\ foundAnyDefinitions' \in BOOLEAN
          /\ isFinished' => bodyDone' /\ finder' = "none"
          /\ finder' # "none" => bodyDone'
      BY <2>3, <3>1, AppendBodiesGrows DEF StageInv
    <3> QED
      BY <2>1, <2>2, <3>2 DEF StageInv, Grown
  <2>4. CASE UNCHANGED <<bodyRequests, foundAnyDefinitions, bodyDone, data,
                         isFinished, finder>>
    BY <2>1, <2>2, <2>4 DEF StageInv
  <2> QED
    BY <1>5, <2>3, <2>4 DEF BodyFinished, BodyOver
<1>6. CASE StemmedSearchFinished
  <2>1. /\ ~cancelled /\ finder = "stemmed"
        /\ UNCHANGED <<alt, body, altsDone, bodyDone, foundAnyDefinitions,
                       bodyRequests, cancelled>>
    BY <1>6 DEF StemmedSearchFinished, requestVars
  <2>2. ~isFinished /\ bodyDone
    BY <2>1 DEF StageInv
  <2>3. PICK close \in {<<>>, <<Token("close")>>} :
          \/ NextStart(-1, lastGood, close)
          \/ /\ data' = (data \o close) \o <<Token("end")>>
             /\ isFinished' = TRUE /\ finder' = "none"
    BY <1>6 DEF StemmedSearchFinished
  <2>4. IsList(close)
    BY ShortLists
  <2>5. Grown /\ (isFinished' => finder' = "none")
    <3>1. CASE NextStart(-1, lastGood, close)
      BY <2>2, <2>4, <3>1, NextStartGrows DEF StageInv
    <3>2. CASE /\ data' = (data \o close) \o <<Token("end")>>
               /\ isFinished' = TRUE /\ finder' = "none"
      <4> DEFINE ended == <<Token("end")>>
      <4>1. IsList(ended) /\ data' = (data \o close) \o ended
        BY <3>2, ShortLists
      <4> HIDE DEF ended
      <4>2. IsList(data \o close) /\ Len(data \o close) >= Len(data)
        BY <2>4, ConcatLists, ListFacts DEF StageInv
      <4>3. IsList(data') /\ Len(data') >= Len(data \o close)
        BY <4>1, <4>2, ConcatLists, ListFacts
      <4>4. Len(data') \in Nat /\ Len(data) \in Nat /\ Len(data \o close) \in Nat
        BY <4>2, <4>3, ListFacts DEF StageInv
      <4> QED
        BY <2>2, <3>2, <4>2, <4>3, <4>4 DEF Grown
    <3> QED
      BY <2>3, <3>1, <3>2
  <2> QED
    BY <2>1, <2>2, <2>5 DEF StageInv, Grown
<1>7. CASE IndividualWordFinished
  <2>1. /\ ~cancelled /\ finder = "compound"
        /\ UNCHANGED <<alt, body, altsDone, bodyDone, foundAnyDefinitions,
                       bodyRequests, cancelled>>
    BY <1>7 DEF IndividualWordFinished, requestVars
  <2>2. ~isFinished /\ bodyDone
    BY <2>1 DEF StageInv
  <2>3. PICK result \in {"none", "prefix", "match"} :
          \/ UNCHANGED <<data, isFinished>>
          \/ NextStart(start, IF result = "match" THEN <<start, end>>
                              ELSE lastGood, <<>>)
    BY <1>7 DEF IndividualWordFinished
  <2>4. CASE UNCHANGED <<data, isFinished>>
    BY <2>1, <2>2, <2>4 DEF StageInv
  <2>5. CASE NextStart(start, IF result = "match" THEN <<start, end>>
                              ELSE lastGood, <<>>)
    <3>1. Grown /\ (isFinished' => finder' = "none")
      BY <2>2, <2>5, ShortLists, NextStartGrows DEF StageInv
    <3> QED
      BY <2>1, <2>2, <3>1 DEF StageInv, Grown
  <2> QED
    BY <2>3, <2>4, <2>5
<1>8. CASE Cancel
  <2>1. /\ ~isFinished /\ isFinished' = TRUE /\ cancelled' = TRUE
        /\ \E d \in Dicts : alt[d] # "none"
        /\ UNCHANGED <<alt, body, altsDone, bodyDone, foundAnyDefinitions,
                       bodyRequests, data, finder>>
    BY <1>8 DEF Cancel, requestVars, compoundVars
  <2>2. Grown
    BY <2>1, ListFacts DEF Grown, StageInv
  <2> QED
    BY <2>1, <2>2 DEF StageInv
<1>9. CASE Terminated \/ UNCHANGED vars
  BY <1>9 DEF Terminated, vars, requestVars, pageVars, compoundVars, StageInv
<1> QED
  BY <1>1, <1>2, <1>3, <1>4, <1>5, <1>6, <1>7, <1>8, <1>9
     DEF Next, Worker, Gui

\* The page is added to in whatever order the signals come, and never again
\* once it is finished: it keeps the promises of a data request.
THEOREM PageIsDataRequest == Spec => ImplementsDataRequest
<1>1. Init => StageInv /\ DR!Init
  <2> SUFFICES ASSUME Init PROVE StageInv /\ DR!Init
    OBVIOUS
  <2>1. IsList(data) /\ Len(data) \in Nat /\ IsList(bodyRequests)
    BY ShortLists DEF Init
  <2> QED
    BY <2>1 DEF Init, StageInv, DR!Init, RequestStates
<1>2. StageInv /\ [Next]_vars => [DR!Next]_<<Len(data), TRUE, isFinished>>
  BY StageStep DEF Grown, DR!Next, DR!Produce, DR!Finish, DR!Grows
<1>3. StageInv /\ [Next]_vars => StageInv'
  BY StageStep
<1> QED
  BY <1>1, <1>2, <1>3, PTL DEF Spec, ImplementsDataRequest, DR!Spec

-----------------------------------------------------------------------------
(* The compounds offered. *)

\* What the answers say of the phrases that begin with word s of n: the
\* operators of the specification, of given answers.
ReachedBy(ans, s, e) ==
  \A m \in s + 1 .. e - 1 : ans[<<s, m>>] \in {"prefix", "match"}

Headwords(ans, n, s) ==
  {e \in s + 1 .. n - 1 : ans[<<s, e>>] = "match" /\ ReachedBy(ans, s, e)}

LongestBy(ans, n, s) ==
  CHOOSE e \in Headwords(ans, n, s) : \A m \in Headwords(ans, n, s) : m <= e

AllAsked(ans, n, s) ==
  \A e \in s + 1 .. n - 1 : ReachedBy(ans, s, e) => ans[<<s, e>>] # "unasked"

\* The compounds in a list are the longest that begin with the first k words.
Walked(ans, n, list, k) ==
  /\ \A s \in 0 .. k - 1 : AllAsked(ans, n, s)
  /\ {list[i] : i \in Offered(list)} =
       {Compound(s, LongestBy(ans, n, s)) :
          s \in {w \in 0 .. k - 1 : Headwords(ans, n, w) # {}}}
  /\ \A i, j \in Offered(list) : i < j => list[i].start < list[j].start

\* The longest headword of up to e - s words that begins with word s, if any.
GoodUpto(ans, s, e, good) ==
  \/ good = <<>> /\ \A m \in s + 1 .. e : ans[<<s, m>>] # "match"
  \/ \E l \in s + 1 .. e :
       /\ good = <<s, l>> /\ ans[<<s, l>>] = "match"
       /\ \A m \in l + 1 .. e : ans[<<s, m>>] # "match"

\* Concatenation under a name of its own, which keeps the provers from their
\* own view of it.
Cat(s, t) == s \o t

LEMMA OfferedConcat ==
  ASSUME NEW s, IsList(s), NEW t, IsList(t)
  PROVE  /\ \A i : i \in Offered(Cat(s, t)) <=>
                    i \in Offered(s) \/ \E j \in Offered(t) : i = Len(s) + j
         /\ \A i \in Offered(s) : Cat(s, t)[i] = s[i] /\ i <= Len(s)
         /\ \A i \in Offered(t) : Cat(s, t)[Len(s) + i] = t[i]
<1> DEFINE u == Cat(s, t)
<1>1. /\ IsList(u) /\ Len(u) = Len(s) + Len(t)
      /\ \A i \in 1 .. Len(s) : u[i] = s[i]
      /\ \A i \in 1 .. Len(t) : u[Len(s) + i] = t[i]
  BY ConcatLists DEF Cat
<1>2. /\ Len(s) \in Nat /\ Len(t) \in Nat
      /\ DOMAIN s = 1 .. Len(s) /\ DOMAIN t = 1 .. Len(t)
      /\ DOMAIN u = 1 .. Len(s) + Len(t)
  BY <1>1, ListFacts
<1> HIDE DEF u
<1>3. ASSUME NEW i \in Offered(u)
      PROVE  i \in Offered(s) \/ \E j \in Offered(t) : i = Len(s) + j
  <2>1. i \in 1 .. Len(s) + Len(t) /\ u[i].kind = "compound"
    BY <1>2 DEF Offered, Places
  <2>2. CASE i <= Len(s)
    BY <1>1, <1>2, <2>1, <2>2 DEF Offered, Places
  <2>3. CASE ~(i <= Len(s))
    <3>1. i - Len(s) \in 1 .. Len(t) /\ i = Len(s) + (i - Len(s))
      BY <1>2, <2>1, <2>3
    <3>2. u[i] = t[i - Len(s)]
      BY <1>1, <3>1
    <3> QED
      BY <1>2, <2>1, <3>1, <3>2 DEF Offered, Places
  <2> QED
    BY <2>2, <2>3
<1>4. ASSUME NEW i \in Offered(s) PROVE i \in Offered(u) /\ u[i] = s[i] /\ i <= Len(s)
  BY <1>1, <1>2 DEF Offered, Places
<1>5. ASSUME NEW i \in Offered(t)
      PROVE  Len(s) + i \in Offered(u) /\ u[Len(s) + i] = t[i]
  <2>1. i \in 1 .. Len(t) /\ t[i].kind = "compound"
    BY <1>2 DEF Offered, Places
  <2>2. Len(s) + i \in 1 .. Len(s) + Len(t)
    BY <1>2, <2>1
  <2> QED
    BY <1>1, <1>2, <2>1, <2>2 DEF Offered, Places
<1> QED
  BY <1>3, <1>4, <1>5 DEF u

\* What is not a compound changes nothing.
LEMMA PlainWalk ==
  ASSUME NEW s, IsList(s), NEW t, IsList(t), Offered(t) = {},
         NEW ans, NEW n, NEW k, Walked(ans, n, s, k)
  PROVE  Walked(ans, n, Cat(s, t), k)
<1> DEFINE u == Cat(s, t)
<1>0. /\ \A i : i \in Offered(u) <=>
                 i \in Offered(s) \/ \E j \in Offered(t) : i = Len(s) + j
      /\ \A i \in Offered(s) : u[i] = s[i] /\ i <= Len(s)
  BY OfferedConcat, Zenon
<1> HIDE DEF u
<1>1. Offered(u) = Offered(s) /\ \A i \in Offered(s) : u[i] = s[i]
  BY <1>0
<1>2. {u[i] : i \in Offered(u)} = {s[i] : i \in Offered(s)}
  BY <1>1, Zenon
<1>3. \A i, j \in Offered(u) : i < j => u[i].start < u[j].start
  BY <1>1, Zenon DEF Walked
<1>4. Walked(ans, n, u, k)
  BY <1>2, <1>3, Zenon DEF Walked
<1> QED
  BY <1>4 DEF u

\* A word no headword begins with.
LEMMA WalkOver ==
  ASSUME NEW ans, NEW n, NEW list, NEW k \in Nat, Walked(ans, n, list, k),
         AllAsked(ans, n, k), Headwords(ans, n, k) = {}
  PROVE  Walked(ans, n, list, k + 1)
<1>1. \A s \in 0 .. (k + 1) - 1 : s \in 0 .. k - 1 \/ s = k
  OBVIOUS
<1>2. 0 .. k - 1 \subseteq 0 .. (k + 1) - 1
  OBVIOUS
<1>3. {w \in 0 .. (k + 1) - 1 : Headwords(ans, n, w) # {}}
        = {w \in 0 .. k - 1 : Headwords(ans, n, w) # {}}
  BY <1>1, <1>2, Zenon
<1>4. \A s \in 0 .. (k + 1) - 1 : AllAsked(ans, n, s)
  BY <1>1, Zenon DEF Walked
<1> QED
  BY <1>3, <1>4, Zenon DEF Walked

\* A word with a longest headword, which is offered.
LEMMA WalkOffers ==
  ASSUME NEW ans, NEW n, NEW list, IsList(list), NEW k \in Nat,
         Walked(ans, n, list, k),
         AllAsked(ans, n, k), Headwords(ans, n, k) # {}
  PROVE  Walked(ans, n, Cat(list, <<Compound(k, LongestBy(ans, n, k))>>), k + 1)
<1> DEFINE c == Compound(k, LongestBy(ans, n, k))
           one == <<c>>
           more == Cat(list, one)
           Begin(j) == {w \in 0 .. j - 1 : Headwords(ans, n, w) # {}}
           Of(j) == {Compound(s, LongestBy(ans, n, s)) : s \in Begin(j)}
<1>1. IsList(one) /\ Len(one) = 1 /\ one[1] = c
  BY ShortLists
<1>2. c.kind = "compound" /\ c.start = k
  BY DEF Compound
<1>3. Offered(one) = {1}
  <2>1. DOMAIN one = 1 .. 1
    BY <1>1, ListFacts
  <2> QED
    BY <1>1, <1>2, <2>1 DEF Offered, Places
<1>4. Begin(k + 1) = Begin(k) \cup {k}
  OBVIOUS
<1>5. Of(k + 1) = Of(k) \cup {c}
  BY <1>4
<1> HIDE DEF one, Of, Begin
<1>6. /\ Offered(more) = Offered(list) \cup {Len(list) + 1}
      /\ \A i \in Offered(list) : more[i] = list[i] /\ i <= Len(list)
      /\ more[Len(list) + 1] = c
  <2>1. IsList(list) /\ IsList(one) /\ more = Cat(list, one)
    BY <1>1
  <2> HIDE DEF c, more
  <2>11. \A i : i \in Offered(more) <=>
                i \in Offered(list) \/ \E j \in Offered(one) : i = Len(list) + j
    BY <2>1, OfferedConcat
  <2>12. \A i \in Offered(list) : more[i] = list[i] /\ i <= Len(list)
    BY <2>1, OfferedConcat
  <2>13. \A i \in Offered(one) : more[Len(list) + i] = one[i]
    BY <2>1, OfferedConcat
  <2>2. 1 \in Offered(one) /\ \A i \in Offered(one) : i = 1
    BY <1>3
  <2>3. more[Len(list) + 1] = c
    BY <1>1, <2>13, <2>2
  <2>4. \A i : i \in Offered(more) <=> i \in Offered(list) \/ i = Len(list) + 1
    BY <2>11, <2>2
  <2> QED
    BY <2>12, <2>3, <2>4
<1>7. Len(list) \in Nat /\ Offered(list) \subseteq Nat
  BY ListFacts DEF Offered, Places
<1> HIDE DEF more
<1>8. {list[i] : i \in Offered(list)} = Of(k)
  BY DEF Walked, Of, Begin
<1>9. \A i \in Offered(list) : list[i].start \in 0 .. k - 1
  <2> SUFFICES ASSUME NEW i \in Offered(list) PROVE list[i].start \in 0 .. k - 1
    OBVIOUS
  <2>1. list[i] \in Of(k)
    BY <1>8
  <2> QED
    BY <2>1 DEF Of, Begin, Compound
<1> HIDE DEF c
<1>10. {more[i] : i \in Offered(more)} = Of(k + 1)
  BY <1>5, <1>6, <1>8
<1>11. ASSUME NEW i \in Offered(more), NEW j \in Offered(more), i < j
       PROVE  more[i].start < more[j].start
  <2>1. CASE j \in Offered(list)
    <3>1. i \in Offered(list)
      BY <1>6, <1>7, <1>11, <2>1
    <3> QED
      BY <1>6, <1>11, <2>1, <3>1 DEF Walked
  <2>2. CASE j = Len(list) + 1
    <3>1. i \in Offered(list)
      BY <1>6, <1>7, <1>11, <2>2
    <3>2. more[i].start \in 0 .. k - 1 /\ more[j].start = k
      BY <1>2, <1>6, <1>9, <2>2, <3>1
    <3> QED
      BY <3>2
  <2> QED
    BY <1>6, <2>1, <2>2
<1>12. \A s \in 0 .. (k + 1) - 1 : AllAsked(ans, n, s)
  <2>1. \A s \in 0 .. (k + 1) - 1 : s \in 0 .. k - 1 \/ s = k
    OBVIOUS
  <2> QED
    BY <2>1, Zenon DEF Walked
<1> QED
  BY <1>10, <1>11, <1>12 DEF Walked, Of, Begin, c, one, more

\* Later answers change nothing for the words before.
LEMMA WalkStays ==
  ASSUME NEW ans, NEW now, NEW n \in Nat, NEW list, NEW k \in Nat,
         Walked(ans, n, list, k),
         \A s \in 0 .. k - 1 : \A e \in s + 1 .. n - 1 : now[<<s, e>>] = ans[<<s, e>>]
  PROVE  Walked(now, n, list, k)
<1>1. ASSUME NEW s \in 0 .. k - 1
      PROVE  /\ Headwords(now, n, s) = Headwords(ans, n, s)
             /\ AllAsked(now, n, s)
  <2>1. \A e \in s + 1 .. n - 1 : ReachedBy(now, s, e) <=> ReachedBy(ans, s, e)
    <3> SUFFICES ASSUME NEW e \in s + 1 .. n - 1
                 PROVE  ReachedBy(now, s, e) <=> ReachedBy(ans, s, e)
      OBVIOUS
    <3>1. \A m \in s + 1 .. e - 1 : now[<<s, m>>] = ans[<<s, m>>]
      <4>1. s + 1 .. e - 1 \subseteq s + 1 .. n - 1
        OBVIOUS
      <4> QED
        BY <4>1, Zenon
    <3> QED
      BY <3>1, Zenon DEF ReachedBy
  <2>2. AllAsked(ans, n, s)
    BY Zenon DEF Walked
  <2>3. \A e \in s + 1 .. n - 1 : now[<<s, e>>] = ans[<<s, e>>]
    BY Zenon
  <2> QED
    BY <2>1, <2>2, <2>3, Zenon DEF AllAsked, Headwords
<1>2. \A s \in 0 .. k - 1 : LongestBy(now, n, s) = LongestBy(ans, n, s)
  BY <1>1, Zenon DEF LongestBy
<1>3. {w \in 0 .. k - 1 : Headwords(now, n, w) # {}}
        = {w \in 0 .. k - 1 : Headwords(ans, n, w) # {}}
  BY <1>1, Zenon
<1>4. {Compound(s, LongestBy(now, n, s)) :
         s \in {w \in 0 .. k - 1 : Headwords(now, n, w) # {}}}
        = {Compound(s, LongestBy(ans, n, s)) :
             s \in {w \in 0 .. k - 1 : Headwords(ans, n, w) # {}}}
  BY <1>2, <1>3
<1> QED
  BY <1>1, <1>4, Zenon DEF Walked

\* When nothing longer is left to try, what was kept is the longest headword.
LEMMA GoodIsLongest ==
  ASSUME NEW ans, NEW n \in Nat, NEW s \in Nat, NEW e \in s + 1 .. n - 1, NEW good,
         ReachedBy(ans, s, e), ans[<<s, e>>] \in {"none", "prefix", "match"},
         ans[<<s, e>>] = "none" \/ e = n - 1,
         GoodUpto(ans, s, e, good)
  PROVE  /\ AllAsked(ans, n, s)
         /\ good = <<>> => Headwords(ans, n, s) = {}
         /\ good # <<>> => /\ Headwords(ans, n, s) # {}
                           /\ good[1] = s /\ good[2] = LongestBy(ans, n, s)
<1> DEFINE H == Headwords(ans, n, s)
<1>1. \A x \in s + 1 .. n - 1 : ReachedBy(ans, s, x) => x <= e
  <2> SUFFICES ASSUME NEW x \in s + 1 .. n - 1, ReachedBy(ans, s, x), ~(x <= e)
               PROVE  FALSE
    OBVIOUS
  <2>1. e \in s + 1 .. x - 1 /\ e # n - 1
    OBVIOUS
  <2>2. ans[<<s, e>>] \in {"prefix", "match"}
    BY <2>1 DEF ReachedBy
  <2> QED
    BY <2>1, <2>2
<1>2. \A x \in s + 1 .. e : ReachedBy(ans, s, x)
  BY DEF ReachedBy
<1>3. AllAsked(ans, n, s)
  <2> SUFFICES ASSUME NEW x \in s + 1 .. n - 1, ReachedBy(ans, s, x)
               PROVE  ans[<<s, x>>] # "unasked"
    BY DEF AllAsked
  <2>1. x <= e
    BY <1>1
  <2>2. CASE x = e
    BY <2>2
  <2>3. CASE x # e
    <3>1. x \in s + 1 .. e - 1
      BY <2>1, <2>3
    <3> QED
      BY <3>1 DEF ReachedBy
  <2> QED
    BY <2>2, <2>3
<1>4. H = {x \in s + 1 .. e : ans[<<s, x>>] = "match"}
  <2>1. \A x \in H : x \in s + 1 .. e /\ ans[<<s, x>>] = "match"
    BY <1>1 DEF Headwords
  <2>2. \A x \in s + 1 .. e : ans[<<s, x>>] = "match" => x \in H
    BY <1>2 DEF Headwords
  <2> QED
    BY <2>1, <2>2
<1> HIDE DEF H
<1>5. CASE good = <<>> /\ \A m \in s + 1 .. e : ans[<<s, m>>] # "match"
  <2>1. H = {}
    BY <1>4, <1>5
  <2> QED
    BY <1>3, <1>5, <2>1 DEF H
<1>6. CASE \E l \in s + 1 .. e :
             /\ good = <<s, l>> /\ ans[<<s, l>>] = "match"
             /\ \A m \in l + 1 .. e : ans[<<s, m>>] # "match"
  <2>1. PICK l \in s + 1 .. e :
          /\ good = <<s, l>> /\ ans[<<s, l>>] = "match"
          /\ \A m \in l + 1 .. e : ans[<<s, m>>] # "match"
    BY <1>6
  <2>2. l \in H /\ H \subseteq Int
    BY <1>4, <2>1
  <2>3. \A m \in H : m <= l
    <3> SUFFICES ASSUME NEW m \in H, ~(m <= l) PROVE FALSE
      OBVIOUS
    <3>1. m \in l + 1 .. e /\ ans[<<s, m>>] = "match"
      BY <1>4
    <3> QED
      BY <2>1, <3>1
  <2>4. \A x \in H : (\A m \in H : m <= x) => x = l
    BY <2>2, <2>3
  <2>5. (CHOOSE x \in H : \A m \in H : m <= x) = l
    BY <2>2, <2>3, <2>4
  <2>6. good # <<>> /\ good[1] = s /\ good[2] = l
    BY <2>1
  <2> QED
    BY <1>3, <2>2, <2>5, <2>6 DEF LongestBy, H
<1> QED
  BY <1>5, <1>6 DEF GoodUpto

LEMMA PlainTokens ==
  /\ IsList(<<>>) /\ Offered(<<>>) = {}
  /\ \A kind : kind # "compound" =>
       IsList(<<Token(kind)>>) /\ Offered(<<Token(kind)>>) = {}
  /\ \A one, two : one # "compound" /\ two # "compound" =>
       IsList(<<Token(one), Token(two)>>) /\ Offered(<<Token(one), Token(two)>>) = {}
BY ShortLists DEF Offered, Places, Token

LEMMA PlainCat ==
  ASSUME NEW s, IsList(s), NEW t, IsList(t), Offered(t) = {}
  PROVE  /\ IsList(Cat(s, t))
         /\ Offered(s) = {} => Offered(Cat(s, t)) = {}
<1>1. IsList(Cat(s, t))
  BY ConcatLists DEF Cat
<1>2. Offered(s) = {} => Offered(Cat(s, t)) = {}
  BY OfferedConcat
<1> QED
  BY <1>1, <1>2

\* The walk over the words of a phrase: the longest compounds of the words it has
\* left are on the page, and from the one it is at it has found every headword up
\* to the phrase it is looking up.  A page finished without articles has them all.
WalkInv ==
  /\ nWords \in 0 .. MaxWords
  /\ answer \in [Compounds -> {"unasked", "none", "prefix", "match"}]
  /\ finder # "compound" => lastGood = <<>>
  /\ (~bodyDone \/ finder = "stemmed") => Offered(data) = {}
  /\ finder = "compound" =>
       /\ start \in 0 .. nWords - 2 /\ end \in start + 1 .. nWords - 1
       /\ Walked(answer, nWords, data, start)
       /\ ReachedBy(answer, start, end)
       /\ GoodUpto(answer, start, end - 1, lastGood)
  /\ (isFinished /\ ~cancelled /\ ~foundAnyDefinitions) =>
       Walked(answer, nWords, data, nWords - 1)

\* A page without compounds, and a walk that has not begun.
LEMMA NoneWalked ==
  ASSUME NEW ans, NEW n, NEW list, Offered(list) = {}, NEW k \in Int, k <= 0
  PROVE  Walked(ans, n, list, k)
<1>1. 0 .. k - 1 = {}
  OBVIOUS
<1>2. {list[i] : i \in Offered(list)} = {}
  OBVIOUS
<1>3. {Compound(s, LongestBy(ans, n, s)) :
         s \in {w \in 0 .. k - 1 : Headwords(ans, n, w) # {}}} = {}
  BY <1>1
<1> QED
  BY <1>1, <1>2, <1>3 DEF Walked

\* Bodies are no compounds.
LEMMA AppendBodiesPlain ==
  ASSUME IsList(data), NEW queue, IsList(queue), NEW done, NEW content,
         AppendBodies(queue, done, content), Offered(data) = {}
  PROVE  /\ Offered(data') = {}
         /\ finder' \in {finder, "stemmed"}
         /\ isFinished' /\ ~isFinished => foundAnyDefinitions'
<1> DEFINE n == FrontFinished(queue, done)
           articles == NewArticles(queue, n, content)
           found == FoundAny(articles)
           last == n = Len(queue)
           tail == CASE ~last -> <<>>
                     [] last /\ found -> <<Token("end")>>
                     [] last /\ ~found -> <<Token("notfound")>>
<1>1. n \in Nat /\ found \in BOOLEAN /\ last \in BOOLEAN
  BY FrontFinishedFacts, ListFacts DEF FoundAny
<1>2. IsList(articles)
  BY <1>1, NewArticlesList
<1>3. Offered(articles) = {}
  <2>1. \A k \in DOMAIN articles : articles[k].kind = "article"
    BY DEF NewArticles, Article
  <2> QED
    BY <2>1 DEF Offered, Places
<1>4. IsList(tail) /\ Offered(tail) = {}
  BY <1>1, PlainTokens
<1>5. /\ data' = Cat(Cat(data, articles), tail)
      /\ foundAnyDefinitions' = found
      /\ isFinished' = (isFinished \/ (last /\ found))
      /\ finder' = IF last /\ ~found THEN "stemmed" ELSE finder
  BY DEF AppendBodies, Cat
<1> HIDE DEF n, articles, found, last, tail
<1>6. IsList(Cat(data, articles)) /\ Offered(Cat(data, articles)) = {}
  BY <1>2, <1>3, PlainCat
<1>7. Offered(data') = {}
  BY <1>4, <1>5, <1>6, PlainCat
<1> QED
  BY <1>1, <1>5, <1>7

\* Giving what was found and going on keeps the walk.
LEMMA NextStartWalks ==
  ASSUME IsList(data), nWords \in Nat, NEW s \in -1 .. nWords - 2, NEW good,
         NEW before, IsList(before), NEW ans, NextStart(s, good, before),
         Walked(ans, nWords,
                Cat(Cat(data, before),
                    IF good = <<>> THEN <<>> ELSE <<Compound(good[1], good[2])>>),
                s + 1)
  PROVE  /\ lastGood' = <<>>
         /\ \/ /\ isFinished' = TRUE /\ finder' = "none"
               /\ Walked(ans, nWords, data', nWords - 1)
            \/ /\ isFinished' = isFinished /\ finder' = "compound"
               /\ start' \in 0 .. nWords - 2 /\ end' \in start' + 1 .. nWords - 1
               /\ Walked(ans, nWords, data', start')
               /\ ReachedBy(ans, start', end')
               /\ GoodUpto(ans, start', end' - 1, <<>>)
<1> DEFINE found == IF good = <<>> THEN <<>>
                    ELSE <<Compound(good[1], good[2])>>
           tail == <<Token("individual"), Token("end")>>
           page == Cat(Cat(data, before), found)
<1>1. lastGood' = <<>>
  BY DEF NextStart
<1>2. \/ /\ s >= nWords - 2 /\ data' = Cat(page, tail)
         /\ isFinished' = TRUE /\ finder' = "none"
      \/ /\ ~(s >= nWords - 2) /\ data' = page
         /\ start' = s + 1 /\ end' = s + 2
         /\ finder' = "compound" /\ isFinished' = isFinished
  BY DEF NextStart, LastStart, LookUp, Cat
<1>3. IsList(tail) /\ Offered(tail) = {}
  BY PlainTokens
<1>4. IsList(page)
  <2>1. IsList(found)
    BY ShortLists
  <2> HIDE DEF found
  <2> QED
    BY <2>1, ConcatLists DEF Cat
<1>5. Walked(ans, nWords, page, s + 1)
  OBVIOUS
<1> HIDE DEF page, tail
<1>6. CASE /\ s >= nWords - 2 /\ data' = Cat(page, tail)
           /\ isFinished' = TRUE /\ finder' = "none"
  <2>1. s + 1 = nWords - 1
    BY <1>6
  <2>2. Walked(ans, nWords, Cat(page, tail), s + 1)
    BY <1>3, <1>4, <1>5, PlainWalk
  <2> QED
    BY <1>1, <1>6, <2>1, <2>2
<1>7. CASE /\ ~(s >= nWords - 2) /\ data' = page
           /\ start' = s + 1 /\ end' = s + 2
           /\ finder' = "compound" /\ isFinished' = isFinished
  <2>1. start' \in 0 .. nWords - 2 /\ end' \in start' + 1 .. nWords - 1
    BY <1>7
  <2>2. start' + 1 .. end' - 1 = {} /\ end' - 1 = start'
    BY <1>7
  <2>3. ReachedBy(ans, start', end') /\ GoodUpto(ans, start', end' - 1, <<>>)
    BY <2>2 DEF ReachedBy, GoodUpto
  <2>4. Walked(ans, nWords, data', start')
    BY <1>5, <1>7
  <2> QED
    BY <1>1, <1>7, <2>1, <2>3, <2>4
<1> QED
  BY <1>2, <1>6, <1>7

\* Looking up one phrase more.
LEMMA PhraseWalks ==
  ASSUME IsList(data), WalkInv, ~isFinished, finder = "compound",
         NEW result \in {"none", "prefix", "match"},
         answer' = [answer EXCEPT ![<<start, end>>] = result],
         NEW good, good = IF result = "match" THEN <<start, end>> ELSE lastGood,
         \/ /\ result \in GoOn /\ end < nWords - 1
            /\ lastGood' = good /\ LookUp(start, end + 1)
            /\ UNCHANGED <<data, isFinished>>
         \/ /\ ~(result \in GoOn /\ end < nWords - 1)
            /\ NextStart(start, good, <<>>),
         UNCHANGED <<nWords, bodyDone, foundAnyDefinitions, cancelled>>, bodyDone
  PROVE  WalkInv'
<1>1. /\ nWords \in Nat /\ nWords \in 0 .. MaxWords
      /\ start \in 0 .. nWords - 2 /\ end \in start + 1 .. nWords - 1
      /\ Walked(answer, nWords, data, start)
      /\ ReachedBy(answer, start, end)
      /\ GoodUpto(answer, start, end - 1, lastGood)
  BY ArticleRequestAssumption DEF WalkInv
<1>2. <<start, end>> \in Compounds
  BY <1>1, ArticleRequestAssumption DEF Compounds
<1>3. /\ answer' \in [Compounds -> {"unasked", "none", "prefix", "match"}]
      /\ answer'[<<start, end>>] = result
      /\ \A c \in Compounds : c # <<start, end>> => answer'[c] = answer[c]
  BY <1>2 DEF WalkInv
<1>4. \A s \in 0 .. nWords - 2 : \A e \in s + 1 .. nWords - 1 :
        (s # start \/ e # end) => answer'[<<s, e>>] = answer[<<s, e>>]
  <2> SUFFICES ASSUME NEW s \in 0 .. nWords - 2, NEW e \in s + 1 .. nWords - 1,
                      s # start \/ e # end
               PROVE  answer'[<<s, e>>] = answer[<<s, e>>]
    OBVIOUS
  <2>1. <<s, e>> \in Compounds /\ <<s, e>> # <<start, end>>
    BY <1>1, ArticleRequestAssumption DEF Compounds
  <2> QED
    BY <1>3, <2>1
<1> DEFINE ans == answer'
<1>5. Walked(ans, nWords, data, start)
  <2>1. \A s \in 0 .. start - 1 : \A e \in s + 1 .. nWords - 1 :
          ans[<<s, e>>] = answer[<<s, e>>]
    <3> SUFFICES ASSUME NEW s \in 0 .. start - 1, NEW e \in s + 1 .. nWords - 1
                 PROVE  answer'[<<s, e>>] = answer[<<s, e>>]
      OBVIOUS
    <3>1. s \in 0 .. nWords - 2 /\ s # start
      BY <1>1
    <3> QED
      BY <1>4, <3>1
  <2>2. start \in Nat
    BY <1>1
  <2> HIDE DEF ans
  <2> QED
    BY <1>1, <2>1, <2>2, WalkStays
<1>6. ReachedBy(ans, start, end)
  <2>1. \A m \in start + 1 .. end - 1 : ans[<<start, m>>] = answer[<<start, m>>]
    BY <1>1, <1>4
  <2> QED
    BY <1>1, <2>1 DEF ReachedBy
<1>7. GoodUpto(ans, start, end, good)
  <2>1. \A m \in start + 1 .. end - 1 : ans[<<start, m>>] = answer[<<start, m>>]
    BY <1>1, <1>4
  <2>2. ans[<<start, end>>] = result
    BY <1>3
  <2>3. \A m \in start + 1 .. end : m \in start + 1 .. end - 1 \/ m = end
    BY <1>1
  <2> HIDE DEF ans
  <2>4. CASE result = "match"
    <3>1. good = <<start, end>> /\ end \in start + 1 .. end /\ end + 1 .. end = {}
      BY <1>1, <2>4
    <3> QED
      BY <2>2, <2>4, <3>1 DEF GoodUpto
  <2>5. CASE result # "match"
    <3>1. good = lastGood
      BY <2>5
    <3>2. CASE lastGood = <<>> /\ \A m \in start + 1 .. end - 1 :
                                     answer[<<start, m>>] # "match"
      <4>1. \A m \in start + 1 .. end : ans[<<start, m>>] # "match"
        BY <2>1, <2>2, <2>3, <2>5, <3>2
      <4> QED
        BY <3>1, <3>2, <4>1 DEF GoodUpto
    <3>3. CASE \E l \in start + 1 .. end - 1 :
                 /\ lastGood = <<start, l>> /\ answer[<<start, l>>] = "match"
                 /\ \A m \in l + 1 .. end - 1 : answer[<<start, m>>] # "match"
      <4>1. PICK l \in start + 1 .. end - 1 :
              /\ lastGood = <<start, l>> /\ answer[<<start, l>>] = "match"
              /\ \A m \in l + 1 .. end - 1 : answer[<<start, m>>] # "match"
        BY <3>3
      <4>2. l \in start + 1 .. end /\ ans[<<start, l>>] = "match"
        BY <1>1, <2>1, <4>1
      <4>3. \A m \in l + 1 .. end : ans[<<start, m>>] # "match"
        <5> SUFFICES ASSUME NEW m \in l + 1 .. end
                     PROVE  ans[<<start, m>>] # "match"
          OBVIOUS
        <5>1. CASE m = end
          BY <2>2, <2>5, <5>1
        <5>2. CASE m # end
          <6>1. m \in start + 1 .. end - 1 /\ m \in l + 1 .. end - 1
            BY <1>1, <5>2
          <6> QED
            BY <2>1, <4>1, <6>1
        <5> QED
          BY <5>1, <5>2
      <4> QED
        BY <3>1, <4>1, <4>2, <4>3 DEF GoodUpto
    <3> QED
      BY <1>1, <3>2, <3>3 DEF GoodUpto
  <2> QED
    BY <2>4, <2>5
<1>8. CASE /\ result \in GoOn /\ end < nWords - 1
           /\ lastGood' = good /\ LookUp(start, end + 1)
           /\ UNCHANGED <<data, isFinished>>
  <2>1. /\ start' = start /\ end' = end + 1 /\ finder' = "compound"
        /\ lastGood' = good /\ data' = data /\ isFinished' = isFinished
    BY <1>8 DEF LookUp
  <2>2. end' \in start' + 1 .. nWords - 1 /\ end' - 1 = end
    BY <1>1, <1>8, <2>1
  <2>3. ReachedBy(ans, start, end + 1)
    <3>1. \A m \in start + 1 .. (end + 1) - 1 : m \in start + 1 .. end - 1 \/ m = end
      BY <1>1
    <3>2. ans[<<start, end>>] \in {"prefix", "match"}
      BY <1>3, <1>8 DEF GoOn
    <3> HIDE DEF ans
    <3> QED
      BY <1>6, <3>1, <3>2 DEF ReachedBy
  <2> QED
    BY <1>1, <1>3, <1>5, <1>7, <2>1, <2>2, <2>3 DEF WalkInv
<1>9. CASE /\ ~(result \in GoOn /\ end < nWords - 1)
           /\ NextStart(start, good, <<>>)
  <2>1. result = "none" \/ end = nWords - 1
    BY <1>1, <1>9 DEF GoOn
  <2>2. ans[<<start, end>>] = result
    BY <1>3
  <2> DEFINE found == IF good = <<>> THEN <<>>
                      ELSE <<Compound(good[1], good[2])>>
             plain == Cat(data, <<>>)
  <2>3. start \in Nat
    BY <1>1
  <2>4. /\ AllAsked(ans, nWords, start)
        /\ good = <<>> => Headwords(ans, nWords, start) = {}
        /\ good # <<>> => /\ Headwords(ans, nWords, start) # {}
                          /\ good[1] = start
                          /\ good[2] = LongestBy(ans, nWords, start)
    <3> HIDE DEF ans
    <3> QED
      BY <1>1, <1>6, <1>7, <2>1, <2>2, <2>3, GoodIsLongest
  <2>5. IsList(plain) /\ Walked(ans, nWords, plain, start)
    <3> HIDE DEF ans
    <3> QED
      BY <1>5, PlainTokens, PlainCat, PlainWalk
  <2> HIDE DEF plain, ans
  <2>6. Walked(ans, nWords, Cat(plain, found), start + 1)
    <3>1. CASE good = <<>>
      <4>1. Walked(ans, nWords, plain, start + 1)
        BY <2>3, <2>4, <2>5, <3>1, WalkOver
      <4> QED
        BY <2>5, <3>1, <4>1, PlainTokens, PlainWalk
    <3>2. CASE good # <<>>
      <4>1. found = <<Compound(start, LongestBy(ans, nWords, start))>>
        BY <2>4, <3>2
      <4> QED
        BY <2>3, <2>4, <2>5, <3>2, <4>1, WalkOffers
    <3> QED
      BY <3>1, <3>2
  <2>7. /\ lastGood' = <<>>
        /\ \/ /\ isFinished' = TRUE /\ finder' = "none"
              /\ Walked(ans, nWords, data', nWords - 1)
           \/ /\ isFinished' = isFinished /\ finder' = "compound"
              /\ start' \in 0 .. nWords - 2 /\ end' \in start' + 1 .. nWords - 1
              /\ Walked(ans, nWords, data', start')
              /\ ReachedBy(ans, start', end')
              /\ GoodUpto(ans, start', end' - 1, <<>>)
    <3>1. start \in -1 .. nWords - 2 /\ IsList(<<>>)
      BY <1>1, PlainTokens
    <3> QED
      BY <1>1, <1>9, <2>6, <3>1, NextStartWalks DEF plain
  <2>8. /\ nWords' = nWords /\ nWords' \in 0 .. MaxWords /\ bodyDone'
        /\ answer' \in [Compounds -> {"unasked", "none", "prefix", "match"}]
        /\ ans = answer'
    BY <1>1, <1>3 DEF ans
  <2>9. CASE /\ isFinished' = TRUE /\ finder' = "none"
             /\ Walked(ans, nWords, data', nWords - 1)
    BY <2>7, <2>8, <2>9 DEF WalkInv
  <2>10. CASE /\ isFinished' = isFinished /\ finder' = "compound"
              /\ start' \in 0 .. nWords - 2 /\ end' \in start' + 1 .. nWords - 1
              /\ Walked(ans, nWords, data', start')
              /\ ReachedBy(ans, start', end')
              /\ GoodUpto(ans, start', end' - 1, <<>>)
    BY <2>7, <2>8, <2>10 DEF WalkInv
  <2> QED
    BY <2>7, <2>9, <2>10
<1> QED
  BY <1>8, <1>9

LEMMA WalkStep == StageInv /\ WalkInv /\ [Next]_vars => WalkInv'
<1> SUFFICES ASSUME StageInv, WalkInv, [Next]_vars PROVE WalkInv'
  OBVIOUS
<1>1. /\ IsList(data) /\ IsList(bodyRequests)
      /\ isFinished \in BOOLEAN /\ altsDone \in BOOLEAN /\ bodyDone \in BOOLEAN
      /\ isFinished /\ ~cancelled => bodyDone /\ finder = "none"
      /\ bodyDone => altsDone
      /\ finder # "none" => bodyDone
  BY DEF StageInv
<1>2. ASSUME UNCHANGED <<nWords, answer, finder, lastGood, start, end, bodyDone, data,
                         isFinished, cancelled, foundAnyDefinitions>>
      PROVE  WalkInv'
  BY <1>2, Zenon DEF WalkInv
<1>3. ASSUME ~bodyDone, ~isFinished, finder = "none", Offered(data') = {},
             finder' \in {finder, "stemmed"},
             isFinished' /\ ~isFinished => foundAnyDefinitions',
             UNCHANGED <<nWords, answer, lastGood>>
      PROVE  WalkInv'
  BY <1>3 DEF WalkInv
<1>4. ASSUME AskForBodies, ~altsDone, ~isFinished, UNCHANGED <<nWords, answer, lastGood>>
      PROVE  WalkInv'
  <2>1. PICK made \in SUBSET Dicts, instant \in SUBSET Dicts :
          AppendBodies(Ascending(made), instant, holds')
    BY <1>4 DEF AskForBodies, LookAtOnce
  <2>2. IsFiniteSet(made)
    <3>1. 1 \in Int /\ NDicts \in Int
      BY ArticleRequestAssumption
    <3>2. IsFiniteSet(Dicts)
      BY <3>1, FS_Interval, Zenon DEF Dicts
    <3> QED
      BY <3>2, FS_Subset, Zenon
  <2>3. IsList(Ascending(made))
    BY <2>2, AscendingList
  <2>4. ~bodyDone /\ finder = "none" /\ Offered(data) = {}
    BY <1>1, <1>4 DEF WalkInv
  <2>5. /\ Offered(data') = {} /\ finder' \in {finder, "stemmed"}
        /\ isFinished' /\ ~isFinished => foundAnyDefinitions'
    BY <1>1, <2>1, <2>3, <2>4, AppendBodiesPlain
  <2> QED
    BY <1>3, <1>4, <2>4, <2>5
<1>5. ASSUME NEW d \in Dicts, Worker(d) PROVE WalkInv'
  BY <1>2, <1>5 DEF Worker, AltFinishes, BodyFinishes, pageVars, compoundVars
<1>6. CASE Construct
  <2>1. ~altsDone /\ ~isFinished
    BY <1>1, <1>6 DEF Construct, StageInv
  <2> QED
    BY <1>2, <1>4, <1>6, <2>1 DEF Construct
<1>7. ASSUME NEW d \in Dicts, AltSearchFinished(d) PROVE WalkInv'
  <2>1. ~cancelled
    BY <1>7 DEF AltSearchFinished
  <2>2. ~altsDone => ~isFinished
    BY <1>1, <2>1
  <2> QED
    BY <1>2, <1>4, <1>7, <2>2 DEF AltSearchFinished
<1>8. ASSUME NEW d \in Dicts, BodyFinished(d) PROVE WalkInv'
  <2>1. CASE ~BodyOver /\ AppendBodies(bodyRequests, Flagged(body), holds)
    <3>1. ~bodyDone /\ ~isFinished /\ finder = "none" /\ Offered(data) = {}
      BY <1>1, <1>8, <2>1 DEF BodyOver, BodyFinished, WalkInv
    <3>2. /\ Offered(data') = {} /\ finder' \in {finder, "stemmed"}
          /\ isFinished' /\ ~isFinished => foundAnyDefinitions'
      BY <1>1, <2>1, <3>1, AppendBodiesPlain
    <3> QED
      BY <1>3, <1>8, <3>1, <3>2 DEF BodyFinished
  <2>2. CASE BodyOver /\ UNCHANGED <<bodyRequests, foundAnyDefinitions, bodyDone, data,
                                     isFinished, finder>>
    BY <1>2, <1>8, <2>2 DEF BodyFinished
  <2> QED
    BY <1>8, <2>1, <2>2 DEF BodyFinished
<1>9. CASE StemmedSearchFinished
  <2>1. /\ ~cancelled /\ finder = "stemmed" /\ bodyDone /\ ~isFinished
        /\ UNCHANGED <<nWords, bodyDone, foundAnyDefinitions, answer, cancelled>>
    BY <1>1, <1>9 DEF StemmedSearchFinished
  <2>2. PICK close \in {<<>>, <<Token("close")>>} :
          \/ nWords > 1 /\ NextStart(-1, lastGood, close)
          \/ /\ nWords <= 1
             /\ data' = (data \o close) \o <<Token("end")>>
             /\ isFinished' = TRUE /\ finder' = "none"
             /\ UNCHANGED <<start, end, lastGood>>
    BY <1>9 DEF StemmedSearchFinished
  <2>3. IsList(close) /\ Offered(close) = {}
    BY PlainTokens
  <2>4. Offered(data) = {} /\ lastGood = <<>> /\ nWords \in Nat
    BY <2>1, ArticleRequestAssumption DEF WalkInv
  <2>5. IsList(Cat(data, close)) /\ Offered(Cat(data, close)) = {}
    BY <1>1, <2>3, <2>4, PlainCat
  <2>6. CASE nWords > 1 /\ NextStart(-1, lastGood, close)
    <3> DEFINE page == Cat(Cat(data, close),
                           IF lastGood = <<>> THEN <<>>
                           ELSE <<Compound(lastGood[1], lastGood[2])>>)
    <3>1. page = Cat(Cat(data, close), <<>>)
      BY <2>4
    <3>2. Offered(page) = {}
      <4>1. Offered(Cat(Cat(data, close), <<>>)) = {}
        BY <2>5, PlainTokens, PlainCat
      <4> HIDE DEF page
      <4> QED
        BY <3>1, <4>1
    <3> HIDE DEF page
    <3>3. Walked(answer, nWords, page, (-1) + 1)
      <4>1. (-1) + 1 \in Int /\ (-1) + 1 <= 0
        OBVIOUS
      <4> QED
        BY <3>2, <4>1, NoneWalked
    <3>4. -1 \in -1 .. nWords - 2
      BY <2>4, <2>6
    <3>5. /\ lastGood' = <<>>
          /\ \/ /\ isFinished' = TRUE /\ finder' = "none"
                /\ Walked(answer, nWords, data', nWords - 1)
             \/ /\ isFinished' = isFinished /\ finder' = "compound"
                /\ start' \in 0 .. nWords - 2 /\ end' \in start' + 1 .. nWords - 1
                /\ Walked(answer, nWords, data', start')
                /\ ReachedBy(answer, start', end')
                /\ GoodUpto(answer, start', end' - 1, <<>>)
      BY <1>1, <2>3, <2>4, <2>6, <3>3, <3>4, NextStartWalks DEF page
    <3> QED
      BY <2>1, <3>5 DEF WalkInv
  <2>7. CASE /\ nWords <= 1
             /\ data' = (data \o close) \o <<Token("end")>>
             /\ isFinished' = TRUE /\ finder' = "none"
             /\ UNCHANGED <<start, end, lastGood>>
    <3>1. IsList(<<Token("end")>>) /\ Offered(<<Token("end")>>) = {}
      BY PlainTokens
    <3>2. data' = Cat(Cat(data, close), <<Token("end")>>)
      BY <2>7 DEF Cat
    <3>3. Offered(data') = {}
      BY <2>5, <3>1, <3>2, PlainCat
    <3>4. nWords - 1 \in Int /\ nWords - 1 <= 0
      BY <2>4, <2>7
    <3>5. Walked(answer, nWords, data', nWords - 1)
      BY <3>3, <3>4, NoneWalked
    <3> QED
      BY <2>1, <2>4, <2>7, <3>5 DEF WalkInv
  <2> QED
    BY <2>2, <2>6, <2>7
<1>10. CASE IndividualWordFinished
  <2>1. /\ ~cancelled /\ finder = "compound" /\ bodyDone /\ ~isFinished
        /\ UNCHANGED <<nWords, bodyDone, foundAnyDefinitions, cancelled>>
    BY <1>1, <1>10 DEF IndividualWordFinished
  <2>2. PICK result \in {"none", "prefix", "match"} :
          LET good == IF result = "match" THEN <<start, end>> ELSE lastGood
          IN  /\ answer' = [answer EXCEPT ![<<start, end>>] = result]
              /\ \/ /\ result \in GoOn /\ end < nWords - 1
                    /\ lastGood' = good
                    /\ LookUp(start, end + 1)
                    /\ UNCHANGED <<data, isFinished>>
                 \/ /\ ~(result \in GoOn /\ end < nWords - 1)
                    /\ NextStart(start, good, <<>>)
    BY <1>10 DEF IndividualWordFinished
  <2> QED
    BY <1>1, <2>1, <2>2, PhraseWalks
<1>11. CASE Cancel
  BY <1>11 DEF Cancel, compoundVars, WalkInv
<1>12. CASE Terminated \/ UNCHANGED vars
  BY <1>2, <1>12 DEF Terminated, vars, pageVars, compoundVars
<1> QED
  BY <1>5, <1>6, <1>7, <1>8, <1>9, <1>10, <1>11, <1>12 DEF Next, Gui

\* A page before its construction, and its walk.
LEMMA WalkInit == Init => StageInv /\ WalkInv
<1> SUFFICES ASSUME Init PROVE StageInv /\ WalkInv
  OBVIOUS
<1>1. IsList(data) /\ Offered(data) = {} /\ IsList(bodyRequests)
  BY PlainTokens DEF Init
<1>2. StageInv
  BY <1>1 DEF Init, StageInv, RequestStates
<1>3. WalkInv
  BY <1>1 DEF Init, WalkInv
<1> QED
  BY <1>2, <1>3

\* For a phrase that no dictionary has, of any number of words and with whatever
\* answers, every phrase in it that may be a compound is looked up and the longest
\* from each word on is on the page, in the order of the words.
THEOREM LongestAreOffered == Spec => []CompoundsAreLongest
<1>1. Init => StageInv /\ WalkInv
  BY WalkInit
<1>2. StageInv /\ WalkInv /\ [Next]_vars => StageInv' /\ WalkInv'
  BY StageStep, WalkStep
<1>3. WalkInv => CompoundsAreLongest
  <2> SUFFICES ASSUME WalkInv, isFinished, ~cancelled, ~foundAnyDefinitions
               PROVE  CompoundsAreLongest
    BY DEF CompoundsAreLongest
  <2>1. Walked(answer, nWords, data, nWords - 1) /\ (nWords - 1) - 1 = nWords - 2
    BY ArticleRequestAssumption DEF WalkInv
  <2>2. \A s, e : Reached(s, e) <=> ReachedBy(answer, s, e)
    BY DEF Reached, ReachedBy
  <2>3. \A s : Reference(s) = Headwords(answer, nWords, s)
    BY <2>2 DEF Reference, Headwords
  <2>4. \A s : Longest(s) = LongestBy(answer, nWords, s)
    BY <2>3, Zenon DEF Longest, LongestBy
  <2>5. {Compound(s, Longest(s)) : s \in {w \in 0 .. nWords - 2 : Reference(w) # {}}}
          = {Compound(s, LongestBy(answer, nWords, s)) :
               s \in {w \in 0 .. nWords - 2 : Headwords(answer, nWords, w) # {}}}
    BY <2>3, <2>4, Zenon
  <2>6. \A s \in 0 .. nWords - 2 : AllAsked(answer, nWords, s)
    BY <2>1, Zenon DEF Walked
  <2>7. \A s \in 0 .. nWords - 2 : \A e \in s + 1 .. nWords - 1 :
          Reached(s, e) => answer[<<s, e>>] # "unasked"
    BY <2>2, <2>6, Zenon DEF AllAsked
  <2> QED
    BY <2>1, <2>5, <2>7, Zenon DEF Walked, CompoundsAreLongest
<1> QED
  BY <1>1, <1>2, <1>3, PTL DEF Spec

-----------------------------------------------------------------------------
(* The articles of the page. *)

\* The members of a finite set of numbers in order: each once, the smallest first.
LEMMA AscendingFacts ==
  ASSUME NEW S, IsFiniteSet(S), S \subseteq Nat
  PROVE  LET A == Ascending(S)
             N == Cardinality(S)
         IN  /\ N \in Nat /\ DOMAIN A = 1 .. N
             /\ \A k \in 1 .. N : A[k] \in S
             /\ \A k, l \in 1 .. N : k < l => A[k] < A[l]
             /\ \A i \in S : \E k \in 1 .. N : A[k] = i
<1> DEFINE A == Ascending(S)
           N == Cardinality(S)
           Less(i) == {j \in S : j < i}
           Rank(i) == Cardinality(Less(i))
<1>1. N \in Nat /\ DOMAIN A = 1 .. N
  BY FS_CardinalityType DEF Ascending
<1>2. \A i \in S : IsFiniteSet(Less(i)) /\ Rank(i) \in Nat /\ Rank(i) < N
  <2> SUFFICES ASSUME NEW i \in S
               PROVE  IsFiniteSet(Less(i)) /\ Rank(i) \in Nat /\ Rank(i) < N
    OBVIOUS
  <2>1. Less(i) \subseteq S /\ i \in S /\ i \notin Less(i)
    OBVIOUS
  <2> HIDE DEF Less
  <2>2. IsFiniteSet(Less(i)) /\ Rank(i) <= N /\ (N = Rank(i) => S = Less(i))
    BY <2>1, FS_Subset
  <2>3. Rank(i) \in Nat
    BY <2>2, FS_CardinalityType
  <2> QED
    BY <1>1, <2>1, <2>2, <2>3
<1>3. \A i, j \in S : i < j => Rank(i) < Rank(j)
  <2> SUFFICES ASSUME NEW i \in S, NEW j \in S, i < j PROVE Rank(i) < Rank(j)
    OBVIOUS
  <2>0. ~(i < i) /\ \A x \in S : x < i => x < j
    OBVIOUS
  <2>1. Less(i) \subseteq Less(j) /\ i \in Less(j) /\ i \notin Less(i)
    BY <2>0
  <2>2. Rank(i) \in Nat /\ Rank(j) \in Nat /\ IsFiniteSet(Less(j))
    BY <1>2
  <2> HIDE DEF Less
  <2>3. Rank(i) <= Rank(j) /\ (Rank(j) = Rank(i) => Less(j) = Less(i))
    BY <2>1, <2>2, FS_Subset
  <2> QED
    BY <2>1, <2>2, <2>3
<1> HIDE DEF Rank, Less, N
<1>21. N \in Nat /\ \A i \in S : Rank(i) \in Nat /\ Rank(i) < N
  BY <1>1, <1>2
<1>31. \A i, j \in S : Rank(i) = Rank(j) => i = j
  <2> SUFFICES ASSUME NEW i \in S, NEW j \in S, Rank(i) = Rank(j) PROVE i = j
    OBVIOUS
  <2>1. i \in Nat /\ j \in Nat /\ Rank(i) \in Nat
    BY <1>21
  <2>2. ~(i < j) /\ ~(j < i)
    BY <1>3, <2>1
  <2> QED
    BY <2>1, <2>2
<1> DEFINE rank == [i \in S |-> Rank(i) + 1]
<1>4. rank \in Surjection(S, 1 .. N)
  <2>1. rank \in [S -> 1 .. N]
    BY <1>21
  <2>2. \A i, j \in S : rank[i] = rank[j] => i = j
    <3> SUFFICES ASSUME NEW i \in S, NEW j \in S, rank[i] = rank[j] PROVE i = j
      OBVIOUS
    <3>1. Rank(i) = Rank(j)
      BY <1>21
    <3> QED
      BY <1>31, <3>1
  <2>3. rank \in Injection(S, 1 .. N)
    BY <2>1, <2>2 DEF Injection, IsInjective
  <2>4. IsFiniteSet(1 .. N) /\ Cardinality(1 .. N) = N
    BY <1>1, FS_Interval
  <2>5. Cardinality(S) = N
    BY DEF N
  <2> HIDE DEF rank
  <2> QED
    BY <2>3, <2>4, <2>5, FS_Injection
<1>5. \A k \in 1 .. N : A[k] \in S /\ Rank(A[k]) = k - 1
  <2> SUFFICES ASSUME NEW k \in 1 .. N PROVE A[k] \in S /\ Rank(A[k]) = k - 1
    OBVIOUS
  <2>1. PICK i \in S : rank[i] = k
    BY <1>4 DEF Surjection
  <2>2. Rank(i) = k - 1
    BY <1>21, <2>1
  <2>3. A[k] = CHOOSE x \in S : Rank(x) = k - 1
    BY DEF Ascending, Rank, Less, N
  <2> QED
    BY <2>2, <2>3
<1>6. \A k, l \in 1 .. N : k < l => A[k] < A[l]
  <2> SUFFICES ASSUME NEW k \in 1 .. N, NEW l \in 1 .. N, k < l, ~(A[k] < A[l])
               PROVE  FALSE
    OBVIOUS
  <2>1. A[k] \in Nat /\ A[l] \in Nat /\ A[k] \in S /\ A[l] \in S
    BY <1>5
  <2>2. Rank(A[k]) = k - 1 /\ Rank(A[l]) = l - 1
    BY <1>5
  <2> HIDE DEF A
  <2>3. Rank(A[l]) < Rank(A[k]) \/ A[k] = A[l]
    BY <1>3, <2>1
  <2> QED
    BY <1>1, <2>2, <2>3
<1>7. \A i \in S : \E k \in 1 .. N : A[k] = i
  <2> SUFFICES ASSUME NEW i \in S PROVE \E k \in 1 .. N : A[k] = i
    OBVIOUS
  <2>1. Rank(i) + 1 \in 1 .. N
    BY <1>21
  <2>2. A[Rank(i) + 1] \in S /\ Rank(A[Rank(i) + 1]) = (Rank(i) + 1) - 1
    BY <1>5, <2>1
  <2>3. Rank(A[Rank(i) + 1]) = Rank(i)
    BY <1>21, <2>2
  <2> HIDE DEF A
  <2>4. A[Rank(i) + 1] = i
    BY <1>31, <2>2, <2>3
  <2> QED
    BY <2>1, <2>4
<1> QED
  BY <1>1, <1>5, <1>6, <1>7 DEF N

\* A queue of dictionaries, in order.
InOrder(queue) ==
  /\ \A i \in DOMAIN queue : queue[i] \in Dicts
  /\ \A i, j \in DOMAIN queue : i < j => queue[i] < queue[j]

\* The number told from those left in the queue is that of the dictionary, if all
\* further down are in the queue.
LEMMA LabelIsOf ==
  ASSUME NEW queue, IsList(queue), InOrder(queue), NEW i \in DOMAIN queue
  PROVE  /\ Label(queue, i) \in Dicts
         /\ (\A d \in Dicts : d > queue[i] => d \in Elements(queue))
              => Label(queue, i) = queue[i]
<1> DEFINE N == Len(queue)
           Behind == i + 1 .. N
           Further == queue[i] + 1 .. NDicts
           f == [j \in Behind |-> queue[j]]
<1>1. N \in Nat /\ DOMAIN queue = 1 .. N /\ i \in 1 .. N
  BY ListFacts
<1>2. NDicts \in Nat /\ queue[i] \in 1 .. NDicts
  BY <1>1, ArticleRequestAssumption DEF InOrder, Dicts
<1>3. IsFiniteSet(Behind) /\ Cardinality(Behind) = N - i
  <2>1. i + 1 \in Int /\ N \in Int
    BY <1>1
  <2>2. IsFiniteSet(i + 1 .. N)
        /\ Cardinality(i + 1 .. N) = IF i + 1 > N THEN 0 ELSE N - (i + 1) + 1
    BY <2>1, FS_Interval
  <2> QED
    BY <1>1, <2>2
<1>4. IsFiniteSet(Further) /\ Cardinality(Further) = NDicts - queue[i]
  <2>1. queue[i] + 1 \in Int /\ NDicts \in Int
    BY <1>2
  <2> DEFINE a == queue[i] + 1
  <2>2. IsFiniteSet(a .. NDicts)
        /\ Cardinality(a .. NDicts) = IF a > NDicts THEN 0 ELSE NDicts - a + 1
    BY <2>1, FS_Interval
  <2> QED
    BY <1>2, <2>2
<1>5. f \in Injection(Behind, Further)
  <2>1. ASSUME NEW j \in Behind PROVE queue[j] \in Further
    <3>1. j \in 1 .. N /\ i < j
      BY <1>1
    <3>2. queue[j] \in 1 .. NDicts /\ queue[i] < queue[j]
      BY <1>1, <3>1 DEF InOrder, Dicts
    <3> QED
      BY <1>2, <3>2
  <2>2. ASSUME NEW j \in Behind, NEW k \in Behind, queue[j] = queue[k] PROVE j = k
    <3>1. j \in 1 .. N /\ k \in 1 .. N
      BY <1>1
    <3>2. queue[j] \in 1 .. NDicts /\ (j < k => queue[j] < queue[k])
          /\ (k < j => queue[k] < queue[j])
      BY <1>1, <3>1 DEF InOrder, Dicts
    <3> QED
      BY <2>2, <3>1, <3>2
  <2> QED
    BY <2>1, <2>2 DEF Injection, IsInjective
<1> HIDE DEF f, Behind, Further
<1>6. Cardinality(Behind) <= Cardinality(Further)
  BY <1>4, <1>5, FS_Injection
<1>7. Label(queue, i) \in Dicts
  BY <1>1, <1>2, <1>3, <1>4, <1>6 DEF Label, Dicts
<1>8. ASSUME \A d \in Dicts : d > queue[i] => d \in Elements(queue)
      PROVE  Label(queue, i) = queue[i]
  <2>1. ASSUME NEW d \in Further PROVE \E j \in Behind : f[j] = d
    <3>1. d \in Dicts /\ d > queue[i]
      BY <1>2 DEF Further, Dicts
    <3>2. PICK j \in 1 .. N : queue[j] = d
      BY <1>1, <1>8, <3>1 DEF Elements
    <3>3. ~(j <= i)
      <4>1. j < i => queue[j] < queue[i]
        BY <1>1, <3>2 DEF InOrder
      <4> QED
        BY <1>1, <1>2, <3>1, <3>2, <4>1 DEF Dicts
    <3> QED
      BY <1>1, <3>2, <3>3 DEF Behind, f
  <2>2. f \in Surjection(Behind, Further)
    BY <1>5, <2>1 DEF Injection, Surjection
  <2>3. Cardinality(Behind) = Cardinality(Further)
    BY <1>4, <1>5, <2>2, FS_Injection
  <2> QED
    BY <1>1, <1>2, <1>3, <1>4, <2>3 DEF Label
<1> QED
  BY <1>7, <1>8

-----------------------------------------------------------------------------
(* Places of tokens. *)

LEMMA PlacesConcat ==
  ASSUME NEW s, IsList(s), NEW t, IsList(t), NEW kind
  PROVE  /\ \A i : i \in Places(Cat(s, t), kind) <=>
                    i \in Places(s, kind) \/ \E j \in Places(t, kind) : i = Len(s) + j
         /\ \A i \in Places(s, kind) : Cat(s, t)[i] = s[i] /\ i \in 1 .. Len(s)
         /\ \A i \in Places(t, kind) : Cat(s, t)[Len(s) + i] = t[i] /\ i \in 1 .. Len(t)
<1> DEFINE u == Cat(s, t)
<1>1. /\ IsList(u) /\ Len(u) = Len(s) + Len(t)
      /\ \A i \in 1 .. Len(s) : u[i] = s[i]
      /\ \A i \in 1 .. Len(t) : u[Len(s) + i] = t[i]
  BY ConcatLists DEF Cat
<1>2. /\ Len(s) \in Nat /\ Len(t) \in Nat
      /\ DOMAIN s = 1 .. Len(s) /\ DOMAIN t = 1 .. Len(t)
      /\ DOMAIN u = 1 .. Len(s) + Len(t)
  BY <1>1, ListFacts
<1> HIDE DEF u
<1>3. ASSUME NEW i \in Places(u, kind)
      PROVE  i \in Places(s, kind) \/ \E j \in Places(t, kind) : i = Len(s) + j
  <2>1. i \in 1 .. Len(s) + Len(t) /\ u[i].kind = kind
    BY <1>2 DEF Places
  <2>2. CASE i <= Len(s)
    BY <1>1, <1>2, <2>1, <2>2 DEF Places
  <2>3. CASE ~(i <= Len(s))
    <3>1. i - Len(s) \in 1 .. Len(t) /\ i = Len(s) + (i - Len(s))
      BY <1>2, <2>1, <2>3
    <3>2. u[i] = t[i - Len(s)]
      BY <1>1, <3>1
    <3> QED
      BY <1>2, <2>1, <3>1, <3>2 DEF Places
  <2> QED
    BY <2>2, <2>3
<1>4. ASSUME NEW i \in Places(s, kind)
      PROVE  i \in Places(u, kind) /\ u[i] = s[i] /\ i \in 1 .. Len(s)
  BY <1>1, <1>2 DEF Places
<1>5. ASSUME NEW i \in Places(t, kind)
      PROVE  Len(s) + i \in Places(u, kind) /\ u[Len(s) + i] = t[i] /\ i \in 1 .. Len(t)
  <2>1. i \in 1 .. Len(t) /\ t[i].kind = kind
    BY <1>2 DEF Places
  <2>2. Len(s) + i \in 1 .. Len(s) + Len(t)
    BY <1>2, <2>1
  <2> QED
    BY <1>1, <1>2, <2>1, <2>2 DEF Places
<1> QED
  BY <1>3, <1>4, <1>5 DEF u

\* A list that has none of a kind adds none.
LEMMA NoneAdded ==
  ASSUME NEW s, IsList(s), NEW t, IsList(t), NEW kind, Places(t, kind) = {}
  PROVE  /\ Places(Cat(s, t), kind) = Places(s, kind)
         /\ \A i \in Places(s, kind) : Cat(s, t)[i] = s[i]
<1>1. \A i : i \in Places(Cat(s, t), kind) <=>
              i \in Places(s, kind) \/ \E j \in Places(t, kind) : i = Len(s) + j
  BY PlacesConcat
<1>2. \A i \in Places(s, kind) : Cat(s, t)[i] = s[i]
  BY PlacesConcat
<1> QED
  BY <1>1, <1>2

\* The first that is closed by the end is closed by its end.
LEMMA EndAdded ==
  ASSUME NEW s, IsList(s), NEW t, IsList(t),
         Places(s, "end") = {}, Places(t, "end") = {Len(t)}
  PROVE  Places(Cat(s, t), "end") = {Len(Cat(s, t))}
<1>1. Len(Cat(s, t)) = Len(s) + Len(t)
  BY ConcatLists DEF Cat
<1>2. \A i : i \in Places(Cat(s, t), "end") <=>
              i \in Places(s, "end") \/ \E j \in Places(t, "end") : i = Len(s) + j
  BY PlacesConcat
<1> QED
  BY <1>1, <1>2

\* The queue holds the requests that were made from some dictionary on, and those
\* before it are through.
QueueOk(queue, b) ==
  /\ IsList(queue) /\ InOrder(queue)
  /\ \A i \in DOMAIN queue : b[queue[i]] # "none"
  /\ \A d \in Dicts : b[d] # "none" /\ d \notin Elements(queue) =>
       /\ b[d] \in {"finished", "over"}
       /\ \A i \in DOMAIN queue : d < queue[i]

\* The page has the articles of those that are through, each once and in order,
\* under the name of its dictionary unless one further down has no request.
ShownOk(list, queue, b, content) ==
  /\ \A i \in Places(list, "article") :
       /\ list[i].of \in Dicts /\ b[list[i].of] # "none"
       /\ list[i].of \notin Elements(queue)
       /\ content[list[i].of] = "article"
       /\ list[i].label \in Dicts
       /\ list[i].label # list[i].of => \E d \in Dicts : d > list[i].of /\ b[d] = "none"
  /\ \A i, j \in Places(list, "article") : i < j => list[i].of < list[j].of
  /\ \A d \in Dicts : b[d] # "none" /\ d \notin Elements(queue) /\ content[d] = "article" =>
       \E i \in Places(list, "article") : list[i].of = d

\* What is left of the queue when the first n requests are taken.
LEMMA RestOfQueue ==
  ASSUME NEW queue, IsList(queue), NEW n \in 0 .. Len(queue)
  PROVE  LET rest == SubSeq(queue, n + 1, Len(queue))
         IN  /\ IsList(rest) /\ DOMAIN rest = 1 .. Len(queue) - n
             /\ \A i \in 1 .. Len(queue) - n : rest[i] = queue[n + i]
             /\ \A d : d \in Elements(queue) <=>
                         d \in Elements(rest) \/ \E i \in 1 .. n : d = queue[i]
<1> DEFINE N == Len(queue)
           rest == SubSeq(queue, n + 1, N)
           S == Elements(queue)
<1>1. N \in Nat /\ DOMAIN queue = 1 .. N /\ n \in Nat /\ n <= N
  BY ListFacts
<1>2. \A i \in n + 1 .. N : queue[i] \in S
  BY <1>1 DEF Elements
<1> HIDE DEF S
<1>3. /\ rest \in Seq(S)
      /\ Len(rest) = IF n + 1 <= N THEN N - (n + 1) + 1 ELSE 0
      /\ \A i \in 1 .. N - (n + 1) + 1 : rest[i] = queue[(n + 1) + i - 1]
  BY <1>1, <1>2, SubSeqProperties
<1> HIDE DEF rest
<1>4. IsList(rest) /\ DOMAIN rest = 1 .. Len(rest)
  BY <1>3, ListOf
<1>5. Len(rest) = N - n
  <2>1. CASE n + 1 <= N
    BY <1>1, <1>3, <2>1
  <2>2. CASE ~(n + 1 <= N)
    <3>1. Len(rest) = 0
      BY <1>3, <2>2, Zenon
    <3>2. N - n = 0
      <4> HIDE DEF N
      <4>1. N = n
        BY <1>1, <2>2
      <4> QED
        BY <1>1, <4>1
    <3> QED
      BY <3>1, <3>2
  <2> QED
    BY <2>1, <2>2
<1>6. \A i \in 1 .. N - n : rest[i] = queue[n + i]
  <2> SUFFICES ASSUME NEW i \in 1 .. N - n PROVE rest[i] = queue[n + i]
    OBVIOUS
  <2>1. N - (n + 1) + 1 = N - n /\ (n + 1) + i - 1 = n + i
    BY <1>1
  <2>2. i \in 1 .. N - (n + 1) + 1
    BY <2>1
  <2>3. rest[i] = queue[(n + 1) + i - 1]
    BY <1>3, <2>2, Zenon
  <2> QED
    BY <2>1, <2>3, Zenon
<1>7. ASSUME NEW d \in Elements(queue)
      PROVE  d \in Elements(rest) \/ \E i \in 1 .. n : d = queue[i]
  <2>1. PICK j \in 1 .. N : d = queue[j]
    BY <1>1 DEF Elements
  <2>2. CASE j <= n
    BY <1>1, <2>1, <2>2
  <2>3. CASE ~(j <= n)
    <3>1. j - n \in 1 .. N - n /\ n + (j - n) = j
      BY <1>1, <2>3
    <3>2. rest[j - n] = d
      BY <1>6, <2>1, <3>1
    <3> QED
      BY <1>4, <1>5, <3>1, <3>2 DEF Elements
  <2> QED
    BY <2>2, <2>3
<1>8. ASSUME NEW d \in Elements(rest) PROVE d \in Elements(queue)
  <2>1. PICK j \in 1 .. N - n : d = rest[j]
    BY <1>4, <1>5 DEF Elements
  <2>2. n + j \in 1 .. N /\ queue[n + j] = d
    BY <1>1, <1>6, <2>1
  <2> QED
    BY <1>1, <2>2 DEF Elements
<1>9. ASSUME NEW i \in 1 .. n PROVE queue[i] \in Elements(queue)
  <2>1. i \in 1 .. N
    BY <1>1
  <2> QED
    BY <1>1, <2>1 DEF Elements
<1> QED
  BY <1>4, <1>5, <1>6, <1>7, <1>8, <1>9 DEF rest

\* An article is that of the i-th request.
IsOf(a, queue, i, content) ==
  /\ a.of = queue[i] /\ a.label = Label(queue, i)
  /\ content[queue[i]] = "article"

\* The articles of the first n requests.
LEMMA NewArticlesFacts ==
  ASSUME NEW queue, IsList(queue), NEW n \in 0 .. Len(queue), NEW content
  PROVE  LET new == NewArticles(queue, n, content)
             From(k, i) == IsOf(new[k], queue, i, content)
         IN  /\ IsList(new) /\ Places(new, "article") = DOMAIN new
             /\ \A kind : kind # "article" => Places(new, kind) = {}
             /\ \A k \in DOMAIN new : \E i \in 1 .. n : From(k, i)
             /\ \A k, l \in DOMAIN new : k < l =>
                  \E i, j \in 1 .. n : i < j /\ From(k, i) /\ From(l, j)
             /\ \A i \in 1 .. n : content[queue[i]] = "article" =>
                  \E k \in DOMAIN new : From(k, i)
<1> DEFINE S == {i \in 1 .. n : content[queue[i]] = "article"}
           shown == Ascending(S)
           new == NewArticles(queue, n, content)
           From(k, i) == IsOf(new[k], queue, i, content)
<1>1. n \in Nat
  BY ListFacts
<1>2. IsFiniteSet(S) /\ S \subseteq Nat
  <2>1. IsFiniteSet(1 .. n) /\ S \subseteq 1 .. n
    BY <1>1, FS_Interval
  <2>2. IsFiniteSet(S)
    BY <2>1, FS_Subset
  <2>3. 1 .. n \subseteq Nat
    BY <1>1
  <2> HIDE DEF S
  <2> QED
    BY <2>1, <2>2, <2>3
<1>3. new = [k \in DOMAIN shown |-> Article(Label(queue, shown[k]), queue[shown[k]])]
  BY DEF NewArticles
<1>4. \A i \in S : i \in 1 .. n /\ content[queue[i]] = "article"
  OBVIOUS
<1>5. \A i \in 1 .. n : content[queue[i]] = "article" => i \in S
  OBVIOUS
<1> HIDE DEF S
<1>6. /\ DOMAIN shown = 1 .. Cardinality(S)
      /\ \A k \in DOMAIN shown : shown[k] \in S
      /\ \A k, l \in DOMAIN shown : k < l => shown[k] < shown[l]
      /\ \A i \in S : \E k \in DOMAIN shown : shown[k] = i
  BY <1>2, AscendingFacts
<1> HIDE DEF shown
<1>7. IsList(new)
  BY <1>1, NewArticlesList
<1>8. /\ DOMAIN new = DOMAIN shown
      /\ \A k \in DOMAIN new :
           new[k] = Article(Label(queue, shown[k]), queue[shown[k]])
  BY <1>3
<1> HIDE DEF new
<1>9. \A k \in DOMAIN new : new[k].kind = "article" /\ From(k, shown[k])
  BY <1>4, <1>6, <1>8 DEF Article, IsOf
<1>10. Places(new, "article") = DOMAIN new
       /\ \A kind : kind # "article" => Places(new, kind) = {}
  BY <1>9 DEF Places
<1>11. \A k \in DOMAIN new : \E i \in 1 .. n : From(k, i)
  BY <1>4, <1>6, <1>8, <1>9
<1>12. \A k, l \in DOMAIN new : k < l =>
         \E i, j \in 1 .. n : i < j /\ From(k, i) /\ From(l, j)
  BY <1>4, <1>6, <1>8, <1>9
<1>13. \A i \in 1 .. n : content[queue[i]] = "article" =>
         \E k \in DOMAIN new : From(k, i)
  BY <1>5, <1>6, <1>8, <1>9
<1> QED
  BY <1>7, <1>10, <1>11, <1>12, <1>13 DEF new

-----------------------------------------------------------------------------
(* The articles a reply takes from the queue. *)

\* Taking the first n requests from the queue adds their articles to the page.
LEMMA ArticlesTaken ==
  ASSUME NEW list, IsList(list), NEW queue, NEW b, NEW content,
         QueueOk(queue, b), ShownOk(list, queue, b, content),
         NEW n \in 0 .. Len(queue),
         \A i \in 1 .. n : b[queue[i]] \in {"finished", "over"}
  PROVE  LET rest == SubSeq(queue, n + 1, Len(queue))
         IN  /\ QueueOk(rest, b)
             /\ ShownOk(Cat(list, NewArticles(queue, n, content)), rest, b, content)
<1> DEFINE N == Len(queue)
           rest == SubSeq(queue, n + 1, N)
           new == NewArticles(queue, n, content)
           all == Cat(list, new)
           From(k, i) == IsOf(new[k], queue, i, content)
<1>1. /\ IsList(queue) /\ InOrder(queue)
      /\ N \in Nat /\ DOMAIN queue = 1 .. N /\ n \in Nat /\ n <= N
  BY ListFacts DEF QueueOk
<1>2. /\ IsList(rest) /\ DOMAIN rest = 1 .. N - n
      /\ \A i \in 1 .. N - n : rest[i] = queue[n + i]
      /\ \A d : d \in Elements(queue) <=>
                  d \in Elements(rest) \/ \E i \in 1 .. n : d = queue[i]
  BY <1>1, RestOfQueue
<1> HIDE DEF rest
<1>3. \A i \in 1 .. n : i \in 1 .. N
  BY <1>1
<1>4. \A i \in 1 .. N - n : n + i \in 1 .. N
  BY <1>1
<1>5. \A i \in 1 .. n, j \in DOMAIN rest : queue[i] < rest[j]
  <2> SUFFICES ASSUME NEW i \in 1 .. n, NEW j \in 1 .. N - n PROVE queue[i] < rest[j]
    BY <1>2
  <2>1. i \in 1 .. N /\ n + j \in 1 .. N /\ i < n + j
    BY <1>1
  <2>2. queue[i] < queue[n + j]
    BY <1>1, <2>1 DEF InOrder
  <2> QED
    BY <1>2, <2>2
<1>6. \A i \in 1 .. n : queue[i] \in Dicts /\ queue[i] \notin Elements(rest)
                        /\ b[queue[i]] # "none"
  <2> SUFFICES ASSUME NEW i \in 1 .. n
               PROVE  queue[i] \in Dicts /\ queue[i] \notin Elements(rest)
                      /\ b[queue[i]] # "none"
    OBVIOUS
  <2>1. queue[i] \in Dicts /\ b[queue[i]] # "none"
    BY <1>1, <1>3 DEF QueueOk, InOrder
  <2>2. ASSUME queue[i] \in Elements(rest) PROVE FALSE
    <3>1. PICK j \in DOMAIN rest : queue[i] = rest[j]
      BY <2>2 DEF Elements
    <3>2. queue[i] < queue[i] /\ queue[i] \in Nat
      BY <1>5, <2>1, <3>1 DEF Dicts
    <3> QED
      BY <3>2
  <2> QED
    BY <2>1, <2>2
<1>7. QueueOk(rest, b)
  <2>1. InOrder(rest)
    <3>1. \A i \in DOMAIN rest : rest[i] \in Dicts
      BY <1>1, <1>2, <1>4 DEF InOrder
    <3>2. ASSUME NEW i \in 1 .. N - n, NEW j \in 1 .. N - n, i < j
          PROVE  rest[i] < rest[j]
      <4>1. n + i \in 1 .. N /\ n + j \in 1 .. N /\ n + i < n + j
        BY <1>1, <3>2
      <4>2. queue[n + i] < queue[n + j]
        BY <1>1, <4>1 DEF InOrder
      <4> QED
        BY <1>2, <4>2
    <3> QED
      BY <1>2, <3>1, <3>2 DEF InOrder
  <2>2. \A i \in DOMAIN rest : b[rest[i]] # "none"
    BY <1>1, <1>2, <1>4 DEF QueueOk
  <2>3. ASSUME NEW d \in Dicts, b[d] # "none", d \notin Elements(rest)
        PROVE  b[d] \in {"finished", "over"} /\ \A i \in DOMAIN rest : d < rest[i]
    <3>1. CASE d \notin Elements(queue)
      <4>1. b[d] \in {"finished", "over"} /\ \A i \in 1 .. N : d < queue[i]
        BY <1>1, <2>3, <3>1 DEF QueueOk
      <4> QED
        BY <1>2, <1>4, <4>1
    <3>2. CASE d \in Elements(queue)
      <4>1. PICK i \in 1 .. n : d = queue[i]
        BY <1>2, <2>3, <3>2
      <4> QED
        BY <1>5, <4>1
    <3> QED
      BY <3>1, <3>2
  <2> QED
    BY <1>2, <2>1, <2>2, <2>3 DEF QueueOk
<1>8. /\ IsList(new) /\ Places(new, "article") = DOMAIN new
      /\ \A k \in DOMAIN new : \E i \in 1 .. n : From(k, i)
      /\ \A k, l \in DOMAIN new : k < l =>
           \E i, j \in 1 .. n : i < j /\ From(k, i) /\ From(l, j)
      /\ \A i \in 1 .. n : content[queue[i]] = "article" =>
           \E k \in DOMAIN new : From(k, i)
  <2>1. IsList(new) /\ Places(new, "article") = DOMAIN new
    BY <1>1, NewArticlesFacts
  <2>2. \A k \in DOMAIN new : \E i \in 1 .. n : From(k, i)
    BY <1>1, NewArticlesFacts
  <2>3. \A k, l \in DOMAIN new : k < l =>
          \E i, j \in 1 .. n : i < j /\ From(k, i) /\ From(l, j)
    BY <1>1, NewArticlesFacts
  <2>4. \A i \in 1 .. n : content[queue[i]] = "article" =>
          \E k \in DOMAIN new : From(k, i)
    BY <1>1, NewArticlesFacts
  <2> QED
    BY <2>1, <2>2, <2>3, <2>4
<1> HIDE DEF new
<1>9. /\ \A i : i \in Places(all, "article") <=>
                i \in Places(list, "article") \/ \E k \in DOMAIN new : i = Len(list) + k
      /\ \A i \in Places(list, "article") : all[i] = list[i] /\ i \in 1 .. Len(list)
      /\ \A k \in DOMAIN new : all[Len(list) + k] = new[k] /\ k \in 1 .. Len(new)
  <2> DEFINE P == Places(new, "article")
  <2>1. \A i : i \in Places(all, "article") <=>
               i \in Places(list, "article") \/ \E k \in P : i = Len(list) + k
    BY <1>8, PlacesConcat
  <2>2. \A i \in Places(list, "article") : all[i] = list[i] /\ i \in 1 .. Len(list)
    BY <1>8, PlacesConcat
  <2>3. \A k \in P : all[Len(list) + k] = new[k] /\ k \in 1 .. Len(new)
    BY <1>8, PlacesConcat
  <2>4. P = DOMAIN new
    BY <1>8
  <2> HIDE DEF P
  <2> QED
    BY <2>1, <2>2, <2>3, <2>4
<1>10. Len(list) \in Nat /\ Len(new) \in Nat
  BY <1>8, ListFacts
<1> HIDE DEF all
<1> DEFINE Good(a) ==
             /\ a.of \in Dicts /\ b[a.of] # "none" /\ a.of \notin Elements(rest)
             /\ content[a.of] = "article" /\ a.label \in Dicts
             /\ a.label # a.of => \E d \in Dicts : d > a.of /\ b[d] = "none"
<1>11. \A i \in Places(list, "article") : Good(list[i]) /\ list[i].of \notin Elements(queue)
  BY <1>2 DEF ShownOk
<1>12. \A k \in DOMAIN new : Good(new[k])
  <2> SUFFICES ASSUME NEW k \in DOMAIN new PROVE Good(new[k])
    OBVIOUS
  <2>1. PICK i \in 1 .. n : From(k, i)
    BY <1>8
  <2>2. i \in DOMAIN queue
    BY <1>1, <1>3
  <2>3. /\ Label(queue, i) \in Dicts
        /\ (\A d \in Dicts : d > queue[i] => d \in Elements(queue))
             => Label(queue, i) = queue[i]
    BY <1>1, <2>2, LabelIsOf, Zenon
  <2>4. ASSUME Label(queue, i) # queue[i]
        PROVE  \E d \in Dicts : d > queue[i] /\ b[d] = "none"
    <3>1. PICK d \in Dicts : d > queue[i] /\ d \notin Elements(queue)
      BY <2>3, <2>4, Zenon
    <3>2. ASSUME b[d] # "none" PROVE FALSE
      <4>1. d < queue[i]
        BY <2>2, <3>1, <3>2 DEF QueueOk
      <4> QED
        BY <1>6, <3>1, <4>1 DEF Dicts
    <3> QED
      BY <3>1, <3>2
  <2> QED
    BY <1>6, <2>1, <2>3, <2>4 DEF IsOf
<1> HIDE DEF Good
<1>13. \A i \in Places(all, "article") : Good(all[i])
  BY <1>9, <1>11, <1>12
<1>14. ASSUME NEW i \in Places(all, "article"), NEW j \in Places(all, "article"), i < j
       PROVE  all[i].of < all[j].of
  <2>1. CASE i \in Places(list, "article") /\ j \in Places(list, "article")
    BY <1>9, <1>14, <2>1 DEF ShownOk
  <2>2. ASSUME i \in Places(list, "article"), NEW k \in DOMAIN new, j = Len(list) + k
        PROVE  all[i].of < all[j].of
    <3>1. PICK l \in 1 .. n : From(k, l)
      BY <1>8
    <3>2. l \in DOMAIN queue
      BY <1>1, <1>3
    <3>3. list[i].of < queue[l]
      BY <1>11, <2>2, <3>2 DEF Good, QueueOk
    <3> QED
      BY <1>9, <2>2, <3>1, <3>3 DEF IsOf
  <2>3. ASSUME NEW k \in DOMAIN new, i = Len(list) + k, j \in Places(list, "article")
        PROVE  FALSE
    BY <1>9, <1>10, <1>14, <2>3
  <2>4. ASSUME NEW k \in DOMAIN new, i = Len(list) + k,
               NEW l \in DOMAIN new, j = Len(list) + l
        PROVE  all[i].of < all[j].of
    <3>1. k \in Nat /\ l \in Nat
      BY <1>9, <1>10
    <3>2. k < l
      BY <1>10, <1>14, <2>4, <3>1
    <3>3. PICK x \in 1 .. n, y \in 1 .. n : x < y /\ From(k, x) /\ From(l, y)
      BY <1>8, <3>2
    <3>4. queue[x] < queue[y]
      BY <1>1, <1>3, <3>3 DEF InOrder
    <3> QED
      BY <1>9, <2>4, <3>3, <3>4 DEF IsOf
  <2> QED
    BY <1>9, <2>1, <2>2, <2>3, <2>4
<1>15. ASSUME NEW d \in Dicts, b[d] # "none", d \notin Elements(rest),
              content[d] = "article"
       PROVE  \E i \in Places(all, "article") : all[i].of = d
  <2>1. CASE d \notin Elements(queue)
    <3>1. PICK i \in Places(list, "article") : list[i].of = d
      BY <1>15, <2>1 DEF ShownOk
    <3> QED
      BY <1>9, <3>1
  <2>2. CASE d \in Elements(queue)
    <3>1. PICK i \in 1 .. n : d = queue[i]
      BY <1>2, <1>15, <2>2
    <3>2. PICK k \in DOMAIN new : From(k, i)
      BY <1>8, <1>15, <3>1
    <3> QED
      BY <1>9, <3>1, <3>2 DEF IsOf
  <2> QED
    BY <2>1, <2>2
<1>16. ShownOk(all, rest, b, content)
  BY <1>13, <1>14, <1>15 DEF ShownOk, Good
<1> QED
  BY <1>7, <1>16 DEF all, rest, new

-----------------------------------------------------------------------------
(* The page as it is read: the queue, what is shown, what is left. *)

\* What is known of a page: its articles are those taken from the queue, it says
\* that nothing was found when all are in and there are none, and it is closed at
\* its end when it is finished, unless it was cancelled.
PageInv ==
  /\ holds \in [Dicts -> {"article", "nothing"}]
  /\ QueueOk(bodyRequests, body)
  /\ ShownOk(data, bodyRequests, body, holds)
  /\ bodyDone => Elements(bodyRequests) = {}
  /\ foundAnyDefinitions <=> Places(data, "article") # {}
  /\ Places(data, "notfound") # {} <=> bodyDone /\ ~foundAnyDefinitions
  /\ ~isFinished => Places(data, "end") = {}
  /\ isFinished /\ ~cancelled => Places(data, "end") = {Len(data)}

\* What is written behind the articles changes nothing about them.
LEMMA ShownStays ==
  ASSUME NEW s, IsList(s), NEW t, IsList(t), Places(t, "article") = {},
         NEW queue, NEW b, NEW content, ShownOk(s, queue, b, content)
  PROVE  ShownOk(Cat(s, t), queue, b, content)
<1> DEFINE u == Cat(s, t)
<1>1. /\ Places(u, "article") = Places(s, "article")
      /\ \A i \in Places(s, "article") : u[i] = s[i]
  BY NoneAdded
<1> HIDE DEF u
<1>2. ShownOk(u, queue, b, content)
  BY <1>1 DEF ShownOk
<1> QED
  BY <1>2 DEF u

\* The places of the tokens written behind the articles.
LEMMA TokenPlaces ==
  /\ IsList(<<>>) /\ \A kind : Places(<<>>, kind) = {}
  /\ \A one, kind :
       /\ IsList(<<Token(one)>>) /\ Len(<<Token(one)>>) = 1
       /\ Places(<<Token(one)>>, kind) = IF kind = one THEN {1} ELSE {}
  /\ \A one, two, kind : one # two =>
       /\ IsList(<<Token(one), Token(two)>>) /\ Len(<<Token(one), Token(two)>>) = 2
       /\ Places(<<Token(one), Token(two)>>, kind) =
            IF kind = one THEN {1} ELSE IF kind = two THEN {2} ELSE {}
<1>1. \A kind : Places(<<>>, kind) = {}
  BY DEF Places
<1>2. ASSUME NEW one, NEW kind
      PROVE  Places(<<Token(one)>>, kind) = IF kind = one THEN {1} ELSE {}
  BY DEF Places, Token
<1>3. ASSUME NEW one, NEW two, NEW kind, one # two
      PROVE  Places(<<Token(one), Token(two)>>, kind) =
               IF kind = one THEN {1} ELSE IF kind = two THEN {2} ELSE {}
  BY <1>3 DEF Places, Token
<1> QED
  BY <1>1, <1>2, <1>3, ShortLists

\* Appending bodies takes their articles from the queue to the page.
LEMMA AppendBodiesPage ==
  ASSUME IsList(data), NEW queue, NEW b, NEW content, NEW done,
         \A d \in Dicts : d \in done => b[d] \in {"finished", "over"},
         QueueOk(queue, b), ShownOk(data, queue, b, content),
         foundAnyDefinitions <=> Places(data, "article") # {},
         Places(data, "notfound") = {}, Places(data, "end") = {},
         ~isFinished, isFinished \in BOOLEAN, foundAnyDefinitions \in BOOLEAN,
         AppendBodies(queue, done, content)
  PROVE  /\ QueueOk(bodyRequests', b)
         /\ ShownOk(data', bodyRequests', b, content)
         /\ bodyDone' => Elements(bodyRequests') = {}
         /\ foundAnyDefinitions' <=> Places(data', "article") # {}
         /\ Places(data', "notfound") # {} <=> bodyDone' /\ ~foundAnyDefinitions'
         /\ ~isFinished' => Places(data', "end") = {}
         /\ isFinished' => Places(data', "end") = {Len(data')}
<1> DEFINE n == FrontFinished(queue, done)
           new == NewArticles(queue, n, content)
           found == FoundAny(new)
           last == n = Len(queue)
           rest == SubSeq(queue, n + 1, Len(queue))
           tail == CASE ~last -> <<>>
                     [] last /\ found -> <<Token("end")>>
                     [] last /\ ~found -> <<Token("notfound")>>
           some == Cat(data, new)
<1>0. IsList(queue) /\ InOrder(queue) /\ Len(queue) \in Nat /\ DOMAIN queue = 1 .. Len(queue)
  BY ListFacts DEF QueueOk
<1>1. n \in 0 .. Len(queue) /\ \A i \in 1 .. n : queue[i] \in done
  BY <1>0, FrontFinishedFacts
<1>2. /\ bodyRequests' = rest
      /\ foundAnyDefinitions' = found
      /\ bodyDone' = last
      /\ data' = Cat(some, tail)
      /\ isFinished' = (isFinished \/ (last /\ found))
  BY DEF AppendBodies, Cat
<1> HIDE DEF n
<1>3. \A i \in 1 .. n : b[queue[i]] \in {"finished", "over"}
  <2> SUFFICES ASSUME NEW i \in 1 .. n PROVE b[queue[i]] \in {"finished", "over"}
    OBVIOUS
  <2>1. i \in DOMAIN queue
    BY <1>0, <1>1
  <2> QED
    BY <1>0, <1>1, <2>1 DEF InOrder
<1>4. QueueOk(rest, b) /\ ShownOk(some, rest, b, content)
  BY <1>1, <1>3, ArticlesTaken
<1>5. last => Elements(rest) = {}
  <2>1. DOMAIN rest = 1 .. Len(queue) - n
    BY <1>0, <1>1, RestOfQueue
  <2> HIDE DEF rest
  <2> QED
    BY <1>0, <2>1 DEF Elements
<1>6. /\ IsList(new) /\ Places(new, "article") = DOMAIN new
      /\ Places(new, "notfound") = {} /\ Places(new, "end") = {}
  BY <1>0, <1>1, NewArticlesFacts
<1>7. new # <<>> <=> DOMAIN new # {}
  <2> HIDE DEF new
  <2>1. Len(new) \in Nat /\ DOMAIN new = 1 .. Len(new) /\ new \in Seq(Elements(new))
    BY <1>6, ListFacts DEF IsList
  <2>2. Len(new) = 0 <=> new = <<>>
    BY <2>1, EmptySeq
  <2>3. \A k \in Nat : 1 .. k # {} <=> k # 0
    OBVIOUS
  <2> QED
    BY <2>1, <2>2, <2>3, Zenon
<1>8. found <=> Places(data, "article") # {} \/ DOMAIN new # {}
  <2>1. found <=> foundAnyDefinitions \/ new # <<>>
    BY DEF FoundAny
  <2> HIDE DEF found, new
  <2> QED
    BY <1>7, <2>1
<1> HIDE DEF new
<1>9. /\ IsList(some)
      /\ Places(some, "notfound") = {} /\ Places(some, "end") = {}
      /\ Places(some, "article") # {} <=>
           Places(data, "article") # {} \/ DOMAIN new # {}
  <2>1. IsList(some)
    BY <1>6, ConcatLists DEF Cat
  <2>2. Places(some, "notfound") = {} /\ Places(some, "end") = {}
    BY <1>6, NoneAdded
  <2>3. \A i : i \in Places(some, "article") <=>
               i \in Places(data, "article")
                 \/ \E j \in Places(new, "article") : i = Len(data) + j
    BY <1>6, PlacesConcat
  <2> QED
    BY <1>6, <2>1, <2>2, <2>3
<1>10. found \in BOOLEAN /\ last \in BOOLEAN
  BY DEF FoundAny
<1>11. /\ IsList(tail) /\ Places(tail, "article") = {}
       /\ Places(tail, "notfound") = IF last /\ ~found THEN {1} ELSE {}
       /\ Places(tail, "end") = IF last /\ found THEN {Len(tail)} ELSE {}
  BY <1>10, TokenPlaces
<1> HIDE DEF found, last, rest, tail, some
<1>12. /\ Places(data', "article") = Places(some, "article")
       /\ ShownOk(data', rest, b, content)
  BY <1>2, <1>4, <1>9, <1>11, NoneAdded, ShownStays
<1>13. Places(data', "notfound") # {} <=> last /\ ~found
  <2>1. \A i : i \in Places(data', "notfound") <=>
               i \in Places(some, "notfound")
                 \/ \E j \in Places(tail, "notfound") : i = Len(some) + j
    BY <1>2, <1>9, <1>11, PlacesConcat
  <2> QED
    BY <1>9, <1>11, <2>1
<1>14. CASE last /\ found
  <2>1. Places(data', "end") = {Len(data')}
    BY <1>2, <1>9, <1>11, <1>14, EndAdded
  <2> QED
    BY <1>2, <1>4, <1>5, <1>8, <1>9, <1>12, <1>13, <1>14, <2>1
<1>15. CASE ~(last /\ found)
  <2>1. Places(data', "end") = {}
    BY <1>2, <1>9, <1>11, <1>15, NoneAdded
  <2> QED
    BY <1>2, <1>4, <1>5, <1>8, <1>9, <1>12, <1>13, <1>15, <2>1
<1> QED
  BY <1>14, <1>15

-----------------------------------------------------------------------------
(* The compound search adds to the page. *)

LEMMA ListsAssociate ==
  ASSUME NEW s, IsList(s), NEW t, IsList(t), NEW u, IsList(u)
  PROVE  (s \o t) \o u = s \o (t \o u)
<1> DEFINE S == Elements(s) \cup Elements(t) \cup Elements(u)
<1>1. s \in Seq(Elements(s)) /\ t \in Seq(Elements(t)) /\ u \in Seq(Elements(u))
  BY DEF IsList
<1>2. Elements(s) \subseteq S /\ Elements(t) \subseteq S /\ Elements(u) \subseteq S
  OBVIOUS
<1> HIDE DEF S
<1>3. s \in Seq(S) /\ t \in Seq(S) /\ u \in Seq(S)
  BY <1>1, <1>2, SeqMonotonic
<1> QED
  BY <1>3, ConcatAssociative

\* Appending tokens that are no articles, with the end last if it closes the page.
LEMMA TokensAppended ==
  ASSUME PageInv, IsList(data), ~isFinished, NEW t, IsList(t), data' = Cat(data, t),
         Places(t, "article") = {}, Places(t, "notfound") = {},
         isFinished' \in BOOLEAN,
         Places(t, "end") = IF isFinished' THEN {Len(t)} ELSE {},
         UNCHANGED <<holds, bodyRequests, body, bodyDone, foundAnyDefinitions>>
  PROVE  PageInv'
<1>1. /\ Places(data', "article") = Places(data, "article")
      /\ Places(data', "notfound") = Places(data, "notfound")
  BY NoneAdded
<1>2. ShownOk(data', bodyRequests', body', holds')
  BY ShownStays DEF PageInv
<1>3. Places(data, "end") = {}
  BY DEF PageInv
<1>4. CASE isFinished'
  <2>1. Places(data', "end") = {Len(data')}
    BY <1>3, <1>4, EndAdded
  <2> QED
    BY <1>1, <1>2, <1>4, <2>1 DEF PageInv
<1>5. CASE ~isFinished'
  <2>1. Places(data', "end") = {}
    BY <1>3, <1>5, NoneAdded
  <2> QED
    BY <1>1, <1>2, <1>5, <2>1 DEF PageInv
<1> QED
  BY <1>4, <1>5

\* The tokens of the compounds.
LEMMA NextStartPage ==
  ASSUME PageInv, IsList(data), isFinished \in BOOLEAN, ~isFinished,
         NEW s, NEW good, NEW before, IsList(before), NextStart(s, good, before),
         \A kind \in {"article", "notfound", "end"} : Places(before, kind) = {},
         UNCHANGED <<holds, bodyRequests, body, bodyDone, foundAnyDefinitions>>
  PROVE  PageInv'
<1> DEFINE found == IF good = <<>> THEN <<>>
                    ELSE <<Compound(good[1], good[2])>>
           tail == <<Token("individual"), Token("end")>>
           more == Cat(before, found)
<1>1. /\ IsList(found)
      /\ \A kind \in {"article", "notfound", "end"} : Places(found, kind) = {}
  BY ShortLists DEF Places, Compound
<1>2. \/ /\ data' = ((data \o before) \o found) \o tail /\ isFinished' = TRUE
      \/ /\ data' = (data \o before) \o found /\ isFinished' = isFinished
  BY DEF NextStart
<1>3. /\ IsList(tail) /\ Len(tail) = 2 /\ Places(tail, "article") = {}
      /\ Places(tail, "notfound") = {} /\ Places(tail, "end") = {2}
  BY TokenPlaces
<1> HIDE DEF found, tail
<1>4. /\ IsList(more)
      /\ \A kind \in {"article", "notfound", "end"} : Places(more, kind) = {}
  <2>1. IsList(more)
    BY <1>1, ConcatLists DEF Cat
  <2>2. \A kind \in {"article", "notfound", "end"} : Places(more, kind) = {}
    BY <1>1, NoneAdded
  <2> QED
    BY <2>1, <2>2
<1>5. (data \o before) \o found = Cat(data, more)
  BY <1>1, ListsAssociate DEF Cat
<1>6. Cat(data, more) \o tail = Cat(data, Cat(more, tail))
  <2> HIDE DEF more
  <2> QED
    BY <1>3, <1>4, ListsAssociate DEF Cat
<1> HIDE DEF more
<1>7. CASE data' = ((data \o before) \o found) \o tail /\ isFinished' = TRUE
  <2> DEFINE t == Cat(more, tail)
  <2>1. data' = Cat(data, t)
    BY <1>5, <1>6, <1>7
  <2>2. /\ IsList(t) /\ Places(t, "article") = {} /\ Places(t, "notfound") = {}
        /\ Places(t, "end") = {Len(t)}
    <3>1. IsList(t)
      BY <1>3, <1>4, ConcatLists DEF Cat
    <3>2. Places(t, "article") = {} /\ Places(t, "notfound") = {}
      BY <1>3, <1>4, NoneAdded
    <3>3. Places(t, "end") = {Len(t)}
      BY <1>3, <1>4, EndAdded
    <3> QED
      BY <3>1, <3>2, <3>3
  <2> HIDE DEF t
  <2> QED
    BY <1>7, <2>1, <2>2, TokensAppended
<1>8. CASE data' = (data \o before) \o found /\ isFinished' = isFinished
  <2>1. data' = Cat(data, more)
    BY <1>5, <1>8
  <2> QED
    BY <1>4, <1>8, <2>1, TokensAppended
<1> QED
  BY <1>2, <1>7, <1>8

-----------------------------------------------------------------------------
(* A finished page is complete. *)

\* The queue of those asked for bodies.
LEMMA QueueMade ==
  ASSUME NEW made \in SUBSET Dicts, NEW instant \in SUBSET made,
         NEW early \in SUBSET instant
  PROVE  LET queue == Ascending(made)
             b == Polled(made, instant, early)
         IN  Elements(queue) = made /\ QueueOk(queue, b)
<1> DEFINE queue == Ascending(made)
           b == Polled(made, instant, early)
<1>1. IsFiniteSet(made) /\ made \subseteq Nat
  <2>1. 1 \in Int /\ NDicts \in Int
    BY ArticleRequestAssumption
  <2>2. IsFiniteSet(Dicts)
    BY <2>1, FS_Interval, Zenon DEF Dicts
  <2>3. Dicts \subseteq Nat
    BY DEF Dicts
  <2> QED
    BY <2>2, <2>3, FS_Subset
<1>2. /\ IsList(queue) /\ DOMAIN queue = 1 .. Cardinality(made)
      /\ \A k \in DOMAIN queue : queue[k] \in made
      /\ \A k, l \in DOMAIN queue : k < l => queue[k] < queue[l]
      /\ \A i \in made : \E k \in DOMAIN queue : queue[k] = i
  BY <1>1, AscendingList, AscendingFacts
<1> HIDE DEF queue
<1>3. Elements(queue) = made
  BY <1>2 DEF Elements
<1>4. QueueOk(queue, b)
  BY <1>2, <1>3 DEF QueueOk, InOrder, Polled
<1> QED
  BY <1>3, <1>4 DEF queue

\* Asking for the bodies fills the queue, from which those there at once are taken.
LEMMA AskForBodiesPage ==
  ASSUME StageInv, PageInv, AskForBodies, ~altsDone, ~isFinished
  PROVE  PageInv'
<1>1. PICK made \in SUBSET Dicts, instant \in SUBSET Dicts, early \in SUBSET Dicts,
             full \in SUBSET Dicts :
        /\ instant \subseteq made /\ early \subseteq instant
        /\ body' = Polled(made, instant, early)
        /\ holds' = [d \in Dicts |-> IF d \in full THEN "article" ELSE "nothing"]
        /\ LookAtOnce(Ascending(made), instant, holds')
  BY DEF AskForBodies
<1> DEFINE queue == Ascending(made)
<1>3. Elements(queue) = made
  BY <1>1, QueueMade
<1>4. QueueOk(queue, body')
  BY <1>1, QueueMade
<1> HIDE DEF queue
<1>5. Places(data, "article") = {} /\ ~foundAnyDefinitions
  BY DEF StageInv, PageInv, ShownOk
<1>6. ShownOk(data, queue, body', holds')
  BY <1>1, <1>3, <1>5 DEF ShownOk, Elements, Polled
<1>7. /\ IsList(data) /\ isFinished \in BOOLEAN /\ foundAnyDefinitions \in BOOLEAN
      /\ ~bodyDone /\ Places(data, "notfound") = {} /\ Places(data, "end") = {}
  BY DEF StageInv, PageInv
<1>8. \A d \in Dicts : d \in instant => body'[d] \in {"finished", "over"}
  BY <1>1 DEF Polled
<1>9. AppendBodies(queue, instant, holds')
  BY <1>1 DEF LookAtOnce, queue
<1>10. holds' \in [Dicts -> {"article", "nothing"}]
  BY <1>1
<1>11. /\ QueueOk(bodyRequests', body')
       /\ ShownOk(data', bodyRequests', body', holds')
       /\ bodyDone' => Elements(bodyRequests') = {}
       /\ foundAnyDefinitions' <=> Places(data', "article") # {}
       /\ Places(data', "notfound") # {} <=> bodyDone' /\ ~foundAnyDefinitions'
       /\ ~isFinished' => Places(data', "end") = {}
       /\ isFinished' => Places(data', "end") = {Len(data')}
  BY <1>4, <1>5, <1>6, <1>7, <1>8, <1>9, AppendBodiesPage
<1> QED
  BY <1>10, <1>11 DEF PageInv, Elements

LEMMA PageStep == StageInv /\ PageInv /\ [Next]_vars => PageInv'
<1> SUFFICES ASSUME StageInv, PageInv, [Next]_vars PROVE PageInv'
  OBVIOUS
<1>0. IsList(data) /\ isFinished \in BOOLEAN
  BY DEF StageInv
<1>1. ASSUME UNCHANGED <<holds, bodyRequests, body, data, bodyDone,
                         foundAnyDefinitions, isFinished, cancelled>>
      PROVE  PageInv'
  BY <1>1 DEF PageInv
<1>2. ASSUME NEW d \in Dicts, AltFinishes(d) PROVE PageInv'
  BY <1>1, <1>2 DEF AltFinishes, pageVars, compoundVars
<1>3. ASSUME NEW d \in Dicts, BodyFinishes(d) PROVE PageInv'
  <2>1. /\ body[d] = "running" /\ body' = [body EXCEPT ![d] = "finished"]
        /\ body \in [Dicts -> RequestStates] /\ holds \in [Dicts -> {"article", "nothing"}]
        /\ UNCHANGED <<bodyRequests, data, bodyDone, foundAnyDefinitions,
                       isFinished, cancelled>>
    BY <1>3 DEF BodyFinishes, pageVars, StageInv, PageInv
  <2>2. PICK content \in {"article", "nothing"} : holds' = [holds EXCEPT ![d] = content]
    BY <1>3 DEF BodyFinishes
  <2>3. d \in Elements(bodyRequests)
    BY <2>1 DEF PageInv, QueueOk
  <2>4. /\ \A e \in Dicts : e # d => body'[e] = body[e] /\ holds'[e] = holds[e]
        /\ body'[d] = "finished" /\ holds' \in [Dicts -> {"article", "nothing"}]
        /\ \A e \in Dicts : body'[e] = "none" <=> body[e] = "none"
        /\ \A e \in Dicts : body[e] \in {"finished", "over"} =>
                              body'[e] \in {"finished", "over"}
    BY <2>1, <2>2
  <2>5. QueueOk(bodyRequests, body')
    BY <2>4 DEF PageInv, QueueOk, InOrder
  <2>6. ShownOk(data, bodyRequests, body', holds')
    BY <2>3, <2>4 DEF PageInv, ShownOk
  <2> QED
    BY <2>1, <2>4, <2>5, <2>6 DEF PageInv
<1>4. CASE Construct
  <2>1. /\ ~altsDone /\ ~isFinished /\ UNCHANGED cancelled
    BY <1>4 DEF Construct, StageInv
  <2>2. CASE AskForBodies
    BY <2>1, <2>2, AskForBodiesPage
  <2>3. CASE UNCHANGED <<body, holds, altsDone, bodyRequests, finder,
                         foundAnyDefinitions, bodyDone, data, isFinished>>
    BY <1>1, <2>1, <2>3
  <2> QED
    BY <1>4, <2>2, <2>3 DEF Construct
<1>5. ASSUME NEW d \in Dicts, AltSearchFinished(d) PROVE PageInv'
  <2>1. ~cancelled /\ UNCHANGED cancelled
    BY <1>5 DEF AltSearchFinished
  <2>2. CASE ~altsDone /\ AskForBodies
    <3>1. ~isFinished
      BY <2>1, <2>2 DEF StageInv
    <3> QED
      BY <2>2, <3>1, AskForBodiesPage
  <2>3. CASE UNCHANGED <<body, holds, altsDone, bodyRequests, finder,
                         foundAnyDefinitions, bodyDone, data, isFinished>>
    BY <1>1, <2>1, <2>3
  <2> QED
    BY <1>5, <2>2, <2>3 DEF AltSearchFinished
<1>6. ASSUME NEW d \in Dicts, BodyFinished(d) PROVE PageInv'
  <2>1. /\ ~cancelled /\ body[d] = "finished" /\ body' = [body EXCEPT ![d] = "over"]
        /\ body \in [Dicts -> RequestStates] /\ UNCHANGED <<holds, cancelled>>
    BY <1>6 DEF BodyFinished, StageInv
  <2>2. /\ \A e \in Dicts : body'[e] = "none" <=> body[e] = "none"
        /\ \A e \in Dicts : body[e] \in {"finished", "over"} =>
                              body'[e] \in {"finished", "over"}
    BY <2>1
  <2>3. QueueOk(bodyRequests, body') /\ ShownOk(data, bodyRequests, body', holds)
    BY <2>2 DEF PageInv, QueueOk, InOrder, ShownOk
  <2>4. CASE ~bodyDone /\ AppendBodies(bodyRequests, Flagged(body), holds)
    <3>1. /\ ~isFinished /\ foundAnyDefinitions \in BOOLEAN
          /\ foundAnyDefinitions <=> Places(data, "article") # {}
          /\ Places(data, "notfound") = {} /\ Places(data, "end") = {}
      BY <2>1, <2>4 DEF StageInv, PageInv
    <3>2. \A e \in Dicts : e \in Flagged(body) => body'[e] \in {"finished", "over"}
      BY <2>2 DEF Flagged
    <3>3. /\ QueueOk(bodyRequests', body')
          /\ ShownOk(data', bodyRequests', body', holds)
          /\ bodyDone' => Elements(bodyRequests') = {}
          /\ foundAnyDefinitions' <=> Places(data', "article") # {}
          /\ Places(data', "notfound") # {} <=> bodyDone' /\ ~foundAnyDefinitions'
          /\ ~isFinished' => Places(data', "end") = {}
          /\ isFinished' => Places(data', "end") = {Len(data')}
      BY <1>0, <2>3, <2>4, <3>1, <3>2, AppendBodiesPage
    <3> QED
      BY <2>1, <3>3 DEF PageInv, Elements
  <2>5. CASE UNCHANGED <<bodyRequests, foundAnyDefinitions, bodyDone, data,
                         isFinished, finder>>
    BY <2>1, <2>3, <2>5 DEF PageInv
  <2> QED
    BY <1>6, <2>4, <2>5 DEF BodyFinished, BodyOver
<1>7. CASE StemmedSearchFinished
  <2>1. /\ finder = "stemmed" /\ ~isFinished
        /\ UNCHANGED <<holds, bodyRequests, body, bodyDone, foundAnyDefinitions, cancelled>>
    BY <1>7 DEF StemmedSearchFinished, requestVars, StageInv
  <2>2. PICK close \in {<<>>, <<Token("close")>>} :
          \/ NextStart(-1, lastGood, close)
          \/ /\ data' = (data \o close) \o <<Token("end")>> /\ isFinished' = TRUE
    BY <1>7 DEF StemmedSearchFinished
  <2>3. /\ IsList(close)
        /\ \A kind \in {"article", "notfound", "end"} : Places(close, kind) = {}
    BY TokenPlaces
  <2>4. CASE NextStart(-1, lastGood, close)
    BY <1>0, <2>1, <2>3, <2>4, NextStartPage
  <2>5. CASE data' = (data \o close) \o <<Token("end")>> /\ isFinished' = TRUE
    <3> DEFINE ended == <<Token("end")>>
               t == Cat(close, ended)
    <3>1. /\ IsList(ended) /\ Len(ended) = 1 /\ Places(ended, "article") = {}
          /\ Places(ended, "notfound") = {} /\ Places(ended, "end") = {1}
      BY TokenPlaces
    <3>2. data' = (data \o close) \o ended
      BY <2>5
    <3> HIDE DEF ended
    <3>3. data' = Cat(data, t)
      <4>1. (data \o close) \o ended = data \o (close \o ended)
        <5>1. IsList(data) /\ IsList(close) /\ IsList(ended)
          BY <1>0, <2>3, <3>1
        <5> QED
          BY <5>1, ListsAssociate
      <4> QED
        BY <3>2, <4>1, Zenon DEF Cat
    <3>4. IsList(t)
      BY <2>3, <3>1, ConcatLists DEF Cat
    <3>5. Places(t, "article") = {} /\ Places(t, "notfound") = {}
      BY <2>3, <3>1, NoneAdded
    <3>6. Places(t, "end") = {Len(t)}
      BY <2>3, <3>1, EndAdded
    <3> HIDE DEF t
    <3> QED
      BY <1>0, <2>1, <2>5, <3>3, <3>4, <3>5, <3>6, TokensAppended
  <2> QED
    BY <2>2, <2>4, <2>5
<1>8. CASE IndividualWordFinished
  <2>1. /\ finder = "compound" /\ ~isFinished
        /\ UNCHANGED <<holds, bodyRequests, body, bodyDone, foundAnyDefinitions, cancelled>>
    BY <1>8 DEF IndividualWordFinished, requestVars, StageInv
  <2>2. PICK result \in {"none", "prefix", "match"} :
          \/ UNCHANGED <<data, isFinished>>
          \/ NextStart(start, IF result = "match" THEN <<start, end>>
                              ELSE lastGood, <<>>)
    BY <1>8 DEF IndividualWordFinished
  <2>3. CASE UNCHANGED <<data, isFinished>>
    BY <1>1, <2>1, <2>3
  <2>4. CASE NextStart(start, IF result = "match" THEN <<start, end>>
                              ELSE lastGood, <<>>)
    BY <1>0, <2>1, <2>4, TokenPlaces, NextStartPage
  <2> QED
    BY <2>2, <2>3, <2>4
<1>9. CASE Cancel
  BY <1>9 DEF Cancel, requestVars, compoundVars, PageInv
<1>10. CASE Terminated \/ UNCHANGED vars
  BY <1>1, <1>10 DEF Terminated, vars, requestVars, pageVars
<1> QED
  BY <1>2, <1>3, <1>4, <1>5, <1>6, <1>7, <1>8, <1>9, <1>10
     DEF Next, Worker, Gui

\* A page before its construction, as it is read.
LEMMA PageInit == Init => StageInv /\ PageInv
<1> SUFFICES ASSUME Init PROVE StageInv /\ PageInv
  OBVIOUS
<1>1. StageInv
  BY ShortLists DEF Init, StageInv, RequestStates
<1>2. IsList(<<>>) /\ Elements(<<>>) = {} /\ DOMAIN <<>> = {}
  BY ShortLists DEF Elements
<1>3. /\ Places(data, "article") = {} /\ Places(data, "notfound") = {}
      /\ Places(data, "end") = {}
  BY TokenPlaces DEF Init
<1>4. QueueOk(bodyRequests, body) /\ ShownOk(data, bodyRequests, body, holds)
  BY <1>2, <1>3 DEF Init, QueueOk, InOrder, ShownOk
<1> QED
  BY <1>1, <1>3, <1>4 DEF Init, PageInv

\* A finished page has every article there is, in the order of the dictionaries,
\* ends once, and says that nothing was found exactly when nothing was: for any
\* number of dictionaries, in whatever order they answer.
THEOREM PageIsComplete == Spec => []PageComplete
<1>1. Init => StageInv /\ PageInv
  BY PageInit
<1>2. StageInv /\ PageInv => PageComplete
  <2> SUFFICES ASSUME StageInv, PageInv PROVE PageComplete
    OBVIOUS
  <2>1. ArticlesInOrder
    BY DEF PageInv, QueueOk, ShownOk, ArticlesInOrder, Flagged
  <2>2. ASSUME isFinished, ~cancelled
        PROVE  /\ {d \in Dicts : body[d] = "over" /\ holds[d] = "article"}
                    \subseteq {data[i].of : i \in Places(data, "article")}
               /\ \A d \in Dicts : body[d] # "running"
               /\ Places(data, "end") = {Len(data)}
               /\ Places(data, "notfound") = {} <=> Places(data, "article") # {}
    <3>1. bodyDone /\ Elements(bodyRequests) = {}
      BY <2>2 DEF StageInv, PageInv
    <3>2. \A d \in Dicts : body[d] # "none" => body[d] \in {"finished", "over"}
      BY <3>1 DEF PageInv, QueueOk
    <3>3. \A d \in Dicts : body[d] = "over" /\ holds[d] = "article" =>
            \E i \in Places(data, "article") : data[i].of = d
      BY <3>1 DEF PageInv, ShownOk
    <3>4. /\ Places(data, "end") = {Len(data)}
          /\ Places(data, "notfound") = {} <=> Places(data, "article") # {}
      BY <2>2, <3>1 DEF PageInv
    <3> QED
      BY <3>2, <3>3, <3>4
  <2> QED
    BY <2>1, <2>2 DEF PageComplete
<1>3. StageInv /\ [Next]_vars => StageInv'
  BY StageStep
<1> QED
  BY <1>1, <1>2, <1>3, PageStep, PTL DEF Spec

-----------------------------------------------------------------------------
(* What the page, the walk and the queue are made of. *)

\* Every token of a list is one of the page's.
Typed(list) == \A i \in DOMAIN list : list[i] \in TokenTypes

\* The phrases of words of the phrase looked up.
Phrases == {c \in Compounds : c[2] < nWords} \cup {<<>>}

TypesInv ==
  /\ cancelled \in BOOLEAN /\ finder \in {"none", "stemmed", "compound"}
  /\ Typed(data)
  /\ start \in {-1} \cup 0 .. nWords - 2 /\ end \in {-1} \cup 1 .. nWords - 1
  /\ lastGood \in Phrases

\* Typed lists joined.
LEMMA TypedConcat ==
  ASSUME NEW s, IsList(s), NEW t, IsList(t), Typed(s), Typed(t)
  PROVE  Typed(s \o t)
<1>1. /\ IsList(s \o t) /\ Len(s \o t) = Len(s) + Len(t)
      /\ \A i \in 1 .. Len(s) : (s \o t)[i] = s[i]
      /\ \A i \in 1 .. Len(t) : (s \o t)[Len(s) + i] = t[i]
  BY ConcatLists
<1>2. /\ Len(s) \in Nat /\ DOMAIN s = 1 .. Len(s)
      /\ Len(t) \in Nat /\ DOMAIN t = 1 .. Len(t)
      /\ DOMAIN (s \o t) = 1 .. Len(s) + Len(t)
  BY <1>1, ListFacts
<1>3. ASSUME NEW i \in 1 .. Len(s) + Len(t) PROVE (s \o t)[i] \in TokenTypes
  <2>1. CASE i \in 1 .. Len(s)
    BY <1>1, <1>2, <2>1 DEF Typed
  <2>2. CASE i - Len(s) \in 1 .. Len(t) /\ i = Len(s) + (i - Len(s))
    BY <1>1, <1>2, <2>2 DEF Typed
  <2> QED
    BY <1>2, <2>1, <2>2
<1> QED
  BY <1>2, <1>3 DEF Typed

\* The tokens written one by one.
LEMMA TokensTyped ==
  /\ IsList(<<>>) /\ Typed(<<>>)
  /\ \A kind \in {"header", "end", "notfound", "close", "individual"} :
       IsList(<<Token(kind)>>) /\ Typed(<<Token(kind)>>)
  /\ IsList(<<Token("individual"), Token("end")>>)
  /\ Typed(<<Token("individual"), Token("end")>>)
<1>1. \A kind \in {"header", "end", "notfound", "close", "individual"} :
        Token(kind) \in TokenTypes
  BY DEF Token, TokenTypes
<1>2. Typed(<<>>)
  BY DEF Typed
<1>3. \A m \in TokenTypes : Typed(<<m>>)
  BY DEF Typed
<1>4. \A m, n \in TokenTypes : Typed(<<m, n>>)
  BY DEF Typed
<1> QED
  BY <1>1, <1>2, <1>3, <1>4, ShortLists

\* A phrase found is one the page may have.
LEMMA PhraseTyped ==
  ASSUME NEW good \in Phrases, good # <<>>, nWords \in Nat
  PROVE  IsList(<<Compound(good[1], good[2])>>) /\ Typed(<<Compound(good[1], good[2])>>)
<1>1. /\ good[1] \in 0 .. MaxWords - 1 /\ good[2] \in 0 .. MaxWords - 1
      /\ good[1] < good[2] /\ good[2] < nWords
  BY DEF Phrases, Compounds
<1>2. good[1] \in 0 .. nWords - 2 /\ good[2] \in 1 .. nWords - 1
  BY <1>1, ArticleRequestAssumption
<1>3. Compound(good[1], good[2]) \in TokenTypes
  BY <1>2 DEF Compound, TokenTypes
<1> QED
  BY <1>3, ShortLists DEF Typed

\* The articles of the queue are the page's.
LEMMA ArticlesTyped ==
  ASSUME NEW queue, IsList(queue), InOrder(queue), NEW n \in 0 .. Len(queue), NEW content
  PROVE  LET new == NewArticles(queue, n, content) IN IsList(new) /\ Typed(new)
<1> DEFINE S == {i \in 1 .. n : content[queue[i]] = "article"}
           shown == Ascending(S)
           new == NewArticles(queue, n, content)
<1>1. n \in Nat /\ Len(queue) \in Nat /\ DOMAIN queue = 1 .. Len(queue)
  BY ListFacts
<1>2. IsFiniteSet(S) /\ S \subseteq Nat
  <2>1. IsFiniteSet(1 .. n) /\ S \subseteq 1 .. n
    BY <1>1, FS_Interval
  <2>2. IsFiniteSet(S)
    BY <2>1, FS_Subset
  <2>3. 1 .. n \subseteq Nat
    BY <1>1
  <2> HIDE DEF S
  <2> QED
    BY <2>1, <2>2, <2>3
<1>3. new = [k \in DOMAIN shown |-> Article(Label(queue, shown[k]), queue[shown[k]])]
  BY DEF NewArticles
<1>4. S \subseteq DOMAIN queue
  BY <1>1
<1> HIDE DEF S
<1>5. DOMAIN shown = 1 .. Cardinality(S) /\ \A k \in DOMAIN shown : shown[k] \in DOMAIN queue
  BY <1>2, <1>4, AscendingFacts
<1> HIDE DEF shown
<1>6. IsList(new)
  BY <1>1, NewArticlesList
<1>7. ASSUME NEW k \in DOMAIN shown PROVE new[k] \in TokenTypes
  <2> DEFINE i == shown[k]
  <2>1. i \in DOMAIN queue
    BY <1>5
  <2> HIDE DEF i
  <2>2. Label(queue, i) \in Dicts /\ queue[i] \in Dicts
    BY <2>1, LabelIsOf DEF InOrder
  <2>3. Article(Label(queue, i), queue[i]) \in TokenTypes
    BY <2>2 DEF Article, TokenTypes
  <2> QED
    BY <1>3, <2>3 DEF i
<1> QED
  BY <1>3, <1>6, <1>7 DEF Typed

\* Appending bodies keeps the types.
LEMMA AppendBodiesTyped ==
  ASSUME IsList(data), Typed(data), NEW queue, NEW b, QueueOk(queue, b), NEW done, NEW content,
         AppendBodies(queue, done, content), finder \in {"none", "stemmed", "compound"}
  PROVE  /\ \A i \in DOMAIN data' : data'[i] \in TokenTypes
         /\ finder' \in {"none", "stemmed", "compound"}
<1> DEFINE n == FrontFinished(queue, done)
           new == NewArticles(queue, n, content)
           found == FoundAny(new)
           last == n = Len(queue)
           tail == CASE ~last -> <<>>
                     [] last /\ found -> <<Token("end")>>
                     [] last /\ ~found -> <<Token("notfound")>>
<1>1. IsList(queue) /\ InOrder(queue) /\ n \in 0 .. Len(queue)
  BY FrontFinishedFacts DEF QueueOk
<1>2. data' = (data \o new) \o tail /\ finder' \in {finder, "stemmed"}
  BY DEF AppendBodies
<1> HIDE DEF n
<1>3. IsList(new) /\ Typed(new)
  BY <1>1, ArticlesTyped
<1> HIDE DEF new, found, last
<1>4. IsList(tail) /\ Typed(tail)
  BY TokensTyped
<1> HIDE DEF tail
<1>5. IsList(data \o new) /\ Typed(data \o new)
  BY <1>3, ConcatLists, TypedConcat
<1>6. Typed((data \o new) \o tail)
  BY <1>4, <1>5, TypedConcat
<1> QED
  BY <1>2, <1>6 DEF Typed

\* Going on from the next word keeps the types.
LEMMA NextStartTyped ==
  ASSUME TypesInv, IsList(data), nWords \in Nat, UNCHANGED <<nWords, cancelled>>,
         NEW s \in -1 .. nWords - 2, NEW good \in Phrases,
         NEW before, IsList(before), Typed(before), NextStart(s, good, before)
  PROVE  TypesInv'
<1> DEFINE found == IF good = <<>> THEN <<>> ELSE <<Compound(good[1], good[2])>>
           over == <<Token("individual"), Token("end")>>
<1>1. IsList(found) /\ Typed(found) /\ IsList(over) /\ Typed(over)
  BY PhraseTyped, TokensTyped
<1>2. \/ /\ data' = ((data \o before) \o found) \o over /\ finder' = "none"
         /\ UNCHANGED <<start, end>>
      \/ /\ ~LastStart(s) /\ data' = (data \o before) \o found
         /\ start' = s + 1 /\ end' = s + 2 /\ finder' = "compound"
  BY DEF NextStart, LookUp
<1>3. lastGood' = <<>>
  BY DEF NextStart
<1> HIDE DEF found, over
<1>4. IsList(data \o before) /\ Typed(data \o before)
  BY ConcatLists, TypedConcat DEF TypesInv
<1>5. IsList((data \o before) \o found) /\ Typed((data \o before) \o found)
  BY <1>1, <1>4, ConcatLists, TypedConcat
<1>6. Typed(((data \o before) \o found) \o over)
  BY <1>1, <1>5, TypedConcat
<1>7. Typed(data')
  BY <1>2, <1>5, <1>6
<1>8. Typed(data)'
  BY <1>7 DEF Typed, TokenTypes
<1>9. /\ start' \in {-1} \cup 0 .. nWords - 2 /\ end' \in {-1} \cup 1 .. nWords - 1
      /\ finder' \in {"none", "compound"}
  <2>1. CASE UNCHANGED <<start, end>> /\ finder' = "none"
    BY <2>1 DEF TypesInv
  <2>2. CASE ~LastStart(s) /\ start' = s + 1 /\ end' = s + 2 /\ finder' = "compound"
    <3>1. s + 1 \in 0 .. nWords - 2 /\ s + 2 \in 1 .. nWords - 1
      BY <2>2 DEF LastStart
    <3> QED
      BY <2>2, <3>1
  <2> QED
    BY <1>2, <2>1, <2>2
<1> QED
  BY <1>3, <1>8, <1>9 DEF TypesInv, Phrases

LEMMA TypesStep ==
  StageInv /\ WalkInv /\ PageInv /\ TypesInv /\ [Next]_vars => TypesInv'
<1> SUFFICES ASSUME StageInv, WalkInv, PageInv, TypesInv, [Next]_vars PROVE TypesInv'
  OBVIOUS
<1>0. IsList(data) /\ nWords \in Nat /\ MaxWords \in Nat /\ nWords <= MaxWords
  BY ArticleRequestAssumption DEF StageInv, WalkInv
<1>1. ASSUME UNCHANGED <<nWords, start, end, lastGood, data, finder>>, cancelled' \in BOOLEAN
      PROVE  TypesInv'
  BY <1>1 DEF TypesInv, Typed, TokenTypes, Phrases
<1>2. ASSUME \A i \in DOMAIN data' : data'[i] \in TokenTypes,
             finder' \in {"none", "stemmed", "compound"},
             UNCHANGED <<nWords, start, end, lastGood, cancelled>>
      PROVE  TypesInv'
  BY <1>2 DEF TypesInv, Typed, TokenTypes, Phrases
<1>3. ASSUME NEW d \in Dicts, AltFinishes(d) \/ BodyFinishes(d) PROVE TypesInv'
  BY <1>1, <1>3 DEF AltFinishes, BodyFinishes, pageVars, compoundVars, TypesInv
<1>4. ASSUME AskForBodies, UNCHANGED <<nWords, start, end, lastGood, cancelled>>
      PROVE  TypesInv'
  <2>1. PICK made \in SUBSET Dicts, instant \in SUBSET Dicts, early \in SUBSET Dicts :
          /\ instant \subseteq made /\ early \subseteq instant
          /\ AppendBodies(Ascending(made), instant, holds')
          /\ body' = Polled(made, instant, early)
    BY <1>4 DEF AskForBodies, LookAtOnce
  <2> DEFINE queue == Ascending(made)
             b == Polled(made, instant, early)
  <2>2. QueueOk(queue, b)
    BY <2>1, QueueMade
  <2> HIDE DEF queue, b
  <2>3. AppendBodies(queue, instant, holds')
    BY <2>1 DEF queue
  <2> QED
    BY <1>0, <1>2, <1>4, <2>2, <2>3, AppendBodiesTyped DEF TypesInv
<1>5. CASE Construct
  <2>1. CASE AskForBodies
    BY <1>4, <1>5, <2>1 DEF Construct
  <2>2. CASE UNCHANGED <<data, finder>>
    BY <1>1, <1>5, <2>2 DEF Construct, TypesInv
  <2> QED
    BY <1>5, <2>1, <2>2 DEF Construct
<1>6. ASSUME NEW d \in Dicts, AltSearchFinished(d) PROVE TypesInv'
  <2>1. CASE AskForBodies
    BY <1>4, <1>6, <2>1 DEF AltSearchFinished
  <2>2. CASE UNCHANGED <<data, finder>>
    BY <1>1, <1>6, <2>2 DEF AltSearchFinished, TypesInv
  <2> QED
    BY <1>6, <2>1, <2>2 DEF AltSearchFinished
<1>7. ASSUME NEW d \in Dicts, BodyFinished(d) PROVE TypesInv'
  <2>1. CASE AppendBodies(bodyRequests, Flagged(body), holds)
    <3>1. QueueOk(bodyRequests, body)
      BY DEF PageInv
    <3>2. /\ \A i \in DOMAIN data' : data'[i] \in TokenTypes
          /\ finder' \in {"none", "stemmed", "compound"}
      BY <1>0, <2>1, <3>1, AppendBodiesTyped DEF TypesInv
    <3> QED
      BY <1>2, <1>7, <3>2 DEF BodyFinished
  <2>2. CASE UNCHANGED <<data, finder>>
    BY <1>1, <1>7, <2>2 DEF BodyFinished, TypesInv
  <2> QED
    BY <1>7, <2>1, <2>2 DEF BodyFinished
<1>8. CASE StemmedSearchFinished
  <2>1. UNCHANGED <<nWords, cancelled>>
    BY <1>8 DEF StemmedSearchFinished
  <2>2. PICK close \in {<<>>, <<Token("close")>>} :
          \/ nWords > 1 /\ NextStart(-1, lastGood, close)
          \/ /\ data' = (data \o close) \o <<Token("end")>> /\ finder' = "none"
             /\ UNCHANGED <<start, end, lastGood>>
    BY <1>8 DEF StemmedSearchFinished
  <2>3. IsList(close) /\ Typed(close)
    BY TokensTyped
  <2>4. CASE nWords > 1 /\ NextStart(-1, lastGood, close)
    <3>1. -1 \in -1 .. nWords - 2 /\ lastGood \in Phrases
      BY <1>0, <2>4 DEF TypesInv
    <3> QED
      BY <1>0, <2>1, <2>3, <2>4, <3>1, NextStartTyped
  <2>5. CASE /\ data' = (data \o close) \o <<Token("end")>> /\ finder' = "none"
             /\ UNCHANGED <<start, end, lastGood>>
    <3>1. IsList(<<Token("end")>>) /\ Typed(<<Token("end")>>)
      BY TokensTyped
    <3>2. IsList(data \o close) /\ Typed(data \o close)
      BY <1>0, <2>3, ConcatLists, TypedConcat DEF TypesInv
    <3>3. Typed((data \o close) \o <<Token("end")>>)
      BY <3>1, <3>2, TypedConcat
    <3>4. \A i \in DOMAIN data' : data'[i] \in TokenTypes
      BY <2>5, <3>3 DEF Typed
    <3> QED
      BY <1>2, <2>1, <2>5, <3>4
  <2> QED
    BY <2>2, <2>4, <2>5
<1>9. CASE IndividualWordFinished
  <2>1. UNCHANGED <<nWords, cancelled>>
    BY <1>9 DEF IndividualWordFinished
  <2>2. start \in 0 .. nWords - 2 /\ end \in start + 1 .. nWords - 1
    BY <1>9 DEF IndividualWordFinished, WalkInv
  <2>3. PICK good \in {<<start, end>>, lastGood} :
          \/ /\ end < nWords - 1 /\ lastGood' = good /\ start' = start /\ end' = end + 1
             /\ finder' = "compound" /\ UNCHANGED data
          \/ NextStart(start, good, <<>>)
    BY <1>9 DEF IndividualWordFinished, LookUp
  <2>4. good \in Phrases
    <3>1. <<start, end>> \in Compounds /\ end < nWords
      BY <1>0, <2>2 DEF Compounds
    <3> QED
      BY <3>1 DEF Phrases, TypesInv
  <2>5. CASE /\ end < nWords - 1 /\ lastGood' = good /\ start' = start /\ end' = end + 1
             /\ finder' = "compound" /\ UNCHANGED data
    <3>1. end + 1 \in 1 .. nWords - 1
      BY <1>0, <2>2, <2>5
    <3>2. lastGood' \in Phrases' /\ Typed(data)'
      BY <2>1, <2>4, <2>5 DEF Phrases, Typed, TokenTypes, TypesInv
    <3> QED
      BY <2>1, <2>2, <2>5, <3>1, <3>2 DEF TypesInv
  <2>6. CASE NextStart(start, good, <<>>)
    <3>1. start \in -1 .. nWords - 2
      BY <1>0, <2>2
    <3> QED
      BY <1>0, <2>1, <2>4, <2>6, <3>1, TokensTyped, NextStartTyped
  <2> QED
    BY <2>3, <2>5, <2>6
<1>10. CASE Cancel
  BY <1>1, <1>10 DEF Cancel, compoundVars
<1>11. CASE Terminated \/ UNCHANGED vars
  BY <1>1, <1>11 DEF Terminated, vars, pageVars, compoundVars, TypesInv
<1> QED
  BY <1>3, <1>5, <1>6, <1>7, <1>8, <1>9, <1>10, <1>11 DEF Next, Worker, Gui

\* Every variable has its type, for any number of dictionaries and phrases of any
\* length: what is looked up, offered and named is of the phrase and the group.
THEOREM PageTyped == Spec => []TypeOK
<1>1. Init => StageInv /\ WalkInv /\ PageInv /\ TypesInv
  <2> SUFFICES ASSUME Init PROVE StageInv /\ WalkInv /\ PageInv /\ TypesInv
    OBVIOUS
  <2>1. StageInv /\ WalkInv /\ PageInv
    BY WalkInit, PageInit
  <2>2. Typed(data)
    BY TokensTyped DEF Init
  <2> QED
    BY <2>1, <2>2 DEF Init, TypesInv, Phrases
<1>2. StageInv /\ WalkInv /\ PageInv /\ TypesInv /\ [Next]_vars
        => StageInv' /\ WalkInv' /\ PageInv' /\ TypesInv'
  BY StageStep, WalkStep, PageStep, TypesStep
<1>3. StageInv /\ WalkInv /\ PageInv /\ TypesInv => TypeOK
  <2> SUFFICES ASSUME StageInv, WalkInv, PageInv, TypesInv PROVE TypeOK
    OBVIOUS
  <2>1. data \in Seq(TokenTypes)
    <3>1. data \in Seq(Elements(data)) /\ Elements(data) \subseteq TokenTypes
      BY DEF StageInv, IsList, TypesInv, Typed, Elements
    <3> QED
      BY <3>1, SeqMonotonic
  <2>2. bodyRequests \in Seq(Dicts)
    <3>1. bodyRequests \in Seq(Elements(bodyRequests)) /\ Elements(bodyRequests) \subseteq Dicts
      BY DEF PageInv, QueueOk, InOrder, IsList, Elements
    <3> QED
      BY <3>1, SeqMonotonic
  <2>3. lastGood \in {c \in Compounds : c[2] < nWords} \cup {<<>>}
    BY DEF TypesInv, Phrases
  <2> QED
    BY <2>1, <2>2, <2>3 DEF StageInv, WalkInv, PageInv, TypesInv, TypeOK
<1> QED
  BY <1>1, <1>2, <1>3, PTL DEF Spec
=============================================================================
