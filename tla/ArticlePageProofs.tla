-------------------------- MODULE ArticlePageProofs --------------------------
(***************************************************************************)
(* Proofs about ArticlePage, for any number of words, dictionaries, pages   *)
(* asked for and gestures.  One inductive invariant, of five parts, ties    *)
(* requests, view and page together by what is on its way between them.     *)
(***************************************************************************)
EXTENDS ArticlePage, SequenceTheorems, FiniteSetTheorems, WellFoundedInduction, TLAPS

-----------------------------------------------------------------------------
(* The inductive invariant. *)

Ids == Dicts \cup {NoDict}
RequestTypes == [query : Queries, scrollTo : Ids \cup {NoScroll},
                 state : {"asked", "running", "done", "gone"},
                 sent : Nat, closed : SUBSET Dicts]
ScriptTypes == [kind : {"active", "check"}, dict : Ids]
CallTypes == [kind : {"active", "collapse", "expand"}, dict : Dicts, page : Nat]
DocTypes == [n : Nat, articles : Nat, active : Ids, collapsed : SUBSET Dicts,
             loaded : BOOLEAN]

\* Every variable has its type.
TypeInv ==
  /\ currentWord \in Words \cup {NoWord} /\ currentGroupId \in Groups
  /\ activeDictId \in Ids /\ disowned \in BOOLEAN
  /\ currentActiveDictIds \in Seq(Dicts) /\ historyMode \in BOOLEAN
  /\ requests \in Seq(RequestTypes) /\ doc \in DocTypes
  /\ toPage \in Seq(ScriptTypes) /\ toView \in Seq(CallTypes)
  /\ collapsedDicts \in SUBSET Dicts
  /\ stray \in BOOLEAN /\ astray \in BOOLEAN /\ late \in SUBSET Dicts

\* The first n articles on a word; those a request has written, and those the page
\* shows.
FirstOn(w, n) == {Articles[w][i] : i \in 1 .. n}
Written(n) == FirstOn(requests[n].query, requests[n].sent)
InDoc == FirstOn(Request.query, doc.articles)

\* A request writes no more articles than there are, none before it starts, and
\* none starts before those asked for earlier; the page shows no more than its
\* request has written, and all of it once it is loaded.
RequestInv ==
  /\ \A n \in 1 .. Latest : requests[n].sent <= Len(Articles[requests[n].query])
  /\ \A m, n \in 1 .. Latest : m <= n /\ requests[m].state = "asked" =>
       requests[n].state \in {"asked", "gone"} /\ requests[n].sent = 0
  /\ doc.n <= Latest
  /\ doc.n = 0 => doc.articles = 0
  /\ doc.n > 0 => doc.articles <= Request.sent
  /\ doc.n > 0 /\ doc.loaded => Request.state = "done" /\ doc.articles = Request.sent

\* The last script or call about an active article is the one on d.
LastActiveIs(ch, d) ==
  \E i \in DOMAIN ch : /\ ch[i].kind = "active" /\ ch[i].dict = d
                       /\ \A j \in DOMAIN ch : ch[j].kind = "active" => j <= i

OfThisPage(ch) == \A i \in DOMAIN ch : ch[i].kind = "active" => ch[i].page = doc.n

\* What is on its way decides which article will be active on both sides: unless
\* astray, calls and scripts are not both on their way, and the last of them names
\* the article that is active where it was sent.
AgreeInv ==
  /\ doc.active \in InDoc \cup {NoDict}
  /\ \A i \in DOMAIN toView : toView[i].page <= doc.n
  /\ ~astray =>
       /\ HasActive(toView) /\ HasActive(toPage) => ~OfThisPage(toView)
       /\ HasActive(toView) /\ OfThisPage(toView) => LastActiveIs(toView, doc.active)
       /\ doc.loaded /\ doc.n = Latest /\ ~HasActive(toView) /\ activeDictId # NoDict =>
            IF HasActive(toPage) THEN LastActiveIs(toPage, activeDictId)
            ELSE doc.active = activeDictId

\* Out of history the view, if it keeps them, has word and group of its page; the list
\* has what its request has written.
ListInv ==
  Latest > 0 =>
    /\ historyMode => ~disowned
    /\ ~historyMode /\ ~disowned => Current = requests[Latest].query
    /\ ~stray /\ ~disowned => currentActiveDictIds =
                   SubSeq(Articles[requests[Latest].query], 1, requests[Latest].sent)

\* The last call about the collapsing of d is of that kind.
LastCollapseIs(ch, d, kind) ==
  \E i \in DOMAIN ch :
    /\ ch[i].kind = kind /\ ch[i].dict = d
    /\ \A j \in DOMAIN ch : ch[j].kind \in {"collapse", "expand"} /\ ch[j].dict = d => j <= i

\* Whether the article of d is collapsed, on the page or as it was written for it.
IsCollapsed(d) ==
  IF doc.n = Latest /\ d \in InDoc THEN d \in doc.collapsed
  ELSE d \in requests[Latest].closed

\* The last call about an article says how it is; where none is on its way the
\* session knows.  None is on its way about an article not yet shown.
AsTold(d) ==
  IF HasCollapse(toView, d)
  THEN /\ doc.n = Latest /\ d \in InDoc
       /\ LastCollapseIs(toView, d, IF d \in doc.collapsed THEN "collapse" ELSE "expand")
  ELSE /\ d \in collapsedDicts => IsCollapsed(d)
       /\ IsCollapsed(d) => d \in collapsedDicts \cup Large

CollapseInv ==
  /\ doc.collapsed \subseteq InDoc
  /\ Latest > 0 =>
       /\ requests[Latest].closed \subseteq Written(Latest)
       /\ \A d \in Written(Latest) \ late : AsTold(d)

-----------------------------------------------------------------------------
(* The list of dictionaries found. *)

\* A set of natural numbers has a smallest one.
LEMMA SmallestOf ==
  ASSUME NEW T, T \subseteq Nat, T # {}
  PROVE  \E x \in T : \A y \in T : x <= y
<1> DEFINE Upto == {1 .. x : x \in T}
           R == StrictSubsetOrdering(Nat)
<1>1. Upto \subseteq FiniteSubsetsOf(Nat) /\ Upto # {}
  <2>1. \A x \in T : 1 .. x \subseteq Nat /\ IsFiniteSet(1 .. x)
    BY FS_Interval
  <2> QED
    BY <2>1 DEF FiniteSubsetsOf
<1>2. PICK B \in Upto : \A C \in Upto : ~(<<C, B>> \in R)
  <2> HIDE DEF Upto
  <2> QED
    BY <1>1, WFMin, FS_StrictSubsetOrderingWellFounded, Zenon
<1>3. PICK x \in T : B = 1 .. x
  OBVIOUS
<1>4. ASSUME NEW y \in T, y < x PROVE FALSE
  <2>1. 1 .. y \subseteq 1 .. x /\ x \in 1 .. x /\ x \notin 1 .. y
    BY <1>4
  <2>2. <<1 .. y, B>> \in R
    BY <1>3, <2>1 DEF StrictSubsetOrdering
  <2> QED
    BY <1>2, <2>2
<1> QED
  BY <1>4

\* One turn of the loop of setActiveDictIds(), and the lists of its turns.
Turn(list, d) == IF Contains(list, d) THEN list ELSE Append(list, d)
Turns(f, list, ds, m) ==
  /\ f[0] = list /\ \A i \in 1 .. m : f[i] = Turn(f[i - 1], ds[i])

\* What a turn leaves has the type of what it found.
LEMMA TurnType ==
  ASSUME NEW list \in Seq(Dicts), NEW d \in Dicts
  PROVE  Turn(list, d) \in Seq(Dicts)
BY DEF Turn

\* The loop of AddNew has a value at each of its turns, and one only.
LEMMA TurnsExist ==
  ASSUME NEW list \in Seq(Dicts), NEW ds \in Seq(Dicts), NEW m \in 0 .. Len(ds)
  PROVE  \E f \in [0 .. m -> Seq(Dicts)] : Turns(f, list, ds, m)
<1> DEFINE N == Len(ds)
           P(n) == \E f \in [0 .. n -> Seq(Dicts)] : Turns(f, list, ds, n)
           Missing == {n \in 0 .. N : ~P(n)}
<1>1. N \in Nat /\ \A i \in 1 .. N : ds[i] \in Dicts
  OBVIOUS
<1>2. P(0)
  <2>1. [i \in 0 .. 0 |-> list] \in [0 .. 0 -> Seq(Dicts)]
    OBVIOUS
  <2>2. Turns([i \in 0 .. 0 |-> list], list, ds, 0)
    <3>1. 0 \in 0 .. 0 /\ 1 .. 0 = {}
      OBVIOUS
    <3>2. [i \in 0 .. 0 |-> list][0] = list
      BY <3>1
    <3> QED
      BY <3>1, <3>2, Zenon DEF Turns
  <2> QED
    BY <2>1, <2>2
<1>3. ASSUME NEW n \in 1 .. N, P(n - 1) PROVE P(n)
  <2>1. PICK f \in [0 .. n - 1 -> Seq(Dicts)] : Turns(f, list, ds, n - 1)
    BY <1>3
  <2> DEFINE g == [i \in 0 .. n |-> IF i = n THEN Turn(f[n - 1], ds[n]) ELSE f[i]]
  <2>2. n \in Nat /\ n >= 1 /\ n <= N
    BY <1>1
  <2>3. g \in [0 .. n -> Seq(Dicts)]
    <3>1. Turn(f[n - 1], ds[n]) \in Seq(Dicts)
      <4>1. f[n - 1] \in Seq(Dicts) /\ ds[n] \in Dicts
        BY <1>1, <2>2
      <4> QED
        BY <4>1, TurnType
    <3>2. \A i \in 0 .. n : i # n => i \in 0 .. n - 1
      BY <2>2
    <3> QED
      BY <3>1, <3>2
  <2>4. g[0] = list
    BY <2>1, <2>2 DEF Turns
  <2>5. ASSUME NEW i \in 1 .. n PROVE g[i] = Turn(g[i - 1], ds[i])
    <3>1. i - 1 \in 0 .. n /\ i - 1 # n /\ i \in 0 .. n
      BY <2>2
    <3>2. g[i - 1] = f[i - 1]
      BY <3>1
    <3>3. CASE i = n
      BY <3>1, <3>2, <3>3
    <3>4. CASE i # n
      <4>1. i \in 1 .. n - 1
        BY <2>2, <3>4
      <4>2. f[i] = Turn(f[i - 1], ds[i])
        BY <2>1, <4>1 DEF Turns
      <4> QED
        BY <3>1, <3>2, <3>4, <4>2
    <3> QED
      BY <3>3, <3>4
  <2> HIDE DEF g
  <2>6. Turns(g, list, ds, n)
    BY <2>4, <2>5 DEF Turns
  <2> QED
    BY <2>3, <2>6
<1> HIDE DEF P
<1>4. CASE Missing = {}
  BY <1>4 DEF P
<1>5. CASE Missing # {}
  <2>1. Missing \subseteq Nat
    BY <1>1
  <2>2. PICK n \in Missing : \A y \in Missing : n <= y
    <3> HIDE DEF Missing
    <3> QED
      BY <1>5, <2>1, SmallestOf
  <2>3. n # 0 /\ n \in 0 .. N /\ ~P(n)
    BY <1>2
  <2>4. n \in 1 .. N /\ n - 1 \in 0 .. N /\ ~(n <= n - 1)
    BY <1>1, <2>3
  <2>5. P(n - 1)
    BY <2>2, <2>4
  <2> QED
    BY <1>3, <2>3, <2>4, <2>5
<1> QED
  BY <1>4, <1>5

\* The loop gives the last of them, whatever lists they are.
LEMMA AddNewIs ==
  ASSUME NEW list \in Seq(Dicts), NEW ds \in Seq(Dicts),
         NEW f, DOMAIN f = 0 .. Len(ds), Turns(f, list, ds, Len(ds))
  PROVE  AddNew(list, ds) = f[Len(ds)]
<1> DEFINE N == Len(ds)
           Step(g) == [i \in 0 .. N |-> IF i = 0 THEN list
                                         ELSE IF Contains(g[i - 1], ds[i]) THEN g[i - 1]
                                         ELSE Append(g[i - 1], ds[i])]
           a == CHOOSE g : g = Step(g)
<1>0. N \in Nat
  OBVIOUS
<1>1. AddNew(list, ds) = a[N]
  BY Zenon DEF AddNew
<1>2. PICK h \in [0 .. N -> Seq(Dicts)] : Turns(h, list, ds, N)
  <2>1. N \in 0 .. Len(ds)
    BY <1>0
  <2> QED
    BY <2>1, TurnsExist
<1> HIDE DEF N
<1>3. h = Step(h)
  <2>1. DOMAIN h = 0 .. N /\ h = [i \in 0 .. N |-> h[i]]
    BY <1>2
  <2>2. \A i \in 0 .. N : h[i] = IF i = 0 THEN list
                                 ELSE IF Contains(h[i - 1], ds[i]) THEN h[i - 1]
                                 ELSE Append(h[i - 1], ds[i])
    <3>1. \A i \in 0 .. N : i = 0 \/ i \in 1 .. N
      BY <1>0
    <3>2. \A i \in 1 .. N : i # 0
      BY <1>0
    <3> QED
      BY <1>2, <3>1, <3>2 DEF Turns, Turn
  <2> QED
    BY <2>1, <2>2
<1>4. a = Step(a)
  BY <1>3, Zenon
<1>5. \A i \in 0 .. N : a[i] = IF i = 0 THEN list
                               ELSE IF Contains(a[i - 1], ds[i]) THEN a[i - 1]
                               ELSE Append(a[i - 1], ds[i])
  <2> HIDE DEF a
  <2> QED
    BY <1>4, Zenon
<1> HIDE DEF a
<1>6. a[0] = list /\ \A i \in 1 .. N : a[i] = Turn(a[i - 1], ds[i])
  BY <1>0, <1>5 DEF Turn
<1> DEFINE Off == {i \in 0 .. N : a[i] # f[i]}
<1>7. CASE Off = {}
  BY <1>0, <1>1, <1>7 DEF N
<1>8. CASE Off # {}
  <2>1. Off \subseteq Nat
    BY <1>0
  <2>2. PICK n \in Off : \A y \in Off : n <= y
    <3> HIDE DEF Off
    <3> QED
      BY <1>8, <2>1, SmallestOf
  <2>3. n # 0 /\ n \in 0 .. N /\ a[n] # f[n]
    BY <1>6 DEF Turns
  <2>4. n \in 1 .. N /\ n - 1 \in 0 .. N /\ ~(n <= n - 1)
    BY <1>0, <2>3
  <2>5. a[n - 1] = f[n - 1]
    BY <2>2, <2>4
  <2>6. a[n] = Turn(a[n - 1], ds[n]) /\ f[n] = Turn(f[n - 1], ds[n])
    BY <1>6, <2>4 DEF Turns, N
  <2> QED
    BY <2>3, <2>5, <2>6
<1> QED
  BY <1>7, <1>8

\* AddNew makes a list of dictionaries.
LEMMA AddNewType ==
  ASSUME NEW list \in Seq(Dicts), NEW ds \in Seq(Dicts)
  PROVE  AddNew(list, ds) \in Seq(Dicts)
<1>1. Len(ds) \in 0 .. Len(ds)
  OBVIOUS
<1>2. PICK f \in [0 .. Len(ds) -> Seq(Dicts)] : Turns(f, list, ds, Len(ds))
  BY <1>1, TurnsExist
<1> QED
  BY <1>1, <1>2, AddNewIs

\* What is written after m articles is added whole to a list of those m.
LEMMA AddNewWhole ==
  ASSUME NEW s \in Seq(Dicts), IsInjective(s), NEW m \in Nat, NEW k \in Nat,
         m + k <= Len(s)
  PROVE  AddNew(SubSeq(s, 1, m), SubSeq(s, m + 1, m + k)) = SubSeq(s, 1, m + k)
<1> DEFINE list == SubSeq(s, 1, m)
           ds == SubSeq(s, m + 1, m + k)
           f == [i \in 0 .. k |-> SubSeq(s, 1, m + i)]
<1>1. list \in Seq(Dicts) /\ ds \in Seq(Dicts) /\ Len(ds) = k
      /\ \A i \in 1 .. k : ds[i] = s[m + i]
  OBVIOUS
<1>2. f[0] = list
  OBVIOUS
<1>3. ASSUME NEW i \in 1 .. k PROVE f[i] = Turn(f[i - 1], ds[i])
  <2>1. i - 1 \in 0 .. k /\ i \in 0 .. k /\ m + i \in 1 .. Len(s) /\ m + (i - 1) = (m + i) - 1
    OBVIOUS
  <2>2. f[i] = SubSeq(s, 1, m + i) /\ f[i - 1] = SubSeq(s, 1, (m + i) - 1)
    BY <2>1
  <2> DEFINE p == m + i
             before == SubSeq(s, 1, p - 1)
  <2>3. ds[i] = s[p]
    BY <1>1
  <2>4. p \in 1 .. Len(s)
    BY <2>1
  <2> HIDE DEF p
  <2>5. before \in Seq(Dicts) /\ Len(before) = p - 1 /\ \A j \in 1 .. p - 1 : before[j] = s[j]
    BY <2>4
  <2>6. ~Contains(before, s[p])
    BY <2>4, <2>5 DEF Contains, IsInjective
  <2>7. SubSeq(s, 1, p) = Append(before, s[p])
    BY <2>4
  <2> HIDE DEF before
  <2> QED
    BY <2>2, <2>3, <2>6, <2>7 DEF Turn, p, before
<1>4. DOMAIN f = 0 .. Len(ds)
  BY <1>1
<1> HIDE DEF f
<1>5. Turns(f, list, ds, Len(ds))
  BY <1>1, <1>2, <1>3 DEF Turns
<1> HIDE DEF list, ds
<1>6. AddNew(list, ds) = f[Len(ds)]
  BY <1>1, <1>4, <1>5, AddNewIs
<1> QED
  BY <1>1, <1>6 DEF f, list, ds

-----------------------------------------------------------------------------
(* Types. *)

\* The front of a sequence.
LEMMA FrontFacts ==
  ASSUME NEW s \in Seq(Dicts), NEW n \in 0 .. Len(s)
  PROVE  /\ SubSeq(s, 1, n) \in Seq(Dicts) /\ Len(SubSeq(s, 1, n)) = n
         /\ Range(SubSeq(s, 1, n)) = {s[i] : i \in 1 .. n}
         /\ {s[i] : i \in 1 .. n} \subseteq Dicts
<1>1. /\ SubSeq(s, 1, n) \in Seq(Dicts) /\ Len(SubSeq(s, 1, n)) = n
      /\ DOMAIN SubSeq(s, 1, n) = 1 .. n
      /\ \A i \in 1 .. n : SubSeq(s, 1, n)[i] = s[i]
  OBVIOUS
<1>2. \A i \in 1 .. n : s[i] \in Dicts
  OBVIOUS
<1> QED
  BY <1>1, <1>2 DEF Range

\* A request made is one, with the articles on its word.
LEMMA RequestFacts ==
  ASSUME TypeInv, NEW n \in 1 .. Latest
  PROVE  /\ Latest \in Nat /\ requests[n] \in RequestTypes
         /\ Articles[requests[n].query] \in Seq(Dicts)
         /\ IsInjective(Articles[requests[n].query])
         /\ Len(Articles[requests[n].query]) \in Nat
<1>1. Latest \in Nat /\ requests[n] \in RequestTypes
  BY DEF TypeInv, Latest
<1>2. requests[n].query \in Queries
  BY <1>1 DEF RequestTypes
<1> QED
  BY <1>1, <1>2, ArticlePageAssumption

\* What the page shows, as the properties name it.
LEMMA ShownIs ==
  ASSUME TypeInv, RequestInv
  PROVE  Shown = InDoc /\ InDoc \subseteq Dicts
<1>1. doc.n \in Nat /\ Latest \in Nat /\ doc.articles \in Nat
  BY DEF TypeInv, DocTypes, Latest
<1>2. CASE doc.n = 0
  BY <1>2 DEF RequestInv, Shown, InDoc, FirstOn
<1>3. CASE doc.n # 0
  <2>1. doc.n \in 1 .. Latest
    BY <1>1, <1>3 DEF RequestInv
  <2>2. /\ Articles[Request.query] \in Seq(Dicts) /\ Len(Articles[Request.query]) \in Nat
        /\ Request.sent \in Nat
    BY <2>1, RequestFacts DEF Request, RequestTypes
  <2>3. doc.articles \in 0 .. Len(Articles[Request.query])
    BY <1>1, <1>3, <2>1, <2>2 DEF RequestInv, Request
  <2> QED
    BY <1>3, <2>2, <2>3, FrontFacts DEF Shown, InDoc, FirstOn
<1> QED
  BY <1>2, <1>3

\* What the page tells the view.
LEMMA CallTyped ==
  ASSUME TypeInv, NEW d \in Dicts, NEW on \in BOOLEAN
  PROVE  /\ Event(d) \in Seq(CallTypes) /\ CollapseMsg(d, on) \in CallTypes
         /\ Event(d) = <<Event(d)[1]>> /\ Event(d)[1] \in CallTypes
         /\ Event(d)[1].kind = "active" /\ Event(d)[1].dict = d /\ Event(d)[1].page = doc.n
<1>1. doc.n \in Nat
  BY DEF TypeInv, DocTypes
<1>2. [kind |-> "active", dict |-> d, page |-> doc.n] \in CallTypes
  BY <1>1 DEF CallTypes
<1>3. CollapseMsg(d, on) \in CallTypes
  BY <1>1 DEF CollapseMsg, CallTypes
<1> QED
  BY <1>2, <1>3 DEF Event

\* What a click on an article does to the active one and the calls.
LEMMA ClickTyped ==
  ASSUME TypeInv, NEW d \in Dicts, NEW ch \in Seq(CallTypes)
  PROVE  MadeActive(d) \in Ids /\ ch \o Event(d) \in Seq(CallTypes)
         /\ \A on \in BOOLEAN : Append(ch, CollapseMsg(d, on)) \in Seq(CallTypes)
<1>1. MadeActive(d) \in Ids
  BY DEF MadeActive, Ids
<1>2. Event(d) \in Seq(CallTypes) /\ \A on \in BOOLEAN : CollapseMsg(d, on) \in CallTypes
  BY CallTyped, Zenon
<1>3. ch \o Event(d) \in Seq(CallTypes)
  BY <1>2, ConcatProperties
<1>4. \A on \in BOOLEAN : Append(ch, CollapseMsg(d, on)) \in Seq(CallTypes)
  BY <1>2
<1> QED
  BY <1>1, <1>3, <1>4

\* What the view tells the page when it makes an article active.
LEMMA ScriptsTyped ==
  ASSUME TypeInv, NEW d \in Ids, NEW scripts \in Seq(ScriptTypes)
  PROVE  (toPage \o <<[kind |-> "active", dict |-> d]>>) \o scripts \in Seq(ScriptTypes)
<1>1. <<[kind |-> "active", dict |-> d]>> \in Seq(ScriptTypes)
  BY DEF ScriptTypes
<1>2. toPage \in Seq(ScriptTypes)
  BY DEF TypeInv
<1>3. toPage \o <<[kind |-> "active", dict |-> d]>> \in Seq(ScriptTypes)
  BY <1>1, <1>2, ConcatProperties
<1> QED
  BY <1>3, ConcatProperties

\* ... and when a page is loaded.
LEMMA CheckTyped ==
  <<[kind |-> "check", dict |-> NoDict]>> \in Seq(ScriptTypes)
BY DEF ScriptTypes, Ids

\* The steps of a request keep the types.
LEMMA PagesTyped ==
  ASSUME TypeInv, RequestInv, NEW n \in 1 .. Latest
  PROVE  /\ RequestStarts(n) => TypeInv'
         /\ RequestGone(n) => TypeInv'
         /\ \A k \in 1 .. Len(Articles[requests[n].query]) : BodyFinished(n, k) => TypeInv'
<1>0. /\ Latest \in Nat /\ requests[n] \in RequestTypes
      /\ Articles[requests[n].query] \in Seq(Dicts)
      /\ Len(Articles[requests[n].query]) \in Nat
      /\ requests \in Seq(RequestTypes) /\ requests[n].sent \in Nat
      /\ n \in 1 .. Len(requests)
  BY RequestFacts DEF TypeInv, RequestTypes, Latest
<1>00. ASSUME NEW r \in RequestTypes, requests' = [requests EXCEPT ![n] = r]
       PROVE  requests' \in Seq(RequestTypes)
  BY <1>0, <1>00
<1>1. ASSUME RequestStarts(n) PROVE TypeInv'
  <2>1. requests' \in Seq(RequestTypes)
    <3>1. [requests[n] EXCEPT !.state = "running"] \in RequestTypes
      BY <1>0 DEF RequestTypes
    <3> QED
      BY <1>00, <1>1, <3>1 DEF RequestStarts
  <2>2. currentActiveDictIds' \in Seq(Dicts) /\ stray' \in BOOLEAN
    <3>1. CASE requests[n].query = Current
      BY <1>1, <3>1, EmptySeq DEF RequestStarts
    <3>2. CASE requests[n].query # Current
      BY <1>1, <3>2 DEF RequestStarts, TypeInv, asked
    <3> QED
      BY <3>1, <3>2
  <2> QED
    BY <1>1, <2>1, <2>2 DEF RequestStarts, TypeInv, asked
<1>2. ASSUME RequestGone(n) PROVE TypeInv'
  <2>1. requests' \in Seq(RequestTypes)
    <3>1. [requests[n] EXCEPT !.state = "gone"] \in RequestTypes
      BY <1>0 DEF RequestTypes
    <3> QED
      BY <1>00, <1>2, <3>1 DEF RequestGone
  <2> QED
    BY <1>2, <2>1 DEF RequestGone, TypeInv, viewVars, asked
<1>3. ASSUME NEW k \in 1 .. Len(Articles[requests[n].query]), BodyFinished(n, k)
      PROVE  TypeInv'
  <2> DEFINE r == requests[n]
             ds == SubSeq(Articles[r.query], r.sent + 1, r.sent + k)
  <2>1. k \in Nat /\ r.sent + k <= Len(Articles[r.query])
    BY <1>0, <1>3 DEF BodyFinished, Unsent
  <2>2. ds \in Seq(Dicts) /\ Range(ds) \subseteq Dicts
    <3>1. ds \in Seq(Dicts)
      BY <1>0, <2>1
    <3> HIDE DEF ds
    <3>2. \A i \in DOMAIN ds : ds[i] \in Dicts
      BY <3>1
    <3> QED
      BY <3>1, <3>2 DEF Range
  <2>3. requests' \in Seq(RequestTypes)
    <3> DEFINE more == r.closed \cup (Range(ds) \cap (collapsedDicts \cup Large))
               state == IF k = Unsent(r) THEN "done" ELSE r.state
               q == [r EXCEPT !.sent = r.sent + k, !.closed = more, !.state = state]
    <3>1. more \in SUBSET Dicts
      BY <1>0, <2>2 DEF RequestTypes
    <3>2. state \in {"asked", "running", "done", "gone"}
      BY <1>0 DEF RequestTypes
    <3> HIDE DEF more, state
    <3>3. q \in RequestTypes
      <4>1. r.sent + k \in Nat
        BY <1>0, <2>1
      <4>2. [r EXCEPT !.sent = r.sent + k] \in RequestTypes
        BY <1>0, <4>1 DEF RequestTypes
      <4>3. [[r EXCEPT !.sent = r.sent + k] EXCEPT !.closed = more] \in RequestTypes
        BY <3>1, <4>2 DEF RequestTypes
      <4>4. [[[r EXCEPT !.sent = r.sent + k] EXCEPT !.closed = more] EXCEPT !.state = state]
              \in RequestTypes
        BY <3>2, <4>3 DEF RequestTypes
      <4>5. q = [[[r EXCEPT !.sent = r.sent + k] EXCEPT !.closed = more] EXCEPT !.state = state]
        BY <1>0 DEF RequestTypes
      <4> QED
        BY <4>4, <4>5
    <3>4. requests' = [requests EXCEPT ![n] = q]
      BY <1>3, Zenon DEF BodyFinished, more, state
    <3> HIDE DEF q
    <3> QED
      BY <1>00, <3>3, <3>4
  <2> HIDE DEF ds
  <2>4. currentActiveDictIds \in Seq(Dicts) /\ stray \in BOOLEAN
    BY DEF TypeInv
  <2>5. currentActiveDictIds' \in Seq(Dicts)
    <3>1. AddNew(currentActiveDictIds, ds) \in Seq(Dicts)
      BY <2>2, <2>4, AddNewType
    <3>2. currentActiveDictIds' \in {AddNew(currentActiveDictIds, ds), currentActiveDictIds}
      BY <1>3 DEF BodyFinished, ds
    <3> QED
      BY <2>4, <3>1, <3>2
  <2>6. stray' \in BOOLEAN
    BY <1>3, <2>4 DEF BodyFinished
  <2>7. late' \in SUBSET Dicts
    <3>1. late' \in {late \cup {d \in Range(ds) : HasCollapse(toView, d)}, late}
      BY <1>3 DEF BodyFinished, ds
    <3> QED
      BY <2>2, <3>1 DEF TypeInv
  <2>8. UNCHANGED <<asked, activeDictId, doc, toPage, toView,
                    collapsedDicts, astray>>
    BY <1>3 DEF BodyFinished
  <2> QED
    BY <2>3, <2>5, <2>6, <2>7, <2>8 DEF TypeInv, asked
<1> QED
  BY <1>1, <1>2, <1>3

\* A page asked for is the last of the requests, the others stay as they were.
LEMMA AskForFacts ==
  ASSUME TypeInv, NEW w \in Queries, NEW s \in Ids \cup {NoScroll}, AskFor(w, s)
  PROVE  /\ requests' \in Seq(RequestTypes) /\ Latest' = Latest + 1
         /\ \A n \in 1 .. Latest : requests'[n] = requests[n]
         /\ requests'[Latest + 1] = [query |-> w, scrollTo |-> s, state |-> "asked",
                                     sent |-> 0, closed |-> {}]
         /\ UNCHANGED <<activeDictId, doc, toPage, toView, collapsedDicts, astray>>
         /\ currentActiveDictIds' = <<>> /\ stray' = FALSE /\ late' = {}
<1> DEFINE r == [query |-> w, scrollTo |-> s, state |-> "asked", sent |-> 0, closed |-> {}]
<1>1. r \in RequestTypes
  BY DEF RequestTypes
<1>2. requests' = Append(requests, r) /\ requests \in Seq(RequestTypes)
  BY DEF AskFor, TypeInv
<1>3. /\ UNCHANGED <<activeDictId, doc, toPage, toView, collapsedDicts, astray>>
      /\ currentActiveDictIds' = <<>> /\ stray' = FALSE /\ late' = {}
  BY DEF AskFor
<1> HIDE DEF r
<1>4. /\ requests' \in Seq(RequestTypes) /\ Len(requests') = Len(requests) + 1
      /\ \A n \in 1 .. Len(requests) : requests'[n] = requests[n]
      /\ requests'[Len(requests) + 1] = r
  BY <1>1, <1>2
<1> QED
  BY <1>3, <1>4 DEF Latest, r

\* The steps that ask for a page, and what they make of the view.
Asking == ShowDefinition \/ GoBack \/ \E g \in Groups : ChangeGroup(g)
AsksFor(q) ==
  /\ currentWord' \in Words \cup {NoWord} /\ currentGroupId' \in Groups
  /\ historyMode' \in BOOLEAN /\ disowned' \in BOOLEAN
  /\ historyMode' => ~disowned'
  /\ ~historyMode' /\ ~disowned' => Current' = q

\* They ask for one.
LEMMA PageAsked ==
  ASSUME TypeInv, RequestInv, Asking
  PROVE  \E q \in Queries, s \in Ids \cup {NoScroll} : AskFor(q, s) /\ AsksFor(q)
<1>1. ASSUME NEW n \in 1 .. Latest
      PROVE  /\ requests[n].query \in Queries /\ requests[n].scrollTo \in Ids \cup {NoScroll}
             /\ requests[n].query[1] \in Words /\ requests[n].query[2] \in Groups
  BY RequestFacts DEF RequestTypes, Queries
<1>2. doc.n \in Nat /\ Latest \in Nat /\ currentGroupId \in Groups
  BY DEF TypeInv, DocTypes, Latest
<1>3. CASE ShowDefinition
  <2>1. PICK w \in Words, g \in AskedGroups, s \in {NoScroll, activeDictId} :
          /\ AskFor(<<w, g>>, s) /\ currentWord' = w /\ historyMode' = FALSE
          /\ disowned' = (g # currentGroupId) /\ UNCHANGED currentGroupId
    BY <1>3 DEF ShowDefinition
  <2>2. g \in Groups
    <3>1. CASE Latest = 0
      BY <3>1 DEF AskedGroups
    <3>2. CASE Latest # 0 /\ doc.n = 0
      BY <1>2, <3>2 DEF AskedGroups
    <3>3. CASE Latest # 0 /\ doc.n # 0
      <4>1. doc.n \in 1 .. Latest
        BY <1>2, <3>3 DEF RequestInv
      <4> QED
        BY <1>1, <1>2, <3>3, <4>1 DEF AskedGroups
    <3> QED
      BY <3>1, <3>2, <3>3
  <2>3. <<w, g>> \in Queries /\ s \in Ids \cup {NoScroll}
    BY <2>1, <2>2 DEF Queries, TypeInv
  <2>4. AsksFor(<<w, g>>)
    BY <1>2, <2>1 DEF AsksFor, Current
  <2> QED
    BY <2>1, <2>3, <2>4
<1>4. CASE GoBack
  <2>1. PICK n \in 1 .. Latest - 1 : AskFor(requests[n].query, requests[n].scrollTo)
    BY <1>4 DEF GoBack
  <2>2. n \in 1 .. Latest
    BY <1>2
  <2>3. AsksFor(requests[n].query)
    BY <1>4 DEF GoBack, AsksFor, TypeInv
  <2> QED
    BY <1>1, <2>1, <2>2, <2>3
<1>5. ASSUME NEW g \in Groups, ChangeGroup(g)
      PROVE  \E q \in Queries, s \in Ids \cup {NoScroll} : AskFor(q, s) /\ AsksFor(q)
  <2> DEFINE w == requests[doc.n].query[1]
  <2>1. /\ AskFor(<<w, g>>, NoScroll) /\ currentWord' = w /\ currentGroupId' = g
        /\ historyMode' = FALSE /\ disowned' = FALSE /\ doc.n > 0
    BY <1>5 DEF ChangeGroup
  <2>2. doc.n \in 1 .. Latest
    BY <1>2, <2>1 DEF RequestInv
  <2>3. w \in Words /\ <<w, g>> \in Queries
    BY <1>1, <2>2 DEF Queries
  <2> HIDE DEF w
  <2>4. AsksFor(<<w, g>>)
    BY <2>1, <2>3 DEF AsksFor, Current
  <2> QED
    BY <2>1, <2>3, <2>4
<1> QED
  BY <1>3, <1>4, <1>5 DEF Asking

\* The steps of the view alone, and what they leave of its word and group.
OnlyView == ShowBlank \/ \E g \in Groups : ChangeGroupOnly(g)
LEMMA OnlyViewIs ==
  ASSUME TypeInv, OnlyView
  PROVE  /\ UNCHANGED <<historyMode, activeDictId, currentActiveDictIds, requests, doc, toPage,
                        toView, collapsedDicts, stray, astray, late>>
         /\ currentWord' \in Words \cup {NoWord} /\ currentGroupId' \in Groups
         /\ disowned' = ~historyMode
BY DEF OnlyView, ShowBlank, ChangeGroupOnly, TypeInv

\* Another view is told of the collapsing of an article.
LEMMA OtherCollapseIs ==
  ASSUME TypeInv, NEW d \in Dicts, OtherCollapse(d)
  PROVE  /\ UNCHANGED <<viewVars, requests, doc, toPage, toView, stray, astray>>
         /\ collapsedDicts' \in SUBSET Dicts /\ late' \in SUBSET Dicts
         /\ \A e : e # d => (e \in collapsedDicts' <=> e \in collapsedDicts)
         /\ late \subseteq late'
         /\ Latest > 0 /\ d \in Sent(requests[Latest]) => d \in late'
<1>1. PICK k \in {"collapse", "expand"} : collapsedDicts' = CollapseInHtml([kind |-> k, dict |-> d])
  BY DEF OtherCollapse
<1>2. collapsedDicts' \in {collapsedDicts \cup {d}, collapsedDicts \ {d}}
  BY <1>1 DEF CollapseInHtml
<1>3. late' = IF Latest > 0 /\ d \in Sent(requests[Latest]) THEN late \cup {d} ELSE late
  BY DEF OtherCollapse
<1>4. UNCHANGED <<viewVars, requests, doc, toPage, toView, stray, astray>>
  BY DEF OtherCollapse
<1> QED
  BY <1>2, <1>3, <1>4 DEF TypeInv

\* What the view and the page type their messages by.
LEMMA SetByUserTyped ==
  ASSUME TypeInv, NEW d \in Dicts, SetByUser(d)
  PROVE  TypeInv'
<1>1. /\ activeDictId' = d /\ d \in Ids
      /\ toPage' = (toPage \o <<[kind |-> "active", dict |-> d]>>) \o <<>>
      /\ astray' \in BOOLEAN
  BY DEF SetByUser, SetCurrentArticle, HasActive, Ids
<1>2. toPage' \in Seq(ScriptTypes)
  BY <1>1, ScriptsTyped, EmptySeq
<1> QED
  BY <1>1, <1>2 DEF SetByUser, TypeInv, asked

\* A move from article to article, and a choice in the list, sets the current article.
LEMMA MovesAreByUser ==
  ASSUME TypeInv,
         \/ MoveOneArticleUp \/ MoveOneArticleDown
         \/ \E d \in Dicts : JumpToDictionary(d)
  PROVE  \E d \in Dicts : SetByUser(d)
<1> DEFINE N == Len(currentActiveDictIds)
<1>1. N \in Nat /\ \A i \in 1 .. N : currentActiveDictIds[i] \in Dicts
      /\ DOMAIN currentActiveDictIds = 1 .. N
  BY DEF TypeInv
<1>2. ASSUME NEW d, Contains(currentActiveDictIds, d)
      PROVE  PlaceOf(d) \in 1 .. N
  BY <1>1, <1>2 DEF Contains, PlaceOf
<1>3. CASE MoveOneArticleUp
  <2> DEFINE i == PlaceOf(activeDictId)
  <2>1. i \in 1 .. N
    BY <1>2, <1>3 DEF MoveOneArticleUp
  <2>2. SetByUser(currentActiveDictIds[IF i = 1 THEN N ELSE i - 1])
    BY <1>3 DEF MoveOneArticleUp
  <2> HIDE DEF i, N
  <2>3. (IF i = 1 THEN N ELSE i - 1) \in 1 .. N
    BY <1>1, <2>1
  <2> QED
    BY <1>1, <2>2, <2>3
<1>4. CASE MoveOneArticleDown
  <2> DEFINE from == IF activeDictId = NoDict THEN currentActiveDictIds[1] ELSE activeDictId
             i == PlaceOf(from)
  <2>1. i \in 1 .. N
    BY <1>2, <1>4 DEF MoveOneArticleDown
  <2>2. SetByUser(currentActiveDictIds[(i % N) + 1])
    BY <1>4 DEF MoveOneArticleDown
  <2> HIDE DEF i, N
  <2>3. (i % N) + 1 \in 1 .. N
    BY <1>1, <2>1
  <2> QED
    BY <1>1, <2>2, <2>3
<1>5. CASE \E d \in Dicts : JumpToDictionary(d)
  BY <1>5 DEF JumpToDictionary
<1> QED
  BY <1>3, <1>4, <1>5

\* How a page is loaded: without an address to scroll to, to the article of the
\* address, or not to it.
LEMMA LoadFinishedIs ==
  ASSUME TypeInv, RequestInv, NEW visible \in BOOLEAN, LoadFinished(visible)
  PROVE  /\ doc.n > 0 /\ doc.n = Latest /\ ~doc.loaded
         /\ Request.state = "done" /\ doc.articles = Request.sent
         /\ doc' = [doc EXCEPT !.loaded = TRUE]
         /\ UNCHANGED <<asked, currentActiveDictIds, requests, toView,
                        collapsedDicts, gestures, stray, late>>
         /\ \E check \in Seq(ScriptTypes) :
              /\ ~HasActive(check)
              /\ \/ /\ activeDictId' = NoDict /\ toPage' = toPage \o check
                    /\ UNCHANGED astray
                 \/ \E d \in Dicts :
                      /\ activeDictId' = d /\ astray' = HasActive(toView)
                      /\ toPage' = (toPage \o <<[kind |-> "active", dict |-> d]>>) \o check
                 \/ /\ toPage' = toPage \o check /\ UNCHANGED activeDictId
                    /\ astray' = (astray \/ activeDictId # NoDict)
<1> DEFINE check == <<[kind |-> "check", dict |-> NoDict]>>
           s == Request.scrollTo
<1>1. check \in Seq(ScriptTypes) /\ ~HasActive(check)
  BY CheckTyped DEF HasActive
<1>2. \/ /\ activeDictId' = NoDict /\ toPage' = toPage \o check /\ UNCHANGED astray
      \/ s \in Dicts /\ SetCurrentArticle(s, check)
      \/ /\ toPage' = toPage \o check /\ UNCHANGED activeDictId
         /\ astray' = (astray \/ activeDictId # NoDict)
  BY DEF LoadFinished
<1>3. /\ doc.n > 0 /\ doc.n = Latest /\ ~doc.loaded
      /\ Request.state = "done" /\ doc.articles = Request.sent
      /\ doc' = [doc EXCEPT !.loaded = TRUE]
      /\ UNCHANGED <<asked, currentActiveDictIds, requests, toView,
                     collapsedDicts, gestures, stray, late>>
  BY DEF LoadFinished
<1> HIDE DEF check, s
<1>4. \/ /\ activeDictId' = NoDict /\ toPage' = toPage \o check /\ UNCHANGED astray
      \/ \E d \in Dicts :
           /\ activeDictId' = d /\ astray' = HasActive(toView)
           /\ toPage' = (toPage \o <<[kind |-> "active", dict |-> d]>>) \o check
      \/ /\ toPage' = toPage \o check /\ UNCHANGED activeDictId
         /\ astray' = (astray \/ activeDictId # NoDict)
  BY <1>2 DEF SetCurrentArticle
<1> QED
  BY <1>1, <1>3, <1>4

\* What is first in a channel, and what is left of it.
LEMMA HeadTyped ==
  ASSUME TypeInv
  PROVE  /\ toView # <<>> =>
              /\ Head(toView).dict \in Dicts /\ Head(toView).page \in Nat
              /\ Head(toView).kind \in {"active", "collapse", "expand"}
              /\ Tail(toView) \in Seq(CallTypes)
         /\ toPage # <<>> =>
              /\ Head(toPage).dict \in Ids /\ Head(toPage).kind \in {"active", "check"}
              /\ Tail(toPage) \in Seq(ScriptTypes)
<1>1. toView \in Seq(CallTypes) /\ toPage \in Seq(ScriptTypes)
  BY DEF TypeInv
<1>2. /\ toView # <<>> => Head(toView) \in CallTypes /\ Tail(toView) \in Seq(CallTypes)
      /\ toPage # <<>> => Head(toPage) \in ScriptTypes /\ Tail(toPage) \in Seq(ScriptTypes)
  BY <1>1
<1> QED
  BY <1>2 DEF CallTypes, ScriptTypes

\* Every step keeps the types.
LEMMA TypeStep ==
  ASSUME TypeInv, RequestInv, [Next]_vars
  PROVE  TypeInv'
<1>0. /\ doc \in DocTypes /\ toPage \in Seq(ScriptTypes) /\ toView \in Seq(CallTypes)
      /\ activeDictId \in Ids /\ Shown \subseteq Dicts
  BY ShownIs DEF TypeInv
<1>1. CASE Asking
  <2>1. PICK q \in Queries, s \in Ids \cup {NoScroll} : AskFor(q, s) /\ AsksFor(q)
    BY <1>1, PageAsked
  <2> QED
    BY <2>1, AskForFacts, EmptySeq DEF TypeInv, AsksFor
<1>2. CASE OnlyView
  BY <1>2, OnlyViewIs DEF TypeInv
<1>16. ASSUME NEW d \in Dicts, OtherCollapse(d) PROVE TypeInv'
  BY <1>16, OtherCollapseIs DEF TypeInv, viewVars, asked
<1>3. ASSUME NEW w \in Queries, OtherRequest(w) PROVE TypeInv'
  <2>1. currentActiveDictIds' \in Seq(Dicts)
    <3>1. CASE currentActiveDictIds' = <<>>
      BY <3>1, EmptySeq
    <3>2. CASE \E d \in Range(Articles[w]) :
                 currentActiveDictIds' = AddNew(currentActiveDictIds, <<d>>)
      <4>1. PICK d \in Range(Articles[w]) :
              currentActiveDictIds' = AddNew(currentActiveDictIds, <<d>>)
        BY <3>2
      <4>2. <<d>> \in Seq(Dicts)
        BY ArticlePageAssumption DEF Range
      <4> QED
        BY <4>1, <4>2, AddNewType DEF TypeInv
    <3> QED
      BY <1>3, <3>1, <3>2 DEF OtherRequest
  <2> QED
    BY <1>3, <2>1 DEF OtherRequest, TypeInv, asked
<1>4. CASE Commit
  <2>1. doc' \in DocTypes
    <3>1. NoDoc \in DocTypes
      BY DEF NoDoc, DocTypes, Ids
    <3>2. Latest \in Nat
      BY DEF TypeInv, Latest
    <3>3. doc' = [NoDoc EXCEPT !.n = Latest, !.loaded = FALSE]
      BY <1>4 DEF Commit
    <3> QED
      BY <3>1, <3>2, <3>3 DEF DocTypes
  <2>2. toPage' \in Seq(ScriptTypes)
    BY <1>0, <1>4, EmptySeq DEF Commit
  <2> QED
    BY <1>4, <2>1, <2>2 DEF Commit, TypeInv, viewVars, asked
<1>5. CASE ArticleArrives
  <2> DEFINE d == Articles[Request.query][doc.articles + 1]
  <2>1. /\ doc' = [doc EXCEPT !.articles = @ + 1,
                              !.active = IF doc.articles = 0 THEN d ELSE @,
                              !.collapsed = @ \cup ({d} \cap Request.closed)]
        /\ doc.n > 0 /\ doc.articles < Request.sent
        /\ UNCHANGED <<viewVars, requests, toPage, toView, collapsedDicts, gestures,
                       stray, astray, late>>
    BY <1>5 DEF ArticleArrives
  <2>2. d \in Dicts
    <3>1. doc.n \in 1 .. Latest
      BY <1>0, <2>1 DEF RequestInv, DocTypes, TypeInv, Latest
    <3>2. /\ Articles[Request.query] \in Seq(Dicts) /\ Len(Articles[Request.query]) \in Nat
          /\ Request.sent \in Nat /\ Request.sent <= Len(Articles[Request.query])
      BY <3>1, RequestFacts DEF Request, RequestTypes, RequestInv
    <3>3. doc.articles + 1 \in 1 .. Len(Articles[Request.query])
      BY <1>0, <2>1, <3>2 DEF DocTypes
    <3> QED
      BY <3>2, <3>3
  <2> HIDE DEF d
  <2>3. doc' \in DocTypes
    <3> DEFINE a == IF doc.articles = 0 THEN d ELSE doc.active
               c == doc.collapsed \cup ({d} \cap Request.closed)
    <3>1. a \in Ids /\ c \in SUBSET Dicts /\ doc.articles + 1 \in Nat
      BY <1>0, <2>2 DEF DocTypes, Ids
    <3>2. doc' = [doc EXCEPT !.articles = doc.articles + 1, !.active = a, !.collapsed = c]
      BY <2>1
    <3> HIDE DEF a, c
    <3> QED
      BY <1>0, <3>1, <3>2 DEF DocTypes
  <2> QED
    BY <2>1, <2>3 DEF TypeInv, viewVars, asked
<1>6. ASSUME NEW visible \in BOOLEAN, LoadFinished(visible) PROVE TypeInv'
  <2>1. doc' \in DocTypes
    BY <1>0, <1>6, LoadFinishedIs DEF DocTypes
  <2>2. UNCHANGED <<asked, currentActiveDictIds, requests, toView,
                    collapsedDicts, stray, late>>
    BY <1>6, LoadFinishedIs
  <2>3. PICK check \in Seq(ScriptTypes) :
          \/ /\ activeDictId' = NoDict /\ toPage' = toPage \o check
             /\ UNCHANGED astray
          \/ \E d \in Dicts :
               /\ activeDictId' = d /\ astray' = HasActive(toView)
               /\ toPage' = (toPage \o <<[kind |-> "active", dict |-> d]>>) \o check
          \/ /\ toPage' = toPage \o check /\ UNCHANGED activeDictId
             /\ astray' = (astray \/ activeDictId # NoDict)
    BY <1>6, LoadFinishedIs
  <2>4. activeDictId' \in Ids /\ astray' \in BOOLEAN
    BY <1>0, <2>3 DEF Ids, HasActive, TypeInv
  <2>5. toPage' \in Seq(ScriptTypes)
    <3>1. CASE toPage' = toPage \o check
      BY <1>0, <3>1, ConcatProperties
    <3>2. ASSUME NEW d \in Dicts,
                 toPage' = (toPage \o <<[kind |-> "active", dict |-> d]>>) \o check
          PROVE  toPage' \in Seq(ScriptTypes)
      BY <3>2, ScriptsTyped DEF Ids
    <3> QED
      BY <2>3, <3>1, <3>2
  <2> QED
    BY <2>1, <2>2, <2>4, <2>5 DEF TypeInv, asked
<1>7. ASSUME NEW d \in Dicts, Click(d) PROVE TypeInv'
  <2>1. doc' = [doc EXCEPT !.active = MadeActive(d)] /\ MadeActive(d) \in Ids
    BY <1>0, <1>7, ClickTyped DEF Click
  <2>2. toView' \in Seq(CallTypes) /\ astray' \in BOOLEAN
    BY <1>0, <1>7, ClickTyped DEF Click, MakesActive, HasActive, TypeInv
  <2>3. doc' \in DocTypes
    BY <1>0, <2>1 DEF DocTypes
  <2> QED
    BY <1>7, <2>2, <2>3 DEF Click, TypeInv, viewVars, asked
<1>8. ASSUME NEW d \in Dicts, Collapse(d) PROVE TypeInv'
  <2>1. doc' \in DocTypes
    BY <1>0, <1>8 DEF Collapse, DocTypes
  <2>2. toView' \in Seq(CallTypes)
    BY <1>0, <1>8, ClickTyped DEF Collapse
  <2>3. late' \in SUBSET Dicts
    BY <1>8 DEF Collapse, NowLate, TypeInv
  <2> QED
    BY <1>8, <2>1, <2>2, <2>3 DEF Collapse, TypeInv, viewVars, asked
<1>9. ASSUME NEW d \in Dicts, Expand(d) PROVE TypeInv'
  <2>1. doc' = [doc EXCEPT !.collapsed = @ \ {d}, !.active = MadeActive(d)]
        /\ MadeActive(d) \in Ids
    BY <1>0, <1>9, ClickTyped DEF Expand
  <2>2. doc' \in DocTypes
    BY <1>0, <2>1 DEF DocTypes
  <2>3. Append(toView, CollapseMsg(d, FALSE)) \in Seq(CallTypes)
    BY <1>0, ClickTyped
  <2>4. toView' \in Seq(CallTypes) /\ astray' \in BOOLEAN
    BY <1>9, <2>3, ClickTyped DEF Expand, HasActive, TypeInv
  <2>5. late' \in SUBSET Dicts
    BY <1>9 DEF Expand, NowLate, TypeInv
  <2> QED
    BY <1>9, <2>2, <2>4, <2>5 DEF Expand, TypeInv, viewVars, asked
<1>10. CASE RunMakeActive
  <2> DEFINE d == Head(toPage).dict
  <2>1. d \in Ids /\ toPage' \in Seq(ScriptTypes)
    BY <1>0, <1>10, HeadTyped DEF RunMakeActive
  <2>2. MadeActive(d) \in Ids
    BY <1>0, <2>1 DEF MadeActive, Ids
  <2>3. doc' \in DocTypes
    BY <1>0, <1>10, <2>2 DEF RunMakeActive, DocTypes
  <2> QED
    BY <1>10, <2>1, <2>3 DEF RunMakeActive, TypeInv, viewVars, asked
<1>11. CASE RunCheckNumber
  <2>1. Single \subseteq Dicts
    BY <1>0 DEF Single, DocTypes
  <2>2. toPage' \in Seq(ScriptTypes)
    BY <1>0, <1>11 DEF RunCheckNumber
  <2>3. doc' \in DocTypes
    BY <1>0, <1>11 DEF RunCheckNumber, DocTypes
  <2>4. toView' \in Seq(CallTypes) /\ late' \in SUBSET Dicts
    <3>1. CASE UNCHANGED <<toView, late>>
      BY <3>1 DEF TypeInv
    <3>2. ASSUME NEW d \in Single, toView' = Append(toView, CollapseMsg(d, FALSE)),
                 late' = NowLate(d)
          PROVE  toView' \in Seq(CallTypes) /\ late' \in SUBSET Dicts
      <4>1. d \in Dicts
        BY <2>1
      <4> QED
        BY <1>0, <3>2, <4>1, ClickTyped DEF NowLate, TypeInv
    <3> QED
      BY <1>11, <3>1, <3>2 DEF RunCheckNumber
  <2> QED
    BY <1>11, <2>2, <2>3, <2>4 DEF RunCheckNumber, TypeInv, viewVars, asked
<1>12. CASE OnCollapse
  <2>1. Head(toView).dict \in Dicts /\ toView' \in Seq(CallTypes)
    BY <1>0, <1>12, HeadTyped DEF OnCollapse
  <2> QED
    BY <1>12, <2>1 DEF OnCollapse, CollapseInHtml, TypeInv, viewVars, asked
<1>13. CASE OnJsActiveArticleChanged
  <2>1. Head(toView).dict \in Ids /\ toView' \in Seq(CallTypes)
    BY <1>0, <1>13, HeadTyped DEF OnJsActiveArticleChanged, Ids
  <2> QED
    BY <1>13, <2>1 DEF OnJsActiveArticleChanged, TypeInv, asked
<1>14. CASE \/ MoveOneArticleUp \/ MoveOneArticleDown
            \/ \E d \in Dicts : JumpToDictionary(d)
  BY <1>14, MovesAreByUser, SetByUserTyped
<1>15. CASE UNCHANGED vars
  BY <1>15 DEF vars, viewVars, asked, TypeInv
<1> QED
  BY <1>1, <1>2, <1>3, <1>4, <1>5, <1>6, <1>7, <1>8, <1>9, <1>10, <1>11, <1>12,
     <1>13, <1>14, <1>15, <1>16, PagesTyped DEF Next, Asking, OnlyView

-----------------------------------------------------------------------------
(* The requests and the page. *)

\* RequestInv stays when nothing it speaks of changes.
LEMMA RequestKept ==
  ASSUME RequestInv, UNCHANGED requests, doc'.n = doc.n,
         doc'.articles = doc.articles, doc'.loaded = doc.loaded
  PROVE  RequestInv'
BY DEF RequestInv, Latest, Request

\* How a step of one request leaves the invariant.
LEMMA RequestMoves ==
  ASSUME TypeInv, RequestInv, UNCHANGED doc, NEW n \in 1 .. Latest, Latest' = Latest,
         \A m \in 1 .. Latest : m # n => requests'[m] = requests[m],
         requests'[n].query = requests[n].query,
         requests'[n].sent \in Nat, requests[n].sent <= requests'[n].sent,
         requests'[n].sent <= Len(Articles[requests[n].query]),
         requests'[n].state # "asked",
         requests'[n].state # "gone" => \A m \in 1 .. n - 1 : requests[m].state # "asked",
         requests'[n].sent # requests[n].sent => requests[n].state = "running",
         requests[n].state # "done"
  PROVE  RequestInv'
<1>1. /\ Latest \in Nat /\ n \in Nat /\ doc.n \in Nat /\ doc.articles \in Nat
      /\ \A m \in 1 .. Latest : requests[m].sent \in Nat
  BY RequestFacts DEF TypeInv, Latest, RequestTypes, DocTypes
<1>2. \A m \in 1 .. Latest : requests'[m].sent <= Len(Articles[requests'[m].query])
  BY DEF RequestInv
<1>3. ASSUME NEW l \in 1 .. Latest, NEW m \in 1 .. Latest, l <= m,
             requests'[l].state = "asked"
      PROVE  requests'[m].state \in {"asked", "gone"} /\ requests'[m].sent = 0
  <2>1. l # n /\ requests[l].state = "asked"
    BY <1>3
  <2>2. requests[m].state \in {"asked", "gone"} /\ requests[m].sent = 0
    BY <1>3, <2>1 DEF RequestInv
  <2>3. CASE m = n
    <3>1. l \in 1 .. n - 1
      BY <1>1, <1>3, <2>1, <2>3
    <3> QED
      BY <2>1, <2>2, <2>3, <3>1
  <2> QED
    BY <2>2, <2>3
<1>4. doc.n > 0 => doc.articles <= requests'[doc.n].sent
  <2>1. ASSUME doc.n > 0 PROVE doc.articles <= requests'[doc.n].sent
    <3>1. doc.n \in 1 .. Latest /\ doc.articles <= requests[doc.n].sent
      BY <1>1, <2>1 DEF RequestInv, Request
    <3> QED
      BY <1>1, <3>1
  <2> QED
    BY <2>1
<1>5. doc.n > 0 /\ doc.loaded =>
        requests'[doc.n].state = "done" /\ doc.articles = requests'[doc.n].sent
  <2>1. ASSUME doc.n > 0, doc.loaded
        PROVE  requests'[doc.n].state = "done" /\ doc.articles = requests'[doc.n].sent
    <3>1. /\ doc.n \in 1 .. Latest /\ requests[doc.n].state = "done"
          /\ doc.articles = requests[doc.n].sent
      BY <1>1, <2>1 DEF RequestInv, Request
    <3> QED
      BY <3>1
  <2> QED
    BY <2>1
<1> QED
  BY <1>2, <1>3, <1>4, <1>5 DEF RequestInv, Request

\* What a step of a request does to it.
LEMMA PageSteps ==
  ASSUME TypeInv, RequestInv, NEW n \in 1 .. Latest
  PROVE  /\ RequestStarts(n) =>
              /\ requests' = [requests EXCEPT ![n].state = "running"]
              /\ Latest' = Latest /\ \A m \in 1 .. Latest : m # n => requests'[m] = requests[m]
              /\ requests'[n] = [requests[n] EXCEPT !.state = "running"]
         /\ RequestGone(n) =>
              /\ Latest' = Latest /\ \A m \in 1 .. Latest : m # n => requests'[m] = requests[m]
              /\ requests'[n] = [requests[n] EXCEPT !.state = "gone"]
         /\ \A k \in 1 .. Len(Articles[requests[n].query]) : BodyFinished(n, k) =>
              /\ Latest' = Latest /\ \A m \in 1 .. Latest : m # n => requests'[m] = requests[m]
              /\ requests[n].state = "running"
              /\ requests[n].sent + k <= Len(Articles[requests[n].query])
              /\ requests'[n].query = requests[n].query
              /\ requests'[n].scrollTo = requests[n].scrollTo
              /\ requests'[n].sent = requests[n].sent + k
              /\ requests'[n].closed =
                   requests[n].closed \cup
                     (Range(SubSeq(Articles[requests[n].query], requests[n].sent + 1,
                                   requests[n].sent + k))
                        \cap (collapsedDicts \cup Large))
              /\ requests'[n].state \in {"running", "done"}
<1>0. /\ requests \in Seq(RequestTypes) /\ n \in 1 .. Len(requests)
      /\ requests[n] \in RequestTypes /\ requests[n].sent \in Nat
      /\ Len(Articles[requests[n].query]) \in Nat
      /\ \A r : /\ Len([requests EXCEPT ![n] = r]) = Len(requests)
                /\ [requests EXCEPT ![n] = r][n] = r
                /\ \A m \in 1 .. Len(requests) :
                     m # n => [requests EXCEPT ![n] = r][m] = requests[m]
  BY RequestFacts DEF TypeInv, Latest, RequestTypes
<1>1. RequestStarts(n) => /\ requests' = [requests EXCEPT ![n].state = "running"]
                          /\ requests' = [requests EXCEPT
                                ![n] = [requests[n] EXCEPT !.state = "running"]]
  BY DEF RequestStarts
<1>2. RequestGone(n) => requests' = [requests EXCEPT ![n] = [requests[n] EXCEPT !.state = "gone"]]
  BY DEF RequestGone
<1>3. ASSUME NEW k \in 1 .. Len(Articles[requests[n].query]), BodyFinished(n, k)
      PROVE  /\ Latest' = Latest /\ \A m \in 1 .. Latest : m # n => requests'[m] = requests[m]
             /\ requests[n].state = "running"
             /\ requests[n].sent + k <= Len(Articles[requests[n].query])
             /\ requests'[n].query = requests[n].query
             /\ requests'[n].scrollTo = requests[n].scrollTo
             /\ requests'[n].sent = requests[n].sent + k
             /\ requests'[n].closed =
                  requests[n].closed \cup
                    (Range(SubSeq(Articles[requests[n].query], requests[n].sent + 1,
                                  requests[n].sent + k))
                       \cap (collapsedDicts \cup Large))
             /\ requests'[n].state \in {"running", "done"}
  <2> DEFINE r == requests[n]
             more == r.closed \cup
                       (Range(SubSeq(Articles[r.query], r.sent + 1, r.sent + k))
                          \cap (collapsedDicts \cup Large))
             state == IF k = Unsent(r) THEN "done" ELSE r.state
             q == [r EXCEPT !.sent = r.sent + k, !.closed = more, !.state = state]
  <2>1. r.state = "running" /\ r.sent + k <= Len(Articles[r.query])
    BY <1>0, <1>3 DEF BodyFinished, Unsent
  <2>2. state \in {"running", "done"}
    BY <2>1
  <2>3. requests' = [requests EXCEPT ![n] = q]
    BY <1>3, Zenon DEF BodyFinished
  <2>4. r \in RequestTypes
    BY <1>0
  <2>5. more = requests[n].closed \cup
                 (Range(SubSeq(Articles[requests[n].query], requests[n].sent + 1,
                               requests[n].sent + k))
                    \cap (collapsedDicts \cup Large))
    OBVIOUS
  <2> HIDE DEF more, state
  <2>6. q.query = r.query /\ q.scrollTo = r.scrollTo /\ q.sent = r.sent + k
        /\ q.closed = more /\ q.state = state
    BY <2>4 DEF RequestTypes
  <2> HIDE DEF q
  <2>7. requests'[n] = q /\ Len(requests') = Len(requests)
        /\ \A m \in 1 .. Len(requests) : m # n => requests'[m] = requests[m]
    BY <1>0, <2>3
  <2> QED
    BY <2>1, <2>2, <2>5, <2>6, <2>7 DEF Latest
<1> QED
  BY <1>0, <1>1, <1>2, <1>3 DEF Latest

\* The steps of a request keep RequestInv.
LEMMA PagesInv ==
  ASSUME TypeInv, RequestInv, NEW n \in 1 .. Latest
  PROVE  /\ RequestStarts(n) => RequestInv'
         /\ RequestGone(n) => RequestInv'
         /\ \A k \in 1 .. Len(Articles[requests[n].query]) : BodyFinished(n, k) => RequestInv'
<1>0. /\ requests[n] \in RequestTypes /\ requests[n].sent \in Nat /\ n \in Nat
      /\ Len(Articles[requests[n].query]) \in Nat
      /\ requests[n].sent <= Len(Articles[requests[n].query])
      /\ Latest \in Nat
  BY RequestFacts DEF RequestTypes, RequestInv
<1>1. ASSUME RequestStarts(n) PROVE RequestInv'
  <2>1. /\ Latest' = Latest /\ \A m \in 1 .. Latest : m # n => requests'[m] = requests[m]
        /\ requests'[n] = [requests[n] EXCEPT !.state = "running"]
    BY <1>1, PageSteps
  <2>2. /\ requests'[n].query = requests[n].query /\ requests'[n].sent = requests[n].sent
        /\ requests'[n].state = "running"
    BY <1>0, <2>1 DEF RequestTypes
  <2>3. /\ requests[n].state = "asked" /\ UNCHANGED doc
        /\ \A m \in 1 .. n - 1 : requests[m].state # "asked"
    BY <1>1 DEF RequestStarts
  <2>4. requests'[n].sent \in Nat /\ requests[n].sent <= requests'[n].sent
        /\ requests'[n].sent <= Len(Articles[requests[n].query])
    BY <1>0, <2>2
  <2> QED
    BY <2>1, <2>2, <2>3, <2>4, RequestMoves
<1>2. ASSUME RequestGone(n) PROVE RequestInv'
  <2>1. /\ Latest' = Latest /\ \A m \in 1 .. Latest : m # n => requests'[m] = requests[m]
        /\ requests'[n] = [requests[n] EXCEPT !.state = "gone"]
    BY <1>2, PageSteps
  <2>2. /\ requests'[n].query = requests[n].query /\ requests'[n].sent = requests[n].sent
        /\ requests'[n].state = "gone"
    BY <1>0, <2>1 DEF RequestTypes
  <2>3. requests[n].state \in {"asked", "running"} /\ UNCHANGED doc
    BY <1>2 DEF RequestGone
  <2>4. requests'[n].sent \in Nat /\ requests[n].sent <= requests'[n].sent
        /\ requests'[n].sent <= Len(Articles[requests[n].query])
    BY <1>0, <2>2
  <2> QED
    BY <2>1, <2>2, <2>3, <2>4, RequestMoves
<1>3. ASSUME NEW k \in 1 .. Len(Articles[requests[n].query]), BodyFinished(n, k)
      PROVE  RequestInv'
  <2>1. /\ Latest' = Latest /\ \A m \in 1 .. Latest : m # n => requests'[m] = requests[m]
        /\ requests[n].state = "running"
        /\ requests[n].sent + k <= Len(Articles[requests[n].query])
        /\ requests'[n].query = requests[n].query
        /\ requests'[n].sent = requests[n].sent + k
        /\ requests'[n].state \in {"running", "done"}
    BY <1>3, PageSteps
  <2>2. UNCHANGED doc
    BY <1>3 DEF BodyFinished
  <2>3. \A m \in 1 .. n - 1 : requests[m].state # "asked"
    <3>1. ASSUME NEW m \in 1 .. n - 1, requests[m].state = "asked" PROVE FALSE
      <4>1. m \in 1 .. Latest /\ m <= n
        BY <1>0
      <4>2. requests[n].state \in {"asked", "gone"}
        BY <3>1, <4>1 DEF RequestInv
      <4> QED
        BY <2>1, <4>2
    <3> QED
      BY <3>1
  <2>4. requests'[n].sent \in Nat /\ requests[n].sent <= requests'[n].sent
    BY <1>0, <2>1
  <2> QED
    BY <2>1, <2>2, <2>3, <2>4, RequestMoves
<1> QED
  BY <1>1, <1>2, <1>3

\* A page asked for keeps RequestInv.
LEMMA AskForInv ==
  ASSUME TypeInv, RequestInv, NEW w \in Queries, NEW s \in Ids \cup {NoScroll}, AskFor(w, s)
  PROVE  RequestInv'
<1>1. /\ Latest' = Latest + 1 /\ \A n \in 1 .. Latest : requests'[n] = requests[n]
      /\ requests'[Latest + 1].state = "asked" /\ requests'[Latest + 1].sent = 0
      /\ requests'[Latest + 1].query = w /\ UNCHANGED doc
  <2>1. requests'[Latest + 1] = [query |-> w, scrollTo |-> s, state |-> "asked",
                                 sent |-> 0, closed |-> {}]
    BY AskForFacts, Zenon
  <2>2. /\ Latest' = Latest + 1 /\ \A n \in 1 .. Latest : requests'[n] = requests[n]
        /\ UNCHANGED doc
    BY AskForFacts
  <2> QED
    BY <2>1, <2>2
<1>2. /\ Latest \in Nat /\ doc.n \in Nat /\ Len(Articles[w]) \in Nat
      /\ \A n \in 1 .. Latest + 1 : n = Latest + 1 \/ n \in 1 .. Latest
  BY ArticlePageAssumption DEF TypeInv, Latest, DocTypes
<1>3. \A n \in 1 .. Latest + 1 : requests'[n].sent <= Len(Articles[requests'[n].query])
  BY <1>1, <1>2 DEF RequestInv
<1>4. \A m, n \in 1 .. Latest + 1 : m <= n /\ requests'[m].state = "asked" =>
        requests'[n].state \in {"asked", "gone"} /\ requests'[n].sent = 0
  <2> SUFFICES ASSUME NEW m \in 1 .. Latest + 1, NEW n \in 1 .. Latest + 1, m <= n,
                      requests'[m].state = "asked"
               PROVE  requests'[n].state \in {"asked", "gone"} /\ requests'[n].sent = 0
    OBVIOUS
  <2>1. CASE n = Latest + 1
    BY <1>1, <2>1
  <2>2. CASE n \in 1 .. Latest
    <3>1. m \in 1 .. Latest
      BY <1>2, <2>2
    <3> QED
      BY <1>1, <2>2, <3>1 DEF RequestInv
  <2> QED
    BY <1>2, <2>1, <2>2
<1>5. doc.n <= Latest + 1 /\ (doc.n > 0 => doc.n \in 1 .. Latest)
  BY <1>2 DEF RequestInv
<1> QED
  BY <1>1, <1>3, <1>4, <1>5 DEF RequestInv, Request

\* Every step keeps RequestInv.
LEMMA RequestStep ==
  ASSUME TypeInv, RequestInv, [Next]_vars
  PROVE  RequestInv'
<1>0. doc \in DocTypes /\ Latest \in Nat
  BY DEF TypeInv, Latest
<1>1. CASE Asking
  BY <1>1, PageAsked, AskForInv
<1>2. CASE OnlyView
  BY <1>2, OnlyViewIs, RequestKept
<1>13. ASSUME NEW d \in Dicts, OtherCollapse(d) PROVE RequestInv'
  BY <1>13, OtherCollapseIs, RequestKept
<1>3. ASSUME NEW w \in Queries, OtherRequest(w) PROVE RequestInv'
  BY <1>3, RequestKept DEF OtherRequest
<1>4. CASE Commit
  <2>1. /\ doc.n < Latest /\ requests[Latest].state \in {"running", "done"}
        /\ doc'.n = Latest /\ doc'.articles = 0 /\ doc'.loaded = FALSE /\ UNCHANGED requests
    BY <1>4 DEF Commit, NoDoc
  <2>2. Latest \in 1 .. Latest
    BY <1>0, <2>1 DEF DocTypes
  <2>3. requests[Latest].sent \in Nat
    BY <2>2, RequestFacts DEF RequestTypes
  <2> QED
    BY <1>0, <2>1, <2>2, <2>3 DEF RequestInv, Request, Latest
<1>5. CASE ArticleArrives
  <2>1. /\ doc.n > 0 /\ doc.articles < Request.sent /\ UNCHANGED requests
        /\ doc'.n = doc.n /\ doc'.articles = doc.articles + 1 /\ doc'.loaded = doc.loaded
    BY <1>0, <1>5 DEF ArticleArrives, DocTypes
  <2>2. doc.n \in 1 .. Latest
    BY <1>0, <2>1 DEF RequestInv, DocTypes
  <2>3. Request.sent \in Nat /\ doc.articles \in Nat
    BY <1>0, <2>2, RequestFacts DEF Request, RequestTypes, DocTypes
  <2> QED
    BY <2>1, <2>3 DEF RequestInv, Request, Latest
<1>6. ASSUME NEW visible \in BOOLEAN, LoadFinished(visible) PROVE RequestInv'
  <2>1. /\ doc.n > 0 /\ Request.state = "done" /\ doc.articles = Request.sent
        /\ doc' = [doc EXCEPT !.loaded = TRUE] /\ UNCHANGED requests
    BY <1>6, LoadFinishedIs
  <2>2. doc'.n = doc.n /\ doc'.articles = doc.articles
    BY <1>0, <2>1 DEF DocTypes
  <2> QED
    BY <2>1, <2>2 DEF RequestInv, Request, Latest
<1>7. ASSUME UNCHANGED requests,
             \/ \E a : doc' = [doc EXCEPT !.active = a]
             \/ \E c : doc' = [doc EXCEPT !.collapsed = c]
             \/ \E a, c : doc' = [doc EXCEPT !.collapsed = c, !.active = a]
             \/ UNCHANGED doc
      PROVE  RequestInv'
  <2>1. doc'.n = doc.n /\ doc'.articles = doc.articles /\ doc'.loaded = doc.loaded
    BY <1>0, <1>7 DEF DocTypes
  <2> QED
    BY <1>7, <2>1, RequestKept
<1>8. ASSUME NEW d \in Dicts, Click(d) \/ Collapse(d) \/ Expand(d) PROVE RequestInv'
  BY <1>7, <1>8 DEF Click, Collapse, Expand
<1>9. CASE RunMakeActive \/ RunCheckNumber
  BY <1>7, <1>9 DEF RunMakeActive, RunCheckNumber
<1>10. CASE OnCollapse \/ OnJsActiveArticleChanged
  BY <1>7, <1>10 DEF OnCollapse, OnJsActiveArticleChanged
<1>11. CASE \/ MoveOneArticleUp \/ MoveOneArticleDown
            \/ \E d \in Dicts : JumpToDictionary(d)
  BY <1>7, <1>11, MovesAreByUser DEF SetByUser
<1>12. CASE UNCHANGED vars
  BY <1>7, <1>12 DEF vars
<1> QED
  BY <1>1, <1>2, <1>3, <1>4, <1>5, <1>6, <1>8, <1>9, <1>10, <1>11, <1>12, <1>13, PagesInv
     DEF Next, Asking, OnlyView

-----------------------------------------------------------------------------
(* The list of dictionaries is that of the page. *)

\* ListInv stays when nothing it speaks of changes.
LEMMA ListKept ==
  ASSUME ListInv, UNCHANGED <<asked, requests, currentActiveDictIds, stray>>
  PROVE  ListInv'
BY DEF ListInv, Latest, Current, asked

\* The steps of a request keep ListInv.
LEMMA PagesList ==
  ASSUME TypeInv, RequestInv, ListInv, NEW n \in 1 .. Latest
  PROVE  /\ RequestStarts(n) => ListInv'
         /\ RequestGone(n) => ListInv'
         /\ \A k \in 1 .. Len(Articles[requests[n].query]) : BodyFinished(n, k) => ListInv'
<1> DEFINE L == Latest
           last == requests[L]
<1>0. /\ L \in Nat /\ L \in 1 .. L /\ L > 0 /\ n <= L
      /\ last \in RequestTypes /\ requests[n] \in RequestTypes
      /\ Articles[last.query] \in Seq(Dicts) /\ IsInjective(Articles[last.query])
      /\ last.sent \in Nat
  <2>1. L \in Nat /\ L \in 1 .. L /\ L > 0 /\ n <= L
    BY DEF TypeInv, Latest
  <2> QED
    BY <2>1, RequestFacts DEF RequestTypes
<1>1. ASSUME RequestStarts(n) PROVE ListInv'
  <2>1. /\ Latest' = L /\ \A m \in 1 .. L : m # n => requests'[m] = requests[m]
        /\ requests'[n] = [requests[n] EXCEPT !.state = "running"]
    BY <1>1, PageSteps
  <2>2. requests'[L].query = last.query /\ requests'[L].sent = last.sent
    BY <1>0, <2>1 DEF RequestTypes
  <2>3. UNCHANGED <<historyMode, disowned>> /\ Current' = Current
    BY <1>1 DEF RequestStarts, asked, Current
  <2>4. CASE requests[n].query = Current
    <3>1. currentActiveDictIds' = <<>>
      BY <1>1, <2>4 DEF RequestStarts
    <3>2. last.sent = 0
      BY <1>0, <1>1 DEF RequestStarts, RequestInv
    <3>3. SubSeq(Articles[last.query], 1, 0) = <<>>
      BY <1>0
    <3> QED
      BY <1>0, <2>1, <2>2, <2>3, <3>1, <3>2, <3>3 DEF ListInv
  <2>5. CASE requests[n].query # Current
    <3>1. UNCHANGED <<currentActiveDictIds, stray>>
      BY <1>1, <2>5 DEF RequestStarts
    <3> QED
      BY <1>0, <2>1, <2>2, <2>3, <3>1 DEF ListInv
  <2> QED
    BY <2>4, <2>5
<1>2. ASSUME RequestGone(n) PROVE ListInv'
  <2>1. /\ Latest' = L /\ \A m \in 1 .. L : m # n => requests'[m] = requests[m]
        /\ requests'[n] = [requests[n] EXCEPT !.state = "gone"]
    BY <1>2, PageSteps
  <2>2. requests'[L].query = last.query /\ requests'[L].sent = last.sent
    BY <1>0, <2>1 DEF RequestTypes
  <2>3. UNCHANGED <<historyMode, disowned, currentActiveDictIds, stray>> /\ Current' = Current
    BY <1>2 DEF RequestGone, viewVars, asked, Current
  <2> QED
    BY <1>0, <2>1, <2>2, <2>3 DEF ListInv
<1>3. ASSUME NEW k \in 1 .. Len(Articles[requests[n].query]), BodyFinished(n, k)
      PROVE  ListInv'
  <2> DEFINE r == requests[n]
             ds == SubSeq(Articles[r.query], r.sent + 1, r.sent + k)
  <2>1. /\ Latest' = L /\ \A m \in 1 .. L : m # n => requests'[m] = requests[m]
        /\ r.sent + k <= Len(Articles[r.query])
        /\ requests'[n].query = r.query /\ requests'[n].sent = r.sent + k
    BY <1>3, PageSteps
  <2>2. UNCHANGED <<historyMode, disowned>> /\ Current' = Current
    BY <1>3 DEF BodyFinished, asked, Current
  <2>3. CASE Accepts(r.query)
    <3>1. /\ currentActiveDictIds' = AddNew(currentActiveDictIds, ds)
          /\ stray' = (stray \/ (n # L /\ (historyMode \/ r.query = last.query)))
      BY <1>3, <2>3 DEF BodyFinished
    <3>2. CASE n = L
      <4>1. k \in Nat /\ r.sent \in Nat
        BY <1>0, <1>3, <3>2
      <4>2. ASSUME ~stray', ~disowned'
            PROVE  currentActiveDictIds' = SubSeq(Articles[last.query], 1, last.sent + k)
        <5>1. currentActiveDictIds = SubSeq(Articles[last.query], 1, last.sent)
          BY <1>0, <2>2, <3>1, <4>2 DEF ListInv
        <5> QED
          BY <1>0, <2>1, <3>1, <3>2, <4>1, <5>1, AddNewWhole
      <4> QED
        BY <1>0, <2>1, <2>2, <3>2, <4>2 DEF ListInv
    <3>3. CASE n # L
      <4>1. stray' \/ disowned'
        BY <1>0, <2>2, <2>3, <3>1, <3>3 DEF Accepts, ListInv
      <4>2. requests'[L].query = last.query
        BY <1>0, <2>1, <3>3
      <4> QED
        BY <1>0, <2>1, <2>2, <4>1, <4>2 DEF ListInv
    <3> QED
      BY <3>2, <3>3
  <2>4. CASE ~Accepts(r.query)
    <3>1. UNCHANGED <<currentActiveDictIds, stray>>
      BY <1>3, <2>4 DEF BodyFinished
    <3>2. n # L \/ disowned'
      BY <1>0, <2>2, <2>4 DEF Accepts, ListInv
    <3>3. requests'[L].query = last.query /\ (n # L => requests'[L] = last)
      BY <1>0, <2>1
    <3> QED
      BY <1>0, <2>1, <2>2, <3>1, <3>2, <3>3 DEF ListInv
  <2> QED
    BY <2>3, <2>4
<1> QED
  BY <1>1, <1>2, <1>3

\* A page asked for makes ListInv true.
LEMMA AskForList ==
  ASSUME TypeInv, NEW w \in Queries, NEW s \in Ids \cup {NoScroll}, AskFor(w, s),
         AsksFor(w)
  PROVE  ListInv'
<1>1. requests'[Latest + 1] = [query |-> w, scrollTo |-> s, state |-> "asked",
                               sent |-> 0, closed |-> {}]
  BY AskForFacts, Zenon
<1>2. Latest' = Latest + 1 /\ currentActiveDictIds' = <<>>
  BY AskForFacts
<1>3. requests'[Latest'].query = w /\ requests'[Latest'].sent = 0
  BY <1>1, <1>2
<1>4. SubSeq(Articles[w], 1, 0) = <<>>
  <2>1. Articles[w] \in Seq(Dicts)
    BY ArticlePageAssumption
  <2> QED
    BY <2>1
<1> QED
  BY <1>2, <1>3, <1>4 DEF ListInv, AsksFor

\* Every step keeps ListInv.
LEMMA ListStep ==
  ASSUME TypeInv, RequestInv, ListInv, [Next]_vars
  PROVE  ListInv'
<1>1. CASE Asking
  BY <1>1, PageAsked, AskForList
<1>2. CASE OnlyView
  <2>1. /\ UNCHANGED <<historyMode, currentActiveDictIds, requests, stray>>
        /\ disowned' = ~historyMode /\ Latest' = Latest
    BY <1>2, OnlyViewIs DEF Latest
  <2>2. ASSUME Latest' > 0
        PROVE  /\ historyMode' => ~disowned'
               /\ ~historyMode' => disowned'
               /\ ~stray' /\ ~disowned' => currentActiveDictIds' =
                    SubSeq(Articles[requests'[Latest'].query], 1, requests'[Latest'].sent)
    <3>1. historyMode' => ~disowned' /\ historyMode
      BY <2>1, Zenon
    <3>2. ~historyMode' => disowned'
      BY <2>1, Zenon
    <3>3. Latest > 0
      BY <2>1, <2>2
    <3>4. ~stray' /\ ~disowned' => ~stray /\ ~disowned
      BY <2>1, <3>1, <3>2, <3>3, Zenon DEF ListInv
    <3>5. ~stray' /\ ~disowned' => currentActiveDictIds =
            SubSeq(Articles[requests[Latest].query], 1, requests[Latest].sent)
      BY <3>3, <3>4, Zenon DEF ListInv
    <3> QED
      BY <2>1, <3>1, <3>2, <3>5, Zenon
  <2> QED
    BY <2>2, Zenon DEF ListInv
<1>10. ASSUME NEW d \in Dicts, OtherCollapse(d) PROVE ListInv'
  BY <1>10, OtherCollapseIs, ListKept DEF viewVars, asked
<1>3. ASSUME NEW w \in Queries, OtherRequest(w) PROVE ListInv'
  BY <1>3 DEF OtherRequest, ListInv, Latest, Current, asked
<1>4. CASE Commit \/ ArticleArrives \/ RunMakeActive \/ RunCheckNumber \/ OnCollapse
  BY <1>4, ListKept DEF Commit, ArticleArrives, RunMakeActive, RunCheckNumber, OnCollapse,
                        viewVars, asked
<1>5. ASSUME NEW visible \in BOOLEAN, LoadFinished(visible) PROVE ListInv'
  BY <1>5, ListKept DEF LoadFinished
<1>6. ASSUME NEW d \in Dicts, Click(d) \/ Collapse(d) \/ Expand(d) PROVE ListInv'
  BY <1>6, ListKept DEF Click, Collapse, Expand, viewVars, asked
<1>7. CASE OnJsActiveArticleChanged
  BY <1>7, ListKept DEF OnJsActiveArticleChanged
<1>8. CASE \/ MoveOneArticleUp \/ MoveOneArticleDown
           \/ \E d \in Dicts : JumpToDictionary(d)
  BY <1>8, MovesAreByUser, ListKept DEF SetByUser
<1>9. CASE UNCHANGED vars
  BY <1>9, ListKept DEF vars, viewVars, asked
<1> QED
  BY <1>1, <1>2, <1>3, <1>4, <1>5, <1>6, <1>7, <1>8, <1>9, <1>10, PagesList
     DEF Next, Asking, OnlyView

\* The fronts of a sequence are prefixes of the longer ones.
LEMMA FrontIsPrefix ==
  ASSUME NEW s \in Seq(Dicts), NEW m \in Nat, NEW n \in Nat, m <= n, n <= Len(s)
  PROVE  IsPrefix(SubSeq(s, 1, m), SubSeq(s, 1, n)) /\ IsPrefix(SubSeq(s, 1, n), s)
<1>1. /\ Len(SubSeq(s, 1, m)) = m /\ Len(SubSeq(s, 1, n)) = n /\ Len(s) \in Nat
  OBVIOUS
<1>2. /\ SubSeq(SubSeq(s, 1, m), 1, m) = SubSeq(s, 1, m)
      /\ SubSeq(SubSeq(s, 1, n), 1, m) = SubSeq(s, 1, m)
      /\ SubSeq(SubSeq(s, 1, n), 1, n) = SubSeq(s, 1, n)
  OBVIOUS
<1> QED
  BY <1>1, <1>2 DEF IsPrefix

\* The invariant gives ListIsPage.
LEMMA ListFollows ==
  ASSUME TypeInv, RequestInv, ListInv
  PROVE  ListIsPage
<1> SUFFICES ASSUME doc.n > 0, doc.n = Latest, ~stray, ~disowned
             PROVE  /\ IsPrefix(SubSeq(Articles[Request.query], 1, doc.articles),
                                currentActiveDictIds)
                    /\ IsPrefix(currentActiveDictIds, Articles[Request.query])
  BY DEF ListIsPage
<1>1. doc.n \in 1 .. Latest /\ doc.articles \in Nat
  BY DEF TypeInv, DocTypes
<1>2. /\ Articles[Request.query] \in Seq(Dicts) /\ Request.sent \in Nat
      /\ Request.sent <= Len(Articles[Request.query]) /\ doc.articles <= Request.sent
  BY <1>1, RequestFacts DEF Request, RequestTypes, RequestInv
<1>3. currentActiveDictIds = SubSeq(Articles[Request.query], 1, Request.sent)
  BY DEF ListInv, Request
<1> QED
  BY <1>1, <1>2, <1>3, FrontIsPrefix

-----------------------------------------------------------------------------
(* The channels. *)

\* The messages about the active article in two channels joined.
LEMMA ActiveOfConcat ==
  ASSUME NEW S, NEW ch \in Seq(S), NEW t \in Seq(S)
  PROVE  /\ HasActive(ch \o t) <=> HasActive(ch) \/ HasActive(t)
         /\ OfThisPage(ch \o t) <=> OfThisPage(ch) /\ OfThisPage(t)
         /\ \A d : ~HasActive(t) /\ LastActiveIs(ch, d) => LastActiveIs(ch \o t, d)
         /\ \A d : LastActiveIs(t, d) => LastActiveIs(ch \o t, d)
<1> DEFINE u == ch \o t
           M == Len(ch)
           N == Len(t)
<1>1. /\ M \in Nat /\ N \in Nat /\ DOMAIN ch = 1 .. M /\ DOMAIN t = 1 .. N
      /\ DOMAIN u = 1 .. M + N
      /\ \A i \in 1 .. M : u[i] = ch[i] /\ i \in 1 .. M + N
      /\ \A i \in 1 .. N : u[M + i] = t[i] /\ M + i \in 1 .. M + N
  OBVIOUS
<1> HIDE DEF u, M, N
<1>2. \A i \in 1 .. M + N : i \in 1 .. M \/ \E j \in 1 .. N : i = M + j
  <2> SUFFICES ASSUME NEW i \in 1 .. M + N, i \notin 1 .. M
               PROVE  \E j \in 1 .. N : i = M + j
    OBVIOUS
  <2>1. i - M \in 1 .. N /\ i = M + (i - M)
    BY <1>1
  <2> QED
    BY <2>1
<1>a. /\ HasActive(u) <=> \E i \in 1 .. M + N : u[i].kind = "active"
      /\ HasActive(ch) <=> \E i \in 1 .. M : ch[i].kind = "active"
      /\ HasActive(t) <=> \E i \in 1 .. N : t[i].kind = "active"
  BY <1>1 DEF HasActive
<1>b. /\ OfThisPage(u) <=> \A i \in 1 .. M + N : u[i].kind = "active" => u[i].page = doc.n
      /\ OfThisPage(ch) <=> \A i \in 1 .. M : ch[i].kind = "active" => ch[i].page = doc.n
      /\ OfThisPage(t) <=> \A i \in 1 .. N : t[i].kind = "active" => t[i].page = doc.n
  BY <1>1 DEF OfThisPage
<1>3. HasActive(u) <=> HasActive(ch) \/ HasActive(t)
  <2>1. ASSUME HasActive(ch) \/ HasActive(t) PROVE HasActive(u)
    BY <1>1, <1>a, <2>1
  <2>2. ASSUME HasActive(u) PROVE HasActive(ch) \/ HasActive(t)
    <3>1. PICK i \in 1 .. M + N : u[i].kind = "active"
      BY <1>a, <2>2
    <3>2. CASE i \in 1 .. M
      BY <1>1, <1>a, <3>1, <3>2
    <3>3. ASSUME NEW j \in 1 .. N, i = M + j PROVE HasActive(t)
      BY <1>1, <1>a, <3>1, <3>3
    <3> QED
      BY <1>2, <3>2, <3>3
  <2> QED
    BY <2>1, <2>2
<1>4. OfThisPage(u) <=> OfThisPage(ch) /\ OfThisPage(t)
  <2>1. ASSUME OfThisPage(u) PROVE OfThisPage(ch) /\ OfThisPage(t)
    BY <1>1, <1>b, <2>1
  <2>2. ASSUME OfThisPage(ch), OfThisPage(t) PROVE OfThisPage(u)
    <3>1. ASSUME NEW i \in 1 .. M + N, u[i].kind = "active" PROVE u[i].page = doc.n
      <4>1. CASE i \in 1 .. M
        BY <1>1, <1>b, <2>2, <3>1, <4>1
      <4>2. ASSUME NEW j \in 1 .. N, i = M + j PROVE u[i].page = doc.n
        BY <1>1, <1>b, <2>2, <3>1, <4>2
      <4> QED
        BY <1>2, <4>1, <4>2
    <3> QED
      BY <1>b, <3>1
  <2> QED
    BY <2>1, <2>2
<1>5. ASSUME NEW d, ~HasActive(t), LastActiveIs(ch, d) PROVE LastActiveIs(u, d)
  <2>1. PICK i \in 1 .. M : /\ ch[i].kind = "active" /\ ch[i].dict = d
                            /\ \A j \in 1 .. M : ch[j].kind = "active" => j <= i
    BY <1>1, <1>5 DEF LastActiveIs
  <2>2. \A j \in 1 .. M + N : u[j].kind = "active" => j \in 1 .. M /\ j <= i
    <3> SUFFICES ASSUME NEW j \in 1 .. M + N, u[j].kind = "active"
                 PROVE  j \in 1 .. M /\ j <= i
      OBVIOUS
    <3>1. ~ \E l \in 1 .. N : j = M + l
      BY <1>1, <1>5, <1>a
    <3>2. j \in 1 .. M
      BY <1>2, <3>1
    <3> QED
      BY <1>1, <2>1, <3>2
  <2> QED
    BY <1>1, <2>1, <2>2 DEF LastActiveIs
<1>6. ASSUME NEW d, LastActiveIs(t, d) PROVE LastActiveIs(u, d)
  <2>1. PICK i \in 1 .. N : /\ t[i].kind = "active" /\ t[i].dict = d
                            /\ \A j \in 1 .. N : t[j].kind = "active" => j <= i
    BY <1>1, <1>6 DEF LastActiveIs
  <2>2. ASSUME NEW j \in 1 .. M + N, u[j].kind = "active" PROVE j <= M + i
    <3>1. CASE j \in 1 .. M
      BY <1>1, <3>1
    <3>2. ASSUME NEW l \in 1 .. N, j = M + l PROVE j <= M + i
      <4>1. l <= i
        BY <1>1, <2>1, <2>2, <3>2
      <4> QED
        BY <1>1, <3>2, <4>1
    <3> QED
      BY <1>2, <3>1, <3>2
  <2>3. M + i \in DOMAIN u /\ u[M + i].kind = "active" /\ u[M + i].dict = d
    BY <1>1, <2>1
  <2> QED
    BY <1>1, <2>2, <2>3 DEF LastActiveIs
<1> QED
  BY <1>3, <1>4, <1>5, <1>6 DEF u

\* ... in one of a single message, and an empty one.
LEMMA ActiveOfOne ==
  ASSUME NEW m
  PROVE  /\ HasActive(<<m>>) <=> m.kind = "active"
         /\ OfThisPage(<<m>>) <=> (m.kind = "active" => m.page = doc.n)
         /\ m.kind = "active" => LastActiveIs(<<m>>, m.dict)
         /\ ~HasActive(<<>>) /\ OfThisPage(<<>>)
<1>1. DOMAIN <<m>> = {1} /\ <<m>>[1] = m /\ DOMAIN <<>> = {}
  OBVIOUS
<1> QED
  BY <1>1 DEF HasActive, OfThisPage, LastActiveIs

\* ... and in what the first message leaves.
LEMMA ActiveOfTail ==
  ASSUME NEW S, NEW ch \in Seq(S), ch # <<>>
  PROVE  /\ HasActive(ch) <=> Head(ch).kind = "active" \/ HasActive(Tail(ch))
         /\ OfThisPage(ch) <=> (Head(ch).kind = "active" => Head(ch).page = doc.n)
                                 /\ OfThisPage(Tail(ch))
         /\ \A d : LastActiveIs(ch, d) =>
              IF HasActive(Tail(ch)) THEN LastActiveIs(Tail(ch), d)
              ELSE Head(ch).kind = "active" /\ Head(ch).dict = d
<1> DEFINE t == Tail(ch)
           N == Len(ch)
<1>1. /\ N \in Nat /\ N > 0 /\ DOMAIN ch = 1 .. N /\ DOMAIN t = 1 .. N - 1
      /\ Head(ch) = ch[1] /\ \A i \in 1 .. N - 1 : t[i] = ch[i + 1]
  OBVIOUS
<1> HIDE DEF t, N
<1>2. /\ \A i \in 1 .. N : i = 1 \/ (i - 1 \in 1 .. N - 1 /\ ch[i] = t[i - 1])
      /\ \A i \in 1 .. N - 1 : i + 1 \in 1 .. N
      /\ 1 \in 1 .. N
  <2>1. \A i \in 1 .. N : i = 1 \/ (i - 1 \in 1 .. N - 1 /\ (i - 1) + 1 = i)
    BY <1>1
  <2> QED
    BY <1>1, <2>1
<1>a. /\ HasActive(ch) <=> \E i \in 1 .. N : ch[i].kind = "active"
      /\ HasActive(t) <=> \E i \in 1 .. N - 1 : t[i].kind = "active"
  BY <1>1 DEF HasActive
<1>b. /\ OfThisPage(ch) <=> \A i \in 1 .. N : ch[i].kind = "active" => ch[i].page = doc.n
      /\ OfThisPage(t) <=> \A i \in 1 .. N - 1 : t[i].kind = "active" => t[i].page = doc.n
  BY <1>1 DEF OfThisPage
<1>c. \A i \in 1 .. N - 1 : t[i] = ch[i + 1] /\ i + 1 \in 1 .. N
  BY <1>1, <1>2
<1>3. HasActive(ch) <=> ch[1].kind = "active" \/ HasActive(t)
  <2>1. ASSUME HasActive(ch) PROVE ch[1].kind = "active" \/ HasActive(t)
    BY <1>2, <1>a, <2>1
  <2>2. ASSUME ch[1].kind = "active" \/ HasActive(t) PROVE HasActive(ch)
    BY <1>2, <1>a, <1>c, <2>2
  <2> QED
    BY <2>1, <2>2
<1>4. OfThisPage(ch) <=> (ch[1].kind = "active" => ch[1].page = doc.n) /\ OfThisPage(t)
  <2>1. ASSUME OfThisPage(ch)
        PROVE  (ch[1].kind = "active" => ch[1].page = doc.n) /\ OfThisPage(t)
    BY <1>2, <1>b, <1>c, <2>1
  <2>2. ASSUME ch[1].kind = "active" => ch[1].page = doc.n, OfThisPage(t)
        PROVE  OfThisPage(ch)
    BY <1>2, <1>b, <2>2
  <2> QED
    BY <2>1, <2>2
<1>5. ASSUME NEW d, LastActiveIs(ch, d)
      PROVE  IF HasActive(t) THEN LastActiveIs(t, d)
             ELSE ch[1].kind = "active" /\ ch[1].dict = d
  <2>1. PICK i \in 1 .. N : /\ ch[i].kind = "active" /\ ch[i].dict = d
                            /\ \A j \in 1 .. N : ch[j].kind = "active" => j <= i
    BY <1>1, <1>5 DEF LastActiveIs
  <2>2. CASE HasActive(t)
    <3>1. PICK l \in 1 .. N - 1 : t[l].kind = "active"
      BY <1>1, <2>2 DEF HasActive
    <3>2. l + 1 <= i
      BY <1>1, <1>2, <2>1, <3>1
    <3>3. i - 1 \in 1 .. N - 1 /\ ch[i] = t[i - 1]
      BY <1>1, <1>2, <3>2
    <3>4. \A j \in 1 .. N - 1 : t[j].kind = "active" => j <= i - 1
      <4>1. \A j \in 1 .. N - 1 : t[j].kind = "active" => j + 1 <= i
        BY <1>1, <1>2, <2>1
      <4> QED
        BY <1>1, <4>1
    <3>5. LastActiveIs(t, d)
      BY <1>1, <2>1, <3>3, <3>4 DEF LastActiveIs
    <3> QED
      BY <2>2, <3>5
  <2>3. CASE ~HasActive(t)
    <3>1. i = 1
      BY <1>2, <1>a, <2>1, <2>3
    <3> QED
      BY <2>1, <2>3, <3>1
  <2> QED
    BY <2>2, <2>3
<1> QED
  BY <1>1, <1>3, <1>4, <1>5 DEF t

-----------------------------------------------------------------------------
(* View and page agree. *)

\* No step but Commit changes the word of a page, or takes an article off it.
LEMMA PageGrows ==
  ASSUME TypeInv, RequestInv, [Next]_vars, ~Commit
  PROVE  /\ doc'.n = doc.n /\ InDoc \subseteq InDoc'
         /\ Latest <= Latest'
         /\ \A n \in 1 .. Latest : requests'[n].query = requests[n].query
<1>0. doc \in DocTypes /\ Latest \in Nat
  BY DEF TypeInv, Latest
<1>1. doc'.n = doc.n /\ doc'.articles \in Nat /\ doc.articles <= doc'.articles
  <2>1. CASE ArticleArrives
    BY <1>0, <2>1 DEF ArticleArrives, DocTypes
  <2>2. ASSUME UNCHANGED doc
        PROVE  doc'.n = doc.n /\ doc'.articles \in Nat /\ doc.articles <= doc'.articles
    BY <1>0, <2>2 DEF DocTypes
  <2>3. ASSUME \/ \E a : doc' = [doc EXCEPT !.active = a]
               \/ \E c : doc' = [doc EXCEPT !.collapsed = c]
               \/ \E a, c : doc' = [doc EXCEPT !.collapsed = c, !.active = a]
               \/ doc' = [doc EXCEPT !.loaded = TRUE]
        PROVE  doc'.n = doc.n /\ doc'.articles \in Nat /\ doc.articles <= doc'.articles
    <3>1. doc'.n = doc.n /\ doc'.articles = doc.articles
      BY <1>0, <2>3 DEF DocTypes
    <3>2. doc.articles \in Nat
      BY <1>0 DEF DocTypes
    <3> QED
      BY <3>1, <3>2
  <2>4. CASE Asking
    <3>1. UNCHANGED doc
      BY <2>4, PageAsked, AskForFacts
    <3> QED
      BY <2>2, <3>1
  <2>13. CASE OnlyView
    BY <2>2, <2>13, OnlyViewIs
  <2>14. ASSUME NEW d \in Dicts, OtherCollapse(d) PROVE UNCHANGED <<doc, requests>>
    BY <2>14, OtherCollapseIs
  <2>5. ASSUME NEW n \in 1 .. Latest,
               \/ RequestStarts(n) \/ RequestGone(n)
               \/ \E k \in 1 .. Len(Articles[requests[n].query]) : BodyFinished(n, k)
        PROVE  UNCHANGED doc
    BY <2>5 DEF RequestStarts, RequestGone, BodyFinished
  <2>6. ASSUME NEW w \in Queries, OtherRequest(w) PROVE UNCHANGED doc
    BY <2>6 DEF OtherRequest
  <2>7. ASSUME NEW visible \in BOOLEAN, LoadFinished(visible)
        PROVE  doc' = [doc EXCEPT !.loaded = TRUE]
    BY <2>7 DEF LoadFinished
  <2>8. ASSUME NEW d \in Dicts, Click(d) \/ Collapse(d) \/ Expand(d)
        PROVE  doc'.n = doc.n /\ doc'.articles \in Nat /\ doc.articles <= doc'.articles
    BY <2>3, <2>8 DEF Click, Collapse, Expand
  <2>9. CASE RunMakeActive \/ RunCheckNumber
    BY <2>3, <2>9 DEF RunMakeActive, RunCheckNumber
  <2>10. CASE OnCollapse \/ OnJsActiveArticleChanged
    BY <2>2, <2>10 DEF OnCollapse, OnJsActiveArticleChanged
  <2>11. CASE \/ MoveOneArticleUp \/ MoveOneArticleDown
              \/ \E d \in Dicts : JumpToDictionary(d)
    BY <2>2, <2>11, MovesAreByUser DEF SetByUser
  <2>12. CASE UNCHANGED vars
    BY <2>2, <2>12 DEF vars
  <2> QED
    BY <2>1, <2>2, <2>3, <2>4, <2>5, <2>6, <2>7, <2>8, <2>9, <2>10, <2>11, <2>12, <2>13,
       <2>14 DEF Next, Asking, OnlyView
<1>2. /\ Latest <= Latest'
      /\ \A n \in 1 .. Latest : requests'[n].query = requests[n].query
  <2>1. ASSUME UNCHANGED requests
        PROVE  /\ Latest <= Latest'
               /\ \A n \in 1 .. Latest : requests'[n].query = requests[n].query
    BY <1>0, <2>1 DEF Latest
  <2>2. ASSUME NEW w \in Queries, NEW s \in Ids \cup {NoScroll}, AskFor(w, s)
        PROVE  /\ Latest <= Latest'
               /\ \A n \in 1 .. Latest : requests'[n].query = requests[n].query
    <3>1. Latest' = Latest + 1 /\ \A n \in 1 .. Latest : requests'[n] = requests[n]
      BY <2>2, AskForFacts
    <3> QED
      BY <1>0, <3>1
  <2>3. CASE Asking
    BY <2>2, <2>3, PageAsked
  <2>4. CASE OnlyView
    BY <2>1, <2>4, OnlyViewIs
  <2>13. ASSUME NEW d \in Dicts, OtherCollapse(d) PROVE UNCHANGED requests
    BY <2>13, OtherCollapseIs
  <2>5. ASSUME NEW n \in 1 .. Latest,
               \/ RequestStarts(n) \/ RequestGone(n)
               \/ \E k \in 1 .. Len(Articles[requests[n].query]) : BodyFinished(n, k)
        PROVE  /\ Latest <= Latest'
               /\ \A m \in 1 .. Latest : requests'[m].query = requests[m].query
    <3>1. /\ Latest' = Latest /\ \A m \in 1 .. Latest : m # n => requests'[m] = requests[m]
          /\ \/ requests'[n] = [requests[n] EXCEPT !.state = "running"]
             \/ requests'[n] = [requests[n] EXCEPT !.state = "gone"]
             \/ requests'[n].query = requests[n].query
      BY <2>5, PageSteps
    <3>2. requests'[n].query = requests[n].query
      BY <3>1, RequestFacts DEF RequestTypes
    <3> QED
      BY <1>0, <3>1, <3>2
  <2>6. ASSUME NEW w \in Queries, OtherRequest(w) PROVE UNCHANGED requests
    BY <2>6 DEF OtherRequest
  <2>7. ASSUME NEW visible \in BOOLEAN, LoadFinished(visible) PROVE UNCHANGED requests
    BY <2>7 DEF LoadFinished
  <2>8. ASSUME NEW d \in Dicts, Click(d) \/ Collapse(d) \/ Expand(d) PROVE UNCHANGED requests
    BY <2>8 DEF Click, Collapse, Expand
  <2>9. CASE ArticleArrives \/ RunMakeActive \/ RunCheckNumber
    BY <2>1, <2>9 DEF ArticleArrives, RunMakeActive, RunCheckNumber
  <2>10. CASE OnCollapse \/ OnJsActiveArticleChanged
    BY <2>1, <2>10 DEF OnCollapse, OnJsActiveArticleChanged
  <2>11. CASE \/ MoveOneArticleUp \/ MoveOneArticleDown
              \/ \E d \in Dicts : JumpToDictionary(d)
    BY <2>1, <2>11, MovesAreByUser DEF SetByUser
  <2>12. CASE UNCHANGED vars
    BY <2>1, <2>12 DEF vars
  <2> QED
    BY <2>1, <2>3, <2>4, <2>5, <2>6, <2>7, <2>8, <2>9, <2>10, <2>11, <2>12, <2>13
       DEF Next, Asking, OnlyView
<1>3. CASE doc.n = 0
  BY <1>0, <1>1, <1>2, <1>3 DEF RequestInv, InDoc, FirstOn
<1>4. CASE doc.n # 0
  <2>1. doc.n \in 1 .. Latest
    BY <1>0, <1>4 DEF RequestInv, DocTypes
  <2>2. Request'.query = Request.query
    BY <1>1, <1>2, <2>1 DEF Request
  <2>3. \A i \in 1 .. doc.articles : i \in 1 .. doc'.articles
    BY <1>0, <1>1 DEF DocTypes
  <2>4. InDoc \subseteq InDoc'
    BY <2>2, <2>3 DEF InDoc, FirstOn
  <2> QED
    BY <1>1, <1>2, <2>4
<1> QED
  BY <1>3, <1>4

\* AgreeInv stays when articles come, and nothing else it speaks of changes.
LEMMA AgreeKept ==
  ASSUME AgreeInv, InDoc \subseteq InDoc', doc'.n = doc.n, doc'.active = doc.active,
         doc'.loaded /\ doc'.n = Latest' => doc.loaded /\ doc.n = Latest,
         UNCHANGED <<toView, toPage, activeDictId, astray>>
  PROVE  AgreeInv'
BY DEF AgreeInv, HasActive, OfThisPage, LastActiveIs

\* The view makes an article active and tells the page, which is `check' besides.
LEMMA AgreeSet ==
  ASSUME TypeInv, AgreeInv, InDoc \subseteq InDoc', doc'.n = doc.n, doc'.active = doc.active,
         UNCHANGED toView, NEW d \in Dicts, NEW check \in Seq(ScriptTypes),
         ~HasActive(check), activeDictId' = d, astray' = HasActive(toView),
         toPage' = (toPage \o <<[kind |-> "active", dict |-> d]>>) \o check
  PROVE  AgreeInv'
<1> DEFINE m == [kind |-> "active", dict |-> d]
           set == toPage \o <<m>>
<1>1. toPage \in Seq(ScriptTypes) /\ <<m>> \in Seq(ScriptTypes)
  BY DEF TypeInv, ScriptTypes, Ids
<1>2. LastActiveIs(<<m>>, d)
  BY ActiveOfOne
<1> HIDE DEF m
<1>3. set \in Seq(ScriptTypes) /\ LastActiveIs(set, d)
  BY <1>1, <1>2, ActiveOfConcat, ConcatProperties
<1> HIDE DEF set
<1>4. toPage' = set \o check
  BY DEF set, m
<1>5. LastActiveIs(set \o check, d)
  BY <1>3, ActiveOfConcat
<1>6. LastActiveIs(toPage', d) /\ HasActive(toPage')
  BY <1>4, <1>5 DEF LastActiveIs, HasActive
<1>7. /\ HasActive(toView)' <=> HasActive(toView)
      /\ \A i \in DOMAIN toView' : toView'[i].page <= doc'.n
      /\ doc'.active \in InDoc' \cup {NoDict}
  BY DEF AgreeInv, HasActive
<1>8. HasActive(toPage)' /\ LastActiveIs(toPage, activeDictId)'
  BY <1>6 DEF HasActive, LastActiveIs
<1> QED
  BY <1>7, <1>8 DEF AgreeInv

\* An article is made active in the page, and the view is told by ch.
LEMMA AgreeTold ==
  ASSUME TypeInv, AgreeInv, InDoc \subseteq InDoc', doc'.n = doc.n,
         doc'.loaded = doc.loaded, Latest' = Latest, UNCHANGED <<activeDictId, toPage>>,
         NEW d \in InDoc, d \in Dicts, doc'.active = MadeActive(d), InDoc = Shown,
         NEW ch \in Seq(CallTypes), HasActive(ch) <=> HasActive(toView),
         OfThisPage(ch) <=> OfThisPage(toView),
         \A e : LastActiveIs(toView, e) => LastActiveIs(ch, e),
         \A i \in DOMAIN ch : ch[i].page <= doc.n,
         IF MadeActive(d) = NoDict THEN toView' = ch /\ UNCHANGED astray
         ELSE toView' = ch \o Event(d) /\ astray' = HasActive(toPage)
  PROVE  AgreeInv'
<1>0. d # NoDict /\ (MadeActive(d) = NoDict <=> doc.active = NoDict)
      /\ MadeActive(d) \in {d, NoDict}
  BY ArticlePageAssumption DEF MadeActive
<1>1. CASE MadeActive(d) = NoDict
  <2>1. doc'.active = doc.active /\ toView' = ch /\ UNCHANGED astray
    BY <1>0, <1>1
  <2>2. /\ HasActive(toView)' <=> HasActive(toView)
        /\ HasActive(toPage)' <=> HasActive(toPage)
        /\ OfThisPage(toView)' <=> OfThisPage(toView)
        /\ \A e : LastActiveIs(toView, e) => LastActiveIs(toView', e)
        /\ \A i \in DOMAIN toView' : toView'[i].page <= doc'.n
    BY <2>1 DEF HasActive, OfThisPage, LastActiveIs
  <2>3. /\ LastActiveIs(toView, doc.active) => LastActiveIs(toView, doc.active)'
        /\ LastActiveIs(toPage, activeDictId) => LastActiveIs(toPage, activeDictId)'
    BY <2>1, <2>2 DEF LastActiveIs
  <2> QED
    BY <2>1, <2>2, <2>3 DEF AgreeInv
<1>2. CASE MadeActive(d) # NoDict
  <2>1. doc'.active = d /\ toView' = ch \o Event(d) /\ astray' = HasActive(toPage)
    BY <1>0, <1>2
  <2>2. /\ Event(d) \in Seq(CallTypes) /\ Event(d) = <<Event(d)[1]>>
        /\ Event(d)[1].kind = "active" /\ Event(d)[1].dict = d /\ Event(d)[1].page = doc.n
    BY CallTyped
  <2>3. HasActive(Event(d)) /\ LastActiveIs(Event(d), d)
    BY <2>2, ActiveOfOne
  <2>4. HasActive(ch \o Event(d)) /\ LastActiveIs(ch \o Event(d), d)
    BY <2>2, <2>3, ActiveOfConcat
  <2>5. HasActive(toView)' /\ LastActiveIs(toView, doc.active)'
    BY <2>1, <2>4 DEF HasActive, LastActiveIs
  <2>6. HasActive(toPage)' <=> HasActive(toPage)
    BY DEF HasActive
  <2>7. \A i \in DOMAIN toView' : toView'[i].page <= doc'.n
    <3> DEFINE e == Event(d)[1]
    <3>1. doc.n \in Nat /\ e.page = doc.n
      BY <2>2 DEF TypeInv, DocTypes
    <3> HIDE DEF e
    <3>2. toView' = ch \o <<e>>
      BY <2>1, <2>2 DEF e
    <3>3. DOMAIN toView' = 1 .. Len(ch) + 1 /\ Len(ch) \in Nat /\ DOMAIN ch = 1 .. Len(ch)
      BY <3>2
    <3>4. \A i \in 1 .. Len(ch) : toView'[i] = ch[i]
      BY <3>2
    <3>5. toView'[Len(ch) + 1] = e
      BY <3>2
    <3>6. \A i \in 1 .. Len(ch) + 1 : i \in 1 .. Len(ch) \/ i = Len(ch) + 1
      BY <3>3
    <3> QED
      BY <3>1, <3>3, <3>4, <3>5, <3>6
  <2>8. doc'.active \in InDoc' \cup {NoDict}
    BY <2>1
  <2> QED
    BY <2>1, <2>5, <2>6, <2>7, <2>8 DEF AgreeInv
<1> QED
  BY <1>1, <1>2

\* A call about the collapsing of an article is none about the active one.
LEMMA CollapseCall ==
  ASSUME TypeInv, AgreeInv, NEW d \in Dicts, NEW on \in BOOLEAN
  PROVE  LET ch == Append(toView, CollapseMsg(d, on))
         IN  /\ ch \in Seq(CallTypes)
             /\ HasActive(ch) <=> HasActive(toView)
             /\ OfThisPage(ch) <=> OfThisPage(toView)
             /\ \A e : LastActiveIs(toView, e) => LastActiveIs(ch, e)
             /\ \A i \in DOMAIN ch : ch[i].page <= doc.n
<1> DEFINE m == CollapseMsg(d, on)
           ch == Append(toView, m)
<1>1. m.kind \in {"collapse", "expand"} /\ m.page = doc.n /\ m \in CallTypes
      /\ toView \in Seq(CallTypes) /\ doc.n \in Nat
  BY CallTyped DEF CollapseMsg, TypeInv, DocTypes
<1> HIDE DEF m
<1>2. <<m>> \in Seq(CallTypes) /\ ~HasActive(<<m>>) /\ OfThisPage(<<m>>)
  BY <1>1, ActiveOfOne
<1>3. ch = toView \o <<m>> /\ ch \in Seq(CallTypes)
  BY <1>1
<1>4. /\ HasActive(ch) <=> HasActive(toView)
      /\ OfThisPage(ch) <=> OfThisPage(toView)
      /\ \A e : LastActiveIs(toView, e) => LastActiveIs(ch, e)
  <2> HIDE DEF ch
  <2>1. toView \in Seq(CallTypes)
    BY <1>1
  <2>2. HasActive(toView \o <<m>>) <=> HasActive(toView) \/ HasActive(<<m>>)
    BY <1>2, <2>1, ActiveOfConcat
  <2>3. OfThisPage(toView \o <<m>>) <=> OfThisPage(toView) /\ OfThisPage(<<m>>)
    BY <1>2, <2>1, ActiveOfConcat
  <2>4. \A e : ~HasActive(<<m>>) /\ LastActiveIs(toView, e) => LastActiveIs(toView \o <<m>>, e)
    BY <1>2, <2>1, ActiveOfConcat
  <2> QED
    BY <1>2, <1>3, <2>2, <2>3, <2>4
<1>5. \A i \in DOMAIN ch : ch[i].page <= doc.n
  <2>1. DOMAIN ch = 1 .. Len(toView) + 1 /\ DOMAIN toView = 1 .. Len(toView)
        /\ Len(toView) \in Nat
        /\ \A i \in 1 .. Len(toView) : ch[i] = toView[i]
    BY <1>1
  <2>0. ch[Len(toView) + 1] = m
    BY <1>1
  <2> HIDE DEF ch
  <2>2. \A i \in 1 .. Len(toView) + 1 : i \in 1 .. Len(toView) \/ i = Len(toView) + 1
    BY <2>1
  <2>3. \A i \in 1 .. Len(toView) : toView[i].page <= doc.n
    BY <2>1 DEF AgreeInv
  <2>4. m.page <= doc.n
    BY <1>1
  <2>5. ASSUME NEW i \in 1 .. Len(toView) + 1 PROVE ch[i].page <= doc.n
    <3>1. CASE i \in 1 .. Len(toView)
      <4>1. ch[i] = toView[i] /\ toView[i].page <= doc.n
        BY <2>1, <2>3, <3>1
      <4> QED
        BY <4>1
    <3>2. CASE i = Len(toView) + 1
      BY <2>0, <2>4, <3>2
    <3> QED
      BY <2>2, <3>1, <3>2
  <2> QED
    BY <2>1, <2>5
<1> QED
  BY <1>3, <1>4, <1>5 DEF m

\* The view has taken the first of the calls.
LEMMA TailCalls ==
  ASSUME TypeInv, AgreeInv, toView # <<>>
  PROVE  \A i \in DOMAIN Tail(toView) : Tail(toView)[i].page <= doc.n
<1>1. /\ toView \in Seq(CallTypes) /\ DOMAIN toView = 1 .. Len(toView)
      /\ Len(toView) \in Nat /\ DOMAIN Tail(toView) = 1 .. Len(toView) - 1
      /\ \A i \in 1 .. Len(toView) - 1 : Tail(toView)[i] = toView[i + 1]
  BY DEF TypeInv
<1>2. \A i \in 1 .. Len(toView) - 1 : i + 1 \in 1 .. Len(toView)
  BY <1>1
<1>3. \A i \in 1 .. Len(toView) : toView[i].page <= doc.n
  BY <1>1 DEF AgreeInv
<1>4. ASSUME NEW i \in 1 .. Len(toView) - 1 PROVE Tail(toView)[i].page <= doc.n
  <2>1. Tail(toView)[i] = toView[i + 1] /\ toView[i + 1].page <= doc.n
    BY <1>1, <1>2, <1>3
  <2> QED
    BY <2>1
<1> QED
  BY <1>1, <1>4

\* Every step keeps AgreeInv.
LEMMA AgreeStep ==
  ASSUME TypeInv, RequestInv, AgreeInv, [Next]_vars
  PROVE  AgreeInv'
<1>0. /\ doc \in DocTypes /\ Latest \in Nat /\ doc.n \in Nat
      /\ toView \in Seq(CallTypes) /\ toPage \in Seq(ScriptTypes)
      /\ Shown = InDoc /\ InDoc \subseteq Dicts
  BY ShownIs DEF TypeInv, Latest, DocTypes
<1>1. CASE Commit
  <2>1. /\ doc.n < Latest /\ doc'.n = Latest /\ doc'.active = NoDict /\ doc'.loaded = FALSE
        /\ astray' = FALSE /\ UNCHANGED toView
    BY <1>1 DEF Commit, NoDoc, viewVars, asked
  <2>2. /\ \A i \in DOMAIN toView : toView[i].page \in Nat
        /\ \A i \in DOMAIN toView : toView[i].page <= doc.n
    <3>1. \A i \in DOMAIN toView : toView[i] \in CallTypes
      BY <1>0
    <3>2. \A i \in DOMAIN toView : toView[i].page <= doc.n
      BY DEF AgreeInv
    <3> QED
      BY <3>1, <3>2 DEF CallTypes
  <2>3. \A i \in DOMAIN toView : toView[i].page < doc'.n
    BY <1>0, <2>1, <2>2
  <2>4. HasActive(toView)' => ~OfThisPage(toView)'
    BY <1>0, <2>1, <2>2, <2>3 DEF HasActive, OfThisPage
  <2>5. \A i \in DOMAIN toView' : toView'[i].page <= doc'.n
    BY <1>0, <2>1, <2>2, <2>3
  <2> QED
    BY <2>1, <2>4, <2>5 DEF AgreeInv
<1>2. ASSUME ~Commit
      PROVE  /\ doc'.n = doc.n /\ InDoc \subseteq InDoc' /\ Latest' \in Int /\ Latest <= Latest'
             /\ requests' = requests => Latest' = Latest
  <2>1. doc'.n = doc.n /\ InDoc \subseteq InDoc' /\ Latest <= Latest'
    BY <1>2, PageGrows
  <2>2. requests' \in Seq(RequestTypes)
    BY TypeStep DEF TypeInv
  <2> QED
    BY <2>1, <2>2 DEF Latest
<1>3. CASE ArticleArrives
  <2>1. ~Commit
    <3>1. doc.n > 0 /\ doc'.n = doc.n
      BY <1>0, <1>3 DEF ArticleArrives, DocTypes
    <3>2. Commit => doc'.n = Latest /\ doc.n < Latest
      BY DEF Commit, NoDoc
    <3> QED
      BY <1>0, <3>1, <3>2
  <2> DEFINE d == Articles[Request.query][doc.articles + 1]
  <2>2. /\ doc.n > 0 /\ doc.articles < Request.sent /\ doc'.n = doc.n
        /\ doc'.articles = doc.articles + 1 /\ doc'.loaded = doc.loaded
        /\ doc'.active = IF doc.articles = 0 THEN d ELSE doc.active
        /\ UNCHANGED <<requests, toView, toPage, activeDictId, astray>>
    BY <1>0, <1>3 DEF ArticleArrives, DocTypes, viewVars, asked
  <2>3. doc.n \in 1 .. Latest /\ Request.sent \in Nat /\ doc.articles \in Nat
    <3>1. doc.n \in 1 .. Latest
      BY <1>0, <2>2 DEF RequestInv
    <3> QED
      BY <1>0, <3>1, RequestFacts DEF Request, RequestTypes, DocTypes
  <2>4. ~doc.loaded
    BY <2>2, <2>3 DEF RequestInv
  <2>5. d \in InDoc'
    BY <2>2, <2>3 DEF InDoc, FirstOn, Request
  <2>6. CASE doc.articles # 0
    BY <1>2, <2>1, <2>2, <2>4, <2>6, AgreeKept
  <2>7. CASE doc.articles = 0
    <3>1. doc.active = NoDict
      BY <2>7 DEF AgreeInv, InDoc, FirstOn
    <3>2. ~LastActiveIs(toView, NoDict)
      <4>1. \A i \in DOMAIN toView : toView[i] \in CallTypes
        BY <1>0
      <4>2. \A i \in DOMAIN toView : toView[i].dict \in Dicts
        BY <4>1 DEF CallTypes
      <4> QED
        BY <4>2, ArticlePageAssumption DEF LastActiveIs
    <3>3. /\ HasActive(toView)' <=> HasActive(toView)
          /\ HasActive(toPage)' <=> HasActive(toPage)
          /\ OfThisPage(toView)' <=> OfThisPage(toView)
      BY <2>2 DEF HasActive, OfThisPage
    <3>4. doc'.active \in InDoc'
      BY <2>2, <2>5, <2>7
    <3>5. \A i \in DOMAIN toView' : toView'[i].page <= doc'.n
      BY <2>2 DEF AgreeInv
    <3> QED
      BY <2>2, <2>4, <3>1, <3>2, <3>3, <3>4, <3>5 DEF AgreeInv
  <2> QED
    BY <2>6, <2>7
<1>4. ASSUME NEW visible \in BOOLEAN, LoadFinished(visible) PROVE AgreeInv'
  <2>1. /\ doc' = [doc EXCEPT !.loaded = TRUE]
        /\ UNCHANGED <<requests, toView>> /\ ~doc.loaded
    BY <1>4, LoadFinishedIs
  <2>2. doc'.n = doc.n /\ doc'.active = doc.active /\ doc'.articles = doc.articles
    BY <1>0, <2>1 DEF DocTypes
  <2>3. InDoc' = InDoc
    BY <2>1, <2>2 DEF InDoc, FirstOn, Request
  <2>4. PICK check \in Seq(ScriptTypes) :
          /\ ~HasActive(check)
          /\ \/ /\ activeDictId' = NoDict /\ toPage' = toPage \o check
                /\ UNCHANGED astray
             \/ \E d \in Dicts :
                  /\ activeDictId' = d /\ astray' = HasActive(toView)
                  /\ toPage' = (toPage \o <<[kind |-> "active", dict |-> d]>>) \o check
             \/ /\ toPage' = toPage \o check /\ UNCHANGED activeDictId
                /\ astray' = (astray \/ activeDictId # NoDict)
    BY <1>4, LoadFinishedIs
  <2>5. ASSUME NEW d \in Dicts, activeDictId' = d, astray' = HasActive(toView),
               toPage' = (toPage \o <<[kind |-> "active", dict |-> d]>>) \o check
        PROVE  AgreeInv'
    BY <2>1, <2>2, <2>3, <2>4, <2>5, AgreeSet
  <2>6. ASSUME toPage' = toPage \o check, ~astray' => ~astray /\ activeDictId' = NoDict
        PROVE  AgreeInv'
    <3>1. HasActive(toPage \o check) <=> HasActive(toPage)
      BY <1>0, <2>4, ActiveOfConcat
    <3>2. HasActive(toPage)' <=> HasActive(toPage)
      BY <2>6, <3>1 DEF HasActive
    <3>3. /\ HasActive(toView)' <=> HasActive(toView)
          /\ OfThisPage(toView)' <=> OfThisPage(toView)
          /\ LastActiveIs(toView, doc.active)' <=> LastActiveIs(toView, doc.active)
      BY <2>1, <2>2 DEF HasActive, OfThisPage, LastActiveIs
    <3>4. /\ doc'.active \in InDoc' \cup {NoDict}
          /\ \A i \in DOMAIN toView' : toView'[i].page <= doc'.n
      BY <2>1, <2>2, <2>3 DEF AgreeInv
    <3> QED
      BY <2>6, <3>2, <3>3, <3>4 DEF AgreeInv
  <2>7. astray \in BOOLEAN /\ astray' \in BOOLEAN
    BY TypeStep DEF TypeInv
  <2> QED
    BY <2>4, <2>5, <2>6, <2>7
<1>5. ASSUME NEW d \in Dicts, Click(d) PROVE AgreeInv'
  <2>1. /\ doc' = [doc EXCEPT !.active = MadeActive(d)] /\ d \in InDoc
        /\ UNCHANGED <<requests, toPage, activeDictId>>
        /\ IF MadeActive(d) = NoDict THEN UNCHANGED <<toView, astray>>
           ELSE toView' = toView \o Event(d) /\ astray' = HasActive(toPage)
    BY <1>0, <1>5 DEF Click, MakesActive, viewVars, asked
  <2>2. /\ doc'.n = doc.n /\ doc'.active = MadeActive(d) /\ doc'.loaded = doc.loaded
        /\ doc'.articles = doc.articles
    BY <1>0, <2>1 DEF DocTypes
  <2>3. InDoc' = InDoc /\ Latest' = Latest
    BY <2>1, <2>2 DEF InDoc, FirstOn, Request, Latest
  <2>4. \A i \in DOMAIN toView : toView[i].page <= doc.n
    BY DEF AgreeInv
  <2> QED
    BY <1>0, <2>1, <2>2, <2>3, <2>4, AgreeTold
<1>6. ASSUME NEW d \in Dicts, Collapse(d) PROVE AgreeInv'
  <2>1. /\ doc' = [doc EXCEPT !.collapsed = @ \cup {d}]
        /\ UNCHANGED <<requests, toPage, activeDictId, astray>>
        /\ toView' = Append(toView, CollapseMsg(d, TRUE))
    BY <1>6 DEF Collapse, viewVars, asked
  <2>2. /\ doc'.n = doc.n /\ doc'.active = doc.active /\ doc'.loaded = doc.loaded
        /\ doc'.articles = doc.articles
    BY <1>0, <2>1 DEF DocTypes
  <2>3. InDoc' = InDoc /\ Latest' = Latest
    BY <2>1, <2>2 DEF InDoc, FirstOn, Request, Latest
  <2> DEFINE ch == Append(toView, CollapseMsg(d, TRUE))
  <2>4. /\ HasActive(ch) <=> HasActive(toView)
        /\ OfThisPage(ch) <=> OfThisPage(toView)
        /\ \A e : LastActiveIs(toView, e) => LastActiveIs(ch, e)
        /\ \A i \in DOMAIN ch : ch[i].page <= doc.n
    BY CollapseCall
  <2>5. toView' = ch
    BY <2>1
  <2> HIDE DEF ch
  <2>6. /\ HasActive(toView)' <=> HasActive(toView)
        /\ HasActive(toPage)' <=> HasActive(toPage)
        /\ OfThisPage(toView)' <=> OfThisPage(toView)
        /\ LastActiveIs(toView, doc.active) => LastActiveIs(toView, doc.active)'
        /\ LastActiveIs(toPage, activeDictId) => LastActiveIs(toPage, activeDictId)'
    BY <2>1, <2>2, <2>4, <2>5 DEF HasActive, OfThisPage, LastActiveIs
  <2> QED
    BY <2>1, <2>2, <2>3, <2>4, <2>5, <2>6 DEF AgreeInv
<1>7. ASSUME NEW d \in Dicts, Expand(d) PROVE AgreeInv'
  <2> DEFINE ch == Append(toView, CollapseMsg(d, FALSE))
  <2>1. /\ doc' = [doc EXCEPT !.collapsed = @ \ {d}, !.active = MadeActive(d)] /\ d \in InDoc
        /\ UNCHANGED <<requests, toPage, activeDictId>>
        /\ IF MadeActive(d) = NoDict THEN toView' = ch /\ UNCHANGED astray
           ELSE toView' = ch \o Event(d) /\ astray' = HasActive(toPage)
    BY <1>0, <1>7 DEF Expand, viewVars, asked
  <2>2. /\ doc'.n = doc.n /\ doc'.active = MadeActive(d) /\ doc'.loaded = doc.loaded
        /\ doc'.articles = doc.articles
    BY <1>0, <2>1 DEF DocTypes
  <2>3. InDoc' = InDoc /\ Latest' = Latest
    BY <2>1, <2>2 DEF InDoc, FirstOn, Request, Latest
  <2>4. /\ ch \in Seq(CallTypes)
        /\ HasActive(ch) <=> HasActive(toView)
        /\ OfThisPage(ch) <=> OfThisPage(toView)
        /\ \A e : LastActiveIs(toView, e) => LastActiveIs(ch, e)
        /\ \A i \in DOMAIN ch : ch[i].page <= doc.n
    BY CollapseCall
  <2> HIDE DEF ch
  <2> QED
    BY <1>0, <2>1, <2>2, <2>3, <2>4, AgreeTold
<1>8. CASE RunMakeActive
  <2> DEFINE d == Head(toPage).dict
  <2>1. /\ toPage # <<>> /\ Head(toPage).kind = "active" /\ toPage' = Tail(toPage)
        /\ doc' = [doc EXCEPT !.active = MadeActive(d)]
        /\ astray' = (astray \/ MadeActive(d) = NoDict)
        /\ UNCHANGED <<requests, toView, activeDictId>>
    BY <1>8 DEF RunMakeActive, viewVars, asked
  <2>2. /\ doc'.n = doc.n /\ doc'.active = MadeActive(d) /\ doc'.loaded = doc.loaded
        /\ doc'.articles = doc.articles
    BY <1>0, <2>1 DEF DocTypes
  <2>3. InDoc' = InDoc /\ Latest' = Latest
    BY <2>1, <2>2 DEF InDoc, FirstOn, Request, Latest
  <2>4. /\ HasActive(toPage)
        /\ \A e : LastActiveIs(toPage, e) =>
             IF HasActive(Tail(toPage)) THEN LastActiveIs(Tail(toPage), e) ELSE d = e
    BY <1>0, <2>1, ActiveOfTail
  <2>5. MadeActive(d) \in {d, NoDict} /\ MadeActive(d) \in InDoc \cup {NoDict}
    BY <1>0 DEF MadeActive
  <2> HIDE DEF d
  <2>6. /\ HasActive(toView)' <=> HasActive(toView)
        /\ HasActive(toPage)' <=> HasActive(Tail(toPage))
        /\ OfThisPage(toView)' <=> OfThisPage(toView)
        /\ LastActiveIs(Tail(toPage), activeDictId) => LastActiveIs(toPage, activeDictId)'
    BY <2>1, <2>2 DEF HasActive, OfThisPage, LastActiveIs
  <2>7. \A i \in DOMAIN toView' : toView'[i].page <= doc'.n
    BY <2>1, <2>2 DEF AgreeInv
  <2>8. ~astray' => ~astray /\ doc'.active = d
    BY <2>1, <2>2, <2>5
  <2> QED
    BY <2>1, <2>2, <2>3, <2>4, <2>5, <2>6, <2>7, <2>8 DEF AgreeInv
<1>9. CASE RunCheckNumber
  <2>1. /\ toPage # <<>> /\ Head(toPage).kind = "check" /\ toPage' = Tail(toPage)
        /\ doc' = [doc EXCEPT !.collapsed = @ \ Single]
        /\ UNCHANGED <<requests, activeDictId, astray>>
        /\ \/ UNCHANGED toView
           \/ \E d \in Single : toView' = Append(toView, CollapseMsg(d, FALSE))
    BY <1>9 DEF RunCheckNumber, viewVars, asked
  <2>2. /\ doc'.n = doc.n /\ doc'.active = doc.active /\ doc'.loaded = doc.loaded
        /\ doc'.articles = doc.articles
    BY <1>0, <2>1 DEF DocTypes
  <2>3. InDoc' = InDoc /\ Latest' = Latest
    BY <2>1, <2>2 DEF InDoc, FirstOn, Request, Latest
  <2>4. /\ HasActive(toPage) <=> HasActive(Tail(toPage))
        /\ \A e : LastActiveIs(toPage, e) => LastActiveIs(Tail(toPage), e)
    BY <1>0, <2>1, ActiveOfTail
  <2>5. /\ HasActive(toView') <=> HasActive(toView)
        /\ OfThisPage(toView') <=> OfThisPage(toView)
        /\ \A e : LastActiveIs(toView, e) => LastActiveIs(toView', e)
        /\ \A i \in DOMAIN toView' : toView'[i].page <= doc.n
    <3>1. CASE UNCHANGED toView
      BY <3>1 DEF HasActive, OfThisPage, LastActiveIs, AgreeInv
    <3>2. ASSUME NEW d \in Single, toView' = Append(toView, CollapseMsg(d, FALSE))
          PROVE  /\ HasActive(toView') <=> HasActive(toView)
                 /\ OfThisPage(toView') <=> OfThisPage(toView)
                 /\ \A e : LastActiveIs(toView, e) => LastActiveIs(toView', e)
                 /\ \A i \in DOMAIN toView' : toView'[i].page <= doc.n
      <4>1. d \in Dicts
        BY <1>0 DEF Single, DocTypes
      <4> DEFINE ch == Append(toView, CollapseMsg(d, FALSE))
      <4>2. /\ HasActive(ch) <=> HasActive(toView)
            /\ OfThisPage(ch) <=> OfThisPage(toView)
            /\ \A e : LastActiveIs(toView, e) => LastActiveIs(ch, e)
            /\ \A i \in DOMAIN ch : ch[i].page <= doc.n
        BY <4>1, CollapseCall
      <4>3. toView' = ch
        BY <3>2
      <4> HIDE DEF ch
      <4> QED
        BY <4>2, <4>3
    <3> QED
      BY <2>1, <3>1, <3>2
  <2>6. /\ HasActive(toView)' <=> HasActive(toView)
        /\ HasActive(toPage)' <=> HasActive(toPage)
        /\ OfThisPage(toView)' <=> OfThisPage(toView)
        /\ LastActiveIs(toView, doc.active) => LastActiveIs(toView, doc.active)'
        /\ LastActiveIs(toPage, activeDictId) => LastActiveIs(toPage, activeDictId)'
    <3>1. HasActive(toView)' <=> HasActive(toView)
      BY <2>5 DEF HasActive
    <3>2. HasActive(toPage)' <=> HasActive(toPage)
      <4>1. HasActive(toPage') <=> HasActive(toPage)
        BY <2>1, <2>4
      <4> QED
        BY <4>1 DEF HasActive
    <3>3. OfThisPage(toView)' <=> OfThisPage(toView)
      <4>1. OfThisPage(toView') <=> OfThisPage(toView)
        BY <2>5
      <4> QED
        BY <2>2, <4>1 DEF OfThisPage
    <3>4. LastActiveIs(toView, doc.active) => LastActiveIs(toView, doc.active)'
      <4>1. LastActiveIs(toView, doc.active) => LastActiveIs(toView', doc.active)
        BY <2>5
      <4> QED
        BY <2>2, <4>1 DEF LastActiveIs
    <3>5. LastActiveIs(toPage, activeDictId) => LastActiveIs(toPage, activeDictId)'
      <4>1. LastActiveIs(toPage, activeDictId) => LastActiveIs(toPage', activeDictId)
        BY <2>1, <2>4
      <4> QED
        BY <2>1, <4>1 DEF LastActiveIs
    <3> QED
      BY <3>1, <3>2, <3>3, <3>4, <3>5
  <2> QED
    BY <2>1, <2>2, <2>3, <2>5, <2>6 DEF AgreeInv
<1>10. CASE OnCollapse \/ OnJsActiveArticleChanged
  <2>1. /\ toView # <<>> /\ toView' = Tail(toView) /\ UNCHANGED <<doc, requests, toPage>>
        /\ \/ Head(toView).kind # "active" /\ UNCHANGED <<activeDictId, astray>>
           \/ /\ Head(toView).kind = "active" /\ activeDictId' = Head(toView).dict
              /\ astray' = (astray \/ Head(toView).page # doc.n)
    BY <1>10 DEF OnCollapse, OnJsActiveArticleChanged, viewVars, asked
  <2> DEFINE t == Tail(toView)
  <2>2. InDoc' = InDoc /\ Latest' = Latest /\ doc' = doc
    BY <2>1 DEF InDoc, FirstOn, Request, Latest
  <2>3. HasActive(toView) <=> Head(toView).kind = "active" \/ HasActive(t)
    BY <1>0, <2>1, ActiveOfTail
  <2>4. OfThisPage(toView) <=> (Head(toView).kind = "active" => Head(toView).page = doc.n)
                               /\ OfThisPage(t)
    BY <1>0, <2>1, ActiveOfTail
  <2>5. LastActiveIs(toView, doc.active) =>
          IF HasActive(t) THEN LastActiveIs(t, doc.active)
          ELSE Head(toView).kind = "active" /\ Head(toView).dict = doc.active
    BY <1>0, <2>1, ActiveOfTail
  <2>6. \A i \in DOMAIN t : t[i].page <= doc.n
    BY <2>1, TailCalls
  <2> HIDE DEF t
  <2>7. toView' = t
    BY <2>1 DEF t
  <2>8. /\ HasActive(toView)' <=> HasActive(t)
        /\ HasActive(toPage)' <=> HasActive(toPage)
        /\ OfThisPage(toView)' <=> OfThisPage(t)
        /\ LastActiveIs(toView, doc.active)' <=> LastActiveIs(t, doc.active)
        /\ activeDictId' = activeDictId =>
             (LastActiveIs(toPage, activeDictId)' <=> LastActiveIs(toPage, activeDictId))
    BY <2>1, <2>2, <2>7 DEF HasActive, OfThisPage, LastActiveIs
  <2>9. ~HasActive(t) => OfThisPage(t)
    BY DEF HasActive, OfThisPage
  <2>10. /\ doc'.active \in InDoc' \cup {NoDict}
         /\ \A i \in DOMAIN toView' : toView'[i].page <= doc'.n
    BY <2>2, <2>6, <2>7 DEF AgreeInv
  <2>11. CASE Head(toView).kind # "active"
    <3>1. UNCHANGED <<activeDictId, astray>>
      BY <2>1, <2>11
    <3>2. /\ HasActive(toView)' <=> HasActive(toView)
          /\ OfThisPage(toView)' <=> OfThisPage(toView)
          /\ ~HasActive(toView) \/ ~LastActiveIs(toView, doc.active)
               \/ LastActiveIs(toView, doc.active)'
          /\ LastActiveIs(toPage, activeDictId)' <=> LastActiveIs(toPage, activeDictId)
      BY <2>3, <2>4, <2>5, <2>8, <2>11, <3>1
    <3> QED
      BY <2>2, <2>8, <2>10, <3>1, <3>2 DEF AgreeInv
  <2>12. CASE Head(toView).kind = "active"
    <3>1. /\ activeDictId' = Head(toView).dict
          /\ ~astray' => ~astray /\ Head(toView).page = doc.n
      BY <2>1, <2>12
    <3> QED
      BY <2>2, <2>3, <2>4, <2>5, <2>8, <2>9, <2>10, <2>12, <3>1, Zenon DEF AgreeInv
  <2> QED
    BY <2>11, <2>12
<1>11. CASE \/ MoveOneArticleUp \/ MoveOneArticleDown
            \/ \E d \in Dicts : JumpToDictionary(d)
  <2>1. PICK d \in Dicts : SetByUser(d)
    BY <1>11, MovesAreByUser
  <2>2. /\ activeDictId' = d /\ astray' = HasActive(toView) /\ UNCHANGED <<toView, doc, requests>>
        /\ toPage' = (toPage \o <<[kind |-> "active", dict |-> d]>>) \o <<>>
    BY <2>1 DEF SetByUser, SetCurrentArticle
  <2>3. <<>> \in Seq(ScriptTypes) /\ ~HasActive(<<>>)
    BY EmptySeq, ActiveOfOne
  <2>4. InDoc' = InDoc
    BY <2>2 DEF InDoc, FirstOn, Request
  <2> QED
    BY <2>2, <2>3, <2>4, AgreeSet
<1>12. ASSUME ~Commit, UNCHANGED <<doc, toView, toPage, activeDictId, astray>>
       PROVE  AgreeInv'
  <2>1. doc'.loaded /\ doc'.n = Latest' => doc.loaded /\ doc.n = Latest
    BY <1>0, <1>2, <1>12 DEF RequestInv
  <2> QED
    BY <1>2, <1>12, <2>1, AgreeKept
<1>13. CASE Asking
  <2>1. UNCHANGED <<doc, toView, toPage, activeDictId, astray>>
    BY <1>13, PageAsked, AskForFacts
  <2> QED
    BY <1>1, <1>12, <2>1
<1>17. CASE OnlyView
  BY <1>1, <1>12, <1>17, OnlyViewIs
<1>18. ASSUME NEW d \in Dicts, OtherCollapse(d) PROVE AgreeInv'
  BY <1>1, <1>12, <1>18, OtherCollapseIs DEF viewVars, asked
<1>14. ASSUME NEW n \in 1 .. Latest,
              \/ RequestStarts(n) \/ RequestGone(n)
              \/ \E k \in 1 .. Len(Articles[requests[n].query]) : BodyFinished(n, k)
       PROVE  AgreeInv'
  BY <1>1, <1>12, <1>14 DEF RequestStarts, RequestGone, BodyFinished, viewVars, asked
<1>15. ASSUME NEW w \in Queries, OtherRequest(w) PROVE AgreeInv'
  BY <1>1, <1>12, <1>15 DEF OtherRequest
<1>16. CASE UNCHANGED vars
  BY <1>1, <1>12, <1>16 DEF vars, viewVars, asked
<1> QED
  BY <1>1, <1>3, <1>4, <1>5, <1>6, <1>7, <1>8, <1>9, <1>10, <1>11, <1>13, <1>14, <1>15, <1>16,
     <1>17, <1>18 DEF Next, Asking, OnlyView

\* The invariant gives Agreement.
LEMMA AgreeFollows ==
  ASSUME TypeInv, RequestInv, AgreeInv
  PROVE  Agreement
BY ShownIs DEF Agreement, AgreeInv, Settled

-----------------------------------------------------------------------------
(* What is collapsed. *)

\* A call is about the collapsing of d.
About(m, d) == m.kind \in {"collapse", "expand"} /\ m.dict = d

\* The calls about one article in a channel, with one message more.
LEMMA CollapseOfAppend ==
  ASSUME NEW S, NEW ch \in Seq(S), NEW m \in S, NEW d
  PROVE  /\ HasCollapse(Append(ch, m), d) <=> HasCollapse(ch, d) \/ About(m, d)
         /\ \A k : ~About(m, d) /\ LastCollapseIs(ch, d, k) => LastCollapseIs(Append(ch, m), d, k)
         /\ About(m, d) => LastCollapseIs(Append(ch, m), d, m.kind)
<1> DEFINE u == Append(ch, m)
           M == Len(ch)
<1>1. /\ M \in Nat /\ DOMAIN ch = 1 .. M /\ DOMAIN u = 1 .. M + 1
      /\ \A i \in 1 .. M : u[i] = ch[i] /\ i \in 1 .. M + 1
      /\ M + 1 \in 1 .. M + 1
  OBVIOUS
<1>2. u[M + 1] = m
  OBVIOUS
<1> HIDE DEF u
<1>3. \A i \in 1 .. M + 1 : (i \in 1 .. M \/ i = M + 1) /\ i <= M + 1
  BY <1>1
<1>a. HasCollapse(u, d) <=> \E i \in 1 .. M + 1 : About(u[i], d)
  BY <1>1 DEF HasCollapse, About
<1>b. HasCollapse(ch, d) <=> \E i \in 1 .. M : About(ch[i], d)
  BY <1>1 DEF HasCollapse, About
<1>c. \A k : LastCollapseIs(u, d, k) <=>
        \E i \in 1 .. M + 1 : /\ u[i].kind = k /\ u[i].dict = d
                              /\ \A j \in 1 .. M + 1 : About(u[j], d) => j <= i
  BY <1>1 DEF LastCollapseIs, About
<1>d. \A k : LastCollapseIs(ch, d, k) <=>
        \E i \in 1 .. M : /\ ch[i].kind = k /\ ch[i].dict = d
                          /\ \A j \in 1 .. M : About(ch[j], d) => j <= i
  BY <1>1 DEF LastCollapseIs, About
<1>4. HasCollapse(u, d) <=> HasCollapse(ch, d) \/ About(m, d)
  <2>1. ASSUME HasCollapse(u, d) PROVE HasCollapse(ch, d) \/ About(m, d)
    <3>1. PICK i \in 1 .. M + 1 : About(u[i], d)
      BY <1>a, <2>1
    <3>2. CASE i \in 1 .. M
      BY <1>1, <1>b, <3>1, <3>2
    <3>3. CASE i = M + 1
      BY <1>2, <3>1, <3>3
    <3> QED
      BY <1>3, <3>2, <3>3
  <2>2. ASSUME HasCollapse(ch, d) PROVE HasCollapse(u, d)
    <3>1. PICK i \in 1 .. M : About(ch[i], d)
      BY <1>b, <2>2
    <3> QED
      BY <1>1, <1>a, <3>1
  <2>3. About(m, d) => HasCollapse(u, d)
    BY <1>1, <1>2, <1>a
  <2> QED
    BY <2>1, <2>2, <2>3
<1>5. ASSUME NEW k, ~About(m, d), LastCollapseIs(ch, d, k) PROVE LastCollapseIs(u, d, k)
  <2>1. PICK i \in 1 .. M : /\ ch[i].kind = k /\ ch[i].dict = d
                            /\ \A j \in 1 .. M : About(ch[j], d) => j <= i
    BY <1>d, <1>5
  <2>2. i \in 1 .. M + 1 /\ u[i].kind = k /\ u[i].dict = d
    BY <1>1, <2>1
  <2>3. ASSUME NEW j \in 1 .. M + 1, About(u[j], d) PROVE j <= i
    <3>1. j \in 1 .. M
      BY <1>2, <1>3, <1>5, <2>3
    <3> QED
      BY <1>1, <2>1, <2>3, <3>1
  <2> QED
    BY <1>c, <2>2, <2>3
<1>6. ASSUME About(m, d) PROVE LastCollapseIs(u, d, m.kind)
  <2>1. u[M + 1].kind = m.kind /\ u[M + 1].dict = d
    BY <1>2, <1>6 DEF About
  <2>2. \A j \in 1 .. M + 1 : About(u[j], d) => j <= M + 1
    BY <1>3
  <2> QED
    BY <1>1, <1>c, <2>1, <2>2
<1> QED
  BY <1>4, <1>5, <1>6 DEF u

\* ... and in what the first message leaves.
LEMMA CollapseOfTail ==
  ASSUME NEW S, NEW ch \in Seq(S), ch # <<>>, NEW d
  PROVE  /\ HasCollapse(ch, d) <=> About(Head(ch), d) \/ HasCollapse(Tail(ch), d)
         /\ \A k \in {"collapse", "expand"} : LastCollapseIs(ch, d, k) =>
              IF HasCollapse(Tail(ch), d) THEN LastCollapseIs(Tail(ch), d, k)
              ELSE Head(ch).kind = k
<1> DEFINE t == Tail(ch)
           N == Len(ch)
<1>1. /\ N \in Nat /\ N > 0 /\ DOMAIN ch = 1 .. N /\ DOMAIN t = 1 .. N - 1
      /\ Head(ch) = ch[1] /\ \A i \in 1 .. N - 1 : t[i] = ch[i + 1]
  OBVIOUS
<1> HIDE DEF t
<1>2. /\ 1 \in 1 .. N /\ \A i \in 1 .. N - 1 : i + 1 \in 1 .. N
      /\ \A i \in 1 .. N : i = 1 \/ (i - 1 \in 1 .. N - 1 /\ i = (i - 1) + 1)
  BY <1>1
<1>a. HasCollapse(ch, d) <=> \E i \in 1 .. N : About(ch[i], d)
  BY <1>1 DEF HasCollapse, About
<1>b. HasCollapse(t, d) <=> \E i \in 1 .. N - 1 : About(t[i], d)
  BY <1>1 DEF HasCollapse, About
<1>c. \A k : LastCollapseIs(ch, d, k) <=>
        \E i \in 1 .. N : /\ ch[i].kind = k /\ ch[i].dict = d
                          /\ \A j \in 1 .. N : About(ch[j], d) => j <= i
  BY <1>1 DEF LastCollapseIs, About
<1>d. \A k : LastCollapseIs(t, d, k) <=>
        \E i \in 1 .. N - 1 : /\ t[i].kind = k /\ t[i].dict = d
                              /\ \A j \in 1 .. N - 1 : About(t[j], d) => j <= i
  BY <1>1 DEF LastCollapseIs, About
<1>3. HasCollapse(ch, d) <=> About(Head(ch), d) \/ HasCollapse(t, d)
  <2>1. ASSUME HasCollapse(ch, d) PROVE About(Head(ch), d) \/ HasCollapse(t, d)
    <3>1. PICK i \in 1 .. N : About(ch[i], d)
      BY <1>a, <2>1
    <3>2. CASE i = 1
      BY <1>1, <3>1, <3>2
    <3>3. CASE i - 1 \in 1 .. N - 1 /\ i = (i - 1) + 1
      <4>1. t[i - 1] = ch[i]
        BY <1>1, <3>3
      <4> QED
        BY <1>b, <3>1, <3>3, <4>1
    <3> QED
      BY <1>2, <3>2, <3>3
  <2>2. ASSUME HasCollapse(t, d) PROVE HasCollapse(ch, d)
    <3>1. PICK i \in 1 .. N - 1 : About(t[i], d)
      BY <1>b, <2>2
    <3>2. i + 1 \in 1 .. N /\ About(ch[i + 1], d)
      BY <1>1, <1>2, <3>1
    <3> QED
      BY <1>a, <3>2
  <2>3. About(Head(ch), d) => HasCollapse(ch, d)
    BY <1>1, <1>2, <1>a
  <2> QED
    BY <2>1, <2>2, <2>3
<1>4. ASSUME NEW k \in {"collapse", "expand"}, LastCollapseIs(ch, d, k)
      PROVE  IF HasCollapse(t, d) THEN LastCollapseIs(t, d, k) ELSE Head(ch).kind = k
  <2>1. PICK i \in 1 .. N : /\ ch[i].kind = k /\ ch[i].dict = d
                            /\ \A j \in 1 .. N : About(ch[j], d) => j <= i
    BY <1>c, <1>4
  <2>2. CASE HasCollapse(t, d)
    <3>1. PICK l \in 1 .. N - 1 : About(t[l], d)
      BY <1>b, <2>2
    <3>2. l + 1 \in 1 .. N /\ About(ch[l + 1], d)
      BY <1>1, <1>2, <3>1
    <3>3. l + 1 <= i
      BY <2>1, <3>2
    <3>4. i - 1 \in 1 .. N - 1 /\ i = (i - 1) + 1
      BY <1>1, <3>3
    <3>5. t[i - 1].kind = k /\ t[i - 1].dict = d
      BY <1>1, <2>1, <3>4
    <3>6. ASSUME NEW j \in 1 .. N - 1, About(t[j], d) PROVE j <= i - 1
      <4>1. j + 1 \in 1 .. N /\ About(ch[j + 1], d)
        BY <1>1, <1>2, <3>6
      <4>2. j + 1 <= i
        BY <2>1, <4>1
      <4> QED
        BY <1>1, <4>2
    <3>7. LastCollapseIs(t, d, k)
      BY <1>d, <3>4, <3>5, <3>6
    <3> QED
      BY <2>2, <3>7
  <2>3. CASE ~HasCollapse(t, d)
    <3>1. i = 1
      <4>1. ASSUME i - 1 \in 1 .. N - 1, i = (i - 1) + 1 PROVE FALSE
        <5>1. t[i - 1].kind = k /\ t[i - 1].dict = d
          BY <1>1, <2>1, <4>1
        <5>2. About(t[i - 1], d)
          BY <5>1 DEF About
        <5> QED
          BY <1>b, <2>3, <4>1, <5>2
      <4> QED
        BY <1>2, <4>1
    <3> QED
      BY <1>1, <2>1, <2>3, <3>1
  <2> QED
    BY <2>2, <2>3
<1> QED
  BY <1>3, <1>4 DEF t

\* The next k articles on a word are none of those before them.
LEMMA FrontGrows ==
  ASSUME NEW w \in Queries, NEW n \in Nat, NEW k \in Nat, n + k <= Len(Articles[w])
  PROVE  LET ds == SubSeq(Articles[w], n + 1, n + k)
         IN  /\ FirstOn(w, n + k) = FirstOn(w, n) \cup Range(ds)
             /\ FirstOn(w, n) \cap Range(ds) = {}
<1> DEFINE s == Articles[w]
           ds == SubSeq(s, n + 1, n + k)
<1>1. s \in Seq(Dicts) /\ IsInjective(s) /\ DOMAIN s = 1 .. Len(s) /\ Len(s) \in Nat
  BY ArticlePageAssumption
<1>2. DOMAIN ds = 1 .. k /\ \A i \in 1 .. k : ds[i] = s[n + i]
  <2>1. s \in Seq(Dicts) /\ n + k <= Len(s)
    BY <1>1
  <2> HIDE DEF s
  <2>2. Len(ds) = k /\ DOMAIN ds = 1 .. k
    BY <2>1
  <2>3. \A i \in 1 .. k : ds[i] = s[(n + 1) + i - 1]
    BY <2>1
  <2>4. \A i \in 1 .. k : (n + 1) + i - 1 = n + i
    OBVIOUS
  <2> QED
    BY <2>2, <2>3, <2>4
<1> HIDE DEF ds
<1>3. Range(ds) = {s[n + i] : i \in 1 .. k}
  BY <1>2 DEF Range
<1>4. /\ \A i \in 1 .. n : i \in 1 .. n + k
      /\ \A i \in 1 .. k : n + i \in 1 .. n + k
      /\ \A i \in 1 .. n + k : i \in 1 .. n \/ (i - n \in 1 .. k /\ i = n + (i - n))
      /\ \A i \in 1 .. n + k : i \in 1 .. Len(s)
      /\ \A i \in 1 .. n, j \in 1 .. k : i # n + j
  BY <1>1
<1>5. FirstOn(w, n + k) = FirstOn(w, n) \cup Range(ds)
  <2>1. ASSUME NEW e \in FirstOn(w, n + k) PROVE e \in FirstOn(w, n) \cup Range(ds)
    <3>1. PICK i \in 1 .. n + k : e = s[i]
      BY <2>1 DEF FirstOn
    <3>2. CASE i \in 1 .. n
      BY <3>1, <3>2 DEF FirstOn
    <3>3. CASE i - n \in 1 .. k /\ i = n + (i - n)
      BY <1>3, <3>1, <3>3
    <3> QED
      BY <1>4, <3>2, <3>3
  <2>2. FirstOn(w, n) \subseteq FirstOn(w, n + k)
    BY <1>4 DEF FirstOn
  <2>3. Range(ds) \subseteq FirstOn(w, n + k)
    BY <1>3, <1>4 DEF FirstOn
  <2> QED
    BY <2>1, <2>2, <2>3
<1>6. FirstOn(w, n) \cap Range(ds) = {}
  <2> SUFFICES ASSUME NEW e \in FirstOn(w, n), e \in Range(ds) PROVE FALSE
    OBVIOUS
  <2>1. PICK i \in 1 .. n : e = s[i]
    BY DEF FirstOn
  <2>2. PICK j \in 1 .. k : e = s[n + j]
    BY <1>3
  <2>3. i \in DOMAIN s /\ n + j \in DOMAIN s /\ i # n + j
    BY <1>1, <1>4
  <2>4. s[i] = s[n + j]
    BY <2>1, <2>2
  <2> QED
    BY <1>1, <2>3, <2>4 DEF IsInjective
<1> QED
  BY <1>5, <1>6 DEF ds

\* What the invariant says of one article stays when what it depends on does.
LEMMA ToldKept ==
  ASSUME NEW d, doc'.n = doc.n, Latest' = Latest, d \in InDoc' <=> d \in InDoc,
         d \in doc'.collapsed <=> d \in doc.collapsed,
         d \in requests'[Latest'].closed <=> d \in requests[Latest].closed,
         d \in collapsedDicts' <=> d \in collapsedDicts,
         HasCollapse(toView', d) <=> HasCollapse(toView, d),
         \A k \in {"collapse", "expand"} :
           LastCollapseIs(toView, d, k) => LastCollapseIs(toView', d, k),
         AsTold(d)
  PROVE  AsTold(d)'
<1> DEFINE kind == IF d \in doc.collapsed THEN "collapse" ELSE "expand"
<1>1. kind' = kind /\ kind \in {"collapse", "expand"}
  OBVIOUS
<1>2. IsCollapsed(d)' <=> IsCollapsed(d)
  BY DEF IsCollapsed
<1>3. LastCollapseIs(toView, d, kind) => LastCollapseIs(toView, d, kind)'
  <2>1. LastCollapseIs(toView, d, kind) => LastCollapseIs(toView', d, kind')
    BY <1>1
  <2> QED
    BY <2>1 DEF LastCollapseIs
<1>4. HasCollapse(toView, d)' <=> HasCollapse(toView, d)
  BY DEF HasCollapse
<1> HIDE DEF kind
<1>5. AsTold(d) <=> IF HasCollapse(toView, d)
                    THEN doc.n = Latest /\ d \in InDoc /\ LastCollapseIs(toView, d, kind)
                    ELSE /\ d \in collapsedDicts => IsCollapsed(d)
                         /\ IsCollapsed(d) => d \in collapsedDicts \cup Large
  BY DEF AsTold, kind
<1>6. AsTold(d)' <=> IF HasCollapse(toView, d)'
                     THEN doc'.n = Latest' /\ d \in InDoc' /\ LastCollapseIs(toView, d, kind)'
                     ELSE /\ d \in collapsedDicts' => IsCollapsed(d)'
                          /\ IsCollapsed(d)' => d \in collapsedDicts' \cup Large
  BY DEF AsTold, kind
<1> QED
  BY <1>2, <1>3, <1>4, <1>5, <1>6

\* Nothing about the collapsing of articles changes.
LEMMA CollapseKept ==
  ASSUME CollapseInv, doc'.n = doc.n, doc'.collapsed = doc.collapsed, InDoc' = InDoc,
         Latest' = Latest,
         Latest > 0 => /\ requests'[Latest'].closed = requests[Latest].closed
                       /\ Written(Latest)' = Written(Latest),
         UNCHANGED <<collapsedDicts, late>>,
         \A d : HasCollapse(toView', d) <=> HasCollapse(toView, d),
         \A d : \A k \in {"collapse", "expand"} :
           LastCollapseIs(toView, d, k) => LastCollapseIs(toView', d, k)
  PROVE  CollapseInv'
<1>1. doc'.collapsed \subseteq InDoc'
  BY DEF CollapseInv
<1>2. ASSUME Latest' > 0
      PROVE  /\ requests'[Latest'].closed \subseteq Written(Latest)'
             /\ \A d \in Written(Latest)' \ late' : AsTold(d)'
  <2>1. requests'[Latest'].closed \subseteq Written(Latest)'
    BY <1>2 DEF CollapseInv
  <2>2. ASSUME NEW d \in Written(Latest)' \ late' PROVE AsTold(d)'
    <3>1. d \in Written(Latest) \ late
      BY <1>2, <2>2
    <3>2. AsTold(d)
      BY <1>2, <3>1 DEF CollapseInv
    <3> QED
      BY <1>2, <3>2, ToldKept
  <2> QED
    BY <2>1, <2>2
<1> QED
  BY <1>1, <1>2 DEF CollapseInv

\* ... when the channel is untouched, too.
LEMMA CollapseUntouched ==
  ASSUME CollapseInv, doc'.n = doc.n, doc'.collapsed = doc.collapsed, InDoc' = InDoc,
         Latest' = Latest,
         Latest > 0 => /\ requests'[Latest'].closed = requests[Latest].closed
                       /\ Written(Latest)' = Written(Latest),
         UNCHANGED <<collapsedDicts, late, toView>>
  PROVE  CollapseInv'
BY CollapseKept

\* The page tells of an article that has been collapsed or expanded.
LEMMA CollapseTold ==
  ASSUME TypeInv, RequestInv, CollapseInv, NEW d \in InDoc, NEW on \in BOOLEAN,
         UNCHANGED <<requests, collapsedDicts>>, doc'.n = doc.n, doc'.articles = doc.articles,
         doc'.collapsed = IF on THEN doc.collapsed \cup {d} ELSE doc.collapsed \ {d},
         \A e : HasCollapse(toView', e) <=> HasCollapse(toView, e) \/ e = d,
         \A e : \A k \in {"collapse", "expand"} :
           e # d /\ LastCollapseIs(toView, e, k) => LastCollapseIs(toView', e, k),
         LastCollapseIs(toView', d, IF on THEN "collapse" ELSE "expand"),
         late' = NowLate(d)
  PROVE  CollapseInv'
<1>1. InDoc' = InDoc /\ Latest' = Latest /\ Written(Latest)' = Written(Latest)
  BY DEF InDoc, FirstOn, Request, Latest, Written
<1>2. doc'.collapsed \subseteq InDoc'
  BY <1>1 DEF CollapseInv
<1>3. ASSUME Latest' > 0
      PROVE  /\ requests'[Latest'].closed \subseteq Written(Latest)'
             /\ \A e \in Written(Latest)' \ late' : AsTold(e)'
  <2>1. requests'[Latest'].closed \subseteq Written(Latest)'
    BY <1>1, <1>3 DEF CollapseInv
  <2>2. ASSUME NEW e \in Written(Latest)' \ late', e # d PROVE AsTold(e)'
    <3>1. e \in Written(Latest) \ late
      BY <1>1, <2>2 DEF NowLate
    <3>2. AsTold(e)
      BY <1>1, <1>3, <3>1 DEF CollapseInv
    <3>3. e \in doc'.collapsed <=> e \in doc.collapsed
      BY <2>2
    <3> QED
      BY <1>1, <2>2, <3>2, <3>3, ToldKept
  <2>3. ASSUME d \in Written(Latest)' \ late' PROVE AsTold(d)'
    <3>1. doc.n = Latest
      BY <2>3 DEF NowLate
    <3>2. d \in doc'.collapsed <=> on
      OBVIOUS
    <3>3. HasCollapse(toView, d)'
      BY DEF HasCollapse
    <3>4. LastCollapseIs(toView', d, IF d \in doc'.collapsed THEN "collapse" ELSE "expand")
      BY <3>2
    <3>5. LastCollapseIs(toView, d, IF d \in doc.collapsed THEN "collapse" ELSE "expand")'
      BY <3>4 DEF LastCollapseIs
    <3> QED
      BY <1>1, <3>1, <3>3, <3>5 DEF AsTold
  <2> QED
    BY <2>1, <2>2, <2>3
<1> QED
  BY <1>2, <1>3 DEF CollapseInv

\* What the page shows of its request.
LEMMA WrittenFacts ==
  ASSUME TypeInv, RequestInv, Latest > 0
  PROVE  /\ Latest \in 1 .. Latest /\ requests[Latest] \in RequestTypes
         /\ requests[Latest].query \in Queries /\ requests[Latest].sent \in Nat
         /\ Written(Latest) \subseteq Dicts
         /\ doc.n = Latest => InDoc \subseteq Written(Latest)
<1>1. Latest \in 1 .. Latest
  BY DEF TypeInv, Latest
<1>2. /\ requests[Latest] \in RequestTypes /\ Articles[requests[Latest].query] \in Seq(Dicts)
      /\ requests[Latest].sent <= Len(Articles[requests[Latest].query])
  BY <1>1, RequestFacts DEF RequestInv
<1>3. requests[Latest].query \in Queries /\ requests[Latest].sent \in Nat
  BY <1>2 DEF RequestTypes
<1>4. Written(Latest) \subseteq Dicts
  BY <1>2, <1>3 DEF Written, FirstOn
<1>5. ASSUME doc.n = Latest PROVE InDoc \subseteq Written(Latest)
  <2>1. doc.articles \in Nat /\ doc.articles <= requests[Latest].sent
    BY <1>5 DEF TypeInv, DocTypes, RequestInv, Request
  <2>2. \A i \in 1 .. doc.articles : i \in 1 .. requests[Latest].sent
    BY <1>3, <2>1
  <2> QED
    BY <1>5, <2>2 DEF InDoc, Written, FirstOn, Request
<1> QED
  BY <1>1, <1>2, <1>3, <1>4, <1>5

\* The steps of a request keep CollapseInv.
LEMMA PagesCollapse ==
  ASSUME TypeInv, RequestInv, CollapseInv, NEW n \in 1 .. Latest
  PROVE  /\ RequestStarts(n) => CollapseInv'
         /\ RequestGone(n) => CollapseInv'
         /\ \A k \in 1 .. Len(Articles[requests[n].query]) : BodyFinished(n, k) => CollapseInv'
<1> DEFINE L == Latest
<1>0. /\ L \in Nat /\ L > 0 /\ L \in 1 .. L /\ doc.n \in Nat /\ doc \in DocTypes
      /\ requests[n] \in RequestTypes
  BY RequestFacts DEF TypeInv, Latest, DocTypes
<1>1. ASSUME Latest' = Latest, UNCHANGED <<doc, toView, collapsedDicts>>,
             \A m \in 1 .. Latest : requests'[m].query = requests[m].query
      PROVE  InDoc' = InDoc
  <2>1. CASE doc.n = 0
    BY <1>1, <2>1 DEF RequestInv, InDoc, FirstOn
  <2>2. CASE doc.n # 0
    <3>1. doc.n \in 1 .. Latest
      BY <1>0, <2>2 DEF RequestInv
    <3> QED
      BY <1>1, <3>1 DEF InDoc, FirstOn, Request
  <2> QED
    BY <2>1, <2>2
<1>2. ASSUME Latest' = Latest, UNCHANGED <<doc, toView, collapsedDicts, late>>,
             \A m \in 1 .. Latest : /\ requests'[m].query = requests[m].query
                                    /\ requests'[m].sent = requests[m].sent
                                    /\ requests'[m].closed = requests[m].closed
      PROVE  CollapseInv'
  <2>1. InDoc' = InDoc /\ Written(Latest)' = Written(Latest)
    BY <1>0, <1>1, <1>2 DEF Written
  <2>2. requests'[Latest'].closed = requests[Latest].closed
    BY <1>0, <1>2
  <2> QED
    BY <1>2, <2>1, <2>2, CollapseUntouched
<1>3. ASSUME RequestStarts(n) PROVE CollapseInv'
  <2>1. /\ Latest' = Latest /\ \A m \in 1 .. Latest : m # n => requests'[m] = requests[m]
        /\ requests'[n] = [requests[n] EXCEPT !.state = "running"]
    BY <1>3, PageSteps
  <2>2. /\ requests'[n].query = requests[n].query /\ requests'[n].sent = requests[n].sent
        /\ requests'[n].closed = requests[n].closed
    BY <1>0, <2>1 DEF RequestTypes
  <2>3. UNCHANGED <<doc, toView, collapsedDicts, late>>
    BY <1>3 DEF RequestStarts
  <2>4. \A m \in 1 .. Latest : /\ requests'[m].query = requests[m].query
                               /\ requests'[m].sent = requests[m].sent
                               /\ requests'[m].closed = requests[m].closed
    BY <2>1, <2>2
  <2> QED
    BY <1>2, <2>1, <2>3, <2>4
<1>4. ASSUME RequestGone(n) PROVE CollapseInv'
  <2>1. /\ Latest' = Latest /\ \A m \in 1 .. Latest : m # n => requests'[m] = requests[m]
        /\ requests'[n] = [requests[n] EXCEPT !.state = "gone"]
    BY <1>4, PageSteps
  <2>2. /\ requests'[n].query = requests[n].query /\ requests'[n].sent = requests[n].sent
        /\ requests'[n].closed = requests[n].closed
    BY <1>0, <2>1 DEF RequestTypes
  <2>3. UNCHANGED <<doc, toView, collapsedDicts, late>>
    BY <1>4 DEF RequestGone
  <2>4. \A m \in 1 .. Latest : /\ requests'[m].query = requests[m].query
                               /\ requests'[m].sent = requests[m].sent
                               /\ requests'[m].closed = requests[m].closed
    BY <2>1, <2>2
  <2> QED
    BY <1>2, <2>1, <2>3, <2>4
<1>5. ASSUME NEW k \in 1 .. Len(Articles[requests[n].query]), BodyFinished(n, k)
      PROVE  CollapseInv'
  <2> DEFINE r == requests[n]
             w == r.query
             ds == SubSeq(Articles[w], r.sent + 1, r.sent + k)
             old == FirstOn(w, r.sent)
  <2>1. /\ Latest' = Latest /\ \A m \in 1 .. Latest : m # n => requests'[m] = requests[m]
        /\ r.sent + k <= Len(Articles[w]) /\ requests'[n].query = w
        /\ requests'[n].sent = r.sent + k
        /\ requests'[n].closed = r.closed \cup (Range(ds) \cap (collapsedDicts \cup Large))
    BY <1>5, PageSteps
  <2>2. /\ UNCHANGED <<doc, toView, collapsedDicts>>
        /\ late' = IF n = Latest THEN late \cup {d \in Range(ds) : HasCollapse(toView, d)}
                   ELSE late
    BY <1>5 DEF BodyFinished
  <2>3. InDoc' = InDoc
    BY <1>1, <2>1, <2>2
  <2>4. /\ w \in Queries /\ r.sent \in Nat /\ k \in Nat
        /\ FirstOn(w, r.sent + k) = old \cup Range(ds) /\ old \cap Range(ds) = {}
    <3>1. w \in Queries /\ r.sent \in Nat /\ k \in Nat
      BY <1>0 DEF RequestTypes
    <3> QED
      BY <2>1, <3>1, FrontGrows
  <2> HIDE DEF ds
  <2>5. CASE n # Latest
    <3>1. requests'[Latest'] = requests[Latest] /\ late' = late
      BY <1>0, <2>1, <2>2, <2>5
    <3>2. Written(Latest)' = Written(Latest)
      BY <2>1, <3>1 DEF Written
    <3> QED
      BY <2>1, <2>2, <2>3, <3>1, <3>2, CollapseUntouched
  <2>6. CASE n = Latest
    <3>1. /\ Written(Latest) = old /\ Written(Latest)' = old \cup Range(ds)
          /\ r.closed \subseteq old
          /\ requests[Latest].closed = r.closed
          /\ requests'[Latest'].closed = r.closed \cup (Range(ds) \cap (collapsedDicts \cup Large))
      <4>1. Written(Latest) = old
        BY <2>6 DEF Written
      <4>2. Written(Latest)' = FirstOn(w, r.sent + k)
        BY <2>1, <2>6 DEF Written, FirstOn
      <4>3. r.closed \subseteq old
        BY <1>0, <2>6, <4>1 DEF CollapseInv
      <4> QED
        BY <2>1, <2>4, <2>6, <4>1, <4>2, <4>3
    <3> HIDE DEF old
    <3>2. doc.n = Latest => InDoc \subseteq old
      BY <1>0, <3>1, WrittenFacts
    <3>3. ASSUME NEW d \in old \ late' PROVE AsTold(d)'
      <4>1. AsTold(d)
        BY <1>0, <2>2, <2>6, <3>1, <3>3 DEF CollapseInv
      <4>2. d \in requests'[Latest'].closed <=> d \in requests[Latest].closed
        BY <2>4, <3>1, <3>3
      <4> QED
        BY <2>1, <2>2, <2>3, <4>1, <4>2, ToldKept
    <3>4. ASSUME NEW d \in Range(ds) \ late' PROVE AsTold(d)'
      <4>1. ~HasCollapse(toView, d)
        BY <2>2, <2>6, <3>4
      <4>2. d \in requests'[Latest'].closed <=> d \in collapsedDicts \cup Large
        BY <2>4, <3>1, <3>4
      <4>3. ~(doc'.n = Latest' /\ d \in InDoc')
        BY <2>1, <2>2, <2>3, <2>4, <3>2
      <4>4. IsCollapsed(d)' <=> d \in collapsedDicts \cup Large
        BY <4>2, <4>3 DEF IsCollapsed
      <4>5. ~HasCollapse(toView, d)'
        BY <2>2, <4>1 DEF HasCollapse
      <4> QED
        BY <2>2, <4>4, <4>5 DEF AsTold
    <3>5. /\ doc'.collapsed \subseteq InDoc'
          /\ requests'[Latest'].closed \subseteq Written(Latest)'
      BY <2>2, <2>3, <3>1 DEF CollapseInv
    <3> QED
      BY <3>1, <3>3, <3>4, <3>5 DEF CollapseInv
  <2> QED
    BY <2>5, <2>6
<1> QED
  BY <1>3, <1>4, <1>5

\* A page asked for has nothing written: it keeps CollapseInv.
LEMMA AskForCollapse ==
  ASSUME TypeInv, RequestInv, CollapseInv, NEW w \in Queries, NEW s \in Ids \cup {NoScroll},
         AskFor(w, s)
  PROVE  CollapseInv'
<1>1. requests'[Latest + 1] = [query |-> w, scrollTo |-> s, state |-> "asked",
                               sent |-> 0, closed |-> {}]
  BY AskForFacts, Zenon
<1>2. /\ Latest' = Latest + 1 /\ UNCHANGED doc
      /\ \A n \in 1 .. Latest : requests'[n] = requests[n]
  BY AskForFacts
<1>3. requests'[Latest'].closed = {} /\ requests'[Latest'].sent = 0
  BY <1>1, <1>2
<1>4. Written(Latest)' = {}
  <2>1. Written(Latest)' = {Articles[w][i] : i \in 1 .. 0}
    BY <1>1, <1>2 DEF Written, FirstOn
  <2> QED
    BY <2>1
<1>5. InDoc' = InDoc
  <2>1. CASE doc.n = 0
    BY <1>2, <2>1 DEF RequestInv, InDoc, FirstOn
  <2>2. CASE doc.n # 0
    <3>1. doc.n \in 1 .. Latest
      BY <2>2 DEF RequestInv, TypeInv, DocTypes, Latest
    <3> QED
      BY <1>2, <3>1 DEF InDoc, FirstOn, Request
  <2> QED
    BY <2>1, <2>2
<1>6. doc'.collapsed \subseteq InDoc'
  BY <1>2, <1>5 DEF CollapseInv
<1> QED
  BY <1>3, <1>4, <1>6 DEF CollapseInv

\* A message about the active article is none about the collapsing of one.
LEMMA CollapseOfEvent ==
  ASSUME TypeInv, NEW ch \in Seq(CallTypes), NEW d \in Dicts
  PROVE  /\ \A e : HasCollapse(ch \o Event(d), e) <=> HasCollapse(ch, e)
         /\ \A e : \A k : LastCollapseIs(ch, e, k) => LastCollapseIs(ch \o Event(d), e, k)
<1> DEFINE m == Event(d)[1]
<1>1. m \in CallTypes /\ m.kind = "active" /\ Event(d) = <<m>>
  BY CallTyped
<1> HIDE DEF m
<1>2. ch \o Event(d) = Append(ch, m)
  BY <1>1
<1>3. \A e : ~About(m, e)
  BY <1>1 DEF About
<1>4. ASSUME NEW e
      PROVE  /\ HasCollapse(Append(ch, m), e) <=> HasCollapse(ch, e)
             /\ \A k : LastCollapseIs(ch, e, k) => LastCollapseIs(Append(ch, m), e, k)
  <2>1. HasCollapse(Append(ch, m), e) <=> HasCollapse(ch, e) \/ About(m, e)
    BY <1>1, CollapseOfAppend
  <2>2. \A k : ~About(m, e) /\ LastCollapseIs(ch, e, k) => LastCollapseIs(Append(ch, m), e, k)
    BY <1>1, CollapseOfAppend
  <2> QED
    BY <1>3, <2>1, <2>2
<1> QED
  BY <1>2, <1>4

\* A call about the collapsing of d is the last about d, and about nothing else.
LEMMA CollapseOfCall ==
  ASSUME TypeInv, NEW d \in Dicts, NEW on \in BOOLEAN
  PROVE  LET ch == Append(toView, CollapseMsg(d, on))
         IN  /\ ch \in Seq(CallTypes)
             /\ \A e : HasCollapse(ch, e) <=> HasCollapse(toView, e) \/ e = d
             /\ \A e : \A k : e # d /\ LastCollapseIs(toView, e, k) => LastCollapseIs(ch, e, k)
             /\ LastCollapseIs(ch, d, IF on THEN "collapse" ELSE "expand")
<1> DEFINE m == CollapseMsg(d, on)
           kind == IF on THEN "collapse" ELSE "expand"
<1>1. m \in CallTypes /\ toView \in Seq(CallTypes)
  BY CallTyped DEF TypeInv
<1>2. m.kind = kind /\ m.dict = d /\ kind \in {"collapse", "expand"}
  BY DEF CollapseMsg
<1> HIDE DEF m, kind
<1>3. \A e : About(m, e) <=> e = d
  BY <1>2 DEF About
<1>4. Append(toView, m) \in Seq(CallTypes)
  BY <1>1
<1>5. ASSUME NEW e
      PROVE  /\ HasCollapse(Append(toView, m), e) <=> HasCollapse(toView, e) \/ e = d
             /\ \A k : e # d /\ LastCollapseIs(toView, e, k) =>
                       LastCollapseIs(Append(toView, m), e, k)
  <2>1. HasCollapse(Append(toView, m), e) <=> HasCollapse(toView, e) \/ About(m, e)
    BY <1>1, CollapseOfAppend
  <2>2. \A k : ~About(m, e) /\ LastCollapseIs(toView, e, k) =>
          LastCollapseIs(Append(toView, m), e, k)
    BY <1>1, CollapseOfAppend
  <2> QED
    BY <1>3, <2>1, <2>2
<1>6. LastCollapseIs(Append(toView, m), d, kind)
  <2>1. About(m, d) => LastCollapseIs(Append(toView, m), d, m.kind)
    BY <1>1, CollapseOfAppend
  <2> QED
    BY <1>2, <1>3, <2>1
<1> QED
  BY <1>4, <1>5, <1>6 DEF m, kind

\* The first call is taken from the channel and the session set by it.
LEMMA CollapseTaken ==
  ASSUME TypeInv, RequestInv, CollapseInv, OnCollapse
  PROVE  CollapseInv'
<1> DEFINE m == Head(toView)
           t == Tail(toView)
<1>1. /\ toView # <<>> /\ toView' = t /\ toView \in Seq(CallTypes)
      /\ UNCHANGED <<doc, requests, late>>
      /\ collapsedDicts' = CollapseInHtml(m)
  BY DEF OnCollapse, TypeInv
<1>2. m.kind \in {"collapse", "expand"}
  BY HeadTyped DEF OnCollapse
<1>3. \A d : HasCollapse(toView, d) <=> About(m, d) \/ HasCollapse(t, d)
  BY <1>1, CollapseOfTail
<1>4. \A d : \A k \in {"collapse", "expand"} : LastCollapseIs(toView, d, k) =>
        IF HasCollapse(t, d) THEN LastCollapseIs(t, d, k) ELSE m.kind = k
  BY <1>1, CollapseOfTail
<1> HIDE DEF m, t
<1>5. \A d : About(m, d) <=> m.dict = d
  BY <1>2 DEF About
<1>6. \A d : (d \in collapsedDicts' <=> IF m.dict = d THEN m.kind = "collapse"
                                        ELSE d \in collapsedDicts)
  BY <1>1, <1>2 DEF CollapseInHtml
<1>7. InDoc' = InDoc /\ Latest' = Latest /\ Written(Latest)' = Written(Latest)
  BY <1>1 DEF InDoc, FirstOn, Request, Latest, Written
<1>8. ASSUME NEW d, AsTold(d) PROVE AsTold(d)'
  <2>1. CASE m.dict # d
    <3>1. /\ HasCollapse(toView', d) <=> HasCollapse(toView, d)
          /\ d \in collapsedDicts' <=> d \in collapsedDicts
      BY <1>1, <1>3, <1>5, <1>6, <2>1
    <3>2. \A k \in {"collapse", "expand"} :
            LastCollapseIs(toView, d, k) => LastCollapseIs(toView', d, k)
      <4>1. ASSUME NEW k \in {"collapse", "expand"}, LastCollapseIs(toView, d, k)
            PROVE  LastCollapseIs(t, d, k)
        <5>1. HasCollapse(toView, d)
          BY <4>1 DEF HasCollapse, LastCollapseIs
        <5>2. HasCollapse(t, d)
          BY <1>3, <1>5, <2>1, <5>1
        <5> QED
          BY <1>4, <4>1, <5>2
      <4> QED
        BY <1>1, <4>1
    <3> QED
      BY <1>1, <1>7, <1>8, <3>1, <3>2, ToldKept
  <2>2. CASE m.dict = d
    <3> DEFINE kind == IF d \in doc.collapsed THEN "collapse" ELSE "expand"
    <3>1. HasCollapse(toView, d)
      BY <1>3, <1>5, <2>2
    <3>2. doc.n = Latest /\ d \in InDoc /\ LastCollapseIs(toView, d, kind)
      BY <1>8, <3>1 DEF AsTold
    <3>3. kind \in {"collapse", "expand"} /\ (kind = "collapse" <=> d \in doc.collapsed)
      OBVIOUS
    <3> HIDE DEF kind
    <3>4. IF HasCollapse(t, d) THEN LastCollapseIs(t, d, kind) ELSE m.kind = kind
      BY <1>4, <3>2, <3>3
    <3>5. kind' = kind
      BY <1>1 DEF kind
    <3>6. CASE HasCollapse(t, d)
      <4>1. HasCollapse(toView, d)'
        BY <1>1, <3>6 DEF HasCollapse
      <4>2. LastCollapseIs(toView', d, kind')
        BY <1>1, <3>4, <3>5, <3>6
      <4>3. LastCollapseIs(toView, d, IF d \in doc.collapsed THEN "collapse" ELSE "expand")'
        BY <4>2 DEF LastCollapseIs, kind
      <4> QED
        BY <1>1, <1>7, <3>2, <4>1, <4>3 DEF AsTold
    <3>7. CASE ~HasCollapse(t, d)
      <4>1. ~HasCollapse(toView, d)'
        BY <1>1, <3>7 DEF HasCollapse
      <4>2. IsCollapsed(d)' <=> d \in doc.collapsed
        BY <1>1, <1>7, <3>2 DEF IsCollapsed
      <4>3. d \in collapsedDicts' <=> d \in doc.collapsed
        BY <1>6, <2>2, <3>3, <3>4, <3>7
      <4> QED
        BY <4>1, <4>2, <4>3 DEF AsTold
    <3> QED
      BY <3>6, <3>7
  <2> QED
    BY <2>1, <2>2
<1> QED
  BY <1>1, <1>7, <1>8 DEF CollapseInv

\* The page gets its next article, collapsed if it was written so.
LEMMA CollapseArrives ==
  ASSUME TypeInv, RequestInv, CollapseInv, ArticleArrives
  PROVE  CollapseInv'
<1> DEFINE w == Request.query
           n == doc.articles
           d == Articles[w][n + 1]
<1>0. doc \in DocTypes /\ Latest \in Nat /\ doc.n \in Nat /\ n \in Nat
  BY DEF TypeInv, Latest, DocTypes
<1>1. /\ doc.n > 0 /\ n < Request.sent /\ doc'.n = doc.n
      /\ doc'.articles = n + 1
      /\ doc'.collapsed = doc.collapsed \cup ({d} \cap Request.closed)
      /\ UNCHANGED <<requests, toView, collapsedDicts, late>>
  BY <1>0 DEF ArticleArrives, DocTypes
<1>2. doc.n \in 1 .. Latest
  BY <1>0, <1>1 DEF RequestInv
<1>3. /\ w \in Queries /\ Request.sent \in Nat /\ Request.sent <= Len(Articles[w])
      /\ Articles[w] \in Seq(Dicts) /\ Len(Articles[w]) \in Nat
  BY <1>2, RequestFacts DEF RequestTypes, Request, RequestInv
<1>4. FirstOn(w, n + 1) = FirstOn(w, n) \cup {d} /\ d \notin FirstOn(w, n)
  <2> DEFINE ds == SubSeq(Articles[w], n + 1, n + 1)
  <2>1. /\ FirstOn(w, n + 1) = FirstOn(w, n) \cup Range(ds)
        /\ FirstOn(w, n) \cap Range(ds) = {}
    BY <1>0, <1>1, <1>3, FrontGrows
  <2>2. DOMAIN ds = {1} /\ ds[1] = d
    <3> DEFINE s == Articles[w]
               k == n + 1
    <3>1. s \in Seq(Dicts) /\ k \in 1 .. Len(s) /\ k \in Nat
      BY <1>0, <1>1, <1>3
    <3> HIDE DEF s, k
    <3>2. Len(SubSeq(s, k, k)) = 1 /\ SubSeq(s, k, k)[1] = s[k]
          /\ DOMAIN SubSeq(s, k, k) = 1 .. 1
      BY <3>1
    <3>3. ds = SubSeq(s, k, k) /\ d = s[k]
      BY DEF s, k
    <3>4. 1 .. 1 = {1}
      OBVIOUS
    <3> HIDE DEF ds, d
    <3> QED
      BY <3>2, <3>3, <3>4
  <2> HIDE DEF ds, d
  <2>3. Range(ds) = {d}
    BY <2>2 DEF Range
  <2> QED
    BY <2>1, <2>3
<1>5. InDoc = FirstOn(w, n) /\ InDoc' = FirstOn(w, n + 1)
  BY <1>1 DEF InDoc, FirstOn, Request
<1> HIDE DEF d
<1>6. doc'.collapsed \subseteq InDoc' /\ doc.collapsed \subseteq InDoc
  BY <1>1, <1>4, <1>5 DEF CollapseInv
<1>7. Latest' = Latest /\ Written(Latest)' = Written(Latest)
  BY <1>1 DEF Latest, Written, FirstOn
<1>8. ASSUME NEW e, AsTold(e) PROVE AsTold(e)'
  <2>1. CASE e # d
    <3>1. /\ e \in InDoc' <=> e \in InDoc
          /\ e \in doc'.collapsed <=> e \in doc.collapsed
      BY <1>1, <1>4, <1>5, <2>1
    <3> QED
      BY <1>1, <1>7, <1>8, <3>1, ToldKept
  <2>2. CASE e = d
    <3>1. ~HasCollapse(toView, e) /\ ~HasCollapse(toView, e)'
      <4>1. ~HasCollapse(toView, e)
        BY <1>4, <1>5, <1>8, <2>2 DEF AsTold
      <4> QED
        BY <1>1, <4>1 DEF HasCollapse
    <3>2. IsCollapsed(e) <=> e \in requests[Latest].closed
      BY <1>4, <1>5, <2>2 DEF IsCollapsed
    <3>3. IsCollapsed(e)' <=> e \in requests[Latest].closed
      <4>1. CASE doc.n = Latest
        <5>1. e \in doc'.collapsed <=> e \in requests[Latest].closed
          BY <1>1, <1>4, <1>5, <1>6, <2>2, <4>1 DEF Request
        <5> QED
          BY <1>1, <1>4, <1>5, <1>7, <2>2, <4>1, <5>1 DEF IsCollapsed
      <4>2. CASE doc.n # Latest
        BY <1>1, <1>7, <4>2 DEF IsCollapsed
      <4> QED
        BY <4>1, <4>2
    <3> QED
      BY <1>1, <1>8, <3>1, <3>2, <3>3 DEF AsTold
  <2> QED
    BY <2>1, <2>2
<1> QED
  BY <1>1, <1>6, <1>7, <1>8 DEF CollapseInv

\* A new page has none of its articles yet.
LEMMA CollapseCommit ==
  ASSUME TypeInv, CollapseInv, Commit
  PROVE  CollapseInv'
<1>1. /\ doc.n < Latest /\ doc'.n = Latest /\ doc'.articles = 0 /\ doc'.collapsed = {}
      /\ UNCHANGED <<requests, toView, collapsedDicts, late>>
      /\ doc.n \in Nat /\ Latest \in Nat
  BY DEF Commit, NoDoc, TypeInv, DocTypes, Latest
<1>2. InDoc' = {} /\ Latest' = Latest /\ Written(Latest)' = Written(Latest)
  BY <1>1 DEF InDoc, FirstOn, Latest, Written
<1>3. ASSUME NEW d, AsTold(d) PROVE AsTold(d)'
  <2>1. ~HasCollapse(toView, d)
    BY <1>1, <1>3 DEF AsTold
  <2>2. ~HasCollapse(toView, d)'
    BY <1>1, <2>1 DEF HasCollapse
  <2>3. IsCollapsed(d)' <=> IsCollapsed(d)
    BY <1>1, <1>2 DEF IsCollapsed
  <2> QED
    BY <1>1, <1>3, <2>1, <2>2, <2>3 DEF AsTold
<1> QED
  BY <1>1, <1>2, <1>3 DEF CollapseInv

\* Another view collapses or expands its article.
LEMMA CollapseElsewhere ==
  ASSUME TypeInv, RequestInv, CollapseInv, NEW d \in Dicts, OtherCollapse(d)
  PROVE  CollapseInv'
<1>1. /\ UNCHANGED <<requests, doc, toView>> /\ late \subseteq late'
      /\ \A e : e # d => (e \in collapsedDicts' <=> e \in collapsedDicts)
      /\ Latest > 0 /\ d \in Sent(requests[Latest]) => d \in late'
  BY OtherCollapseIs
<1>2. InDoc' = InDoc /\ Latest' = Latest /\ Written(Latest)' = Written(Latest)
  BY <1>1 DEF InDoc, FirstOn, Request, Latest, Written
<1>3. doc'.collapsed \subseteq InDoc'
  BY <1>1, <1>2 DEF CollapseInv
<1>4. ASSUME Latest' > 0
      PROVE  /\ requests'[Latest'].closed \subseteq Written(Latest)'
             /\ \A e \in Written(Latest)' \ late' : AsTold(e)'
  <2>1. requests'[Latest'].closed \subseteq Written(Latest)'
    BY <1>1, <1>2, <1>4 DEF CollapseInv
  <2>2. Sent(requests[Latest]) = Written(Latest)
    <3>1. Latest \in 1 .. Latest
      BY <1>2, <1>4 DEF TypeInv, Latest
    <3>2. /\ Articles[requests[Latest].query] \in Seq(Dicts)
          /\ requests[Latest].sent \in 0 .. Len(Articles[requests[Latest].query])
      BY <3>1, RequestFacts DEF RequestTypes, RequestInv
    <3> QED
      BY <3>2, FrontFacts DEF Sent, Written, FirstOn
  <2>3. ASSUME NEW e \in Written(Latest)' \ late' PROVE AsTold(e)'
    <3>1. e \in Written(Latest) \ late /\ e # d
      BY <1>1, <1>2, <1>4, <2>2, <2>3
    <3>2. AsTold(e)
      BY <1>2, <1>4, <3>1 DEF CollapseInv
    <3> QED
      BY <1>1, <1>2, <3>1, <3>2, ToldKept
  <2> QED
    BY <2>1, <2>3
<1> QED
  BY <1>3, <1>4 DEF CollapseInv

\* Every step keeps CollapseInv.
LEMMA CollapseStep ==
  ASSUME TypeInv, RequestInv, CollapseInv, [Next]_vars
  PROVE  CollapseInv'
<1>0. /\ doc \in DocTypes /\ toView \in Seq(CallTypes) /\ toPage \in Seq(ScriptTypes)
      /\ Shown = InDoc /\ InDoc \subseteq Dicts
  BY ShownIs DEF TypeInv
<1>1. ASSUME UNCHANGED <<requests, toView, collapsedDicts, late>>, doc'.n = doc.n,
             doc'.articles = doc.articles, doc'.collapsed = doc.collapsed
      PROVE  CollapseInv'
  <2>1. InDoc' = InDoc /\ Latest' = Latest /\ Written(Latest)' = Written(Latest)
    BY <1>1 DEF InDoc, FirstOn, Request, Latest, Written
  <2> QED
    BY <1>1, <2>1, CollapseUntouched
<1>2. ASSUME UNCHANGED <<doc, requests, toView, collapsedDicts, late>> PROVE CollapseInv'
  BY <1>1, <1>2
<1>3. CASE Asking
  BY <1>3, PageAsked, AskForCollapse
<1>4. CASE OnlyView
  BY <1>2, <1>4, OnlyViewIs
<1>19. ASSUME NEW d \in Dicts, OtherCollapse(d) PROVE CollapseInv'
  BY <1>19, CollapseElsewhere
<1>5. ASSUME NEW n \in 1 .. Latest,
             \/ RequestStarts(n) \/ RequestGone(n)
             \/ \E k \in 1 .. Len(Articles[requests[n].query]) : BodyFinished(n, k)
      PROVE  CollapseInv'
  BY <1>5, PagesCollapse
<1>6. ASSUME NEW w \in Queries, OtherRequest(w) PROVE CollapseInv'
  BY <1>2, <1>6 DEF OtherRequest
<1>7. CASE Commit
  BY <1>7, CollapseCommit
<1>8. CASE ArticleArrives
  BY <1>8, CollapseArrives
<1>9. ASSUME NEW visible \in BOOLEAN, LoadFinished(visible) PROVE CollapseInv'
  <2>1. /\ doc' = [doc EXCEPT !.loaded = TRUE]
        /\ UNCHANGED <<requests, toView, collapsedDicts, late>>
    BY <1>9 DEF LoadFinished
  <2>2. doc'.n = doc.n /\ doc'.articles = doc.articles /\ doc'.collapsed = doc.collapsed
    BY <1>0, <2>1 DEF DocTypes
  <2> QED
    BY <1>1, <2>1, <2>2
<1>10. ASSUME NEW d \in Dicts, Click(d) PROVE CollapseInv'
  <2>1. /\ doc' = [doc EXCEPT !.active = MadeActive(d)]
        /\ UNCHANGED <<requests, collapsedDicts, late>>
        /\ IF MadeActive(d) = NoDict THEN UNCHANGED toView ELSE toView' = toView \o Event(d)
    BY <1>10 DEF Click, MakesActive
  <2>2. doc'.n = doc.n /\ doc'.articles = doc.articles /\ doc'.collapsed = doc.collapsed
    BY <1>0, <2>1 DEF DocTypes
  <2>3. CASE UNCHANGED toView
    BY <1>1, <2>1, <2>2, <2>3
  <2>4. CASE toView' = toView \o Event(d)
    <3>1. /\ \A e : HasCollapse(toView', e) <=> HasCollapse(toView, e)
          /\ \A e : \A k : LastCollapseIs(toView, e, k) => LastCollapseIs(toView', e, k)
      BY <1>0, <2>4, CollapseOfEvent
    <3>2. InDoc' = InDoc /\ Latest' = Latest /\ Written(Latest)' = Written(Latest)
      BY <2>1, <2>2 DEF InDoc, FirstOn, Request, Latest, Written
    <3> QED
      BY <2>1, <2>2, <3>1, <3>2, CollapseKept
  <2> QED
    BY <2>1, <2>3, <2>4
<1>11. ASSUME NEW d \in Dicts, Collapse(d) PROVE CollapseInv'
  <2>1. /\ doc' = [doc EXCEPT !.collapsed = @ \cup {d}] /\ d \in InDoc
        /\ toView' = Append(toView, CollapseMsg(d, TRUE)) /\ late' = NowLate(d)
        /\ UNCHANGED <<requests, collapsedDicts>>
    BY <1>0, <1>11 DEF Collapse
  <2>2. /\ doc'.n = doc.n /\ doc'.articles = doc.articles
        /\ doc'.collapsed = doc.collapsed \cup {d}
    BY <1>0, <2>1 DEF DocTypes
  <2>3. /\ \A e : HasCollapse(toView', e) <=> HasCollapse(toView, e) \/ e = d
        /\ \A e : \A k : e # d /\ LastCollapseIs(toView, e, k) => LastCollapseIs(toView', e, k)
        /\ LastCollapseIs(toView', d, "collapse")
    BY <2>1, CollapseOfCall
  <2> QED
    BY <2>1, <2>2, <2>3, CollapseTold
<1>12. ASSUME NEW d \in Dicts, Expand(d) PROVE CollapseInv'
  <2> DEFINE ch == Append(toView, CollapseMsg(d, FALSE))
  <2>1. /\ doc' = [doc EXCEPT !.collapsed = @ \ {d}, !.active = MadeActive(d)] /\ d \in InDoc
        /\ toView' = ch \/ toView' = ch \o Event(d)
        /\ late' = NowLate(d) /\ UNCHANGED <<requests, collapsedDicts>>
    BY <1>0, <1>12 DEF Expand
  <2>2. /\ doc'.n = doc.n /\ doc'.articles = doc.articles
        /\ doc'.collapsed = doc.collapsed \ {d}
    BY <1>0, <2>1 DEF DocTypes
  <2>3. /\ ch \in Seq(CallTypes)
        /\ \A e : HasCollapse(ch, e) <=> HasCollapse(toView, e) \/ e = d
        /\ \A e : \A k : e # d /\ LastCollapseIs(toView, e, k) => LastCollapseIs(ch, e, k)
        /\ LastCollapseIs(ch, d, "expand")
    BY CollapseOfCall
  <2> HIDE DEF ch
  <2>4. /\ \A e : HasCollapse(toView', e) <=> HasCollapse(ch, e)
        /\ \A e : \A k : LastCollapseIs(ch, e, k) => LastCollapseIs(toView', e, k)
    <3>1. CASE toView' = ch
      BY <3>1
    <3>2. CASE toView' = ch \o Event(d)
      BY <2>3, <3>2, CollapseOfEvent
    <3> QED
      BY <2>1, <3>1, <3>2
  <2>5. /\ \A e : HasCollapse(toView', e) <=> HasCollapse(toView, e) \/ e = d
        /\ \A e : \A k : e # d /\ LastCollapseIs(toView, e, k) => LastCollapseIs(toView', e, k)
        /\ LastCollapseIs(toView', d, "expand")
    BY <2>3, <2>4
  <2> QED
    BY <2>1, <2>2, <2>5, CollapseTold
<1>13. CASE RunMakeActive
  <2>1. \E a : doc' = [doc EXCEPT !.active = a]
    BY <1>13 DEF RunMakeActive
  <2>2. doc'.n = doc.n /\ doc'.articles = doc.articles /\ doc'.collapsed = doc.collapsed
    BY <1>0, <2>1 DEF DocTypes
  <2> QED
    BY <1>1, <1>13, <2>2 DEF RunMakeActive
<1>14. CASE RunCheckNumber
  <2>1. /\ doc' = [doc EXCEPT !.collapsed = @ \ Single]
        /\ UNCHANGED <<requests, collapsedDicts>>
        /\ \/ Single = {} /\ UNCHANGED <<toView, late>>
           \/ \E d \in Single : /\ toView' = Append(toView, CollapseMsg(d, FALSE))
                                /\ late' = NowLate(d)
    BY <1>14 DEF RunCheckNumber
  <2>2. /\ doc'.n = doc.n /\ doc'.articles = doc.articles
        /\ doc'.collapsed = doc.collapsed \ Single
    BY <1>0, <2>1 DEF DocTypes
  <2>3. CASE Single = {} /\ UNCHANGED <<toView, late>>
    BY <1>1, <2>1, <2>2, <2>3
  <2>4. ASSUME NEW d \in Single, toView' = Append(toView, CollapseMsg(d, FALSE)),
               late' = NowLate(d)
        PROVE  CollapseInv'
    <3>1. Single = {d} /\ d \in InDoc /\ d \in Dicts
      BY <1>0, <2>4 DEF Single
    <3>2. /\ \A e : HasCollapse(toView', e) <=> HasCollapse(toView, e) \/ e = d
          /\ \A e : \A k : e # d /\ LastCollapseIs(toView, e, k) => LastCollapseIs(toView', e, k)
          /\ LastCollapseIs(toView', d, "expand")
      BY <2>4, <3>1, CollapseOfCall
    <3> QED
      BY <2>1, <2>2, <2>4, <3>1, <3>2, CollapseTold
  <2> QED
    BY <2>1, <2>3, <2>4
<1>15. CASE OnCollapse
  BY <1>15, CollapseTaken
<1>16. CASE OnJsActiveArticleChanged
  <2>1. /\ toView # <<>> /\ Head(toView).kind = "active" /\ toView' = Tail(toView)
        /\ UNCHANGED <<doc, requests, collapsedDicts, late>>
    BY <1>16 DEF OnJsActiveArticleChanged
  <2>2. \A e : ~About(Head(toView), e)
    BY <2>1 DEF About
  <2>3. \A e : HasCollapse(toView', e) <=> HasCollapse(toView, e)
    BY <1>0, <2>1, <2>2, CollapseOfTail
  <2>4. ASSUME NEW e, NEW k \in {"collapse", "expand"}, LastCollapseIs(toView, e, k)
        PROVE  LastCollapseIs(toView', e, k)
    <3>1. IF HasCollapse(Tail(toView), e) THEN LastCollapseIs(Tail(toView), e, k)
          ELSE Head(toView).kind = k
      BY <1>0, <2>1, <2>4, CollapseOfTail
    <3>2. Head(toView).kind # k
      BY <2>1, <2>4
    <3> QED
      BY <2>1, <3>1, <3>2
  <2>5. InDoc' = InDoc /\ Latest' = Latest /\ Written(Latest)' = Written(Latest)
    BY <2>1 DEF InDoc, FirstOn, Request, Latest, Written
  <2> QED
    BY <2>1, <2>3, <2>4, <2>5, CollapseKept
<1>17. CASE \/ MoveOneArticleUp \/ MoveOneArticleDown
            \/ \E d \in Dicts : JumpToDictionary(d)
  BY <1>2, <1>17, MovesAreByUser DEF SetByUser
<1>18. CASE UNCHANGED vars
  BY <1>2, <1>18 DEF vars
<1> QED
  BY <1>3, <1>4, <1>5, <1>6, <1>7, <1>8, <1>9, <1>10, <1>11, <1>12, <1>13, <1>14, <1>15,
     <1>16, <1>17, <1>18, <1>19 DEF Next, Asking, OnlyView

\* The invariant gives CollapseRemembered.
LEMMA CollapseFollows ==
  ASSUME TypeInv, RequestInv, CollapseInv
  PROVE  CollapseRemembered
<1> SUFFICES ASSUME doc.n = Latest, NEW d \in Shown \ late, ~HasCollapse(toView, d)
             PROVE  /\ d \in collapsedDicts => d \in doc.collapsed
                    /\ d \in doc.collapsed => d \in collapsedDicts \cup Large
  BY DEF CollapseRemembered
<1>1. d \in InDoc /\ Latest > 0 /\ d \in Written(Latest)
  <2>1. d \in InDoc
    BY ShownIs
  <2>2. Latest > 0
    BY DEF Shown, TypeInv, Latest
  <2> QED
    BY <2>1, <2>2, WrittenFacts
<1>2. AsTold(d) /\ (IsCollapsed(d) <=> d \in doc.collapsed)
  BY <1>1 DEF CollapseInv, IsCollapsed
<1> QED
  BY <1>2 DEF AsTold

-----------------------------------------------------------------------------
(* The theorems. *)

\* A view before its first page.
LEMMA InitInv ==
  Init => TypeInv /\ RequestInv /\ ListInv /\ AgreeInv /\ CollapseInv
<1> SUFFICES ASSUME Init PROVE TypeInv /\ RequestInv /\ ListInv /\ AgreeInv /\ CollapseInv
  OBVIOUS
<1>1. /\ Latest = 0 /\ doc.n = 0 /\ doc.articles = 0 /\ doc.active = NoDict
      /\ doc.collapsed = {} /\ doc.loaded = TRUE
  BY DEF Init, NoDoc, Latest
<1>2. TypeInv
  <2>1. doc \in DocTypes
    BY DEF Init, NoDoc, DocTypes, Ids
  <2> QED
    BY <2>1, EmptySeq DEF Init, TypeInv, Ids
<1>3. RequestInv
  BY <1>1 DEF RequestInv
<1>4. ListInv
  BY <1>1 DEF ListInv
<1>5. ~HasActive(toPage) /\ ~HasActive(toView) /\ DOMAIN toView = {}
  BY DEF Init, HasActive
<1>6. AgreeInv
  BY <1>1, <1>5 DEF AgreeInv, Init
<1>7. CollapseInv
  BY <1>1 DEF CollapseInv
<1> QED
  BY <1>2, <1>3, <1>4, <1>6, <1>7

\* What requests, view and page know of each other is inductive, for any number of
\* words, dictionaries, pages and gestures: what is on its way in the two channels
\* makes up for where they differ.
THEOREM PageInvariant ==
  Spec => [](TypeInv /\ RequestInv /\ ListInv /\ AgreeInv /\ CollapseInv)
<1> DEFINE Inv == TypeInv /\ RequestInv /\ ListInv /\ AgreeInv /\ CollapseInv
<1>1. Init => Inv
  BY InitInv
<1>2. Inv /\ [Next]_vars => Inv'
  BY TypeStep, RequestStep, ListStep, AgreeStep, CollapseStep
<1> QED
  BY <1>1, <1>2, PTL DEF Spec

\* The list of dictionaries found is that of the articles of the page, in their
\* order, as long as no other request got into it and the view keeps the word and
\* group the page was asked for with (setActiveDictIds, src/src/ui/articleview.cc:2012,
\* showDefinition, 290).
THEOREM ListIsThePage == Spec => []ListIsPage
<1>1. TypeInv /\ RequestInv /\ ListInv /\ AgreeInv /\ CollapseInv => ListIsPage
  BY ListFollows
<1> QED
  BY <1>1, PageInvariant, PTL

\* The page marks one of its articles, and once all is quiet the one the view calls
\* active, unless a message crossed another or missed its article
\* (setCurrentArticle, src/src/ui/articleview.cc:540, gdMakeArticleActive).
THEOREM ViewAndPageAgree == Spec => []Agreement
<1>1. TypeInv /\ RequestInv /\ ListInv /\ AgreeInv /\ CollapseInv => Agreement
  BY AgreeFollows
<1> QED
  BY <1>1, PageInvariant, PTL

\* What was collapsed or expanded last in the session is what a page shows, except
\* of articles written before the call came, from whatever view it is
\* (src/src/ui/articleview.cc:2189).
THEOREM CollapsingRemembered == Spec => []CollapseRemembered
<1>1. TypeInv /\ RequestInv /\ ListInv /\ AgreeInv /\ CollapseInv => CollapseRemembered
  BY CollapseFollows
<1> QED
  BY <1>1, PageInvariant, PTL
=============================================================================
