-------------------------- MODULE DictServerProofs --------------------------
(***************************************************************************)
(* Proofs about DictServer: its types, that a search is complete, and that  *)
(* the articles shown are whole definitions.                                *)
(*                                                                          *)
(* The invariant says, for each state of a request, what is in its buffer   *)
(* and on its way and how that continues what has been gathered: together   *)
(* they are the answer to the query asked last, cut in two.  A packet moves *)
(* the cut.  Lines are taken in loops, of which the first lemmas say what   *)
(* they compute, by induction on the number of turns.                       *)
(***************************************************************************)
EXTENDS DictServer, SequenceTheorems, FiniteSetTheorems, WellFoundedInduction, TLAPS

-----------------------------------------------------------------------------
(* The invariant. *)

\* The lines a server sends while the connection is made.
Greetings == {"220", "530", "250"}

\* While the connection is made nothing has been asked, and one line or command is on
\* its way at most.
Handshake ==
  impl # "FINISHED" =>
    /\ next = 1 /\ matchesList = <<>> /\ matches = <<>> /\ shown = <<>>
    /\ sent \in Seq({0}) /\ Len(sent) + Len(buffer) + Len(stream) <= 1
    /\ \A i \in 1 .. Len(buffer) : buffer[i].kind \in Greetings
    /\ \A i \in 1 .. Len(stream) : stream[i].kind \in Greetings
    /\ \A i \in 1 .. Len(articleText) : articleText[i].kind \in Greetings
    /\ kind = "search" => state = "START"
    /\ isFinished => IsCancelled

\* A list of lines in which the words of a list are followed by its end.
Linked(lines) ==
  \A i \in 1 .. Len(lines) :
    lines[i].kind \in {"152", "word"} =>
      i < Len(lines) /\ lines[i + 1].kind \in {"word", "."}

\* What arrives of a search keeps the protocol, and the words of a list are read as such.
SearchInv ==
  kind = "search" =>
    /\ timedOut = FALSE
    /\ impl = "FINISHED" => state \in {"MATCH", "MATCH_DATA", "FINISHED"}
    /\ Linked(buffer \o stream)
    /\ state = "MATCH_DATA" =>
         buffer = <<>> /\ stream # <<>> /\ stream[1].kind \in {"word", "."}

\* The server holds fewer words than the limit of a search.
Small == Len(HeldBy[NQueries]) < MaxMatches

\* A client that waits for the answer to query c.next - 1, of which the lines
\* `rest' are still to come.
Exact(c, rest) ==
  /\ c.state \in {"MATCH", "MATCH_DATA"} =>
       c.matches = <<>> /\ c.buffer = <<>> /\ c.next - 1 \in Queries
  /\ c.state = "MATCH" =>
       /\ c.list = HeldBy[c.next - 2]
       /\ \/ c.sent = <<c.next - 1>> /\ rest = <<>>
          \/ c.sent = <<>> /\ rest = ReplyTo(c.next - 1)
  /\ c.state = "MATCH_DATA" =>
       /\ c.sent = <<>> /\ holds[c.next - 1] # <<>>
       /\ \E k \in 0 .. Len(holds[c.next - 1]) :
            /\ c.list = HeldBy[c.next - 2] \o SubSeq(holds[c.next - 1], 1, k)
            /\ rest = SubSeq(ReplyTo(c.next - 1), k + 2, Len(holds[c.next - 1]) + 3)
  /\ c.state = "FINISHED" => c.matches = Distinct(HeldBy[NQueries])

\* A search of which no packet ended with a dot has exactly the words that came.
ExactInv ==
  (kind = "search" /\ impl = "FINISHED" /\ ~torn /\ Small) =>
    /\ Exact(Client, stream)
    /\ state # "FINISHED" /\ isFinished => IsCancelled

\* Of one definition what is behind its first lines.
Body(lines) ==
  \E k \in 1 .. Len(lines) :
    lines[k].kind = "." /\ \A i \in 1 .. k - 1 : lines[i].kind \in {"151", "word"}

\* What is shown is whole, and nothing but for a reason.
Whole(c) ==
  /\ \A i \in DOMAIN c.shown : \E w \in Held : c.shown[i] = <<w, w>>
  /\ c.fin /\ ~IsCancelled /\ c.shown = <<>> => Held = {}

\* A client that waits for the answer to query c.next - 1, none before it having had one.
Asking(c, rest) ==
  /\ TextOf(c.text) = <<>> /\ ~HasDot(c.text, Len(c.text))
  /\ c.buffer = <<>> /\ c.shown = <<>>
  /\ \A q \in 1 .. c.next - 2 : holds[q] = <<>>
  /\ \/ c.next - 1 \in Queries /\ c.sent = <<c.next - 1>> /\ rest = <<>>
     \/ c.next - 1 \in Queries /\ c.sent = <<>> /\ rest = DefineReply(c.next - 1)
     \/ Held = {} /\ c.sent = <<>> /\ rest = <<>>

\* A client that has got the first lines of a definition, of which `rest' is to come.
Gathering(c, rest) ==
  IF HasDot(c.text, Len(c.text)) THEN \E w \in Held : TextOf(c.text) = <<w, w>>
  ELSE /\ c.buffer = <<>> /\ Body(rest)
       /\ \E w \in Held : TextOf(c.text) \o TextOf(rest) = <<w, w>>

\* A client whose connection stands, with the lines `rest' on their way.
Serving(c, rest) ==
  /\ c.state \in {"DEFINE", "DEFINE_DATA"} /\ Whole(c)
  /\ c.state = "DEFINE" => Asking(c, rest)
  /\ c.state = "DEFINE_DATA" => Gathering(c, rest)

\* An article request shows whole definitions only, and gathers one at a time.
ArticleInv ==
  kind = "article" =>
    /\ state \in {"START", "DEFINE", "DEFINE_DATA"} /\ Whole(ArticleClient)
    /\ impl = "FINISHED" => Serving(ArticleClient, stream)

\* The inductive invariant of both requests.
Inv == TypeOK /\ Handshake /\ SearchInv /\ ExactInv /\ ArticleInv

-----------------------------------------------------------------------------
(* Natural numbers, and the loops of the model. *)

\* A set of natural numbers has a smallest one.
LEMMA SmallestOf ==
  ASSUME NEW T, T \subseteq Nat, T # {}
  PROVE  \E x \in T : \A y \in T : x <= y
<1> DEFINE Upto == {1 .. x : x \in T}
           R == StrictSubsetOrdering(Nat)
<1>1. Upto \subseteq FiniteSubsetsOf(Nat) /\ Upto # {}
  <2>1. \A x \in T : 1 .. x \subseteq Nat /\ IsFiniteSet(1 .. x)
    BY FS_Interval
  <2> QED
    BY <2>1 DEF FiniteSubsetsOf
<1>2. PICK B \in Upto : \A C \in Upto : ~(<<C, B>> \in R)
  <2> HIDE DEF Upto
  <2> QED
    BY <1>1, WFMin, FS_StrictSubsetOrderingWellFounded, Zenon
<1>3. PICK x \in T : B = 1 .. x
  OBVIOUS
<1>4. ASSUME NEW y \in T, y < x PROVE FALSE
  <2>1. 1 .. y \subseteq 1 .. x /\ x \in 1 .. x /\ x \notin 1 .. y
    BY <1>4
  <2>2. <<1 .. y, B>> \in R
    BY <1>3, <2>1 DEF StrictSubsetOrdering
  <2> QED
    BY <1>2, <2>2
<1> QED
  BY <1>4

\* What holds of 0, and of a number if it holds of the one before, holds of all.
LEMMA AllUpTo ==
  ASSUME NEW N \in Nat, NEW Good, 0 \in Good,
         \A i \in 1 .. N : i - 1 \in Good => i \in Good
  PROVE  \A i \in 0 .. N : i \in Good
<1> DEFINE Bad == {i \in 0 .. N : i \notin Good}
<1>1. CASE Bad = {}
  BY <1>1
<1>2. CASE Bad # {}
  <2>1. Bad \subseteq Nat
    OBVIOUS
  <2>2. PICK n \in Bad : \A y \in Bad : n <= y
    <3> HIDE DEF Bad
    <3> QED
      BY <1>2, <2>1, SmallestOf
  <2>3. n \in 0 .. N /\ n \notin Good
    OBVIOUS
  <2>4. n \in 1 .. N /\ n - 1 \in 0 .. N /\ ~(n <= n - 1)
    BY <2>3
  <2>5. n - 1 \in Good
    BY <2>2, <2>4
  <2> QED
    BY <2>3, <2>4, <2>5
<1> QED
  BY <1>1, <1>2

\* The values f has after each of N turns S from b.
Runs(f, N, b, S) == f[0] = b /\ \A i \in 1 .. N : f[i] = S[i][f[i - 1]]

\* A loop of N turns has a value after each of them.
LEMMA LoopExists ==
  ASSUME NEW N \in Nat, NEW X, NEW b \in X, NEW S \in [1 .. N -> [X -> X]]
  PROVE  \E f \in [0 .. N -> X] : Runs(f, N, b, S)
<1> DEFINE P(n) == \E f \in [0 .. n -> X] :
                     f[0] = b /\ \A i \in 1 .. n : f[i] = S[i][f[i - 1]]
           Good == {n \in 0 .. N : P(n)}
<1>1. P(0)
  <2>1. [i \in 0 .. 0 |-> b] \in [0 .. 0 -> X]
    OBVIOUS
  <2>2. 0 \in 0 .. 0 /\ 1 .. 0 = {}
    OBVIOUS
  <2>3. [i \in 0 .. 0 |-> b][0] = b
    BY <2>2
  <2> QED
    BY <2>1, <2>2, <2>3
<1>2. ASSUME NEW n \in 1 .. N, P(n - 1) PROVE P(n)
  <2>1. PICK f \in [0 .. n - 1 -> X] :
          f[0] = b /\ \A i \in 1 .. n - 1 : f[i] = S[i][f[i - 1]]
    BY <1>2
  <2> DEFINE g == [i \in 0 .. n |-> IF i = n THEN S[n][f[n - 1]] ELSE f[i]]
  <2>2. n \in Nat /\ n >= 1 /\ n <= N
    OBVIOUS
  <2>3. g \in [0 .. n -> X]
    <3>1. f[n - 1] \in X
      BY <2>2
    <3>2. S[n][f[n - 1]] \in X
      BY <3>1
    <3>3. \A i \in 0 .. n : i # n => i \in 0 .. n - 1
      BY <2>2
    <3> QED
      BY <3>2, <3>3
  <2>4. g[0] = b
    BY <2>1, <2>2
  <2>5. ASSUME NEW i \in 1 .. n PROVE g[i] = S[i][g[i - 1]]
    <3>1. i - 1 \in 0 .. n /\ i - 1 # n /\ i \in 0 .. n
      BY <2>2
    <3>2. g[i - 1] = f[i - 1]
      BY <3>1
    <3>3. CASE i = n
      BY <3>1, <3>2, <3>3
    <3>4. CASE i # n
      <4>1. i \in 1 .. n - 1
        BY <2>2, <3>4
      <4>2. f[i] = S[i][f[i - 1]]
        BY <2>1, <4>1
      <4> QED
        BY <3>1, <3>2, <3>4, <4>2
    <3> QED
      BY <3>3, <3>4
  <2> HIDE DEF g
  <2> QED
    BY <2>3, <2>4, <2>5
<1> HIDE DEF P
<1>3. 0 \in Good
  BY <1>1
<1>4. \A i \in 1 .. N : i - 1 \in Good => i \in Good
  BY <1>2
<1>5. N \in Good
  <2> HIDE DEF Good
  <2>1. N \in 0 .. N
    OBVIOUS
  <2> QED
    BY <1>3, <1>4, <2>1, AllUpTo
<1> QED
  BY <1>5 DEF P, Runs

\* removeDuplicates() goes through the list once.
LEMMA DistinctLoop ==
  ASSUME NEW list \in Seq(Words)
  PROVE  \E f \in [0 .. Len(list) -> Seq(Words)] :
           /\ f[0] = <<>> /\ Distinct(list) = f[Len(list)]
           /\ \A i \in 1 .. Len(list) : f[i] = IF \E j \in 1 .. i - 1 : list[j] = list[i] THEN f[i - 1]
                                              ELSE Append(f[i - 1], list[i])
<1> DEFINE N == Len(list)
           X == Seq(Words)
           b == <<>>
           Turn(i, x) == IF \E j \in 1 .. i - 1 : list[j] = list[i] THEN x ELSE Append(x, list[i])
           Step(g) == [i \in 0 .. N |-> IF i = 0 THEN b ELSE Turn(i, g[i - 1])]
           S == [i \in 1 .. N |-> [x \in X |-> Turn(i, x)]]
           a == CHOOSE g : g = Step(g)
<1>1. N \in Nat
  OBVIOUS
<1>2. Distinct(list) = a[N]
  BY Zenon DEF Distinct
<1>3. b \in X
  OBVIOUS
<1>4. ASSUME NEW i \in 1 .. N, NEW x \in X PROVE Turn(i, x) \in X
  <2>1. list[i] \in Words
    OBVIOUS
  <2> HIDE DEF N
  <2>2. Append(x, list[i]) \in X
    BY <2>1
  <2> HIDE DEF X
  <2> QED
    BY <2>2, Zenon
<1> SUFFICES \E f \in [0 .. N -> X] : /\ f[0] = b /\ Distinct(list) = f[N]
                                   /\ \A i \in 1 .. N : f[i] = Turn(i, f[i - 1])
  BY Zenon
<1> HIDE DEF N, X, b, Turn
<1>5. S \in [1 .. N -> [X -> X]]
  BY <1>4
<1>6. \A i \in 1 .. N, x \in X : S[i][x] = Turn(i, x)
  OBVIOUS
<1> HIDE DEF S
<1>7. PICK h \in [0 .. N -> X] : Runs(h, N, b, S)
  BY <1>1, <1>3, <1>5, LoopExists
<1>8. h = Step(h)
  <2>1. h = [i \in 0 .. N |-> h[i]]
    BY <1>7
  <2>2. \A i \in 0 .. N : i # 0 => i \in 1 .. N /\ i - 1 \in 0 .. N
    BY <1>1
  <2>3. \A i \in 0 .. N : i # 0 => h[i] = Turn(i, h[i - 1])
    BY <1>6, <1>7, <2>2 DEF Runs
  <2> QED
    BY <1>7, <2>1, <2>3 DEF Runs
<1>9. a = Step(a)
  BY <1>8, Zenon
<1> HIDE DEF a
<1>10. DOMAIN a = 0 .. N /\ a = [i \in 0 .. N |-> a[i]]
      /\ \A i \in 0 .. N : a[i] = IF i = 0 THEN b ELSE Turn(i, a[i - 1])
  BY <1>9, Zenon
<1>11. a[0] = b /\ \A i \in 1 .. N : a[i] = Turn(i, a[i - 1])
  <2>1. 0 \in 0 .. N /\ \A i \in 1 .. N : i \in 0 .. N /\ i # 0
    BY <1>1
  <2> QED
    BY <1>10, <2>1, Zenon
<1>12. a \in [0 .. N -> X]
  <2> DEFINE Good == {i \in 0 .. N : a[i] \in X}
  <2>1. 0 \in Good
    BY <1>1, <1>3, <1>11
  <2>2. ASSUME NEW i \in 1 .. N, i - 1 \in Good PROVE i \in Good
    <3>1. a[i - 1] \in X /\ i \in 0 .. N
      BY <1>1, <2>2
    <3>2. a[i] \in X
      BY <1>4, <1>11, <3>1
    <3> QED
      BY <3>1, <3>2
  <2>3. \A i \in 0 .. N : i \in Good
    <3> HIDE DEF Good
    <3> QED
      BY <1>1, <2>1, <2>2, AllUpTo
  <2> QED
    BY <1>10, <2>3
<1> QED
  BY <1>2, <1>11, <1>12

\* The definitions of a reply are written one after the other.
LEMMA DefinitionsLoop ==
  ASSUME NEW list \in Seq(Words)
  PROVE  \E f \in [0 .. Len(list) -> Seq(Lines)] :
           /\ f[0] = <<>> /\ Definitions(list) = f[Len(list)]
           /\ \A i \in 1 .. Len(list) : f[i] = f[i - 1] \o Definition(list[i])
<1> DEFINE N == Len(list)
           X == Seq(Lines)
           b == <<>>
           Turn(i, x) == x \o Definition(list[i])
           Step(g) == [i \in 0 .. N |-> IF i = 0 THEN b ELSE Turn(i, g[i - 1])]
           S == [i \in 1 .. N |-> [x \in X |-> Turn(i, x)]]
           a == CHOOSE g : g = Step(g)
<1>1. N \in Nat
  OBVIOUS
<1>2. Definitions(list) = a[N]
  BY Zenon DEF Definitions
<1>3. b \in X
  OBVIOUS
<1>4. ASSUME NEW i \in 1 .. N, NEW x \in X PROVE Turn(i, x) \in X
  <2>1. Definition(list[i]) \in Seq(Lines)
    BY DEF Definition, Line, WordLine, Lines
  <2> QED
    BY <2>1
<1> SUFFICES \E f \in [0 .. N -> X] : /\ f[0] = b /\ Definitions(list) = f[N]
                                   /\ \A i \in 1 .. N : f[i] = Turn(i, f[i - 1])
  BY Zenon
<1> HIDE DEF N, X, b, Turn
<1>5. S \in [1 .. N -> [X -> X]]
  BY <1>4
<1>6. \A i \in 1 .. N, x \in X : S[i][x] = Turn(i, x)
  OBVIOUS
<1> HIDE DEF S
<1>7. PICK h \in [0 .. N -> X] : Runs(h, N, b, S)
  BY <1>1, <1>3, <1>5, LoopExists
<1>8. h = Step(h)
  <2>1. h = [i \in 0 .. N |-> h[i]]
    BY <1>7
  <2>2. \A i \in 0 .. N : i # 0 => i \in 1 .. N /\ i - 1 \in 0 .. N
    BY <1>1
  <2>3. \A i \in 0 .. N : i # 0 => h[i] = Turn(i, h[i - 1])
    BY <1>6, <1>7, <2>2 DEF Runs
  <2> QED
    BY <1>7, <2>1, <2>3 DEF Runs
<1>9. a = Step(a)
  BY <1>8, Zenon
<1> HIDE DEF a
<1>10. DOMAIN a = 0 .. N /\ a = [i \in 0 .. N |-> a[i]]
      /\ \A i \in 0 .. N : a[i] = IF i = 0 THEN b ELSE Turn(i, a[i - 1])
  BY <1>9, Zenon
<1>11. a[0] = b /\ \A i \in 1 .. N : a[i] = Turn(i, a[i - 1])
  <2>1. 0 \in 0 .. N /\ \A i \in 1 .. N : i \in 0 .. N /\ i # 0
    BY <1>1
  <2> QED
    BY <1>10, <2>1, Zenon
<1>12. a \in [0 .. N -> X]
  <2> DEFINE Good == {i \in 0 .. N : a[i] \in X}
  <2>1. 0 \in Good
    BY <1>1, <1>3, <1>11
  <2>2. ASSUME NEW i \in 1 .. N, i - 1 \in Good PROVE i \in Good
    <3>1. a[i - 1] \in X /\ i \in 0 .. N
      BY <1>1, <2>2
    <3>2. a[i] \in X
      BY <1>4, <1>11, <3>1
    <3> QED
      BY <3>1, <3>2
  <2>3. \A i \in 0 .. N : i \in Good
    <3> HIDE DEF Good
    <3> QED
      BY <1>1, <2>1, <2>2, AllUpTo
  <2> QED
    BY <1>10, <2>3
<1> QED
  BY <1>2, <1>11, <1>12

\* The text of an article is gathered line by line.
LEMMA TextLoop ==
  ASSUME NEW lines \in Seq(Lines)
  PROVE  \E f \in [0 .. Len(lines) -> Seq(Words)] :
           /\ f[0] = <<>> /\ TextOf(lines) = f[Len(lines)]
           /\ \A i \in 1 .. Len(lines) : f[i] = IF lines[i].kind = "word" /\ ~HasDot(lines, i)
                                               THEN Append(f[i - 1], lines[i].word) ELSE f[i - 1]
<1> DEFINE N == Len(lines)
           X == Seq(Words)
           b == <<>>
           Turn(i, x) == IF lines[i].kind = "word" /\ ~HasDot(lines, i) THEN Append(x, lines[i].word) ELSE x
           Step(g) == [i \in 0 .. N |-> IF i = 0 THEN b ELSE Turn(i, g[i - 1])]
           S == [i \in 1 .. N |-> [x \in X |-> Turn(i, x)]]
           a == CHOOSE g : g = Step(g)
<1>1. N \in Nat
  OBVIOUS
<1>2. TextOf(lines) = a[N]
  BY Zenon DEF TextOf
<1>3. b \in X
  OBVIOUS
<1>4. ASSUME NEW i \in 1 .. N, NEW x \in X PROVE Turn(i, x) \in X
  <2>1. lines[i].kind = "word" => lines[i].word \in Words
    BY DEF Lines
  <2> HIDE DEF N
  <2>2. lines[i].kind = "word" => Append(x, lines[i].word) \in X
    BY <2>1
  <2> HIDE DEF X
  <2> QED
    BY <2>2, Zenon
<1> SUFFICES \E f \in [0 .. N -> X] : /\ f[0] = b /\ TextOf(lines) = f[N]
                                   /\ \A i \in 1 .. N : f[i] = Turn(i, f[i - 1])
  BY Zenon
<1> HIDE DEF N, X, b, Turn
<1>5. S \in [1 .. N -> [X -> X]]
  BY <1>4
<1>6. \A i \in 1 .. N, x \in X : S[i][x] = Turn(i, x)
  OBVIOUS
<1> HIDE DEF S
<1>7. PICK h \in [0 .. N -> X] : Runs(h, N, b, S)
  BY <1>1, <1>3, <1>5, LoopExists
<1>8. h = Step(h)
  <2>1. h = [i \in 0 .. N |-> h[i]]
    BY <1>7
  <2>2. \A i \in 0 .. N : i # 0 => i \in 1 .. N /\ i - 1 \in 0 .. N
    BY <1>1
  <2>3. \A i \in 0 .. N : i # 0 => h[i] = Turn(i, h[i - 1])
    BY <1>6, <1>7, <2>2 DEF Runs
  <2> QED
    BY <1>7, <2>1, <2>3 DEF Runs
<1>9. a = Step(a)
  BY <1>8, Zenon
<1> HIDE DEF a
<1>10. DOMAIN a = 0 .. N /\ a = [i \in 0 .. N |-> a[i]]
      /\ \A i \in 0 .. N : a[i] = IF i = 0 THEN b ELSE Turn(i, a[i - 1])
  BY <1>9, Zenon
<1>11. a[0] = b /\ \A i \in 1 .. N : a[i] = Turn(i, a[i - 1])
  <2>1. 0 \in 0 .. N /\ \A i \in 1 .. N : i \in 0 .. N /\ i # 0
    BY <1>1
  <2> QED
    BY <1>10, <2>1, Zenon
<1>12. a \in [0 .. N -> X]
  <2> DEFINE Good == {i \in 0 .. N : a[i] \in X}
  <2>1. 0 \in Good
    BY <1>1, <1>3, <1>11
  <2>2. ASSUME NEW i \in 1 .. N, i - 1 \in Good PROVE i \in Good
    <3>1. a[i - 1] \in X /\ i \in 0 .. N
      BY <1>1, <2>2
    <3>2. a[i] \in X
      BY <1>4, <1>11, <3>1
    <3> QED
      BY <3>1, <3>2
  <2>3. \A i \in 0 .. N : i \in Good
    <3> HIDE DEF Good
    <3> QED
      BY <1>1, <2>1, <2>2, AllUpTo
  <2> QED
    BY <1>10, <2>3
<1> QED
  BY <1>2, <1>11, <1>12

-----------------------------------------------------------------------------
(* What the server holds, and lists without repetitions. *)

\* What the server holds, query after query.
LEMMA HeldByLoop ==
  ASSUME holds \in [Queries -> Replies]
  PROVE  \E f \in [0 .. NQueries -> Seq(Words)] :
           /\ f[0] = <<>> /\ HeldBy = f
           /\ \A i \in 1 .. NQueries : f[i] = f[i - 1] \o holds[i]
<1> DEFINE N == NQueries
           X == Seq(Words)
           b == <<>>
           Turn(i, x) == x \o holds[i]
           Step(g) == [i \in 0 .. N |-> IF i = 0 THEN b ELSE Turn(i, g[i - 1])]
           S == [i \in 1 .. N |-> [x \in X |-> Turn(i, x)]]
           a == CHOOSE g : g = Step(g)
<1>1. N \in Nat
  BY DictServerAssumption
<1>2. HeldBy = a
  BY Zenon DEF HeldBy
<1>3. b \in X
  OBVIOUS
<1>4. ASSUME NEW i \in 1 .. N, NEW x \in X PROVE Turn(i, x) \in X
  <2>1. holds[i] \in Seq(Words)
    BY DictServerAssumption DEF Queries
  <2> QED
    BY <2>1
<1> SUFFICES \E f \in [0 .. N -> X] : /\ f[0] = b /\ HeldBy = f
                                   /\ \A i \in 1 .. N : f[i] = Turn(i, f[i - 1])
  BY Zenon
<1> HIDE DEF N, X, b, Turn
<1>5. S \in [1 .. N -> [X -> X]]
  BY <1>4
<1>6. \A i \in 1 .. N, x \in X : S[i][x] = Turn(i, x)
  OBVIOUS
<1> HIDE DEF S
<1>7. PICK h \in [0 .. N -> X] : Runs(h, N, b, S)
  BY <1>1, <1>3, <1>5, LoopExists
<1>8. h = Step(h)
  <2>1. h = [i \in 0 .. N |-> h[i]]
    BY <1>7
  <2>2. \A i \in 0 .. N : i # 0 => i \in 1 .. N /\ i - 1 \in 0 .. N
    BY <1>1
  <2>3. \A i \in 0 .. N : i # 0 => h[i] = Turn(i, h[i - 1])
    BY <1>6, <1>7, <2>2 DEF Runs
  <2> QED
    BY <1>7, <2>1, <2>3 DEF Runs
<1>9. a = Step(a)
  BY <1>8, Zenon
<1> HIDE DEF a
<1>10. DOMAIN a = 0 .. N /\ a = [i \in 0 .. N |-> a[i]]
      /\ \A i \in 0 .. N : a[i] = IF i = 0 THEN b ELSE Turn(i, a[i - 1])
  BY <1>9, Zenon
<1>11. a[0] = b /\ \A i \in 1 .. N : a[i] = Turn(i, a[i - 1])
  <2>1. 0 \in 0 .. N /\ \A i \in 1 .. N : i \in 0 .. N /\ i # 0
    BY <1>1
  <2> QED
    BY <1>10, <2>1, Zenon
<1>12. a \in [0 .. N -> X]
  <2> DEFINE Good == {i \in 0 .. N : a[i] \in X}
  <2>1. 0 \in Good
    BY <1>1, <1>3, <1>11
  <2>2. ASSUME NEW i \in 1 .. N, i - 1 \in Good PROVE i \in Good
    <3>1. a[i - 1] \in X /\ i \in 0 .. N
      BY <1>1, <2>2
    <3>2. a[i] \in X
      BY <1>4, <1>11, <3>1
    <3> QED
      BY <3>1, <3>2
  <2>3. \A i \in 0 .. N : i \in Good
    <3> HIDE DEF Good
    <3> QED
      BY <1>1, <2>1, <2>2, AllUpTo
  <2> QED
    BY <1>10, <2>3
<1> QED
  BY <1>2, <1>11, <1>12

\* The lists of the first queries are those of one query less, and one more.
LEMMA HeldByFacts ==
  ASSUME holds \in [Queries -> Replies]
  PROVE  /\ HeldBy[0] = <<>>
         /\ \A n \in 0 .. NQueries : HeldBy[n] \in Seq(Words)
         /\ \A n \in 1 .. NQueries : HeldBy[n] = HeldBy[n - 1] \o holds[n]
<1>1. PICK f \in [0 .. NQueries -> Seq(Words)] :
           /\ f[0] = <<>> /\ HeldBy = f
           /\ \A i \in 1 .. NQueries : f[i] = f[i - 1] \o holds[i]
  BY HeldByLoop
<1> QED
  BY <1>1

\* What is left has no two the same, and is all there was.
LEMMA DistinctFacts ==
  ASSUME NEW list \in Seq(Words)
  PROVE  /\ Distinct(list) \in Seq(Words)
         /\ ToSet(Distinct(list)) = ToSet(list)
         /\ Len(Distinct(list)) = Cardinality(ToSet(list))
<1> DEFINE Known(i) == \E j \in 1 .. i - 1 : list[j] = list[i]
           Before(i) == {list[j] : j \in 1 .. i}
           IsSet(s, F) == /\ \A k \in 1 .. Len(s) : s[k] \in F
                          /\ \A x \in F : \E k \in 1 .. Len(s) : s[k] = x
                          /\ \A k, m \in 1 .. Len(s) : s[k] = s[m] => k = m
<1>1. PICK f \in [0 .. Len(list) -> Seq(Words)] :
           /\ f[0] = <<>> /\ Distinct(list) = f[Len(list)]
           /\ \A i \in 1 .. Len(list) :
                f[i] = IF Known(i) THEN f[i - 1] ELSE Append(f[i - 1], list[i])
  BY DistinctLoop
<1>2. Len(list) \in Nat
  OBVIOUS
<1>3. \A i \in 1 .. Len(list) : Before(i) = Before(i - 1) \cup {list[i]}
                                /\ (Known(i) <=> list[i] \in Before(i - 1))
  <2> TAKE i \in 1 .. Len(list)
  <2>1. 1 .. i = (1 .. i - 1) \cup {i}
    OBVIOUS
  <2> QED
    BY <2>1
<1> HIDE DEF Known, Before
<1>4. ASSUME NEW s \in Seq(Words), NEW F, IsSet(s, F), NEW x \in Words, x \notin F
      PROVE  IsSet(Append(s, x), F \cup {x})
  <2> DEFINE t == Append(s, x)
  <2>1. /\ Len(t) = Len(s) + 1 /\ Len(s) \in Nat /\ t[Len(s) + 1] = x
        /\ \A k \in 1 .. Len(s) : t[k] = s[k]
    OBVIOUS
  <2> HIDE DEF t
  <2>2. \A k \in 1 .. Len(t) : k \in 1 .. Len(s) \/ k = Len(s) + 1
    BY <2>1
  <2>3. \A k \in 1 .. Len(s) : k \in 1 .. Len(t)
    BY <2>1
  <2>4. Len(s) + 1 \in 1 .. Len(t)
    BY <2>1
  <2>5. \A k \in 1 .. Len(t) : t[k] \in F \cup {x}
    BY <1>4, <2>1, <2>2
  <2>6. \A y \in F \cup {x} : \E k \in 1 .. Len(t) : t[k] = y
    <3> TAKE y \in F \cup {x}
    <3>1. CASE y \in F
      <4>1. PICK k \in 1 .. Len(s) : s[k] = y
        BY <1>4, <3>1
      <4> QED
        BY <2>1, <2>3, <4>1
    <3>2. CASE y = x
      BY <2>1, <2>4, <3>2
    <3> QED
      BY <3>1, <3>2
  <2>7. \A k, m \in 1 .. Len(t) : t[k] = t[m] => k = m
    <3>1. \A k \in 1 .. Len(s) : t[k] \in F /\ t[k] # x
      BY <1>4, <2>1
    <3>2. ASSUME NEW k \in 1 .. Len(t), NEW m \in 1 .. Len(t), t[k] = t[m]
          PROVE  k = m
      <4>1. CASE k \in 1 .. Len(s) /\ m \in 1 .. Len(s)
        <5>1. s[k] = s[m]
          BY <2>1, <3>2, <4>1
        <5> QED
          BY <1>4, <4>1, <5>1
      <4>2. CASE k = Len(s) + 1 /\ m \in 1 .. Len(s)
        BY <2>1, <3>1, <3>2, <4>2
      <4>3. CASE k \in 1 .. Len(s) /\ m = Len(s) + 1
        BY <2>1, <3>1, <3>2, <4>3
      <4>4. CASE k = Len(s) + 1 /\ m = Len(s) + 1
        BY <4>4
      <4> QED
        BY <2>2, <4>1, <4>2, <4>3, <4>4
    <3> QED
      BY <3>2
  <2> QED
    BY <2>5, <2>6, <2>7 DEF t
<1> HIDE DEF IsSet
<1> DEFINE Good == {i \in 0 .. Len(list) : IsSet(f[i], Before(i))}
<1>5. 0 \in Good
  <2>1. Before(0) = {} /\ 1 .. Len(<<>>) = {}
    BY DEF Before
  <2> QED
    BY <1>1, <1>2, <2>1 DEF IsSet
<1>6. ASSUME NEW i \in 1 .. Len(list), i - 1 \in Good PROVE i \in Good
  <2>1. i - 1 \in 0 .. Len(list) /\ i \in 0 .. Len(list) /\ list[i] \in Words
    BY <1>2
  <2>2. f[i - 1] \in Seq(Words)
    BY <1>1, <2>1
  <2>3. IsSet(f[i - 1], Before(i - 1))
    BY <1>6
  <2>4. IsSet(f[i], Before(i))
    <3>1. CASE Known(i)
      <4>1. f[i] = f[i - 1]
        BY <1>1, <3>1, Zenon
      <4>2. Before(i) = Before(i - 1) \cup {list[i]} /\ list[i] \in Before(i - 1)
        BY <1>3, <3>1
      <4>3. Before(i) = Before(i - 1)
        BY <4>2
      <4> QED
        BY <2>3, <4>1, <4>3
    <3>2. CASE ~Known(i)
      <4>1. f[i] = Append(f[i - 1], list[i])
        BY <1>1, <3>2
      <4>2. Before(i) = Before(i - 1) \cup {list[i]} /\ list[i] \notin Before(i - 1)
        BY <1>3, <3>2
      <4> QED
        BY <1>4, <2>1, <2>2, <2>3, <4>1, <4>2
    <3> QED
      BY <3>1, <3>2
  <2> QED
    BY <2>1, <2>4
<1>7. Len(list) \in Good
  <2> HIDE DEF Good
  <2>1. \A i \in 0 .. Len(list) : i \in Good
    BY <1>2, <1>5, <1>6, AllUpTo
  <2> QED
    BY <1>2, <2>1
<1> DEFINE D == Distinct(list)
<1>8. D \in Seq(Words) /\ IsSet(D, Before(Len(list)))
  BY <1>1, <1>2, <1>7
<1>9. Before(Len(list)) = ToSet(list)
  <2>1. DOMAIN list = 1 .. Len(list)
    OBVIOUS
  <2> QED
    BY <2>1, Zenon DEF Before, ToSet
<1> HIDE DEF D
<1>10. ToSet(D) = ToSet(list)
  <2>1. DOMAIN D = 1 .. Len(D)
    BY <1>8
  <2>2. ToSet(D) = Before(Len(list))
    <3>1. ToSet(D) = {D[k] : k \in 1 .. Len(D)}
      BY <2>1, Zenon DEF ToSet
    <3>2. /\ \A k \in 1 .. Len(D) : D[k] \in Before(Len(list))
          /\ \A x \in Before(Len(list)) : \E k \in 1 .. Len(D) : D[k] = x
      BY <1>8 DEF IsSet
    <3> QED
      BY <3>1, <3>2, Zenon
  <2> QED
    BY <1>9, <2>2
<1>11. Len(D) = Cardinality(ToSet(list))
  <2>1. Len(D) \in Nat /\ DOMAIN D = 1 .. Len(D)
    BY <1>8
  <2>2. D \in [1 .. Len(D) -> ToSet(list)]
    BY <1>8, <1>9, <2>1 DEF IsSet
  <2>3. \A x \in ToSet(list) : \E k \in 1 .. Len(D) : D[k] = x
    BY <1>8, <1>9 DEF IsSet
  <2>4. \A k, m \in 1 .. Len(D) : D[k] = D[m] => k = m
    BY <1>8 DEF IsSet
  <2>5. D \in Bijection(1 .. Len(D), ToSet(list))
    BY <2>2, <2>3, <2>4 DEF Bijection, Injection, Surjection, IsInjective
  <2>6. ExistsBijection(1 .. Len(D), ToSet(list))
    BY <2>5 DEF ExistsBijection
  <2> QED
    BY <2>1, <2>6, FS_CountingElements
<1> QED
  BY <1>8, <1>10, <1>11 DEF D

-----------------------------------------------------------------------------
(* Texts and definitions. *)

\* One turn of the loop over the lines.
Read(x, l, over) == IF l.kind = "word" /\ ~over THEN Append(x, l.word) ELSE x

\* The text of lines is the value of a loop over them.
LEMMA TextIs ==
  ASSUME NEW lines \in Seq(Lines)
  PROVE  \E f \in [0 .. Len(lines) -> Seq(Words)] :
           /\ f[0] = <<>> /\ TextOf(lines) = f[Len(lines)]
           /\ \A i \in 1 .. Len(lines) : f[i] = Read(f[i - 1], lines[i], HasDot(lines, i))
BY TextLoop, Zenon DEF Read

\* Whether there is a dot in two lists, one behind the other.
LEMMA DotOfCat ==
  ASSUME NEW s \in Seq(Lines), NEW t \in Seq(Lines)
  PROVE  /\ \A i \in 1 .. Len(s) : HasDot(s \o t, i) <=> HasDot(s, i)
         /\ \A i \in 1 .. Len(t) : HasDot(s \o t, Len(s) + i)
                                     <=> HasDot(s, Len(s)) \/ HasDot(t, i)
         /\ HasDot(s \o t, Len(s \o t)) <=> HasDot(s, Len(s)) \/ HasDot(t, Len(t))
<1> DEFINE u == s \o t
<1>1. /\ Len(s) \in Nat /\ Len(t) \in Nat /\ Len(u) = Len(s) + Len(t)
      /\ \A i \in 1 .. Len(s) : u[i] = s[i]
      /\ \A i \in 1 .. Len(t) : u[Len(s) + i] = t[i]
  OBVIOUS
<1> HIDE DEF u
<1>2. \A i \in 1 .. Len(s) : HasDot(u, i) <=> HasDot(s, i)
  <2> TAKE i \in 1 .. Len(s)
  <2>1. \A j \in 1 .. i : u[j] = s[j]
    BY <1>1
  <2> QED
    BY <2>1, Zenon DEF HasDot
<1>3. ASSUME NEW i \in 0 .. Len(t)
      PROVE  HasDot(u, Len(s) + i) <=> HasDot(s, Len(s)) \/ HasDot(t, i)
  <2>1. ASSUME HasDot(u, Len(s) + i) PROVE HasDot(s, Len(s)) \/ HasDot(t, i)
    <3>1. PICK j \in 1 .. Len(s) + i : u[j].kind = "."
      BY <2>1 DEF HasDot
    <3>2. CASE j <= Len(s)
      BY <1>1, <3>1, <3>2 DEF HasDot
    <3>3. CASE ~(j <= Len(s))
      <4>1. j - Len(s) \in 1 .. i /\ j - Len(s) \in 1 .. Len(t) /\ j = Len(s) + (j - Len(s))
        BY <1>1, <3>3
      <4>2. t[j - Len(s)] = u[j]
        BY <1>1, <4>1
      <4> QED
        BY <3>1, <4>1, <4>2 DEF HasDot
    <3> QED
      BY <3>2, <3>3
  <2>2. ASSUME HasDot(s, Len(s)) PROVE HasDot(u, Len(s) + i)
    <3>1. PICK j \in 1 .. Len(s) : s[j].kind = "."
      BY <2>2 DEF HasDot
    <3>2. j \in 1 .. Len(s) + i /\ u[j].kind = "."
      BY <1>1, <3>1
    <3> QED
      BY <3>2 DEF HasDot
  <2>3. ASSUME HasDot(t, i) PROVE HasDot(u, Len(s) + i)
    <3>1. PICK j \in 1 .. i : t[j].kind = "."
      BY <2>3 DEF HasDot
    <3>2. Len(s) + j \in 1 .. Len(s) + i /\ j \in 1 .. Len(t)
      BY <1>1
    <3>3. u[Len(s) + j].kind = "."
      BY <1>1, <3>1, <3>2
    <3> QED
      BY <3>2, <3>3 DEF HasDot
  <2> QED
    BY <2>1, <2>2, <2>3
<1>4. \A i \in 1 .. Len(t) : HasDot(u, Len(s) + i) <=> HasDot(s, Len(s)) \/ HasDot(t, i)
  BY <1>3
<1>5. HasDot(u, Len(u)) <=> HasDot(s, Len(s)) \/ HasDot(t, Len(t))
  <2>1. Len(t) \in 0 .. Len(t)
    BY <1>1
  <2> QED
    BY <1>1, <1>3, <2>1
<1> QED
  BY <1>2, <1>4, <1>5 DEF u

\* What is appended to two lists is appended to the second.
LEMMA AppendToCat ==
  ASSUME NEW x \in Seq(Words), NEW y \in Seq(Words), NEW w \in Words
  PROVE  Append(x \o y, w) = x \o Append(y, w)
<1>1. x \o y \in Seq(Words) /\ <<w>> \in Seq(Words)
  OBVIOUS
<1>2. Append(x \o y, w) = (x \o y) \o <<w>>
  BY <1>1, AppendIsConcat
<1>3. Append(y, w) = y \o <<w>>
  BY AppendIsConcat
<1>4. (x \o y) \o <<w>> = x \o (y \o <<w>>)
  BY <1>1, ConcatAssociative
<1> QED
  BY <1>2, <1>3, <1>4

\* The text of two lists one behind the other: of the first only, if it has a dot.
LEMMA TextOfCat ==
  ASSUME NEW s \in Seq(Lines), NEW t \in Seq(Lines)
  PROVE  TextOf(s \o t) = IF HasDot(s, Len(s)) THEN TextOf(s)
                          ELSE TextOf(s) \o TextOf(t)
<1> DEFINE u == s \o t
<1>1. /\ Len(s) \in Nat /\ Len(t) \in Nat /\ Len(u) = Len(s) + Len(t) /\ u \in Seq(Lines)
      /\ \A i \in 1 .. Len(s) : u[i] = s[i]
      /\ \A i \in 1 .. Len(t) : u[Len(s) + i] = t[i]
  OBVIOUS
<1>2. /\ \A i \in 1 .. Len(s) : HasDot(u, i) <=> HasDot(s, i)
      /\ \A i \in 1 .. Len(t) : HasDot(u, Len(s) + i) <=> HasDot(s, Len(s)) \/ HasDot(t, i)
  BY DotOfCat
<1> HIDE DEF u
<1>3. PICK f \in [0 .. Len(s) -> Seq(Words)] :
           /\ f[0] = <<>> /\ TextOf(s) = f[Len(s)]
           /\ \A i \in 1 .. Len(s) : f[i] = Read(f[i - 1], s[i], HasDot(s, i))
  BY TextIs
<1>4. PICK g \in [0 .. Len(t) -> Seq(Words)] :
           /\ g[0] = <<>> /\ TextOf(t) = g[Len(t)]
           /\ \A i \in 1 .. Len(t) : g[i] = Read(g[i - 1], t[i], HasDot(t, i))
  BY TextIs
<1>5. PICK h \in [0 .. Len(u) -> Seq(Words)] :
           /\ h[0] = <<>> /\ TextOf(u) = h[Len(u)]
           /\ \A i \in 1 .. Len(u) : h[i] = Read(h[i - 1], u[i], HasDot(u, i))
  BY <1>1, TextIs
<1>6. h[Len(s)] = f[Len(s)]
  <2> DEFINE Good == {i \in 0 .. Len(s) : h[i] = f[i]}
  <2>1. 0 \in Good
    BY <1>1, <1>3, <1>5
  <2>2. ASSUME NEW i \in 1 .. Len(s), i - 1 \in Good PROVE i \in Good
    <3>1. i \in 0 .. Len(s) /\ i \in 1 .. Len(u) /\ h[i - 1] = f[i - 1]
      BY <1>1, <2>2
    <3>2. u[i] = s[i] /\ (HasDot(u, i) <=> HasDot(s, i))
      BY <1>1, <1>2
    <3>3. h[i] = Read(h[i - 1], u[i], HasDot(u, i))
      BY <1>5, <3>1
    <3>4. f[i] = Read(f[i - 1], s[i], HasDot(s, i))
      BY <1>3
    <3>5. h[i] = f[i]
      BY <3>1, <3>2, <3>3, <3>4 DEF Read
    <3> QED
      BY <3>1, <3>5
  <2>3. \A i \in 0 .. Len(s) : i \in Good
    <3> HIDE DEF Good
    <3> QED
      BY <1>1, <2>1, <2>2, AllUpTo
  <2> QED
    BY <1>1, <2>3
<1>7. CASE HasDot(s, Len(s))
  <2> DEFINE Good == {i \in 0 .. Len(t) : h[Len(s) + i] = f[Len(s)]}
  <2>1. 0 \in Good
    BY <1>1, <1>6
  <2>2. ASSUME NEW i \in 1 .. Len(t), i - 1 \in Good PROVE i \in Good
    <3>1. /\ i \in 0 .. Len(t) /\ Len(s) + i \in 1 .. Len(u)
          /\ h[Len(s) + (i - 1)] = f[Len(s)] /\ Len(s) + (i - 1) = (Len(s) + i) - 1
      BY <1>1, <2>2
    <3>2. HasDot(u, Len(s) + i)
      BY <1>2, <1>7
    <3>3. h[Len(s) + i] = Read(h[(Len(s) + i) - 1], u[Len(s) + i], HasDot(u, Len(s) + i))
      BY <1>5, <3>1
    <3>4. h[Len(s) + i] = f[Len(s)]
      BY <3>1, <3>2, <3>3 DEF Read
    <3> QED
      BY <3>1, <3>4
  <2>3. \A i \in 0 .. Len(t) : i \in Good
    <3> HIDE DEF Good
    <3> QED
      BY <1>1, <2>1, <2>2, AllUpTo
  <2>4. h[Len(s) + Len(t)] = f[Len(s)]
    BY <1>1, <2>3
  <2> QED
    BY <1>1, <1>3, <1>5, <1>7, <2>4 DEF u
<1>8. CASE ~HasDot(s, Len(s))
  <2> DEFINE F == f[Len(s)]
             Good == {i \in 0 .. Len(t) : h[Len(s) + i] = F \o g[i]}
  <2>1. F \in Seq(Words)
    <3>1. Len(s) \in 0 .. Len(s)
      BY <1>1
    <3> QED
      BY <3>1
  <2>2. 0 \in Good
    <3>1. F \o g[0] = F
      BY <1>4, <2>1
    <3>2. h[Len(s) + 0] = F
      BY <1>1, <1>6
    <3> QED
      BY <1>1, <3>1, <3>2
  <2>3. ASSUME NEW i \in 1 .. Len(t), i - 1 \in Good PROVE i \in Good
    <3>1. /\ i \in 0 .. Len(t) /\ Len(s) + i \in 1 .. Len(u) /\ i - 1 \in 0 .. Len(t)
          /\ h[Len(s) + (i - 1)] = F \o g[i - 1] /\ Len(s) + (i - 1) = (Len(s) + i) - 1
      BY <1>1, <2>3
    <3>2. u[Len(s) + i] = t[i] /\ (HasDot(u, Len(s) + i) <=> HasDot(t, i))
      BY <1>1, <1>2, <1>8
    <3>3. h[Len(s) + i] = Read(h[(Len(s) + i) - 1], u[Len(s) + i], HasDot(u, Len(s) + i))
      BY <1>5, <3>1
    <3>4. h[Len(s) + i] = Read(F \o g[i - 1], t[i], HasDot(t, i))
      BY <3>1, <3>2, <3>3 DEF Read
    <3>5. g[i] = Read(g[i - 1], t[i], HasDot(t, i))
      BY <1>4
    <3>6. g[i - 1] \in Seq(Words) /\ t[i] \in Lines
      <4>1. t[i] \in Lines
        OBVIOUS
      <4>2. g[i - 1] \in Seq(Words)
        BY <3>1
      <4> QED
        BY <4>1, <4>2
    <3>7. t[i].kind = "word" => t[i].word \in Words
      BY <3>6 DEF Lines
    <3>8. t[i].kind = "word" => Append(F \o g[i - 1], t[i].word) = F \o Append(g[i - 1], t[i].word)
      BY <2>1, <3>6, <3>7, AppendToCat
    <3>9. h[Len(s) + i] = F \o g[i]
      <4> HIDE DEF F
      <4> QED
        BY <3>4, <3>5, <3>8 DEF Read
    <3> QED
      BY <3>1, <3>9
  <2>4. \A i \in 0 .. Len(t) : i \in Good
    <3> HIDE DEF Good
    <3> QED
      BY <1>1, <2>2, <2>3, AllUpTo
  <2>5. h[Len(s) + Len(t)] = F \o g[Len(t)]
    BY <1>1, <2>4
  <2> QED
    BY <1>1, <1>3, <1>4, <1>5, <1>8, <2>5 DEF u
<1> QED
  BY <1>7, <1>8

\* Lines that are no words give no text.
LEMMA TextOfSilent ==
  ASSUME NEW s \in Seq(Lines), \A i \in 1 .. Len(s) : s[i].kind # "word"
  PROVE  TextOf(s) = <<>>
<1>1. PICK f \in [0 .. Len(s) -> Seq(Words)] :
           /\ f[0] = <<>> /\ TextOf(s) = f[Len(s)]
           /\ \A i \in 1 .. Len(s) : f[i] = Read(f[i - 1], s[i], HasDot(s, i))
  BY TextIs
<1> DEFINE Good == {i \in 0 .. Len(s) : f[i] = <<>>}
<1>2. Len(s) \in Nat
  OBVIOUS
<1>3. 0 \in Good
  BY <1>1, <1>2
<1>4. \A i \in 1 .. Len(s) : i - 1 \in Good => i \in Good
  BY <1>1, <1>2 DEF Read
<1>5. \A i \in 0 .. Len(s) : i \in Good
  <2> HIDE DEF Good
  <2> QED
    BY <1>2, <1>3, <1>4, AllUpTo
<1> QED
  BY <1>1, <1>2, <1>5

\* A definition is a dot's length, and its text is its two lines.
LEMMA DefinitionFacts ==
  ASSUME NEW w \in Words
  PROVE  /\ Definition(w) \in Seq(Lines) /\ Len(Definition(w)) = 4
         /\ Definition(w)[1].kind = "151" /\ Definition(w)[2].kind = "word"
         /\ Definition(w)[3].kind = "word" /\ Definition(w)[4].kind = "."
         /\ TextOf(Definition(w)) = <<w, w>>
<1> DEFINE d == Definition(w)
<1>1. /\ d \in Seq(Lines) /\ Len(d) = 4
      /\ d[1] = Line("151") /\ d[2] = WordLine(w) /\ d[3] = WordLine(w) /\ d[4] = Line(".")
  BY DEF Definition, Line, WordLine, Lines
<1>2. /\ d[1].kind = "151" /\ d[2].kind = "word" /\ d[3].kind = "word" /\ d[4].kind = "."
      /\ d[2].word = w /\ d[3].word = w
  BY <1>1 DEF Line, WordLine
<1> HIDE DEF d
<1>3. PICK f \in [0 .. Len(d) -> Seq(Words)] :
           /\ f[0] = <<>> /\ TextOf(d) = f[Len(d)]
           /\ \A i \in 1 .. Len(d) : f[i] = Read(f[i - 1], d[i], HasDot(d, i))
  BY <1>1, TextIs
<1>4. /\ f[1] = Read(f[0], d[1], HasDot(d, 1)) /\ f[2] = Read(f[1], d[2], HasDot(d, 2))
      /\ f[3] = Read(f[2], d[3], HasDot(d, 3)) /\ f[4] = Read(f[3], d[4], HasDot(d, 4))
  BY <1>1, <1>3
<1>5. ~HasDot(d, 2) /\ ~HasDot(d, 3)
  <2>1. 1 .. 2 = {1, 2} /\ 1 .. 3 = {1, 2, 3}
    OBVIOUS
  <2> QED
    BY <1>2, <2>1 DEF HasDot
<1>6. f[1] = <<>> /\ f[2] = <<w>> /\ f[3] = <<w, w>> /\ f[4] = <<w, w>>
  <2>1. f[1] = <<>>
    BY <1>2, <1>3, <1>4 DEF Read
  <2>2. f[2] = <<w>>
    <3>1. f[2] = Append(<<>>, w)
      BY <1>2, <1>4, <1>5, <2>1 DEF Read
    <3>2. Append(<<>>, w) = <<w>>
      OBVIOUS
    <3> QED
      BY <3>1, <3>2
  <2>3. f[3] = Append(<<w>>, w)
    BY <1>2, <1>4, <1>5, <2>2 DEF Read
  <2>4. Append(<<w>>, w) = <<w, w>>
    OBVIOUS
  <2>5. f[4] = f[3]
    BY <1>2, <1>4 DEF Read
  <2> QED
    BY <2>1, <2>2, <2>3, <2>4, <2>5
<1>7. TextOf(d) = <<w, w>>
  BY <1>1, <1>3, <1>6
<1> QED
  BY <1>1, <1>2, <1>7 DEF d

\* Three lists of lines, one behind the other.
LEMMA LinesCat ==
  ASSUME NEW x \in Seq(Lines), NEW y \in Seq(Lines), NEW z \in Seq(Lines)
  PROVE  (x \o y) \o z = x \o (y \o z)
BY ConcatAssociative

\* The first definition of a reply is behind nothing else.
LEMMA DefinitionsStart ==
  ASSUME NEW list \in Seq(Words)
  PROVE  /\ Definitions(list) \in Seq(Lines)
         /\ list # <<>> => \E rest \in Seq(Lines) : Definitions(list) = Definition(list[1]) \o rest
<1>1. PICK f \in [0 .. Len(list) -> Seq(Lines)] :
           /\ f[0] = <<>> /\ Definitions(list) = f[Len(list)]
           /\ \A i \in 1 .. Len(list) : f[i] = f[i - 1] \o Definition(list[i])
  BY DefinitionsLoop
<1>2. Len(list) \in Nat /\ Len(list) \in 0 .. Len(list)
  OBVIOUS
<1>3. ASSUME list # <<>>
      PROVE  \E rest \in Seq(Lines) : Definitions(list) = Definition(list[1]) \o rest
  <2> DEFINE d == Definition(list[1])
             Good == {i \in 0 .. Len(list) :
                        i = 0 \/ \E rest \in Seq(Lines) : f[i] = d \o rest}
  <2>1. Len(list) \in 1 .. Len(list) /\ list[1] \in Words
    BY <1>3
  <2>2. d \in Seq(Lines)
    BY <2>1, DefinitionFacts
  <2>3. 0 \in Good
    BY <1>2
  <2>4. ASSUME NEW i \in 1 .. Len(list), i - 1 \in Good PROVE i \in Good
    <3>1. i \in 0 .. Len(list) /\ list[i] \in Words
      BY <1>2
    <3>2. f[i] = f[i - 1] \o Definition(list[i])
      BY <1>1
    <3>3. Definition(list[i]) \in Seq(Lines)
      BY <3>1, DefinitionFacts
    <3>4. CASE i - 1 = 0
      <4>1. i = 1
        BY <3>4
      <4>2. f[i] = <<>> \o d
        <5>1. f[i - 1] = <<>> /\ Definition(list[i]) = d
          BY <1>1, <3>4, <4>1
        <5> QED
          BY <3>2, <5>1
      <4>3. f[i] = d \o <<>> /\ <<>> \in Seq(Lines)
        BY <2>2, <4>2, ConcatEmptySeq
      <4> QED
        BY <3>1, <4>3
    <3>5. CASE i - 1 # 0
      <4>1. PICK rest \in Seq(Lines) : f[i - 1] = d \o rest
        BY <2>4, <3>5
      <4>2. rest \o Definition(list[i]) \in Seq(Lines)
        BY <3>3, ConcatProperties
      <4>3. f[i] = d \o (rest \o Definition(list[i]))
        <5> DEFINE e == Definition(list[i])
        <5>1. f[i] = (d \o rest) \o e /\ e \in Seq(Lines)
          BY <3>2, <3>3, <4>1
        <5> HIDE DEF d, e
        <5>2. (d \o rest) \o e = d \o (rest \o e)
          BY <2>2, <5>1, LinesCat
        <5> QED
          BY <5>1, <5>2 DEF e
      <4> QED
        BY <3>1, <4>2, <4>3
    <3> QED
      BY <3>4, <3>5
  <2>5. \A i \in 0 .. Len(list) : i \in Good
    <3> HIDE DEF Good
    <3> QED
      BY <1>2, <2>3, <2>4, AllUpTo
  <2>6. Len(list) # 0
    BY <2>1
  <2> QED
    BY <1>1, <1>2, <2>5, <2>6
<1>4. Definitions(list) \in Seq(Lines)
  BY <1>1, <1>2
<1> QED
  BY <1>3, <1>4

-----------------------------------------------------------------------------
(* Packets, and what keeps the protocol. *)

\* What arrives, and what is still on its way.
LEMMA PacketFacts ==
  ASSUME NEW s \in Seq(Lines), NEW n \in 1 .. Len(s)
  PROVE  LET p == SubSeq(s, 1, n)
             r == SubSeq(s, n + 1, Len(s))
         IN  /\ p \in Seq(Lines) /\ r \in Seq(Lines) /\ p \o r = s
             /\ Len(p) = n /\ Len(r) = Len(s) - n /\ p # <<>>
             /\ \A i \in 1 .. n : p[i] = s[i]
             /\ \A i \in 1 .. Len(r) : r[i] = s[n + i]
<1> DEFINE p == SubSeq(s, 1, n)
           r == SubSeq(s, n + 1, Len(s))
<1>1. Len(s) \in Nat /\ n \in Nat /\ n >= 1 /\ n <= Len(s) /\ \A i \in 1 .. Len(s) : s[i] \in Lines
  OBVIOUS
<1>2. p \in Seq(Lines) /\ Len(p) = n /\ \A i \in 1 .. n : p[i] = s[i]
  BY <1>1
<1>3. r \in Seq(Lines) /\ Len(r) = Len(s) - n /\ \A i \in 1 .. Len(r) : r[i] = s[n + i]
  BY <1>1
<1>4. p \o r = s
  <2>1. Len(p \o r) = Len(s) /\ p \o r \in Seq(Lines)
    BY <1>1, <1>2, <1>3
  <2>2. ASSUME NEW i \in 1 .. Len(s) PROVE (p \o r)[i] = s[i]
    <3> HIDE DEF p, r
    <3>1. CASE i <= n
      BY <1>1, <1>2, <1>3, <3>1
    <3>2. CASE ~(i <= n)
      <4>1. i - n \in 1 .. Len(r) /\ n + (i - n) = i
        BY <1>1, <1>3, <3>2
      <4>2. (p \o r)[i] = r[i - n]
        BY <1>1, <1>2, <1>3, <3>2, <4>1
      <4> QED
        BY <1>3, <4>1, <4>2
    <3> QED
      BY <3>1, <3>2
  <2> HIDE DEF p, r
  <2> QED
    BY <2>1, <2>2, SeqEqual
<1>5. p # <<>>
  BY <1>1, <1>2
<1> QED
  BY <1>2, <1>3, <1>4, <1>5

\* The lists of a server, one behind the other.
LEMMA LinkedCat ==
  ASSUME NEW s \in Seq(Lines), NEW t \in Seq(Lines), Linked(s), Linked(t)
  PROVE  Linked(s \o t)
<1> DEFINE u == s \o t
<1>1. /\ Len(s) \in Nat /\ Len(t) \in Nat /\ Len(u) = Len(s) + Len(t)
      /\ \A i \in 1 .. Len(s) : u[i] = s[i]
      /\ \A i \in 1 .. Len(t) : u[Len(s) + i] = t[i]
  OBVIOUS
<1> HIDE DEF u
<1>2. ASSUME NEW i \in 1 .. Len(u), u[i].kind \in {"152", "word"}
      PROVE  i < Len(u) /\ u[i + 1].kind \in {"word", "."}
  <2>1. CASE i <= Len(s)
    <3>1. i < Len(s) /\ s[i + 1].kind \in {"word", "."}
      BY <1>1, <1>2, <2>1 DEF Linked
    <3>2. i + 1 \in 1 .. Len(s)
      BY <1>1, <2>1, <3>1
    <3>3. u[i + 1] = s[i + 1]
      BY <1>1, <3>2
    <3> QED
      BY <1>1, <3>1, <3>3
  <2>2. CASE ~(i <= Len(s))
    <3>1. i - Len(s) \in 1 .. Len(t) /\ Len(s) + (i - Len(s)) = i
      BY <1>1, <2>2
    <3>2. i - Len(s) < Len(t) /\ t[(i - Len(s)) + 1].kind \in {"word", "."}
      BY <1>1, <1>2, <3>1 DEF Linked
    <3>3. (i - Len(s)) + 1 \in 1 .. Len(t) /\ Len(s) + ((i - Len(s)) + 1) = i + 1
      BY <1>1, <3>1, <3>2
    <3>4. u[i + 1] = t[(i - Len(s)) + 1]
      BY <1>1, <3>3
    <3>5. i < Len(u)
      BY <1>1, <3>2
    <3> QED
      BY <3>2, <3>4, <3>5
  <2> QED
    BY <2>1, <2>2
<1> QED
  BY <1>2 DEF Linked, u

\* What is behind the first lines of such lists.
LEMMA LinkedRest ==
  ASSUME NEW s \in Seq(Lines), NEW t \in Seq(Lines), Linked(s \o t)
  PROVE  Linked(t)
<1> DEFINE u == s \o t
<1>1. /\ Len(s) \in Nat /\ Len(t) \in Nat /\ Len(u) = Len(s) + Len(t)
      /\ \A i \in 1 .. Len(t) : u[Len(s) + i] = t[i]
  OBVIOUS
<1> HIDE DEF u
<1>2. ASSUME NEW i \in 1 .. Len(t), t[i].kind \in {"152", "word"}
      PROVE  i < Len(t) /\ t[i + 1].kind \in {"word", "."}
  <2>1. Len(s) + i \in 1 .. Len(u) /\ u[Len(s) + i].kind \in {"152", "word"}
    BY <1>1, <1>2
  <2>2. Len(s) + i < Len(u) /\ u[(Len(s) + i) + 1].kind \in {"word", "."}
    BY <2>1 DEF Linked, u
  <2>3. i + 1 \in 1 .. Len(t) /\ Len(s) + (i + 1) = (Len(s) + i) + 1
    BY <1>1, <2>2
  <2> QED
    BY <1>1, <2>2, <2>3
<1> QED
  BY <1>2 DEF Linked

\* Behind the head of a list or one of its words come words, until its end.
LEMMA LinkedWords ==
  ASSUME NEW s \in Seq(Lines), Linked(s), NEW m \in 1 .. Len(s), ~HasDot(s, m),
         s[1].kind \in {"152", "word"}
  PROVE  /\ \A i \in 2 .. m : s[i].kind = "word"
         /\ m < Len(s) /\ s[m + 1].kind \in {"word", "."}
<1> DEFINE Good == {i \in 0 .. m : \/ i = 0
                                   \/ s[i].kind \in {"152", "word"} /\ (i > 1 => s[i].kind = "word")}
<1>1. m \in Nat /\ m >= 1 /\ Len(s) \in Nat /\ m <= Len(s)
  OBVIOUS
<1>2. 0 \in Good
  BY <1>1
<1>3. ASSUME NEW i \in 1 .. m, i - 1 \in Good PROVE i \in Good
  <2>1. CASE i = 1
    BY <1>1, <2>1
  <2>2. CASE i # 1
    <3>1. i - 1 \in 1 .. Len(s) /\ s[i - 1].kind \in {"152", "word"} /\ (i - 1) + 1 = i
      BY <1>1, <1>3, <2>2
    <3>2. s[i].kind \in {"word", "."}
      <4>1. s[(i - 1) + 1].kind \in {"word", "."}
        BY <3>1 DEF Linked
      <4> QED
        BY <3>1, <4>1
    <3>3. s[i].kind # "."
      BY DEF HasDot
    <3> QED
      BY <1>1, <3>2, <3>3
  <2> QED
    BY <2>1, <2>2
<1>4. \A i \in 0 .. m : i \in Good
  <2> HIDE DEF Good
  <2> QED
    BY <1>1, <1>2, <1>3, AllUpTo
<1>5. \A i \in 2 .. m : s[i].kind = "word"
  BY <1>1, <1>4
<1>6. s[m].kind \in {"152", "word"}
  BY <1>1, <1>4
<1> QED
  BY <1>1, <1>5, <1>6 DEF Linked

-----------------------------------------------------------------------------
(* The operations of the search. *)

\* The states of DictServerImpl.
Impls == {"CONNECT", "CLIENT", "OPTION", "FINISHED"}

\* The states of a request, of either kind.
States == {"START", "MATCH", "MATCH_DATA", "DEFINE", "DEFINE_DATA", "FINISHED"}

\* The states of the client of a search.
Clients == [sent : Seq(0 .. NQueries), impl : Impls, state : States, buffer : Seq(Lines),
            next : 1 .. NQueries + 1, list : Seq(Words), matches : Seq(Words), fin : BOOLEAN]

\* The parts of a client that concern its connection.
SameWire(c, d) ==
  d.sent = c.sent /\ d.impl = c.impl /\ d.buffer = c.buffer /\ d.next = c.next

\* The words handed over are the first of the list.
LEMMA FirstFacts ==
  ASSUME NEW list \in Seq(Words)
  PROVE  /\ First(list) \in Seq(Words)
         /\ Len(list) < MaxMatches => First(list) = list
<1>1. MaxMatches \in Nat /\ Len(list) \in Nat
  BY DictServerAssumption
<1>2. CASE Len(list) < MaxMatches
  <2>1. First(list) = SubSeq(list, 1, Len(list))
    BY <1>2 DEF First
  <2>2. SubSeq(list, 1, Len(list)) = list
    BY SubSeqFull
  <2> QED
    BY <2>1, <2>2
<1>3. CASE ~(Len(list) < MaxMatches)
  <2>1. First(list) = SubSeq(list, 1, MaxMatches)
    BY <1>3 DEF First
  <2>2. \A i \in 1 .. MaxMatches : list[i] \in Words
    BY <1>1, <1>3
  <2>3. SubSeq(list, 1, MaxMatches) \in Seq(Words)
    BY <1>1, <2>2, SubSeqProperties
  <2> QED
    BY <1>3, <2>1, <2>3
<1> QED
  BY <1>2, <1>3

\* What finishedMatches() does.
LEMMA FinishedFacts ==
  ASSUME NEW c \in Clients
  PROVE  LET d == FinishedMatches(c)
         IN  /\ d \in Clients /\ SameWire(c, d)
             /\ d.state = "FINISHED" /\ d.fin
             /\ d.list = Distinct(c.list)
             /\ d.matches = c.matches \o First(Distinct(c.list))
<1>1. Distinct(c.list) \in Seq(Words)
  BY DistinctFacts DEF Clients
<1>2. c.matches \o First(Distinct(c.list)) \in Seq(Words)
  <2>1. c.matches \in Seq(Words)
    BY DEF Clients
  <2>2. First(Distinct(c.list)) \in Seq(Words)
    BY <1>1, FirstFacts
  <2> QED
    BY <2>1, <2>2, ConcatProperties
<1>3. FinishedMatches(c) = [c EXCEPT !.state = "FINISHED", !.list = Distinct(c.list),
                              !.matches = c.matches \o First(Distinct(c.list)), !.fin = TRUE]
  BY DEF FinishedMatches, Clients
<1> DEFINE dl == Distinct(c.list)
           dm == c.matches \o First(Distinct(c.list))
<1>4. FinishedMatches(c) = [c EXCEPT !.state = "FINISHED", !.list = dl, !.matches = dm, !.fin = TRUE]
  BY <1>3
<1>5. dl \in Seq(Words) /\ dm \in Seq(Words)
  BY <1>1, <1>2
<1> SUFFICES LET d == FinishedMatches(c)
             IN  /\ d \in Clients /\ SameWire(c, d) /\ d.state = "FINISHED" /\ d.fin
                 /\ d.list = dl /\ d.matches = dm
  OBVIOUS
<1> HIDE DEF dl, dm
<1> QED
  BY <1>4, <1>5 DEF Clients, States, SameWire

\* What addMatchedWord() does, at the limit and below it.
LEMMA AddFacts ==
  ASSUME NEW c \in Clients, NEW w \in Words
  PROVE  LET d == AddMatchedWord(c, w)
         IN  /\ d \in Clients /\ SameWire(c, d)
             /\ d.state \in {c.state, "FINISHED"}
             /\ Len(c.list) + 1 < MaxMatches => d = [c EXCEPT !.list = Append(@, w)]
<1> DEFINE new == Append(c.list, w)
           a == [c EXCEPT !.list = new]
<1>1. new \in Seq(Words) /\ Len(new) = Len(c.list) + 1
  BY DEF Clients
<1>2. AddMatchedWord(c, w) = IF Len(a.list) >= MaxMatches THEN FinishedMatches(a) ELSE a
  BY DEF AddMatchedWord
<1>3. [c EXCEPT !.list = Append(@, w)] = a
  OBVIOUS
<1> HIDE DEF new
<1>4. a \in Clients /\ SameWire(c, a) /\ a.state = c.state /\ a.list = new
  BY <1>1 DEF Clients, SameWire
<1> HIDE DEF a
<1>5. CASE Len(a.list) >= MaxMatches
  <2>1. LET d == FinishedMatches(a) IN d \in Clients /\ SameWire(a, d) /\ d.state = "FINISHED"
    BY <1>4, FinishedFacts
  <2>2. AddMatchedWord(c, w) = FinishedMatches(a)
    BY <1>2, <1>5
  <2>3. ~(Len(c.list) + 1 < MaxMatches)
    <3>1. Len(c.list) \in Nat /\ MaxMatches \in Nat
      BY DictServerAssumption DEF Clients
    <3> QED
      BY <1>1, <1>4, <1>5, <3>1
  <2>4. SameWire(c, FinishedMatches(a))
    BY <1>4, <2>1 DEF SameWire
  <2> QED
    BY <2>1, <2>2, <2>3, <2>4
<1>6. CASE ~(Len(a.list) >= MaxMatches)
  BY <1>2, <1>3, <1>4, <1>6
<1> QED
  BY <1>5, <1>6

\* What is left of a client after each of n words.
Takes(f, c, lines, n) ==
  /\ f[0] = c /\ TakeWords(c, lines, n) = f[n]
  /\ \A i \in 1 .. n : f[i] = AddMatchedWord(f[i - 1], lines[i].word)

\* The words of a reply are taken one by one.
LEMMA TakeLoop ==
  ASSUME NEW c \in Clients, NEW lines, NEW n \in Nat, \A i \in 1 .. n : lines[i].word \in Words
  PROVE  \E f \in [0 .. n -> Clients] : Takes(f, c, lines, n)
<1> DEFINE N == n
           X == Clients
           b == c
           Turn(i, x) == AddMatchedWord(x, lines[i].word)
           Step(g) == [i \in 0 .. N |-> IF i = 0 THEN b ELSE Turn(i, g[i - 1])]
           S == [i \in 1 .. N |-> [x \in X |-> Turn(i, x)]]
           a == CHOOSE g : g = Step(g)
<1>1. N \in Nat
  OBVIOUS
<1>2. TakeWords(c, lines, n) = a[N]
  BY Zenon DEF TakeWords
<1>3. b \in X
  OBVIOUS
<1>4. ASSUME NEW i \in 1 .. N, NEW x \in X PROVE Turn(i, x) \in X
  <2>1. lines[i].word \in Words
    OBVIOUS
  <2> QED
    BY <2>1, AddFacts
<1> SUFFICES \E f \in [0 .. N -> X] : /\ f[0] = b /\ TakeWords(c, lines, n) = f[N]
                                   /\ \A i \in 1 .. N : f[i] = Turn(i, f[i - 1])
  BY Zenon DEF Takes
<1> HIDE DEF N, X, b, Turn
<1>5. S \in [1 .. N -> [X -> X]]
  BY <1>4
<1>6. \A i \in 1 .. N, x \in X : S[i][x] = Turn(i, x)
  OBVIOUS
<1> HIDE DEF S
<1>7. PICK h \in [0 .. N -> X] : Runs(h, N, b, S)
  BY <1>1, <1>3, <1>5, LoopExists
<1>8. h = Step(h)
  <2>1. h = [i \in 0 .. N |-> h[i]]
    BY <1>7
  <2>2. \A i \in 0 .. N : i # 0 => i \in 1 .. N /\ i - 1 \in 0 .. N
    BY <1>1
  <2>3. \A i \in 0 .. N : i # 0 => h[i] = Turn(i, h[i - 1])
    BY <1>6, <1>7, <2>2 DEF Runs
  <2> QED
    BY <1>7, <2>1, <2>3 DEF Runs
<1>9. a = Step(a)
  BY <1>8, Zenon
<1> HIDE DEF a
<1>10. DOMAIN a = 0 .. N /\ a = [i \in 0 .. N |-> a[i]]
      /\ \A i \in 0 .. N : a[i] = IF i = 0 THEN b ELSE Turn(i, a[i - 1])
  BY <1>9, Zenon
<1>11. a[0] = b /\ \A i \in 1 .. N : a[i] = Turn(i, a[i - 1])
  <2>1. 0 \in 0 .. N /\ \A i \in 1 .. N : i \in 0 .. N /\ i # 0
    BY <1>1
  <2> QED
    BY <1>10, <2>1, Zenon
<1>12. a \in [0 .. N -> X]
  <2> DEFINE Good == {i \in 0 .. N : a[i] \in X}
  <2>1. 0 \in Good
    BY <1>1, <1>3, <1>11
  <2>2. ASSUME NEW i \in 1 .. N, i - 1 \in Good PROVE i \in Good
    <3>1. a[i - 1] \in X /\ i \in 0 .. N
      BY <1>1, <2>2
    <3>2. a[i] \in X
      BY <1>4, <1>11, <3>1
    <3> QED
      BY <3>1, <3>2
  <2>3. \A i \in 0 .. N : i \in Good
    <3> HIDE DEF Good
    <3> QED
      BY <1>1, <2>1, <2>2, AllUpTo
  <2> QED
    BY <1>10, <2>3
<1> QED
  BY <1>2, <1>11, <1>12

\* What taking n words does, at the limit and below it.
LEMMA TakeFacts ==
  ASSUME NEW c \in Clients, NEW lines, NEW n \in Nat, \A i \in 1 .. n : lines[i].word \in Words
  PROVE  LET d == TakeWords(c, lines, n)
         IN  /\ d \in Clients /\ SameWire(c, d)
             /\ d.state \in {c.state, "FINISHED"}
             /\ Len(c.list) + n < MaxMatches =>
                  d = [c EXCEPT !.list = @ \o [i \in 1 .. n |-> lines[i].word]]
<1>1. PICK f \in [0 .. n -> Clients] : Takes(f, c, lines, n)
  BY TakeLoop
<1> USE DEF Takes
<1> DEFINE Ok(d) == SameWire(c, d) /\ d.state \in {c.state, "FINISHED"}
           Good == {i \in 0 .. n : Ok(f[i])}
<1>2. 0 \in Good
  BY <1>1 DEF SameWire
<1>3. ASSUME NEW i \in 1 .. n, i - 1 \in Good PROVE i \in Good
  <2>1. i \in 0 .. n /\ i - 1 \in 0 .. n
    OBVIOUS
  <2>2. f[i - 1] \in Clients /\ lines[i].word \in Words
    BY <2>1
  <2>3. Ok(f[i - 1])
    BY <1>3
  <2>4. SameWire(f[i - 1], f[i]) /\ f[i].state \in {f[i - 1].state, "FINISHED"}
    BY <1>1, <2>2, AddFacts
  <2>5. Ok(f[i])
    BY <2>3, <2>4 DEF SameWire
  <2> QED
    BY <2>1, <2>5
<1>4. \A i \in 0 .. n : i \in Good
  <2> HIDE DEF Good
  <2> QED
    BY <1>2, <1>3, AllUpTo
<1>5. n \in 0 .. n
  OBVIOUS
<1>6. ASSUME Len(c.list) + n < MaxMatches
      PROVE  f[n] = [c EXCEPT !.list = @ \o [i \in 1 .. n |-> lines[i].word]]
  <2> DEFINE W(i) == [j \in 1 .. i |-> lines[j].word]
             After(i) == [c EXCEPT !.list = c.list \o W(i)]
             Full == {i \in 0 .. n : f[i] = After(i)}
  <2>1. c.list \in Seq(Words) /\ Len(c.list) \in Nat /\ MaxMatches \in Nat
    BY DictServerAssumption DEF Clients
  <2>2. \A i \in 0 .. n : W(i) \in Seq(Words) /\ Len(W(i)) = i
    OBVIOUS
  <2>3. 0 \in Full
    <3>1. W(0) = <<>>
      OBVIOUS
    <3>2. c.list \o W(0) = c.list
      BY <2>1, <3>1, ConcatEmptySeq
    <3>3. After(0) = c
      BY <3>2 DEF Clients
    <3> QED
      BY <1>1, <3>3
  <2>4. ASSUME NEW i \in 1 .. n, i - 1 \in Full PROVE i \in Full
    <3>1. i \in 0 .. n /\ i - 1 \in 0 .. n /\ i \in Nat
      OBVIOUS
    <3>2. f[i - 1] = After(i - 1) /\ f[i - 1] \in Clients
      BY <2>4, <3>1
    <3> DEFINE l == c.list \o W(i - 1)
               w == lines[i].word
    <3>3. l \in Seq(Words) /\ Len(l) = Len(c.list) + (i - 1) /\ w \in Words
      BY <2>1, <2>2, <3>1
    <3>4. After(i - 1).list = l
      BY DEF Clients
    <3>5. f[i] = [f[i - 1] EXCEPT !.list = Append(@, w)]
      <4>1. Len(f[i - 1].list) + 1 < MaxMatches
        BY <1>6, <2>1, <3>1, <3>2, <3>3, <3>4
      <4> QED
        BY <1>1, <3>2, <3>3, <4>1, AddFacts
    <3>6. Append(l, w) = c.list \o W(i)
      <4>1. Append(W(i - 1), w) = W(i)
        <5>1. W(i - 1) \in Seq(Words) /\ Len(W(i - 1)) = i - 1 /\ W(i) \in Seq(Words) /\ Len(W(i)) = i
          BY <2>2, <3>1
        <5>2. \A j \in 1 .. i - 1 : W(i - 1)[j] = lines[j].word
          OBVIOUS
        <5>3. \A j \in 1 .. i : W(i)[j] = lines[j].word
          OBVIOUS
        <5> HIDE DEF W
        <5> DEFINE A == Append(W(i - 1), w)
        <5>4. A \in Seq(Words) /\ Len(A) = i /\ A[i] = w /\ \A j \in 1 .. i - 1 : A[j] = W(i - 1)[j]
          BY <3>1, <3>3, <5>1
        <5> HIDE DEF A
        <5>5. \A j \in 1 .. i : j \in 1 .. i - 1 \/ j = i
          BY <3>1
        <5>6. \A j \in 1 .. i : A[j] = W(i)[j]
          BY <5>2, <5>3, <5>4, <5>5
        <5>7. A = W(i)
          BY <5>1, <5>4, <5>6, SeqEqual
        <5> QED
          BY <5>7 DEF A
      <4>2. W(i - 1) \in Seq(Words)
        BY <2>2, <3>1
      <4>3. w \in Words
        BY <3>3
      <4> HIDE DEF W, w
      <4>4. Append(c.list \o W(i - 1), w) = c.list \o Append(W(i - 1), w)
        BY <2>1, <4>2, <4>3, AppendToCat
      <4> QED
        BY <4>1, <4>4
    <3>7. f[i] = [After(i - 1) EXCEPT !.list = Append(l, w)]
      BY <3>2, <3>4, <3>5
    <3> HIDE DEF l, w
    <3>8. [After(i - 1) EXCEPT !.list = Append(l, w)] = [c EXCEPT !.list = Append(l, w)]
      BY DEF Clients
    <3>9. f[i] = After(i)
      BY <3>6, <3>7, <3>8
    <3> QED
      BY <3>1, <3>9
  <2>5. \A i \in 0 .. n : i \in Full
    <3> HIDE DEF Full
    <3> QED
      BY <2>3, <2>4, AllUpTo
  <2> QED
    BY <1>5, <2>5
<1>7. f[n] \in Clients /\ Ok(f[n])
  BY <1>4, <1>5
<1> HIDE DEF Ok
<1>8. TakeWords(c, lines, n) = f[n]
  BY <1>1
<1> QED
  BY <1>6, <1>7, <1>8 DEF Ok

\* matchNext() asks for the next query, or finishes.
LEMMA MatchNextFacts ==
  ASSUME NEW c \in Clients
  PROVE  LET d == MatchNext(c)
         IN  /\ d \in Clients /\ d.buffer = c.buffer /\ d.impl = c.impl
             /\ IF c.next > NQueries THEN d = FinishedMatches(c) /\ d.state = "FINISHED"
                ELSE /\ d.state = "MATCH" /\ d.sent = Append(c.sent, c.next)
                     /\ d.next = c.next + 1 /\ d.list = c.list
                     /\ d.matches = c.matches /\ d.fin = c.fin
<1>1. CASE c.next > NQueries
  <2>1. MatchNext(c) = FinishedMatches(c)
    BY <1>1 DEF MatchNext, NoMoreQueries
  <2>2. LET d == FinishedMatches(c) IN d \in Clients /\ SameWire(c, d) /\ d.state = "FINISHED"
    BY FinishedFacts
  <2> QED
    BY <1>1, <2>1, <2>2 DEF SameWire
<1>2. CASE ~(c.next > NQueries)
  <2>1. MatchNext(c) = [c EXCEPT !.state = "MATCH", !.sent = Append(c.sent, c.next), !.next = c.next + 1]
    BY <1>2 DEF MatchNext, NoMoreQueries
  <2>2. NQueries \in Nat /\ c.next \in 1 .. NQueries + 1
    BY DictServerAssumption DEF Clients
  <2>3. c.next \in 0 .. NQueries /\ c.next + 1 \in 1 .. NQueries + 1
    BY <1>2, <2>2
  <2>4. Append(c.sent, c.next) \in Seq(0 .. NQueries)
    BY <2>3 DEF Clients
  <2> DEFINE s == Append(c.sent, c.next)
             m == c.next + 1
  <2> HIDE DEF s, m
  <2>5. MatchNext(c) = [c EXCEPT !.state = "MATCH", !.sent = s, !.next = m]
    BY <2>1 DEF s, m
  <2>6. s \in Seq(0 .. NQueries) /\ m \in 1 .. NQueries + 1
    BY <2>3, <2>4 DEF s, m
  <2>7. LET d == MatchNext(c)
        IN  /\ d \in Clients /\ d.buffer = c.buffer /\ d.impl = c.impl /\ d.state = "MATCH"
            /\ d.sent = s /\ d.next = m /\ d.list = c.list /\ d.matches = c.matches /\ d.fin = c.fin
    BY <2>5, <2>6 DEF Clients, States
  <2> QED
    BY <1>2, <2>7 DEF s, m
<1> QED
  BY <1>1, <1>2

\* What is left of the buffer when a line was read.
LEMMA ReadLineFacts ==
  ASSUME NEW c \in Clients
  PROVE  LET d == ReadLine(c)
         IN  /\ d \in Clients
             /\ d.buffer = IF c.buffer = <<>> THEN <<>> ELSE Tail(c.buffer)
             /\ d.sent = c.sent /\ d.impl = c.impl /\ d.state = c.state /\ d.next = c.next
             /\ d.list = c.list /\ d.matches = c.matches /\ d.fin = c.fin
<1> DEFINE b == IF c.buffer = <<>> THEN <<>> ELSE Tail(c.buffer)
<1>1. b \in Seq(Lines)
  BY DEF Clients
<1>2. ReadLine(c) = [c EXCEPT !.buffer = b]
  BY DEF ReadLine
<1> HIDE DEF b
<1>3. LET d == ReadLine(c)
      IN  /\ d \in Clients /\ d.buffer = b
          /\ d.sent = c.sent /\ d.impl = c.impl /\ d.state = c.state /\ d.next = c.next
          /\ d.list = c.list /\ d.matches = c.matches /\ d.fin = c.fin
  BY <1>1, <1>2 DEF Clients
<1> QED
  BY <1>3 DEF b

\* Where the first dot is.
LEMMA FirstDot ==
  ASSUME NEW s \in Seq(Lines)
  PROVE  LET dots == {i \in DOMAIN s : s[i].kind = "."}
         IN  IF HasDot(s, Len(s))
             THEN /\ dots # {} /\ Min(dots) \in 1 .. Len(s) /\ s[Min(dots)].kind = "."
                  /\ ~HasDot(s, Min(dots) - 1)
             ELSE dots = {}
<1> DEFINE dots == {i \in DOMAIN s : s[i].kind = "."}
<1>1. DOMAIN s = 1 .. Len(s) /\ Len(s) \in Nat
  OBVIOUS
<1>2. CASE HasDot(s, Len(s))
  <2>1. dots # {} /\ dots \subseteq Nat
    BY <1>1, <1>2 DEF HasDot
  <2>2. \E x \in dots : \A y \in dots : x <= y
    <3> HIDE DEF dots
    <3> QED
      BY <2>1, SmallestOf
  <2> DEFINE m == Min(dots)
  <2>3. m \in dots /\ \A y \in dots : m <= y
    <3> HIDE DEF dots
    <3> QED
      BY <2>2, Zenon DEF Min
  <2> HIDE DEF m
  <2>4. m \in 1 .. Len(s) /\ s[m].kind = "."
    BY <1>1, <2>3
  <2>5. ASSUME NEW j \in 1 .. m - 1 PROVE s[j].kind # "."
    <3>1. j \in 1 .. Len(s) /\ ~(m <= j)
      BY <1>1, <2>4
    <3> QED
      BY <1>1, <2>3, <3>1
  <2>6. ~HasDot(s, m - 1)
    BY <2>5 DEF HasDot
  <2> QED
    BY <1>2, <2>1, <2>4, <2>6 DEF m
<1>3. CASE ~HasDot(s, Len(s))
  BY <1>1, <1>3 DEF HasDot
<1> QED
  BY <1>2, <1>3

\* What is left when n words were taken and the rest thrown away.
Taken(c, n) == [TakeWords(c, c.buffer, n) EXCEPT !.buffer = <<>>]

\* A client without its buffer.
LEMMA Emptied ==
  ASSUME NEW c \in Clients
  PROVE  LET d == [c EXCEPT !.buffer = <<>>]
         IN  /\ d \in Clients /\ d.buffer = <<>>
             /\ d.sent = c.sent /\ d.impl = c.impl /\ d.state = c.state /\ d.next = c.next
             /\ d.list = c.list /\ d.matches = c.matches /\ d.fin = c.fin
<1> DEFINE e == <<>>
<1>1. e \in Seq(Lines)
  OBVIOUS
<1> HIDE DEF e
<1>2. LET d == [c EXCEPT !.buffer = e]
      IN  /\ d \in Clients /\ d.buffer = e
          /\ d.sent = c.sent /\ d.impl = c.impl /\ d.state = c.state /\ d.next = c.next
          /\ d.list = c.list /\ d.matches = c.matches /\ d.fin = c.fin
  BY <1>1 DEF Clients
<1> QED
  BY <1>2 DEF e

\* readMatchData() takes nothing but words, up to the first dot or all that came.
LEMMA ReadMatchDataFacts ==
  ASSUME NEW c \in Clients, NEW rest \in Seq(Lines), Linked(c.buffer \o rest),
         c.buffer \o rest # <<>>, (c.buffer \o rest)[1].kind \in {"word", "."}
  PROVE  LET d == ReadMatchData(c)
             b == c.buffer
         IN  /\ d \in Clients /\ d.buffer = <<>> /\ d.impl = c.impl
             /\ IF HasDot(b, Len(b))
                THEN \E m \in 1 .. Len(b) :
                       /\ b[m].kind = "." /\ d = MatchNext(Taken(c, m - 1))
                       /\ \A i \in 1 .. m - 1 : b[i].kind = "word" /\ b[i].word \in Words
                       /\ Taken(c, m - 1) \in Clients
                       /\ d.state \in {"MATCH", "FINISHED"}
                ELSE /\ d = Taken(c, Len(b))
                     /\ \A i \in 1 .. Len(b) : b[i].kind = "word" /\ b[i].word \in Words
                     /\ d.state \in {c.state, "FINISHED"}
                     /\ rest # <<>> /\ rest[1].kind \in {"word", "."}
<1> DEFINE b == c.buffer
           u == b \o rest
           dots == {i \in DOMAIN b : b[i].kind = "."}
<1>1. b \in Seq(Lines) /\ Len(b) \in Nat /\ \A i \in 1 .. Len(b) : b[i] \in Lines
  BY DEF Clients
<1>2. /\ u \in Seq(Lines) /\ Len(u) = Len(b) + Len(rest) /\ Len(rest) \in Nat
      /\ \A i \in 1 .. Len(b) : u[i] = b[i]
      /\ \A i \in 1 .. Len(rest) : u[Len(b) + i] = rest[i]
  <2> HIDE DEF b
  <2> QED
    BY <1>1
<1>3. \A i \in 1 .. Len(b) : b[i].kind = "word" => b[i].word \in Words
  BY <1>1 DEF Lines
<1>4. Linked(u) /\ u # <<>> /\ u[1].kind \in {"word", "."}
  OBVIOUS
<1>5. ASSUME NEW n \in 0 .. Len(b), ~HasDot(b, n)
      PROVE  /\ \A i \in 1 .. n : b[i].kind = "word" /\ b[i].word \in Words
             /\ n = Len(b) => rest # <<>> /\ rest[1].kind \in {"word", "."}
             /\ Taken(c, n) \in Clients /\ Taken(c, n).buffer = <<>> /\ Taken(c, n).impl = c.impl
             /\ Taken(c, n).state \in {c.state, "FINISHED"}
  <2> HIDE DEF b, u
  <2>1. \A i \in 1 .. n : b[i].kind = "word"
    <3>1. CASE n = 0
      BY <3>1
    <3>2. CASE n # 0
      <4>1. n \in 1 .. Len(u) /\ 1 \in 1 .. n /\ \A i \in 1 .. n : u[i] = b[i] /\ i \in 1 .. Len(b)
        BY <1>1, <1>2, <3>2
      <4>2. ~HasDot(u, n)
        BY <1>5, <4>1 DEF HasDot
      <4>3. u[1].kind = "word"
        BY <1>4, <4>1, <4>2 DEF HasDot
      <4>4. \A i \in 2 .. n : u[i].kind = "word"
        BY <1>2, <1>4, <4>1, <4>2, <4>3, LinkedWords
      <4>5. \A i \in 1 .. n : i = 1 \/ i \in 2 .. n
        BY <1>1
      <4> QED
        BY <4>1, <4>3, <4>4, <4>5
    <3> QED
      BY <3>1, <3>2
  <2>2. \A i \in 1 .. n : b[i].word \in Words
    <3>1. \A i \in 1 .. n : i \in 1 .. Len(b)
      BY <1>1
    <3> QED
      BY <1>3, <2>1, <3>1
  <2>3. ASSUME n = Len(b) PROVE rest # <<>> /\ rest[1].kind \in {"word", "."}
    <3>1. CASE n = 0
      <4>1. Len(rest) >= 1
        BY <1>2, <1>4, <2>3, <3>1
      <4>2. u[Len(b) + 1] = rest[1]
        BY <1>2, <4>1
      <4>3. u[1] = rest[1]
        BY <2>3, <3>1, <4>2
      <4> QED
        BY <1>4, <4>1, <4>3
    <3>2. CASE n # 0
      <4>1. n \in 1 .. Len(u) /\ \A i \in 1 .. n : u[i] = b[i]
        BY <1>1, <1>2, <3>2, SMTT(30)
      <4>2. ~HasDot(u, n)
        BY <1>5, <4>1 DEF HasDot
      <4>3. 1 \in 1 .. n
        BY <1>1, <3>2
      <4>4. u[1].kind = "word"
        BY <2>1, <4>1, <4>3
      <4>5. n < Len(u) /\ u[n + 1].kind \in {"word", "."}
        BY <1>2, <1>4, <4>1, <4>2, <4>4, LinkedWords
      <4>6. Len(rest) >= 1
        BY <1>1, <1>2, <2>3, <4>5
      <4>7. u[n + 1] = rest[1]
        BY <1>2, <2>3, <4>6
      <4> QED
        BY <4>5, <4>6, <4>7
    <3> QED
      BY <3>1, <3>2
  <2>4. n \in Nat
    BY <1>1
  <2>5. LET d == TakeWords(c, b, n) IN d \in Clients /\ SameWire(c, d) /\ d.state \in {c.state, "FINISHED"}
    BY <2>2, <2>4, TakeFacts
  <2>6. /\ Taken(c, n) \in Clients /\ Taken(c, n).buffer = <<>>
        /\ Taken(c, n).impl = TakeWords(c, b, n).impl /\ Taken(c, n).state = TakeWords(c, b, n).state
    BY <2>5, Emptied DEF Taken, b
  <2> QED
    BY <2>1, <2>2, <2>3, <2>5, <2>6 DEF SameWire
<1>6. ReadMatchData(c) = IF dots = {} THEN Taken(c, Len(b)) ELSE MatchNext(Taken(c, Min(dots) - 1))
  BY DEF ReadMatchData, Taken
<1>7. CASE HasDot(b, Len(b))
  <2>1. dots # {} /\ Min(dots) \in 1 .. Len(b) /\ b[Min(dots)].kind = "." /\ ~HasDot(b, Min(dots) - 1)
    BY <1>1, <1>7, FirstDot
  <2> DEFINE m == Min(dots)
  <2>2. ReadMatchData(c) = MatchNext(Taken(c, m - 1))
    BY <1>6, <2>1
  <2>3. m \in 1 .. Len(b) /\ b[m].kind = "." /\ ~HasDot(b, m - 1)
    BY <2>1
  <2> HIDE DEF m, dots
  <2>4. m - 1 \in 0 .. Len(b)
    BY <1>1, <2>3
  <2>5. /\ \A i \in 1 .. m - 1 : b[i].kind = "word" /\ b[i].word \in Words
        /\ Taken(c, m - 1) \in Clients /\ Taken(c, m - 1).buffer = <<>> /\ Taken(c, m - 1).impl = c.impl
    BY <1>5, <2>3, <2>4
  <2>6. LET d == MatchNext(Taken(c, m - 1))
        IN  d \in Clients /\ d.buffer = <<>> /\ d.impl = c.impl /\ d.state \in {"MATCH", "FINISHED"}
    BY <2>5, MatchNextFacts
  <2> HIDE DEF b
  <2>7. \E k \in 1 .. Len(b) :
          /\ b[k].kind = "." /\ ReadMatchData(c) = MatchNext(Taken(c, k - 1))
          /\ \A i \in 1 .. k - 1 : b[i].kind = "word" /\ b[i].word \in Words
          /\ Taken(c, k - 1) \in Clients
          /\ ReadMatchData(c).state \in {"MATCH", "FINISHED"}
    BY <2>2, <2>3, <2>5, <2>6
  <2> QED
    BY <1>7, <2>2, <2>6, <2>7 DEF b
<1>8. CASE ~HasDot(b, Len(b))
  <2>1. dots = {}
    BY <1>1, <1>8, FirstDot
  <2>2. ReadMatchData(c) = Taken(c, Len(b))
    BY <1>6, <2>1
  <2>3. Len(b) \in 0 .. Len(b)
    BY <1>1
  <2>4. /\ \A i \in 1 .. Len(b) : b[i].kind = "word" /\ b[i].word \in Words
        /\ rest # <<>> /\ rest[1].kind \in {"word", "."}
        /\ Taken(c, Len(b)) \in Clients /\ Taken(c, Len(b)).buffer = <<>>
        /\ Taken(c, Len(b)).impl = c.impl /\ Taken(c, Len(b)).state \in {c.state, "FINISHED"}
    BY <1>5, <1>8, <2>3
  <2> QED
    BY <1>8, <2>2, <2>4
<1> QED
  BY <1>7, <1>8

\* The first line of a list and the others.
LEMMA HeadAndTail ==
  ASSUME NEW b \in Seq(Lines), b # <<>>, NEW rest \in Seq(Lines)
  PROVE  /\ Head(b) = b[1] /\ b[1] \in Lines /\ Tail(b) \in Seq(Lines)
         /\ <<b[1]>> \in Seq(Lines)
         /\ Len(b) \in Nat /\ Len(b) >= 1 /\ Len(Tail(b)) = Len(b) - 1
         /\ b = <<b[1]>> \o Tail(b)
         /\ \A i \in 1 .. Len(Tail(b)) : Tail(b)[i] = b[i + 1]
         /\ b \o rest = <<b[1]>> \o (Tail(b) \o rest)
<1> DEFINE t == Tail(b)
           h == <<b[1]>>
<1>1. /\ Head(b) = b[1] /\ b[1] \in Lines /\ t \in Seq(Lines)
      /\ Len(b) \in Nat /\ Len(b) >= 1 /\ Len(t) = Len(b) - 1
      /\ \A i \in 1 .. Len(t) : t[i] = b[i + 1]
  OBVIOUS
<1>2. h \in Seq(Lines) /\ Len(h) = 1 /\ h[1] = b[1]
  BY <1>1
<1> HIDE DEF t, h
<1>3. b = h \o t
  <2>1. /\ h \o t \in Seq(Lines) /\ Len(h \o t) = Len(h) + Len(t)
        /\ \A i \in 1 .. Len(h) + Len(t) : (h \o t)[i] =
              IF i <= Len(h) THEN h[i] ELSE t[i - Len(h)]
    <3>1. h \in Seq(Lines) /\ t \in Seq(Lines)
      BY <1>1, <1>2
    <3> QED
      BY <3>1, ConcatProperties
  <2>2. Len(h \o t) = Len(b)
    BY <1>1, <1>2, <2>1
  <2>3. ASSUME NEW i \in 1 .. Len(b) PROVE (h \o t)[i] = b[i]
    <3>1. CASE i = 1
      <4>1. 1 \in 1 .. Len(h) + Len(t)
        BY <1>1, <1>2
      <4>2. (h \o t)[1] = h[1]
        BY <1>2, <2>1, <4>1
      <4> QED
        BY <1>2, <3>1, <4>2
    <3>2. CASE i # 1
      <4>1. i - 1 \in 1 .. Len(t) /\ (i - 1) + 1 = i
        BY <1>1, <3>2
      <4>2. (h \o t)[i] = t[i - 1]
        BY <1>1, <1>2, <2>1, <3>2, <4>1
      <4> QED
        BY <1>1, <4>1, <4>2
    <3> QED
      BY <3>1, <3>2
  <2> QED
    BY <2>1, <2>2, <2>3, SeqEqual
<1>4. (h \o t) \o rest = h \o (t \o rest)
  BY <1>1, <1>2, LinesCat
<1> QED
  BY <1>1, <1>2, <1>3, <1>4 DEF t, h

\* Client states with lines that keep the protocol.
InOrder(c, rest) ==
  /\ c \in Clients /\ c.state \in {"MATCH", "MATCH_DATA", "FINISHED"}
  /\ Linked(c.buffer \o rest)

\* A request that is finished, or waits for an answer.
Waiting(c, rest) ==
  c.state = "MATCH_DATA" =>
    c.buffer = <<>> /\ rest # <<>> /\ rest[1].kind \in {"word", "."}

\* The slot of the request keeps the protocol.
LEMMA RequestReadsFacts ==
  ASSUME NEW c, NEW rest \in Seq(Lines), InOrder(c, rest), c.buffer # <<>>,
         c.state = "MATCH_DATA" => c.buffer[1].kind \in {"word", "."}
  PROVE  LET d == RequestReads(c)
         IN  InOrder(d, rest) /\ Waiting(d, rest) /\ d.impl = c.impl
<1> DEFINE b == c.buffer
           r == ReadLine(c)
           d == RequestReads(c)
<1>1. c \in Clients /\ b \in Seq(Lines) /\ b # <<>>
  BY DEF InOrder, Clients
<1>2. /\ Head(b) = b[1] /\ Tail(b) \in Seq(Lines) /\ <<b[1]>> \in Seq(Lines)
      /\ Len(b) \in Nat /\ Len(b) >= 1 /\ Len(Tail(b)) = Len(b) - 1
      /\ \A i \in 1 .. Len(Tail(b)) : Tail(b)[i] = b[i + 1]
      /\ b \o rest = <<b[1]>> \o (Tail(b) \o rest)
  BY <1>1, HeadAndTail
<1>3. r \in Clients /\ r.buffer = Tail(b) /\ r.impl = c.impl
  BY <1>1, ReadLineFacts
<1>4. Linked(b \o rest)
  BY DEF InOrder
<1>5. Tail(b) \o rest \in Seq(Lines)
  BY <1>2, ConcatProperties
<1>6. Linked(Tail(b) \o rest)
  <2>1. Linked(<<b[1]>> \o (Tail(b) \o rest))
    BY <1>2, <1>4
  <2> QED
    BY <1>2, <1>5, <2>1, LinkedRest
<1>7. rest = <<>> \o rest
  BY ConcatEmptySeq
<1>8. CASE c.state = "MATCH" /\ Head(b).kind # "152"
  <2>1. d = MatchNext(r)
    BY <1>8 DEF RequestReads
  <2>2. d \in Clients /\ d.buffer = Tail(b) /\ d.impl = c.impl /\ d.state \in {"MATCH", "FINISHED"}
    <3> HIDE DEF r
    <3>1. LET e == MatchNext(r) IN e \in Clients /\ e.buffer = r.buffer /\ e.impl = r.impl
      BY <1>3, MatchNextFacts
    <3>2. MatchNext(r).state \in {"MATCH", "FINISHED"}
      BY <1>3, MatchNextFacts
    <3> QED
      BY <1>3, <2>1, <3>1, <3>2
  <2> HIDE DEF d
  <2> QED
    BY <1>6, <2>2 DEF d, InOrder, Waiting
<1>9. ASSUME NEW e \in Clients, e.impl = c.impl, d = ReadMatchData(e), Linked(e.buffer \o rest),
             e.buffer \o rest # <<>>, (e.buffer \o rest)[1].kind \in {"word", "."},
             e.state = "MATCH_DATA"
      PROVE  InOrder(d, rest) /\ Waiting(d, rest) /\ d.impl = c.impl
  <2>1. d \in Clients /\ d.buffer = <<>> /\ d.impl = c.impl
    BY <1>9, ReadMatchDataFacts
  <2>2. \/ d.state \in {"MATCH", "FINISHED"}
        \/ d.state \in {"MATCH_DATA", "FINISHED"} /\ rest # <<>> /\ rest[1].kind \in {"word", "."}
    BY <1>9, ReadMatchDataFacts
  <2>3. e.buffer \in Seq(Lines)
    BY DEF Clients
  <2>4. Linked(rest)
    BY <1>9, <2>3, LinkedRest
  <2>5. Linked(d.buffer \o rest)
    BY <1>7, <2>1, <2>4
  <2> HIDE DEF d
  <2> QED
    BY <2>1, <2>2, <2>5 DEF InOrder, Waiting
<1>10. CASE c.state = "MATCH" /\ Head(b).kind = "152"
  <2> DEFINE e == [r EXCEPT !.state = "MATCH_DATA"]
  <2>1. d = ReadMatchData(e)
    BY <1>10 DEF RequestReads
  <2>2. e \in Clients /\ e.buffer = Tail(b) /\ e.impl = c.impl /\ e.state = "MATCH_DATA"
    <3> HIDE DEF r
    <3> QED
      BY <1>3 DEF Clients, States
  <2>3. Tail(b) \o rest # <<>> /\ (Tail(b) \o rest)[1].kind \in {"word", "."}
    <3> DEFINE u == b \o rest
               t == Tail(b)
               v == t \o rest
               h == <<b[1]>>
    <3>1. u = h \o v /\ h \in Seq(Lines) /\ v \in Seq(Lines) /\ Len(h) = 1 /\ h[1].kind = "152"
      BY <1>2, <1>5, <1>10
    <3>2. Linked(u)
      BY <1>4
    <3> HIDE DEF u, v, h
    <3>3. /\ Len(v) \in Nat /\ Len(u) = 1 + Len(v) /\ u[1] = h[1]
          /\ \A i \in 1 .. Len(v) : u[1 + i] = v[i]
      <4>1. Len(v) \in Nat
        BY <3>1
      <4>2. /\ Len(u) = Len(h) + Len(v)
            /\ \A i \in 1 .. Len(h) + Len(v) : u[i] = IF i <= Len(h) THEN h[i] ELSE v[i - Len(h)]
        BY <3>1, ConcatProperties
      <4>3. u[1] = h[1]
        BY <3>1, <4>1, <4>2
      <4>4. ASSUME NEW i \in 1 .. Len(v) PROVE u[1 + i] = v[i]
        <5>1. 1 + i \in 1 .. Len(h) + Len(v) /\ ~(1 + i <= Len(h)) /\ (1 + i) - Len(h) = i
          BY <3>1, <4>1
        <5> QED
          BY <4>2, <5>1
      <4> QED
        BY <3>1, <4>1, <4>2, <4>3, <4>4
    <3>4. 1 < Len(u) /\ u[1 + 1].kind \in {"word", "."}
      BY <3>1, <3>2, <3>3 DEF Linked
    <3>5. Len(v) >= 1 /\ v[1].kind \in {"word", "."}
      BY <3>3, <3>4
    <3> QED
      BY <3>5, <3>1, SMTT(30) DEF v
  <2> HIDE DEF d, e
  <2> QED
    BY <1>6, <1>9, <2>1, <2>2, <2>3 DEF d
<1>11. CASE c.state = "MATCH_DATA"
  <2>1. d = ReadMatchData(c)
    BY <1>11 DEF RequestReads
  <2>2. b \o rest # <<>> /\ (b \o rest)[1] = b[1]
    <3> HIDE DEF b
    <3> QED
      BY <1>1, <1>2
  <2> HIDE DEF d
  <2> QED
    BY <1>1, <1>4, <1>9, <1>11, <2>1, <2>2 DEF d
<1>12. CASE c.state = "FINISHED"
  <2>1. d = c
    BY <1>12 DEF RequestReads
  <2> QED
    BY <1>12, <2>1 DEF InOrder, Waiting
<1> QED
  BY <1>8, <1>10, <1>11, <1>12 DEF InOrder

\* DictServerImpl's slot reads a line and may send a command of the handshake.
LEMMA ImplReadsFacts ==
  ASSUME NEW c \in Clients
  PROVE  LET d == ImplReads(c)
         IN  /\ d \in Clients /\ d.state = c.state /\ d.next = c.next
             /\ d.list = c.list /\ d.matches = c.matches /\ d.fin = c.fin
             /\ d.sent \in {c.sent, Append(c.sent, 0)}
             /\ d.buffer = IF c.impl = "FINISHED" \/ c.buffer = <<>> THEN c.buffer ELSE Tail(c.buffer)
             /\ c.impl = "FINISHED" => d = c
             /\ c.impl # "FINISHED" /\ d.impl = "FINISHED" => c.buffer # <<>> /\ d.sent = c.sent
<1> DEFINE r == ReadLine(c)
           d == ImplReads(c)
           more == Append(c.sent, 0)
<1>1. /\ r \in Clients
      /\ r.buffer = IF c.buffer = <<>> THEN <<>> ELSE Tail(c.buffer)
      /\ r.sent = c.sent /\ r.impl = c.impl /\ r.state = c.state /\ r.next = c.next
      /\ r.list = c.list /\ r.matches = c.matches /\ r.fin = c.fin
  BY ReadLineFacts
<1>2. more \in Seq(0 .. NQueries)
  <2>1. 0 \in 0 .. NQueries
    BY DictServerAssumption
  <2> QED
    BY <2>1 DEF Clients
<1>3. [r EXCEPT !.impl = "CLIENT", !.sent = Append(@, 0)] = [r EXCEPT !.impl = "CLIENT", !.sent = more]
  BY <1>1
<1>4. [r EXCEPT !.impl = "OPTION", !.sent = Append(@, 0)] = [r EXCEPT !.impl = "OPTION", !.sent = more]
  BY <1>1
<1>5. \/ c.impl # "FINISHED" /\ d = [r EXCEPT !.impl = "CLIENT", !.sent = more]
      \/ c.impl # "FINISHED" /\ d = [r EXCEPT !.impl = "OPTION", !.sent = more]
      \/ c.impl = "OPTION" /\ FirstKind(c) = "250" /\ d = [r EXCEPT !.impl = "FINISHED"]
      \/ c.impl # "FINISHED" /\ d = r
      \/ c.impl = "FINISHED" /\ d = c
  BY <1>3, <1>4 DEF ImplReads
<1>6. FirstKind(c) = "250" => c.buffer # <<>>
  BY DEF FirstKind
<1> HIDE DEF r, d, more
<1> DEFINE b == IF c.buffer = <<>> THEN c.buffer ELSE Tail(c.buffer)
<1>7. r.buffer = b
  BY <1>1
<1> HIDE DEF b
<1> SUFFICES /\ d \in Clients /\ d.state = c.state /\ d.next = c.next
             /\ d.list = c.list /\ d.matches = c.matches /\ d.fin = c.fin
             /\ d.sent \in {c.sent, more}
             /\ d.buffer = IF c.impl = "FINISHED" THEN c.buffer ELSE b
             /\ c.impl = "FINISHED" => d = c
             /\ c.impl # "FINISHED" /\ d.impl = "FINISHED" => c.buffer # <<>> /\ d.sent = c.sent
  BY DEF b, d, more
<1>8. CASE c.impl # "FINISHED" /\ d = [r EXCEPT !.impl = "CLIENT", !.sent = more]
  BY <1>1, <1>2, <1>7, <1>8 DEF Clients, Impls
<1>9. CASE c.impl # "FINISHED" /\ d = [r EXCEPT !.impl = "OPTION", !.sent = more]
  BY <1>1, <1>2, <1>7, <1>9 DEF Clients, Impls
<1>10. CASE c.impl = "OPTION" /\ FirstKind(c) = "250" /\ d = [r EXCEPT !.impl = "FINISHED"]
  BY <1>1, <1>6, <1>7, <1>10 DEF Clients, Impls
<1>11. CASE c.impl # "FINISHED" /\ d = r
  BY <1>1, <1>7, <1>11 DEF Clients, Impls
<1>12. CASE c.impl = "FINISHED" /\ d = c
  BY <1>12
<1> QED
  BY <1>5, <1>8, <1>9, <1>10, <1>11, <1>12

-----------------------------------------------------------------------------
(* The connection, and the types of a search. *)

\* The client of the state is one, and what it becomes is one.
LEMMA ClientFacts ==
  ASSUME TypeOK
  PROVE  /\ Client \in Clients
         /\ Client.sent = sent /\ Client.impl = impl /\ Client.state = state
         /\ Client.buffer = buffer /\ Client.next = next /\ Client.list = matchesList
         /\ Client.matches = matches /\ Client.fin = isFinished
BY DEF TypeOK, Client, Clients, Impls, States

\* What the client becomes has its types.
LEMMA BecomesFacts ==
  ASSUME NEW c \in Clients, Becomes(c)
  PROVE  /\ sent' \in Seq(0 .. NQueries) /\ impl' \in Impls /\ state' \in States
         /\ buffer' \in Seq(Lines) /\ next' \in 1 .. NQueries + 1
         /\ matchesList' \in Seq(Words) /\ matches' \in Seq(Words) /\ isFinished' \in BOOLEAN
BY DEF Becomes, Clients

\* What readyRead() adds to the buffer.
LEMMA GotFacts ==
  ASSUME NEW c \in Clients, NEW p \in Seq(Lines)
  PROVE  LET d == [c EXCEPT !.buffer = @ \o p]
         IN  /\ d \in Clients /\ d.buffer = c.buffer \o p
             /\ d.sent = c.sent /\ d.impl = c.impl /\ d.state = c.state /\ d.next = c.next
             /\ d.list = c.list /\ d.matches = c.matches /\ d.fin = c.fin
<1> DEFINE b == c.buffer \o p
<1>1. b \in Seq(Lines)
  BY DEF Clients
<1> HIDE DEF b
<1>2. LET d == [c EXCEPT !.buffer = b]
      IN  /\ d \in Clients /\ d.buffer = b
          /\ d.sent = c.sent /\ d.impl = c.impl /\ d.state = c.state /\ d.next = c.next
          /\ d.list = c.list /\ d.matches = c.matches /\ d.fin = c.fin
  BY <1>1 DEF Clients
<1> QED
  BY <1>2 DEF b

\* While the handshake goes on one line is on its way, and it is read at once.
LEMMA HandshakeRead ==
  ASSUME TypeOK, Handshake, impl # "FINISHED", stream # <<>>, NEW n \in 1 .. Len(stream)
  PROVE  /\ n = 1 /\ Len(stream) = 1 /\ sent = <<>> /\ buffer = <<>>
         /\ SubSeq(stream, n + 1, Len(stream)) = <<>>
         /\ buffer \o SubSeq(stream, 1, n) = stream
         /\ next = 1 /\ matchesList = <<>> /\ matches = <<>> /\ shown = <<>>
<1>1. /\ stream \in Seq(Lines) /\ buffer \in Seq(Lines) /\ sent \in Seq(0 .. NQueries)
      /\ Len(sent) + Len(buffer) + Len(stream) <= 1
  BY DEF TypeOK, Handshake
<1>2. Len(stream) = 1 /\ Len(sent) = 0 /\ Len(buffer) = 0
  <2>1. Len(stream) \in Nat /\ Len(sent) \in Nat /\ Len(buffer) \in Nat
    BY <1>1
  <2>2. Len(stream) # 0
    <3>1. stream \in Seq(Lines) /\ stream # <<>>
      BY <1>1
    <3> QED
      BY <3>1, EmptySeq
  <2> DEFINE a == Len(stream)
             b == Len(sent)
             c == Len(buffer)
  <2>3. b + c + a <= 1
    BY <1>1
  <2> HIDE DEF a, b, c
  <2>4. a \in Nat /\ b \in Nat /\ c \in Nat /\ a # 0
    BY <2>1, <2>2 DEF a, b, c
  <2>5. a = 1 /\ b = 0 /\ c = 0
    BY <2>3, <2>4
  <2> QED
    BY <2>5 DEF a, b, c
<1>3. n = 1
  BY <1>2
<1>4. sent = <<>> /\ buffer = <<>>
  BY <1>1, <1>2
<1>5. SubSeq(stream, 1, n) = stream
  BY <1>1, <1>2, <1>3, SubSeqFull
<1>6. SubSeq(stream, n + 1, Len(stream)) = <<>>
  BY <1>2, <1>3, SubSeqEmpty
<1>7. buffer \o SubSeq(stream, 1, n) = stream
  BY <1>1, <1>4, <1>5, ConcatEmptySeq
<1>8. next = 1 /\ matchesList = <<>> /\ matches = <<>> /\ shown = <<>>
  BY DEF Handshake
<1> QED
  BY <1>2, <1>3, <1>4, <1>6, <1>7, <1>8

\* What a search needs of the invariant but for what it has gathered.
Base == TypeOK /\ Handshake /\ SearchInv

\* What an answer of the server is.
LEMMA ReplyFacts ==
  ASSUME TypeOK, NEW q \in 0 .. NQueries
  PROVE  /\ ReplyTo(q) \in Seq(Lines) /\ Linked(ReplyTo(q))
         /\ q = 0 => ReplyTo(q) = <<Line("250")>>
         /\ q # 0 /\ holds[q] = <<>> => ReplyTo(q) = <<Line("552")>>
         /\ q # 0 /\ holds[q] # <<>> =>
              /\ Len(ReplyTo(q)) = Len(holds[q]) + 3
              /\ ReplyTo(q)[1].kind = "152"
              /\ \A i \in 1 .. Len(holds[q]) : ReplyTo(q)[i + 1] = WordLine(holds[q][i])
              /\ ReplyTo(q)[Len(holds[q]) + 2].kind = "."
              /\ ReplyTo(q)[Len(holds[q]) + 3].kind = "250"
<1> DEFINE R == ReplyTo(q)
<1>1. \A k \in {"220", "530", "250", "150", "151", "152", "552", "."} : Line(k) \in Lines /\ Line(k).kind = k
  BY DEF Line, Lines
<1>2. ASSUME NEW k \in {"250", "552"}, R = <<Line(k)>>
      PROVE  R \in Seq(Lines) /\ Linked(R)
  <2>1. Line(k) \in Lines /\ Line(k).kind = k
    BY <1>1
  <2> HIDE DEF R
  <2>2. R \in Seq(Lines) /\ Len(R) = 1 /\ R[1].kind = k
    BY <1>2, <2>1
  <2>3. Linked(R)
    BY <2>2 DEF Linked
  <2> QED
    BY <2>2, <2>3
<1>3. CASE q = 0
  BY <1>2, <1>3 DEF ReplyTo
<1>4. CASE q # 0 /\ holds[q] = <<>>
  BY <1>2, <1>4 DEF ReplyTo
<1>5. CASE q # 0 /\ holds[q] # <<>>
  <2> DEFINE h == holds[q]
             W == [i \in DOMAIN h |-> WordLine(h[i])]
             H == <<Line("152")>>
             E == <<Line("."), Line("250")>>
  <2>1. h \in Seq(Words) /\ Len(h) \in Nat /\ DOMAIN h = 1 .. Len(h)
    <3>1. h \in Seq(Words)
      BY <1>5, DictServerAssumption DEF TypeOK, Queries
    <3> QED
      BY <3>1
  <2>2. R = (H \o W) \o E
    BY <1>5 DEF ReplyTo
  <2>3. \A i \in 1 .. Len(h) : WordLine(h[i]) \in Lines /\ WordLine(h[i]).kind = "word"
    BY <2>1 DEF WordLine, Lines
  <2>4. W \in Seq(Lines) /\ Len(W) = Len(h) /\ \A i \in 1 .. Len(h) : W[i] = WordLine(h[i])
    BY <2>1, <2>3
  <2>5. H \in Seq(Lines) /\ Len(H) = 1 /\ H[1].kind = "152"
    BY <1>1
  <2>6. E \in Seq(Lines) /\ Len(E) = 2 /\ E[1].kind = "." /\ E[2].kind = "250"
    BY <1>1
  <2>7. h # <<>>
    BY <1>5
  <2> HIDE DEF R, W, H, E, h
  <2>8. H \o W \in Seq(Lines) /\ Len(H \o W) = 1 + Len(h)
        /\ (H \o W)[1] = H[1] /\ \A i \in 1 .. Len(h) : (H \o W)[i + 1] = W[i]
    <3>1. /\ H \o W \in Seq(Lines) /\ Len(H \o W) = Len(H) + Len(W)
          /\ \A i \in 1 .. Len(H) + Len(W) : (H \o W)[i] = IF i <= Len(H) THEN H[i] ELSE W[i - Len(H)]
      <4>1. H \in Seq(Lines) /\ W \in Seq(Lines)
        BY <2>4, <2>5
      <4> QED
        BY <4>1, ConcatProperties
    <3>2. ASSUME NEW i \in 1 .. Len(h) PROVE (H \o W)[i + 1] = W[i]
      <4>1. i + 1 \in 1 .. Len(H) + Len(W) /\ ~(i + 1 <= Len(H)) /\ (i + 1) - Len(H) = i
        BY <2>1, <2>4, <2>5
      <4> QED
        BY <3>1, <4>1
    <3> QED
      BY <2>1, <2>4, <2>5, <3>1, <3>2
  <2>9. /\ R \in Seq(Lines) /\ Len(R) = Len(h) + 3
        /\ \A i \in 1 .. Len(h) + 1 : R[i] = (H \o W)[i]
        /\ R[Len(h) + 2] = E[1] /\ R[Len(h) + 3] = E[2]
    <3> DEFINE F == H \o W
    <3>1. F \in Seq(Lines) /\ Len(F) = Len(h) + 1
      BY <2>1, <2>8
    <3> HIDE DEF F
    <3>2. /\ F \o E \in Seq(Lines) /\ Len(F \o E) = Len(F) + Len(E)
          /\ \A i \in 1 .. Len(F) + Len(E) : (F \o E)[i] = IF i <= Len(F) THEN F[i] ELSE E[i - Len(F)]
      BY <2>6, <3>1, ConcatProperties
    <3>3. R = F \o E
      BY <2>2 DEF F
    <3>4. \A i \in 1 .. Len(h) + 1 : R[i] = F[i]
      BY <2>1, <2>6, <3>1, <3>2, <3>3
    <3>5. R[Len(h) + 2] = E[1] /\ R[Len(h) + 3] = E[2]
      BY <2>1, <2>6, <3>1, <3>2, <3>3
    <3>6. Len(R) = Len(h) + 3 /\ R \in Seq(Lines)
      BY <2>1, <2>6, <3>1, <3>2, <3>3
    <3> QED
      BY <3>4, <3>5, <3>6 DEF F
  <2>10. R[1].kind = "152"
    BY <2>1, <2>5, <2>8, <2>9
  <2>11. \A i \in 1 .. Len(h) : R[i + 1] = WordLine(h[i])
    <3> TAKE i \in 1 .. Len(h)
    <3>1. i + 1 \in 1 .. Len(h) + 1
      BY <2>1
    <3>2. R[i + 1] = (H \o W)[i + 1]
      BY <2>9, <3>1
    <3> QED
      BY <2>4, <2>8, <3>2
  <2>12. R[Len(h) + 2].kind = "." /\ R[Len(h) + 3].kind = "250"
    BY <2>6, <2>9
  <2>13. Linked(R)
    <3>1. ASSUME NEW i \in 1 .. Len(R), R[i].kind \in {"152", "word"}
          PROVE  i < Len(R) /\ R[i + 1].kind \in {"word", "."}
      <4>1. i < Len(h) + 2
        BY <2>1, <2>9, <2>12, <3>1
      <4>2. CASE i = Len(h) + 1
        BY <2>1, <2>9, <2>12, <4>2
      <4>3. CASE i # Len(h) + 1
        <5>1. i \in 1 .. Len(h)
          BY <2>1, <4>1, <4>3
        <5>2. R[i + 1].kind = "word"
          BY <2>3, <2>11, <5>1
        <5> QED
          BY <2>1, <2>9, <4>1, <5>2
      <4> QED
        BY <4>2, <4>3
    <3> QED
      BY <3>1 DEF Linked
  <2> QED
    BY <1>5, <2>9, <2>10, <2>11, <2>12, <2>13 DEF R, h
<1> QED
  BY <1>3, <1>4, <1>5

\* During the handshake one command at most waits for an answer, and nothing else does.
LEMMA HandshakeAnswered ==
  ASSUME TypeOK, Handshake, impl # "FINISHED", sent # <<>>
  PROVE  Head(sent) = 0 /\ Tail(sent) = <<>> /\ stream = <<>> /\ buffer = <<>>
<1>1. /\ stream \in Seq(Lines) /\ buffer \in Seq(Lines) /\ sent \in Seq({0})
      /\ Len(sent) + Len(buffer) + Len(stream) <= 1
  BY DEF TypeOK, Handshake
<1> DEFINE a == Len(stream)
           b == Len(sent)
           c == Len(buffer)
<1>2. b + c + a <= 1
  BY <1>1
<1>3. a \in Nat /\ b \in Nat /\ c \in Nat
  BY <1>1
<1>4. b # 0
  BY <1>1, EmptySeq
<1> HIDE DEF a, b, c
<1>5. a = 0 /\ b = 1 /\ c = 0
  BY <1>2, <1>3, <1>4
<1>6. stream = <<>> /\ buffer = <<>>
  BY <1>1, <1>5, EmptySeq DEF a, c
<1>7. sent \in Seq({0}) /\ Len(sent) = 1
  BY <1>1, <1>5 DEF b
<1>8. Head(sent) = 0
  BY <1>7
<1>9. Tail(sent) = <<>>
  <2>1. Tail(sent) \in Seq({0}) /\ Len(Tail(sent)) = 0
    <3>1. sent \in Seq({0}) /\ sent # <<>>
      BY <1>7
    <3>2. Tail(sent) \in Seq({0}) /\ Len(Tail(sent)) = Len(sent) - 1
      BY <3>1, HeadTailProperties
    <3> QED
      BY <1>7, <3>2
  <2> QED
    BY <2>1, EmptySeq
<1> QED
  BY <1>6, <1>8, <1>9

\* The answer to a command of the handshake.
LEMMA HandshakeOn ==
  ASSUME TypeOK, Handshake, impl # "FINISHED", sent # <<>>,
         stream' = stream \o <<Line("250")>>, sent' = Tail(sent), buffer' = buffer
  PROVE  /\ sent' \in Seq({0}) /\ Len(sent') + Len(buffer') + Len(stream') <= 1
         /\ \A i \in 1 .. Len(buffer') : buffer'[i].kind \in Greetings
         /\ \A i \in 1 .. Len(stream') : stream'[i].kind \in Greetings
<1>1. Tail(sent) = <<>> /\ stream = <<>> /\ buffer = <<>>
  BY HandshakeAnswered
<1> DEFINE s == <<Line("250")>>
<1>2. s \in Seq(Lines) /\ Len(s) = 1 /\ s[1].kind = "250"
  BY DEF Line, Lines
<1> HIDE DEF s
<1>3. stream' = <<>> \o s
  BY <1>1 DEF s
<1>4. stream' = s
  BY <1>2, <1>3, ConcatEmptySeq
<1>5. sent' = <<>> /\ buffer' = <<>>
  BY <1>1
<1>6. sent' \in Seq({0}) /\ Len(sent') = 0 /\ Len(buffer') = 0
  BY <1>5, EmptySeq
<1>7. Len(stream') = 1 /\ \A i \in 1 .. Len(stream') : stream'[i].kind \in Greetings
  <2>1. Len(s) = 1 /\ \A i \in 1 .. Len(s) : s[i].kind \in Greetings
    <3>1. \A i \in 1 .. 1 : i = 1
      OBVIOUS
    <3> QED
      BY <1>2, <3>1 DEF Greetings
  <2> QED
    BY <1>4, <2>1
<1>8. \A i \in 1 .. Len(buffer') : buffer'[i].kind \in Greetings
  BY <1>6
<1>9. Len(sent') + Len(buffer') + Len(stream') <= 1
  BY <1>6, <1>7
<1> QED
  BY <1>6, <1>7, <1>8, <1>9

\* The server answers a search.
LEMMA AnswerKeeps ==
  ASSUME Base, kind = "search", Answer, UNCHANGED <<kind, articleVars>>
  PROVE  Base'
<1> DEFINE q == Head(sent)
           R == ReplyTo(q)
<1>1. TypeOK /\ Handshake /\ SearchInv
  BY DEF Base
<1>2. sent \in Seq(0 .. NQueries) /\ stream \in Seq(Lines) /\ buffer \in Seq(Lines) /\ sent # <<>>
  BY <1>1 DEF TypeOK, Answer
<1>3. q \in 0 .. NQueries /\ Tail(sent) \in Seq(0 .. NQueries)
  <2> DEFINE Q == 0 .. NQueries
  <2>1. sent \in Seq(Q) /\ sent # <<>>
    BY <1>2
  <2> HIDE DEF Q
  <2>2. Head(sent) \in Q /\ Tail(sent) \in Seq(Q)
    BY <2>1, HeadTailProperties
  <2> QED
    BY <2>2 DEF Q, q
<1>4. R \in Seq(Lines) /\ Linked(R)
  BY <1>1, <1>3, ReplyFacts
<1>5. q = 0 => R = <<Line("250")>>
  BY <1>1, <1>3, ReplyFacts
<1>6. stream' = stream \o R /\ sent' = Tail(sent)
  BY DEF Answer
<1>7. UNCHANGED <<holds, server, torn, impl, state, buffer, next, matchesList,
                 matches, isFinished, cancelled, owned, kind, articleVars>>
  BY DEF Answer
<1> HIDE DEF R, q
<1>8. /\ stream \o R \in Seq(Lines) /\ Len(stream \o R) = Len(stream) + Len(R)
      /\ \A i \in 1 .. Len(stream) + Len(R) :
           (stream \o R)[i] = IF i <= Len(stream) THEN stream[i] ELSE R[i - Len(stream)]
  <2>1. stream \in Seq(Lines) /\ R \in Seq(Lines)
    BY <1>2, <1>4
  <2> QED
    BY <2>1, ConcatProperties
<1>9. TypeOK'
  <2>1. stream' \in Seq(Lines) /\ sent' \in Seq(0 .. NQueries)
    BY <1>3, <1>6, <1>8
  <2> QED
    BY <1>1, <1>7, <2>1 DEF TypeOK, articleVars
<1>10. Handshake'
  <2>1. CASE impl = "FINISHED"
    BY <1>7, <2>1 DEF Handshake
  <2>2. CASE impl # "FINISHED"
    <3>1. q = 0
      BY <1>1, <1>2, <2>2, HandshakeAnswered DEF q
    <3>2. /\ sent' \in Seq({0}) /\ Len(sent') + Len(buffer') + Len(stream') <= 1
          /\ \A i \in 1 .. Len(buffer') : buffer'[i].kind \in Greetings
          /\ \A i \in 1 .. Len(stream') : stream'[i].kind \in Greetings
      BY <1>1, <1>2, <1>5, <1>6, <1>7, <2>2, <3>1, HandshakeOn
    <3> QED
      BY <1>1, <1>7, <2>2, <3>2 DEF Handshake, articleVars, IsCancelled
  <2> QED
    BY <2>1, <2>2
<1>11. SearchInv'
  <2>1. Linked(buffer \o stream) /\ timedOut = FALSE
    BY <1>1 DEF SearchInv
  <2>2. buffer \o stream \in Seq(Lines)
    <3>1. buffer \in Seq(Lines) /\ stream \in Seq(Lines)
      BY <1>2
    <3> QED
      BY <3>1, ConcatProperties
  <2>3. buffer \o (stream \o R) = (buffer \o stream) \o R
    BY <1>2, <1>4, LinesCat
  <2>4. Linked((buffer \o stream) \o R)
    BY <1>4, <2>1, <2>2, LinkedCat
  <2>5. Linked(buffer' \o stream')
    BY <1>6, <1>7, <2>3, <2>4
  <2>6. ASSUME state = "MATCH_DATA"
        PROVE  buffer' = <<>> /\ stream' # <<>> /\ stream'[1].kind \in {"word", "."}
    <3>1. buffer = <<>> /\ stream # <<>> /\ stream[1].kind \in {"word", "."}
      BY <1>1, <2>6 DEF SearchInv
    <3> DEFINE s == stream \o R
    <3>2. Len(s) > 0 /\ s[1] = stream[1] /\ s \in Seq(Lines)
      <4>1. Len(stream) \in Nat /\ Len(stream) # 0 /\ Len(R) \in Nat
        BY <1>2, <1>4, <3>1, EmptySeq
      <4> QED
        BY <1>8, <4>1
    <3>3. stream' = s
      BY <1>6
    <3> HIDE DEF s
    <3> QED
      BY <1>7, <3>1, <3>2, <3>3
  <2> QED
    BY <1>1, <1>7, <2>1, <2>5, <2>6 DEF SearchInv, articleVars
<1> QED
  BY <1>9, <1>10, <1>11 DEF Base

\* The connection or the owner goes away during a search.
LEMMA SmallStepsKeep ==
  ASSUME Base, kind = "search", Leave \/ ErrorOccurred \/ Cancel \/ Drop,
         UNCHANGED <<kind, articleVars>>
  PROVE  Base'
<1>1. UNCHANGED <<holds, stream, torn, sent, impl, state, buffer, next, matchesList,
                 matches, kind, articleVars>>
  BY DEF Leave, ErrorOccurred, Cancel, Drop, clientVars
<1>2. /\ server' \in {"up", "leaving", "closed"} /\ isFinished' \in BOOLEAN
      /\ cancelled' \in BOOLEAN /\ owned' \in BOOLEAN
  BY DEF Leave, ErrorOccurred, Cancel, Drop, clientVars, Base, TypeOK
<1>3. (isFinished' = isFinished /\ (IsCancelled => IsCancelled')) \/ IsCancelled'
  BY DEF Leave, ErrorOccurred, Cancel, Drop, clientVars, IsCancelled, articleVars
<1>4. TypeOK'
  BY <1>1, <1>2 DEF Base, TypeOK, articleVars
<1>5. Handshake'
  BY <1>1, <1>3 DEF Base, Handshake, articleVars
<1>6. SearchInv'
  BY <1>1 DEF Base, SearchInv, articleVars
<1> QED
  BY <1>4, <1>5, <1>6 DEF Base

\* A packet for a request whose connection stands.
LEMMA SearchReads ==
  ASSUME Base, kind = "search", impl = "FINISHED", ReadyRead, UNCHANGED <<kind, articleVars>>
  PROVE  Base'
<1>1. TypeOK /\ Handshake /\ SearchInv
  BY DEF Base
<1>2. stream \in Seq(Lines) /\ buffer \in Seq(Lines) /\ stream # <<>>
  BY <1>1 DEF TypeOK, ReadyRead
<1>3. PICK n \in 1 .. Len(stream) :
        /\ stream' = SubSeq(stream, n + 1, Len(stream))
        /\ torn' = (torn \/ stream[n].kind = ".")
        /\ Becomes(RequestReads([Client EXCEPT !.buffer = @ \o SubSeq(stream, 1, n)]))
  <2>1. PICK n \in 1 .. Len(stream) :
          /\ stream' = SubSeq(stream, n + 1, Len(stream))
          /\ torn' = (torn \/ stream[n].kind = ".")
          /\ LET got == [Client EXCEPT !.buffer = @ \o SubSeq(stream, 1, n)]
                 c == RequestReads(got)
             IN  Becomes(IF CallbackDue(c) THEN Callback(c) ELSE c)
    BY DEF ReadyRead
  <2> QED
    BY <2>1 DEF CallbackDue
<1> DEFINE p == SubSeq(stream, 1, n)
           r == SubSeq(stream, n + 1, Len(stream))
           g == [Client EXCEPT !.buffer = @ \o p]
           d == RequestReads(g)
<1>4. /\ p \in Seq(Lines) /\ r \in Seq(Lines) /\ p \o r = stream /\ p # <<>>
      /\ p[1] = stream[1]
  <2>1. /\ p \in Seq(Lines) /\ r \in Seq(Lines) /\ p \o r = stream /\ p # <<>>
        /\ \A i \in 1 .. n : p[i] = stream[i]
    BY <1>2, PacketFacts
  <2>2. 1 \in 1 .. n
    BY <1>2
  <2> HIDE DEF p, r
  <2> QED
    BY <2>1, <2>2
<1>5. stream' = r /\ Becomes(d)
  BY <1>3
<1>6. /\ Client \in Clients /\ Client.impl = impl /\ Client.state = state
      /\ Client.buffer = buffer
  BY <1>1, ClientFacts
<1> HIDE DEF p, r
<1>7. /\ g \in Clients /\ g.buffer = buffer \o p /\ g.impl = impl /\ g.state = state
  BY <1>4, <1>6, GotFacts, ZenonT(60)
<1> HIDE DEF g, d
<1>8. g.buffer # <<>>
  <2>1. buffer \o p # <<>>
    BY <1>2, <1>4, ConcatEmptySeq, ConcatEqualIffEmpty, ConcatProperties, EmptySeq
  <2> QED
    BY <1>7, <2>1
<1>9. InOrder(g, r)
  <2>1. (buffer \o p) \o r = buffer \o (p \o r)
    BY <1>2, <1>4, LinesCat
  <2>2. Linked(buffer \o stream) /\ state \in {"MATCH", "MATCH_DATA", "FINISHED"}
    BY <1>1 DEF SearchInv
  <2> QED
    BY <1>4, <1>7, <2>1, <2>2 DEF InOrder
<1>10. g.state = "MATCH_DATA" => g.buffer[1].kind \in {"word", "."}
  <2> HAVE g.state = "MATCH_DATA"
  <2>1. buffer = <<>> /\ stream[1].kind \in {"word", "."}
    BY <1>1, <1>7 DEF SearchInv
  <2>2. <<>> \o p = p
    BY <1>4, ConcatEmptySeq
  <2> QED
    BY <1>4, <1>7, <2>1, <2>2
<1>11. InOrder(d, r) /\ Waiting(d, r) /\ d.impl = g.impl
  BY <1>4, <1>8, <1>9, <1>10, RequestReadsFacts DEF d
<1>12. d \in Clients /\ d.impl = "FINISHED" /\ d.state \in {"MATCH", "MATCH_DATA", "FINISHED"}
       /\ Linked(d.buffer \o r)
  BY <1>7, <1>11 DEF InOrder
<1>13. /\ sent' \in Seq(0 .. NQueries) /\ impl' \in Impls /\ state' \in States
       /\ buffer' \in Seq(Lines) /\ next' \in 1 .. NQueries + 1
       /\ matchesList' \in Seq(Words) /\ matches' \in Seq(Words) /\ isFinished' \in BOOLEAN
  BY <1>5, <1>12, BecomesFacts
<1>14. impl' = "FINISHED" /\ state' = d.state /\ buffer' = d.buffer
  BY <1>5, <1>12 DEF Becomes
<1>15. UNCHANGED <<holds, server, cancelled, owned, kind, articleVars>> /\ torn' \in BOOLEAN
  BY <1>1 DEF ReadyRead, TypeOK
<1>16. TypeOK'
  BY <1>1, <1>4, <1>5, <1>13, <1>15 DEF TypeOK, Impls, States, articleVars
<1>17. Handshake'
  BY <1>14 DEF Handshake
<1>18. SearchInv'
  <2>1. state' \in {"MATCH", "MATCH_DATA", "FINISHED"} /\ Linked(buffer' \o stream')
    BY <1>5, <1>12, <1>14
  <2>2. state' = "MATCH_DATA" => buffer' = <<>> /\ stream' # <<>> /\ stream'[1].kind \in {"word", "."}
    BY <1>5, <1>11, <1>14 DEF Waiting
  <2>3. timedOut' = FALSE
    BY <1>1, <1>15 DEF SearchInv, articleVars
  <2> QED
    BY <2>1, <2>2, <2>3 DEF SearchInv
<1> QED
  BY <1>16, <1>17, <1>18 DEF Base

\* The commands of the handshake.
LEMMA HandshakeSends ==
  ASSUME NEW s \in Seq(0 .. NQueries), s = <<>>, NEW t, t \in {s, Append(s, 0)}
  PROVE  t \in Seq({0}) /\ Len(t) <= 1 /\ Len(t) \in Nat
<1>1. CASE t = s
  BY <1>1, EmptySeq
<1>2. CASE t = Append(s, 0)
  <2>1. t = <<0>>
    BY <1>2
  <2>2. t \in Seq({0}) /\ Len(t) = 1
    BY <2>1
  <2> QED
    BY <2>2
<1> QED
  BY <1>1, <1>2

\* A packet while the connection is made.
LEMMA SearchHandshake ==
  ASSUME Base, kind = "search", impl # "FINISHED", ReadyRead, UNCHANGED <<kind, articleVars>>
  PROVE  Base'
<1>1. TypeOK /\ Handshake /\ SearchInv
  BY DEF Base
<1>2. stream \in Seq(Lines) /\ buffer \in Seq(Lines) /\ stream # <<>> /\ sent \in Seq(0 .. NQueries)
  BY <1>1 DEF TypeOK, ReadyRead
<1>3. PICK n \in 1 .. Len(stream) :
        /\ stream' = SubSeq(stream, n + 1, Len(stream))
        /\ torn' = (torn \/ stream[n].kind = ".")
        /\ LET c == ImplReads([Client EXCEPT !.buffer = @ \o SubSeq(stream, 1, n)])
           IN  Becomes(IF c.impl = "FINISHED" THEN MatchNext(c) ELSE c)
  <2>1. PICK n \in 1 .. Len(stream) :
          /\ stream' = SubSeq(stream, n + 1, Len(stream))
          /\ torn' = (torn \/ stream[n].kind = ".")
          /\ LET got == [Client EXCEPT !.buffer = @ \o SubSeq(stream, 1, n)]
                 c == ImplReads(got)
             IN  Becomes(IF CallbackDue(c) THEN Callback(c) ELSE c)
    BY DEF ReadyRead
  <2> QED
    BY <2>1 DEF CallbackDue, Callback
<1> DEFINE p == SubSeq(stream, 1, n)
           g == [Client EXCEPT !.buffer = @ \o p]
           c == ImplReads(g)
           d == IF c.impl = "FINISHED" THEN MatchNext(c) ELSE c
<1>4. /\ Len(stream) = 1 /\ sent = <<>> /\ buffer = <<>>
      /\ SubSeq(stream, n + 1, Len(stream)) = <<>> /\ buffer \o p = stream
      /\ next = 1 /\ matchesList = <<>> /\ matches = <<>> /\ shown = <<>>
  BY <1>1, <1>2, HandshakeRead
<1>5. p \in Seq(Lines)
  BY <1>2, PacketFacts
<1>6. stream' = <<>> /\ Becomes(d)
  BY <1>3, <1>4
<1>7. /\ Client \in Clients /\ Client.sent = sent /\ Client.impl = impl /\ Client.state = state
      /\ Client.buffer = buffer /\ Client.next = next /\ Client.list = matchesList
      /\ Client.matches = matches /\ Client.fin = isFinished
  BY <1>1, ClientFacts
<1> HIDE DEF p
<1>8. /\ g \in Clients /\ g.buffer = stream /\ g.sent = sent /\ g.impl = impl
      /\ g.state = state /\ g.next = next /\ g.list = matchesList /\ g.matches = matches
      /\ g.fin = isFinished
  BY <1>4, <1>5, <1>7, GotFacts, ZenonT(60)
<1> HIDE DEF g
<1>9. /\ c \in Clients /\ c.state = state /\ c.next = next /\ c.list = matchesList
      /\ c.matches = matches /\ c.fin = isFinished /\ c.sent \in {sent, Append(sent, 0)}
  BY <1>8, ImplReadsFacts
<1>10. c.buffer = <<>>
  <2>1. c.buffer = Tail(stream)
    BY <1>2, <1>8, ImplReadsFacts
  <2>2. Tail(stream) \in Seq(Lines) /\ Len(Tail(stream)) = 0
    BY <1>2, <1>4, HeadTailProperties
  <2> QED
    BY <2>1, <2>2, EmptySeq
<1> HIDE DEF c
<1>11. d \in Clients /\ d.buffer = <<>> /\ (d.impl = "FINISHED" <=> c.impl = "FINISHED")
  <2>1. CASE c.impl = "FINISHED"
    <3>1. MatchNext(c) \in Clients /\ MatchNext(c).buffer = c.buffer /\ MatchNext(c).impl = c.impl
      BY <1>9, MatchNextFacts
    <3> QED
      BY <1>10, <2>1, <3>1
  <2>2. CASE c.impl # "FINISHED"
    BY <1>9, <1>10, <2>2
  <2> QED
    BY <2>1, <2>2
<1>12. c.impl = "FINISHED" => d.state \in {"MATCH", "FINISHED"}
  BY <1>9, MatchNextFacts
<1>13. c.impl # "FINISHED" => d = c
  OBVIOUS
<1> HIDE DEF d
<1>14. /\ sent' \in Seq(0 .. NQueries) /\ impl' \in Impls /\ state' \in States
       /\ buffer' \in Seq(Lines) /\ next' \in 1 .. NQueries + 1
       /\ matchesList' \in Seq(Words) /\ matches' \in Seq(Words) /\ isFinished' \in BOOLEAN
  BY <1>6, <1>11, BecomesFacts
<1>15. UNCHANGED <<holds, server, cancelled, owned, kind, articleVars>> /\ torn' \in BOOLEAN
  BY <1>1 DEF ReadyRead, TypeOK
<1>16. stream' \in Seq(Lines)
  BY <1>6, EmptySeq
<1>17. TypeOK'
  BY <1>1, <1>14, <1>15, <1>16 DEF TypeOK, Impls, States, articleVars
<1>18. Handshake'
  <2> SUFFICES ASSUME impl' # "FINISHED"
               PROVE  /\ next' = 1 /\ matchesList' = <<>> /\ matches' = <<>> /\ shown' = <<>>
                      /\ sent' \in Seq({0}) /\ Len(sent') + Len(buffer') + Len(stream') <= 1
                      /\ \A i \in 1 .. Len(buffer') : buffer'[i].kind \in Greetings
                      /\ \A i \in 1 .. Len(stream') : stream'[i].kind \in Greetings
                      /\ \A i \in 1 .. Len(articleText') : articleText'[i].kind \in Greetings
                      /\ kind' = "search" => state' = "START"
                      /\ isFinished' => IsCancelled'
    BY DEF Handshake
  <2>1. d = c
    BY <1>6, <1>11, <1>13 DEF Becomes
  <2>2. /\ sent' = c.sent /\ buffer' = <<>> /\ next' = 1 /\ matchesList' = <<>>
        /\ matches' = <<>> /\ isFinished' = isFinished /\ state' = state
    BY <1>4, <1>6, <1>9, <1>10, <2>1 DEF Becomes
  <2>3. sent' \in Seq({0}) /\ Len(sent') <= 1 /\ Len(sent') \in Nat
    BY <1>2, <1>4, <1>9, <2>2, HandshakeSends
  <2>4. Len(buffer') = 0 /\ Len(stream') = 0
    BY <1>6, <2>2, EmptySeq
  <2>5. Len(sent') + Len(buffer') + Len(stream') <= 1
    BY <2>3, <2>4
  <2>6. state = "START" /\ (isFinished => IsCancelled)
        /\ \A i \in 1 .. Len(articleText) : articleText[i].kind \in Greetings
    BY <1>1 DEF Handshake
  <2>7. articleText' = articleText /\ shown' = shown /\ IsCancelled' = IsCancelled
    BY <1>15 DEF articleVars, IsCancelled
  <2>8. /\ \A i \in 1 .. Len(buffer') : buffer'[i].kind \in Greetings
        /\ \A i \in 1 .. Len(stream') : stream'[i].kind \in Greetings
    BY <2>4
  <2> QED
    BY <1>4, <2>2, <2>3, <2>5, <2>6, <2>7, <2>8
<1>19. SearchInv'
  <2>1. timedOut' = FALSE
    BY <1>1, <1>15 DEF SearchInv, articleVars
  <2>2. Linked(buffer' \o stream')
    <3>1. buffer' = <<>> /\ stream' = <<>>
      BY <1>6, <1>11 DEF Becomes
    <3>2. <<>> \o <<>> = <<>>
      BY ConcatEmptySeq, EmptySeq
    <3>3. Linked(<<>>)
      BY DEF Linked
    <3> QED
      BY <3>1, <3>2, <3>3
  <2>3. impl' = "FINISHED" => state' \in {"MATCH", "FINISHED"}
    BY <1>6, <1>11, <1>12 DEF Becomes
  <2>4. impl' # "FINISHED" => state' = "START"
    BY <1>1, <1>6, <1>9, <1>11, <1>13 DEF Becomes, Handshake
  <2> QED
    BY <2>1, <2>2, <2>3, <2>4 DEF SearchInv
<1> QED
  BY <1>17, <1>18, <1>19 DEF Base

-----------------------------------------------------------------------------
(* A search is exact. *)

\* What the server holds does not change.
LEMMA HeldByStays ==
  ASSUME UNCHANGED holds
  PROVE  HeldBy' = HeldBy
BY DEF HeldBy

\* The lists of the first queries are no longer than those of all.
LEMMA HeldByLengths ==
  ASSUME holds \in [Queries -> Replies], NEW q \in 0 .. NQueries
  PROVE  Len(HeldBy[q]) <= Len(HeldBy[NQueries])
<1>1. NQueries \in Nat
  BY DictServerAssumption
<1> DEFINE Good == {i \in 0 .. NQueries : Len(HeldBy[NQueries - i]) <= Len(HeldBy[NQueries])}
<1>2. 0 \in Good
  <2>1. HeldBy[NQueries] \in Seq(Words)
    <3>1. NQueries \in 0 .. NQueries
      BY <1>1
    <3> QED
      BY <3>1, HeldByFacts
  <2>2. NQueries - 0 = NQueries /\ Len(HeldBy[NQueries]) \in Nat /\ 0 \in 0 .. NQueries
    BY <1>1, <2>1
  <2> QED
    BY <2>2
<1>3. ASSUME NEW i \in 1 .. NQueries, i - 1 \in Good
      PROVE  i \in Good
  <2> DEFINE m == NQueries - (i - 1)
  <2>1. m \in 1 .. NQueries /\ m - 1 = NQueries - i /\ m - 1 \in 0 .. NQueries /\ i \in 0 .. NQueries
    BY <1>1
  <2>2. Len(HeldBy[m]) <= Len(HeldBy[NQueries])
    BY <1>3
  <2> HIDE DEF m
  <2>3. HeldBy[m] = HeldBy[m - 1] \o holds[m]
    BY <2>1, HeldByFacts
  <2>4. HeldBy[m - 1] \in Seq(Words) /\ HeldBy[NQueries] \in Seq(Words)
    <3>1. NQueries \in 0 .. NQueries
      BY <1>1
    <3>2. \A n \in 0 .. NQueries : HeldBy[n] \in Seq(Words)
      BY HeldByFacts
    <3> QED
      BY <2>1, <3>1, <3>2
  <2>5. holds[m] \in Seq(Words)
    BY <2>1, DictServerAssumption DEF Queries
  <2>6. Len(HeldBy[m]) = Len(HeldBy[m - 1]) + Len(holds[m])
    BY <2>3, <2>4, <2>5, ConcatProperties
  <2>7. Len(HeldBy[m - 1]) \in Nat /\ Len(holds[m]) \in Nat /\ Len(HeldBy[NQueries]) \in Nat
    BY <2>4, <2>5, LenProperties
  <2>8. Len(HeldBy[m - 1]) <= Len(HeldBy[NQueries])
    <3> DEFINE a == Len(HeldBy[m - 1])
               b == Len(HeldBy[NQueries])
               e == Len(HeldBy[m])
               g == Len(holds[m])
    <3>1. e = a + g /\ e <= b
      BY <2>2, <2>6
    <3>2. a \in Nat /\ b \in Nat /\ g \in Nat
      BY <2>7
    <3> HIDE DEF a, b, e, g
    <3>3. a <= b
      BY <3>1, <3>2
    <3> QED
      BY <3>3 DEF a, b
  <2> QED
    BY <2>1, <2>8
<1> HIDE DEF Good
<1>4. \A i \in 0 .. NQueries : i \in Good
  BY <1>1, <1>2, <1>3, AllUpTo
<1>5. NQueries - q \in 0 .. NQueries /\ NQueries - (NQueries - q) = q
  BY <1>1
<1>6. NQueries - q \in Good
  BY <1>4, <1>5
<1> QED
  BY <1>5, <1>6 DEF Good

\* Without its repetitions a list is not longer.
LEMMA DistinctLength ==
  ASSUME NEW list \in Seq(Words)
  PROVE  Len(Distinct(list)) <= Len(list)
<1>1. PICK f \in [0 .. Len(list) -> Seq(Words)] :
        /\ f[0] = <<>> /\ Distinct(list) = f[Len(list)]
        /\ \A i \in 1 .. Len(list) : f[i] = IF \E j \in 1 .. i - 1 : list[j] = list[i] THEN f[i - 1]
                                              ELSE Append(f[i - 1], list[i])
  BY DistinctLoop
<1> DEFINE N == Len(list)
           Good == {i \in 0 .. N : Len(f[i]) <= i}
<1>2. N \in Nat /\ \A i \in 1 .. N : list[i] \in Words
  OBVIOUS
<1>3. 0 \in Good
  BY <1>1, <1>2, EmptySeq
<1>4. ASSUME NEW i \in 1 .. N, i - 1 \in Good
      PROVE  i \in Good
  <2>1. i \in 0 .. N /\ i - 1 \in 0 .. N
    BY <1>2
  <2> DEFINE x == f[i - 1]
             w == list[i]
             y == f[i]
  <2>2. x \in Seq(Words) /\ w \in Words /\ Len(x) <= i - 1
    BY <1>2, <1>4, <2>1
  <2>3. y = x \/ y = Append(x, w)
    BY <1>1
  <2> HIDE DEF x, y, w
  <2>4. Len(x) \in Nat /\ Len(Append(x, w)) = Len(x) + 1
    BY <2>2, AppendProperties, LenProperties
  <2>5. Len(y) <= i
    BY <2>1, <2>2, <2>3, <2>4
  <2> QED
    BY <2>1, <2>5 DEF y
<1> HIDE DEF Good, N
<1>5. \A i \in 0 .. N : i \in Good
  BY <1>2, <1>3, <1>4, AllUpTo
<1>6. N \in Good
  BY <1>2, <1>5
<1> QED
  BY <1>1, <1>6 DEF Good, N

\* The client when a query has been answered: it asks the next one, or has all the words.
LEMMA AskNext ==
  ASSUME holds \in [Queries -> Replies], Len(HeldBy[NQueries]) < MaxMatches,
         NEW c \in Clients, c.list = HeldBy[c.next - 1], c.matches = <<>>,
         c.sent = <<>>, c.buffer = <<>>
  PROVE  LET d == MatchNext(c)
         IN  /\ d \in Clients /\ d.buffer = <<>>
             /\ \/ d.state = "FINISHED" /\ d.matches = Distinct(HeldBy[NQueries])
                \/ /\ d.state = "MATCH" /\ d.next - 1 \in Queries /\ d.sent = <<d.next - 1>>
                   /\ d.list = HeldBy[d.next - 2] /\ d.matches = <<>> /\ d.fin = c.fin
<1> DEFINE d == MatchNext(c)
<1>1. NQueries \in Nat /\ c.next \in 1 .. NQueries + 1 /\ MaxMatches \in Nat
  BY DictServerAssumption DEF Clients
<1>2. d \in Clients /\ d.buffer = <<>>
  BY MatchNextFacts
<1>3. CASE c.next > NQueries
  <2>1. c.next - 1 = NQueries
    BY <1>1, <1>3
  <2>2. d = FinishedMatches(c) /\ d.state = "FINISHED"
    BY <1>3, MatchNextFacts
  <2> DEFINE l == HeldBy[NQueries]
             k == Distinct(l)
  <2>3. l \in Seq(Words)
    <3>1. NQueries \in 0 .. NQueries
      BY <1>1
    <3> QED
      BY <3>1, HeldByFacts
  <2>4. k \in Seq(Words) /\ Len(k) <= Len(l)
    BY <2>3, DistinctFacts, DistinctLength
  <2>5. Len(k) < MaxMatches
    BY <1>1, <2>3, <2>4
  <2>6. d.matches = c.matches \o First(Distinct(c.list))
    BY <2>2, FinishedFacts
  <2>7. d.matches = <<>> \o First(k)
    BY <2>1, <2>6
  <2> HIDE DEF k
  <2>8. First(k) = k
    BY <2>4, <2>5, FirstFacts
  <2>9. d.matches = k
    BY <2>4, <2>7, <2>8, ConcatEmptySeq
  <2> QED
    BY <1>2, <2>2, <2>9 DEF k
<1>4. CASE ~(c.next > NQueries)
  <2>1. /\ d.state = "MATCH" /\ d.sent = Append(c.sent, c.next)
        /\ d.next = c.next + 1 /\ d.list = c.list /\ d.matches = c.matches /\ d.fin = c.fin
    BY <1>4, MatchNextFacts
  <2>2. d.next - 1 = c.next /\ d.next - 2 = c.next - 1 /\ c.next \in Queries
    BY <1>1, <1>4, <2>1 DEF Queries
  <2>3. d.sent = <<c.next>>
    BY <2>1
  <2> QED
    BY <1>2, <2>1, <2>2, <2>3
<1> QED
  BY <1>3, <1>4

\* What the loop of readMatchData() does below MaxMatches.
LEMMA TakenFacts ==
  ASSUME NEW e \in Clients, NEW m \in Nat, NEW W \in Seq(Words), Len(W) = m,
         \A i \in 1 .. m : e.buffer[i].word = W[i],
         Len(e.list) + m < MaxMatches
  PROVE  LET d == Taken(e, m)
         IN  /\ d \in Clients /\ d.buffer = <<>> /\ d.list = e.list \o W
             /\ d.sent = e.sent /\ d.impl = e.impl /\ d.state = e.state /\ d.next = e.next
             /\ d.matches = e.matches /\ d.fin = e.fin
<1> DEFINE V == [i \in 1 .. m |-> e.buffer[i].word]
           t == TakeWords(e, e.buffer, m)
           d == Taken(e, m)
<1>1. \A i \in 1 .. m : e.buffer[i].word \in Words
  BY ElementOfSeq
<1>2. t \in Clients /\ t = [e EXCEPT !.list = @ \o V]
  <2> DEFINE B == e.buffer
  <2>1. \A i \in 1 .. m : B[i].word \in Words
    BY <1>1
  <2> HIDE DEF B
  <2>2. TakeWords(e, B, m) \in Clients
    BY <2>1, TakeFacts
  <2>3. Len(e.list) + m < MaxMatches =>
          TakeWords(e, B, m) = [e EXCEPT !.list = @ \o [i \in 1 .. m |-> B[i].word]]
    BY <2>1, TakeFacts
  <2> QED
    BY <2>2, <2>3 DEF B
<1>3. V = W
  <2>1. W \in [1 .. m -> Words]
    BY LenProperties
  <2>2. V \in [1 .. m -> Words] /\ \A i \in 1 .. m : V[i] = W[i]
    BY <1>1
  <2> HIDE DEF V
  <2> QED
    BY <2>1, <2>2
<1> DEFINE l == e.list \o W
<1>4. t = [e EXCEPT !.list = l]
  BY <1>2, <1>3
<1>5. l \in Seq(Words)
  <2>1. e.list \in Seq(Words) /\ W \in Seq(Words)
    BY DEF Clients
  <2> QED
    BY <2>1, ConcatProperties
<1> HIDE DEF l
<1>6. /\ t.list = l /\ t.sent = e.sent /\ t.impl = e.impl /\ t.state = e.state /\ t.next = e.next
      /\ t.matches = e.matches /\ t.fin = e.fin
  BY <1>4, <1>5 DEF Clients
<1>7. d = [t EXCEPT !.buffer = <<>>]
  BY DEF Taken
<1> HIDE DEF t, d
<1>8. /\ d \in Clients /\ d.buffer = <<>>
      /\ d.sent = t.sent /\ d.impl = t.impl /\ d.state = t.state /\ d.next = t.next
      /\ d.list = t.list /\ d.matches = t.matches /\ d.fin = t.fin
  BY <1>2, <1>7, Emptied
<1> QED
  BY <1>6, <1>8 DEF d, l

\* The words of a list that came in two parts.
LEMMA TwoParts ==
  ASSUME NEW h \in Seq(Words), NEW k \in 0 .. Len(h), NEW m \in k .. Len(h)
  PROVE  /\ SubSeq(h, 1, k) \in Seq(Words) /\ SubSeq(h, k + 1, m) \in Seq(Words)
         /\ Len(SubSeq(h, k + 1, m)) = m - k
         /\ \A i \in 1 .. m - k : SubSeq(h, k + 1, m)[i] = h[k + i]
         /\ SubSeq(h, 1, k) \o SubSeq(h, k + 1, m) = SubSeq(h, 1, m)
<1> DEFINE a == SubSeq(h, 1, k)
           b == SubSeq(h, k + 1, m)
           c == SubSeq(h, 1, m)
<1>1. Len(h) \in Nat /\ k \in Nat /\ m \in Nat /\ k <= m /\ m <= Len(h)
      /\ \A i \in 1 .. Len(h) : h[i] \in Words
  BY LenProperties, ElementOfSeq
<1>2. a \in Seq(Words) /\ Len(a) = k /\ \A i \in 1 .. k : a[i] = h[i]
  <2>1. \A i \in 1 .. k : h[i] \in Words
    BY <1>1
  <2>2. /\ a \in Seq(Words) /\ Len(a) = IF 1 <= k THEN k - 1 + 1 ELSE 0
        /\ \A i \in 1 .. k - 1 + 1 : a[i] = h[1 + i - 1]
    BY <1>1, <2>1, SubSeqProperties
  <2> QED
    BY <1>1, <2>2
<1>3. c \in Seq(Words) /\ Len(c) = m /\ \A i \in 1 .. m : c[i] = h[i]
  <2>1. \A i \in 1 .. m : h[i] \in Words
    BY <1>1
  <2>2. /\ c \in Seq(Words) /\ Len(c) = IF 1 <= m THEN m - 1 + 1 ELSE 0
        /\ \A i \in 1 .. m - 1 + 1 : c[i] = h[1 + i - 1]
    BY <1>1, <2>1, SubSeqProperties
  <2> QED
    BY <1>1, <2>2
<1>4. b \in Seq(Words) /\ Len(b) = m - k /\ \A i \in 1 .. m - k : b[i] = h[k + i]
  <2>1. \A i \in k + 1 .. m : h[i] \in Words
    BY <1>1
  <2>2. k + 1 \in Int /\ m \in Int
    BY <1>1
  <2>3. /\ b \in Seq(Words) /\ Len(b) = IF k + 1 <= m THEN m - (k + 1) + 1 ELSE 0
        /\ \A i \in 1 .. m - (k + 1) + 1 : b[i] = h[k + 1 + i - 1]
    BY <2>1, <2>2, SubSeqProperties
  <2>4. Len(b) = m - k
    BY <1>1, <2>3
  <2>5. ASSUME NEW i \in 1 .. m - k PROVE b[i] = h[k + i]
    <3>1. i \in 1 .. m - (k + 1) + 1 /\ k + 1 + i - 1 = k + i
      BY <1>1
    <3> QED
      BY <2>3, <3>1
  <2> QED
    BY <2>3, <2>4, <2>5
<1> HIDE DEF a, b, c
<1>5. a \o b = c
  <2>1. /\ a \o b \in Seq(Words) /\ Len(a \o b) = Len(a) + Len(b)
        /\ \A i \in 1 .. Len(a) + Len(b) : (a \o b)[i] = IF i <= Len(a) THEN a[i] ELSE b[i - Len(a)]
    BY <1>2, <1>4, ConcatProperties
  <2> DEFINE d == a \o b
  <2>2. d \in Seq(Words) /\ Len(d) = m
    BY <1>1, <1>2, <1>4, <2>1
  <2>3. ASSUME NEW i \in 1 .. m PROVE d[i] = c[i]
    <3>1. d[i] = IF i <= k THEN a[i] ELSE b[i - k]
      BY <1>1, <1>2, <1>4, <2>1, SMTT(30)
    <3>2. CASE i <= k
      BY <1>1, <1>2, <1>3, <3>1, <3>2
    <3>3. CASE ~(i <= k)
      <4>1. i - k \in 1 .. m - k /\ k + (i - k) = i
        BY <1>1, <3>3
      <4> QED
        BY <1>3, <1>4, <3>1, <3>3, <4>1
    <3> QED
      BY <3>2, <3>3
  <2> HIDE DEF d
  <2>4. d = c
    BY <1>3, <2>2, <2>3, SeqEqual
  <2> QED
    BY <2>4 DEF d
<1> QED
  BY <1>2, <1>4, <1>5 DEF a, b, c

\* Lines that are those of a reply with the words h behind its k-th word.
PartOf(b, h, k) ==
  \A i \in 1 .. Len(b) :
    IF k + i <= Len(h) THEN b[i] = WordLine(h[k + i])
    ELSE b[i].kind = IF k + i = Len(h) + 1 THEN "." ELSE "250"

\* The lines of a reply behind its k-th word.
LEMMA PartOfReply ==
  ASSUME TypeOK, NEW q \in Queries, holds[q] # <<>>,
         NEW k \in 0 .. Len(holds[q]), NEW j \in k + 1 .. Len(holds[q]) + 3
  PROVE  LET b == SubSeq(ReplyTo(q), k + 2, j)
         IN  /\ holds[q] \in Seq(Words) /\ b \in Seq(Lines) /\ Len(b) = j - k - 1
             /\ PartOf(b, holds[q], k)
<1> DEFINE h == holds[q]
           R == ReplyTo(q)
           L == Len(h)
           b == SubSeq(R, k + 2, j)
<1>1. q \in 0 .. NQueries /\ q # 0
  BY DictServerAssumption DEF Queries
<1>2. h \in Seq(Words) /\ L \in Nat
  BY DictServerAssumption DEF TypeOK
<1>3. /\ R \in Seq(Lines) /\ Len(R) = L + 3
      /\ \A i \in 1 .. L : R[i + 1] = WordLine(h[i])
      /\ R[L + 2].kind = "." /\ R[L + 3].kind = "250"
  <2>1. R \in Seq(Lines)
    BY <1>1, ReplyFacts
  <2>2. /\ Len(R) = L + 3
        /\ \A i \in 1 .. L : R[i + 1] = WordLine(h[i])
        /\ R[L + 2].kind = "." /\ R[L + 3].kind = "250"
    BY <1>1, ReplyFacts
  <2> QED
    BY <2>1, <2>2
<1> HIDE DEF R, h
<1>4. k \in Nat /\ j \in Nat /\ k + 1 <= j /\ j <= L + 3 /\ k <= L
  BY <1>2 DEF h
<1>5. /\ b \in Seq(Lines) /\ Len(b) = IF k + 2 <= j THEN j - (k + 2) + 1 ELSE 0
      /\ \A i \in 1 .. j - (k + 2) + 1 : b[i] = R[k + 2 + i - 1]
  <2>1. \A i \in k + 2 .. j : R[i] \in Lines
    BY <1>2, <1>3, <1>4, ElementOfSeq
  <2>2. k + 2 \in Int /\ j \in Int
    BY <1>4
  <2> QED
    BY <2>1, <2>2, SubSeqProperties
<1>6. Len(b) = j - k - 1
  BY <1>4, <1>5
<1>7. ASSUME NEW i \in 1 .. Len(b)
      PROVE  IF k + i <= L THEN b[i] = WordLine(h[k + i])
             ELSE b[i].kind = IF k + i = L + 1 THEN "." ELSE "250"
  <2>1. i \in 1 .. j - (k + 2) + 1 /\ k + 2 + i - 1 = k + i + 1 /\ i \in Nat /\ i >= 1
    BY <1>4, <1>6
  <2>2. b[i] = R[k + i + 1]
    BY <1>5, <2>1
  <2>3. k + i <= L + 2
    BY <1>4, <1>6, <1>2
  <2> HIDE DEF b
  <2>4. CASE k + i <= L
    <3>1. k + i \in 1 .. L
      BY <1>4, <2>1, <2>4
    <3> QED
      BY <1>3, <2>2, <2>4, <3>1
  <2>5. CASE k + i = L + 1
    <3>1. k + i + 1 = L + 2 /\ ~(k + i <= L)
      BY <1>2, <2>5
    <3> QED
      BY <1>3, <2>2, <2>5, <3>1
  <2>6. CASE k + i = L + 2
    <3>1. k + i + 1 = L + 3 /\ ~(k + i <= L) /\ k + i # L + 1
      BY <1>2, <2>6
    <3> QED
      BY <1>3, <2>2, <2>6, <3>1
  <2>7. k + i <= L \/ k + i = L + 1 \/ k + i = L + 2
    BY <1>2, <1>4, <2>1, <2>3
  <2> QED
    BY <2>4, <2>5, <2>6, <2>7
<1> QED
  BY <1>2, <1>5, <1>6, <1>7 DEF R, h, PartOf

\* Lists of words one behind the other are one.
LEMMA WordsCat ==
  ASSUME NEW x \in Seq(Words), NEW y \in Seq(Words), NEW z \in Seq(Words)
  PROVE  (x \o y) \o z = x \o (y \o z)
BY ConcatAssociative

\* What a packet brings of a list, when it does not end with the dot.
LEMMA BatchRead ==
  ASSUME TypeOK, Len(HeldBy[NQueries]) < MaxMatches, NEW q \in Queries, holds[q] # <<>>,
         NEW k \in 0 .. Len(holds[q]), NEW j \in k + 1 .. Len(holds[q]) + 3,
         j # Len(holds[q]) + 2,
         NEW e \in Clients, e.list = HeldBy[q - 1] \o SubSeq(holds[q], 1, k),
         e.buffer = SubSeq(ReplyTo(q), k + 2, j)
  PROVE  \E x \in Clients :
           /\ x.buffer = <<>> /\ x.sent = e.sent /\ x.impl = e.impl /\ x.state = e.state
           /\ x.next = e.next /\ x.matches = e.matches /\ x.fin = e.fin
           /\ IF j <= Len(holds[q]) + 1
              THEN /\ ReadMatchData(e) = x
                   /\ x.list = HeldBy[q - 1] \o SubSeq(holds[q], 1, j - 1)
              ELSE ReadMatchData(e) = MatchNext(x) /\ x.list = HeldBy[q]
<1> DEFINE h == holds[q]
           L == Len(h)
           b == e.buffer
           m == IF j <= L + 1 THEN j - 1 ELSE L
           W == SubSeq(h, k + 1, m)
           x == Taken(e, m - k)
           D == HasDot(b, Len(b))
<1>1. /\ h \in Seq(Words) /\ b \in Seq(Lines) /\ Len(b) = j - k - 1
      /\ \A i \in 1 .. Len(b) :
           IF k + i <= L THEN b[i] = WordLine(h[k + i])
           ELSE b[i].kind = IF k + i = L + 1 THEN "." ELSE "250"
  <2> DEFINE c == SubSeq(ReplyTo(q), k + 2, j)
  <2>1. holds[q] \in Seq(Words)
    BY PartOfReply
  <2>2. c \in Seq(Lines) /\ Len(c) = j - k - 1
    BY PartOfReply
  <2>3. PartOf(c, holds[q], k)
    BY PartOfReply
  <2>4. b = c
    OBVIOUS
  <2> HIDE DEF c, b
  <2> QED
    BY <2>1, <2>2, <2>3, <2>4 DEF PartOf
<1>2. L \in Nat /\ k \in Nat /\ j \in Nat /\ k <= L /\ k + 1 <= j /\ j <= L + 3 /\ j # L + 2
  BY <1>1
<1>3. HeldBy[q - 1] \in Seq(Words) /\ HeldBy[q] = HeldBy[q - 1] \o h
      /\ q - 1 \in 0 .. NQueries /\ q \in 0 .. NQueries
  <2>1. q - 1 \in 0 .. NQueries /\ q \in 0 .. NQueries /\ q \in 1 .. NQueries
    BY DictServerAssumption DEF Queries
  <2>2. holds \in [Queries -> Replies]
    BY DEF TypeOK
  <2>3. \A n \in 0 .. NQueries : HeldBy[n] \in Seq(Words)
    BY <2>2, HeldByFacts
  <2>4. HeldBy[q] = HeldBy[q - 1] \o holds[q]
    BY <2>1, <2>2, HeldByFacts
  <2> QED
    BY <2>1, <2>3, <2>4
<1>4. e.list = HeldBy[q - 1] \o SubSeq(h, 1, k)
  OBVIOUS
<1>5. Len(HeldBy[q]) <= Len(HeldBy[NQueries]) /\ holds \in [Queries -> Replies]
  BY <1>3, HeldByLengths DEF TypeOK
<1>6. m \in k .. L /\ m - k \in Nat
  BY <1>2
<1>7. /\ SubSeq(h, 1, k) \in Seq(Words) /\ W \in Seq(Words) /\ Len(W) = m - k
      /\ \A i \in 1 .. m - k : W[i] = h[k + i]
      /\ SubSeq(h, 1, k) \o W = SubSeq(h, 1, m)
  <2> HIDE DEF h, m
  <2> QED
    BY <1>1, <1>2, <1>6, TwoParts, SMTT(30)
<1>8. \A i \in 1 .. m - k : b[i].kind = "word" /\ b[i].word = W[i]
  <2> TAKE i \in 1 .. m - k
  <2>1. i \in 1 .. Len(b) /\ k + i <= L
    BY <1>1, <1>2, <1>6
  <2>2. b[i] = WordLine(h[k + i])
    BY <1>1, <2>1
  <2> HIDE DEF b, W, m
  <2> QED
    BY <1>7, <2>2 DEF WordLine
<1>9. /\ x \in Clients /\ x.buffer = <<>> /\ x.list = e.list \o W
      /\ x.sent = e.sent /\ x.impl = e.impl /\ x.state = e.state /\ x.next = e.next
      /\ x.matches = e.matches /\ x.fin = e.fin
  <2>1. Len(e.list) + (m - k) < MaxMatches
    <3> DEFINE s == SubSeq(h, 1, k)
               H == HeldBy[q - 1]
    <3>1. Len(H \o s) = Len(H) + Len(s) /\ Len(H \o h) = Len(H) + Len(h)
      <4>1. H \in Seq(Words) /\ s \in Seq(Words) /\ h \in Seq(Words)
        BY <1>1, <1>3, <1>7
      <4> HIDE DEF H, s, h
      <4> QED
        BY <4>1, ConcatProperties
    <3>2. Len(s) = k
      <4>1. \A i \in 1 .. k : h[i] \in Words
        BY <1>1, <1>2, ElementOfSeq
      <4> QED
        BY <1>2, <4>1, SubSeqProperties
    <3>3. Len(e.list) = Len(H) + k /\ Len(HeldBy[q]) = Len(H) + L
      BY <1>3, <1>4, <3>1, <3>2
    <3>4. Len(H) \in Nat /\ MaxMatches \in Nat
      BY <1>3, DictServerAssumption
    <3>5. Len(HeldBy[q]) < MaxMatches
      <4> DEFINE u == Len(HeldBy[q])
                 v == Len(HeldBy[NQueries])
      <4>1. u <= v /\ v < MaxMatches
        BY <1>5
      <4>2. u \in Nat /\ v \in Nat
        <5>1. NQueries \in 0 .. NQueries
          BY DictServerAssumption
        <5>2. HeldBy[q] \in Seq(Words) /\ HeldBy[NQueries] \in Seq(Words)
          BY <1>3, <1>5, <5>1, HeldByFacts
        <5> QED
          BY <5>2
      <4> HIDE DEF u, v
      <4>3. u < MaxMatches
        BY <3>4, <4>1, <4>2
      <4> QED
        BY <4>3 DEF u
    <3> DEFINE o == Len(H)
               l == Len(e.list)
               u == Len(HeldBy[q])
    <3>6. l = o + k /\ u = o + L /\ u < MaxMatches /\ o \in Nat
      BY <3>3, <3>4, <3>5
    <3> HIDE DEF o, l, u, m, L
    <3>7. m - k <= L - k /\ m \in Nat
      BY <1>2, <1>6
    <3>8. l + (m - k) < MaxMatches
      BY <1>2, <3>4, <3>6, <3>7
    <3> QED
      BY <3>8 DEF l
  <2> HIDE DEF m, W, h, b
  <2>2. \A i \in 1 .. m - k : e.buffer[i].word = W[i]
    BY <1>8 DEF b
  <2> QED
    BY <1>6, <1>7, <2>1, <2>2, TakenFacts
<1>10. x.list = HeldBy[q - 1] \o SubSeq(h, 1, m)
  <2>1. (HeldBy[q - 1] \o SubSeq(h, 1, k)) \o W = HeldBy[q - 1] \o (SubSeq(h, 1, k) \o W)
    <3> DEFINE s == SubSeq(h, 1, k)
               H == HeldBy[q - 1]
    <3>1. H \in Seq(Words) /\ s \in Seq(Words) /\ W \in Seq(Words)
      BY <1>3, <1>7
    <3> HIDE DEF H, s, W
    <3>2. (H \o s) \o W = H \o (s \o W)
      BY <3>1, WordsCat
    <3> QED
      BY <3>2 DEF H, s
  <2> QED
    BY <1>4, <1>7, <1>9, <2>1
<1>11. CASE j <= L + 1
  <2>1. m = j - 1 /\ m - k = Len(b)
    BY <1>1, <1>2, <1>11
  <2>2. ~D
    BY <1>8, <2>1 DEF HasDot
  <2>3. {i \in DOMAIN b : b[i].kind = "."} = {}
    BY <1>1, <2>2, FirstDot
  <2>4. ReadMatchData(e) = x
    BY <2>1, <2>3 DEF ReadMatchData, Taken
  <2> HIDE DEF x, h
  <2> QED
    BY <1>9, <1>10, <1>11, <2>1, <2>4 DEF h
<1>12. CASE j = L + 3
  <2> DEFINE d == L - k + 1
             dots == {i \in DOMAIN b : b[i].kind = "."}
  <2>1. m = L /\ ~(j <= L + 1) /\ Len(b) = d + 1 /\ d \in 1 .. Len(b)
        /\ ~(k + d <= L) /\ k + d = L + 1
    BY <1>1, <1>2, <1>12
  <2>2. b[d].kind = "."
    BY <1>1, <2>1
  <2>3. D
    BY <2>1, <2>2 DEF HasDot
  <2>4. dots # {} /\ Min(dots) \in 1 .. Len(b) /\ b[Min(dots)].kind = "."
    BY <1>1, <2>3, FirstDot
  <2>5. ASSUME NEW i \in 1 .. Len(b), b[i].kind = "." PROVE i = d
    <3>1. CASE i < d
      <4>1. k + i <= L
        BY <1>2, <2>1, <3>1
      <4>2. b[i] = WordLine(h[k + i])
        BY <1>1, <4>1
      <4> HIDE DEF b, h
      <4>3. b[i].kind = "word"
        BY <4>2 DEF WordLine
      <4> QED
        BY <2>5, <4>3
    <3>2. CASE i = d + 1
      <4>1. ~(k + i <= L) /\ k + i # L + 1
        BY <1>2, <2>1, <3>2
      <4>2. b[i].kind = "250"
        BY <1>1, <4>1
      <4> QED
        BY <2>5, <4>2
    <3>3. i < d \/ i = d \/ i = d + 1
      <4>1. d \in Nat /\ i <= d + 1 /\ i \in Nat
        BY <1>2, <2>1
      <4> HIDE DEF d
      <4> QED
        BY <4>1
    <3> QED
      BY <3>1, <3>2, <3>3
  <2>6. Min(dots) = d
    BY <2>4, <2>5
  <2>7. Min(dots) - 1 = m - k
    <3>1. d - 1 = m - k
      BY <1>2, <2>1
    <3> HIDE DEF d, m
    <3> QED
      BY <2>6, <3>1
  <2>8. ReadMatchData(e) = MatchNext(x)
    BY <2>4, <2>7 DEF ReadMatchData, Taken
  <2>9. SubSeq(h, 1, m) = h
    BY <1>1, <2>1, SubSeqFull
  <2>10. x.list = HeldBy[q]
    BY <1>3, <1>10, <2>9
  <2> HIDE DEF x, h
  <2> QED
    BY <1>9, <2>1, <2>8, <2>10 DEF h
<1>13. j <= L + 1 \/ j = L + 3
  <2> HIDE DEF L
  <2> QED
    BY <1>2
<1> QED
  BY <1>11, <1>12, <1>13

\* The client that asks the next query, with nothing on its way.
LEMMA AskedNext ==
  ASSUME holds \in [Queries -> Replies], Small,
         NEW c \in Clients, c.list = HeldBy[c.next - 1], c.matches = <<>>,
         c.sent = <<>>, c.buffer = <<>>, NEW rest, rest = <<>>
  PROVE  LET d == MatchNext(c)
         IN  Exact(d, rest) /\ d \in Clients /\ (d.state # "FINISHED" => d.fin = c.fin)
<1> DEFINE d == MatchNext(c)
<1>1. /\ d \in Clients /\ d.buffer = <<>>
      /\ \/ d.state = "FINISHED" /\ d.matches = Distinct(HeldBy[NQueries])
         \/ /\ d.state = "MATCH" /\ d.next - 1 \in Queries /\ d.sent = <<d.next - 1>>
            /\ d.list = HeldBy[d.next - 2] /\ d.matches = <<>> /\ d.fin = c.fin
  BY AskNext DEF Small
<1> HIDE DEF d
<1>2. Exact(d, rest)
  BY <1>1 DEF Exact
<1> QED
  BY <1>1, <1>2 DEF d

\* When the dot of a list has come the next query is asked.
LEMMA AfterBatch ==
  ASSUME TypeOK, Small, NEW q \in Queries, holds[q] # <<>>,
         NEW k \in 0 .. Len(holds[q]), NEW j \in k + 1 .. Len(holds[q]) + 3,
         j # Len(holds[q]) + 2,
         NEW e \in Clients, e.list = HeldBy[q - 1] \o SubSeq(holds[q], 1, k),
         e.buffer = SubSeq(ReplyTo(q), k + 2, j),
         e.state = "MATCH_DATA", e.matches = <<>>, e.sent = <<>>, e.next - 1 = q,
         NEW rest, rest = SubSeq(ReplyTo(q), j + 1, Len(holds[q]) + 3)
  PROVE  LET d == ReadMatchData(e)
         IN  Exact(d, rest) /\ d \in Clients /\ (d.state # "FINISHED" => d.fin = e.fin)
<1> DEFINE d == ReadMatchData(e)
           L == Len(holds[q])
<1>1. PICK x \in Clients :
           /\ x.buffer = <<>> /\ x.sent = e.sent /\ x.impl = e.impl /\ x.state = e.state
           /\ x.next = e.next /\ x.matches = e.matches /\ x.fin = e.fin
           /\ IF j <= L + 1
              THEN d = x /\ x.list = HeldBy[q - 1] \o SubSeq(holds[q], 1, j - 1)
              ELSE d = MatchNext(x) /\ x.list = HeldBy[q]
  BY BatchRead DEF Small
<1>2. holds[q] \in Seq(Words) /\ L \in Nat /\ holds \in [Queries -> Replies]
  BY DictServerAssumption DEF TypeOK
<1>3. q - 1 = e.next - 2 /\ q \in Nat /\ e.next \in Nat
  <2>1. e.next \in 1 .. NQueries + 1 /\ NQueries \in Nat /\ q = e.next - 1
    BY DictServerAssumption DEF Clients
  <2> DEFINE a == e.next
  <2> HIDE DEF a
  <2>2. q - 1 = a - 2 /\ q \in Nat /\ a \in Nat
    BY <2>1, SMTT(30) DEF a
  <2> QED
    BY <2>2 DEF a
<1> HIDE DEF d, L
<1>4. CASE j <= L + 1
  <2>1. j - 1 \in 0 .. L /\ (j - 1) + 2 = j + 1
    BY <1>2, <1>4 DEF L
  <2>2. d = x /\ d.list = HeldBy[d.next - 2] \o SubSeq(holds[d.next - 1], 1, j - 1)
    BY <1>1, <1>3, <1>4
  <2>3. rest = SubSeq(ReplyTo(d.next - 1), (j - 1) + 2, Len(holds[d.next - 1]) + 3)
    BY <1>1, <2>1, <2>2
  <2>4. \E i \in 0 .. Len(holds[d.next - 1]) :
            /\ d.list = HeldBy[d.next - 2] \o SubSeq(holds[d.next - 1], 1, i)
            /\ rest = SubSeq(ReplyTo(d.next - 1), i + 2, Len(holds[d.next - 1]) + 3)
    <3>1. j - 1 \in 0 .. Len(holds[d.next - 1])
      BY <1>1, <2>1, <2>2 DEF L
    <3> QED
      BY <2>2, <2>3, <3>1
  <2>5. /\ d.state = "MATCH_DATA" /\ d.matches = <<>> /\ d.buffer = <<>> /\ d.next - 1 \in Queries
        /\ d.sent = <<>> /\ holds[d.next - 1] # <<>>
    BY <1>1, <2>2
  <2>6. Exact(d, rest)
    BY <2>4, <2>5 DEF Exact
  <2> QED
    BY <1>1, <2>2, <2>6 DEF d
<1>5. CASE ~(j <= L + 1)
  <2>1. d = MatchNext(x) /\ x.list = HeldBy[x.next - 1]
    BY <1>1, <1>5
  <2>2. rest = <<>>
    <3>1. L + 3 < j + 1 /\ j + 1 \in Int /\ L + 3 \in Int
      BY <1>2, <1>5 DEF L
    <3> QED
      BY <3>1, SubSeqEmpty DEF L
  <2>3. x.matches = <<>> /\ x.sent = <<>> /\ x.buffer = <<>>
    BY <1>1
  <2>4. Exact(MatchNext(x), rest) /\ MatchNext(x) \in Clients
    BY <1>2, <2>1, <2>2, <2>3, AskedNext
  <2>5. MatchNext(x).state # "FINISHED" => MatchNext(x).fin = x.fin
    BY <1>2, <2>1, <2>2, <2>3, AskedNext
  <2> QED
    BY <1>1, <2>1, <2>4, <2>5 DEF d
<1> QED
  BY <1>4, <1>5

\* A packet of the rest of a reply.
LEMMA PacketOfRest ==
  ASSUME NEW R \in Seq(Lines), NEW k \in Nat, k + 2 <= Len(R) + 1,
         NEW s, s = SubSeq(R, k + 2, Len(R)), NEW n \in 1 .. Len(s)
  PROVE  /\ k + 1 + n <= Len(R)
         /\ SubSeq(s, 1, n) = SubSeq(R, k + 2, k + 1 + n)
         /\ SubSeq(s, n + 1, Len(s)) = SubSeq(R, k + 1 + n + 1, Len(R))
         /\ s[n] = R[k + 1 + n]
<1> DEFINE N == Len(R)
<1>1. N \in Nat /\ \A i \in 1 .. N : R[i] \in Lines
  BY LenProperties, ElementOfSeq
<1>2. k + 2 \in Int /\ N \in Int /\ \A i \in k + 2 .. N : R[i] \in Lines
  BY <1>1
<1>3. /\ s \in Seq(Lines) /\ Len(s) = IF k + 2 <= N THEN N - (k + 2) + 1 ELSE 0
      /\ \A i \in 1 .. N - (k + 2) + 1 : s[i] = R[k + 2 + i - 1]
  BY <1>2, SubSeqProperties
<1> HIDE DEF N
<1>4. k + 2 <= N /\ Len(s) = N - k - 1 /\ n \in 1 .. N - k - 1
  BY <1>1, <1>3
<1>5. k + 1 + n <= N /\ k + 1 + n \in 1 .. N /\ k + 2 \in 1 .. N
      /\ n \in 1 .. N - (k + 2) + 1 /\ 1 \in 1 .. N - (k + 2) + 1
  BY <1>1, <1>4
<1>6. s[n] = R[k + 1 + n]
  <2>1. s[n] = R[k + 2 + n - 1]
    BY <1>3, <1>5
  <2>2. k + 2 + n - 1 = k + 1 + n
    BY <1>5
  <2> QED
    BY <2>1, <2>2
<1>7. SubSeq(s, 1, n) = SubSeq(R, k + 2, k + 1 + n)
  <2>1. SubSeq(SubSeq(R, k + 2, N), 1, n) = SubSeq(R, k + 2 + 1 - 1, k + 2 + n - 1)
    <3>1. k + 2 \in 1 .. Len(R) /\ N \in 1 .. Len(R)
      BY <1>1, <1>5 DEF N
    <3>2. 1 \in 1 .. N - (k + 2) + 1 /\ n \in 1 .. N - (k + 2) + 1
      BY <1>5
    <3> QED
      BY <3>1, <3>2, SubSeqOfSubSeq
  <2>2. k + 2 + 1 - 1 = k + 2 /\ k + 2 + n - 1 = k + 1 + n
    BY <1>5
  <2> QED
    BY <2>1, <2>2 DEF N
<1>8. SubSeq(s, n + 1, Len(s)) = SubSeq(R, k + 1 + n + 1, N)
  <2>1. CASE n = Len(s)
    <3>1. n + 1 \in Int /\ Len(s) \in Int /\ Len(s) < n + 1
      BY <1>1, <1>4, <2>1
    <3>2. SubSeq(s, n + 1, Len(s)) = <<>>
      BY <3>1, SubSeqEmpty
    <3>3. k + 1 + n + 1 \in Int /\ N \in Int /\ N < k + 1 + n + 1
      BY <1>1, <1>4, <2>1
    <3>4. SubSeq(R, k + 1 + n + 1, N) = <<>>
      BY <3>3, SubSeqEmpty
    <3> QED
      BY <3>2, <3>4
  <2>2. CASE n # Len(s)
    <3>1. k + 2 \in 1 .. Len(R) /\ N \in 1 .. Len(R)
      BY <1>1, <1>5 DEF N
    <3>2. n + 1 \in 1 .. N - (k + 2) + 1 /\ Len(s) \in 1 .. N - (k + 2) + 1
      BY <1>1, <1>4, <2>2
    <3> DEFINE l == Len(s)
    <3>3. l \in 1 .. N - (k + 2) + 1
      BY <3>2
    <3> HIDE DEF l
    <3>4. SubSeq(SubSeq(R, k + 2, N), n + 1, l) = SubSeq(R, k + 2 + (n + 1) - 1, k + 2 + l - 1)
      BY <3>1, <3>2, <3>3, SubSeqOfSubSeq
    <3>5. k + 2 + (n + 1) - 1 = k + 1 + n + 1 /\ k + 2 + l - 1 = N
      <4>1. l = N - k - 1
        BY <1>4 DEF l
      <4>2. k \in Nat /\ N \in Nat /\ n \in Nat
        BY <1>1, <1>4
      <4> QED
        BY <4>1, <4>2
    <3> QED
      BY <3>4, <3>5 DEF l, N
  <2> QED
    BY <2>1, <2>2
<1> QED
  BY <1>5, <1>6, <1>7, <1>8 DEF N

\* The slot of the request on a packet that does not end with the dot.
LEMMA ExactReads ==
  ASSUME TypeOK, Small, NEW c \in Clients, Exact(c, stream),
         c.state \in {"MATCH", "MATCH_DATA", "FINISHED"},
         NEW n \in 1 .. Len(stream), stream[n].kind # ".",
         NEW g \in Clients, g.buffer = c.buffer \o SubSeq(stream, 1, n),
         g.sent = c.sent, g.state = c.state, g.next = c.next,
         g.list = c.list, g.matches = c.matches, g.fin = c.fin,
         NEW rest, rest = SubSeq(stream, n + 1, Len(stream))
  PROVE  LET d == RequestReads(g)
         IN  Exact(d, rest) /\ d \in Clients /\ (d.state # "FINISHED" => d.fin = c.fin)
<1> DEFINE d == RequestReads(g)
           q == c.next - 1
           R == ReplyTo(q)
           h == holds[q]
           p == SubSeq(stream, 1, n)
           Goal == Exact(d, rest) /\ d \in Clients /\ (d.state # "FINISHED" => d.fin = c.fin)
<1>1. /\ stream \in Seq(Lines) /\ Len(stream) \in Nat /\ n \in Nat /\ n >= 1 /\ n <= Len(stream)
      /\ p \in Seq(Lines) /\ holds \in [Queries -> Replies]
  BY PacketFacts, SMTT(30) DEF TypeOK
<1>2. CASE c.state = "FINISHED"
  <2>1. d = g
    BY <1>2 DEF RequestReads
  <2>2. Exact(g, rest)
    BY <1>2 DEF Exact
  <2> QED
    BY <2>1, <2>2
<1>3. CASE c.state # "FINISHED"
  <2>1. c.matches = <<>> /\ c.buffer = <<>> /\ q \in Queries
    BY <1>3 DEF Exact
  <2>2. g.buffer = p
    BY <1>1, <2>1, ConcatEmptySeq
  <2>3. /\ q \in 1 .. NQueries /\ q \in 0 .. NQueries /\ q # 0 /\ c.next - 2 = q - 1
        /\ c.next = q + 1 /\ q \in Nat /\ NQueries \in Nat
    <3> DEFINE a == c.next
    <3>1. a \in Nat /\ NQueries \in Nat /\ a - 1 \in 1 .. NQueries
      BY <2>1, DictServerAssumption DEF Clients, Queries
    <3> HIDE DEF a
    <3> QED
      BY <3>1 DEF a
  <2>4. h \in Seq(Words) /\ Len(h) \in Nat
    BY <1>1, <2>1, DictServerAssumption
  <2>5. R \in Seq(Lines)
    BY <2>3, ReplyFacts
  <2>6. HeldBy[q - 1] \in Seq(Words) /\ HeldBy[q] = HeldBy[q - 1] \o h
    <3>1. q - 1 \in 0 .. NQueries /\ q \in 1 .. NQueries
      BY <2>3
    <3>2. \A m \in 0 .. NQueries : HeldBy[m] \in Seq(Words)
      BY <1>1, HeldByFacts
    <3>3. \A m \in 1 .. NQueries : HeldBy[m] = HeldBy[m - 1] \o holds[m]
      BY <1>1, HeldByFacts
    <3> QED
      BY <3>1, <3>2, <3>3
  <2>7. CASE c.state = "MATCH"
    <3>1. c.list = HeldBy[q - 1] /\ c.sent = <<>> /\ stream = R
      <4>1. stream # <<>>
        BY <1>1, EmptySeq
      <4>2. /\ c.list = HeldBy[c.next - 2]
            /\ (c.sent = <<q>> /\ stream = <<>>) \/ (c.sent = <<>> /\ stream = R)
        BY <2>7 DEF Exact
      <4> QED
        BY <2>3, <4>1, <4>2
    <3>2. CASE h = <<>>
      <4>1. stream = <<Line("552")>>
        BY <2>3, <3>1, <3>2, ReplyFacts
      <4>2. Len(stream) = 1 /\ n = 1 /\ p = stream /\ Head(p).kind = "552"
        <5>1. Len(stream) = 1 /\ Head(stream).kind = "552"
          BY <4>1 DEF Line
        <5>2. n = 1
          BY <1>1, <5>1
        <5>3. SubSeq(stream, 1, Len(stream)) = stream
          BY <1>1, SubSeqFull
        <5> QED
          BY <5>1, <5>2, <5>3
      <4>3. rest = <<>>
        BY <4>2, SubSeqEmpty
      <4> DEFINE r == ReadLine(g)
      <4>4. d = MatchNext(r)
        BY <2>2, <2>7, <4>2 DEF RequestReads
      <4>5. /\ r \in Clients /\ r.sent = g.sent /\ r.next = g.next
            /\ r.list = g.list /\ r.matches = g.matches /\ r.fin = g.fin
        BY ReadLineFacts
      <4>6. r.buffer = <<>>
        <5>1. r.buffer = IF g.buffer = <<>> THEN <<>> ELSE Tail(g.buffer)
          BY ReadLineFacts
        <5>2. Tail(p) = <<>>
          BY <4>1, <4>2
        <5> QED
          BY <2>2, <5>1, <5>2
      <4>7. r.list = HeldBy[r.next - 1]
        <5>1. HeldBy[q] = HeldBy[q - 1]
          BY <2>6, <3>2, ConcatEmptySeq
        <5> QED
          BY <2>3, <3>1, <4>5, <5>1
      <4> HIDE DEF r
      <4>8. r.matches = <<>> /\ r.sent = <<>>
        BY <2>1, <3>1, <4>5
      <4>9. Exact(MatchNext(r), rest) /\ MatchNext(r) \in Clients
        BY <1>1, <4>3, <4>5, <4>6, <4>7, <4>8, AskedNext
      <4>10. MatchNext(r).state # "FINISHED" => MatchNext(r).fin = r.fin
        BY <1>1, <4>3, <4>5, <4>6, <4>7, <4>8, AskedNext
      <4> QED
        BY <4>4, <4>5, <4>9, <4>10
    <3>3. CASE h # <<>>
      <4>1. Len(R) = Len(h) + 3 /\ R[1].kind = "152" /\ R[Len(h) + 2].kind = "."
        BY <2>3, <3>3, ReplyFacts
      <4>2. n \in 1 .. Len(h) + 3 /\ n # Len(h) + 2
        BY <1>1, <3>1, <4>1
      <4>3. Head(p) = R[1] /\ Tail(p) = SubSeq(R, 2, n)
        <5>1. 1 \in 1 .. Len(stream) /\ n \in 1 .. Len(stream)
          BY <1>1
        <5>2. Head(SubSeq(stream, 1, n)) = stream[1] /\ Tail(SubSeq(stream, 1, n)) = SubSeq(stream, 1 + 1, n)
          BY <1>1, <5>1, HeadTailOfSubSeq
        <5> QED
          BY <3>1, <5>2
      <4> DEFINE r == ReadLine(g)
                 e == [r EXCEPT !.state = "MATCH_DATA"]
      <4>4. d = ReadMatchData(e)
        BY <2>2, <2>7, <4>1, <4>3 DEF RequestReads
      <4>5. /\ r \in Clients /\ r.sent = g.sent /\ r.next = g.next
            /\ r.list = g.list /\ r.matches = g.matches /\ r.fin = g.fin
        BY ReadLineFacts
      <4>6. r.buffer = SubSeq(R, 2, n)
        <5>1. r.buffer = IF g.buffer = <<>> THEN <<>> ELSE Tail(g.buffer)
          BY ReadLineFacts
        <5>2. p # <<>>
          BY <1>1, PacketFacts
        <5> QED
          BY <2>2, <4>3, <5>1, <5>2
      <4> HIDE DEF r
      <4>7. /\ e \in Clients /\ e.state = "MATCH_DATA" /\ e.sent = r.sent /\ e.next = r.next
            /\ e.list = r.list /\ e.matches = r.matches /\ e.fin = r.fin /\ e.buffer = r.buffer
        BY <4>5 DEF Clients, States
      <4> HIDE DEF e
      <4>8. 0 \in 0 .. Len(h) /\ n \in 0 + 1 .. Len(h) + 3 /\ 0 + 2 = 2
        BY <2>4, <4>2
      <4>9. e.list = HeldBy[q - 1] \o SubSeq(h, 1, 0)
        <5>1. SubSeq(h, 1, 0) = <<>>
          BY SubSeqEmpty
        <5> QED
          BY <2>6, <3>1, <4>5, <4>7, <5>1, ConcatEmptySeq
      <4>10. e.buffer = SubSeq(R, 0 + 2, n)
        BY <4>6, <4>7, <4>8
      <4>11. rest = SubSeq(R, n + 1, Len(h) + 3)
        BY <3>1, <4>1
      <4>12. e.matches = <<>> /\ e.sent = <<>> /\ e.next - 1 = q
        BY <2>1, <3>1, <4>5, <4>7
      <4>13. /\ Exact(ReadMatchData(e), rest) /\ ReadMatchData(e) \in Clients
             /\ ReadMatchData(e).state # "FINISHED" => ReadMatchData(e).fin = e.fin
        <5> HIDE DEF q
        <5> QED
          BY <2>1, <3>3, <4>2, <4>7, <4>8, <4>9, <4>10, <4>11, <4>12, AfterBatch
      <4> QED
        BY <4>4, <4>5, <4>7, <4>13
    <3> QED
      BY <3>2, <3>3
  <2>8. CASE c.state = "MATCH_DATA"
    <3>1. c.sent = <<>> /\ h # <<>>
      BY <2>8 DEF Exact
    <3>2. PICK k \in 0 .. Len(h) :
            /\ c.list = HeldBy[q - 1] \o SubSeq(h, 1, k)
            /\ stream = SubSeq(R, k + 2, Len(h) + 3)
      BY <2>3, <2>8 DEF Exact
    <3> DEFINE j == k + 1 + n
    <3>3. Len(R) = Len(h) + 3 /\ R[Len(h) + 2].kind = "."
      BY <2>3, <3>1, ReplyFacts
    <3>4. k \in Nat /\ k + 2 <= Len(R) + 1
      BY <2>4, <3>3, SMTT(30)
    <3>5. /\ j <= Len(R) /\ p = SubSeq(R, k + 2, j) /\ rest = SubSeq(R, j + 1, Len(R))
          /\ stream[n] = R[j]
      <4>1. stream = SubSeq(R, k + 2, Len(R))
        BY <3>2, <3>3
      <4> HIDE DEF R, q
      <4>2. k \in Nat /\ k + 2 <= Len(R) + 1 /\ R \in Seq(Lines)
        BY <2>5, <3>4
      <4>3. /\ k + 1 + n <= Len(R)
            /\ SubSeq(stream, 1, n) = SubSeq(R, k + 2, k + 1 + n)
        BY <4>1, <4>2, PacketOfRest
      <4>4. SubSeq(stream, n + 1, Len(stream)) = SubSeq(R, k + 1 + n + 1, Len(R))
        BY <4>1, <4>2, PacketOfRest
      <4>5. stream[n] = R[k + 1 + n]
        BY <4>1, <4>2, PacketOfRest
      <4> QED
        BY <4>3, <4>4, <4>5
    <3>6. j \in k + 1 .. Len(h) + 3 /\ j # Len(h) + 2
      <4>1. R[j].kind # "."
        BY <3>5
      <4>2. j \in Int /\ j >= k + 1
        BY <1>1, <3>4
      <4> HIDE DEF j
      <4>3. j <= Len(h) + 3
        BY <3>3, <3>5
      <4>4. j # Len(h) + 2
        BY <3>3, <4>1
      <4> DEFINE l == Len(h)
      <4>5. l \in Nat /\ k \in Nat
        BY <2>4, <3>4
      <4> HIDE DEF l
      <4>6. j \in k + 1 .. l + 3
        BY <4>2, <4>3, <4>5 DEF l
      <4> QED
        BY <4>4, <4>6 DEF l
    <3> HIDE DEF j
    <3>7. d = ReadMatchData(g)
      BY <2>8 DEF RequestReads
    <3>8. rest = SubSeq(R, j + 1, Len(h) + 3) /\ g.buffer = SubSeq(R, k + 2, j)
      BY <2>2, <3>3, <3>5
    <3>9. g.matches = <<>> /\ g.sent = <<>> /\ g.next - 1 = q /\ g.state = "MATCH_DATA"
          /\ g.list = HeldBy[q - 1] \o SubSeq(h, 1, k)
      BY <2>1, <2>8, <3>1, <3>2
    <3>10. /\ Exact(ReadMatchData(g), rest) /\ ReadMatchData(g) \in Clients
           /\ ReadMatchData(g).state # "FINISHED" => ReadMatchData(g).fin = g.fin
      <4> HIDE DEF q
      <4> QED
        BY <2>1, <3>1, <3>6, <3>8, <3>9, AfterBatch
    <3> QED
      BY <3>7, <3>10
  <2> QED
    BY <1>3, <2>7, <2>8
<1> QED
  BY <1>2, <1>3

\* Whether a client is exact depends on what the server holds, which stays.
LEMMA ExactStays ==
  ASSUME NEW c, NEW rest, UNCHANGED holds, Exact(c, rest), Client' = c, stream' = rest
  PROVE  Exact(Client, stream)'
BY HeldByStays DEF Exact, ReplyTo

\* The client is what it becomes.
LEMMA ClientIs ==
  ASSUME NEW d \in Clients, Becomes(d)
  PROVE  Client' = d
BY DEF Becomes, Client, Clients

\* The server answers a search, which stays exact.
LEMMA ExactAnswer ==
  ASSUME Base, ExactInv, kind = "search", Answer, UNCHANGED <<kind, articleVars>>
  PROVE  ExactInv'
<1>1. UNCHANGED <<holds, server, torn, impl, state, buffer, next, matchesList,
                 matches, isFinished, cancelled, owned, kind, articleVars>>
  BY DEF Answer
<1>2. IsCancelled' = IsCancelled /\ Small' = Small
  BY <1>1, HeldByStays DEF IsCancelled, articleVars, Small
<1>3. SUFFICES ASSUME impl = "FINISHED", ~torn, Small
               PROVE  Exact(Client, stream)' /\ (state' # "FINISHED" /\ isFinished' => IsCancelled')
  BY <1>1, <1>2 DEF ExactInv
<1>4. Exact(Client, stream) /\ (state # "FINISHED" /\ isFinished => IsCancelled)
  BY <1>3 DEF ExactInv
<1>5. /\ Client.sent = sent /\ Client.state = state /\ Client.buffer = buffer
      /\ Client.next = next /\ Client.list = matchesList /\ Client.matches = matches
  BY ClientFacts DEF Base
<1>6. sent # <<>> /\ sent' = Tail(sent) /\ stream' = stream \o ReplyTo(Head(sent))
  BY DEF Answer
<1> DEFINE c == [Client EXCEPT !.sent = Tail(sent)]
           s == stream \o ReplyTo(Head(sent))
<1>7. Client' = c
  <2>1. /\ impl' = impl /\ state' = state /\ buffer' = buffer
        /\ next' = next /\ matchesList' = matchesList /\ matches' = matches
        /\ isFinished' = isFinished
    BY <1>1, <1>6
  <2> DEFINE t == Tail(sent)
  <2> HIDE DEF t
  <2>2. sent' = t
    BY <1>6 DEF t
  <2>3. Client' = [Client EXCEPT !.sent = t]
    BY <2>1, <2>2 DEF Client
  <2> QED
    BY <2>3 DEF t
<1>8. /\ c.sent = Tail(sent) /\ c.state = state /\ c.buffer = buffer
      /\ c.next = next /\ c.list = matchesList /\ c.matches = matches
  BY <1>5 DEF Client
<1>9. Exact(c, s)
  <2>1. CASE state = "MATCH"
    <3>1. sent = <<next - 1>> /\ stream = <<>> /\ next - 1 \in Queries
      BY <1>4, <1>5, <1>6, <2>1 DEF Exact
    <3>2. Head(sent) = next - 1 /\ Tail(sent) = <<>>
      BY <3>1
    <3>3. s = ReplyTo(next - 1)
      <4>1. next - 1 \in 0 .. NQueries
        BY <3>1, DictServerAssumption DEF Queries
      <4>2. ReplyTo(next - 1) \in Seq(Lines)
        BY <4>1, ReplyFacts DEF Base
      <4> QED
        BY <3>1, <3>2, <4>2, ConcatEmptySeq
    <3> HIDE DEF c, s
    <3> QED
      BY <1>4, <1>5, <1>8, <2>1, <3>2, <3>3 DEF Exact
  <2>2. CASE state = "MATCH_DATA"
    BY <1>4, <1>5, <1>6, <2>2 DEF Exact
  <2>3. CASE state \notin {"MATCH", "MATCH_DATA"}
    <3> HIDE DEF c, s
    <3> QED
      BY <1>4, <1>5, <1>8, <2>3 DEF Exact
  <2> QED
    BY <2>1, <2>2, <2>3
<1>10. Exact(Client, stream)'
  <2> HIDE DEF c, s
  <2>1. stream' = s
    BY <1>6 DEF s
  <2> QED
    BY <1>1, <1>7, <1>9, <2>1, ExactStays
<1> QED
  BY <1>1, <1>2, <1>4, <1>10

\* The connection or the owner goes away, and a search stays exact.
LEMMA ExactSmallSteps ==
  ASSUME Base, ExactInv, kind = "search", Leave \/ ErrorOccurred \/ Cancel \/ Drop,
         UNCHANGED <<kind, articleVars>>
  PROVE  ExactInv'
<1>1. UNCHANGED <<holds, stream, torn, sent, impl, state, buffer, next, matchesList,
                 matches, kind, articleVars>>
  BY DEF Leave, ErrorOccurred, Cancel, Drop, clientVars
<1>2. (isFinished' = isFinished /\ (IsCancelled => IsCancelled')) \/ IsCancelled'
  BY DEF Leave, ErrorOccurred, Cancel, Drop, clientVars, IsCancelled, articleVars
<1>3. Small' = Small
  BY <1>1, HeldByStays DEF Small
<1>4. SUFFICES ASSUME impl = "FINISHED", ~torn, Small
               PROVE  Exact(Client, stream)' /\ (state' # "FINISHED" /\ isFinished' => IsCancelled')
  BY <1>1, <1>3 DEF ExactInv
<1>5. Exact(Client, stream) /\ (state # "FINISHED" /\ isFinished => IsCancelled)
  BY <1>4 DEF ExactInv
<1> DEFINE c == [Client EXCEPT !.fin = isFinished']
<1>6. Client' = c
  BY <1>1 DEF Client
<1>7. /\ c.sent = Client.sent /\ c.state = Client.state /\ c.buffer = Client.buffer
      /\ c.next = Client.next /\ c.list = Client.list /\ c.matches = Client.matches
  BY DEF Client
<1> HIDE DEF c
<1>8. Exact(c, stream)
  BY <1>5, <1>7 DEF Exact
<1>9. Exact(Client, stream)'
  <2> DEFINE s == stream
  <2>1. stream' = s /\ Exact(c, s)
    BY <1>1, <1>8
  <2> HIDE DEF s
  <2> QED
    BY <1>1, <1>6, <2>1, ExactStays DEF c
<1> QED
  BY <1>1, <1>2, <1>5, <1>9

\* A packet for a request whose connection stands, and one with which it does.
LEMMA ExactPacket ==
  ASSUME Base, ExactInv, kind = "search", ReadyRead, UNCHANGED <<kind, articleVars>>
  PROVE  ExactInv'
<1>1. TypeOK /\ Handshake /\ SearchInv
  BY DEF Base
<1>2. stream \in Seq(Lines) /\ buffer \in Seq(Lines) /\ stream # <<>> /\ holds \in [Queries -> Replies]
  BY <1>1 DEF TypeOK, ReadyRead
<1>3. UNCHANGED <<holds, server, cancelled, owned, kind, articleVars>>
  BY DEF ReadyRead
<1>4. Small' = Small /\ IsCancelled' = IsCancelled
  BY <1>3, HeldByStays DEF Small, IsCancelled, articleVars
<1>5. SUFFICES ASSUME impl' = "FINISHED", ~torn', Small
               PROVE  Exact(Client, stream)' /\ (state' # "FINISHED" /\ isFinished' => IsCancelled')
  BY <1>4 DEF ExactInv
<1>6. PICK n \in 1 .. Len(stream) :
        /\ stream' = SubSeq(stream, n + 1, Len(stream))
        /\ torn' = (torn \/ stream[n].kind = ".")
        /\ LET g == [Client EXCEPT !.buffer = @ \o SubSeq(stream, 1, n)]
               c == IF impl = "FINISHED" THEN RequestReads(g) ELSE ImplReads(g)
           IN  Becomes(IF CallbackDue(c) THEN Callback(c) ELSE c)
  BY DEF ReadyRead
<1> DEFINE p == SubSeq(stream, 1, n)
           g == [Client EXCEPT !.buffer = @ \o p]
           rest == SubSeq(stream, n + 1, Len(stream))
<1>7. /\ Client \in Clients /\ Client.sent = sent /\ Client.impl = impl /\ Client.state = state
      /\ Client.buffer = buffer /\ Client.next = next /\ Client.list = matchesList
      /\ Client.matches = matches /\ Client.fin = isFinished
  BY <1>1, ClientFacts
<1>8. p \in Seq(Lines)
  BY <1>2, PacketFacts
<1>9. /\ g \in Clients /\ g.buffer = buffer \o p /\ g.sent = Client.sent /\ g.impl = Client.impl
      /\ g.state = Client.state /\ g.next = Client.next /\ g.list = Client.list
      /\ g.matches = Client.matches /\ g.fin = Client.fin
  <2> HIDE DEF p
  <2> QED
    BY <1>7, <1>8, GotFacts, ZenonT(60)
<1>10. CASE impl = "FINISHED"
  <2>1. Becomes(RequestReads(g))
    BY <1>6, <1>10 DEF CallbackDue
  <2>2. ~torn /\ stream[n].kind # "."
    BY <1>5, <1>6, <1>1 DEF TypeOK
  <2>3. Exact(Client, stream) /\ (state # "FINISHED" /\ isFinished => IsCancelled)
    BY <1>5, <1>10, <2>2 DEF ExactInv
  <2>4. Client.state \in {"MATCH", "MATCH_DATA", "FINISHED"}
    BY <1>1, <1>7, <1>10 DEF SearchInv
  <2> DEFINE d == RequestReads(g)
             r == rest
  <2>5. g.buffer = Client.buffer \o SubSeq(stream, 1, n)
    BY <1>7, <1>9
  <2> HIDE DEF g
  <2>6. Exact(d, r) /\ d \in Clients /\ (d.state # "FINISHED" => d.fin = Client.fin)
    BY <1>1, <1>5, <1>7, <1>9, <2>2, <2>3, <2>4, <2>5, ExactReads
  <2> HIDE DEF d, r
  <2>7. Client' = d
    BY <2>1, <2>6, ClientIs DEF d
  <2>8. stream' = r
    BY <1>6 DEF r
  <2>9. Exact(Client, stream)'
    BY <1>3, <2>6, <2>7, <2>8, ExactStays
  <2>10. state' = d.state /\ isFinished' = d.fin
    BY <2>1 DEF d, Becomes
  <2>11. Client.fin = isFinished /\ Client.state = state
    BY <1>7
  <2>12. state' # "FINISHED" /\ isFinished' => IsCancelled'
    <3> HAVE state' # "FINISHED" /\ isFinished'
    <3>1. isFinished
      BY <2>6, <2>10, <2>11
    <3>2. CASE state # "FINISHED"
      BY <1>4, <2>3, <3>1, <3>2
    <3>3. CASE state = "FINISHED"
      <4>1. g.state = "FINISHED"
        BY <1>9, <2>11, <3>3
      <4>2. d = g
        BY <4>1 DEF d, RequestReads
      <4> QED
        BY <2>10, <4>1, <4>2
    <3> QED
      BY <3>2, <3>3
  <2> QED
    BY <2>9, <2>12
<1>11. CASE impl # "FINISHED"
  <2> DEFINE c == ImplReads(g)
  <2>1. /\ next = 1 /\ matchesList = <<>> /\ matches = <<>> /\ sent = <<>> /\ buffer = <<>>
        /\ Len(stream) = 1 /\ buffer \o p = stream
        /\ rest = <<>>
    BY <1>1, <1>2, <1>11, HandshakeRead
  <2> HIDE DEF g
  <2>2. /\ c \in Clients /\ c.state = g.state /\ c.next = g.next
        /\ c.list = g.list /\ c.matches = g.matches /\ c.fin = g.fin
        /\ c.impl = "FINISHED" => c.sent = g.sent
    <3>1. /\ c \in Clients /\ c.state = g.state /\ c.next = g.next
          /\ c.list = g.list /\ c.matches = g.matches /\ c.fin = g.fin
      BY <1>9, ImplReadsFacts
    <3>2. g.impl # "FINISHED" /\ c.impl = "FINISHED" => c.sent = g.sent
      BY <1>9, ImplReadsFacts
    <3>3. g.impl # "FINISHED"
      BY <1>7, <1>9, <1>11
    <3> QED
      BY <3>1, <3>2, <3>3
  <2>3. c.buffer = <<>>
    <3>1. c.buffer = IF g.impl = "FINISHED" \/ g.buffer = <<>> THEN g.buffer ELSE Tail(g.buffer)
      BY <1>9, ImplReadsFacts
    <3>2. Tail(stream) \in Seq(Lines) /\ Len(Tail(stream)) = 0
      BY <1>2, <2>1, HeadTailProperties
    <3>3. Tail(stream) = <<>>
      BY <3>2, EmptySeq
    <3> QED
      BY <1>2, <1>7, <1>9, <1>11, <2>1, <3>1, <3>3
  <2>4. LET k == IF impl = "FINISHED" THEN RequestReads(g) ELSE ImplReads(g)
        IN  Becomes(IF CallbackDue(k) THEN Callback(k) ELSE k)
    BY <1>6 DEF g
  <2> HIDE DEF c
  <2>5. Becomes(IF CallbackDue(c) THEN Callback(c) ELSE c)
    BY <1>11, <2>4 DEF c
  <2>6. c.impl = "FINISHED"
    <3>1. CASE c.impl # "FINISHED"
      BY <1>5, <2>5, <3>1 DEF CallbackDue, Becomes
    <3> QED
      BY <3>1
  <2> DEFINE d == MatchNext(c)
             r == rest
  <2>7. Becomes(d)
    BY <1>11, <2>5, <2>6 DEF CallbackDue, Callback
  <2>8. c.list = HeldBy[c.next - 1] /\ c.matches = <<>> /\ c.sent = <<>>
    <3>1. HeldBy[0] = <<>>
      BY <1>2, HeldByFacts
    <3>2. HeldBy[0] = <<>> /\ 1 - 1 = 0
      BY <3>1
    <3> QED
      BY <1>7, <1>9, <2>1, <2>2, <2>6, <3>2
  <2>9. r = <<>>
    BY <2>1
  <2> HIDE DEF r
  <2>10. Exact(d, r) /\ d \in Clients /\ (d.state # "FINISHED" => d.fin = c.fin)
    BY <1>2, <1>5, <2>2, <2>3, <2>8, <2>9, AskedNext
  <2> HIDE DEF d
  <2>11. Client' = d
    BY <2>7, <2>10, ClientIs
  <2>12. stream' = r
    BY <1>6 DEF r
  <2>13. Exact(Client, stream)'
    BY <1>3, <2>10, <2>11, <2>12, ExactStays
  <2>14. state' = d.state /\ isFinished' = d.fin
    BY <2>7 DEF Becomes
  <2>15. isFinished => IsCancelled
    BY <1>1, <1>11 DEF Handshake
  <2> QED
    BY <1>4, <1>7, <1>9, <2>2, <2>10, <2>13, <2>14, <2>15
<1> QED
  BY <1>10, <1>11

\* The elements of two lists one behind the other are those of both.
LEMMA ToSetCat ==
  ASSUME NEW s \in Seq(Words), NEW t \in Seq(Words)
  PROVE  ToSet(s \o t) = ToSet(s) \cup ToSet(t)
<1> DEFINE u == s \o t
           m == Len(s)
           k == Len(t)
<1>1. /\ u \in Seq(Words) /\ Len(u) = m + k
      /\ \A i \in 1 .. m + k : u[i] = IF i <= m THEN s[i] ELSE t[i - m]
  BY ConcatProperties
<1>2. m \in Nat /\ k \in Nat /\ DOMAIN u = 1 .. m + k /\ DOMAIN s = 1 .. m /\ DOMAIN t = 1 .. k
  BY <1>1, LenProperties
<1>3. /\ ToSet(u) = {u[i] : i \in 1 .. m + k} /\ ToSet(s) = {s[i] : i \in 1 .. m}
      /\ ToSet(t) = {t[i] : i \in 1 .. k}
  BY <1>2 DEF ToSet
<1> HIDE DEF u, m, k
<1>4. ASSUME NEW i \in 1 .. m + k PROVE u[i] \in {s[j] : j \in 1 .. m} \cup {t[j] : j \in 1 .. k}
  <2>1. CASE i <= m
    <3>1. i \in 1 .. m /\ u[i] = s[i]
      BY <1>1, <1>2, <2>1
    <3> QED
      BY <3>1
  <2>2. CASE ~(i <= m)
    <3>1. i - m \in 1 .. k /\ u[i] = t[i - m]
      BY <1>1, <1>2, <2>2
    <3> QED
      BY <3>1
  <2> QED
    BY <2>1, <2>2
<1>5. ASSUME NEW j \in 1 .. m PROVE s[j] \in {u[i] : i \in 1 .. m + k}
  <2>1. j \in 1 .. m + k /\ u[j] = s[j]
    BY <1>1, <1>2
  <2> QED
    BY <2>1
<1>6. ASSUME NEW j \in 1 .. k PROVE t[j] \in {u[i] : i \in 1 .. m + k}
  <2>1. m + j \in 1 .. m + k /\ ~(m + j <= m) /\ (m + j) - m = j
    BY <1>2
  <2>2. u[m + j] = t[j]
    BY <1>1, <2>1
  <2> QED
    BY <2>1, <2>2
<1>7. ToSet(u) = ToSet(s) \cup ToSet(t)
  BY <1>3, <1>4, <1>5, <1>6
<1> QED
  BY <1>7 DEF u

\* The words of all queries are those the server holds.
LEMMA HeldIs ==
  ASSUME holds \in [Queries -> Replies]
  PROVE  ToSet(HeldBy[NQueries]) = Held
<1> DEFINE Upto(n) == UNION {ToSet(holds[q]) : q \in 1 .. n}
           Good == {n \in 0 .. NQueries : ToSet(HeldBy[n]) = Upto(n)}
<1>1. NQueries \in Nat
  BY DictServerAssumption
<1>2. 0 \in Good
  <2>1. HeldBy[0] = <<>>
    BY HeldByFacts
  <2>2. ToSet(<<>>) = {}
    BY DEF ToSet
  <2>3. Upto(0) = {} /\ 0 \in 0 .. NQueries
    BY <1>1
  <2> QED
    BY <2>1, <2>2, <2>3
<1>3. ASSUME NEW n \in 1 .. NQueries, n - 1 \in Good
      PROVE  n \in Good
  <2>1. n - 1 \in 0 .. NQueries /\ n \in 0 .. NQueries /\ n \in Nat
    BY <1>1
  <2>2. HeldBy[n] = HeldBy[n - 1] \o holds[n]
    BY HeldByFacts
  <2>3. HeldBy[n - 1] \in Seq(Words)
    BY <2>1, HeldByFacts
  <2>4. holds[n] \in Seq(Words)
    BY DictServerAssumption DEF Queries
  <2>5. ToSet(HeldBy[n]) = ToSet(HeldBy[n - 1]) \cup ToSet(holds[n])
    BY <2>2, <2>3, <2>4, ToSetCat
  <2>6. ToSet(HeldBy[n - 1]) = Upto(n - 1)
    BY <1>3
  <2>7. 1 .. n = (1 .. n - 1) \cup {n}
    BY <2>1
  <2>8. Upto(n) = Upto(n - 1) \cup ToSet(holds[n])
    BY <2>7
  <2>9. ToSet(HeldBy[n]) = Upto(n)
    BY <2>5, <2>6, <2>8
  <2> QED
    BY <2>1, <2>9
<1> HIDE DEF Good
<1>4. \A n \in 0 .. NQueries : n \in Good
  BY <1>1, <1>2, <1>3, AllUpTo
<1>5. NQueries \in Good
  BY <1>1, <1>4
<1> QED
  BY <1>5 DEF Good, Held, Queries

\* A search that is exact and has ended gives what the server holds.
LEMMA SearchIsComplete ==
  ASSUME Base, ExactInv
  PROVE  SearchComplete
<1> SUFFICES ASSUME kind = "search", isFinished, ~cancelled, server = "up", ~torn,
                    Len(HeldBy[NQueries]) < MaxMatches
             PROVE  ToSet(matches) = Held /\ Len(matches) = Cardinality(Held)
  BY DEF SearchComplete, AllMatched
<1>1. TypeOK /\ Handshake /\ SearchInv
  BY DEF Base
<1>2. ~IsCancelled
  BY <1>1 DEF SearchInv, IsCancelled
<1>3. impl = "FINISHED"
  BY <1>1, <1>2 DEF Handshake
<1>4. Exact(Client, stream) /\ state = "FINISHED"
  BY <1>2, <1>3 DEF ExactInv, Small
<1>5. matches = Distinct(HeldBy[NQueries])
  <2>1. Client.state = state /\ Client.matches = matches
    BY <1>1, ClientFacts
  <2> QED
    BY <1>4, <2>1 DEF Exact
<1>6. holds \in [Queries -> Replies] /\ NQueries \in 0 .. NQueries
  BY <1>1, DictServerAssumption DEF TypeOK
<1>7. HeldBy[NQueries] \in Seq(Words)
  BY <1>6, HeldByFacts
<1>8. ToSet(HeldBy[NQueries]) = Held
  BY <1>6, HeldIs
<1>9. ToSet(matches) = ToSet(HeldBy[NQueries])
  BY <1>5, <1>7, DistinctFacts
<1>10. Len(matches) = Cardinality(ToSet(HeldBy[NQueries]))
  BY <1>5, <1>7, DistinctFacts
<1> QED
  BY <1>8, <1>9, <1>10

-----------------------------------------------------------------------------
(* The operations of the article request. *)

\* The states of the client of an article.
Articles == [sent : Seq(0 .. NQueries), impl : Impls,
             state : {"START", "DEFINE", "DEFINE_DATA"}, buffer : Seq(Lines),
             next : 1 .. NQueries + 1, list : Seq(Words), matches : Seq(Words),
             fin : BOOLEAN, text : Seq(Lines), shown : Seq(Seq(Words))]

\* What is gathered and shown of articles, and where the request is.
SameArticle(c, d) ==
  d.state = c.state /\ d.impl = c.impl /\ d.text = c.text /\ d.shown = c.shown

\* The client of the state is one.
LEMMA ArticleFacts ==
  ASSUME TypeOK, state \in {"START", "DEFINE", "DEFINE_DATA"}
  PROVE  /\ ArticleClient \in Articles
         /\ ArticleClient.sent = sent /\ ArticleClient.impl = impl
         /\ ArticleClient.state = state /\ ArticleClient.buffer = buffer
         /\ ArticleClient.next = next /\ ArticleClient.list = matchesList
         /\ ArticleClient.matches = matches /\ ArticleClient.fin = isFinished
         /\ ArticleClient.text = articleText /\ ArticleClient.shown = shown
BY DEF TypeOK, ArticleClient, Articles, Impls

\* What readyRead() adds to the buffer of an article request.
LEMMA ArticleGot ==
  ASSUME NEW c \in Articles, NEW p \in Seq(Lines)
  PROVE  LET d == [c EXCEPT !.buffer = @ \o p]
         IN  /\ d \in Articles /\ d.buffer = c.buffer \o p /\ SameArticle(c, d)
             /\ d.sent = c.sent /\ d.next = c.next /\ d.fin = c.fin
             /\ d.list = c.list /\ d.matches = c.matches
<1> DEFINE b == c.buffer \o p
<1>1. b \in Seq(Lines)
  BY DEF Articles
<1> HIDE DEF b
<1>2. LET d == [c EXCEPT !.buffer = b]
      IN  /\ d \in Articles /\ d.buffer = b /\ SameArticle(c, d)
          /\ d.sent = c.sent /\ d.next = c.next /\ d.fin = c.fin
          /\ d.list = c.list /\ d.matches = c.matches
  BY <1>1 DEF Articles, SameArticle
<1> QED
  BY <1>2 DEF b

\* What is left of the buffer of an article request when a line was read.
LEMMA ArticleLine ==
  ASSUME NEW c \in Articles
  PROVE  LET d == ReadLine(c)
         IN  /\ d \in Articles /\ SameArticle(c, d)
             /\ d.buffer = IF c.buffer = <<>> THEN <<>> ELSE Tail(c.buffer)
             /\ d.sent = c.sent /\ d.next = c.next /\ d.fin = c.fin
             /\ d.list = c.list /\ d.matches = c.matches
<1> DEFINE b == IF c.buffer = <<>> THEN c.buffer ELSE Tail(c.buffer)
<1>1. c.buffer \in Seq(Lines)
  BY DEF Articles
<1>2. b \in Seq(Lines)
  BY <1>1
<1> HIDE DEF b
<1>3. LET d == [c EXCEPT !.buffer = b]
      IN  /\ d \in Articles /\ d.buffer = b /\ SameArticle(c, d)
          /\ d.sent = c.sent /\ d.next = c.next /\ d.fin = c.fin
          /\ d.list = c.list /\ d.matches = c.matches
  BY <1>2 DEF Articles, SameArticle
<1>4. ReadLine(c) = [c EXCEPT !.buffer = b]
  BY DEF ReadLine, b
<1> QED
  BY <1>3, <1>4 DEF b

\* defineNext() asks the next database, or finishes.
LEMMA DefineNextFacts ==
  ASSUME NEW c \in Articles
  PROVE  LET d == DefineNext(c)
         IN  /\ d \in Articles /\ SameArticle(c, d) /\ d.buffer = c.buffer
             /\ d.list = c.list /\ d.matches = c.matches
             /\ IF c.next > NQueries
                THEN d.fin = TRUE /\ d.sent = c.sent /\ d.next = c.next
                ELSE /\ d.fin = c.fin /\ d.sent = Append(c.sent, c.next)
                     /\ d.next = c.next + 1
<1> DEFINE d == DefineNext(c)
<1>1. CASE c.next > NQueries
  <2>1. d = [c EXCEPT !.fin = TRUE]
    BY <1>1 DEF DefineNext, NoMoreQueries
  <2> HIDE DEF d
  <2>2. /\ d \in Articles /\ SameArticle(c, d) /\ d.buffer = c.buffer
        /\ d.list = c.list /\ d.matches = c.matches
        /\ d.fin = TRUE /\ d.sent = c.sent /\ d.next = c.next
    BY <2>1 DEF Articles, SameArticle
  <2> QED
    BY <1>1, <2>2 DEF d
<1>2. CASE ~(c.next > NQueries)
  <2> DEFINE s == Append(c.sent, c.next)
             n == c.next + 1
  <2>1. s \in Seq(0 .. NQueries) /\ n \in 1 .. NQueries + 1
    <3>1. c.next \in 1 .. NQueries + 1 /\ NQueries \in Nat /\ c.sent \in Seq(0 .. NQueries)
      BY DictServerAssumption DEF Articles
    <3>2. c.next \in 0 .. NQueries /\ n \in 1 .. NQueries + 1
      BY <1>2, <3>1
    <3> QED
      BY <3>1, <3>2, AppendProperties
  <2>2. d = [c EXCEPT !.sent = s, !.next = n]
    BY <1>2 DEF DefineNext, NoMoreQueries
  <2> HIDE DEF d, s, n
  <2>3. /\ d \in Articles /\ SameArticle(c, d) /\ d.buffer = c.buffer
        /\ d.list = c.list /\ d.matches = c.matches
        /\ d.fin = c.fin /\ d.sent = s /\ d.next = n
    BY <2>1, <2>2 DEF Articles, SameArticle
  <2> QED
    BY <1>2, <2>3 DEF d, s, n
<1> QED
  BY <1>1, <1>2

\* finishedArticle() shows the text if the request is not cancelled.
LEMMA FinishedArticleFacts ==
  ASSUME NEW c \in Articles
  PROVE  LET d == FinishedArticle(c)
         IN  /\ d \in Articles /\ d.state = c.state /\ d.impl = c.impl
             /\ d.text = c.text /\ d.buffer = c.buffer
             /\ d.list = c.list /\ d.matches = c.matches
             /\ IF IsCancelled THEN d.shown = c.shown
                ELSE d.shown = Append(c.shown, TextOf(c.text))
<1> DEFINE d == FinishedArticle(c)
<1>1. CASE IsCancelled
  <2>1. d = [c EXCEPT !.fin = TRUE]
    BY <1>1 DEF FinishedArticle
  <2> HIDE DEF d
  <2>2. /\ d \in Articles /\ d.state = c.state /\ d.impl = c.impl
        /\ d.text = c.text /\ d.buffer = c.buffer
        /\ d.list = c.list /\ d.matches = c.matches /\ d.shown = c.shown
    BY <2>1 DEF Articles
  <2> QED
    BY <1>1, <2>2 DEF d
<1>2. CASE ~IsCancelled
  <2> DEFINE s == Append(c.shown, TextOf(c.text))
             e == [c EXCEPT !.shown = s]
  <2>1. s \in Seq(Seq(Words))
    <3>1. c.shown \in Seq(Seq(Words)) /\ c.text \in Seq(Lines)
      BY DEF Articles
    <3>2. TextOf(c.text) \in Seq(Words)
      <4>1. PICK f \in [0 .. Len(c.text) -> Seq(Words)] : TextOf(c.text) = f[Len(c.text)]
        BY <3>1, TextLoop
      <4>2. Len(c.text) \in 0 .. Len(c.text)
        BY <3>1
      <4> QED
        BY <4>1, <4>2
    <3> QED
      BY <3>1, <3>2, AppendProperties
  <2>2. d = DefineNext(e)
    BY <1>2 DEF FinishedArticle
  <2> HIDE DEF d, s
  <2>3. /\ e \in Articles /\ e.state = c.state /\ e.impl = c.impl
        /\ e.text = c.text /\ e.buffer = c.buffer
        /\ e.list = c.list /\ e.matches = c.matches /\ e.shown = s
    BY <2>1 DEF Articles
  <2> HIDE DEF e
  <2>4. /\ DefineNext(e) \in Articles /\ SameArticle(e, DefineNext(e)) /\ DefineNext(e).buffer = e.buffer
        /\ DefineNext(e).list = e.list /\ DefineNext(e).matches = e.matches
    BY <2>3, DefineNextFacts
  <2> QED
    BY <1>2, <2>2, <2>3, <2>4 DEF SameArticle, d, s
<1> QED
  BY <1>1, <1>2

\* What readData() appends to the text.
Added(line, b) == (IF line.kind = "151" THEN <<>> ELSE <<line>>) \o b

\* One line is silent if it is neither a word nor a dot.
LEMMA OneLine ==
  ASSUME NEW line \in Lines, line.kind \notin {"word", "."}
  PROVE  /\ <<line>> \in Seq(Lines) /\ Len(<<line>>) = 1
         /\ TextOf(<<line>>) = <<>> /\ ~HasDot(<<line>>, Len(<<line>>))
<1> DEFINE s == <<line>>
<1>1. s \in Seq(Lines) /\ Len(s) = 1 /\ s[1] = line
  OBVIOUS
<1> HIDE DEF s
<1>2. \A i \in 1 .. Len(s) : s[i] = line
  <2>1. \A i \in 1 .. 1 : i = 1
    OBVIOUS
  <2> QED
    BY <1>1, <2>1
<1>3. TextOf(s) = <<>>
  BY <1>1, <1>2, TextOfSilent
<1>4. ~HasDot(s, Len(s))
  BY <1>2 DEF HasDot
<1> QED
  BY <1>1, <1>3, <1>4 DEF s

\* A text is a list of words.
LEMMA TextType ==
  ASSUME NEW s \in Seq(Lines)
  PROVE  TextOf(s) \in Seq(Words)
<1>1. PICK f \in [0 .. Len(s) -> Seq(Words)] : TextOf(s) = f[Len(s)]
  BY TextLoop
<1>2. Len(s) \in 0 .. Len(s)
  OBVIOUS
<1> QED
  BY <1>1, <1>2

\* What is appended to the text is the lines that came, but for a head.
LEMMA AddedFacts ==
  ASSUME NEW p \in Seq(Lines), p # <<>>
  PROVE  LET x == Added(p[1], Tail(p))
         IN  /\ p[1] \in Lines /\ Tail(p) \in Seq(Lines) /\ x \in Seq(Lines)
             /\ TextOf(x) = TextOf(p) /\ (HasDot(x, Len(x)) <=> HasDot(p, Len(p)))
<1> DEFINE b == Tail(p)
           l == p[1]
           x == Added(l, b)
<1>1. /\ l \in Lines /\ b \in Seq(Lines) /\ <<l>> \in Seq(Lines) /\ p = <<l>> \o b
  <2>1. <<>> \in Seq(Lines)
    BY EmptySeq
  <2> QED
    BY <2>1, HeadAndTail
<1> HIDE DEF b, l
<1>2. CASE l.kind = "151"
  <2>1. x = b
    BY <1>1, <1>2, ConcatEmptySeq DEF Added
  <2>2. TextOf(<<l>>) = <<>> /\ ~HasDot(<<l>>, Len(<<l>>))
    BY <1>1, <1>2, OneLine
  <2> DEFINE o == <<l>>
  <2>3. o \in Seq(Lines) /\ p = o \o b /\ TextOf(o) = <<>> /\ ~HasDot(o, Len(o))
    BY <1>1, <2>2
  <2> HIDE DEF o
  <2>4. TextOf(o \o b) = IF HasDot(o, Len(o)) THEN TextOf(o) ELSE TextOf(o) \o TextOf(b)
    BY <1>1, <2>3, TextOfCat
  <2>5. HasDot(o \o b, Len(o \o b)) <=> HasDot(o, Len(o)) \/ HasDot(b, Len(b))
    BY <1>1, <2>3, DotOfCat
  <2>6. TextOf(p) = TextOf(b)
    BY <1>1, <2>3, <2>4, TextType, ConcatEmptySeq
  <2>7. HasDot(p, Len(p)) <=> HasDot(b, Len(b))
    BY <2>3, <2>5
  <2> QED
    BY <1>1, <2>1, <2>6, <2>7 DEF b, l
<1>3. CASE l.kind # "151"
  <2>1. x = p
    BY <1>1, <1>3 DEF Added
  <2> QED
    BY <1>1, <2>1 DEF b, l
<1> QED
  BY <1>2, <1>3

\* How a text t goes on with x, of the lines p \o r.
Gathered(t, x, p, r) ==
  IF HasDot(p, Len(p)) THEN TextOf(t \o x) = TextOf(t) \o TextOf(p \o r)
  ELSE TextOf(t \o x) \o TextOf(r) = TextOf(t) \o TextOf(p \o r)

\* A text without a dot that is gathered from the lines p \o r.
LEMMA Gather ==
  ASSUME NEW t \in Seq(Lines), ~HasDot(t, Len(t)),
         NEW p \in Seq(Lines), NEW r \in Seq(Lines),
         NEW x \in Seq(Lines), TextOf(x) = TextOf(p), HasDot(x, Len(x)) <=> HasDot(p, Len(p))
  PROVE  /\ t \o x \in Seq(Lines)
         /\ HasDot(t \o x, Len(t \o x)) <=> HasDot(p, Len(p))
         /\ Gathered(t, x, p, r)
<1>1. t \o x \in Seq(Lines) /\ TextOf(t) \in Seq(Words) /\ TextOf(p) \in Seq(Words) /\ TextOf(r) \in Seq(Words)
  BY TextType, ConcatProperties
<1>2. HasDot(t \o x, Len(t \o x)) <=> HasDot(t, Len(t)) \/ HasDot(x, Len(x))
  BY DotOfCat
<1>3. TextOf(t \o x) = TextOf(t) \o TextOf(p)
  BY TextOfCat
<1>4. TextOf(p \o r) = IF HasDot(p, Len(p)) THEN TextOf(p) ELSE TextOf(p) \o TextOf(r)
  BY TextOfCat
<1>5. (TextOf(t) \o TextOf(p)) \o TextOf(r) = TextOf(t) \o (TextOf(p) \o TextOf(r))
  BY <1>1, WordsCat
<1> QED
  BY <1>1, <1>2, <1>3, <1>4, <1>5 DEF Gathered

\* What is behind the first lines of a definition, and what of it is left.
LEMMA BodyFacts ==
  ASSUME NEW p \in Seq(Lines), NEW r \in Seq(Lines), Body(p \o r)
  PROVE  /\ HasDot(p \o r, Len(p \o r))
         /\ ~HasDot(p, Len(p)) => Body(r)
         /\ p # <<>> => p[1].kind \in {"151", "word", "."}
<1> DEFINE s == p \o r
<1>1. /\ s \in Seq(Lines) /\ Len(s) = Len(p) + Len(r)
      /\ \A i \in 1 .. Len(p) + Len(r) : s[i] = IF i <= Len(p) THEN p[i] ELSE r[i - Len(p)]
  BY ConcatProperties
<1>2. Len(p) \in Nat /\ Len(r) \in Nat
  BY LenProperties
<1>3. PICK k \in 1 .. Len(s) : s[k].kind = "." /\ \A i \in 1 .. k - 1 : s[i].kind \in {"151", "word"}
  BY DEF Body
<1> DEFINE m == Len(p)
           l == Len(r)
<1>4. Len(s) = m + l /\ m \in Nat /\ l \in Nat /\ k \in 1 .. m + l
      /\ \A i \in 1 .. m + l : s[i] = IF i <= m THEN p[i] ELSE r[i - m]
  BY <1>1, <1>2, <1>3
<1>5. HasDot(s, Len(s))
  BY <1>3 DEF HasDot
<1>6. ASSUME ~HasDot(p, m) PROVE Body(r)
  <2> HIDE DEF s, m, l
  <2>1. ~(k <= m)
    <3>1. ASSUME k <= m PROVE FALSE
      <4>1. k \in 1 .. m /\ s[k] = p[k]
        BY <1>4, <3>1
      <4> QED
        BY <1>3, <1>6, <4>1 DEF HasDot
    <3> QED
      BY <3>1
  <2>2. k - m \in 1 .. l /\ s[k] = r[k - m]
    BY <1>4, <2>1
  <2>3. ASSUME NEW i \in 1 .. (k - m) - 1 PROVE r[i].kind \in {"151", "word"}
    <3>1. i + m \in 1 .. k - 1 /\ i + m \in 1 .. m + l /\ ~(i + m <= m) /\ (i + m) - m = i
      BY <1>4, <2>2
    <3>2. s[i + m] = r[i]
      BY <1>4, <3>1
    <3> QED
      BY <1>3, <3>1, <3>2
  <2>4. r[k - m].kind = "."
    BY <1>3, <2>2
  <2> QED
    BY <2>2, <2>3, <2>4 DEF Body, l
<1>7. ASSUME p # <<>> PROVE p[1].kind \in {"151", "word", "."}
  <2>1. m >= 1
    BY <1>7, EmptySeq
  <2> HIDE DEF s, m, l
  <2>2. s[1] = p[1]
    BY <1>4, <2>1
  <2>3. CASE k = 1
    BY <1>3, <2>2, <2>3
  <2>4. CASE k # 1
    <3>1. 1 \in 1 .. k - 1
      BY <1>4, <2>4
    <3> QED
      BY <1>3, <2>2, <3>1
  <2> QED
    BY <2>3, <2>4
<1> QED
  BY <1>5, <1>6, <1>7

\* readData() appends what came, and finishes the article only with a dot.
LEMMA ReadDataFacts ==
  ASSUME NEW c \in Articles, NEW line \in Lines, line.kind # "250"
  PROVE  \E a \in Articles :
           /\ a.buffer = <<>> /\ a.text = c.text \o Added(line, c.buffer)
           /\ a.state = c.state /\ a.impl = c.impl /\ a.shown = c.shown
           /\ a.sent = c.sent /\ a.next = c.next /\ a.fin = c.fin
           /\ a.list = c.list /\ a.matches = c.matches
           /\ \/ ReadData(c, line) = a
              \/ ReadData(c, line) = FinishedArticle(a) /\ HasDot(a.text, Len(a.text))
<1> DEFINE X == IF line.kind = "151" THEN <<>> ELSE <<line>>
           b == c.buffer
           t == (c.text \o X) \o b
           a == [c EXCEPT !.buffer = <<>>, !.text = t]
           seen == IF line.kind = "151" THEN t ELSE b
           d == ReadData(c, line)
<1>1. b \in Seq(Lines) /\ c.text \in Seq(Lines) /\ X \in Seq(Lines)
  BY DEF Articles
<1>2. t \in Seq(Lines) /\ t = c.text \o Added(line, b)
  <2>1. X \o b \in Seq(Lines) /\ t = c.text \o (X \o b)
    <3>1. c.text \in Seq(Lines)
      BY <1>1
    <3> DEFINE u == c.text
    <3> HIDE DEF X, b, u
    <3>2. (u \o X) \o b = u \o (X \o b)
      BY <1>1, <3>1, LinesCat DEF u
    <3>3. X \o b \in Seq(Lines)
      BY <1>1, ConcatProperties
    <3> QED
      BY <3>2, <3>3 DEF u
  <2>2. X \o b = Added(line, b)
    BY DEF Added
  <2>3. c.text \o (X \o b) \in Seq(Lines)
    <3> DEFINE w == X \o b
    <3>1. w \in Seq(Lines) /\ c.text \in Seq(Lines)
      BY <1>1, <2>1
    <3> HIDE DEF w
    <3>2. c.text \o w \in Seq(Lines)
      BY <3>1, ConcatProperties
    <3> QED
      BY <3>2 DEF w
  <2> QED
    BY <2>1, <2>2, <2>3
<1>3. EndsText(seen) => HasDot(t, Len(t))
  <2> HAVE EndsText(seen)
  <2>1. HasDot(seen, Len(seen))
    <3>1. PICK i \in 2 .. Len(seen) : seen[i].kind = "."
      BY DEF EndsText
    <3>2. i \in 1 .. Len(seen)
      <4>1. seen \in Seq(Lines)
        BY <1>1, <1>2
      <4> HIDE DEF seen
      <4> QED
        BY <4>1
    <3> QED
      BY <3>1, <3>2 DEF HasDot
  <2>2. CASE line.kind = "151"
    BY <2>1, <2>2
  <2>3. CASE line.kind # "151"
    <3>1. HasDot(b, Len(b))
      BY <2>1, <2>3
    <3> DEFINE u == c.text \o X
    <3>2. u \in Seq(Lines)
      <4>1. c.text \in Seq(Lines) /\ X \in Seq(Lines)
        BY <1>1
      <4> HIDE DEF X
      <4> QED
        BY <4>1, ConcatProperties
    <3> HIDE DEF u, b
    <3>3. HasDot(u \o b, Len(u \o b)) <=> HasDot(u, Len(u)) \/ HasDot(b, Len(b))
      BY <1>1, <3>2, DotOfCat
    <3> QED
      BY <3>1, <3>3 DEF u
  <2> QED
    BY <2>2, <2>3
<1>4. d = IF EndsText(seen) THEN FinishedArticle(a) ELSE a
  <2>1. a = [c EXCEPT !.buffer = <<>>, !.text = @ \o (IF line.kind = "151" THEN <<>> ELSE <<line>>) \o c.buffer]
    OBVIOUS
  <2>2. a.text = t
    BY DEF Articles
  <2> QED
    BY <2>1, <2>2 DEF ReadData
<1> DEFINE e == <<>>
<1>5. e \in Seq(Lines)
  BY EmptySeq
<1>6. a = [c EXCEPT !.buffer = e, !.text = t]
  OBVIOUS
<1> HIDE DEF e, t, a
<1>7. /\ a \in Articles /\ a.buffer = e /\ a.text = t
      /\ a.state = c.state /\ a.impl = c.impl /\ a.shown = c.shown
      /\ a.sent = c.sent /\ a.next = c.next /\ a.fin = c.fin
      /\ a.list = c.list /\ a.matches = c.matches
  BY <1>2, <1>5, <1>6 DEF Articles
<1> HIDE DEF d, seen
<1>8. d = a \/ (d = FinishedArticle(a) /\ HasDot(a.text, Len(a.text)))
  BY <1>3, <1>4, <1>7
<1> QED
  BY <1>2, <1>7, <1>8 DEF d, e

-----------------------------------------------------------------------------
(* A definition from its first line to the dot. *)

\* What is shown of a complete definition is whole.
LEMMA Shows ==
  ASSUME NEW a \in Articles, Whole(a), NEW w \in Held, TextOf(a.text) = <<w, w>>
  PROVE  LET d == FinishedArticle(a)
         IN  /\ d \in Articles /\ Whole(d) /\ d.state = a.state /\ d.impl = a.impl
             /\ d.text = a.text /\ d.buffer = a.buffer
<1> DEFINE d == FinishedArticle(a)
<1>1. /\ d \in Articles /\ d.state = a.state /\ d.impl = a.impl
      /\ d.text = a.text /\ d.buffer = a.buffer
  BY FinishedArticleFacts
<1>2. IF IsCancelled THEN d.shown = a.shown ELSE d.shown = Append(a.shown, TextOf(a.text))
  BY FinishedArticleFacts
<1> HIDE DEF d
<1>3. CASE IsCancelled
  BY <1>1, <1>2, <1>3 DEF Whole, d
<1>4. CASE ~IsCancelled
  <2> DEFINE t == TextOf(a.text)
             s == a.shown
             T == Seq(Words)
  <2>1. t \in T /\ s \in Seq(T) /\ t = <<w, w>>
    BY TextType DEF Articles
  <2>2. d.shown = Append(s, t)
    BY <1>2, <1>4
  <2>3. \A i \in DOMAIN s : \E v \in Held : s[i] = <<v, v>>
    BY DEF Whole
  <2> HIDE DEF t, s, T
  <2>4. /\ Append(s, t) \in Seq(T) /\ Append(s, t) # <<>> /\ Len(Append(s, t)) = Len(s) + 1
        /\ \A i \in 1 .. Len(s) : Append(s, t)[i] = s[i]
        /\ Append(s, t)[Len(s) + 1] = t
    <3>1. s \in Seq(T) /\ t \in T
      BY <2>1
    <3> QED
      BY <3>1, AppendProperties
  <2> DEFINE u == Append(s, t)
             m == Len(s)
  <2>5. DOMAIN u = 1 .. m + 1 /\ DOMAIN s = 1 .. m /\ m \in Nat
    <3>1. u \in Seq(T) /\ Len(u) = m + 1
      BY <2>4
    <3> HIDE DEF u
    <3>2. DOMAIN u = 1 .. Len(u)
      BY <3>1, LenProperties
    <3> QED
      BY <2>1, <3>1, <3>2, LenProperties
  <2>6. ASSUME NEW i \in DOMAIN u PROVE \E v \in Held : u[i] = <<v, v>>
    <3>1. i \in 1 .. m \/ i = m + 1
      <4> HIDE DEF u, m
      <4> QED
        BY <2>5
    <3>2. CASE i \in 1 .. m
      <4>1. u[i] = s[i]
        BY <2>4, <3>2
      <4>2. i \in DOMAIN s
        BY <2>5, <3>2
      <4> QED
        BY <2>3, <4>1, <4>2
    <3>3. CASE i = m + 1
      BY <2>1, <2>4, <3>3
    <3> QED
      BY <3>1, <3>2, <3>3
  <2>7. d.shown = u /\ u # <<>>
    BY <2>2, <2>4
  <2> HIDE DEF u
  <2>8. Whole(d)
    BY <2>6, <2>7 DEF Whole
  <2> QED
    BY <1>1, <2>8 DEF d
<1> QED
  BY <1>3, <1>4

\* The client that asks the next database, with nothing shown and nothing on its way.
LEMMA AskDefine ==
  ASSUME holds \in [Queries -> Replies], NEW c \in Articles, Whole(c), c.state = "DEFINE",
         TextOf(c.text) = <<>>, ~HasDot(c.text, Len(c.text)),
         c.buffer = <<>>, c.shown = <<>>, c.sent = <<>>,
         \A q \in 1 .. c.next - 1 : holds[q] = <<>>,
         NEW rest, rest = <<>>
  PROVE  LET d == DefineNext(c)
         IN  d \in Articles /\ Serving(d, rest) /\ d.impl = c.impl
<1> DEFINE d == DefineNext(c)
<1>1. d \in Articles /\ SameArticle(c, d) /\ d.buffer = c.buffer
  BY DefineNextFacts
<1>2. IF c.next > NQueries
      THEN d.fin = TRUE /\ d.sent = c.sent /\ d.next = c.next
      ELSE d.fin = c.fin /\ d.sent = Append(c.sent, c.next) /\ d.next = c.next + 1
  BY DefineNextFacts
<1>3. c.next \in 1 .. NQueries + 1 /\ NQueries \in Nat
  BY DictServerAssumption DEF Articles
<1> HIDE DEF d
<1>4. d.impl = c.impl /\ d.state = "DEFINE" /\ d.text = c.text /\ d.shown = <<>> /\ d.buffer = <<>>
  BY <1>1 DEF SameArticle
<1>5. CASE c.next > NQueries
  <2>1. c.next = NQueries + 1
    BY <1>3, <1>5
  <2>2. Held = {}
    <3>1. \A q \in Queries : holds[q] = <<>>
      <4>1. c.next - 1 = NQueries
        BY <1>3, <2>1
      <4> QED
        BY <4>1 DEF Queries
    <3>2. ToSet(<<>>) = {}
      BY DEF ToSet
    <3> QED
      BY <3>1, <3>2 DEF Held
  <2>3. \A q \in 1 .. d.next - 2 : holds[q] = <<>>
    <3>1. d.next = c.next
      BY <1>2, <1>5
    <3>2. ASSUME NEW q \in 1 .. d.next - 2 PROVE q \in 1 .. c.next - 1
      BY <1>3, <3>1
    <3> QED
      BY <3>2
  <2>4. Asking(d, rest)
    BY <1>2, <1>4, <1>5, <2>2, <2>3 DEF Asking
  <2>5. Whole(d)
    BY <1>4, <2>2 DEF Whole
  <2> QED
    BY <1>1, <1>4, <2>4, <2>5 DEF Serving, d
<1>6. CASE ~(c.next > NQueries)
  <2>1. d.fin = c.fin /\ d.sent = Append(c.sent, c.next) /\ d.next = c.next + 1
    BY <1>2, <1>6
  <2>2. d.next - 1 = c.next /\ d.next - 2 = c.next - 1 /\ c.next \in Queries
    <3> DEFINE n == c.next
               m == d.next
    <3>1. m = n + 1 /\ n \in Nat /\ n \in 1 .. NQueries
      BY <1>3, <1>6, <2>1
    <3> HIDE DEF n, m
    <3>2. m - 1 = n /\ m - 2 = n - 1 /\ n \in Queries
      BY <3>1 DEF Queries
    <3> QED
      BY <3>2 DEF n, m
  <2>3. d.sent = <<d.next - 1>>
    BY <2>1, <2>2
  <2>4. Asking(d, rest)
    BY <1>4, <2>2, <2>3 DEF Asking
  <2>5. Whole(d)
    BY <1>4, <2>1 DEF Whole
  <2> QED
    BY <1>1, <1>4, <2>4, <2>5 DEF Serving, d
<1> QED
  BY <1>5, <1>6

\* What a reply with definitions starts with.
LEMMA DefineReplyFacts ==
  ASSUME TypeOK, NEW q \in 0 .. NQueries
  PROVE  /\ DefineReply(q) \in Seq(Lines)
         /\ q = 0 => DefineReply(q) = <<Line("250")>>
         /\ q # 0 /\ holds[q] = <<>> => DefineReply(q) = <<Line("552")>>
         /\ q # 0 /\ holds[q] # <<>> =>
              \E b \in Seq(Lines), w \in Held :
                /\ DefineReply(q) = <<Line("150")>> \o b /\ Body(b)
                /\ TextOf(DefineReply(q)) = <<w, w>>
<1> DEFINE R == DefineReply(q)
<1>1. \A k \in {"220", "530", "250", "150", "151", "152", "552", "."} : Line(k) \in Lines /\ Line(k).kind = k
  BY DEF Line, Lines
<1>2. CASE q = 0
  <2>1. R = <<Line("250")>>
    BY <1>2 DEF DefineReply
  <2>2. R \in Seq(Lines)
    BY <1>1, <2>1
  <2> HIDE DEF R
  <2> QED
    BY <1>2, <2>1, <2>2 DEF R
<1>3. CASE q # 0 /\ holds[q] = <<>>
  <2>1. R = <<Line("552")>>
    BY <1>3 DEF DefineReply
  <2>2. R \in Seq(Lines)
    BY <1>1, <2>1
  <2> HIDE DEF R
  <2> QED
    BY <1>3, <2>1, <2>2 DEF R
<1>4. CASE q # 0 /\ holds[q] # <<>>
  <2> DEFINE h == holds[q]
             w == h[1]
             D == Definitions(h)
             f == Definition(w)
             a == <<Line("150")>>
             z == <<Line("250")>>
  <2>1. h \in Seq(Words) /\ h # <<>> /\ q \in Queries
    BY <1>4, DictServerAssumption DEF TypeOK, Queries
  <2>2. w \in Words /\ w \in Held
    <3>1. 1 \in 1 .. Len(h) /\ DOMAIN h = 1 .. Len(h)
      BY <2>1, EmptySeq
    <3>2. w \in ToSet(h)
      BY <3>1 DEF ToSet
    <3> QED
      BY <2>1, <3>1, <3>2 DEF Held
  <2>3. R = (a \o D) \o z
    BY <1>4 DEF DefineReply
  <2>4. /\ f \in Seq(Lines) /\ Len(f) = 4
        /\ f[1].kind = "151" /\ f[2].kind = "word"
        /\ f[3].kind = "word" /\ f[4].kind = "."
        /\ TextOf(f) = <<w, w>>
    <3> HIDE DEF w
    <3> QED
      BY <2>2, DefinitionFacts
  <2>5. D \in Seq(Lines)
    BY <2>1, DefinitionsStart
  <2>6. PICK rest \in Seq(Lines) : D = f \o rest
    BY <2>1, DefinitionsStart
  <2>7. a \in Seq(Lines) /\ z \in Seq(Lines)
    BY <1>1
  <2>8. TextOf(a) = <<>> /\ ~HasDot(a, Len(a))
    BY <1>1, OneLine
  <2> DEFINE y == rest \o z
             b == f \o y
  <2>9. y \in Seq(Lines)
    <3> HIDE DEF z
    <3> QED
      BY <2>7, ConcatProperties
  <2> HIDE DEF a, z, f, D, w, R, y
  <2>10. R = a \o b /\ b \in Seq(Lines)
    <3>1. (a \o D) \o z = a \o (D \o z)
      BY <2>5, <2>7, LinesCat
    <3>2. (f \o rest) \o z = f \o (rest \o z)
      BY <2>4, <2>7, LinesCat
    <3>3. f \o y \in Seq(Lines)
      BY <2>4, <2>9, ConcatProperties
    <3> QED
      BY <2>3, <2>6, <3>1, <3>2, <3>3 DEF y
  <2>11. /\ Len(b) = 4 + Len(y)
         /\ \A i \in 1 .. 4 : b[i] = f[i]
    <3>1. /\ Len(f \o y) = Len(f) + Len(y)
          /\ \A i \in 1 .. Len(f) + Len(y) : (f \o y)[i] = IF i <= Len(f) THEN f[i] ELSE y[i - Len(f)]
      BY <2>4, <2>9, ConcatProperties
    <3>2. Len(y) \in Nat
      BY <2>9
    <3> QED
      BY <2>4, <3>1, <3>2
  <2>12. HasDot(f, Len(f))
    BY <2>4 DEF HasDot
  <2>13. TextOf(b) = <<w, w>>
    <3>1. TextOf(f \o y) = IF HasDot(f, Len(f)) THEN TextOf(f) ELSE TextOf(f) \o TextOf(y)
      BY <2>4, <2>9, TextOfCat
    <3> QED
      BY <2>4, <2>12, <3>1
  <2> HIDE DEF b
  <2>14. Body(b)
    <3>1. 4 \in 1 .. Len(b)
      BY <2>9, <2>11
    <3>2. b[4].kind = "."
      BY <2>4, <2>11
    <3>3. \A i \in 1 .. 4 - 1 : b[i].kind \in {"151", "word"}
      <4>1. \A i \in 1 .. 4 - 1 : i = 1 \/ i = 2 \/ i = 3
        OBVIOUS
      <4>2. b[1].kind = "151" /\ b[2].kind = "word" /\ b[3].kind = "word"
        BY <2>4, <2>11
      <4> QED
        BY <4>1, <4>2
    <3> QED
      BY <3>1, <3>2, <3>3 DEF Body
  <2>15. TextOf(R) = <<w, w>>
    <3>1. TextOf(a \o b) = IF HasDot(a, Len(a)) THEN TextOf(a) ELSE TextOf(a) \o TextOf(b)
      BY <2>7, <2>10, TextOfCat
    <3>2. TextOf(b) \in Seq(Words)
      BY <2>10, TextType
    <3>3. <<>> \o TextOf(b) = TextOf(b)
      BY <3>2, ConcatEmptySeq
    <3> QED
      BY <2>8, <2>10, <2>13, <3>1, <3>3
  <2>16. R \in Seq(Lines)
    BY <2>7, <2>10, ConcatProperties
  <2> QED
    BY <1>4, <2>2, <2>10, <2>14, <2>15, <2>16 DEF a, R
<1> QED
  BY <1>2, <1>3, <1>4

\* A packet that goes on with a definition, or comes when one is complete.
LEMMA ReadMore ==
  ASSUME NEW c \in Articles, Whole(c), c.buffer # <<>>, NEW rest \in Seq(Lines),
         IF HasDot(c.text, Len(c.text)) THEN \E w \in Held : TextOf(c.text) = <<w, w>>
         ELSE /\ c.buffer[1].kind # "250"
              /\ ~HasDot(c.buffer, Len(c.buffer)) => Body(rest)
              /\ \E w \in Held : TextOf(c.text) \o TextOf(c.buffer \o rest) = <<w, w>>
  PROVE  LET d == ReadData(ReadLine(c), Head(c.buffer))
         IN  d \in Articles /\ Whole(d) /\ Gathering(d, rest) /\ d.state = c.state /\ d.impl = c.impl
<1> DEFINE p == c.buffer
           t == c.text
           r == ReadLine(c)
           l == Head(p)
           x == Added(l, Tail(p))
           d == ReadData(r, l)
<1>1. p \in Seq(Lines) /\ p # <<>> /\ t \in Seq(Lines)
  BY DEF Articles
<1>2. l = p[1]
  BY <1>1
<1>3. /\ l \in Lines /\ Tail(p) \in Seq(Lines) /\ x \in Seq(Lines)
      /\ TextOf(x) = TextOf(p) /\ (HasDot(x, Len(x)) <=> HasDot(p, Len(p)))
  <2> HIDE DEF p, l
  <2> QED
    BY <1>1, <1>2, AddedFacts
<1>4. /\ r \in Articles /\ SameArticle(c, r) /\ r.sent = c.sent /\ r.next = c.next /\ r.fin = c.fin
      /\ r.list = c.list /\ r.matches = c.matches
  BY ArticleLine
<1>5. r.buffer = Tail(p)
  <2>1. r.buffer = IF c.buffer = <<>> THEN <<>> ELSE Tail(c.buffer)
    BY ArticleLine
  <2> QED
    BY <1>1, <2>1
<1>6. r.text = t /\ r.state = c.state /\ r.impl = c.impl /\ r.shown = c.shown
  BY <1>4 DEF SameArticle
<1>7. Whole(r)
  BY <1>4, <1>6 DEF Whole
<1> HIDE DEF r, l
<1>8. CASE l.kind = "250"
  <2>1. d = r
    BY <1>8 DEF ReadData
  <2>2. HasDot(t, Len(t)) /\ \E w \in Held : TextOf(t) = <<w, w>>
    BY <1>2, <1>8
  <2>3. Gathering(r, rest)
    BY <1>6, <2>2 DEF Gathering
  <2> QED
    BY <1>4, <1>6, <1>7, <2>1, <2>3 DEF r, l
<1>9. CASE l.kind # "250"
  <2>1. PICK a \in Articles :
           /\ a.buffer = <<>> /\ a.text = r.text \o Added(l, r.buffer)
           /\ a.state = r.state /\ a.impl = r.impl /\ a.shown = r.shown
           /\ a.sent = r.sent /\ a.next = r.next /\ a.fin = r.fin
           /\ \/ ReadData(r, l) = a
              \/ ReadData(r, l) = FinishedArticle(a) /\ HasDot(a.text, Len(a.text))
    BY <1>3, <1>4, <1>9, ReadDataFacts
  <2>2. a.text = t \o x
    BY <1>5, <1>6, <2>1
  <2>3. Whole(a)
    BY <1>7, <2>1 DEF Whole
  <2>4. IF HasDot(a.text, Len(a.text)) THEN \E w \in Held : TextOf(a.text) = <<w, w>>
        ELSE Body(rest) /\ \E w \in Held : TextOf(a.text) \o TextOf(rest) = <<w, w>>
    <3> DEFINE y == t \o x
    <3>1. CASE HasDot(t, Len(t))
      <4>1. PICK w \in Held : TextOf(t) = <<w, w>>
        BY <3>1
      <4> HIDE DEF t, x
      <4>2. HasDot(t \o x, Len(t \o x)) <=> HasDot(t, Len(t)) \/ HasDot(x, Len(x))
        BY <1>1, <1>3, DotOfCat
      <4>3. TextOf(t \o x) = IF HasDot(t, Len(t)) THEN TextOf(t) ELSE TextOf(t) \o TextOf(x)
        BY <1>1, <1>3, TextOfCat
      <4> HIDE DEF y
      <4>4. HasDot(y, Len(y)) /\ TextOf(y) = <<w, w>>
        BY <3>1, <4>1, <4>2, <4>3 DEF y
      <4> QED
        BY <2>2, <4>4 DEF y
    <3>2. CASE ~HasDot(t, Len(t))
      <4>1. PICK w \in Held : TextOf(t) \o TextOf(p \o rest) = <<w, w>>
        BY <3>2
      <4>2. ~HasDot(p, Len(p)) => Body(rest)
        BY <3>2
      <4> HIDE DEF t, x, p
      <4>3. HasDot(t \o x, Len(t \o x)) <=> HasDot(p, Len(p))
        BY <1>1, <1>3, <3>2, Gather
      <4>4. IF HasDot(p, Len(p)) THEN TextOf(t \o x) = TextOf(t) \o TextOf(p \o rest)
            ELSE TextOf(t \o x) \o TextOf(rest) = TextOf(t) \o TextOf(p \o rest)
        <5>1. Gathered(t, x, p, rest)
          BY <1>1, <1>3, <3>2, Gather
        <5> QED
          BY <5>1 DEF Gathered
      <4> HIDE DEF y
      <4>5. HasDot(y, Len(y)) <=> HasDot(p, Len(p))
        BY <4>3 DEF y
      <4>6. IF HasDot(p, Len(p)) THEN TextOf(y) = <<w, w>>
            ELSE TextOf(y) \o TextOf(rest) = <<w, w>>
        BY <4>1, <4>4 DEF y
      <4>7. a.text = y
        BY <2>2 DEF y
      <4> QED
        BY <4>2, <4>5, <4>6, <4>7
    <3> QED
      BY <3>1, <3>2
  <2>5. Gathering(a, rest)
    BY <2>1, <2>4 DEF Gathering
  <2>6. CASE d = a
    BY <1>6, <2>1, <2>3, <2>5, <2>6 DEF r, l
  <2>7. CASE d = FinishedArticle(a) /\ HasDot(a.text, Len(a.text))
    <3>1. PICK w \in Held : TextOf(a.text) = <<w, w>>
      BY <2>4, <2>7
    <3> DEFINE f == FinishedArticle(a)
    <3>2. f \in Articles /\ Whole(f) /\ f.state = a.state /\ f.impl = a.impl /\ f.text = a.text
      BY <2>3, <3>1, Shows
    <3>3. d = f
      BY <2>7
    <3> HIDE DEF f, d
    <3>4. Gathering(f, rest)
      BY <2>7, <3>1, <3>2 DEF Gathering
    <3> QED
      BY <1>6, <2>1, <3>2, <3>3, <3>4 DEF d, r, l
  <2> QED
    BY <2>1, <2>6, <2>7
<1> QED
  BY <1>8, <1>9

\* A packet with the answer to the query asked.
LEMMA Answered ==
  ASSUME TypeOK, NEW c \in Articles, Whole(c), c.state = "DEFINE",
         TextOf(c.text) = <<>>, ~HasDot(c.text, Len(c.text)),
         c.shown = <<>>, c.sent = <<>>, c.next - 1 \in Queries,
         \A q \in 1 .. c.next - 2 : holds[q] = <<>>,
         c.buffer # <<>>, NEW rest \in Seq(Lines), c.buffer \o rest = DefineReply(c.next - 1)
  PROVE  LET d == ArticleReads(c)
         IN  d \in Articles /\ Serving(d, rest) /\ d.impl = c.impl
<1> DEFINE p == c.buffer
           q == c.next - 1
           R == DefineReply(q)
           l == Head(p)
           d == ArticleReads(c)
<1>1. p \in Seq(Lines) /\ p # <<>> /\ c.text \in Seq(Lines) /\ p \o rest = R
  BY DEF Articles
<1>2. /\ p[1] = l /\ l \in Lines /\ Tail(p) \in Seq(Lines) /\ <<l>> \in Seq(Lines)
      /\ Len(Tail(p)) = Len(p) - 1
  <2>1. /\ Head(p) = p[1] /\ p[1] \in Lines /\ Tail(p) \in Seq(Lines) /\ <<p[1]>> \in Seq(Lines)
        /\ Len(Tail(p)) = Len(p) - 1
    <3> HIDE DEF p
    <3> QED
      BY <1>1, HeadAndTail
  <2> QED
    BY <2>1
<1>3. p = <<l>> \o Tail(p) /\ p \o rest = <<l>> \o (Tail(p) \o rest)
  <2> HIDE DEF p
  <2> QED
    BY <1>1, HeadAndTail DEF l
<1>4. q \in 0 .. NQueries /\ q # 0
  BY DictServerAssumption DEF Queries
<1>5. FirstKind(c) = l.kind
  BY <1>1 DEF FirstKind
<1>6. Tail(p) \o rest \in Seq(Lines)
  <2> DEFINE u == Tail(p)
  <2>1. u \in Seq(Lines)
    BY <1>2
  <2> HIDE DEF u
  <2>2. u \o rest \in Seq(Lines)
    BY <2>1, ConcatProperties
  <2> QED
    BY <2>2 DEF u
<1>7. ASSUME NEW k \in Lines, NEW b \in Seq(Lines), R = <<k>> \o b
      PROVE  l = k /\ Tail(p) \o rest = b
  <2> DEFINE u == Tail(p) \o rest
             f == <<l>> \o u
             g == <<k>> \o b
  <2>1. f = g /\ u \in Seq(Lines) /\ l \in Lines
    BY <1>1, <1>2, <1>3, <1>6, <1>7
  <2> HIDE DEF u, l
  <2>2. /\ Len(f) = 1 + Len(u) /\ f[1] = l /\ \A i \in 1 .. Len(u) : f[i + 1] = u[i]
    <3> DEFINE o == <<l>>
    <3>1. o \in Seq(Lines) /\ Len(o) = 1 /\ o[1] = l
      BY <2>1
    <3> HIDE DEF o
    <3>2. /\ Len(o \o u) = Len(o) + Len(u)
          /\ \A i \in 1 .. Len(o) + Len(u) : (o \o u)[i] = IF i <= Len(o) THEN o[i] ELSE u[i - Len(o)]
      BY <2>1, <3>1, ConcatProperties
    <3>3. Len(u) \in Nat
      BY <2>1
    <3>4. (o \o u)[1] = l
      BY <3>1, <3>2, <3>3
    <3>5. ASSUME NEW i \in 1 .. Len(u) PROVE (o \o u)[i + 1] = u[i]
      <4>1. i + 1 \in 1 .. Len(o) + Len(u) /\ ~(i + 1 <= Len(o)) /\ (i + 1) - Len(o) = i
        BY <3>1, <3>3
      <4> QED
        BY <3>2, <4>1
    <3> QED
      BY <3>1, <3>2, <3>4, <3>5 DEF o
  <2>3. /\ Len(g) = 1 + Len(b) /\ g[1] = k /\ \A i \in 1 .. Len(b) : g[i + 1] = b[i]
    <3> DEFINE o == <<k>>
    <3>1. o \in Seq(Lines) /\ Len(o) = 1 /\ o[1] = k
      OBVIOUS
    <3> HIDE DEF o
    <3>2. /\ Len(o \o b) = Len(o) + Len(b)
          /\ \A i \in 1 .. Len(o) + Len(b) : (o \o b)[i] = IF i <= Len(o) THEN o[i] ELSE b[i - Len(o)]
      BY <3>1, ConcatProperties
    <3>3. Len(b) \in Nat
      OBVIOUS
    <3>4. (o \o b)[1] = k
      BY <3>1, <3>2, <3>3
    <3>5. ASSUME NEW i \in 1 .. Len(b) PROVE (o \o b)[i + 1] = b[i]
      <4>1. i + 1 \in 1 .. Len(o) + Len(b) /\ ~(i + 1 <= Len(o)) /\ (i + 1) - Len(o) = i
        BY <3>1, <3>3
      <4> QED
        BY <3>2, <4>1
    <3> QED
      BY <3>1, <3>2, <3>4, <3>5 DEF o
  <2> HIDE DEF f, g
  <2>4. l = k
    BY <2>1, <2>2, <2>3
  <2>5. Len(u) = Len(b)
    <3>1. Len(u) \in Nat /\ Len(b) \in Nat
      BY <2>1
    <3>2. 1 + Len(u) = 1 + Len(b)
      BY <2>1, <2>2, <2>3
    <3> QED
      BY <3>1, <3>2
  <2>6. \A i \in 1 .. Len(u) : u[i] = b[i]
    BY <2>1, <2>2, <2>3, <2>5
  <2>7. u = b
    BY <2>1, <2>5, <2>6, SeqEqual
  <2> QED
    BY <2>4, <2>7 DEF u
<1>8. \A k \in {"552", "150"} : Line(k) \in Lines /\ Line(k).kind = k
  BY DEF Line, Lines
<1>9. CASE holds[q] = <<>>
  <2>1. R = <<Line("552")>>
    BY <1>4, <1>9, DefineReplyFacts
  <2>2. l = Line("552") /\ Tail(p) \o rest = <<>>
    <3> DEFINE k == Line("552")
               b == <<>>
    <3>1. k \in Lines /\ b \in Seq(Lines)
      BY <1>8, EmptySeq
    <3>2. R = <<k>> \o b
      <4>1. R = <<k>> /\ <<k>> \in Seq(Lines)
        BY <2>1, <3>1
      <4> QED
        BY <4>1, ConcatEmptySeq
    <3> HIDE DEF k, b, R
    <3>3. l = k /\ Tail(p) \o rest = b
      BY <1>7, <3>1, <3>2
    <3> QED
      BY <3>3 DEF k, b
  <2>3. Tail(p) = <<>> /\ rest = <<>>
    <3> DEFINE u == Tail(p)
    <3>1. u \in Seq(Lines) /\ u \o rest = <<>>
      BY <1>2, <2>2
    <3> HIDE DEF u
    <3>2. Len(u \o rest) = Len(u) + Len(rest) /\ Len(u) \in Nat /\ Len(rest) \in Nat
      BY <3>1, ConcatProperties, LenProperties
    <3>3. Len(u \o rest) = 0
      BY <3>1, EmptySeq
    <3>4. Len(u) = 0 /\ Len(rest) = 0
      BY <3>2, <3>3
    <3>5. u = <<>> /\ rest = <<>>
      BY <3>1, <3>4, EmptySeq
    <3> QED
      BY <3>5 DEF u
  <2> DEFINE r == ReadLine(c)
  <2>4. /\ r \in Articles /\ SameArticle(c, r) /\ r.sent = c.sent /\ r.next = c.next /\ r.fin = c.fin
    BY ArticleLine
  <2>5. r.buffer = <<>>
    <3>1. r.buffer = IF c.buffer = <<>> THEN <<>> ELSE Tail(c.buffer)
      BY ArticleLine
    <3> QED
      BY <1>1, <2>3, <3>1
  <2>6. d = DefineNext(r)
    BY <1>5, <1>8, <2>2 DEF ArticleReads, ReadDefinition
  <2> HIDE DEF r
  <2>7. r.impl = c.impl /\ r.state = "DEFINE" /\ r.text = c.text /\ r.shown = <<>>
    BY <2>4 DEF SameArticle
  <2>8. Whole(r)
    BY <2>4, <2>7 DEF Whole
  <2>9. \A i \in 1 .. r.next - 1 : holds[i] = <<>>
    <3> DEFINE n == c.next
    <3>1. n \in Nat
      BY DictServerAssumption DEF Articles
    <3>2. \A i \in 1 .. n - 2 : holds[i] = <<>>
      OBVIOUS
    <3>3. holds[n - 1] = <<>>
      BY <1>9
    <3> HIDE DEF n
    <3>4. \A i \in 1 .. n - 1 : i \in 1 .. n - 2 \/ i = n - 1
      BY <3>1
    <3>5. \A i \in 1 .. n - 1 : holds[i] = <<>>
      BY <3>2, <3>3, <3>4
    <3> QED
      BY <2>4, <3>5 DEF n
  <2>10. holds \in [Queries -> Replies]
    BY DEF TypeOK
  <2>11. DefineNext(r) \in Articles /\ Serving(DefineNext(r), rest) /\ DefineNext(r).impl = r.impl
    BY <2>3, <2>4, <2>5, <2>7, <2>8, <2>9, <2>10, AskDefine
  <2> QED
    BY <2>6, <2>7, <2>11
<1>10. CASE holds[q] # <<>>
  <2>1. PICK b \in Seq(Lines), w \in Held :
          R = <<Line("150")>> \o b /\ Body(b) /\ TextOf(R) = <<w, w>>
    BY <1>4, <1>10, DefineReplyFacts
  <2>2. l = Line("150") /\ Tail(p) \o rest = b
    <3> DEFINE k == Line("150")
    <3>1. k \in Lines /\ R = <<k>> \o b
      BY <1>8, <2>1
    <3> HIDE DEF k, R
    <3>2. l = k /\ Tail(p) \o rest = b
      BY <1>7, <3>1
    <3> QED
      BY <3>2 DEF k
  <2>3. l.kind = "150"
    BY <1>8, <2>2
  <2>4. ~HasDot(p, Len(p)) => Body(rest)
    <3> DEFINE u == Tail(p)
    <3>1. u \in Seq(Lines) /\ u \o rest = b
      BY <1>2, <2>2
    <3> HIDE DEF u
    <3>2. ~HasDot(u, Len(u)) => Body(rest)
      BY <2>1, <3>1, BodyFacts
    <3> DEFINE o == <<l>>
    <3>3. o \in Seq(Lines) /\ p = o \o u
      BY <1>2, <1>3 DEF u
    <3> HIDE DEF o
    <3>4. HasDot(o \o u, Len(o \o u)) <=> HasDot(o, Len(o)) \/ HasDot(u, Len(u))
      BY <3>1, <3>3, DotOfCat
    <3>5. ~HasDot(p, Len(p)) => ~HasDot(u, Len(u))
      <4> HIDE DEF p
      <4> QED
        BY <3>3, <3>4
    <3> QED
      BY <3>2, <3>5
  <2>5. TextOf(c.text) \o TextOf(p \o rest) = <<w, w>>
    <3>1. <<>> \o TextOf(R) = <<w, w>>
      <4>1. TextOf(R) \in Seq(Words)
        <5>1. R \in Seq(Lines)
          BY <1>4, DefineReplyFacts
        <5> HIDE DEF R
        <5> QED
          BY <5>1, TextType
      <4> HIDE DEF R
      <4> QED
        BY <2>1, <4>1, ConcatEmptySeq
    <3> QED
      BY <1>1, <3>1
  <2> DEFINE r == ReadLine(c)
             a == ReadData(r, l)
  <2>6. a \in Articles /\ Whole(a) /\ Gathering(a, rest) /\ a.state = c.state /\ a.impl = c.impl
    <3>1. c.buffer[1].kind # "250"
      BY <1>2, <2>3
    <3>2. a = ReadData(ReadLine(c), Head(c.buffer))
      OBVIOUS
    <3> HIDE DEF a
    <3> QED
      BY <1>1, <2>4, <2>5, <3>1, <3>2, ReadMore
  <2> DEFINE e == [a EXCEPT !.state = "DEFINE_DATA"]
  <2>7. d = e
    BY <1>5, <2>3 DEF ArticleReads, ReadDefinition
  <2> HIDE DEF a
  <2>8. /\ e \in Articles /\ e.state = "DEFINE_DATA" /\ e.impl = a.impl /\ e.text = a.text
        /\ e.shown = a.shown /\ e.buffer = a.buffer /\ e.fin = a.fin
    BY <2>6 DEF Articles
  <2> HIDE DEF e
  <2>9. Whole(e) /\ Gathering(e, rest)
    BY <2>6, <2>8 DEF Whole, Gathering
  <2>10. Serving(e, rest)
    BY <2>8, <2>9 DEF Serving
  <2> QED
    BY <2>6, <2>7, <2>8, <2>10
<1> QED
  BY <1>9, <1>10

\* The slot of the request on a packet, when the connection stands.
LEMMA ServingReads ==
  ASSUME TypeOK, NEW c \in Articles, Serving(c, stream),
         NEW p \in Seq(Lines), p # <<>>, NEW r \in Seq(Lines), p \o r = stream,
         NEW g \in Articles, g.buffer = c.buffer \o p, SameArticle(c, g),
         g.sent = c.sent, g.next = c.next, g.fin = c.fin
  PROVE  LET d == ArticleReads(g)
         IN  d \in Articles /\ Serving(d, r) /\ d.impl = c.impl
<1> DEFINE d == ArticleReads(g)
<1>1. c.state \in {"DEFINE", "DEFINE_DATA"} /\ Whole(c)
  BY DEF Serving
<1>2. g.state = c.state /\ g.impl = c.impl /\ g.text = c.text /\ g.shown = c.shown
  BY DEF SameArticle
<1>3. Whole(g)
  BY <1>1, <1>2 DEF Whole
<1>4. c.buffer \in Seq(Lines) /\ g.buffer # <<>>
  <2> DEFINE b == c.buffer
  <2>1. b \in Seq(Lines)
    BY DEF Articles
  <2> HIDE DEF b
  <2>2. Len(b \o p) = Len(b) + Len(p) /\ Len(b) \in Nat /\ Len(p) \in Nat /\ Len(p) # 0
    BY <2>1, ConcatProperties, LenProperties, EmptySeq
  <2>3. b \o p # <<>>
    BY <2>2, EmptySeq
  <2> QED
    BY <2>1, <2>3 DEF b
<1>5. CASE c.state = "DEFINE"
  <2>1. Asking(c, stream)
    BY <1>5 DEF Serving
  <2>2. c.buffer = <<>> /\ g.buffer = p
    <3>1. <<>> \o p = p
      BY ConcatEmptySeq
    <3> QED
      BY <2>1, <3>1 DEF Asking
  <2>3. stream # <<>>
    <3>1. Len(p \o r) = Len(p) + Len(r) /\ Len(p) \in Nat /\ Len(r) \in Nat /\ Len(p) # 0
      BY ConcatProperties, LenProperties, EmptySeq
    <3>2. p \o r # <<>>
      BY <3>1, EmptySeq
    <3> QED
      BY <3>2
  <2>4. c.next - 1 \in Queries /\ c.sent = <<>> /\ stream = DefineReply(c.next - 1)
    BY <2>1, <2>3 DEF Asking
  <2>5. /\ TextOf(g.text) = <<>> /\ ~HasDot(g.text, Len(g.text)) /\ g.shown = <<>> /\ g.sent = <<>>
        /\ \A q \in 1 .. g.next - 2 : holds[q] = <<>>
    BY <1>2, <2>1, <2>4 DEF Asking
  <2>6. g.buffer \o r = DefineReply(g.next - 1) /\ g.next - 1 \in Queries /\ g.state = "DEFINE"
    BY <1>2, <1>5, <2>2, <2>4
  <2>7. d \in Articles /\ Serving(d, r) /\ d.impl = g.impl
    BY <1>3, <1>4, <2>5, <2>6, Answered
  <2> QED
    BY <1>2, <2>7
<1>6. CASE c.state = "DEFINE_DATA"
  <2>1. Gathering(c, stream)
    BY <1>6 DEF Serving
  <2>2. d = ReadData(ReadLine(g), Head(g.buffer))
    BY <1>2, <1>6 DEF ArticleReads
  <2>3. IF HasDot(g.text, Len(g.text)) THEN \E w \in Held : TextOf(g.text) = <<w, w>>
        ELSE /\ g.buffer[1].kind # "250"
             /\ ~HasDot(g.buffer, Len(g.buffer)) => Body(r)
             /\ \E w \in Held : TextOf(g.text) \o TextOf(g.buffer \o r) = <<w, w>>
    <3>1. CASE HasDot(g.text, Len(g.text))
      BY <1>2, <2>1, <3>1 DEF Gathering
    <3>2. CASE ~HasDot(g.text, Len(g.text))
      <4>1. /\ c.buffer = <<>> /\ Body(stream)
            /\ \E w \in Held : TextOf(c.text) \o TextOf(stream) = <<w, w>>
        BY <1>2, <2>1, <3>2 DEF Gathering
      <4>2. <<>> \o p = p
        BY ConcatEmptySeq
      <4>3. g.buffer = p /\ g.buffer \o r = stream
        BY <4>1, <4>2
      <4>4. Body(p \o r)
        BY <4>1
      <4>5. ~HasDot(p, Len(p)) => Body(r)
        BY <4>4, BodyFacts
      <4>6. p[1].kind \in {"151", "word", "."}
        BY <4>4, BodyFacts
      <4> QED
        BY <1>2, <3>2, <4>1, <4>3, <4>5, <4>6
    <3> QED
      BY <3>1, <3>2
  <2>4. d \in Articles /\ Whole(d) /\ Gathering(d, r) /\ d.state = g.state /\ d.impl = g.impl
    BY <1>3, <1>4, <2>2, <2>3, ReadMore
  <2> HIDE DEF d
  <2>5. Serving(d, r)
    BY <1>2, <1>6, <2>4 DEF Serving
  <2> QED
    BY <1>2, <2>4, <2>5 DEF d
<1> QED
  BY <1>1, <1>5, <1>6

-----------------------------------------------------------------------------
(* The connection of an article request. *)

\* Lines that came while the connection was made.
Greeted(t) == \A i \in 1 .. Len(t) : t[i].kind \in Greetings

\* They have no text, and no dot.
LEMMA GreetedFacts ==
  ASSUME NEW t \in Seq(Lines), Greeted(t)
  PROVE  TextOf(t) = <<>> /\ ~HasDot(t, Len(t))
<1>1. \A i \in 1 .. Len(t) : t[i].kind # "word" /\ t[i].kind # "."
  BY DEF Greeted, Greetings
<1>2. TextOf(t) = <<>>
  BY <1>1, TextOfSilent
<1> QED
  BY <1>1, <1>2 DEF HasDot

\* More of them are of the same kind.
LEMMA GreetedCat ==
  ASSUME NEW t \in Seq(Lines), Greeted(t), NEW s \in Seq(Lines), Greeted(s)
  PROVE  t \o s \in Seq(Lines) /\ Greeted(t \o s)
<1>1. /\ t \o s \in Seq(Lines) /\ Len(t \o s) = Len(t) + Len(s)
      /\ \A i \in 1 .. Len(t) + Len(s) : (t \o s)[i] = IF i <= Len(t) THEN t[i] ELSE s[i - Len(t)]
  BY ConcatProperties
<1>2. Len(t) \in Nat /\ Len(s) \in Nat
  BY LenProperties
<1> DEFINE u == t \o s
<1>3. ASSUME NEW i \in 1 .. Len(t) + Len(s) PROVE u[i].kind \in Greetings
  <2>1. CASE i <= Len(t)
    <3>1. i \in 1 .. Len(t) /\ u[i] = t[i]
      BY <1>1, <1>2, <2>1
    <3> QED
      BY <3>1 DEF Greeted
  <2>2. CASE ~(i <= Len(t))
    <3>1. i - Len(t) \in 1 .. Len(s) /\ u[i] = s[i - Len(t)]
      BY <1>1, <1>2, <2>2
    <3> QED
      BY <3>1 DEF Greeted
  <2> QED
    BY <2>1, <2>2
<1> HIDE DEF u
<1>4. Greeted(u)
  BY <1>1, <1>3 DEF Greeted, u
<1> QED
  BY <1>1, <1>4 DEF u

\* The slot of the request on a line of the handshake.
LEMMA GreetingRead ==
  ASSUME NEW c \in Articles, NEW s \in Seq(Lines), c.buffer = s, Len(s) = 1, Greeted(s),
         Greeted(c.text)
  PROVE  LET d == ArticleReads(c)
         IN  /\ d \in Articles /\ d.buffer \in {s, <<>>} /\ Greeted(d.text)
             /\ d.state = c.state /\ d.impl = c.impl /\ d.shown = c.shown
             /\ d.sent = c.sent /\ d.next = c.next /\ d.fin = c.fin
             /\ d.list = c.list /\ d.matches = c.matches
<1> DEFINE d == ArticleReads(c)
           r == ReadLine(c)
           Goal(e) == /\ e \in Articles /\ e.buffer \in {s, <<>>} /\ Greeted(e.text)
             /\ e.state = c.state /\ e.impl = c.impl /\ e.shown = c.shown
             /\ e.sent = c.sent /\ e.next = c.next /\ e.fin = c.fin
             /\ e.list = c.list /\ e.matches = c.matches
<1>1. /\ r \in Articles /\ SameArticle(c, r) /\ r.sent = c.sent /\ r.next = c.next /\ r.fin = c.fin
      /\ r.list = c.list /\ r.matches = c.matches
  BY ArticleLine
<1>2. s # <<>> /\ Tail(s) = <<>> /\ Head(s) = s[1] /\ s[1] \in Lines /\ s[1].kind \in Greetings
      /\ <<s[1]>> = s
  <2>1. s # <<>>
    <3>1. Len(<<>>) = 0
      BY EmptySeq
    <3>2. ASSUME s = <<>> PROVE FALSE
      <4>1. Len(<<>>) = 1
        BY <3>2
      <4> QED
        BY <3>1, <4>1
    <3> QED
      BY <3>2
  <2>2. Tail(s) \in Seq(Lines) /\ Len(Tail(s)) = 0
    BY <2>1, HeadTailProperties
  <2>3. Tail(s) = <<>>
    BY <2>2, EmptySeq
  <2>4. Head(s) = s[1] /\ s[1] \in Lines
    BY <2>1
  <2>5. s[1].kind \in Greetings
    BY DEF Greeted
  <2>6. <<s[1]>> = s
    <3> DEFINE o == <<s[1]>>
    <3>1. o \in Seq(Lines) /\ Len(o) = 1 /\ o[1] = s[1]
      BY <2>4
    <3> HIDE DEF o
    <3>2. \A i \in 1 .. 1 : o[i] = s[i]
      BY <3>1
    <3>3. o = s
      BY <3>1, <3>2, SeqEqual
    <3> QED
      BY <3>3 DEF o
  <2> QED
    BY <2>1, <2>3, <2>4, <2>5, <2>6
<1>3. r.buffer = <<>>
  <2>1. r.buffer = IF c.buffer = <<>> THEN <<>> ELSE Tail(c.buffer)
    BY ArticleLine
  <2> QED
    BY <1>2, <2>1
<1>4. Goal(r)
  BY <1>1, <1>3 DEF SameArticle
<1>5. Goal(c)
  OBVIOUS
<1>6. c.state \in {"START", "DEFINE", "DEFINE_DATA"}
  BY DEF Articles
<1>7. FirstKind(c) = s[1].kind /\ FirstKind(r) = "none"
  BY <1>2, <1>3 DEF FirstKind
<1>8. CASE c.state = "START"
  <2>1. d = c
    BY <1>8 DEF ArticleReads
  <2> QED
    BY <1>5, <2>1
<1>9. CASE c.state = "DEFINE" /\ FirstKind(c) = "250"
  <2> DEFINE q == ReadLine(r)
  <2>1. d = q
    BY <1>7, <1>9 DEF ArticleReads, ReadDefinition
  <2> HIDE DEF r
  <2>2. /\ q \in Articles /\ SameArticle(r, q) /\ q.sent = r.sent /\ q.next = r.next /\ q.fin = r.fin
        /\ q.list = r.list /\ q.matches = r.matches
    BY <1>4, ArticleLine
  <2>3. q.buffer = <<>>
    <3>1. q.buffer = IF r.buffer = <<>> THEN <<>> ELSE Tail(r.buffer)
      BY <1>4, ArticleLine
    <3> QED
      BY <1>3, <3>1
  <2> HIDE DEF q
  <2>4. Goal(q)
    BY <1>4, <2>2, <2>3 DEF SameArticle
  <2> QED
    BY <2>1, <2>4
<1>10. CASE c.state = "DEFINE" /\ FirstKind(c) # "250"
  <2>1. FirstKind(c) # "552" /\ FirstKind(c) # "150"
    BY <1>2, <1>7 DEF Greetings
  <2>2. d = r
    BY <1>10, <2>1 DEF ArticleReads, ReadDefinition
  <2> QED
    BY <1>4, <2>2
<1>11. CASE c.state = "DEFINE_DATA"
  <2> DEFINE l == s[1]
  <2>1. d = ReadData(r, l)
    BY <1>2, <1>11 DEF ArticleReads
  <2>2. CASE l.kind = "250"
    <3>1. d = r
      BY <2>1, <2>2 DEF ReadData
    <3> QED
      BY <1>4, <3>1
  <2>3. CASE l.kind # "250"
    <3> HIDE DEF r
    <3>1. PICK a \in Articles :
           /\ a.buffer = <<>> /\ a.text = r.text \o Added(l, r.buffer)
           /\ a.state = r.state /\ a.impl = r.impl /\ a.shown = r.shown
           /\ a.sent = r.sent /\ a.next = r.next /\ a.fin = r.fin
           /\ a.list = r.list /\ a.matches = r.matches
           /\ \/ ReadData(r, l) = a
              \/ ReadData(r, l) = FinishedArticle(a) /\ HasDot(a.text, Len(a.text))
      BY <1>2, <1>4, <2>3, ReadDataFacts
    <3>2. Added(l, r.buffer) = s
      <4>1. l.kind # "151"
        BY <1>2 DEF Greetings
      <4>2. s \o <<>> = s
        BY ConcatEmptySeq
      <4> QED
        BY <1>2, <1>3, <4>1, <4>2 DEF Added
    <3>3. Greeted(a.text)
      <4> DEFINE t == r.text
      <4>1. t \in Seq(Lines) /\ Greeted(t)
        BY <1>4 DEF Articles
      <4> HIDE DEF t
      <4>2. Greeted(t \o s)
        BY <4>1, GreetedCat
      <4> QED
        BY <3>1, <3>2, <4>2 DEF t
    <3>4. ~HasDot(a.text, Len(a.text))
      <4>1. a.text \in Seq(Lines)
        BY DEF Articles
      <4> QED
        BY <3>3, <4>1, GreetedFacts
    <3>5. d = a
      BY <2>1, <3>1, <3>4
    <3>6. Goal(a)
      BY <1>4, <3>1, <3>3
    <3> QED
      BY <3>5, <3>6 DEF r
  <2> QED
    BY <2>2, <2>3
<1> QED
  BY <1>6, <1>8, <1>9, <1>10, <1>11

\* DictServerImpl's slot reads a line and may send a command of the handshake.
LEMMA ArticleImplReads ==
  ASSUME NEW c \in Articles
  PROVE  LET d == ImplReads(c)
         IN  /\ d \in Articles /\ d.state = c.state /\ d.next = c.next
             /\ d.list = c.list /\ d.matches = c.matches /\ d.fin = c.fin
             /\ d.text = c.text /\ d.shown = c.shown
             /\ d.sent \in {c.sent, Append(c.sent, 0)}
             /\ d.buffer = IF c.impl = "FINISHED" \/ c.buffer = <<>> THEN c.buffer ELSE Tail(c.buffer)
             /\ c.impl = "FINISHED" => d = c
             /\ c.impl # "FINISHED" /\ d.impl = "FINISHED" => d.sent = c.sent
<1> DEFINE r == ReadLine(c)
           d == ImplReads(c)
           more == Append(c.sent, 0)
<1>1. /\ r \in Articles
      /\ r.buffer = IF c.buffer = <<>> THEN <<>> ELSE Tail(c.buffer)
      /\ r.sent = c.sent /\ r.impl = c.impl /\ r.state = c.state /\ r.next = c.next
      /\ r.list = c.list /\ r.matches = c.matches /\ r.fin = c.fin
      /\ r.text = c.text /\ r.shown = c.shown
  BY ArticleLine DEF SameArticle
<1>2. more \in Seq(0 .. NQueries)
  <2>1. 0 \in 0 .. NQueries
    BY DictServerAssumption
  <2> QED
    BY <2>1 DEF Articles
<1>3. [r EXCEPT !.impl = "CLIENT", !.sent = Append(@, 0)] = [r EXCEPT !.impl = "CLIENT", !.sent = more]
  BY <1>1
<1>4. [r EXCEPT !.impl = "OPTION", !.sent = Append(@, 0)] = [r EXCEPT !.impl = "OPTION", !.sent = more]
  BY <1>1
<1>5. \/ c.impl # "FINISHED" /\ d = [r EXCEPT !.impl = "CLIENT", !.sent = more]
      \/ c.impl # "FINISHED" /\ d = [r EXCEPT !.impl = "OPTION", !.sent = more]
      \/ c.impl = "OPTION" /\ d = [r EXCEPT !.impl = "FINISHED"]
      \/ c.impl # "FINISHED" /\ d = r
      \/ c.impl = "FINISHED" /\ d = c
  BY <1>3, <1>4 DEF ImplReads
<1> HIDE DEF r, d, more
<1> DEFINE b == IF c.buffer = <<>> THEN c.buffer ELSE Tail(c.buffer)
<1>6. r.buffer = b
  BY <1>1
<1> HIDE DEF b
<1> SUFFICES /\ d \in Articles /\ d.state = c.state /\ d.next = c.next
             /\ d.list = c.list /\ d.matches = c.matches /\ d.fin = c.fin
             /\ d.text = c.text /\ d.shown = c.shown
             /\ d.sent \in {c.sent, more}
             /\ d.buffer = IF c.impl = "FINISHED" THEN c.buffer ELSE b
             /\ c.impl = "FINISHED" => d = c
             /\ c.impl # "FINISHED" /\ d.impl = "FINISHED" => d.sent = c.sent
  BY DEF b, d, more
<1>7. CASE c.impl # "FINISHED" /\ d = [r EXCEPT !.impl = "CLIENT", !.sent = more]
  BY <1>1, <1>2, <1>6, <1>7 DEF Articles, Impls
<1>8. CASE c.impl # "FINISHED" /\ d = [r EXCEPT !.impl = "OPTION", !.sent = more]
  BY <1>1, <1>2, <1>6, <1>8 DEF Articles, Impls
<1>9. CASE c.impl = "OPTION" /\ d = [r EXCEPT !.impl = "FINISHED"]
  BY <1>1, <1>6, <1>9 DEF Articles, Impls
<1>10. CASE c.impl # "FINISHED" /\ d = r
  BY <1>1, <1>6, <1>10 DEF Articles, Impls
<1>11. CASE c.impl = "FINISHED" /\ d = c
  BY <1>11
<1> QED
  BY <1>5, <1>7, <1>8, <1>9, <1>10, <1>11

\* What an article request needs of the invariant.
Dict == TypeOK /\ Handshake /\ ArticleInv

-----------------------------------------------------------------------------
(* The steps of the article request. *)

\* What is whole, and what is asked, depends on what the server holds, which stays.
LEMMA ArticleStays ==
  ASSUME NEW c, UNCHANGED holds, Whole(c), ArticleClient' = c,
         IsCancelled => IsCancelled'
  PROVE  /\ Whole(ArticleClient)'
         /\ \A rest : Serving(c, rest) /\ stream' = rest => Serving(ArticleClient, stream)'
<1>1. Held' = Held
  BY DEF Held
<1>2. Whole(ArticleClient)'
  BY <1>1 DEF Whole
<1>3. ASSUME NEW rest, Serving(c, rest), stream' = rest
      PROVE  Serving(ArticleClient, stream)'
  <2>1. c.state = "DEFINE" => Asking(ArticleClient, stream)'
    BY <1>1, <1>3 DEF Serving, Asking, DefineReply
  <2>2. c.state = "DEFINE_DATA" => Gathering(ArticleClient, stream)'
    BY <1>1, <1>3 DEF Serving, Gathering
  <2> QED
    BY <1>2, <1>3, <2>1, <2>2 DEF Serving
<1> QED
  BY <1>2, <1>3

\* The connection or the owner of an article request goes away, or its time is over.
LEMMA ArticleSmallSteps ==
  ASSUME Dict, kind = "article", kind' = kind,
         ((Leave \/ ErrorOccurred \/ Cancel \/ Drop) /\ UNCHANGED articleVars) \/ Timeout
  PROVE  Dict'
<1>1. UNCHANGED <<holds, stream, torn, sent, impl, state, buffer, next, matchesList,
                 matches, kind, articleText, shown>>
  BY DEF Leave, ErrorOccurred, Cancel, Drop, clientVars, Timeout, articleVars
<1>2. /\ server' \in {"up", "leaving", "closed"} /\ isFinished' \in BOOLEAN
      /\ cancelled' \in BOOLEAN /\ owned' \in BOOLEAN /\ timer' \in BOOLEAN /\ timedOut' \in BOOLEAN
  BY DEF Leave, ErrorOccurred, Cancel, Drop, clientVars, Timeout, articleVars, Dict, TypeOK
<1>3. (IsCancelled => IsCancelled') /\ (isFinished' = isFinished \/ IsCancelled')
  <2>1. CASE Leave /\ UNCHANGED articleVars
    BY <2>1 DEF Leave, clientVars, articleVars, IsCancelled
  <2>2. CASE ErrorOccurred /\ UNCHANGED articleVars
    BY <2>2 DEF ErrorOccurred, articleVars, IsCancelled
  <2>3. CASE Cancel /\ UNCHANGED articleVars
    BY <2>3 DEF Cancel, articleVars, IsCancelled
  <2>4. CASE Drop /\ UNCHANGED articleVars
    BY <2>4 DEF Drop, clientVars, articleVars, IsCancelled
  <2>5. CASE Timeout
    BY <2>5 DEF Timeout, IsCancelled
  <2> QED
    BY <2>1, <2>2, <2>3, <2>4, <2>5
<1>4. TypeOK'
  BY <1>1, <1>2 DEF Dict, TypeOK
<1>5. Handshake'
  BY <1>1, <1>3 DEF Dict, Handshake
<1>6. ArticleInv'
  <2>1. Whole(ArticleClient) /\ (impl = "FINISHED" => Serving(ArticleClient, stream))
        /\ state \in {"START", "DEFINE", "DEFINE_DATA"}
    BY DEF Dict, ArticleInv
  <2> DEFINE c == [ArticleClient EXCEPT !.fin = isFinished']
  <2>2. ArticleClient' = c
    BY <1>1 DEF ArticleClient
  <2>3. /\ c.sent = ArticleClient.sent /\ c.state = ArticleClient.state
        /\ c.buffer = ArticleClient.buffer /\ c.next = ArticleClient.next
        /\ c.text = ArticleClient.text /\ c.shown = ArticleClient.shown /\ c.fin = isFinished'
        /\ ArticleClient.fin = isFinished
    BY DEF ArticleClient
  <2> HIDE DEF c
  <2>4. CASE isFinished' = isFinished
    <3>1. Whole(c) /\ (impl = "FINISHED" => Serving(c, stream))
      BY <2>1, <2>3, <2>4 DEF Whole, Serving, Asking, Gathering
    <3>2. /\ Whole(ArticleClient)'
          /\ \A rest : Serving(c, rest) /\ stream' = rest => Serving(ArticleClient, stream)'
      BY <1>1, <1>3, <2>2, <3>1, ArticleStays
    <3> QED
      BY <1>1, <2>1, <3>1, <3>2 DEF ArticleInv
  <2>5. CASE IsCancelled'
    <3> DEFINE S == {v \in Held : TRUE}
    <3>1. Held' = Held
      BY <1>1 DEF Held
    <3>2. Whole(ArticleClient)'
      BY <2>1, <2>2, <2>3, <2>5, <3>1 DEF Whole
    <3>3. ASSUME impl = "FINISHED" PROVE Serving(ArticleClient, stream)'
      <4>1. Serving(ArticleClient, stream)
        BY <2>1, <3>3
      <4>2. c.state = "DEFINE" => Asking(ArticleClient, stream)'
        BY <1>1, <2>2, <2>3, <3>1, <4>1 DEF Serving, Asking, DefineReply
      <4>3. c.state = "DEFINE_DATA" => Gathering(ArticleClient, stream)'
        BY <1>1, <2>2, <2>3, <3>1, <4>1 DEF Serving, Gathering
      <4> QED
        BY <2>2, <2>3, <3>2, <4>1, <4>2, <4>3 DEF Serving
    <3> QED
      BY <1>1, <2>1, <3>2, <3>3 DEF ArticleInv
  <2> QED
    BY <1>3, <2>4, <2>5
<1> QED
  BY <1>4, <1>5, <1>6 DEF Dict

\* What comes behind a definition changes nothing of it.
LEMMA BodyGoesOn ==
  ASSUME NEW s \in Seq(Lines), Body(s), NEW r \in Seq(Lines)
  PROVE  Body(s \o r) /\ TextOf(s \o r) = TextOf(s)
<1> DEFINE u == s \o r
<1>1. /\ u \in Seq(Lines) /\ Len(u) = Len(s) + Len(r)
      /\ \A i \in 1 .. Len(s) + Len(r) : u[i] = IF i <= Len(s) THEN s[i] ELSE r[i - Len(s)]
  BY ConcatProperties
<1>2. Len(s) \in Nat /\ Len(r) \in Nat
  OBVIOUS
<1>3. PICK k \in 1 .. Len(s) :
        s[k].kind = "." /\ \A i \in 1 .. k - 1 : s[i].kind \in {"151", "word"}
  BY DEF Body
<1> HIDE DEF u
<1>4. \A i \in 1 .. Len(s) : u[i] = s[i]
  BY <1>1, <1>2
<1>5. Body(u)
  <2>1. k \in 1 .. Len(u) /\ u[k].kind = "."
    BY <1>1, <1>2, <1>3, <1>4
  <2>2. \A i \in 1 .. k - 1 : u[i].kind \in {"151", "word"}
    <3>1. \A i \in 1 .. k - 1 : i \in 1 .. Len(s)
      BY <1>2
    <3> QED
      BY <1>3, <1>4, <3>1
  <2> QED
    BY <2>1, <2>2 DEF Body
<1>6. HasDot(s, Len(s))
  BY <1>3 DEF HasDot
<1>7. TextOf(s \o r) = TextOf(s)
  BY <1>6, TextOfCat
<1> QED
  BY <1>5, <1>7 DEF u

\* The server answers while the connection stands.
LEMMA ServingAnswer ==
  ASSUME TypeOK, NEW c \in Articles, Serving(c, stream), c.sent # <<>>,
         NEW q \in 0 .. NQueries, q = Head(c.sent),
         NEW t \in Seq(0 .. NQueries), t = Tail(c.sent),
         NEW d \in Articles, SameArticle(c, d), d.buffer = c.buffer, d.next = c.next,
         d.fin = c.fin, d.sent = t
  PROVE  Serving(d, stream \o DefineReply(q))
<1> DEFINE R == DefineReply(q)
           s == stream \o R
<1>1. c.state \in {"DEFINE", "DEFINE_DATA"} /\ Whole(c)
  BY DEF Serving
<1>2. d.state = c.state /\ d.text = c.text /\ d.shown = c.shown
  BY DEF SameArticle
<1>3. Whole(d)
  BY <1>1, <1>2 DEF Whole
<1>4. R \in Seq(Lines) /\ stream \in Seq(Lines)
  BY DefineReplyFacts DEF TypeOK
<1> HIDE DEF R
<1>5. CASE c.state = "DEFINE"
  <2>1. Asking(c, stream)
    BY <1>5 DEF Serving
  <2>2. c.next - 1 \in Queries /\ c.sent = <<c.next - 1>> /\ stream = <<>>
    BY <2>1 DEF Asking
  <2>3. q = c.next - 1 /\ t = <<>>
    BY <2>2
  <2>4. s = R
    BY <1>4, <2>2, ConcatEmptySeq
  <2>5. R = DefineReply(d.next - 1)
    BY <2>3 DEF R
  <2> HIDE DEF s
  <2>6. Asking(d, s)
    BY <1>2, <2>1, <2>2, <2>3, <2>4, <2>5 DEF Asking
  <2>7. Serving(d, s)
    BY <1>2, <1>3, <1>5, <2>6 DEF Serving
  <2> QED
    BY <2>7 DEF s, R
<1>6. CASE c.state = "DEFINE_DATA"
  <2>1. Gathering(c, stream)
    BY <1>6 DEF Serving
  <2>2. CASE HasDot(c.text, Len(c.text))
    <3> HIDE DEF s
    <3>1. Gathering(d, s)
      BY <1>2, <2>1, <2>2 DEF Gathering
    <3>2. Serving(d, s)
      BY <1>2, <1>3, <1>6, <3>1 DEF Serving
    <3> QED
      BY <3>2 DEF s, R
  <2>3. CASE ~HasDot(c.text, Len(c.text))
    <3>1. /\ c.buffer = <<>> /\ Body(stream)
          /\ \E w \in Held : TextOf(c.text) \o TextOf(stream) = <<w, w>>
      BY <2>1, <2>3 DEF Gathering
    <3>2. Body(s) /\ TextOf(s) = TextOf(stream)
      BY <1>4, <3>1, BodyGoesOn
    <3> HIDE DEF s
    <3>3. Gathering(d, s)
      BY <1>2, <2>3, <3>1, <3>2 DEF Gathering
    <3>4. Serving(d, s)
      BY <1>2, <1>3, <1>6, <3>3 DEF Serving
    <3> QED
      BY <3>4 DEF s, R
  <2> QED
    BY <2>2, <2>3
<1> QED
  BY <1>1, <1>5, <1>6

\* The server answers an article request.
LEMMA ArticleAnswer ==
  ASSUME Dict, kind = "article", kind' = kind, AnswerDefine
  PROVE  Dict'
<1> DEFINE q == Head(sent)
           R == DefineReply(q)
           t == Tail(sent)
<1>1. TypeOK /\ Handshake /\ ArticleInv
  BY DEF Dict
<1>2. sent \in Seq(0 .. NQueries) /\ stream \in Seq(Lines) /\ buffer \in Seq(Lines) /\ sent # <<>>
  BY <1>1 DEF TypeOK, AnswerDefine
<1>3. q \in 0 .. NQueries /\ t \in Seq(0 .. NQueries)
  <2> DEFINE Q == 0 .. NQueries
  <2>1. sent \in Seq(Q) /\ sent # <<>>
    BY <1>2
  <2> HIDE DEF Q
  <2>2. Head(sent) \in Q /\ Tail(sent) \in Seq(Q)
    BY <2>1, HeadTailProperties
  <2> QED
    BY <2>2 DEF Q, q
<1>4. R \in Seq(Lines) /\ (q = 0 => R = <<Line("250")>>)
  BY <1>1, <1>3, DefineReplyFacts
<1>5. stream' = stream \o R /\ sent' = t
  BY DEF AnswerDefine
<1>6. UNCHANGED <<holds, server, torn, impl, state, buffer, next, matchesList,
                 matches, isFinished, cancelled, owned, kind, articleText, shown, timer, timedOut>>
  BY DEF AnswerDefine, articleVars
<1>7. IsCancelled' = IsCancelled
  BY <1>6 DEF IsCancelled
<1> HIDE DEF R
<1>8. stream \o R \in Seq(Lines)
  BY <1>2, <1>4, ConcatProperties
<1>9. TypeOK'
  <2>1. stream' \in Seq(Lines) /\ sent' \in Seq(0 .. NQueries)
    BY <1>3, <1>5, <1>8
  <2> QED
    BY <1>1, <1>6, <2>1 DEF TypeOK
<1>10. Handshake'
  <2>1. CASE impl = "FINISHED"
    BY <1>6, <2>1 DEF Handshake
  <2>2. CASE impl # "FINISHED"
    <3>1. q = 0
      BY <1>1, <1>2, <2>2, HandshakeAnswered
    <3>2. /\ sent' \in Seq({0}) /\ Len(sent') + Len(buffer') + Len(stream') <= 1
          /\ \A i \in 1 .. Len(buffer') : buffer'[i].kind \in Greetings
          /\ \A i \in 1 .. Len(stream') : stream'[i].kind \in Greetings
      BY <1>1, <1>2, <1>4, <1>5, <1>6, <2>2, <3>1, HandshakeOn
    <3> QED
      BY <1>1, <1>6, <1>7, <2>2, <3>2 DEF Handshake
  <2> QED
    BY <2>1, <2>2
<1>11. ArticleInv'
  <2>1. Whole(ArticleClient) /\ (impl = "FINISHED" => Serving(ArticleClient, stream))
        /\ state \in {"START", "DEFINE", "DEFINE_DATA"}
    BY <1>1 DEF ArticleInv
  <2> DEFINE c == [ArticleClient EXCEPT !.sent = t]
  <2>2. ArticleClient \in Articles /\ ArticleClient.sent = sent
    BY <1>1, <2>1, ArticleFacts
  <2> HIDE DEF q, t
  <2>3. ArticleClient' = c
    BY <1>5, <1>6 DEF ArticleClient
  <2>4. /\ c \in Articles /\ SameArticle(ArticleClient, c) /\ c.buffer = ArticleClient.buffer
        /\ c.next = ArticleClient.next /\ c.fin = ArticleClient.fin /\ c.sent = t
    BY <1>3, <2>2 DEF Articles, SameArticle
  <2> HIDE DEF c
  <2>5. Whole(c)
    BY <2>1, <2>4 DEF Whole, SameArticle
  <2>6. /\ Whole(ArticleClient)'
        /\ \A rest : Serving(c, rest) /\ stream' = rest => Serving(ArticleClient, stream)'
    BY <1>6, <1>7, <2>3, <2>5, ArticleStays
  <2>7. ASSUME impl = "FINISHED" PROVE Serving(ArticleClient, stream)'
    <3>1. Serving(c, stream \o DefineReply(q))
      <4>1. q = Head(ArticleClient.sent) /\ t = Tail(ArticleClient.sent) /\ ArticleClient.sent # <<>>
        BY <1>2, <2>2 DEF q, t
      <4> QED
        BY <1>1, <1>3, <2>1, <2>2, <2>4, <2>7, <4>1, ServingAnswer
    <3> QED
      BY <1>5, <2>6, <3>1 DEF R
  <2> QED
    BY <1>6, <2>1, <2>6, <2>7 DEF ArticleInv
<1> QED
  BY <1>9, <1>10, <1>11 DEF Dict

\* What the client becomes.
LEMMA ArticleBecomes ==
  ASSUME NEW d \in Articles, Becomes(d), articleText' = d.text, shown' = d.shown
  PROVE  /\ ArticleClient' = d
         /\ sent' = d.sent /\ impl' = d.impl /\ state' = d.state /\ buffer' = d.buffer
         /\ next' = d.next /\ matchesList' = d.list /\ matches' = d.matches /\ isFinished' = d.fin
         /\ sent' \in Seq(0 .. NQueries) /\ impl' \in Impls
         /\ state' \in {"START", "DEFINE", "DEFINE_DATA"}
         /\ buffer' \in Seq(Lines) /\ next' \in 1 .. NQueries + 1
         /\ matchesList' \in Seq(Words) /\ matches' \in Seq(Words) /\ isFinished' \in BOOLEAN
         /\ articleText' \in Seq(Lines) /\ shown' \in Seq(Seq(Words))
BY DEF Becomes, ArticleClient, Articles

\* A packet when the connection stands.
LEMMA ArticlePacket ==
  ASSUME Dict, kind = "article", kind' = kind, impl = "FINISHED", ArticleReadyRead
  PROVE  Dict'
<1>1. TypeOK /\ Handshake /\ ArticleInv
  BY DEF Dict
<1>2. stream \in Seq(Lines) /\ stream # <<>>
  BY <1>1 DEF TypeOK, ArticleReadyRead
<1>3. /\ UNCHANGED <<holds, server, torn, cancelled, owned, timedOut, kind>> /\ timer' = TRUE
      /\ IsCancelled' = IsCancelled
  BY DEF ArticleReadyRead, IsCancelled
<1>4. PICK n \in 1 .. Len(stream) :
        /\ stream' = SubSeq(stream, n + 1, Len(stream))
        /\ LET g == [ArticleClient EXCEPT !.buffer = @ \o SubSeq(stream, 1, n)]
               c == ImplReads(ArticleReads(g))
               d == IF CallbackDue(c) THEN StartDefine(c) ELSE c
           IN  Becomes(d) /\ articleText' = d.text /\ shown' = d.shown
  BY DEF ArticleReadyRead
<1> DEFINE p == SubSeq(stream, 1, n)
           r == SubSeq(stream, n + 1, Len(stream))
           g == [ArticleClient EXCEPT !.buffer = @ \o p]
           a == ArticleReads(g)
           c == ImplReads(a)
<1>5. p \in Seq(Lines) /\ r \in Seq(Lines) /\ p \o r = stream /\ p # <<>>
  BY <1>2, PacketFacts
<1>6. Serving(ArticleClient, stream) /\ state \in {"START", "DEFINE", "DEFINE_DATA"}
  BY <1>1 DEF ArticleInv
<1>7. ArticleClient \in Articles /\ ArticleClient.impl = impl
  BY <1>1, <1>6, ArticleFacts
<1>8. stream' = r
  BY <1>4
<1>9. CallbackDue(c) => FALSE
  BY DEF CallbackDue
<1>10. Becomes(c) /\ articleText' = c.text /\ shown' = c.shown
  BY <1>4, <1>9
<1> HIDE DEF p, r
<1>11. /\ g \in Articles /\ g.buffer = ArticleClient.buffer \o p /\ SameArticle(ArticleClient, g)
       /\ g.sent = ArticleClient.sent /\ g.next = ArticleClient.next /\ g.fin = ArticleClient.fin
  BY <1>5, <1>7, ArticleGot
<1> HIDE DEF g
<1>12. a \in Articles /\ Serving(a, r) /\ a.impl = "FINISHED"
  BY <1>1, <1>5, <1>6, <1>7, <1>11, ServingReads
<1> HIDE DEF a
<1>13. c = a
  BY <1>12, ArticleImplReads
<1> HIDE DEF c
<1>14. /\ ArticleClient' = a
       /\ sent' = a.sent /\ impl' = a.impl /\ state' = a.state /\ buffer' = a.buffer
       /\ sent' \in Seq(0 .. NQueries) /\ impl' \in Impls
       /\ state' \in {"START", "DEFINE", "DEFINE_DATA"}
       /\ buffer' \in Seq(Lines) /\ next' \in 1 .. NQueries + 1
       /\ matchesList' \in Seq(Words) /\ matches' \in Seq(Words) /\ isFinished' \in BOOLEAN
       /\ articleText' \in Seq(Lines) /\ shown' \in Seq(Seq(Words))
  BY <1>10, <1>12, <1>13, ArticleBecomes
<1>15. TypeOK'
  BY <1>1, <1>3, <1>5, <1>8, <1>14 DEF TypeOK, Impls
<1>16. Handshake'
  BY <1>12, <1>14 DEF Handshake
<1>17. ArticleInv'
  <2>1. Whole(a)
    BY <1>12 DEF Serving
  <2>2. /\ Whole(ArticleClient)'
        /\ \A rest : Serving(a, rest) /\ stream' = rest => Serving(ArticleClient, stream)'
    BY <1>3, <1>14, <2>1, ArticleStays
  <2>3. Serving(ArticleClient, stream)'
    BY <1>8, <1>12, <2>2
  <2> QED
    BY <1>14, <2>2, <2>3 DEF ArticleInv
<1> QED
  BY <1>15, <1>16, <1>17 DEF Dict

\* A packet while the connection is made.
LEMMA ArticleHandshake ==
  ASSUME Dict, kind = "article", kind' = kind, impl # "FINISHED", ArticleReadyRead
  PROVE  Dict'
<1>1. TypeOK /\ Handshake /\ ArticleInv
  BY DEF Dict
<1>2. stream \in Seq(Lines) /\ stream # <<>> /\ sent \in Seq(0 .. NQueries)
  BY <1>1 DEF TypeOK, ArticleReadyRead
<1>3. /\ UNCHANGED <<holds, server, torn, cancelled, owned, timedOut, kind>> /\ timer' = TRUE
      /\ IsCancelled' = IsCancelled
  BY DEF ArticleReadyRead, IsCancelled
<1>4. PICK n \in 1 .. Len(stream) :
        /\ stream' = SubSeq(stream, n + 1, Len(stream))
        /\ LET g == [ArticleClient EXCEPT !.buffer = @ \o SubSeq(stream, 1, n)]
               c == ImplReads(ArticleReads(g))
               d == IF CallbackDue(c) THEN StartDefine(c) ELSE c
           IN  Becomes(d) /\ articleText' = d.text /\ shown' = d.shown
  BY DEF ArticleReadyRead
<1> DEFINE p == SubSeq(stream, 1, n)
           g == [ArticleClient EXCEPT !.buffer = @ \o p]
           a == ArticleReads(g)
           c == ImplReads(a)
           d == IF c.impl = "FINISHED" THEN StartDefine(c) ELSE c
<1>5. /\ Len(stream) = 1 /\ sent = <<>> /\ buffer = <<>>
      /\ SubSeq(stream, n + 1, Len(stream)) = <<>>
      /\ buffer \o p = stream /\ next = 1 /\ shown = <<>>
  BY <1>1, <1>2, HandshakeRead
<1>6. Greeted(stream) /\ Greeted(articleText) /\ (isFinished => IsCancelled)
  BY <1>1 DEF Handshake, Greeted
<1>7. p \in Seq(Lines)
  BY <1>2, PacketFacts
<1>8. stream' = <<>> /\ Becomes(d) /\ articleText' = d.text /\ shown' = d.shown
  BY <1>4, <1>5 DEF CallbackDue
<1>9. /\ ArticleClient \in Articles
      /\ ArticleClient.sent = sent /\ ArticleClient.impl = impl
      /\ ArticleClient.state = state /\ ArticleClient.buffer = buffer
      /\ ArticleClient.next = next /\ ArticleClient.list = matchesList
      /\ ArticleClient.matches = matches /\ ArticleClient.fin = isFinished
      /\ ArticleClient.text = articleText /\ ArticleClient.shown = shown
  BY <1>1, ArticleFacts DEF ArticleInv
<1>10. matchesList = <<>> /\ matches = <<>>
  BY <1>1 DEF Handshake
<1> HIDE DEF p
<1>11. /\ g \in Articles /\ g.buffer = ArticleClient.buffer \o p /\ SameArticle(ArticleClient, g)
       /\ g.sent = ArticleClient.sent /\ g.next = ArticleClient.next /\ g.fin = ArticleClient.fin
       /\ g.list = ArticleClient.list /\ g.matches = ArticleClient.matches
  BY <1>7, <1>9, ArticleGot
<1> HIDE DEF g
<1>12. /\ g.buffer = stream /\ g.text = articleText /\ g.impl = impl /\ g.shown = <<>>
       /\ g.sent = <<>> /\ g.next = 1 /\ g.fin = isFinished /\ g.list = <<>> /\ g.matches = <<>>
  BY <1>5, <1>9, <1>10, <1>11 DEF SameArticle
<1>13. /\ a \in Articles /\ a.buffer \in {stream, <<>>} /\ Greeted(a.text)
       /\ a.impl = impl /\ a.shown = <<>>
       /\ a.sent = <<>> /\ a.next = 1 /\ a.fin = isFinished
       /\ a.list = <<>> /\ a.matches = <<>>
  BY <1>2, <1>5, <1>6, <1>11, <1>12, GreetingRead
<1> HIDE DEF a
<1>14. /\ c \in Articles /\ c.state = a.state /\ c.next = 1
       /\ c.list = <<>> /\ c.matches = <<>> /\ c.fin = isFinished
       /\ Greeted(c.text) /\ c.shown = <<>>
  BY <1>13, ArticleImplReads
<1>15. c.sent \in {a.sent, Append(a.sent, 0)} /\ (c.impl = "FINISHED" => c.sent = <<>>)
  BY <1>13, ArticleImplReads
<1>16. c.buffer = <<>>
  <2>1. c.buffer = IF a.impl = "FINISHED" \/ a.buffer = <<>> THEN a.buffer ELSE Tail(a.buffer)
    BY <1>13, ArticleImplReads
  <2>2. Tail(stream) \in Seq(Lines) /\ Len(Tail(stream)) = 0
    BY <1>2, <1>5, HeadTailProperties
  <2>3. Tail(stream) = <<>>
    BY <2>2, EmptySeq
  <2> QED
    BY <1>2, <1>13, <2>1, <2>3
<1> HIDE DEF c
<1>17. Whole(c)
  BY <1>3, <1>6, <1>14 DEF Whole
<1>18. c.impl = "FINISHED" => d \in Articles /\ Serving(d, <<>>) /\ d.impl = "FINISHED"
  <2> SUFFICES ASSUME c.impl = "FINISHED"
               PROVE  d \in Articles /\ Serving(d, <<>>) /\ d.impl = "FINISHED"
    OBVIOUS
  <2> DEFINE e == [c EXCEPT !.state = "DEFINE"]
  <2>1. d = DefineNext(e)
    BY DEF StartDefine
  <2>2. /\ e \in Articles /\ e.state = "DEFINE" /\ e.next = 1 /\ e.fin = c.fin /\ e.text = c.text
        /\ e.shown = <<>> /\ e.buffer = <<>> /\ e.sent = <<>> /\ e.impl = c.impl
    BY <1>14, <1>15, <1>16 DEF Articles
  <2> HIDE DEF e
  <2>3. Whole(e)
    BY <1>14, <1>17, <2>2 DEF Whole
  <2>4. TextOf(e.text) = <<>> /\ ~HasDot(e.text, Len(e.text))
    <3>1. e.text \in Seq(Lines) /\ Greeted(e.text)
      BY <1>14, <2>2 DEF Articles
    <3> QED
      BY <3>1, GreetedFacts
  <2>5. \A q \in 1 .. e.next - 1 : holds[q] = <<>>
    <3>1. \A q \in 1 .. 1 - 1 : FALSE
      OBVIOUS
    <3> QED
      BY <2>2, <3>1
  <2>6. holds \in [Queries -> Replies]
    BY <1>1 DEF TypeOK
  <2> DEFINE rest == <<>>
  <2>7. rest = <<>>
    OBVIOUS
  <2> HIDE DEF rest, d
  <2>8. DefineNext(e) \in Articles /\ Serving(DefineNext(e), rest) /\ DefineNext(e).impl = e.impl
    BY <2>2, <2>3, <2>4, <2>5, <2>6, <2>7, AskDefine
  <2> QED
    BY <2>1, <2>2, <2>7, <2>8
<1>19. c.impl # "FINISHED" => d = c
  OBVIOUS
<1> HIDE DEF d
<1>20. d \in Articles
  BY <1>14, <1>18, <1>19
<1>21. /\ ArticleClient' = d
       /\ sent' = d.sent /\ impl' = d.impl /\ state' = d.state /\ buffer' = d.buffer
       /\ next' = d.next /\ matchesList' = d.list /\ matches' = d.matches /\ isFinished' = d.fin
  BY <1>8, <1>20, ArticleBecomes
<1>22. /\ sent' \in Seq(0 .. NQueries) /\ impl' \in Impls
       /\ state' \in {"START", "DEFINE", "DEFINE_DATA"}
       /\ buffer' \in Seq(Lines) /\ next' \in 1 .. NQueries + 1
       /\ matchesList' \in Seq(Words) /\ matches' \in Seq(Words) /\ isFinished' \in BOOLEAN
       /\ articleText' \in Seq(Lines) /\ shown' \in Seq(Seq(Words))
  BY <1>8, <1>20, ArticleBecomes
<1>23. TypeOK'
  <2>1. stream' \in Seq(Lines)
    BY <1>8, EmptySeq
  <2> QED
    BY <1>1, <1>3, <1>22, <2>1 DEF TypeOK, Impls
<1>24. Handshake'
  <2> SUFFICES ASSUME impl' # "FINISHED"
               PROVE  /\ next' = 1 /\ matchesList' = <<>> /\ matches' = <<>> /\ shown' = <<>>
                      /\ sent' \in Seq({0}) /\ Len(sent') + Len(buffer') + Len(stream') <= 1
                      /\ \A i \in 1 .. Len(buffer') : buffer'[i].kind \in Greetings
                      /\ \A i \in 1 .. Len(stream') : stream'[i].kind \in Greetings
                      /\ \A i \in 1 .. Len(articleText') : articleText'[i].kind \in Greetings
                      /\ kind' = "search" => state' = "START"
                      /\ isFinished' => IsCancelled'
    BY DEF Handshake
  <2>1. d = c
    BY <1>18, <1>19, <1>21
  <2>2. /\ sent' = c.sent /\ buffer' = <<>> /\ next' = 1 /\ matchesList' = <<>>
        /\ matches' = <<>> /\ isFinished' = isFinished /\ shown' = <<>> /\ articleText' = c.text
    BY <1>8, <1>14, <1>16, <1>21, <2>1
  <2>3. sent' \in Seq({0}) /\ Len(sent') <= 1 /\ Len(sent') \in Nat
    <3>1. sent' \in {sent, Append(sent, 0)}
      BY <1>5, <1>13, <1>15, <2>2
    <3> QED
      BY <1>2, <1>5, <3>1, HandshakeSends
  <2>4. Len(buffer') = 0 /\ Len(stream') = 0
    BY <1>8, <2>2, EmptySeq
  <2>5. Len(sent') + Len(buffer') + Len(stream') <= 1
    BY <2>3, <2>4
  <2>6. \A i \in 1 .. Len(articleText') : articleText'[i].kind \in Greetings
    BY <1>14, <2>2 DEF Greeted
  <2>7. /\ \A i \in 1 .. Len(buffer') : buffer'[i].kind \in Greetings
        /\ \A i \in 1 .. Len(stream') : stream'[i].kind \in Greetings
    BY <2>4
  <2> QED
    BY <1>3, <1>6, <2>2, <2>3, <2>5, <2>6, <2>7
<1>25. ArticleInv'
  <2>1. Whole(d)
    BY <1>17, <1>18, <1>19 DEF Serving
  <2>2. /\ Whole(ArticleClient)'
        /\ \A rest : Serving(d, rest) /\ stream' = rest => Serving(ArticleClient, stream)'
    BY <1>3, <1>21, <2>1, ArticleStays
  <2>3. impl' = "FINISHED" => Serving(ArticleClient, stream)'
    BY <1>8, <1>18, <1>19, <1>21, <2>2
  <2> QED
    BY <1>22, <2>2, <2>3 DEF ArticleInv
<1> QED
  BY <1>23, <1>24, <1>25 DEF Dict

-----------------------------------------------------------------------------
(* The invariant, and what follows from it. *)

\* It holds initially ...
LEMMA InitInv ==
  ASSUME DictInit
  PROVE  Inv
<1> DEFINE l == Line(IF server = "up" THEN "220" ELSE "530")
           s == <<l>>
<1>1. /\ holds \in [Queries -> Replies] /\ server \in {"up", "leaving"}
      /\ stream = s /\ torn = FALSE /\ impl = "CONNECT"
      /\ sent = <<>> /\ buffer = <<>> /\ next = 1
      /\ matchesList = <<>> /\ matches = <<>> /\ isFinished = FALSE
      /\ cancelled = FALSE /\ owned = TRUE /\ timer \in BOOLEAN
      /\ articleText = <<>> /\ shown = <<>> /\ timedOut = FALSE
      /\ \/ kind = "search" /\ state = "START"
         \/ kind = "article" /\ state \in {"START", "DEFINE", "DEFINE_DATA"}
  BY DEF DictInit, Init
<1>2. l \in Lines /\ l.kind \in Greetings
  BY DEF Line, Lines, Greetings
<1> HIDE DEF l
<1>3. s \in Seq(Lines) /\ Len(s) = 1 /\ s[1] = l
  BY <1>2
<1> HIDE DEF s
<1>4. Len(sent) = 0 /\ Len(buffer) = 0 /\ Len(articleText) = 0 /\ Len(stream) = 1
  BY <1>1, <1>3, EmptySeq
<1>5. TypeOK
  <2>1. next \in 1 .. NQueries + 1
    BY <1>1, DictServerAssumption
  <2>2. /\ sent \in Seq(0 .. NQueries) /\ buffer \in Seq(Lines) /\ articleText \in Seq(Lines)
        /\ matchesList \in Seq(Words) /\ matches \in Seq(Words) /\ shown \in Seq(Seq(Words))
    BY <1>1, EmptySeq
  <2> QED
    BY <1>1, <1>3, <2>1, <2>2 DEF TypeOK
<1>6. Handshake
  <2>1. \A i \in 1 .. Len(stream) : stream[i].kind \in Greetings
    <3>1. \A i \in 1 .. 1 : i = 1
      OBVIOUS
    <3> QED
      BY <1>1, <1>2, <1>3, <3>1
  <2>2. sent \in Seq({0}) /\ Len(sent) + Len(buffer) + Len(stream) <= 1
    BY <1>1, <1>4, EmptySeq
  <2>3. /\ \A i \in 1 .. Len(buffer) : buffer[i].kind \in Greetings
        /\ \A i \in 1 .. Len(articleText) : articleText[i].kind \in Greetings
    BY <1>4
  <2> QED
    BY <1>1, <2>1, <2>2, <2>3 DEF Handshake
<1>7. SearchInv
  <2>1. Linked(stream)
    <3>1. \A i \in 1 .. Len(stream) : stream[i].kind \notin {"152", "word"}
      <4>1. \A i \in 1 .. 1 : i = 1
        OBVIOUS
      <4> QED
        BY <1>1, <1>2, <1>3, <4>1 DEF Greetings
    <3> QED
      BY <3>1 DEF Linked
  <2>2. buffer \o stream = stream
    BY <1>1, <1>3, ConcatEmptySeq
  <2>3. Linked(buffer \o stream)
    BY <2>1, <2>2
  <2> QED
    BY <1>1, <2>3 DEF SearchInv
<1>8. ExactInv
  BY <1>1 DEF ExactInv
<1>9. ArticleInv
  <2> SUFFICES ASSUME kind = "article"
               PROVE  state \in {"START", "DEFINE", "DEFINE_DATA"} /\ Whole(ArticleClient)
    BY <1>1 DEF ArticleInv
  <2>1. state \in {"START", "DEFINE", "DEFINE_DATA"}
    BY <1>1
  <2>2. ArticleClient.shown = <<>> /\ ArticleClient.fin = FALSE
    BY <1>1 DEF ArticleClient
  <2>3. DOMAIN ArticleClient.shown = {}
    BY <2>2
  <2>4. Whole(ArticleClient)
    BY <2>2, <2>3 DEF Whole
  <2> QED
    BY <2>1, <2>4
<1> QED
  BY <1>5, <1>6, <1>7, <1>8, <1>9 DEF Inv

\* ... and every step keeps it.
LEMMA NextInv ==
  ASSUME Inv, [DictNext]_dictVars
  PROVE  Inv'
<1>1. TypeOK /\ Handshake /\ SearchInv /\ ExactInv /\ ArticleInv
  BY DEF Inv
<1>2. ASSUME kind = "search", Next, UNCHANGED <<kind, articleVars>>
      PROVE  Inv'
  <2>1. Base
    BY <1>1 DEF Base
  <2>2. CASE Answer
    BY <1>1, <1>2, <2>1, <2>2, AnswerKeeps, ExactAnswer DEF Base, ArticleInv, Inv
  <2>3. CASE Leave \/ ErrorOccurred \/ Cancel \/ Drop
    BY <1>1, <1>2, <2>1, <2>3, SmallStepsKeep, ExactSmallSteps DEF Base, ArticleInv, Inv
  <2>4. CASE ReadyRead
    <3>1. Base'
      <4>1. CASE impl = "FINISHED"
        BY <1>2, <2>1, <2>4, <4>1, SearchReads
      <4>2. CASE impl # "FINISHED"
        BY <1>2, <2>1, <2>4, <4>2, SearchHandshake
      <4> QED
        BY <4>1, <4>2
    <3>2. ExactInv'
      BY <1>1, <1>2, <2>1, <2>4, ExactPacket
    <3> QED
      BY <1>2, <3>1, <3>2 DEF Base, ArticleInv, Inv
  <2> QED
    BY <1>2, <2>2, <2>3, <2>4 DEF Next
<1>3. ASSUME kind = "article", ArticleNext, kind' = kind
      PROVE  Inv'
  <2>1. Dict
    BY <1>1 DEF Dict
  <2>2. CASE AnswerDefine
    BY <1>3, <2>1, <2>2, ArticleAnswer DEF Dict, SearchInv, ExactInv, Inv
  <2>3. CASE ArticleReadyRead
    <3>1. CASE impl = "FINISHED"
      BY <1>3, <2>1, <2>3, <3>1, ArticlePacket DEF Dict, SearchInv, ExactInv, Inv
    <3>2. CASE impl # "FINISHED"
      BY <1>3, <2>1, <2>3, <3>2, ArticleHandshake DEF Dict, SearchInv, ExactInv, Inv
    <3> QED
      BY <3>1, <3>2
  <2>4. CASE ((Leave \/ ErrorOccurred \/ Cancel \/ Drop) /\ UNCHANGED articleVars) \/ Timeout
    BY <1>3, <2>1, <2>4, ArticleSmallSteps DEF Dict, SearchInv, ExactInv, Inv
  <2> QED
    BY <1>3, <2>2, <2>3, <2>4 DEF ArticleNext
<1>4. CASE UNCHANGED dictVars
  <2>1. /\ UNCHANGED <<holds, server, stream, torn, sent, impl, state, buffer, next,
                       matchesList, matches, isFinished, cancelled, owned, kind,
                       articleText, shown, timer, timedOut>>
    BY <1>4 DEF dictVars, vars, clientVars, articleVars
  <2>2. TypeOK'
    BY <1>1, <2>1 DEF TypeOK
  <2>3. Handshake'
    BY <1>1, <2>1 DEF Handshake, IsCancelled
  <2>4. SearchInv'
    BY <1>1, <2>1 DEF SearchInv
  <2>5. IsCancelled' = IsCancelled /\ Small' = Small
    BY <2>1, HeldByStays DEF IsCancelled, Small
  <2>6. ExactInv'
    <3> SUFFICES ASSUME kind = "search", impl = "FINISHED", ~torn, Small
                 PROVE  Exact(Client, stream)' /\ (state' # "FINISHED" /\ isFinished' => IsCancelled')
      BY <2>1, <2>5 DEF ExactInv
    <3>1. Exact(Client, stream) /\ (state # "FINISHED" /\ isFinished => IsCancelled)
      BY <1>1 DEF ExactInv
    <3> DEFINE c == Client
               s == stream
    <3>2. Client' = c /\ stream' = s /\ Exact(c, s)
      BY <2>1, <3>1 DEF Client
    <3> HIDE DEF c, s
    <3>3. Exact(Client, stream)'
      BY <2>1, <3>2, ExactStays
    <3> QED
      BY <2>1, <2>5, <3>1, <3>3
  <2>7. ArticleInv'
    <3> SUFFICES ASSUME kind = "article"
                 PROVE  /\ state' \in {"START", "DEFINE", "DEFINE_DATA"} /\ Whole(ArticleClient)'
                        /\ impl' = "FINISHED" => Serving(ArticleClient, stream)'
      BY <2>1 DEF ArticleInv
    <3>1. /\ state \in {"START", "DEFINE", "DEFINE_DATA"} /\ Whole(ArticleClient)
          /\ impl = "FINISHED" => Serving(ArticleClient, stream)
      BY <1>1 DEF ArticleInv
    <3> DEFINE c == ArticleClient
               s == stream
    <3>2. ArticleClient' = c /\ stream' = s /\ Whole(c) /\ (impl = "FINISHED" => Serving(c, s))
      BY <2>1, <3>1 DEF ArticleClient
    <3> HIDE DEF c, s
    <3>3. /\ Whole(ArticleClient)'
          /\ \A rest : Serving(c, rest) /\ stream' = rest => Serving(ArticleClient, stream)'
      BY <2>1, <2>5, <3>2, ArticleStays
    <3> QED
      BY <2>1, <3>1, <3>2, <3>3
  <2> QED
    BY <2>2, <2>3, <2>4, <2>6, <2>7 DEF Inv
<1> QED
  BY <1>2, <1>3, <1>4 DEF DictNext

\* A request that was not cancelled and has ended shows what there is.
LEMMA ArticleShown ==
  ASSUME TypeOK, ArticleInv
  PROVE  ArticleIsWhole
<1> SUFFICES ASSUME kind = "article"
             PROVE  /\ \A i \in DOMAIN shown : \E w \in Held : shown[i] = <<w, w>>
                    /\ isFinished /\ ~IsCancelled => (shown = <<>> <=> Held = {})
  BY DEF ArticleIsWhole
<1>1. Whole(ArticleClient) /\ ArticleClient.shown = shown /\ ArticleClient.fin = isFinished
  BY ArticleFacts DEF ArticleInv
<1>2. \A i \in DOMAIN shown : \E w \in Held : shown[i] = <<w, w>>
  BY <1>1 DEF Whole
<1>3. isFinished /\ ~IsCancelled /\ shown = <<>> => Held = {}
  BY <1>1 DEF Whole
<1>4. Held = {} => shown = <<>>
  <2>1. ASSUME Held = {} PROVE DOMAIN shown = {}
    BY <1>2, <2>1
  <2>2. shown \in Seq(Seq(Words))
    BY DEF TypeOK
  <2>3. DOMAIN shown = 1 .. Len(shown) /\ Len(shown) \in Nat
    BY <2>2, LenProperties
  <2>4. DOMAIN shown = {} => Len(shown) = 0
    BY <2>3
  <2> QED
    BY <2>1, <2>2, <2>4, EmptySeq
<1> QED
  BY <1>2, <1>3, <1>4

\* So it holds always.
LEMMA Always == DictSpec => []Inv
BY InitInv, NextInv, PTL DEF DictSpec

\* Every variable of the two requests has its type, whatever the server holds and the
\* packets are (TypeOK); so no line of the protocol is ever taken for a headword.
THEOREM DictTyped == DictSpec => []TypeOK
<1>1. Inv => TypeOK
  BY DEF Inv
<1> QED
  BY <1>1, Always, PTL

\* A search that was not cut short gives every headword the server holds, once, for
\* every number of databases and strategies and every limit (SearchComplete): readyRead() of
\* src/src/dict/dictserver.cc loses and repeats none, however the replies are cut into packets,
\* unless one ends with the dot of a list.
THEOREM SearchesComplete == DictSpec => []SearchComplete
<1>1. Inv => SearchComplete
  BY SearchIsComplete DEF Inv, Base
<1> QED
  BY <1>1, Always, PTL

\* An article request never shows a part of a definition, and one that was not
\* cancelled shows a definition if the server holds any (ArticleIsWhole), whatever its
\* uninitialised state was and however the definitions are cut into packets.
THEOREM ArticlesWhole == DictSpec => []ArticleIsWhole
<1>1. Inv => ArticleIsWhole
  BY ArticleShown DEF Inv
<1> QED
  BY <1>1, Always, PTL
=============================================================================
