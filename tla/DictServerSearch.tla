-------------------------- MODULE DictServerSearch --------------------------
(***************************************************************************)
(* A headword search at a DICT server (RFC 2229): the connection            *)
(* DictServerImpl and the DictServerWordSearchRequest that uses it          *)
(* (src/src/dict/dictserver.cc).  Both are driven by readyRead() of one     *)
(* socket, the request's slot first.  A line of the protocol is a record;   *)
(* lines arrive whole, in chunks the network chooses.                       *)
(***************************************************************************)
EXTENDS Naturals, Sequences, FiniteSets, SequencesExt

CONSTANTS
  NQueries,     \* (strategy, database) pairs to ask the server for
  Words,        \* headwords, as numbers
  Replies,      \* the lists of headwords a query may be answered with
  MaxMatches,   \* MAX_MATCHES_COUNT
  MayLeave      \* whether the server may turn the client away, or go away

Queries == 1 .. NQueries

ASSUME DictServerAssumption ==
  /\ NQueries \in Nat /\ MaxMatches \in Nat \ {0}
  /\ Words \subseteq Nat \ {0} /\ Replies \subseteq Seq(Words)
  /\ MayLeave \in BOOLEAN

VARIABLES
  holds,       \* what the server has for each query
  server,      \* "up", "leaving" (it answers no more), or "closed"
  sent,        \* commands the server has not answered yet
  stream,      \* lines on their way to the client
  torn,        \* some packet ended with a dot, before the "250" that follows it
  impl,        \* state of DictServerImpl
  state,       \* state of the request
  buffer,      \* lines that arrived and were not read
  next,        \* currentStrategy and currentDatabase: the next query
  matchesList, matches, isFinished,
  cancelled,   \* cancel() was called by the owner
  owned        \* the owner still holds the request

clientVars == <<sent, impl, state, buffer, next, matchesList, matches,
                isFinished>>
vars == <<holds, server, stream, torn, clientVars, cancelled, owned>>

Line(kind) == [kind |-> kind, word |-> 0]
WordLine(w) == [kind |-> "word", word |-> w]

Init ==
  /\ holds \in [Queries -> Replies]
  /\ server \in IF MayLeave THEN {"up", "leaving"} ELSE {"up"}
  /\ sent = <<>> /\ buffer = <<>>
  /\ stream = <<Line(IF server = "up" THEN "220" ELSE "530")>> /\ torn = FALSE
  /\ impl = "CONNECT" /\ state = "START"
  /\ next = 1
  /\ matchesList = <<>> /\ matches = <<>> /\ isFinished = FALSE
  /\ cancelled = FALSE /\ owned = TRUE

-----------------------------------------------------------------------------
(* The server, which is not part of the sources: it answers every command in
   order, until it leaves. *)

ReplyTo(command) ==
  IF command = 0 THEN <<Line("250")>>
  ELSE IF holds[command] = <<>> THEN <<Line("552")>>
  ELSE <<Line("152")>> \o [i \in DOMAIN holds[command] |->
                             WordLine(holds[command][i])]
       \o <<Line("."), Line("250")>>

Answer ==
  /\ server = "up" /\ sent # <<>>
  /\ stream' = stream \o ReplyTo(Head(sent))
  /\ sent' = Tail(sent)
  /\ UNCHANGED <<holds, server, torn, impl, state, buffer, next, matchesList,
                 matches, isFinished, cancelled, owned>>

Leave ==
  /\ MayLeave /\ server = "up"
  /\ server' = "leaving"
  /\ UNCHANGED <<holds, stream, torn, clientVars, cancelled, owned>>

-----------------------------------------------------------------------------
(* The client's part of a step, as functions of the client's state. *)

Client == [sent |-> sent, impl |-> impl, state |-> state, buffer |-> buffer,
           next |-> next, list |-> matchesList, matches |-> matches,
           fin |-> isFinished]

Becomes(c) ==
  /\ sent' = c.sent /\ impl' = c.impl /\ state' = c.state
  /\ buffer' = c.buffer /\ next' = c.next /\ matchesList' = c.list
  /\ matches' = c.matches /\ isFinished' = c.fin

\* Mutated form: the words are handed over as they came.
AsTheyCame(list) == list

\* removeDuplicates().
Distinct(list) ==
  LET kept[i \in 0 .. Len(list)] ==
        IF i = 0 THEN <<>>
        ELSE IF \E j \in 1 .. i - 1 : list[j] = list[i] THEN kept[i - 1]
        ELSE Append(kept[i - 1], list[i])
  IN  kept[Len(list)]

First(list) == SubSeq(list, 1, IF Len(list) < MaxMatches THEN Len(list)
                               ELSE MaxMatches)

\* The slot of finishedMatches().
FinishedMatches(c) ==
  LET list == Distinct(c.list)
  IN  [c EXCEPT !.state = "FINISHED", !.list = list,
                !.matches = @ \o First(list), !.fin = TRUE]

\* addMatchedWord().
AddMatchedWord(c, w) ==
  LET added == [c EXCEPT !.list = Append(@, w)]
  IN  IF Len(added.list) >= MaxMatches THEN FinishedMatches(added) ELSE added

\* Mutated form: the end of the list is noticed one query late.
OneMore(n) == n > NQueries + 1

NoMoreQueries(n) == n > NQueries

\* matchNext(): a command is its query's number, 0 for those of the handshake.
MatchNext(c) ==
  IF NoMoreQueries(c.next) THEN FinishedMatches(c)
  ELSE [c EXCEPT !.state = "MATCH", !.sent = Append(@, c.next),
                 !.next = @ + 1]

\* The loop of readMatchData() over n lines.
TakeWords(c, lines, n) ==
  LET taken[i \in 0 .. n] ==
        IF i = 0 THEN c ELSE AddMatchedWord(taken[i - 1], lines[i].word)
  IN  taken[n]

\* readMatchData(): take the words up to the dot, then discard what else has
\* arrived and ask on; without a dot wait for more.
ReadMatchData(c) ==
  LET dots == {i \in DOMAIN c.buffer : c.buffer[i].kind = "."}
      n == IF dots = {} THEN Len(c.buffer) ELSE Min(dots) - 1
      read == [TakeWords(c, c.buffer, n) EXCEPT !.buffer = <<>>]
  IN  IF dots = {} THEN read ELSE MatchNext(read)

\* readLine() of a buffer with nothing in it gives an empty line.
FirstKind(c) == IF c.buffer = <<>> THEN "none" ELSE Head(c.buffer).kind
ReadLine(c) == [c EXCEPT !.buffer = IF @ = <<>> THEN @ ELSE Tail(@)]

\* The request's slot of readyRead().
RequestReads(c) ==
  CASE c.state = "MATCH" /\ Head(c.buffer).kind # "152" -> MatchNext(ReadLine(c))
    [] c.state = "MATCH" /\ Head(c.buffer).kind = "152" ->
         ReadMatchData([ReadLine(c) EXCEPT !.state = "MATCH_DATA"])
    [] c.state = "MATCH_DATA" -> ReadMatchData(c)
    [] OTHER -> c

\* Mutated form: the request is not told that the connection stands.
NoCallback(c) == c

\* The callback the request gave to DictServerImpl::run().
Callback(c) == MatchNext(c)

\* DictServerImpl's slot of readyRead() up to the callback, which is due when the
\* state becomes FINISHED.  A server that refuses is noted in the errorString of the
\* connection, and nothing else happens.
ImplReads(c) ==
  CASE c.impl = "CONNECT" /\ FirstKind(c) \in {"220", "none"} ->
         [ReadLine(c) EXCEPT !.impl = "CLIENT", !.sent = Append(@, 0)]
    [] c.impl = "CLIENT" ->
         [ReadLine(c) EXCEPT !.impl = "OPTION", !.sent = Append(@, 0)]
    [] c.impl = "OPTION" /\ FirstKind(c) = "250" ->
         [ReadLine(c) EXCEPT !.impl = "FINISHED"]
    [] c.impl # "FINISHED" -> ReadLine(c)
    [] OTHER -> c

CallbackDue(c) == impl # "FINISHED" /\ c.impl = "FINISHED"

-----------------------------------------------------------------------------
(* What the network brings: readyRead() with some more lines. *)

ReadyRead ==
  /\ owned /\ stream # <<>>
  /\ \E n \in 1 .. Len(stream) :
       /\ stream' = SubSeq(stream, n + 1, Len(stream))
       /\ torn' = (torn \/ stream[n].kind = ".")
       /\ \E got \in {[Client EXCEPT !.buffer = @ \o SubSeq(stream, 1, n)]} :
            \E c \in {IF impl = "FINISHED" THEN RequestReads(got) ELSE ImplReads(got)} :
              Becomes(IF CallbackDue(c) THEN Callback(c) ELSE c)
  /\ UNCHANGED <<holds, server, cancelled, owned>>

\* errorOccurred(): the connection ended, which the request takes as a
\* cancellation.
ErrorOccurred ==
  /\ owned /\ server = "leaving" /\ stream = <<>>
  /\ server' = "closed"
  /\ isFinished' = TRUE
  /\ UNCHANGED <<holds, stream, torn, sent, impl, state, buffer, next, matchesList,
                 matches, cancelled, owned>>

-----------------------------------------------------------------------------
(* The owner. *)

Cancel ==
  /\ owned
  /\ cancelled' = TRUE
  /\ isFinished' = TRUE
  /\ UNCHANGED <<holds, server, stream, torn, sent, impl, state, buffer, next,
                 matchesList, matches, owned>>

\* A finished request is dropped sooner or later.
Drop ==
  /\ owned /\ isFinished
  /\ owned' = FALSE
  /\ UNCHANGED <<holds, server, stream, torn, clientVars, cancelled>>

Next == Answer \/ Leave \/ ReadyRead \/ ErrorOccurred \/ Cancel \/ Drop

-----------------------------------------------------------------------------
(* Properties. *)

Held == UNION {ToSet(holds[q]) : q \in Queries}

\* What the server has for the first n queries, one after the other.
HeldBy[n \in 0 .. NQueries] == IF n = 0 THEN <<>> ELSE HeldBy[n - 1] \o holds[n]

\* A search that was not cut short has every headword the server holds, of
\* each database and strategy, once, however the replies were cut into packets,
\* but for one cut: "discard left response", says the code of what follows the
\* dot of a list (src/src/dict/dictserver.cc), and it discards what arrived.
AllMatched ==
  (isFinished /\ ~cancelled /\ server = "up" /\ ~torn
     /\ Len(HeldBy[NQueries]) < MaxMatches)
    => ToSet(matches) = Held /\ Len(matches) = Cardinality(Held)
=============================================================================
