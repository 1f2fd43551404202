----------------------------- MODULE DictServer -----------------------------
(***************************************************************************)
(* The two requests a dictionary of a DICT server serves                     *)
(* (src/src/dict/dictserver.cc), each with a connection of its own: the      *)
(* search of headwords of DictServerSearch, and here that of an article,     *)
(* which asks one database after the other for its definitions of a word and *)
(* is cut off when nothing arrives for five seconds.  What a server `holds'  *)
(* for a query is then the list of its definitions, each of two lines.       *)
(***************************************************************************)
EXTENDS DictServerSearch

VARIABLES
  kind,         \* the request made: "search" or "article"
  articleText,  \* the lines gathered, never cleared
  shown,        \* the texts appended to the article
  timer,        \* whether the single-shot timer runs
  timedOut      \* it went off

articleVars == <<articleText, shown, timer, timedOut>>
dictVars == <<vars, kind, articleVars>>

\* The article request does not initialise its `state'.
DictInit ==
  /\ \/ Init /\ kind = "search" /\ timer = FALSE
     \/ /\ kind = "article" /\ timer = TRUE
        /\ \E garbage \in {"START", "DEFINE", "DEFINE_DATA"} :
             /\ holds \in [Queries -> Replies]
             /\ server \in IF MayLeave THEN {"up", "leaving"} ELSE {"up"}
             /\ stream = <<Line(IF server = "up" THEN "220" ELSE "530")>> /\ torn = FALSE
             /\ impl = "CONNECT" /\ state = garbage
             /\ sent = <<>> /\ buffer = <<>> /\ next = 1
             /\ matchesList = <<>> /\ matches = <<>> /\ isFinished = FALSE
             /\ cancelled = FALSE /\ owned = TRUE
  /\ articleText = <<>> /\ shown = <<>> /\ timedOut = FALSE

-----------------------------------------------------------------------------
(* The server. *)

Definition(w) == <<Line("151"), WordLine(w), WordLine(w), Line(".")>>

Definitions(list) ==
  LET lines[i \in 0 .. Len(list)] ==
        IF i = 0 THEN <<>> ELSE lines[i - 1] \o Definition(list[i])
  IN  lines[Len(list)]

DefineReply(command) ==
  IF command = 0 THEN <<Line("250")>>
  ELSE IF holds[command] = <<>> THEN <<Line("552")>>
  ELSE <<Line("150")>> \o Definitions(holds[command]) \o <<Line("250")>>

AnswerDefine ==
  /\ server = "up" /\ sent # <<>>
  /\ stream' = stream \o DefineReply(Head(sent))
  /\ sent' = Tail(sent)
  /\ UNCHANGED <<holds, server, torn, impl, state, buffer, next, matchesList,
                 matches, isFinished, cancelled, owned, articleVars>>

-----------------------------------------------------------------------------
(* DictServerArticleRequest, as functions of its state. *)

\* The connection's error and the timer cancel it as its owner does.
IsCancelled == cancelled \/ timedOut \/ server = "closed"

ArticleClient ==
  [sent |-> sent, impl |-> impl, state |-> state, buffer |-> buffer, next |-> next,
   list |-> matchesList, matches |-> matches, fin |-> isFinished,
   text |-> articleText, shown |-> shown]

DefineNext(c) ==
  IF NoMoreQueries(c.next) THEN [c EXCEPT !.fin = TRUE]
  ELSE [c EXCEPT !.sent = Append(@, c.next), !.next = @ + 1]

HasDot(lines, n) == \E i \in 1 .. n : lines[i].kind = "."

\* The lines before the first dot that are not replies of the server.
TextOf(lines) ==
  LET text[i \in 0 .. Len(lines)] ==
        IF i = 0 THEN <<>>
        ELSE IF lines[i].kind = "word" /\ ~HasDot(lines, i)
             THEN Append(text[i - 1], lines[i].word)
        ELSE text[i - 1]
  IN  text[Len(lines)]

\* The slot of finishedArticle(), and then the next database.
FinishedArticle(c) ==
  IF IsCancelled THEN [c EXCEPT !.fin = TRUE]
  ELSE DefineNext([c EXCEPT !.shown = Append(@, TextOf(c.text))])

\* Mutated form: whatever arrived is taken for all of it.
SomeLine(lines) == lines # <<>>

\* A dot on a line of its own, after another line.
EndsText(lines) == \E i \in 2 .. Len(lines) : lines[i].kind = "."

\* readData(): after a line "151" the end is looked for in all of the text, after
\* another only in what came behind that line.
ReadData(c, line) ==
  LET all == [c EXCEPT !.buffer = <<>>,
                       !.text = @ \o (IF line.kind = "151" THEN <<>> ELSE <<line>>)
                                  \o c.buffer]
      seen == IF line.kind = "151" THEN all.text ELSE c.buffer
  IN  CASE line.kind = "250" -> c
        [] line.kind # "250" /\ EndsText(seen) -> FinishedArticle(all)
        [] OTHER -> all

\* The state is DEFINE until the first reply with definitions: a "250" left over
\* is skipped.  Once it is DEFINE_DATA it stays so for the databases that follow.
ReadDefinition(c) ==
  CASE FirstKind(c) = "552" -> DefineNext(ReadLine(c))
    [] FirstKind(c) = "150" ->
         [ReadData(ReadLine(c), Head(c.buffer)) EXCEPT !.state = "DEFINE_DATA"]
    [] OTHER -> ReadLine(c)

ArticleReads(c) ==
  CASE c.state = "DEFINE" /\ FirstKind(c) = "250" -> ReadDefinition(ReadLine(c))
    [] c.state = "DEFINE" /\ FirstKind(c) # "250" -> ReadDefinition(c)
    [] c.state = "DEFINE_DATA" -> ReadData(ReadLine(c), Head(c.buffer))
    [] OTHER -> c

\* The callback of the article request.
StartDefine(c) == DefineNext([c EXCEPT !.state = "DEFINE"])

\* readyRead(): the timer starts anew; the request reads first, even while the
\* connection is not made, and then the connection what is left.
ArticleReadyRead ==
  /\ owned /\ stream # <<>> /\ timer' = TRUE
  /\ \E n \in 1 .. Len(stream) :
       /\ stream' = SubSeq(stream, n + 1, Len(stream))
       /\ \E got \in {[ArticleClient EXCEPT !.buffer = @ \o SubSeq(stream, 1, n)]} :
            \E c \in {ImplReads(ArticleReads(got))} :
              \E d \in {IF CallbackDue(c) THEN StartDefine(c) ELSE c} :
                Becomes(d) /\ articleText' = d.text /\ shown' = d.shown
  /\ UNCHANGED <<holds, server, torn, cancelled, owned, timedOut>>

\* Nothing arrived for five seconds.
Timeout ==
  /\ owned /\ timer /\ timer' = FALSE
  /\ timedOut' = TRUE /\ isFinished' = TRUE
  /\ UNCHANGED <<holds, server, stream, torn, sent, impl, state, buffer, next,
                 matchesList, matches, cancelled, owned, articleText, shown>>

ArticleNext ==
  \/ AnswerDefine \/ ArticleReadyRead \/ Timeout
  \/ (Leave \/ ErrorOccurred \/ Cancel \/ Drop) /\ UNCHANGED articleVars

DictNext ==
  /\ UNCHANGED kind
  /\ \/ kind = "search" /\ Next /\ UNCHANGED articleVars
     \/ kind = "article" /\ ArticleNext

\* The server answers, the network delivers, and the timer goes off if it is let.
Fairness ==
  /\ WF_dictVars(/\ kind = "search" /\ (Answer \/ ReadyRead \/ ErrorOccurred)
                 /\ UNCHANGED <<kind, articleVars>>)
  /\ WF_dictVars(kind = "article" /\ Timeout /\ UNCHANGED kind)

DictSpec == DictInit /\ [][DictNext]_dictVars /\ Fairness

-----------------------------------------------------------------------------
(* Properties. *)

Lines == [kind : {"220", "530", "250", "150", "151", "152", "552", "."}, word : {0}]
           \cup [kind : {"word"}, word : Words]

\* Every variable has its type; in particular no line of the protocol is ever
\* taken for a headword.
TypeOK ==
  /\ kind \in {"search", "article"}
  /\ holds \in [Queries -> Replies]
  /\ server \in {"up", "leaving", "closed"}
  /\ sent \in Seq(0 .. NQueries)
  /\ {stream, buffer, articleText} \subseteq Seq(Lines)
  /\ impl \in {"CONNECT", "CLIENT", "OPTION", "FINISHED"}
  /\ state \in {"START", "MATCH", "MATCH_DATA", "DEFINE", "DEFINE_DATA", "FINISHED"}
  /\ next \in 1 .. NQueries + 1
  /\ matchesList \in Seq(Words) /\ matches \in Seq(Words) /\ shown \in Seq(Seq(Words))
  /\ {torn, isFinished, cancelled, owned, timer, timedOut} \subseteq BOOLEAN

\* What a search gives is what the server holds (see AllMatched).
SearchComplete == kind = "search" => AllMatched

\* No text is ever shown but a whole definition the server holds, whatever the
\* packets, when the timer goes off or the server leaves; and a request that was
\* not cancelled shows one if there is any (src/src/dict/dictserver.cc:877).
ArticleIsWhole ==
  kind = "article" =>
    /\ \A i \in DOMAIN shown : \E w \in Held : shown[i] = <<w, w>>
    /\ isFinished /\ ~IsCancelled => (shown = <<>>) <=> (Held = {})

\* A request ends: no reply is waited for that will not come, or the timer ends it.
RequestFinishes == <>isFinished
=============================================================================
