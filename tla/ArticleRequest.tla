--------------------------- MODULE ArticleRequest ---------------------------
(***************************************************************************)
(* The article page of a word (ArticleRequest of src/src/article_maker.cc). *)
(* For each dictionary of the group it asks for the main forms of the word, *)
(* then for the body of the article; if there is none it looks for close    *)
(* words and then for compounds among the words of a phrase.  All of it     *)
(* runs in the GUI thread, driven by the finished() signals of requests     *)
(* that workers serve, each queued as an event.                             *)
(***************************************************************************)
EXTENDS Integers, Sequences, FiniteSets, SequencesExt

CONSTANTS
  NDicts,    \* active dictionaries
  MayThrow,  \* those whose getArticle() may throw
  MaxWords   \* most words in the phrase looked up

Dicts == 1 .. NDicts

ASSUME ArticleRequestAssumption ==
  NDicts \in Nat /\ MayThrow \subseteq Dicts /\ MaxWords \in Nat

VARIABLES
  nWords,               \* words of the phrase
  alt, body,            \* state of each dictionary's requests
  holds,                \* what a finished body request holds
  altsDone, bodyDone, foundAnyDefinitions,
  bodyRequests,         \* dictionaries whose body is still to be appended
  data, isFinished,     \* the page as a DataRequest: what was appended
  finder,               \* what the stemmedWordFinder is searching for
  start, end,           \* currentSplittedWordStart and -End
  lastGood,             \* lastGoodCompoundResult: <<start, end>> or empty
  answer,               \* history: what each compound looked up gave
  cancelled             \* the owner cancelled the page, and then dropped it

requestVars == <<alt, body, holds>>
pageVars == <<altsDone, bodyDone, foundAnyDefinitions, bodyRequests, data,
              isFinished>>
compoundVars == <<finder, start, end, lastGood, answer>>
vars == <<nWords, requestVars, pageVars, compoundVars, cancelled>>

\* A request is not made yet; served by its worker; finished, its event still
\* to come; or over: the event has come, or there never was one because the
\* request finished before the signal was connected.
RequestStates == {"none", "running", "finished", "over"}

Flagged(req) == {d \in Dicts : req[d] \in {"finished", "over"}}

Token(kind) == [kind |-> kind]
Article(label, d) == [kind |-> "article", label |-> label, of |-> d]
Compound(s, e) == [kind |-> "compound", start |-> s, end |-> e]

Compounds == {c \in (0 .. MaxWords - 1) \X (0 .. MaxWords - 1) : c[1] < c[2]}

\* The members of a finite set of numbers, the smallest first.
Ascending(S) ==
  [k \in 1 .. Cardinality(S) |->
     CHOOSE i \in S : Cardinality({j \in S : j < i}) = k - 1]

Init ==
  /\ nWords \in 0 .. MaxWords
  /\ alt = [d \in Dicts |-> "none"] /\ body = [d \in Dicts |-> "none"]
  /\ holds = [d \in Dicts |-> "nothing"]
  /\ altsDone = FALSE /\ bodyDone = FALSE /\ foundAnyDefinitions = FALSE
  /\ bodyRequests = <<>>
  /\ data = <<Token("header")>> /\ isFinished = FALSE
  /\ finder = "none" /\ start = -1 /\ end = -1 /\ lastGood = <<>>
  /\ answer = [c \in Compounds |-> "unasked"]
  /\ cancelled = FALSE

-----------------------------------------------------------------------------
(* The workers. *)

AltFinishes(d) ==
  /\ alt[d] = "running"
  /\ alt' = [alt EXCEPT ![d] = "finished"]
  /\ UNCHANGED <<nWords, body, holds, pageVars, compoundVars, cancelled>>

\* The dictionary has an article, or an error to report, or neither.
BodyFinishes(d) ==
  /\ body[d] = "running"
  /\ body' = [body EXCEPT ![d] = "finished"]
  /\ \E content \in {"article", "nothing"} :
       holds' = [holds EXCEPT ![d] = content]
  /\ UNCHANGED <<nWords, alt, pageVars, compoundVars, cancelled>>

-----------------------------------------------------------------------------
(* bodyFinished(). *)

\* The requests go in order: how many at the front of the queue have finished.
FrontFinished(queue, done) ==
  CHOOSE n \in 0 .. Len(queue) :
    /\ \A i \in 1 .. n : queue[i] \in done
    /\ n < Len(queue) => queue[n + 1] \notin done

\* Mutated form: what earlier calls appended is forgotten.
FoundNow(articles) == articles # <<>>

FoundAny(articles) == foundAnyDefinitions \/ articles # <<>>

\* Mutated form: the requests that are gone are not counted.
LabelFromFront(queue, i) == i

\* The articles the first n requests add.  The dictionary an article is shown
\* under is told from the number of requests left.
Label(queue, i) == NDicts - Len(queue) + i

NewArticles(queue, n, content) ==
  LET shown == Ascending({i \in 1 .. n : content[queue[i]] = "article"})
  IN  [k \in DOMAIN shown |-> Article(Label(queue, shown[k]), queue[shown[k]])]

\* Mutated form: a stray signal is taken for one that counts.
TakeStray == FALSE

BodyOver == bodyDone

\* bodyFinished() past its guard.
AppendBodies(queue, done, content) ==
  LET n == FrontFinished(queue, done)
      articles == NewArticles(queue, n, content)
      found == FoundAny(articles)
      last == n = Len(queue)
  IN  /\ bodyRequests' = SubSeq(queue, n + 1, Len(queue))
      /\ foundAnyDefinitions' = found
      /\ bodyDone' = last
      /\ data' = data \o articles
                 \o (CASE ~last -> <<>>
                       [] last /\ found -> <<Token("end")>>
                       [] last /\ ~found -> <<Token("notfound")>>)
      /\ isFinished' = (isFinished \/ (last /\ found))
      /\ finder' = IF last /\ ~found THEN "stemmed" ELSE finder

BodyFinished(d) ==
  /\ ~cancelled
  /\ body[d] = "finished"
  /\ body' = [body EXCEPT ![d] = "over"]
  /\ \/ /\ ~BodyOver
        /\ AppendBodies(bodyRequests, Flagged(body), holds)
     \/ /\ BodyOver
        /\ UNCHANGED <<bodyRequests, foundAnyDefinitions, bodyDone, data,
                       isFinished, finder>>
  /\ UNCHANGED <<nWords, alt, holds, altsDone, start, end, lastGood, answer,
                 cancelled>>

-----------------------------------------------------------------------------
(* altSearchFinished(). *)

\* Mutated form: the bodies that are there at once are not looked at.
LookLater(queue, done, content) ==
  /\ bodyRequests' = queue
  /\ UNCHANGED <<foundAnyDefinitions, bodyDone, data, isFinished, finder>>

\* Handle any ones which have already finished.
LookAtOnce(queue, done, content) == AppendBodies(queue, done, content)

\* What has become of the requests made when they are looked at: some finished
\* before their signal was connected, others since, with an event still to come.
\* The handler goes through them while their workers run; the one it stops at is
\* not finished then, and its event, or that of a later end, comes afterwards.
Polled(made, instant, early) ==
  [d \in Dicts |-> IF d \in early THEN "over"
                  ELSE IF d \in instant THEN "finished"
                  ELSE IF d \in made THEN "running" ELSE "none"]

\* Once all of the main forms are in, ask every dictionary for the body.  A
\* dictionary that throws gets no request; one may answer at once.
AskForBodies ==
  \E made \in SUBSET Dicts : \E instant \in SUBSET made :
    \E early \in SUBSET instant, full \in SUBSET instant :
      /\ Dicts \ MayThrow \subseteq made
      /\ altsDone' = TRUE
      /\ body' = Polled(made, instant, early)
      /\ holds' = [d \in Dicts |-> IF d \in full THEN "article" ELSE "nothing"]
      /\ LookAtOnce(Ascending(made), instant, holds')

\* The constructor: ask every dictionary for main forms, some of which may be
\* there at once, and look whether all are.
Construct ==
  /\ alt = [d \in Dicts |-> "none"] /\ ~altsDone
  /\ \E instant \in SUBSET Dicts : \E early \in SUBSET instant :
       /\ alt' = Polled(Dicts, instant, early)
       /\ IF instant = Dicts THEN AskForBodies
          ELSE UNCHANGED <<body, holds, altsDone, bodyRequests, finder,
                           foundAnyDefinitions, bodyDone, data, isFinished>>
  /\ UNCHANGED <<nWords, start, end, lastGood, answer,
                 cancelled>>

AltSearchFinished(d) ==
  /\ ~cancelled
  /\ alt[d] = "finished"
  /\ alt' = [alt EXCEPT ![d] = "over"]
  /\ IF ~altsDone /\ Flagged(alt) = Dicts THEN AskForBodies
     ELSE UNCHANGED <<body, holds, altsDone, bodyRequests, finder,
                      foundAnyDefinitions, bodyDone, data, isFinished>>
  /\ UNCHANGED <<nWords, start, end, lastGood, answer,
                 cancelled>>

-----------------------------------------------------------------------------
(* The search for close words and compounds.  The stemmedWordFinder is a    *)
(* WordFinder: one answer to each search, given by a queued finished().      *)

LookUp(s, e) == start' = s /\ end' = e /\ finder' = "compound"

\* Mutated form: a phrase may start at the last word.
LastStartLate(s) == s >= nWords - 1

\* The last word was the last possible to start from.
LastStart(s) == s >= nWords - 2

\* compoundSearchNextStep( false ): give what was found from this word on, and
\* go on from the next one; good is the last phrase found, if any.
NextStart(s, good, before) ==
  LET found == IF good = <<>> THEN <<>> ELSE <<Compound(good[1], good[2])>>
  IN  /\ lastGood' = <<>>
      /\ \/ /\ LastStart(s)
            /\ data' = data \o before \o found
                       \o <<Token("individual"), Token("end")>>
            /\ isFinished' = TRUE
            /\ finder' = "none"
            /\ UNCHANGED <<start, end>>
         \/ /\ ~LastStart(s)
            /\ data' = data \o before \o found
            /\ LookUp(s + 1, s + 2)
            /\ UNCHANGED isFinished

\* stemmedSearchFinished(): the close words, if any; then the compounds of a
\* phrase of several words, starting before the first.
StemmedSearchFinished ==
  /\ ~cancelled
  /\ finder = "stemmed"
  /\ \E close \in {<<>>, <<Token("close")>>} :
       \/ /\ nWords > 1
          /\ NextStart(-1, lastGood, close)
       \/ /\ nWords <= 1
          /\ data' = data \o close \o <<Token("end")>>
          /\ isFinished' = TRUE
          /\ finder' = "none"
          /\ UNCHANGED <<start, end, lastGood>>
  /\ UNCHANGED <<nWords, requestVars, altsDone, bodyDone,
                 foundAnyDefinitions, bodyRequests, answer, cancelled>>

\* Mutated form: a longer phrase is tried only when this one is a headword.
OnlyMatches == {"match"}

\* The answers on which a longer phrase is tried.
GoOn == {"prefix", "match"}

\* individualWordFinished(), and compoundSearchNextStep( true ) if the phrase
\* is a headword or the beginning of one: try one word more, if there is one.
IndividualWordFinished ==
  /\ ~cancelled
  /\ finder = "compound"
  /\ \E result \in {"none", "prefix", "match"} :
       LET good == IF result = "match" THEN <<start, end>> ELSE lastGood
       IN  /\ answer' = [answer EXCEPT ![<<start, end>>] = result]
           /\ \/ /\ result \in GoOn /\ end < nWords - 1
                 /\ lastGood' = good
                 /\ LookUp(start, end + 1)
                 /\ UNCHANGED <<data, isFinished>>
              \/ /\ ~(result \in GoOn /\ end < nWords - 1)
                 /\ NextStart(start, good, <<>>)
  /\ UNCHANGED <<nWords, requestVars, altsDone, bodyDone,
                 foundAnyDefinitions, bodyRequests, cancelled>>

-----------------------------------------------------------------------------
\* cancel(), which cancels the requests below it and finishes.  The reply that
\* calls it is the page's only owner and drops it, so no slot runs any more.
Cancel ==
  /\ ~isFinished
  /\ \E d \in Dicts : alt[d] # "none"
  /\ isFinished' = TRUE /\ cancelled' = TRUE
  /\ UNCHANGED <<nWords, requestVars, altsDone, bodyDone,
                 foundAnyDefinitions, bodyRequests, data, compoundVars>>

Terminated ==
  /\ isFinished
  /\ \A d \in Dicts : alt[d] # "running" /\ body[d] # "running"
  /\ cancelled \/ \A d \in Dicts : alt[d] # "finished" /\ body[d] # "finished"
  /\ UNCHANGED vars

Worker(d) == AltFinishes(d) \/ BodyFinishes(d)

Gui ==
  \/ Construct
  \/ \E d \in Dicts : AltSearchFinished(d) \/ BodyFinished(d)
  \/ StemmedSearchFinished
  \/ IndividualWordFinished

Next == (\E d \in Dicts : Worker(d)) \/ Gui \/ Cancel \/ Terminated

\* Workers run to their end and the event loop delivers what is posted.
Fairness == (\A d \in Dicts : WF_vars(Worker(d))) /\ WF_vars(Gui)

Spec == Init /\ [][Next]_vars /\ Fairness

-----------------------------------------------------------------------------
(* Properties. *)

Places(list, kind) == {i \in DOMAIN list : list[i].kind = kind}

\* What is written to the page.
TokenTypes ==
  [kind : {"header", "end", "notfound", "close", "individual"}]
    \cup [kind : {"article"}, label : Dicts, of : Dicts]
    \cup [kind : {"compound"}, start : 0 .. nWords - 2, end : 1 .. nWords - 1]

\* Every variable has its type; the phrases looked up, the best of them and those
\* on the page are of words of the phrase.
TypeOK ==
  /\ nWords \in 0 .. MaxWords
  /\ alt \in [Dicts -> RequestStates] /\ body \in [Dicts -> RequestStates]
  /\ holds \in [Dicts -> {"article", "nothing"}]
  /\ altsDone \in BOOLEAN /\ bodyDone \in BOOLEAN
  /\ foundAnyDefinitions \in BOOLEAN /\ isFinished \in BOOLEAN
  /\ cancelled \in BOOLEAN
  /\ bodyRequests \in Seq(Dicts) /\ data \in Seq(TokenTypes)
  /\ finder \in {"none", "stemmed", "compound"}
  /\ start \in {-1} \cup 0 .. nWords - 2 /\ end \in {-1} \cup 1 .. nWords - 1
  /\ lastGood \in {c \in Compounds : c[2] < nWords} \cup {<<>>}
  /\ answer \in [Compounds -> {"unasked", "none", "prefix", "match"}]

\* Articles come in the order of the dictionaries, whatever order they are
\* ready in, each only when it is ready, and under the name of the dictionary
\* it is from: "requests should go in order" (src/src/article_maker.cc:614).  The
\* name is wrong only if a dictionary further down threw and has no request.
ArticlesInOrder ==
  LET articles == Places(data, "article")
  IN  /\ \A i \in articles :
           /\ data[i].of \in Flagged(body)
           /\ holds[data[i].of] = "article"
           /\ data[i].label # data[i].of =>
                \E d \in Dicts : d > data[i].of /\ body[d] = "none"
      /\ \A i, j \in articles : i < j => data[i].of < data[j].of

\* The page has its articles in order, and is finished with all there are, closed
\* exactly once and last; it says that nothing was found exactly when nothing was.
PageComplete ==
  /\ ArticlesInOrder
  /\ isFinished /\ ~cancelled =>
       /\ {d \in Dicts : body[d] = "over" /\ holds[d] = "article"}
            \subseteq {data[i].of : i \in Places(data, "article")}
       /\ \A d \in Dicts : body[d] # "running"
       /\ Places(data, "end") = {Len(data)}
       /\ Places(data, "notfound") = {} <=> Places(data, "article") # {}

\* A phrase all of whose beginnings of two words or more begin a headword.
Reached(s, e) == \A m \in s + 1 .. e - 1 : answer[<<s, m>>] \in {"prefix", "match"}

\* The compounds that begin with word s.
Reference(s) == {e \in s + 1 .. nWords - 1 : answer[<<s, e>>] = "match" /\ Reached(s, e)}

Longest(s) == CHOOSE e \in Reference(s) : \A m \in Reference(s) : m <= e

\* Where a list of tokens offers compounds.
Offered(list) == Places(list, "compound")

\* For a phrase no dictionary has, every compound that may be one is looked up,
\* from each word on but the last, and the longest one is offered, in the order
\* of the words: none is missed because a shorter one is only the beginning of a
\* headword.
CompoundsAreLongest ==
  (isFinished /\ ~cancelled /\ ~foundAnyDefinitions) =>
    /\ \A s \in 0 .. nWords - 2 : \A e \in s + 1 .. nWords - 1 :
         Reached(s, e) => answer[<<s, e>>] # "unasked"
    /\ {data[i] : i \in Offered(data)} =
         {Compound(s, Longest(s)) :
            s \in {w \in 0 .. nWords - 2 : Reference(w) # {}}}
    /\ \A i, j \in Offered(data) : i < j => data[i].start < data[j].start

\* The page gets finished, unless its owner cancels it.
PageFinished == <>isFinished

DR == INSTANCE DataRequest WITH size <- Len(data), hasAnyData <- TRUE

\* The page is a data request: nothing is appended to it once it is finished,
\* whatever signals are still on their way.
ImplementsDataRequest == DR!Spec
=============================================================================
