----------------------------- MODULE ArticlePage -----------------------------
(***************************************************************************)
(* A page of articles in a view (src/src/ui/articleview.cc, with the page's   *)
(* own script src/src/scripts/gd-builtin.js and what                          *)
(* src/src/article_maker.cc broadcasts while it writes the page).  Three      *)
(* parties keep an account of the page's articles: the request, which         *)
(* broadcasts the dictionaries it writes; the view, which lists them, holds   *)
(* the id of the active one, and asks the page to change it; the page, where  *)
(* one article is marked active and any may be collapsed.  View and page      *)
(* speak through two channels: scripts one way, calls of the agent the other. *)
(* What the web engine does with pages and requests is external.              *)
(***************************************************************************)
EXTENDS Naturals, SequencesExt

CONSTANTS
  Words, Groups, Dicts,
  Articles,       \* for a word in a group its dictionaries with an article, in order
  Large,          \* dictionaries whose articles are past the size limit
  NoWord,         \* the empty word
  NoDict,         \* the empty id
  NoScroll,       \* a page address that names no article to scroll to
  MaxPages,       \* bound: pages asked for, before a way back
  MaxBacks,       \* bound: pages of the history asked for beyond them
  MaxGestures     \* bound: ways back, changes of the group, what the user does with
                  \* articles and in other views

\* What a page is asked for and its broadcasts carry (ActiveDictIds).
Queries == Words \X Groups

\* A dictionary is asked for a word once.
ASSUME ArticlePageAssumption ==
  /\ Articles \in [Queries -> Seq(Dicts)] /\ \A q \in Queries : IsInjective(Articles[q])
  /\ NoWord \notin Words /\ NoDict \notin Dicts

VARIABLES
  currentWord, currentGroupId, activeDictId, currentActiveDictIds,
  historyMode,    \* the view
  requests,       \* the pages asked for, the last one wanted now
  doc,            \* the page shown
  toPage, toView, \* the channels
  collapsedDicts, \* of the GlobalBroadcaster, of all views
  gestures,
  stray,          \* history: the list took dictionaries of another request
  astray,         \* history: a message crossed another, or missed its article
  late,           \* history: dictionaries written before their collapsing was known
  disowned        \* history: the view's word and group are not those of its page

\* What only a call for a page, a word or a group changes.
asked == <<currentWord, currentGroupId, historyMode, disowned>>
viewVars == <<asked, activeDictId, currentActiveDictIds>>
vars == <<viewVars, requests, doc, toPage, toView, collapsedDicts, gestures,
          stray, astray, late>>

Latest == Len(requests)
HasActive(ch) == \E i \in DOMAIN ch : ch[i].kind = "active"
HasCollapse(ch, d) == \E i \in DOMAIN ch : ch[i].kind \in {"collapse", "expand"} /\ ch[i].dict = d

NoDoc == [n |-> 0, articles |-> 0, active |-> NoDict, collapsed |-> {}, loaded |-> TRUE]

Init ==
  /\ currentWord = NoWord /\ currentGroupId \in Groups /\ activeDictId = NoDict
  /\ currentActiveDictIds = <<>> /\ historyMode = FALSE
  /\ requests = <<>> /\ doc = NoDoc
  /\ toPage = <<>> /\ toView = <<>> /\ collapsedDicts = {} /\ gestures = 0
  /\ stray = FALSE /\ astray = FALSE /\ late = {} /\ disowned = FALSE

-----------------------------------------------------------------------------
(* The view asks for pages. *)

AskFor(q, s) ==
  /\ requests' = Append(requests, [query |-> q, scrollTo |-> s, state |-> "asked",
                                   sent |-> 0, closed |-> {}])
  /\ currentActiveDictIds' = <<>> /\ stray' = FALSE /\ late' = {}
  /\ UNCHANGED <<activeDictId, doc, toPage, toView, collapsedDicts, astray>>

Gesture == gestures < MaxGestures /\ gestures' = gestures + 1

\* The group of the view, or of the page a link is on; a view opened for a link
\* of another view shows a page in that one's.
AskedGroups ==
  IF Latest = 0 THEN Groups
  ELSE {currentGroupId} \cup IF doc.n = 0 THEN {} ELSE {requests[doc.n].query[2]}

\* A word from elsewhere names no article, a link followed or a selection looked
\* up names the current one ("gdfrom-" alone when there is none).
ShowDefinition ==
  \E w \in Words, g \in AskedGroups, s \in {NoScroll, activeDictId} :
    /\ Latest < MaxPages /\ AskFor(<<w, g>>, s) /\ currentWord' = w /\ historyMode' = FALSE
    /\ disowned' = (g # currentGroupId) /\ UNCHANGED <<currentGroupId, gestures>>

\* With nothing but blanks for a word the view has lost its own when it returns;
\* its page and the requests go on.
ShowBlank ==
  /\ Gesture /\ currentWord' = NoWord /\ disowned' = ~historyMode
  /\ UNCHANGED <<currentGroupId, historyMode, activeDictId, currentActiveDictIds, requests,
                 doc, toPage, toView, collapsedDicts, stray, astray, late>>

\* Another group is chosen, and the word of the page shown asked for in it.
ChangeGroup(g) ==
  /\ Gesture /\ g # currentGroupId /\ currentGroupId' = g
  /\ doc.n > 0 /\ Latest < MaxPages
  /\ LET w == requests[doc.n].query[1]
     IN  AskFor(<<w, g>>, NoScroll) /\ currentWord' = w
  /\ historyMode' = FALSE /\ disowned' = FALSE

\* No page is asked for before the first is shown, nor by the popup when hidden.
ChangeGroupOnly(g) ==
  /\ Gesture /\ g # currentGroupId /\ currentGroupId' = g /\ disowned' = ~historyMode
  /\ UNCHANGED <<currentWord, historyMode, activeDictId, currentActiveDictIds, requests,
                 doc, toPage, toView, collapsedDicts, stray, astray, late>>

\* back() and forward(): the address is that of the page before, the word of the
\* view is left as it was.
GoBack ==
  \E n \in 1 .. Latest - 1 :
    /\ Latest < MaxPages + MaxBacks /\ AskFor(requests[n].query, requests[n].scrollTo)
    /\ historyMode' = TRUE /\ disowned' = FALSE /\ Gesture
    /\ UNCHANGED <<currentWord, currentGroupId>>

-----------------------------------------------------------------------------
(* The requests. *)

Current == <<currentWord, currentGroupId>>

\* The constructor: dictionaryClear, which reaches this view if word and group are its.
\* The engine makes its requests in the order of the pages.
RequestStarts(n) ==
  /\ requests[n].state = "asked" /\ \A m \in 1 .. n - 1 : requests[m].state # "asked"
  /\ requests' = [requests EXCEPT ![n].state = "running"]
  /\ IF requests[n].query = Current
     THEN currentActiveDictIds' = <<>> /\ stray' = FALSE
     ELSE UNCHANGED <<currentActiveDictIds, stray>>
  /\ UNCHANGED <<asked, activeDictId, doc, toPage, toView,
                 collapsedDicts, gestures, astray, late>>

\* Mutated form: broadcasts are told apart by the word only.
AcceptsWord(q) == q[1] = currentWord \/ historyMode

\* setActiveDictIds(): "ignore all other signals", but not in history mode.
Accepts(q) == q = Current \/ historyMode

AddNew(list, ds) ==
  LET added[i \in 0 .. Len(ds)] ==
        IF i = 0 THEN list
        ELSE IF Contains(added[i - 1], ds[i]) THEN added[i - 1]
        ELSE Append(added[i - 1], ds[i])
  IN  added[Len(ds)]

Unsent(r) == Len(Articles[r.query]) - r.sent
Sent(r) == Range(SubSeq(Articles[r.query], 1, r.sent))

\* bodyFinished(): the next k articles are written and broadcast.
BodyFinished(n, k) ==
  LET r == requests[n]
      ds == SubSeq(Articles[r.query], r.sent + 1, r.sent + k)
  IN  /\ r.state = "running" /\ k <= Unsent(r)
      /\ requests' = [requests EXCEPT
           ![n].sent = @ + k,
           ![n].closed = @ \cup (Range(ds) \cap (collapsedDicts \cup Large)),
           ![n].state = IF k = Unsent(r) THEN "done" ELSE @]
      /\ IF Accepts(r.query)
         THEN /\ currentActiveDictIds' = AddNew(currentActiveDictIds, ds)
              /\ stray' = (stray \/ (n # Latest
                              /\ (historyMode \/ r.query = requests[Latest].query)))
         ELSE UNCHANGED <<currentActiveDictIds, stray>>
      /\ late' = IF n = Latest THEN late \cup {d \in Range(ds) : HasCollapse(toView, d)}
                 ELSE late
      /\ UNCHANGED <<asked, activeDictId, doc, toPage, toView,
                     collapsedDicts, gestures, astray>>

\* The engine closes the request of a page that is no longer wanted.
RequestGone(n) ==
  /\ n < Latest /\ requests[n].state \in {"asked", "running"}
  /\ requests' = [requests EXCEPT ![n].state = "gone"]
  /\ UNCHANGED <<viewVars, doc, toPage, toView, collapsedDicts, gestures,
                 stray, astray, late>>

\* The request of another view, which the GlobalBroadcaster tells this one of.
OtherRequest(q) ==
  /\ Gesture /\ stray' = TRUE
  /\ \/ q = Current /\ currentActiveDictIds' = <<>>
     \/ /\ Accepts(q)
        /\ \E d \in Range(Articles[q]) :
             currentActiveDictIds' = AddNew(currentActiveDictIds, <<d>>)
  /\ UNCHANGED <<asked, activeDictId, requests, doc, toPage, toView,
                 collapsedDicts, astray, late>>

-----------------------------------------------------------------------------
(* The page comes. *)

\* The page before gives way; scripts meant for it are lost or run in this one.
Commit ==
  /\ doc.n < Latest /\ requests[Latest].state \in {"running", "done"}
  /\ doc' = [NoDoc EXCEPT !.n = Latest, !.loaded = FALSE]
  /\ toPage' \in {<<>>, toPage}
  /\ astray' = FALSE
  /\ UNCHANGED <<viewVars, requests, toView, collapsedDicts, gestures, stray, late>>

Request == requests[doc.n]
Shown == IF doc.n = 0 THEN {} ELSE Range(SubSeq(Articles[Request.query], 1, doc.articles))

\* The first article of a page comes marked active.
ArticleArrives ==
  /\ doc.n > 0 /\ doc.articles < Request.sent
  /\ LET d == Articles[Request.query][doc.articles + 1]
     IN  doc' = [doc EXCEPT !.articles = @ + 1,
                            !.active = IF doc.articles = 0 THEN d ELSE @,
                            !.collapsed = @ \cup ({d} \cap Request.closed)]
  /\ UNCHANGED <<viewVars, requests, toPage, toView, collapsedDicts, gestures,
                 stray, astray, late>>

\* What setCurrentArticle() does in a view that is to be seen: the id is set, and
\* the page is told.
SetCurrentArticle(d, scripts) ==
  /\ activeDictId' = d
  /\ toPage' = (toPage \o <<[kind |-> "active", dict |-> d]>>) \o scripts
  /\ astray' = HasActive(toView)

\* loadFinished(): the page is brought to the article its address names, if the
\* view is visible and the address does; without such an address the id is cleared.
LoadFinished(visible) ==
  LET s == Request.scrollTo
      check == <<[kind |-> "check", dict |-> NoDict]>>
  IN  /\ doc.n > 0 /\ ~doc.loaded /\ doc.n = Latest
      /\ Request.state = "done" /\ doc.articles = Request.sent
      /\ doc' = [doc EXCEPT !.loaded = TRUE]
      /\ \/ s = NoScroll /\ activeDictId' = NoDict
            /\ toPage' = toPage \o check /\ UNCHANGED astray
         \/ s \in Dicts /\ visible /\ SetCurrentArticle(s, check)
         \/ s # NoScroll /\ ~(s \in Dicts /\ visible)
            /\ toPage' = toPage \o check
            /\ astray' = (astray \/ activeDictId # NoDict) /\ UNCHANGED activeDictId
      /\ UNCHANGED <<asked, currentActiveDictIds, requests, toView,
                     collapsedDicts, gestures, stray, late>>

-----------------------------------------------------------------------------
(* In the page. *)

\* Mutated form: an id is marked without a look for its article.
MadeUnseen(d) == IF doc.active # NoDict THEN d ELSE NoDict

\* What gdMakeArticleActive() leaves active.  It compares an attribute with a
\* string, so that it always goes on: it throws when no article is active, and
\* takes the mark from the active one before it looks for the other, which may
\* not be there.
MadeActive(d) ==
  IF doc.active # NoDict /\ d \in Shown THEN d ELSE NoDict

\* Mutated form: the agent hears of nothing.
Unheard(d) == <<>>

Event(d) == <<[kind |-> "active", dict |-> d, page |-> doc.n]>>

\* A click on an article, or in the frame of a website when the page loses the
\* focus to it, in the page and then in what the view is told.
MakesActive(d) ==
  IF MadeActive(d) = NoDict THEN UNCHANGED <<toView, astray>>
  ELSE toView' = toView \o Event(d) /\ astray' = HasActive(toPage)

Click(d) ==
  /\ Gesture /\ d \in Shown
  /\ doc' = [doc EXCEPT !.active = MadeActive(d)]
  /\ MakesActive(d)
  /\ UNCHANGED <<viewVars, requests, toPage, collapsedDicts, stray, late>>

CollapseMsg(d, on) == [kind |-> IF on THEN "collapse" ELSE "expand", dict |-> d, page |-> doc.n]

NowLate(d) == IF doc.n # Latest THEN late \cup {d} ELSE late

\* A click on the name of a dictionary collapses its article and goes no further;
\* on that of a collapsed one it expands it, and is a click on the article too.
Collapse(d) ==
  /\ Gesture /\ d \in Shown \ doc.collapsed
  /\ doc' = [doc EXCEPT !.collapsed = @ \cup {d}]
  /\ toView' = Append(toView, CollapseMsg(d, TRUE)) /\ late' = NowLate(d)
  /\ UNCHANGED <<viewVars, requests, toPage, collapsedDicts, stray, astray>>

Expand(d) ==
  /\ Gesture /\ d \in Shown \cap doc.collapsed
  /\ doc' = [doc EXCEPT !.collapsed = @ \ {d}, !.active = MadeActive(d)]
  /\ LET told == Append(toView, CollapseMsg(d, FALSE))
     IN  IF MadeActive(d) = NoDict THEN toView' = told /\ UNCHANGED astray
         ELSE toView' = told \o Event(d) /\ astray' = HasActive(toPage)
  /\ late' = NowLate(d)
  /\ UNCHANGED <<viewVars, requests, toPage, collapsedDicts, stray>>

\* A script of the view to make an article active, of which the page says nothing.
RunMakeActive ==
  /\ toPage # <<>> /\ Head(toPage).kind = "active" /\ toPage' = Tail(toPage)
  /\ LET d == Head(toPage).dict
     IN  /\ doc' = [doc EXCEPT !.active = MadeActive(d)]
         /\ astray' = (astray \/ MadeActive(d) = NoDict)
  /\ UNCHANGED <<viewVars, requests, toView, collapsedDicts, gestures, stray, late>>

Single == {d \in doc.collapsed : Shown = {d}}

\* gdCheckArticlesNumber(): an only article that is collapsed is expanded, and the
\* view told so as if the user had.
RunCheckNumber ==
  /\ toPage # <<>> /\ Head(toPage).kind = "check" /\ toPage' = Tail(toPage)
  /\ doc' = [doc EXCEPT !.collapsed = @ \ Single]
  /\ \/ Single = {} /\ UNCHANGED <<toView, late>>
     \/ \E d \in Single : toView' = Append(toView, CollapseMsg(d, FALSE)) /\ late' = NowLate(d)
  /\ UNCHANGED <<viewVars, requests, collapsedDicts, gestures, stray, astray>>

-----------------------------------------------------------------------------
(* In the view. *)

\* Mutated form: what was expanded stays in the set.
KeepCollapsed(m) == collapsedDicts

\* collapseInHtml(), when the session remembers what is collapsed.
CollapseInHtml(m) ==
  IF m.kind = "collapse" THEN collapsedDicts \cup {m.dict} ELSE collapsedDicts \ {m.dict}

OnCollapse ==
  /\ toView # <<>> /\ Head(toView).kind # "active" /\ toView' = Tail(toView)
  /\ collapsedDicts' = CollapseInHtml(Head(toView))
  /\ UNCHANGED <<viewVars, requests, doc, toPage, gestures, stray, astray, late>>

\* The same call of another view; the page of this one hears nothing of it.
OtherCollapse(d) ==
  /\ Gesture
  /\ \E kind \in {"collapse", "expand"} : collapsedDicts' = CollapseInHtml([kind |-> kind, dict |-> d])
  /\ late' = IF Latest > 0 /\ d \in Sent(requests[Latest]) THEN late \cup {d} ELSE late
  /\ UNCHANGED <<viewVars, requests, doc, toPage, toView, stray, astray>>

OnJsActiveArticleChanged ==
  /\ toView # <<>> /\ Head(toView).kind = "active" /\ toView' = Tail(toView)
  /\ activeDictId' = Head(toView).dict
  /\ astray' = (astray \/ Head(toView).page # doc.n)
  /\ UNCHANGED <<asked, currentActiveDictIds, requests, doc, toPage,
                 collapsedDicts, gestures, stray, late>>

SetByUser(d) ==
  /\ Gesture /\ SetCurrentArticle(d, <<>>)
  /\ UNCHANGED <<asked, currentActiveDictIds, requests, doc, toView,
                 collapsedDicts, stray, late>>

PlaceOf(d) == CHOOSE i \in DOMAIN currentActiveDictIds : currentActiveDictIds[i] = d

\* moveOneArticleUp() wraps, and does nothing when no article is current.
MoveOneArticleUp ==
  /\ Contains(currentActiveDictIds, activeDictId)
  /\ LET i == PlaceOf(activeDictId)
     IN  SetByUser(currentActiveDictIds[IF i = 1 THEN Len(currentActiveDictIds) ELSE i - 1])

\* moveOneArticleDown() wraps, and takes the first for current when none is.
MoveOneArticleDown ==
  /\ currentActiveDictIds # <<>>
  /\ LET from == IF activeDictId = NoDict THEN currentActiveDictIds[1] ELSE activeDictId
     IN  /\ Contains(currentActiveDictIds, from)
         /\ SetByUser(currentActiveDictIds[(PlaceOf(from) % Len(currentActiveDictIds)) + 1])

\* A choice in the list of dictionaries found.
JumpToDictionary(d) ==
  Contains(currentActiveDictIds, d) /\ d # activeDictId /\ SetByUser(d)

-----------------------------------------------------------------------------

Next ==
  \/ ShowDefinition \/ ShowBlank \/ GoBack
  \/ \E g \in Groups : ChangeGroup(g) \/ ChangeGroupOnly(g)
  \/ \E n \in 1 .. Latest :
       \/ RequestStarts(n) \/ RequestGone(n)
       \/ \E k \in 1 .. Len(Articles[requests[n].query]) : BodyFinished(n, k)
  \/ \E q \in Queries : OtherRequest(q)
  \/ Commit \/ ArticleArrives \/ \E visible \in BOOLEAN : LoadFinished(visible)
  \/ \E d \in Dicts : Click(d) \/ Collapse(d) \/ Expand(d) \/ JumpToDictionary(d)
                     \/ OtherCollapse(d)
  \/ RunMakeActive \/ RunCheckNumber \/ OnCollapse \/ OnJsActiveArticleChanged
  \/ MoveOneArticleUp \/ MoveOneArticleDown

Spec == Init /\ [][Next]_vars

-----------------------------------------------------------------------------
(* Properties. *)

\* Nothing but gestures changes the page or the view any more.
Settled ==
  doc.loaded /\ doc.n = Latest /\ ~HasActive(toPage) /\ ~HasActive(toView)

\* The mark of the page is on one of its articles.  Once it is loaded and the
\* channels are empty, the article the view calls
\* active is the one the page marks, unless the last of them to be made active met
\* a message the other way, or was not on the page; then the next gesture brings
\* them together (src/src/ui/articleview.cc:540, src/src/scripts/gd-builtin.js:1).
Agreement ==
  /\ doc.active \in Shown \cup {NoDict}
  /\ Settled /\ ~astray /\ activeDictId # NoDict => doc.active = activeDictId

\* The list of dictionaries found, which the panel and the moves from article to
\* article use, has the articles of the page in their order, as long as no other
\* request got into it: one of the same word and group, or any in history mode; and
\* as long as the view keeps the word and group it asked for the page with, which it
\* loses to a word of blanks, to another group with no page asked for in it, and has
\* not when a page is asked for in another group (src/src/ui/articleview.cc:2012, 290).
ListIsPage ==
  doc.n > 0 /\ doc.n = Latest /\ ~stray /\ ~disowned =>
    IsPrefix(SubSeq(Articles[Request.query], 1, doc.articles), currentActiveDictIds)
      /\ IsPrefix(currentActiveDictIds, Articles[Request.query])

\* What the user collapsed or expanded last in the session is what the page shows
\* of it, and only what is large is collapsed besides, unless the article was
\* written before the call came, from this view or another
\* (src/src/ui/articleview.cc:2189).
CollapseRemembered ==
  doc.n = Latest =>
    \A d \in Shown \ late : ~HasCollapse(toView, d) =>
      /\ d \in collapsedDicts => d \in doc.collapsed
      /\ d \in doc.collapsed => d \in collapsedDicts \cup Large
=============================================================================
