# GoldenDict in TLA+

A verification project for GoldenDict, the dictionary program of this
repository: TLA+ models of the parts of it that run concurrently, outlive a
run or are easy to get wrong at their boundaries, checked by TLC on small
instances, and theorems about them, proved with TLAPS for instances of any size.
Paths are those of the repository, under `src/`.

1. [The system](#1-the-system): its parts, their state, how they interact
2. [The modules](#2-the-modules) and the code they stand for
3. [The runs](#3-the-runs), their bounds and the fairness they assume
4. [What is proved](#4-what-is-proved)
5. [Where the code and its promises differ](#5-where-the-code-and-its-promises-differ)
6. [What is not modelled](#6-what-is-not-modelled)
7. [The plan](#7-the-plan)

## 1. The system

GoldenDict looks words up in many dictionaries at once. A **dictionary**
(`Dictionary::Class`, `src/dict/dictionary.hh`) answers three kinds of
question, each with a **request** object (`Dictionary::Request`): which
headwords match (`WordSearchRequest`), what is the article of a word and what is
a resource such as a picture or a sound (`DataRequest`). A request is served by a
worker of a thread pool, which appends to it under its mutex, raises the flag
`isFinished` and then emits the signal `finished()`. If the receiver lives in
the GUI thread, the signal becomes a posted event there. A request cannot be
taken back: it can only be cancelled, and its destructor waits for the worker.

Nearly everything difficult in the program follows from this. The flag goes up
before the signal; a signal emitted before anybody connected is lost; a signal
may arrive after the query it belongs to was replaced; requests finish in any
order; a destructor in the GUI thread waits for a worker that must not wait for
the GUI thread.

```
   main window, scan popup                 article view  <--- broadcasts of requests
        |  prefixMatch(), cancel(), clear()   |  ^  scripts down, calls of the agent up
        v                                     v  |
   WordFinder ----------+                page (gd-builtin.js), read through
        ^   |           |                ArticleResourceReply   resource elements,
        |   | requests  | stemmedMatch()      | DataRequest     saved resources
        |   v           |                     v                      |
   word search       ArticleRequest (a DataRequest itself)     resource requests
   requests             |  main forms, bodies of articles            |
        ^               v                                            v
   +----+--------------- dictionaries: B-tree index and chunked ----+
        ^                storage in files; DICT servers, web sites, programs
        |                      ^
   headword list               |
   FtsIndexing -- Indexing (a runnable) -- one task for each dictionary
   History  <-- words looked up;   --> history file
```

### The components

| component | state | operations | what is hard | what makes it correct |
|---|---|---|---|---|
| Headword search, `wordfinder.cc` | query, requests out, requests in but not merged, merged list, shown list, timer | search of three kinds, cancel, clear, `requestFinished()`, `updateResults()` | requests of replaced queries keep answering; polling of flags while they are raised; an old timeout; `clear()` waits for workers | the list is the latest query's, complete when `finished()` is emitted; no search is forgotten; no worker outlives `clear()` |
| Resource and article replies, `article_netmgr.cc`, `dictionary.cc` | data and flags of a request; what of it was read and announced | append, finish, construct a reply, slots, `readData()` | the request may finish before, during and after the construction; size and flag are read one after the other | the end is announced once, and means that all was read |
| Article pages, `article_maker.cc` | requests for main forms, queue of bodies, page so far, walk over the words of a phrase | constructor, `altSearchFinished()`, `bodyFinished()`, `stemmedSearchFinished()`, `individualWordFinished()`, `cancel()` | bodies finish in any order; the dictionary of a body is told from its place; edges of the walk | articles in the order of the dictionaries, all of them, each under its own name; the longest compounds |
| Resource clients, `resourceschemehandler.cc`, `ui/articleview.cc` | connected or not, answered or not | look, connect, hear | look and connect are two steps | everybody is answered, once |
| Article view, `ui/articleview.cc`, `scripts/gd-builtin.js` | list of dictionaries, active one, collapsed ones; in the page the mark and what is collapsed | show, go back, click, collapse, expand, next and previous article, jump, broadcasts | view and page speak through two channels; broadcasts of pages that were left; history and other views | the view and the page agree; the list is that of the page; what the user collapsed stays so |
| DICT client, `dict/dictserver.cc` | state of the protocol, buffer, matches, text of the article, timer | `readyRead()` slots of two objects, timeout, `cancel()` | packets are cut anywhere; two slots share a socket; a limit reached inside a reply; a timer against a late answer | every headword of every database and strategy, once; whole definitions; the request ends |
| B-tree index, `dict/btreeidx.cc` | chains of headwords, nodes and leaves in a file; a search's string and place | add a word, build, find articles, search, chop, cancel, list headwords | boundaries of leaves; words equal to a separator; full chains | a headword leads to its articles; a search gives what fits and nothing else |
| Chunked storage, `dict/chunkedstorage.cc` | buffer, chunks, addresses | start a block, add to it, finish, read back | a block that ends with its chunk; the width of an address | what was put in is read back whole |
| Headword list, `headwordsmodel.cc` | loaded words, filter, requests, place in the index | fetch some, fetch all, filter, clear the filter, `requestFinished()` | requests of an earlier filter | the words of the filter in force |
| History, `history.cc` | list, dirty flag, timer, file, size | add, remove, clear, size, interval, save, load | failed saves; crashes; the configuration and the list are saved at different times | no word twice; a clean list is in the file |
| Full-text indexing, `fulltextsearch.cc`, `ftshelpers.cc` | cancel flag, two semaphores, runnable, tasks, indexes on the disk | start, stop, reload of the dictionaries, build of an index | tasks must be gone before the dictionaries are; builds are stopped, killed and taken up again | stop returns and nothing is at work after it; an index that is marked as ended is whole |
| Full-text search dialog, `fulltextsearch.cc` | requests, results | search, stop, merging of sorted headwords | `stopSearch()` handles events while it waits | results merged in order; stop returns |
| Dictionary formats, `dict/*.cc` | files, `initialised` flags | load, the three requests, `makeFTSIndex()` | formats | as the headword search and the replies assume |
| Online dictionaries, programs, speech | network replies, processes | requests | cancel against an answer | finish in `cancel()` |
| Audio, `audio/` | buffer, `quit`, condition | play, stop, `readData()` | wake-up before the wait | stop returns |
| Pronunciation, `pronounceengine.cc` | links of each dictionary, taken or not | `reset()`, `sendAudio()`, `finishDictionary()` | workers of a page that was left | one sound for each page, its own |
| Hotkeys, `hotkeywrapper.cc` | first key seen, timer | key, timeout | timer of an earlier wait | two keys in time fire |
| Configuration, start and end, groups, user interface, text helpers, Anki | | | | see [section 6](#6-what-is-not-modelled) |

`PROJECT.json` has the full list, with the files of each component, and under
`hazards` the lines of the code where these difficulties bite.

## 2. The modules

State is named as in the code where TLA+ allows; "Mutated form" marks a
definition that no specification uses: it is the form a plausible mistake would
give the definition below it, and a property that holds of the code must fail
with it.

### Looking up

**`HeadwordSearch`** (abstract). What those who use a `WordFinder` may rely on:
a latest query that is being searched, answered or idle, and a list that belongs to it
alone and no longer changes once it is answered.

**`WordFinder`** (`src/wordfinder.cc`). One request for each pair of a dictionary and a
writing of the word (a *slot*). Actions: the user's `Search` (`prefixMatch()`,
`stemmedMatch()`, `expressionMatch()`), `Cancel`, `ClearBegin`/`ClearEnd`
(`clear()`, which blocks in destructors); the worker's `AddMatch`, `RaiseFlag`,
`EmitFinished` (`BtreeWordSearchRequest::findMatches()`, `Request::finish()`); the
GUI thread's `PollBegin`, `PollSkip`, `PollTake` and four `PollEnd...`
(`requestFinished()`, one step for each request it looks at, because workers go
on meanwhile), `TimerFires` and `TimeoutDelivered` (`updateResults()` through a
queued connection). A headword is its rank; ranking, folding and the collecting of
writings are abstracted to it. `fate` is a history variable.

**`DataRequest`** (abstract). Data only grows, a promise of data is kept, and
nothing changes once the request is finished. `ArticleRequest` implements it.

**`ResourceReply`** (`src/article_netmgr.cc`, `src/dict/dictionary.cc`). The
worker appends, promises data, tells of updates, finishes; the reply's
constructor is five steps (`Connect`, `CheckFinished`, `CheckSize`, `Announce`,
`InPlaceFinish`); `readData()` is three (`ReadBegin`, `ReadSize`, `ReadEnd`),
because it takes the flag and the size one after the other. `dataSize()` looks once
whether there is a size (`SizeReady`) and, if not, waits on the condition of the request
until one of the places that wake it does (`WaitForSize`, `ReadWait`, `WakeAll`); once
woken it takes what there is and does not look again.

**`ArticleRequest`** (`src/article_maker.cc`). Main forms, bodies, close words,
compounds: the constructor and the four slots, with requests that finish before they are connected to,
between that and the poll that follows (`Polled`), later, in any order, or (`MayThrow`) are not
made because `getArticle()` threw. A poll of several requests is one step: of what ends while it
is under way it matters only whether the first one not finished was so when it was looked at, and
what ends after that has its event.
The page is a sequence of tokens. The walk over the ranges of words is
`NextStart` and `GoOn`; what each lookup gave is kept in `answer`, a history
variable from which `CompoundsAreLongest` says what the page should offer.

**`ResourceClients`** (`src/resourceschemehandler.cc`, `src/ui/articleview.cc`).
Two clients of a request: one looks and then connects, the other connects and
then looks.

**`ArticlePage`** (`src/ui/articleview.cc`, `src/scripts/gd-builtin.js`, the
broadcasts of `src/article_maker.cc`). The three parties that keep account of
a page's articles: the requests, which broadcast the dictionaries they write; the
view, with its list, active id and set of collapsed ids; the page, with its mark and
its own collapsed articles. A page is asked for with a word and a group (`Queries`), and its
broadcasts carry both; the view has its current ones, which blanks for a word (`ShowBlank`),
another group (`ChangeGroup`, `ChangeGroupOnly`) or a page asked for in another group part from
those of its page. `collapsedDicts` belongs to all views (`OtherCollapse`). `toPage` and `toView`
are the channels between view and page: a script runs, and a call of the agent arrives, some time after it was
sent, and loading a page throws its scripts away. The web engine (`Commit`,
`ArticleArrives`, `RunMakeActive`'s turn) is external.

### Dictionaries

**`ChunkedStorage`** (`src/dict/chunkedstorage.cc`). The writer's buffer, which is
flushed to a chunk when a block starts and the buffer is full, and at the end;
the two halves of an address; the reader's `ByteAt`. A byte is the block it belongs to
and its place in it, so that reading back whole means more than the right length.
`Half` stands for 2^16.

**`BtreeIndex`** (`src/dict/btreeidx.cc`), pure: `BuildIndex` writes a tree of nodes
and linked leaves as a sequence (`buildBtreeNode()`), `FindChain` goes down it
(`findChainOffsetExactOrPrefix()`), `FindNodes` and `KeysFrom` are the two ways to
list it. Its recursion over the tree is by recursive functions: the code recurses to build
and to list, and loops to descend.

**`DictIndex`** composes the two: `AddWord` (`IndexedWords::addWord()`, with the
parts of a phrase and the cap on a chain), `StoreArticle`, `Build`; then
`FindArticles` and the steps of a `BtreeWordSearchRequest`: `ReadChain`, `Chop` for
stemmed searches, `Cancel` at any of them.

**`DictServerSearch`** and **`DictServer`** (`src/dict/dictserver.cc`). The search
of headwords with its two readers of one socket, in the order in which Qt calls
their slots; and, extending it, the article request, which asks one database after
the other and has a timer. Loops over lines (`TakeWords`, `Distinct`, `TextOf`) are recursive
functions of the number of turns. `kind` says which of the two a behaviour is. The server and
the network are external: they answer every command in order, in packets cut anywhere
between lines, and the server may refuse the client or go away.

**`HeadwordModel`** (`src/headwordsmodel.cc`). The list of a dictionary's headwords:
`FetchSome`, `FetchAll`, `SetFilter` (a search for each filter), `ClearFilter`,
`RequestFinished`, and the workers' `RaiseFlag` and `EmitFinished`. The loop of
`requestFinished()` is a recursive function of the number of turns (`TakeAll`).

**`FtsIndexing`** (`src/fulltextsearch.cc`, `src/ftshelpers.cc`, and
`makeFTSIndex()` of `src/dict/stardict.cc`, which the other formats repeat).
The GUI thread starts, stops and reloads; the runnable bounds its tasks by a
semaphore; a task indexes articles, marks the end, compacts to the final index and
removes the temporary one, and looks at the cancel flag between articles.
The index library commits when it pleases (`Kept`), and `Crash` leaves what was
committed. It may also fail, in opening the temporary index, adding to it, committing or compacting
(`BuildFails`) or in reading its last document (`LastUnread`): the first is caught and logged in
`makeFTSIndex()`, and its caller takes the index for made. Articles are enumerated in an order that differs from one process to
the next (`Orders`), as the hash set of the framework does.

### The user's words

**`History`** (`src/history.cc`, and the preferences in `src/ui/mainwindow.cc`).
All operations of the list, with a save that may fail at every place that saves,
`Crash`, `Quit` and `Start`.

### Proofs and instances

**`WordFinderProofs`**, **`ResourceReplyProofs`**, **`ArticleRequestProofs`**,
**`ArticlePageProofs`**, **`DictServerProofs`**, **`DictIndexProofs`** (of the storage, too),
**`ListProofs`** (of `History` and `HeadwordModel`) and **`FtsIndexingProofs`** hold the theorems;
**`MCWordFinder`**, **`MCDictServer`**, **`MCHistory`**, **`MCDictIndex`**,
**`MCArticlePage`** and **`MCHeadwordModel`** the values of constants that a
configuration file cannot write.

Compositions: `WordFinder` implements `HeadwordSearch`; `ArticleRequest` implements
`DataRequest`, whose steps are those the worker of `ResourceReply` may take, so that a page read
through a reply is what the reply's model assumes of any request. `ArticleRequest` uses
the stemmed search of a `WordFinder` as `HeadwordSearch` describes it: one
`finished()` for each search not cancelled. `DictIndex` runs the index over the
storage, whose addresses are what the index leads to. `ArticlePage` sees of an
`ArticleRequest` that dictionaries are broadcast in their order.

## 3. The runs

| run | instance | distinct states | it shows |
|---|---|---|---|
| `wordfinder` | 2 slots (1 network), each with a headword, lists cut at 1, 2 kinds of search, 3 searches, 1 posted timeout | 1,938,413 | safety of the search, the refinement of `HeadwordSearch` |
| `wordfinder_live` | the same, 2 searches of one kind | 168,370 | searches are answered, `clear()` returns |
| `resource_reply` | 3 slices, reads of up to 2, 2 updates | 9,493 | nothing lost, nothing cut off, nobody oversleeps |
| `article_request` | 3 dictionaries, one of which may throw, phrases of 0 to 4 words | 150,729 | order, completeness, compounds, refinement of `DataRequest` |
| `resource_clients` | 1 element, 2 saves | 2,197 | everyone is answered, once, but for one race |
| `article_page` | 2 words in 2 groups, one in both of 2 dictionaries, 2 pages and 1 way back, 2 gestures | 3,046,395 | view and page agree |
| `dict_server` | searches and articles of 2 queries with 0 to 3 headwords or definitions each, limit of 4 | 947,255 | all headwords, whole definitions, and an end |
| `dict_index` | up to 5 headwords (of 6 kinds) and blocks, up to 3 blocks of 0 to 2 bytes, chunks of 2, nodes of 1 or 2, chains of 2 | 946,848 | what was put in is found and read back |
| `headword_model` | 3 leaves, 2 with the same headword, totals below and at the limit, 2 filters, 3 searches | 107,711 | the list is that of the filter |
| `history` | 5 words: 2 the same but for case, 2 but for a line break, 1 too long; sizes 0, 1, 2 | 1,496 | no duplicates, clean means saved, restarts |
| `fts_indexing` | 3 dictionaries (1 unreadable) of 2 articles, 2 builds at a time, 3 threads, 1 crash, 1 failure of the index library | 727,329 | nothing at work after a stop, whole indexes, stop returns, indexing completes |
| `fts_cut` | 1 dictionary | | a promise that the code does not keep: [section 5](#5-where-the-code-and-its-promises-differ) |

### The properties

*Search.* `ResultsAreOfThisSearch`: no match of an earlier query is in the list,
although its requests keep answering. `FinishedIsComplete`: at `finished()` the
list is cut from what every request found, and nothing is left to come.
`VerdictIsOfThisSearch`: the error and the uncertain mark tell of these requests
and no others. `NeverStranded`: between two events, a search that waits has a
request out whose event will come. `NoStrayWorker`: dictionaries are in use only
through requests the finder owns, so that none is after `clear()`.
`SearchAnswered`, `ClearReturns`: liveness.

*Replies.* `EofMeansAllRead`, `AllDelivered`: whatever step the worker appends or
finishes between. `WokenInTime`: nobody sleeps in `dataSize()` when there is data or the end
of it, although it looks before it waits and only once.

*Pages.* `PageComplete`: the articles in order, all there are, each under its own
name unless a dictionary further down threw, and one end, the last thing on the page;
`PageFinished`; `CompoundsAreLongest`: every range that may be a compound was looked up and
the longest ones, by a definition that does not follow the walk, are offered.

*Clients.* `ClientsAnswered`: a save always, an element unless its request finishes
between its look and its connection; both at most once.

*Article view.* `Agreement`: once nothing is on its way, the article the view calls
active is the one the page marks. `ListIsPage`: the list of dictionaries is that of the
page, whichever requests broadcast meanwhile. `CollapseRemembered`: what the user
collapsed or expanded last, in whatever view, is what the page shows, in later pages of the session
too. Each names its exceptions as history variables (`astray`, `stray` and `disowned`, `late`) that
a step of the code sets; with any of these steps left out of them the property fails in the run,
and among the steps modelled no other breaks it.

*DICT.* `SearchComplete`: each headword the server holds, once, however the replies
were cut, but for the cut of section 5. `ArticleIsWhole`: no text but a whole definition
is shown, whatever is cut, times out or goes away, and one is if there is any.
`RequestFinishes`, even if the server goes.

*Index and storage.* `BlocksReadBack`; `ArticlesFound`: a headword leads to all
articles that have it and no other, and each is read from its first byte;
`MatchesExact`: against a definition that knows nothing of leaves and chains
(`Fits`), nothing more and nothing less, but for the parts of phrases that a full chain
crowded out; `HeadwordsListed`: both ways to list the keys meet every key, and none twice.

*Headword list.* `ListIsRight`: what was fetched without a filter, what the filter's own
search found with one, and no search forgotten.

*History.* `NoDuplicates`, `CleanIsSaved` (a list not marked dirty is the
beginning of the file), `DirtyGetsSaved`.

*Indexing.* `NothingAtWork`, `IndexIsWhole` (every article once, however the build
was stopped and taken up again, but for what was left behind as section 5 says), `CompletedIsMade` (an
index for all that say so, but for builds cut short or failed), `StopsInTheEnd`, `AllCompleted`.

Each has a mutant in `PROJECT.json`, a plausible mistake in the code that breaks it.

### Why the bounds are enough

`wordfinder`: the interesting cases are a request that answers after its query was
replaced, and again after the next was replaced too (3 searches); one request that is in
while another is out, the network one that ends in `cancel()` (2 slots);
a list that must drop a headword for a better one that comes later (2 headwords, a
cap of 1); one stale timeout. A headword that both hold adds nothing, the merged list
being a set. More of each repeats these, which is what the
theorems of section 4 show. `MaxSearches` and
`MaxEvents` bound counters of the model, nothing in the code. `resource_reply`: 3
slices and reads of 2 give a read that is cut by its size, one cut by the data, and data
that comes between; 2 updates, one before and one after the constructor's look.
`article_request`: 3 dictionaries give a slow one in front, in the middle and at the end;
4 words a compound at each end of a phrase and two that overlap. `article_page`: a page,
another that replaces it and a way back are the least for a late script or broadcast; with
two articles one is active and one is not, one gesture may cross the other, and a word
of one dictionary gives the page of a single article, which expands by itself; two groups are what
a view and its page may differ in, and a word has other articles in the second.
`dict_server`: a
limit of 4 is reached in the middle of a second reply of 3 and not by replies of 1 and 2, of which a
packet that ends with the first one's dot loses the second; a second database may find
what the first did, or nothing. `dict_index`: nodes of two elements at most
give an inner node, several leaves and a word equal to each separator from four keys on;
chains of two fill up; in chunks of two bytes a block of none or one shares its chunk with the next,
which so begins inside it, a block of two fills it, and the third chunk, of three blocks of two bytes,
has the address of the first (`Half` is 2); strings longer and shorter than every key. `headword_model`:
leaves that end inside a batch, a headword that lies in two of them, a search that
outlives its filter and the next. `history`: a list that is
full, one too long and one that is not kept at all (2, 1, 0), where one word more
than fits is always at hand. `fts_indexing`: more dictionaries than builds at a
time, a resumed index with one of its two articles in it, and a crash and a failure, in either
order and in every place.

Deadlock is checked except where a system really may stop: when all is read
(`resource_reply`), when every client is served, when a DICT request is over and
dropped, when an index was searched or a list was filtered as often as the
instance allows, and when the searches of `wordfinder` or the gestures of
`article_page` are used up.

### The fairness

Weak fairness of each worker's steps: a pool runs what it was given to the end,
and no step of a worker waits for the GUI thread. Weak fairness of the GUI
thread's steps: the event loop delivers what is posted; where it blocks (a
destructor, `dataSize()`, a semaphore) the step is not enabled, so that fairness
does not hide a deadlock. The user's actions, `Cancel` and the timer's expiry in
`WordFinder`, the server's departure and crashes have
none. In `DictServer` the server answers while it is there and the network delivers;
when the server goes the socket reports it; a timer that was started goes off if nothing
stops it, and it is the only reason why an article ends whose server sends something
unforeseen. `History` assumes strong fairness
of a timer event whose save works: the timer fires again and again, and a disk
that refuses each save for ever saves nothing. In `FtsIndexing` the runnable, each build and the GUI
thread waiting in `stopIndexing()` go on; nobody is obliged to start or to stop.

## 4. What is proved

All from the assumptions on the constants named in the modules (sizes are
natural numbers, the pool has at least two threads and the like), for every
value of the constants.

**`WordFinderProofs`.** `TypeCorrect`; `SearchInvariant`, and from it `NoStaleResults`
(`ResultsAreOfThisSearch`), `AnswerComplete` (`FinishedIsComplete`) and
`WorkersOwned` (`NoStrayWorker`). `FinishedIsComplete` is not inductive: that
the last request is in says nothing of the earlier ones. `SearchInv` adds `Stage` (a search
waits or runs, not both, and while it waits nothing has been merged), `Progress`
(while it runs, its requests are the ones out, none of them is cancelled, those no
longer out have finished, and the merged list is exactly theirs), `Complete` (a
request that was not cancelled and reports no error found everything) and
`AnsweredIsOver`. `Progress` is where stale requests are kept out: a
search starts only when no request of an earlier one is out. There is one
lemma for each group of actions: cancelling, starting, polling, merging,
a worker's step.

On top of it: `SearchImplemented`
(`ImplementsHeadwordSearch`): every step is one of the abstract search or leaves it alone.
`VerdictHolds` (`VerdictIsOfThisSearch`): the error string and the mark gathered so far are
those of the requests that are in. `NobodyStranded` (`NeverStranded`): a request
that is out and whose worker is through has its event posted, or is still to be
looked at by the poll under way. `ListCapped` (`TypeOK`): the merged list never outgrows
the cap, whatever number of requests are merged into it.

**`ResourceReplyProofs`.** `ReplyInvariant`, and from it `ReplyTypeCorrect`
(`TypeOK`), `NothingCutOff` (`EofMeansAllRead`), `VerdictFinal` (the verdict of
`finished()`, an invariant no run checks) and `NobodyOversleeps` (`WokenInTime`): whoever sleeps
does so because there was nothing when it looked, and every step that changes that wakes it. The heart
of it is in `ReadInv`: a reader that saw the flag raised *and then* took the size
took the final size. With the two reads of `readData()` the other way round it would
not hold.

**`ArticleRequestProofs`.** `PageIsDataRequest` (`ImplementsDataRequest`): whatever
throws and in whatever order signals come, a page only grows and is left alone once it is
finished. `StageInv` says why: bodies are asked for once, after the main forms; close words are
looked for after the bodies; a page finished without being cancelled has nothing going on.
`LongestAreOffered` (`CompoundsAreLongest`), for phrases of any length and any
answers. The invariant `WalkInv` says how far the walk is: for the words behind `start`
everything that may be a compound was asked and exactly the longest ones are on the page
(`Walked`); from `start` on, all phrases shorter than the one being looked up begin
headwords, and `lastGood` is the longest of them that is one (`GoodUpto`). That nothing
is missed when the walk moves on is `GoodIsLongest`. `PageIsComplete` (`PageComplete`): the
page has the article of every dictionary that has one, once, in the order of the
dictionaries, under its own label unless one further down threw, and is closed once. Label and article come from two ways
of counting, the requests left and the number of the request; `PageInv` says that what is left
of the queue is its end (`QueueOk`) and what is on the page its beginning (`ShownOk`), so
that the two agree. `PageTyped` (`TypeOK`): where the walk may be, for every number of
words. An earlier `TypeOK` said `start \in -1 .. MaxWords - 2`; the proof fails for a
phrase with no words, where -1 is not in that range, and the bound was put right.

**`ArticlePageProofs`.** From `ArticlePageAssumption`: a dictionary has at most one article of
a word in a group, and `NoWord` and `NoDict` are neither words nor dictionaries. `PageInvariant` has five
parts: `TypeInv`; `RequestInv` (requests start in their order, a page shows no more than its
request has written); `ListInv`; `AgreeInv`; `CollapseInv`. From it, for any number of
pages, articles and scripts on their way: `ListIsThePage` (`ListIsPage`): the view's
list is what the latest request has written, unless another's broadcast got into it (`stray`) or the
view has not the word and group of its page (`disowned`): `ListInv` says that it has them otherwise,
or is in history mode, where it takes everything;
`ViewAndPageAgree` (`Agreement`): when nothing is on its way, view and page name one
active article. That is inductive only over what *is* on its way: unless astray, the last
script or call about the active article names the one active where it was sent.
`CollapsingRemembered` (`CollapseRemembered`): likewise (`AsTold`), the last call on its
way about an article says how it stands on the page, and when there is none the session knows, which
other views may change at any time: what they say of an article already written is `late`.
`AddNew` is the loop of `setActiveDictIds()`; what it gives for every list is
proved by the smallest length for which it would not hold (`SmallestOf`).

**`DictServerProofs`.** `DictTyped` (`TypeOK`), `SearchesComplete` (`SearchComplete`) and
`ArticlesWhole` (`ArticleIsWhole`), for any number of queries, any lists and any packets. The
invariant `Inv` relates what a request has gathered to what is still in its buffer and on its way.
`Handshake`: while the connection is made one line or command is on its way at most and nothing
has been asked, so that the article request, which reads with an uninitialised state even then,
gathers nothing but greetings. `SearchInv`: what is in the buffer and behind it keeps the
protocol (`Linked`: after a word comes a word or the dot); from this alone no line is taken for a
headword, torn packets included. `Exact`: as long as no packet ended with a dot, the words of
the earlier queries and the first `k` of this one are on the list, and the rest of
the reply is what the stream holds. `Serving`: an article request waits for one answer with no text
(`Asking`), or what it has gathered goes on, up to a dot, with what is on its way (`Gathering`); once
there is a dot in the text, it is one definition for ever. What the loops give for every list is
proved by induction on the number of turns (`AllUpTo`, from `SmallestOf`).

**`DictIndexProofs`.** All that the run `dict_index` checks, for any phrases and strings, any
sizes of blocks, chunks, nodes and chains, and any number of headwords.
`StorageReadsBack` and `IndexReadsBack` (`BlocksReadBack`): blocks are read back whole, while the
number of the chunk fits its half of the address; this rests on where a block begins, in the
buffer before it is flushed and never across it (`StorageInv`). `HeadwordLeadsToArticles`
(`ArticlesFound`), `SearchExact` (`MatchesExact`) and `ListingComplete` (`HeadwordsListed`) follow
from `DictInvariant`, whose `DictInv` has four parts:

- `StorageInv`, the storage as above;
- `EntriesInv`: of every headword given, each of its words has a link in the chain of its key,
  or was crowded out of it, and a chain holds no link that was not given;
- `PhaseInv`: once the source is read, the index is `BuildIndex` of just these keys;
- `SearchInv`: a search stands at a key that is not before its string (`CurInv`); of the keys that
  begin with that string, those it has passed have given all that fits, and nothing was gathered that
  does not (`MatchesInv`), for the letters now chopped (`FoldedInv`). With a letter less
  the search starts again at the first key of the shorter string, so that no key is passed by.

The properties follow from the parts together: a search is right because the tree is, and the
tree leads to what was gathered before it was built. TLC checked `DictInv` on the instance
of `dict_index` before it was proved. The argument goes from the bottom up:

1. *Order and recursion.* `KeyLess` is a strict total order; the list of the keys is
   ordered and holds each once (`InOrder`). `RecursionExists` says that a recursive definition
   over a set with a measure has a solution, by a smallest counterexample, so that the
   building of nodes, the two searches and the walks may be unfolded one step at a time.
2. *The tree.* The file only grows, except for the link of the last leaf (`Extends`, `SameNode`).
   `NodeOK` says what a node spans, and that its separators are the first keys of its children but
   the first; `Grown` that every leaf but the last leads to the one that goes on with the next key.
   Adding a leaf, a child and a node keep them, at every depth (`IndexBuilt`).
3. *The searches.* Both binary searches find the first key that is not before the target
   (`LowerBound`): the one in a leaf, and the one over the text of an inner node, which halves a range
   of bytes and goes back to the beginning of a separator. Hence `FindChainRight`: the descent
   ends at that key (`ChainAt`), or one past a leaf, from where the link leads on, or at no chain when
   every key is before the target.
4. *The walks.* From a chain on, the walk along the links meets the keys from there on, and so from the
   first chain all of them (`WalkComplete`);
   `LeavesListed`: the leaves below the root hold all of them, with at most two levels.

The theorems have the exceptions of the properties: articles of headwords with no letters; links
that a full chain had no room for (`CrowdedOut`); blocks whose chunk does not fit the half of an
address (`home[b] < Half`); listings of a tree of three levels or more, of which `findNodes()` gives
nodes that are not leaves. Of a phrase it is assumed that, when it has words at all, the first
begins at its first letter: `addWord()` has skipped all that comes before it.

**`ListProofs`.** Of `History`: `HistoryInvariant`, and from it `HistoryTypeCorrect` (`TypeOK`),
`NoWordTwice` (`NoDuplicates`) and `CleanListIsSaved` (`CleanIsSaved`). None of them is
inductive: what is on the list after a restart is what was in the file before, so that the
file must have no word twice either, through saves that fail and crashes between the save of
the configuration and that of the list.

Of `HeadwordModel`: `HeadwordListRight` (`ListIsRight`), for any dictionary, filters and searches,
from `ModelInvariant`. `ModelInv` adds to the property what makes it inductive: without a filter, and
when none was cleared too early, no search is out and no event on its way (`Quiet`); and while the only
search is that of the filter, it is out and the filter has no words yet, or it was
taken and its words are the list (`OwnSearch`). What the loop of `requestFinished()` gives for any
requests is proved by induction on the number of its turns.

**`FtsIndexingProofs`.** `NothingAtWorkHolds` (`NothingAtWork`) from `StopInv`:
the semaphore `indexingExited` is released once, when the runnable is gone with
all its tasks. `CompletedIsMadeHolds` (`CompletedIsMade`) from
`MadeInv`: the temporary index is marked before it is compacted, and the compacted one
is there before the temporary one is removed and the dictionary says so; for any
number of crashes and failures, and whatever the library keeps of an index at one; only a build that
was cut short or that the library failed in says so without.

`IndexIsWholeHolds` (`IndexIsWhole`), for any number of articles. Its
invariant says that the temporary index holds the first articles in the order of the
process, that those still to be added are the rest (`MakeUp`), that it is whole once it is
marked, and that a final index is one of all articles, all of it for dictionaries not in `leftBehind`. That no task is queued
twice for a dictionary (`Ahead`) keeps two builds from one index.

*Only model-checked:* the properties under fairness, which are out of the prover's
reach, as `ENABLED` is: `SearchAnswered`, `ClearReturns`, `AllDelivered`, `PageFinished`, `ClientsAnswered`,
`RequestFinishes`, `DirtyGetsSaved`, `StopsInTheEnd` and `AllCompleted`. Every invariant and
every refinement that a passing run checks is stated by a theorem.

## 5. Where the code and its promises differ

Shown by a run, with a counterexample:

- `fts_cut` (`src/dict/stardict.cc:1128`): a build that was cancelled is taken
  for one that succeeded, and its dictionary says it has an index.

Met while modelling. Where it is the exception of a property, named here, the run reaches it: without
the exception the property fails there.

- `src/article_maker.cc:625`: when `getArticle()` of one
  dictionary throws, the articles of the dictionaries before it are shown under the
  names of others. A body's dictionary is told from the number of requests left, and the
  one that threw has none (`PageComplete`).
- `src/resourceschemehandler.cc:23`: a page element
  looks whether its request is finished and then connects to `finished()`, as the comment
  of `class Request` advises; finished in between, it is never answered
  (`ClientsAnswered`).
- `src/history.cc:61`: a word with a line break in it is looked for on
  the list as it is and stored with a space, and so comes to be there twice
  (`NoDuplicates`).
- The constructor of `History` loads one item more than the size
  (`src/history.cc:24`). Hence `maxSize + 1` in its `TypeOK`.
- A full-text build that goes on with a temporary index of an earlier
  process skips the articles up to the last one in it (`src/ftshelpers.cc:114`), but
  the articles come in another order now. Hence `leftBehind` in `IndexIsWhole`.
- A packet that ends between the dot that ends a list and the `250` line after it:
  the DICT client discards what it takes for the rest of the reply, and takes the
  `250` for the answer to its next query, whose matches are then lost. Hence `~torn` in
  `AllMatched`.
- A DICT search that reaches its limit inside a list finishes and goes on
  adding the rest of the list to a finished request. Hence the limit in `AllMatched`.
- In a DICT article request the text read is never cleared: a later database's definition
  is found to end where the first did, and the first is shown again. Of several
  definitions of one database only the first is shown; what remains of the reply may
  leave the request waiting for its timer. `ArticleIsWhole` therefore says only that what is
  shown is whole, and that something is.
- The mark of an active article: `gdMakeArticleActive()` takes the mark off one article before
  it looks for the other, so that a target that is not on the page leaves none;
  `src/ui/articleview.hh:386` says that a nonexistent article changes nothing. Hence `astray`
  in `Agreement`, which a click that crosses a script sets too.
- In history mode the view takes in the broadcasts of any request, though its
  comment has it "ignore all other signals" (`src/ui/articleview.cc:2012`); outside it, those
  of another view's request for the same word and group. Hence `stray` in `ListIsPage`.
- A word of nothing but blanks is stored as the view's word before `showDefinition()` returns
  because of it (`src/ui/articleview.cc:290`): the page goes on loading, and the view refuses what its own
  request broadcasts, so that the list misses dictionaries that are on the page. The same happens when
  the group of the view is changed and no page asked for in it, and when a page is asked for in another group than the
  view's, by a link that keeps the group of the page it is on. Hence `disowned`.
- A page with a single article, collapsed before, expands it by itself and
  thereby makes the view forget that the user had collapsed it
  (`CollapseRemembered` then follows what is shown).
- A headword filter does not take back the requests of the one before
  (`src/headwordsmodel.cc:69`); a `finished()` that comes after the filter was cleared
  puts the words of the filter back on the list; a search that finished before it was connected to
  is noticed only with the next. Hence `mixed` and `outlived` in `ListIsRight`.
- A headword in two leaves is counted twice, and the fetching may stop before the last
  leaf: `OriginalRestored` compares with what was fetched, not with all there is.
- A headword with punctuation before it is taken for a part of a phrase, and
  crowded out of a chain of 1024 links, which are meant to keep out "middle matches"
  only (`src/dict/btreeidx.cc:997`). Hence `CrowdedOut`.
- The number of a chunk is shifted into the upper half of a 32-bit address
  (`src/dict/chunkedstorage.cc:47`): the 65537th chunk is found at the place of the first.
  Hence `InRange` in `BlocksReadBack`.
- `BtreeIndex::findNodes()` lists leaves of trees of two levels only. Hence the
  bound in `HeadwordsListed`.
- `BtreeWordSearchRequest::findMatches()` catches an error of reading the index and
  logs it: the search reports no match and no error (`RaiseFlag` of `WordFinder`).
- A DICT server that refuses the client: the search ends without an error, because
  nobody reads the `errorString` of `DictServerImpl`.
- An error of the index library is caught, logged, and then taken for completion
  (`src/ftshelpers.cc:166`): the dictionary says it has an index and may have none. Hence `failed` in
  `CompletedIsMade`. If the error came after the mark was committed, the temporary index
  ends with the mark, which is the number of no article, and the next build skips them all
  and marks it again; if the last document cannot be read (`src/ftshelpers.cc:111`), all articles are
  indexed behind those already there. Hence the rest of `leftBehind`.
- A listing of an index without headwords reads a chain from its one leaf, which has none.
  `HeadwordsListed` leaves such an index out; the model reads nothing there.

## 6. What is not modelled

- *Data.* HTML, formatting, ranking, folding, the syntax of queries and formats.
  The models tell words, articles and matches apart and no more.
- *The web engine*, the platform's clipboard, hotkeys, speech and sound,
  the index library and the network: outside the repository, modelled as far as the
  code relies on them.
- *Formats, readers of files, text helpers, transliteration, configuration,
  groups, start and end, user interface*: sequential, without state that
  outlives a call, or layout. Each has its line and its reason in `PROJECT.json`.
- *Parts of modelled components.* Of the DICT client: authentication, `SHOW DB`,
  lines cut inside (the code reads half a line as a line, and what
  it makes of it depends on the text). Of the index: patterns with wildcards, the
  trimming of headwords that are too long, `addSingleWord()`. Of the headword list: its export. Of the article
  view: links, anchors, frames, the search in a page, sound. Of the full-text part: the dialog
  and the progress shown. Of the article pages: collapsing, headers, the choice of the
  group. The memory of a request is sequentially consistent in the models: the code
  uses mutexes and atomic flags for it.

## 7. The plan

Done, the most important behaviour first: the headword search, replies, pages and their
clients; history; full-text indexing; the DICT client; storage and index; the article
view; the headword list; the proofs of section 4. Left, in this order:

1. `FtsSearch`: the search dialog, `stopSearch()` with the events handled inside
   it, and the merging of sorted headwords (`addSortedHeadwords()`) against a reference
   definition.
2. `AudioOutput` (the wake-up before the wait, stop against the device) and
   `Hotkey` (the timer of an earlier wait): two small modules.
3. `Pronounce`: pages of two tabs over `ArticleRequest`'s order of events.
