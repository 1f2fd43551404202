------------------------------- MODULE History -------------------------------
(***************************************************************************)
(* The list of words looked up (src/src/history.cc) and its file, through   *)
(* changes of the preferences (src/src/ui/mainwindow.cc), failed saves,     *)
(* crashes and restarts.  A word is a model value: what tells words apart   *)
(* is whether they are the same but for case, whether they are too long or  *)
(* empty, and what they become when line breaks in them turn to spaces.     *)
(***************************************************************************)
EXTENDS Naturals, Sequences, FiniteSets, SequencesExt

CONSTANTS
  Words,
  Folded,   \* Folded[w]: w without case
  Clean,    \* Clean[w]: w with its line breaks replaced
  Bogus,    \* words that are empty or longer than maxItemLength
  MaxSizes  \* the sizes the user may choose

ASSUME HistoryAssumption ==
  /\ Clean \in [Words -> Words] /\ DOMAIN Folded = Words
  /\ Bogus \subseteq Words /\ \A w \in Words \ Bogus : Clean[w] \notin Bogus
  /\ MaxSizes \subseteq Nat /\ MaxSizes # {}

VARIABLES
  running,        \* whether the program runs
  items,          \* newest first
  maxSize, addingEnabled, dirty,
  interval,       \* whether the user wants it saved at intervals
  timer,          \* whether the save timer runs
  file,           \* the lines of the history file
  cfgMaxSize      \* maxStringsInHistory in the configuration file

vars == <<running, items, maxSize, addingEnabled, dirty, interval, timer, file, cfgMaxSize>>

SameWord(v, w) == Folded[v] = Folded[w]

AtMost(n, list) == SubSeq(list, 1, IF Len(list) < n THEN Len(list) ELSE n)

\* What the constructor reads: one line too many is let in.
Load(lines, size) == AtMost(size + 1, lines)

Init ==
  /\ running = TRUE
  /\ items = <<>> /\ file = <<>> /\ dirty = FALSE
  /\ cfgMaxSize \in MaxSizes /\ maxSize = cfgMaxSize
  /\ addingEnabled = TRUE
  /\ interval \in BOOLEAN /\ timer = interval

-----------------------------------------------------------------------------
\* Mutated form: only the very same word is removed.
RemoveSame(list, w) == SelectSeq(list, LAMBDA v : v # w)

\* removeOne(): the first item that is the word, case aside.
RemoveOne(list, w) ==
  LET at == {i \in DOMAIN list : SameWord(list[i], w)}
  IN  IF at = {} THEN list
      ELSE RemoveAt(list, CHOOSE i \in at : \A j \in at : i <= j)

\* Mutated form: one word too many stays.
OneMore(list, size) == AtMost(size + 2, list)

\* ensureSizeConstraints(): what is too old drops out.
Constrained(list, size) == AtMost(size, list)

\* addItem(): the word moves to the front, and the oldest drops out; or
\* forceAddWordToHistory(), whatever the preferences say.
AddItem(w, forced) ==
  /\ running /\ (addingEnabled \/ forced) /\ w \notin Bogus
  /\ items' = Constrained(<<Clean[w]>> \o RemoveOne(items, w), maxSize)
  /\ dirty' = TRUE
  /\ UNCHANGED <<running, maxSize, addingEnabled, interval, timer, file, cfgMaxSize>>

RemoveItem(i) ==
  /\ running /\ i \in DOMAIN items
  /\ items' = RemoveAt(items, i)
  /\ dirty' = TRUE
  /\ UNCHANGED <<running, maxSize, addingEnabled, interval, timer, file, cfgMaxSize>>

EnableAdd(on) ==
  /\ running
  /\ addingEnabled' = on
  /\ UNCHANGED <<running, items, maxSize, dirty, interval, timer, file, cfgMaxSize>>

\* setMaxSize(), which makes the list dirty if it drops any item; the
\* configuration is saved at once.
SetMaxSize(size) ==
  /\ running
  /\ maxSize' = size /\ cfgMaxSize' = size
  /\ items' = Constrained(items, size)
  /\ dirty' = (dirty \/ items' # items)
  /\ UNCHANGED <<running, addingEnabled, interval, timer, file>>

-----------------------------------------------------------------------------
\* Mutated form: without its last word.
Shorter(list) == IF list = <<>> THEN list ELSE Front(list)

\* The lines of the file, one for each item.
Lines(list) == list

\* save() of a list; the file is replaced as a whole or not at all.
Save(list, unsaved) ==
  \E written \in {FALSE, unsaved} :
    /\ file' = IF written THEN Lines(list) ELSE file
    /\ dirty' = (unsaved /\ ~written)

\* save() with a disk that takes it.
SaveWorks ==
  /\ file' = IF dirty THEN Lines(items) ELSE file
  /\ dirty' = FALSE

TimerEvent ==
  /\ running /\ timer
  /\ Save(items, dirty)
  /\ UNCHANGED <<running, items, maxSize, addingEnabled, interval, timer, cfgMaxSize>>

\* Mutated form: a changed interval leaves the timer killed.
KillTimer(on) == FALSE

Restarted(on) == on

\* setSaveInterval(), with an interval of 0 or another.
SetSaveInterval(on) ==
  /\ running
  /\ interval' = on /\ timer' = Restarted(on)
  /\ IF on THEN Save(items, dirty) ELSE UNCHANGED <<file, dirty>>
  /\ UNCHANGED <<running, items, maxSize, addingEnabled, cfgMaxSize>>

\* The menu clears and saves.
ClearHistory ==
  /\ running
  /\ items' = <<>>
  /\ Save(<<>>, TRUE)
  /\ UNCHANGED <<running, maxSize, addingEnabled, interval, timer, cfgMaxSize>>

Quit ==
  /\ running
  /\ running' = FALSE
  /\ Save(items, dirty)
  /\ UNCHANGED <<items, maxSize, addingEnabled, interval, timer, cfgMaxSize>>

Crash ==
  /\ running
  /\ running' = FALSE
  /\ UNCHANGED <<items, maxSize, addingEnabled, dirty, interval, timer, file, cfgMaxSize>>

\* The constructor of the next run; a file that cannot be opened gives an empty list.
Start ==
  /\ ~running
  /\ running' = TRUE
  /\ maxSize' = cfgMaxSize
  /\ items' \in {Load(file, cfgMaxSize), <<>>}
  /\ dirty' = FALSE
  /\ addingEnabled' \in BOOLEAN
  /\ timer' = interval
  /\ UNCHANGED <<interval, file, cfgMaxSize>>

-----------------------------------------------------------------------------
Next ==
  \/ \E w \in Words, forced \in BOOLEAN : AddItem(w, forced)
  \/ \E i \in DOMAIN items : RemoveItem(i)
  \/ \E on \in BOOLEAN : EnableAdd(on) \/ SetSaveInterval(on)
  \/ \E size \in MaxSizes : SetMaxSize(size)
  \/ TimerEvent \/ ClearHistory \/ Quit \/ Crash \/ Start

\* The save timer fires again and again, and the disk takes what is saved
\* sooner or later.
Fairness == SF_vars(TimerEvent /\ SaveWorks)

Spec == Init /\ [][Next]_vars /\ Fairness

-----------------------------------------------------------------------------
(* Properties. *)

\* Every variable has its type, and the list has at most one item too many: the
\* loop that reads the file lets it in.
TypeOK ==
  /\ running \in BOOLEAN
  /\ items \in Seq(Words \ Bogus) /\ file \in Seq(Words \ Bogus)
  /\ maxSize \in MaxSizes /\ cfgMaxSize \in MaxSizes
  /\ addingEnabled \in BOOLEAN /\ dirty \in BOOLEAN
  /\ interval \in BOOLEAN /\ timer \in BOOLEAN
  /\ Len(items) <= maxSize + 1

\* Two of the list are the same word only if it is what a word with line breaks
\* becomes.
EachOnce(list) ==
  \A i, j \in DOMAIN list :
    i # j /\ SameWord(list[i], list[j]) =>
      \E w \in Words : ~SameWord(Clean[w], w) /\ SameWord(Clean[w], list[i])

\* No word is on the list twice, in whatever case it was looked up and however
\* the list was saved, cut and loaded: "if there was such an item already
\* somewhere on the list, it gets removed from there" (src/src/history.hh:40).  But
\* an item is looked for before its line breaks are replaced: what a word with
\* line breaks becomes may be there twice.
NoDuplicates == EachOnce(items)

\* A list that is not marked dirty has every change in the file: it is the
\* file's beginning, so that not saving it loses nothing.
CleanIsSaved == (running /\ ~dirty) => IsPrefix(items, file)

\* While the program runs on and the user wants the list saved at intervals,
\* what is unsaved gets saved, whatever intervals are chosen in the meantime.
DirtyGetsSaved ==
  (dirty /\ running /\ interval) ~> (~dirty \/ ~running \/ ~interval)
=============================================================================
