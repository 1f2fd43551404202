------------------------------ MODULE DictIndex ------------------------------
(***************************************************************************)
(* A dictionary's own index, from the headwords of its source to the answer  *)
(* of a search: the words are gathered with the addresses of their articles  *)
(* in the chunked storage (IndexedWords::addWord), laid out as a tree        *)
(* (buildIndex), and looked up by BtreeIndex::findArticles and by            *)
(* BtreeWordSearchRequest, which reads chain after chain while its caller    *)
(* may cancel it.  Patterns with wildcards are left out.                     *)
(***************************************************************************)
EXTENDS ChunkedStorage, BtreeIndex, FiniteSets

CONSTANTS
  \* The headwords a source may have.  `text' is what folding leaves of one: its
  \* letters with no space, case or punctuation (what is left of a headword of
  \* punctuation alone is that punctuation); `starts' says where in `text' its
  \* words begin, the first of them at 1, and `lead' that punctuation comes before
  \* that one.
  Phrases,
  Strings,          \* the folded strings searched for
  ChainCap,         \* links of a chain before parts of phrases are left out: 1024
  MaxResults,
  StemMinLength, StemMaxSuffix,  \* the arguments of stemmedMatch()
  MaxEntries        \* bound: headwords and blocks put in, together

ASSUME DictIndexAssumption ==
  /\ \A p \in Phrases :
       /\ p.text \in Seq(Nat) /\ p.lead \in BOOLEAN
       /\ p.starts \subseteq 1 .. Len(p.text) + 1 /\ (p.starts = {} \/ 1 \in p.starts)
  /\ Strings \subseteq Seq(Nat)
  /\ {ChainCap, MaxResults} \subseteq Nat \ {0}
  /\ {StemMinLength, StemMaxSuffix, MaxEntries} \subseteq Nat

VARIABLES
  entries,    \* IndexedWords: for each key its chain of links
  put,        \* history: the headwords given, each with the number of its block
  idx,        \* the index as written, `words' and `file'
  phase,      \* "source", "built", "reading" or "done"
  search,     \* the string, and whether the search is a stemmed one
  folded,     \* what a key must begin with
  chop,       \* charsLeftToChop
  cur,        \* the chain to read next
  matches,
  isCancelled

searchVars == <<search, folded, chop, cur, matches, isCancelled>>
vars == <<storageVars, entries, put, idx, phase, searchVars>>

NoIndex == [words |-> <<>>, file |-> <<>>]
NoSearch == [str |-> <<>>, stemmed |-> FALSE]

Init ==
  /\ StorageInit
  /\ entries = [k \in {} |-> <<>>] /\ put = {}
  /\ idx = NoIndex /\ phase = "source"
  /\ search = NoSearch /\ folded = <<>> /\ chop = 0 /\ cur = NoChain
  /\ matches = {} /\ isCancelled = FALSE

-----------------------------------------------------------------------------
(* The source: blocks and headwords. *)

\* A headword in which nothing folds is indexed whole.
Starts(p) == IF p.starts = {} THEN {1} ELSE p.starts

KeyAt(p, i) == SubSeq(p.text, i, Len(p.text))

\* nextChar == wordBegin.
IsWhole(p, i) == p.starts = {} \/ (i = 1 /\ ~p.lead)

\* Nothing that is left after folding comes before the link's word.
NoPrefix(link) == link.from = Min(Starts(link.phrase))

\* "Don't overpopulate chains with middle matches".
Kept(chain, p, i) == Len(chain) < ChainCap \/ IsWhole(p, i)

Chain(k) == IF k \in DOMAIN entries THEN entries[k] ELSE <<>>

MoreEntries == Cardinality(put) + nBlocks < MaxEntries

\* addWord(), with the address of the block in hand.
AddWord(p) ==
  /\ phase = "source" /\ nBlocks > 0 /\ MoreEntries
  /\ LET at == [k \in {KeyAt(p, i) : i \in Starts(p)} |-> Len(p.text) + 1 - Len(k)]
     IN  entries' =
           [k \in DOMAIN entries \cup DOMAIN at |->
              IF k \in DOMAIN at /\ Kept(Chain(k), p, at[k])
              THEN Append(Chain(k), [phrase |-> p, from |-> at[k],
                                     article |-> address[nBlocks]])
              ELSE Chain(k)]
  /\ <<p, nBlocks>> \notin put /\ put' = put \cup {<<p, nBlocks>>}
  /\ UNCHANGED <<storageVars, idx, phase, searchVars>>

StoreArticle ==
  /\ phase = "source"
  /\ (StartNewBlock /\ MoreEntries) \/ \E n \in 1 .. MaxBytes : AddToBlock(n)
  /\ UNCHANGED <<entries, put, idx, phase, searchVars>>

\* The end of the source: the chunks are finished, then the index is built.
Build ==
  /\ phase = "source" /\ Finish
  /\ \E i \in {BuildIndex(DOMAIN entries)} : idx' = i
  /\ phase' = "built"
  /\ UNCHANGED <<entries, put, searchVars>>

-----------------------------------------------------------------------------
(* BtreeIndex::findArticles(). *)

\* antialias(): the whole phrase of the link must be the one searched for.
Antialiased(p, link) == link.phrase = p

ExactMatch(at, key) == at # NoChain /\ idx.words[at.at] = key

FindArticles(p) ==
  LET at == FindChain(idx, p.text)
  IN  IF p.text # <<>> /\ ExactMatch(at, p.text)
      THEN {link.article : link \in {l \in Range(entries[p.text]) : Antialiased(p, l)}}
      ELSE {}

-----------------------------------------------------------------------------
(* BtreeWordSearchRequest::findMatches(). *)

CharsToChop(str) ==
  IF Len(str) <= StemMinLength THEN 0
  ELSE Min({Len(str) - StemMinLength, StemMaxSuffix})

StartSearch(str, stemmed) ==
  /\ phase = "built" /\ phase' = "reading"
  /\ search' = [str |-> str, stemmed |-> stemmed]
  /\ folded' = str /\ chop' = IF stemmed THEN CharsToChop(str) ELSE 0
  /\ cur' = FindChain(idx, str)
  /\ matches' = {} /\ isCancelled' = FALSE
  /\ UNCHANGED <<storageVars, entries, put, idx>>

PrefixMatch == \E s \in Strings : StartSearch(s, FALSE)
StemmedMatch == \E s \in Strings : StartSearch(s, TRUE)

\* A stemmed search takes no middle of a phrase and nothing too long.
Wanted(link, key) ==
  search.stemmed => NoPrefix(link) /\ Len(key) <= Len(search.str) + StemMaxSuffix

\* The matches after a link: it is looked at before they are counted.
AfterLink(m, link, key) ==
  IF m.full THEN m
  ELSE LET all == m.all \cup (IF Wanted(link, key) THEN {link.phrase} ELSE {})
       IN  [all |-> all, full |-> Cardinality(all) >= MaxResults]

\* The matches after a chain: its links are added up to maxResults.
AfterChain(key) ==
  LET links == entries[key]
      after[i \in 0 .. Len(links)] ==
        IF i = 0 THEN [all |-> matches, full |-> FALSE]
        ELSE AfterLink(after[i - 1], links[i], key)
  IN  after[Len(links)]

ChainFits ==
  ~isCancelled /\ cur # NoChain /\ IsPrefix(folded, idx.words[cur.at])

ReadChain ==
  /\ phase = "reading" /\ ChainFits
  /\ \E m \in {AfterChain(idx.words[cur.at])} :
       /\ matches' = m.all
       /\ cur' = IF m.full THEN NoChain ELSE At(idx, cur.leaf, cur.at + 1)
  /\ UNCHANGED <<storageVars, entries, put, idx, phase, search, folded, chop, isCancelled>>

\* The chains that begin with `folded' are read: it loses its last letter.
Chop ==
  /\ phase = "reading" /\ ~ChainFits /\ chop > 0 /\ ~isCancelled
  /\ chop' = chop - 1 /\ folded' = Front(folded)
  /\ cur' = FindChain(idx, Front(folded))
  /\ UNCHANGED <<storageVars, entries, put, idx, phase, search, matches, isCancelled>>

FinishSearch ==
  /\ phase = "reading" /\ ~ChainFits /\ (chop = 0 \/ isCancelled)
  /\ phase' = "done"
  /\ UNCHANGED <<storageVars, entries, put, idx, searchVars>>

Cancel ==
  /\ phase = "reading" /\ ~isCancelled /\ isCancelled' = TRUE
  /\ UNCHANGED <<storageVars, entries, put, idx, phase, search, folded, chop, cur, matches>>

\* The answer is taken and the request deleted.
Drop ==
  /\ phase = "done" /\ phase' = "built"
  /\ search' = NoSearch /\ folded' = <<>> /\ chop' = 0 /\ cur' = NoChain
  /\ matches' = {} /\ isCancelled' = FALSE
  /\ UNCHANGED <<storageVars, entries, put, idx>>

Next ==
  \/ StoreArticle
  \/ \E p \in Phrases : AddWord(p)
  \/ Build
  \/ PrefixMatch \/ StemmedMatch \/ ReadChain \/ Chop \/ FinishSearch \/ Cancel \/ Drop

Spec == Init /\ [][Next]_vars

-----------------------------------------------------------------------------
(* Properties. *)

\* A link may be missing for want of room only: it is of a part of a phrase, or
\* of one with punctuation before it, and its chain is full.
CrowdedOut(p, i) == ~IsWhole(p, i) /\ Len(Chain(KeyAt(p, i))) >= ChainCap

\* A headword leads to all the articles that have it and to no other, and each
\* is read from the storage from its first byte on
\* (src/src/dict/btreeidx.cc:60, src/src/dict/chunkedstorage.cc:138).
ArticlesFound ==
  phase = "built" =>
    \A p \in Phrases :
      LET blocks == {b \in Blocks : <<p, b>> \in put}
          found == FindArticles(p)
      IN  /\ found \subseteq {address[b] : b \in blocks}
          /\ \A b \in blocks :
               /\ address[b] \in found \/ p.text = <<>> \/ CrowdedOut(p, Min(Starts(p)))
               /\ size[b] > 0 /\ home[b] < Half =>
                    ByteAt(address[b], 0) = [block |-> b, place |-> 0]

\* What a search should give: the phrases with a word from which on they begin
\* with the string; for a stemmed search from the first word only, with as many
\* letters of the string as may not be chopped, and not much longer.
Fits(p, i) ==
  LET s == search.str  key == KeyAt(p, i)
  IN  /\ key # <<>>
      /\ IF search.stemmed
         THEN /\ i = Min(Starts(p)) /\ Len(key) <= Len(s) + StemMaxSuffix
              /\ IsPrefix(SubSeq(s, 1, Len(s) - CharsToChop(s)), key)
         ELSE IsPrefix(s, key)

Given == {p \in Phrases : \E b \in Blocks : <<p, b>> \in put}

\* A search gives no phrase that does not fit; when it was neither cancelled nor
\* stopped by maxResults it gives all that fit, across leaves and choppings,
\* but for parts of phrases that were crowded out of every chain
\* (src/src/dict/btreeidx.cc:253).
MatchesExact ==
  /\ matches \subseteq {p \in Given : \E i \in Starts(p) : Fits(p, i)}
  /\ phase = "done" /\ ~isCancelled /\ Cardinality(matches) < MaxResults =>
       \A p \in Given \ matches : \A i \in Starts(p) : Fits(p, i) => CrowdedOut(p, i)

\* The list has each of the keys, and none of them twice.
EachOnce(list, keys) == Range(list) = keys /\ IsInjective(list)

\* The leaves listed for the headword dialog, and the walk along the links of
\* the leaves for the full-text index, each meet every key, and none twice, when
\* the keys are few enough for two levels.  An index of no keys is left out, whose
\* one leaf has no chain to read (src/src/dict/btreeidx.cc:1265, :1089).
HeadwordsListed ==
  phase = "built" /\ Len(idx.words) \in 1 .. MaxElements * (MaxElements + 1) =>
    LET keys == DOMAIN entries \ {<<>>}
        nodes == FindNodes(idx)
    IN  /\ \A n \in Range(nodes) : idx.file[n].leaf
        /\ EachOnce(KeysOfNodes(idx, nodes), keys)
        /\ EachOnce(KeysFrom(idx, FindChain(idx, <<>>)), keys)
=============================================================================
