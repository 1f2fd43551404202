----------------------------- MODULE BtreeIndex -----------------------------
(***************************************************************************)
(* The index of headwords (src/src/dict/btreeidx.cc): how it is laid out in  *)
(* a file as a tree of nodes and linked leaves, and how a word is looked for *)
(* in it.  A key is a folded headword, a sequence of letters.  The file is   *)
(* the sequence of its nodes in the order in which they are written; the     *)
(* address of a node is its number.  A leaf holds the chains of `count' keys *)
(* from number `first' on, in the order of all keys.                         *)
(***************************************************************************)
EXTENDS Naturals, Sequences, FiniteSets, SequencesExt

CONSTANTS
  MinElements,   \* BtreeMinElements
  MaxElements    \* BtreeMaxElements

ASSUME BtreeAssumption ==
  MinElements \in Nat \ {0} /\ MaxElements \in Nat /\ MinElements <= MaxElements

\* The order of the map of words: that of the letters, a prefix first.
KeyLess(s, t) ==
  \E i \in 0 .. Len(s) :
    /\ Len(t) > i
    /\ \A j \in 1 .. i : s[j] = t[j]
    /\ i = Len(s) \/ s[i + 1] < t[i + 1]

\* The map's keys in their order: each comes after as many as are less.
SortedKeys(keys) ==
  [k \in 1 .. Cardinality(keys) |->
     CHOOSE s \in keys : Cardinality({t \in keys : KeyLess(t, s)}) = k - 1]

-----------------------------------------------------------------------------
(* Building. *)

\* A node of the file.  A separator is given by the number of its key.  Of an inner
\* node `first' and `count' are history: the keys below it.
Nodes == [leaf : BOOLEAN, first : Nat, count : Nat, link : Nat,
          kids : Seq(Nat), seps : Seq(Nat)]

Leaf(first, count) ==
  [leaf |-> TRUE, first |-> first, count |-> count, link |-> 0, kids |-> <<>>, seps |-> <<>>]

Inner(first, count, kids, seps) ==
  [leaf |-> FALSE, first |-> first, count |-> count, link |-> 0, kids |-> kids, seps |-> seps]

\* What one call of buildBtreeNode() hands on to the next: the file so far, the next
\* key and the last leaf.
Builds == [file : Seq(Nodes), next : Nat, last : Nat]

Root(n) == CHOOSE r \in 0 .. n : r * r <= n /\ n < (r + 1) * (r + 1)

\* How many separators a node has.
TreeElements(n) ==
  IF Root(n) + 1 < MinElements THEN MinElements
  ELSE IF Root(n) + 1 > MaxElements THEN MaxElements ELSE Root(n) + 1

\* Mutated form: a leaf that no other leaf points to.
LeafUnlinked(file, last) == file

\* The link of the last leaf is set to the one written after it.
LinkLeaf(file, last) ==
  IF last = 0 THEN file ELSE [file EXCEPT ![last].link = Len(file) + 1]

AddLeaf(b, n) ==
  [file |-> Append(LinkLeaf(b.file, b.last), Leaf(b.next, n)),
   next |-> b.next + n, last |-> Len(b.file) + 1]

\* Mutated form: the separator is the last key on its left.
SeparatorLeft(next) == next - 1

Separator(next) == next

\* One child more is built; `build' says how, and a separator follows all but the
\* last.
AddChild(acc, build, isLast) ==
  LET b == build[acc.b]
  IN  [b |-> b, kids |-> Append(acc.kids, Len(b.file)),
       seps |-> IF isLast THEN acc.seps ELSE Append(acc.seps, Separator(b.next))]

\* A node comes after its children.
AddInner(b, builds) ==
  LET n == Len(builds)
      acc[x \in 0 .. n] ==
        IF x = 0 THEN [b |-> b, kids |-> <<>>, seps |-> <<>>]
        ELSE AddChild(acc[x - 1], builds[x], x = n)
      all == acc[n]
  IN  [all.b EXCEPT !.file =
         Append(@, Inner(b.next, all.b.next - b.next, all.kids, all.seps))]

\* The keys of child x of m + 1.
Share(n, m, x) == (n * x) \div (m + 1) - (n * (x - 1)) \div (m + 1)

\* buildBtreeNode() for n keys.
BuildNode(m) ==
  LET build[n \in Nat] ==
        IF n <= m THEN [b \in Builds |-> AddLeaf(b, n)]
        ELSE [b \in Builds |-> AddInner(b, [x \in 1 .. m + 1 |-> build[Share(n, m, x)]])]
  IN  build

\* buildIndex(): the empty key is skipped, the root comes last.
BuildIndex(keys) ==
  LET words == SortedKeys(keys \ {<<>>})
      n == Len(words)
  IN  [words |-> words,
       file |-> BuildNode(TreeElements(n))[n][[file |-> <<>>, next |-> 1, last |-> 0]].file]

RootOf(idx) == Len(idx.file)

-----------------------------------------------------------------------------
(* Looking for a key. *)

\* The parts of a range that a binary search may look at, each with its end.
Windows(from, to) == {w \in (from .. to) \X (from .. to) : w[1] < w[2]}

\* Where the separators lie, one after the other, as strings ended by a zero.
StartsOf(words, seps) ==
  LET start[i \in 1 .. Len(seps) + 1] ==
        IF i = 1 THEN 0 ELSE start[i - 1] + Len(words[seps[i - 1]]) + 1
  IN  start

\* The binary search in the separators of a node: it hits the byte in the middle of
\* the window and takes the string that is there.  It gives the number of the child
\* to go to.
ChildFor(target, words, seps) ==
  LET start == StartsOf(words, seps)
      search[w \in Windows(1, Len(seps) + 1)] ==
        LET testPoint == start[w[1]] + (start[w[2]] - start[w[1]]) \div 2
            i == CHOOSE j \in w[1] .. w[2] - 1 :
                   start[j] <= testPoint /\ testPoint < start[j + 1]
        IN  CASE target = words[seps[i]] -> i + 1
              [] KeyLess(target, words[seps[i]]) ->
                   IF i = w[1] THEN i ELSE search[<<w[1], i>>]
              [] OTHER -> IF i + 1 = w[2] THEN i + 1 ELSE search[<<i + 1, w[2]>>]
  IN  search[<<1, Len(seps) + 1>>]

\* The binary search in the chains of a leaf: the number of the first key that
\* is not before the target, one past the leaf's if there is none in it.
LeafSearch(target, words, node) ==
  LET search[w \in Windows(node.first, node.first + node.count)] ==
        LET half == (w[2] - w[1]) \div 2
            c == w[1] + half
        IN  CASE target = words[c] -> c
              [] KeyLess(target, words[c]) -> IF half = 0 THEN c ELSE search[<<w[1], c>>]
              [] OTHER -> IF c + 1 = w[2] THEN c + 1 ELSE search[<<c + 1, w[2]>>]
  IN  search[<<node.first, node.first + node.count>>]

NoChain == [leaf |-> 0, at |-> 0]

\* Where reading goes on after a chain: nextLeaf at the end of a leaf.
At(idx, leaf, k) ==
  LET node == idx.file[leaf]
  IN  CASE k < node.first + node.count -> [leaf |-> leaf, at |-> k]
        [] k >= node.first + node.count /\ node.link # 0 ->
             [leaf |-> node.link, at |-> idx.file[node.link].first]
        [] OTHER -> NoChain

\* The child of a node where the way to the target goes.
Toward(idx, node, target) ==
  node.kids[IF target = <<>> THEN 1 ELSE ChildFor(target, idx.words, node.seps)]

\* What is found in the leaf where it ends.
InLeaf(idx, offset, target) ==
  LET node == idx.file[offset]
  IN  CASE node.count = 0 -> NoChain
        [] node.count > 0 /\ target = <<>> -> [leaf |-> offset, at |-> node.first]
        [] OTHER -> At(idx, offset, LeafSearch(target, idx.words, node))

\* findChainOffsetExactOrPrefix().
FindChain(idx, target) ==
  LET reach[offset \in DOMAIN idx.file] ==
        IF idx.file[offset].leaf THEN InLeaf(idx, offset, target)
        ELSE reach[Toward(idx, idx.file[offset], target)]
  IN  reach[RootOf(idx)]

-----------------------------------------------------------------------------
(* Listing. *)

\* Mutated form: as many children as separators.
FindNodesShort(idx) ==
  IF idx.file[RootOf(idx)].leaf THEN <<RootOf(idx)>>
  ELSE Front(idx.file[RootOf(idx)].kids)

\* findNodes(): "the btree's implementation has the height = 2".
FindNodes(idx) ==
  IF idx.file[RootOf(idx)].leaf THEN <<RootOf(idx)>> ELSE idx.file[RootOf(idx)].kids

\* findSingleNodeHeadwords(), where the node is a leaf: its chains as they are read.
KeysOfNode(idx, offset) ==
  SubSeq(idx.words, idx.file[offset].first,
         idx.file[offset].first + idx.file[offset].count - 1)

\* findHeadWords() of nodes: one after the other.
KeysOfNodes(idx, nodes) == FlattenSeq([i \in DOMAIN nodes |-> KeysOfNode(idx, nodes[i])])

\* Where a chain may be.
Chains(idx) ==
  {c \in [leaf : DOMAIN idx.file, at : DOMAIN idx.words] :
     LET node == idx.file[c.leaf]
     IN  node.leaf /\ node.first <= c.at /\ c.at < node.first + node.count}

\* findArticleLinks(): all chains from one on, leaf after leaf.
KeysFrom(idx, cur) ==
  LET keys[c \in Chains(idx)] ==
        LET next == At(idx, c.leaf, c.at + 1)
        IN  <<idx.words[c.at]>> \o (IF next = NoChain THEN <<>> ELSE keys[next])
  IN  IF cur = NoChain THEN <<>> ELSE keys[cur]
=============================================================================
