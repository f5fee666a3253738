------------------------------ MODULE LargeBin ------------------------------
(***************************************************************************)
(* The large bins of the heap, heap.cpp 324-704.  A bin is a binary tree   *)
(* of lists: the nodes of a list have the same size, the first of them is  *)
(* the node of the tree, and a node at depth d has its children chosen by  *)
(* bit d of the sizes, counted from the top of the bin's range.  A bin is  *)
(* a record of its root and of the fields of the chunks that are in it.    *)
(* Sizes are in words of eight bytes, and sz gives the size that is in the *)
(* header of a chunk.                                                      *)
(***************************************************************************)
EXTENDS Integers, Functions, TLC

CONSTANTS
  LogLarge,   \* 2^LogLarge is HEAP_LARGE_SIZE, in words
  LargeBins   \* HEAP_LARGEBIN_COUNT

ASSUME LargeBinAssumption == LogLarge \in Nat \ {0} /\ LargeBins \in Nat \ {0}

Null == -1

LargeSize == 2 ^ LogLarge

EmptyBin == [root |-> Null, node |-> <<>>]

InBin(bin) == DOMAIN bin.node

Log2(n) == CHOOSE k \in 0..n : 2 ^ k <= n /\ n < 2 ^ (k + 1)

(* The least size of a chunk in a bin: two bins for each power of two.       *)
BinBase(index) ==
  (2 + (index % 2)) * 2 ^ (LogLarge - 1 + index \div 2)

heap_largebin_index(size) ==
  IF size < BinBase(LargeBins - 1)
  THEN 2 * (Log2(size) - LogLarge) + ((size \div 2 ^ (Log2(size) - 1)) % 2)
  ELSE LargeBins - 1

RangeBits(index) == LogLarge - 1 + index \div 2

(* The bit of the prefix that chooses the child at a depth.  Bits above the  *)
(* range are shifted out, and after the last bit there are zeros.            *)
trie_bit(index, size, depth) ==
  IF depth < RangeBits(index) THEN (size \div 2 ^ (RangeBits(index) - 1 - depth)) % 2 ELSE 0

leftwards(bin, c) ==
  IF bin.node[c].child[0] # Null THEN bin.node[c].child[0] ELSE bin.node[c].child[1]
rightwards(bin, c) ==
  IF bin.node[c].child[1] # Null THEN bin.node[c].child[1] ELSE bin.node[c].child[0]

SetChild(bin, c, old, new) ==
  [bin EXCEPT !.node[c].child = [b \in 0..1 |-> IF @[b] = old THEN new ELSE @[b]]]

Leaf(chunk, parent) ==
  [next |-> chunk, prev |-> chunk, parent |-> parent, child |-> [b \in 0..1 |-> Null]]

(* Where the search for a size ends: at a node of that size, or at the one   *)
(* that has no child where it should go on.                                  *)
SearchEnd(bin, sz, index, size) ==
  LET walk[c \in InBin(bin), depth \in Nat] ==
        LET child == bin.node[c].child[trie_bit(index, size, depth)]
        IN IF sz[c] = size \/ child = Null THEN <<c, depth>> ELSE walk[child, depth + 1]
  IN walk[bin.root, 0]

bin_insert(bin, sz, index, size, chunk) ==
  IF bin.root = Null
  THEN [root |-> chunk, node |-> chunk :> Leaf(chunk, chunk)]
  ELSE LET end  == SearchEnd(bin, sz, index, size)
           at   == end[1]
           next == bin.node[at].next
           link == [next |-> next, prev |-> at, parent |-> Null, child |-> [b \in 0..1 |-> Null]]
       IN IF sz[at] = size
          THEN LET added == [bin EXCEPT !.node = chunk :> link @@ @]
               IN [added EXCEPT !.node[at].next = chunk,
                                !.node[next].prev = chunk]
          ELSE [bin EXCEPT !.node = chunk :> Leaf(chunk, at) @@
                 [@ EXCEPT ![at].child[trie_bit(index, size, end[2])] = chunk]]

(* The rightmost leaf under a chunk, which replaces it; Null if it is a leaf.*)
Replacement(bin, chunk) ==
  LET walk[c \in InBin(bin)] == IF rightwards(bin, c) = Null THEN c ELSE walk[rightwards(bin, c)]
  IN IF rightwards(bin, chunk) = Null THEN Null ELSE walk[rightwards(bin, chunk)]

Unlinked(bin, chunk) ==
  LET n == bin.node[chunk]
  IN [bin EXCEPT !.node = [@ EXCEPT ![n.prev].next = n.next, ![n.next].prev = n.prev]]

(* The place of chunk in the tree goes to replace, with the children.        *)
TakePlace(bin, chunk, replace) ==
  LET n       == bin.node[chunk]
      orphans == {n.child[b] : b \in 0..1} \ {Null}
      top     == IF n.parent = chunk THEN replace ELSE n.parent
      node    == [c \in InBin(bin) |->
                   [bin.node[c] EXCEPT
                     !.parent = IF c = replace THEN top ELSE IF c \in orphans THEN replace ELSE @,
                     !.child  = IF c = replace THEN n.child ELSE @]]
      moved   == [bin EXCEPT !.node = node]
  IN IF n.parent = chunk THEN [moved EXCEPT !.root = replace]
                         ELSE SetChild(moved, n.parent, chunk, replace)

bin_remove(bin, chunk) ==
  LET n       == bin.node[chunk]
      leaf    == Replacement(bin, chunk)
      removed(b) == [b EXCEPT !.node = Restrict(@, InBin(b) \ {chunk})]
  IN CASE n.next # chunk /\ n.parent = Null -> removed(Unlinked(bin, chunk))
       [] n.next # chunk /\ n.parent # Null -> removed(TakePlace(Unlinked(bin, chunk), chunk, n.next))
       [] n.next = chunk /\ leaf = Null -> removed(TakePlace(bin, chunk, Null))
       [] n.next = chunk /\ leaf # Null ->
            removed(TakePlace(SetChild(bin, bin.node[leaf].parent, leaf, Null), chunk, leaf))

(* The nodes passed on the way to the left from a node, which is Null when   *)
(* there is none, and the first of the least size among some nodes that fit. *)
LeftSpine(bin, top) ==
  LET walk[c \in InBin(bin) \cup {Null}] ==
        IF c = Null THEN {} ELSE {c} \cup walk[leftwards(bin, c)]
  IN walk[top]

LeastOf(bin, sz, nodes, size) ==
  LET fits == {c \in nodes : size <= sz[c]}
  IN IF fits = {} THEN Null
     ELSE bin.node[CHOOSE c \in fits : \A d \in fits : sz[c] <= sz[d]].next

(* The node that is itself taken when nothing on the spine is smaller than   *)
(* the root: smallest returns the root then, not the second of its list.     *)
smallest(bin, sz) ==
  LET spine == LeftSpine(bin, bin.root)
  IN IF \A c \in spine : sz[bin.root] <= sz[c] THEN bin.root ELSE LeastOf(bin, sz, spine, 0)

(* The path towards a size.                                                *)
best_fit_on_path(bin, sz, index, size) ==
  LET walk[c \in InBin(bin), depth \in Nat] ==
        LET down  == bin.node[c].child[trie_bit(index, size, depth)]
        IN {c} \cup (IF down = Null THEN {} ELSE walk[down, depth + 1])
  IN LeastOf(bin, sz, walk[bin.root, 0], size)
(* The path towards a size, and the last right subtree that was passed by.   *)
best_fit(bin, sz, index, size) ==
  LET walk[c \in InBin(bin), depth \in Nat, right \in InBin(bin) \cup {Null}] ==
        LET other == bin.node[c].child[1]
            down  == bin.node[c].child[trie_bit(index, size, depth)]
            aside == IF other # Null /\ other # down THEN other ELSE right
            rest  == IF sz[c] = size THEN {}
                     ELSE IF down = Null THEN LeftSpine(bin, aside)
                     ELSE walk[down, depth + 1, aside]
        IN {c} \cup rest
  IN LeastOf(bin, sz, walk[bin.root, 0, Null], size)
=============================================================================
