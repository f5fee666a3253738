-------------------------------- MODULE Heap --------------------------------
(***************************************************************************)
(* The heap of the runtime, heap.cpp: segments of memory from the system,  *)
(* divided into chunks with boundary tags.  Addresses and sizes are in     *)
(* words of eight bytes.  The headers and footers that are in memory are   *)
(* the functions hdr and foot, which are undefined where memory holds      *)
(* anything else: what is read there is read by mistake.                   *)
(***************************************************************************)
EXTENDS LargeBin, Sequences, SequencesExt, FiniteSets, FiniteSetsExt

CONSTANTS
  This,          \* where heap_create puts heap_state
  StateSize,     \* its words
  InitialSize,   \* HEAP_INITIAL_SIZE
  Granularity,   \* HEAP_VM_GRANULARITY
  MaxChunk,      \* HEAP_MAX_CHUNK_SIZE
  Bases,         \* where the system may map memory
  Requests,      \* words the program asks for at a time
  MaxGiven       \* bound: how many chunks the program has

HeaderSize    == 1   \* heap_chunk_header
SegmentSize   == 3   \* heap_segment
MinBinned     == 4   \* HEAP_MIN_BINNED_SIZE

ASSUME HeapAssumption ==
  /\ This \in Nat /\ StateSize \in Nat \ {0} /\ Granularity \in Nat \ {0}
  /\ InitialSize \in Nat /\ InitialSize > StateSize + SegmentSize
  /\ MaxChunk \in Nat /\ InitialSize <= MaxChunk
  /\ Bases \subseteq Nat /\ Requests \subseteq Nat /\ MaxGiven \in Nat
  /\ LargeSize >= MinBinned

VARIABLES
  heap,    \* the fields of heap_state, the headers and footers, the memory mapped
  given,   \* what the program asked for and has not freed: address |-> words
  cursor   \* the last chunk heap_sweep returned, None when there is no sweep

vars == <<heap, given, cursor>>

None == -1

Words(at, size) == at..(at + size - 1)

heap_chunk_head(p) == p - HeaderSize
heap_chunk_data(c) == c + HeaderSize

Header(p, u, size) == [p |-> p, u |-> u, size |-> size]

(* A function without what it has in some words of memory.                   *)
Without(f, words) == Restrict(f, DOMAIN f \ words)

heap_chunk_set_free(h, c, size) ==
  [h EXCEPT !.hdr  = c :> Header(TRUE, FALSE, size) @@ Without(@, Words(c, size)),
            !.foot = (c + size - 1) :> size @@ Without(@, Words(c, size))]

(* What the footer of a free chunk held is the program's now.                *)
heap_chunk_set_allocated(h, c, size) ==
  [h EXCEPT !.hdr  = c :> Header(TRUE, TRUE, size) @@ @,
            !.foot = Without(@, Words(c, size))]

set_p(h, c)   == [h EXCEPT !.hdr[c].p = TRUE]
clear_p(h, c) == [h EXCEPT !.hdr[c].p = FALSE]

heap_chunk_prev(h, c) == c - h.foot[c - 1]

Sizes(h) == [c \in DOMAIN h.hdr |-> h.hdr[c].size]

---------------------------------------------------------------------------
(* Bins of free chunks.                                                      *)

insert_chunk(h, size, c) ==
  IF size < MinBinned THEN h
  ELSE IF size < LargeSize
       THEN [h EXCEPT !.smallbin[size] = <<c>> \o @, !.smallbin_map = @ \cup {size}]
       ELSE LET index == heap_largebin_index(size)
            IN [h EXCEPT !.largebin[index] = bin_insert(@, Sizes(h), index, size, c),
                         !.largebin_map = @ \cup {index}]

remove_small_chunk(h, index, c) ==
  LET list == SelectSeq(h.smallbin[index], LAMBDA d : d # c)
  IN [h EXCEPT !.smallbin[index] = list,
               !.smallbin_map = IF list = <<>> THEN @ \ {index} ELSE @]

(* The bin is the one that the chunk remembers to be in.                     *)
remove_large_chunk(h, c) ==
  LET index == CHOOSE i \in 0..(LargeBins - 1) : c \in InBin(h.largebin[i])
      bin   == bin_remove(h.largebin[index], c)
  IN [h EXCEPT !.largebin[index] = bin,
               !.largebin_map = IF bin.root = Null THEN @ \ {index} ELSE @]

remove_chunk(h, size, c) ==
  CASE size < MinBinned -> h
    [] MinBinned <= size /\ size < LargeSize -> remove_small_chunk(h, size, c)
    [] OTHER -> remove_large_chunk(h, c)

(* The size of a free chunk, for the victim as heap_state knows it.          *)
FreeSize(h, c) == IF c = h.victim THEN h.victim_size ELSE h.hdr[c].size

---------------------------------------------------------------------------
(* Segments.                                                                 *)

SegmentWords(s) == s.at + SegmentSize - s.base

can_merge(prev, next) ==
  /\ prev.at + SegmentSize = next.base
  /\ SegmentWords(prev) + SegmentWords(next) - SegmentSize <= MaxChunk

(* A free neighbour leaves its bin, or is the victim no more.                *)
ClaimFromBin(h, c) == IF c # h.victim THEN remove_chunk(h, h.hdr[c].size, c) ELSE h

Claim(h, c) ==
  IF c # h.victim THEN remove_chunk(h, h.hdr[c].size, c)
                  ELSE [h EXCEPT !.victim = None, !.victim_size = 0]

unlink_segment(h, at) == [h EXCEPT !.segments = SelectSeq(@, LAMBDA s : s.at # at)]

(* Memory joins that of the segment before it, whose header becomes free     *)
(* space together with a free chunk before it.                               *)
merge_prev(h, prev, segment, size) ==
  LET joined == [at |-> segment.at, base |-> prev.base]
      h1     == [h EXCEPT !.segment_size = IF prev.base = This THEN SegmentWords(joined) ELSE @]
      before == heap_chunk_prev(h, prev.at)
      joint  == size + SegmentSize
  IN IF h.hdr[prev.at].p
     THEN [h |-> h1, seg |-> joined, c |-> prev.at, size |-> joint]
     ELSE [h |-> Claim(h1, before), seg |-> joined, c |-> before, size |-> joint + FreeSize(h, before)]

(* Memory joins that of the segment behind it, and the header of its own     *)
(* segment becomes free space together with a free chunk behind it.          *)
merge_next_silently(m, next) ==
  LET first == m.seg.at + SegmentSize
      joint == m.size + SegmentSize
      seg   == [at |-> next.at, base |-> m.seg.base]
  IN IF m.h.hdr[first].u THEN [m EXCEPT !.seg = seg, !.size = joint]
     ELSE [m EXCEPT !.h = Claim(m.h, first), !.seg = seg, !.size = joint + FreeSize(m.h, first)]

merge_next(m, next) ==
  LET first == m.seg.at + SegmentSize
      joint == m.size + SegmentSize
      seg   == [at |-> next.at, base |-> m.seg.base]
      h     == m.h
  IN IF h.hdr[first].u
     THEN [m EXCEPT !.h = clear_p(h, first), !.seg = seg, !.size = joint]
     ELSE [m EXCEPT !.h = Claim(h, first), !.seg = seg, !.size = joint + FreeSize(h, first)]

SegmentRequest(size) == ((size + SegmentSize + Granularity - 1) \div Granularity) * Granularity

alloc_segment(h, size, base) ==
  LET total   == SegmentRequest(size)
      segment == [at |-> base + total - SegmentSize, base |-> base]
      mapped  == [h EXCEPT !.vm = @ \cup Words(base, total),
                           !.hdr = segment.at :> Header(FALSE, TRUE, 0) @@ @]
      below   == SelectSeq(h.segments, LAMBDA s : s.base < base)
      above   == SelectSeq(h.segments, LAMBDA s : s.base > base)
      alone   == [h |-> mapped, seg |-> segment, c |-> base, size |-> total - SegmentSize]
      first   == IF below # <<>> /\ can_merge(Last(below), segment)
                 THEN merge_prev(mapped, Last(below), segment, total - SegmentSize) ELSE alone
      both    == above # <<>> /\ can_merge(first.seg, Head(above)) /\ Head(above).base # This
      merged  == IF both THEN merge_next(first, Head(above)) ELSE first
      kept(s) == s.base # base /\ s.at # merged.seg.at /\ s.base # merged.seg.base
      sorted  == SelectSeq(below, kept) \o <<merged.seg>> \o SelectSeq(above, kept)
  IN [h |-> heap_chunk_set_free([merged.h EXCEPT !.segments = sorted], merged.c, merged.size),
      c |-> merged.c]

free_segment(h, s) ==
  LET words == Words(s.base, SegmentWords(s))
      h1    == unlink_segment(h, s.at)
  IN [h1 EXCEPT !.vm = @ \ words, !.hdr = Without(@, words), !.foot = Without(@, words)]

---------------------------------------------------------------------------
(* heap_state::malloc.                                                       *)

(* Where the system can map the memory that a chunk needs.                   *)
Room(h, size) == {base \in Bases : Words(base, SegmentRequest(size)) \cap h.vm = {}}

FromSystem(h, size) == {alloc_segment(h, size, base) : base \in Room(h, size)}
FromVictim(h)       == {[h |-> h, c |-> h.victim]}
FromSmallBin(h, index) ==
  {[h |-> remove_small_chunk(h, index, Head(h.smallbin[index])), c |-> Head(h.smallbin[index])]}
FromLargeBin(h, c)  == {[h |-> remove_large_chunk(h, c), c |-> c]}

SmallestIn(h, index) == smallest(h.largebin[index], Sizes(h))

(* The bins of a map that hold chunks of at least some size.                 *)
FirstFrom(map, index) == Min({i \in map : i >= index})

(* A chunk to split for a small request: the first of victim, smaller bin,   *)
(* larger bin and system that has one.                                       *)
small_source(h, size) ==
  IF size <= h.victim_size THEN FromVictim(h)
  ELSE IF \E i \in h.smallbin_map : i >= size THEN FromSmallBin(h, FirstFrom(h.smallbin_map, size))
  ELSE IF h.largebin_map # {} THEN FromLargeBin(h, SmallestIn(h, FirstFrom(h.largebin_map, 0)))
  ELSE FromSystem(h, size)

(* The best fit among the large bins: in the bin of that size, else the      *)
(* smallest chunk of a bin above.                                            *)
BinnedFit(h, size) ==
  LET index == heap_largebin_index(size)
      fit   == best_fit(h.largebin[index], Sizes(h), index, size)
      above == {i \in h.largebin_map : i > index}
  IN IF index \in h.largebin_map /\ fit # Null THEN fit
     ELSE IF above # {} THEN SmallestIn(h, Min(above)) ELSE Null

large_source(h, size) ==
  LET fit       == BinnedFit(h, size)
      victimFits == size <= h.victim_size
  IN IF fit # Null /\ (h.victim_size >= h.hdr[fit].size \/ ~victimFits) THEN FromLargeBin(h, fit)
     ELSE IF victimFits THEN FromVictim(h) ELSE FromSystem(h, size)

(* The chunk is split if the rest can be binned.  The rest of a chunk for a  *)
(* small request is the next victim.                                         *)
split(h, c, size) ==
  LET whole == h.hdr[c].size
      rest  == whole - size
      cut   == rest >= MinBinned
      h1    == IF cut THEN heap_chunk_set_free(heap_chunk_set_allocated(h, c, size), c + size, rest)
                      ELSE set_p(heap_chunk_set_allocated(h, c, whole), c + whole)
      h2    == [h1 EXCEPT !.victim = IF cut THEN c + size ELSE None,
                          !.victim_size = IF cut THEN rest ELSE 0]
  IN CASE c = h.victim -> h2
       [] c # h.victim /\ size < LargeSize ->
            IF h.victim = None THEN h2 ELSE insert_chunk(h2, h.victim_size, h.victim)
       [] OTHER -> IF cut THEN insert_chunk(h1, rest, c + size) ELSE h1

(* Each way the request can be met: the heap after it, and the chunk.        *)
heap_malloc(h, size) ==
  IF size \in h.smallbin_map
  THEN {[h |-> set_p(heap_chunk_set_allocated(f.h, f.c, size), f.c + size), c |-> f.c]
          : f \in FromSmallBin(h, size)}
  ELSE {[h |-> split(f.h, f.c, size), c |-> f.c]
          : f \in IF size < LargeSize THEN small_source(h, size) ELSE large_source(h, size)}

(* A request that finds no memory, or is too large, throws before it has     *)
(* changed anything.                                                         *)
malloc(words) ==
  /\ words + HeaderSize <= MaxChunk
  /\ Cardinality(DOMAIN given) <= MaxGiven
  /\ \E result \in heap_malloc(heap, words + HeaderSize) :
       /\ heap' = result.h
       /\ given' = heap_chunk_data(result.c) :> words @@ given
  /\ UNCHANGED cursor

---------------------------------------------------------------------------
(* heap_state::free.                                                         *)

(* The chunk together with a free one before it; then with one behind it,    *)
(* whose part as the victim it takes over.                                   *)
MergedBefore(h, c) ==
  LET prev == heap_chunk_prev(h, c)
      size == h.hdr[c].size
  IN IF h.hdr[c].p THEN [h |-> h, c |-> c, size |-> size]
     ELSE [h |-> IF prev = h.victim THEN h ELSE remove_chunk(h, h.hdr[prev].size, prev),
           c |-> prev, size |-> FreeSize(h, prev) + size]

MergedBehind(m) ==
  LET next == m.c + m.size
  IN IF m.h.hdr[next].u THEN m
     ELSE [m EXCEPT !.size = @ + FreeSize(m.h, next),
                    !.h = IF next = m.h.victim THEN [m.h EXCEPT !.victim = m.c]
                          ELSE remove_chunk(m.h, m.h.hdr[next].size, next)]

heap_free(h, p) ==
  LET m      == MergedBehind(MergedBefore(h, heap_chunk_head(p)))
      next   == m.c + m.size
      whole  == {i \in DOMAIN h.segments : h.segments[i].at = next /\ h.segments[i].base = m.c}
      freed  == clear_p(heap_chunk_set_free(m.h, m.c, m.size), next)
      victim == m.c = m.h.victim
  IN IF whole # {}
     THEN [free_segment(m.h, h.segments[Max(whole)]) EXCEPT
             !.victim = IF victim THEN None ELSE @, !.victim_size = IF victim THEN 0 ELSE @]
     ELSE IF victim THEN [freed EXCEPT !.victim_size = m.size] ELSE insert_chunk(freed, m.size, m.c)

free(p) ==
  /\ p \notin {cursor, heap_chunk_data(This)}
  /\ heap' = heap_free(heap, p)
  /\ given' = Without(given, {p})
  /\ UNCHANGED cursor

---------------------------------------------------------------------------
(* heap_state::sweep.  The first allocated chunk at or behind an address, in *)
(* the segment of that address or in a later one.                            *)

NextAllocated(h, from) ==
  LET SegmentAt(at) == CHOOSE i \in DOMAIN h.segments : h.segments[i].at = at
      walk[c \in DOMAIN h.hdr] ==
        LET i    == SegmentAt(c)
            base == h.segments[i + 1].base
        IN IF h.hdr[c].size = 0
           THEN IF i = Len(h.segments) THEN None
                ELSE IF h.hdr[base].u THEN base ELSE walk[base + h.hdr[base].size]
           ELSE IF h.hdr[c].u THEN c ELSE walk[c + h.hdr[c].size]
  IN walk[from]

SweepFrom == IF cursor = None THEN heap.segments[1].base
             ELSE heap_chunk_head(cursor) + heap.hdr[heap_chunk_head(cursor)].size

heap_sweep_freeing_first(free_chunk) ==
  LET freed == IF free_chunk THEN heap_free(heap, cursor) ELSE heap
      q     == IF SweepFrom \in DOMAIN freed.hdr THEN NextAllocated(freed, SweepFrom) ELSE None
  IN /\ free_chunk => cursor \notin {None, heap_chunk_data(This)}
     /\ cursor' = IF q = None THEN None ELSE heap_chunk_data(q)
     /\ heap'   = freed
     /\ given'  = IF free_chunk THEN Without(given, {cursor}) ELSE given

heap_sweep(free_chunk) ==
  LET q == NextAllocated(heap, SweepFrom)
  IN /\ free_chunk => cursor \notin {None, heap_chunk_data(This)}
     /\ cursor' = IF q = None THEN None ELSE heap_chunk_data(q)
     /\ heap'   = IF free_chunk THEN heap_free(heap, cursor) ELSE heap
     /\ given'  = IF free_chunk THEN Without(given, {cursor}) ELSE given

---------------------------------------------------------------------------
heap_create ==
  LET rest == This + StateSize
      size == InitialSize - StateSize - SegmentSize
      at   == This + InitialSize - SegmentSize
      raw  == [hdr |-> This :> Header(TRUE, TRUE, StateSize) @@ at :> Header(FALSE, TRUE, 0),
               foot |-> <<>>,
               segments |-> <<[at |-> at, base |-> This]>>,
               segment_size |-> InitialSize,
               victim |-> rest,
               victim_size |-> size,
               smallbin |-> [i \in MinBinned..(LargeSize - 1) |-> <<>>],
               smallbin_map |-> {},
               largebin |-> [i \in 0..(LargeBins - 1) |-> EmptyBin],
               largebin_map |-> {},
               vm |-> Words(This, InitialSize)]
  IN heap_chunk_set_free(raw, rest, size)

Init ==
  /\ heap = heap_create
  /\ given = heap_chunk_data(This) :> (StateSize - HeaderSize)
  /\ cursor = None

Next ==
  \/ \E words \in Requests : malloc(words)
  \/ \E p \in DOMAIN given : free(p)
  \/ \E free_chunk \in BOOLEAN : heap_sweep(free_chunk)

Spec == Init /\ [][Next]_vars

---------------------------------------------------------------------------
(* Properties.                                                               *)

FreeChunks == {c \in DOMAIN heap.hdr : ~heap.hdr[c].u}
SegmentChunks(s) == {c \in DOMAIN heap.hdr : s.base <= c /\ c <= s.at}

(* Nothing the heap keeps for itself, a header, a footer, or the pointers of *)
(* a chunk that is in a bin, is in a word that was given to the program.     *)
PointerWords(c) == IF heap.hdr[c].size < MinBinned THEN {}
                   ELSE IF heap.hdr[c].size < LargeSize THEN Words(c + 1, 2) ELSE Words(c + 1, 6)

BookkeepingIsPrivate ==
  LET own == DOMAIN heap.hdr \cup DOMAIN heap.foot
               \cup UNION {PointerWords(c) : c \in FreeChunks}
               \cup UNION {Words(s.at, SegmentSize) : s \in Range(heap.segments)}
  IN \A p \in DOMAIN given : /\ Words(p, given[p]) \cap own = {}
                             /\ Words(p, given[p]) \subseteq heap.vm

(* The memory is covered by chunks: in every segment each begins where the   *)
(* one before it ends, knows in its P bit whether that one is allocated, and *)
(* no two free ones are neighbours; footers say the size of free chunks and  *)
(* of nothing else; segments are in order, apart, and all that is mapped;    *)
(* and none of this is in a word that was given to the program.              *)
ChunksCoverSegments ==
  /\ DOMAIN heap.hdr = UNION {SegmentChunks(s) : s \in Range(heap.segments)}
  /\ heap.vm = UNION {Words(s.base, SegmentWords(s)) : s \in Range(heap.segments)}
  /\ \A i \in 1..(Len(heap.segments) - 1) :
       heap.segments[i].at + SegmentSize <= heap.segments[i + 1].base
  /\ \A s \in Range(heap.segments) :
       /\ s.base \in DOMAIN heap.hdr /\ heap.hdr[s.base].p
       /\ heap.hdr[s.at].size = 0 /\ heap.hdr[s.at].u
       /\ \A c \in SegmentChunks(s) \ {s.at} :
            LET next == c + heap.hdr[c].size
            IN /\ heap.hdr[c].size > 0
               /\ next \in SegmentChunks(s)
               /\ \A d \in SegmentChunks(s) : d <= c \/ next <= d
               /\ heap.hdr[next].p = heap.hdr[c].u
               /\ heap.hdr[c].u \/ heap.hdr[next].u
  /\ DOMAIN heap.foot = {c + heap.hdr[c].size - 1 : c \in FreeChunks}
  /\ \A c \in FreeChunks : heap.foot[c + heap.hdr[c].size - 1] = heap.hdr[c].size
  /\ BookkeepingIsPrivate

(* Every free chunk is either the victim, of the size heap_state has for it, *)
(* or too small for a bin, or in exactly the bin of its size; the maps say   *)
(* which bins have something, and nothing else is in one (check_bins of the  *)
(* heap's own test).                                                         *)
BinsHaveFreeChunks ==
  LET binned(low) == {c \in FreeChunks : heap.hdr[c].size >= low /\ c # heap.victim}
  IN /\ heap.victim # None => /\ heap.victim \in FreeChunks
                              /\ heap.hdr[heap.victim].size = heap.victim_size
     /\ heap.victim = None => heap.victim_size = 0
     /\ \A i \in DOMAIN heap.smallbin :
          /\ IsInjective(heap.smallbin[i])
          /\ Range(heap.smallbin[i]) = {c \in binned(MinBinned) : heap.hdr[c].size = i}
     /\ \A i \in DOMAIN heap.largebin :
          InBin(heap.largebin[i]) =
            {c \in binned(LargeSize) : heap_largebin_index(heap.hdr[c].size) = i}
     /\ heap.smallbin_map = {i \in DOMAIN heap.smallbin : heap.smallbin[i] # <<>>}
     /\ heap.largebin_map = {i \in DOMAIN heap.largebin : heap.largebin[i].root # Null}

(* In every large bin, whatever was put in and taken out before: the chunk   *)
(* that best_fit finds for a size is as small as any that is large enough,   *)
(* and smallest finds a smallest one.  Sizes beyond the range of the last    *)
(* bin are left out, for which the tree is not in order.                     *)
InRange(i) == \A c \in InBin(heap.largebin[i]) :
                heap.hdr[c].size < BinBase(i) + 2 ^ RangeBits(i)

SearchesFindBestFit ==
  \A i \in heap.largebin_map : InRange(i) =>
    LET bin      == heap.largebin[i]
        fits(n)  == {c \in InBin(bin) : heap.hdr[c].size >= n}
        least(c, n) == \A d \in fits(n) : heap.hdr[c].size <= heap.hdr[d].size
    IN /\ LET s == smallest(bin, Sizes(heap)) IN s \in InBin(bin) /\ least(s, 0)
       /\ \A n \in BinBase(i)..(BinBase(i) + 2 ^ RangeBits(i) - 1) :
            LET c == best_fit(bin, Sizes(heap), i, n)
            IN IF fits(n) = {} THEN c = Null ELSE c \in fits(n) /\ least(c, n)

Promise == INSTANCE MemoryMap WITH Own <- heap_chunk_data(This)

(* malloc, free and sweep keep what a memory map promises.                   *)
ImplementsMemoryMap == Promise!Spec
=============================================================================
