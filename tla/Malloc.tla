-------------------------------- MODULE Malloc --------------------------------
(***************************************************************************)
(* runtime/malloc.c: the address-ordered first-fit free list behind        *)
(* malloc, free, calloc and realloc of the freestanding runtime.           *)
(*                                                                         *)
(* Addresses are naturals.  The header size, the alignment, the page size, *)
(* the smallest region asked of the kernel and the width of size_t are     *)
(* parameters, so that a small instance keeps every comparison and every   *)
(* wrap-around of the real 32 / 16 / 4096 / 1 MiB / 2^64.  The calls are   *)
(* not synchronised in the code; this module is one thread using them.     *)
(***************************************************************************)
EXTENDS Integers, Sequences

CONSTANTS
  Hdr,        \* sizeof(struct chunk)
  Align,      \* the 16 of align16
  Slack,      \* the 64 heap_grow adds to a region
  Page,       \* 4096
  MinRegion,  \* 1048576
  Word,       \* 2^64: size_t arithmetic is modulo Word
  ArenaTop,   \* every address the kernel hands out is below ArenaTop
  Requests    \* the sizes the program asks for

ASSUME SizesAssumption ==
  /\ Hdr \in Nat \ {0} /\ Align \in Nat \ {0} /\ Page \in Nat \ {0}
  /\ Slack \in Nat /\ MinRegion \in Nat /\ Word \in Nat /\ ArenaTop \in Nat
  /\ MinRegion >= Hdr + Align
  /\ Align < Word /\ Page < Word /\ Hdr + Slack < Word
  /\ ArenaTop + Hdr + Align < Word
  /\ \A n \in {Hdr, Page, MinRegion, Word} : n % Align = 0
  /\ Requests \subseteq 0 .. (Word - 1)

VARIABLES
  heap,  \* [hdr, free, regions]: the headers in memory, freelist_head, the mmaps
  live   \* the chunks handed out and not yet freed, by header address

vars == <<heap, live>>

Addr   == 0 .. ArenaTop
Chunk  == [size : Nat, user_size : Nat, state : {0, 1}]
Region == [base : Addr, len : Nat]

-----------------------------------------------------------------------------
(* Reading the heap.                                                       *)

Extent(h, a)  == a .. (a + Hdr + h.hdr[a].size - 1)
OnList(h)     == {h.free[i] : i \in 1 .. Len(h.free)}
Mapped(h)     == UNION {r.base .. (r.base + r.len - 1) : r \in h.regions}

chunks_adjacent(h, a, b) == a + Hdr + h.hdr[a].size = b

(* malloc's walk stops at the first chunk of the list that is long enough. *)
Fits(h, n) == {i \in 1 .. Len(h.free) : h.hdr[h.free[i]].size >= n}
FirstFit(h, n) ==
  CHOOSE i \in Fits(h, n) : \A j \in Fits(h, n) : i <= j

(* free's and heap_grow's walk stops at the first chunk not below c.       *)
InsertAt(h, c) ==
  CHOOSE k \in 1 .. Len(h.free) + 1 :
    /\ \A i \in 1 .. k - 1 : h.free[i] < c
    /\ k <= Len(h.free) => h.free[k] >= c

Inserted(s, k, x) ==
  [i \in 1 .. Len(s) + 1 |-> IF i < k THEN s[i] ELSE IF i = k THEN x ELSE s[i - 1]]
Dropped(s, k) ==
  [i \in 1 .. Len(s) - 1 |-> IF i < k THEN s[i] ELSE s[i + 1]]

(* Mutant of Overwrite: one address too many is written.                   *)
OverwriteOneMore(hdr, lo, hi) ==
  [a \in {b \in DOMAIN hdr : b + Hdr <= lo \/ hi < b} |-> hdr[a]]

(* Writing lo .. hi-1 destroys every header that overlaps it; storing a    *)
(* header does too, except for the one it stores.                          *)
Overwrite(hdr, lo, hi) ==
  [a \in {b \in DOMAIN hdr : b + Hdr <= lo \/ hi <= b} |-> hdr[a]]
Store(hdr, c, v) ==
  LET kept == Overwrite(hdr, c, c + Hdr)
  IN [a \in DOMAIN kept \union {c} |-> IF a = c THEN v ELSE kept[a]]

-----------------------------------------------------------------------------
(* size_t arithmetic.                                                      *)

RoundDown(n, a) == n - (n % a)

align16(n) ==
  IF n > Word - Align THEN Word - Align ELSE n + ((Align - (n % Align)) % Align)

Wanted(n) == align16(IF n = 0 THEN 1 ELSE n)

RegionSize(need) ==
  LET rounded == RoundDown((need + Hdr + Slack + Page - 1) % Word, Page)
  IN IF rounded < MinRegion THEN MinRegion ELSE rounded

-----------------------------------------------------------------------------
(* Mutant of Coalesced: the absorbed header is not counted.                *)
CoalescedShort(h, k) ==
  IF /\ k \in 1 .. Len(h.free) - 1
     /\ chunks_adjacent(h, h.free[k], h.free[k + 1])
  THEN [hdr     |-> [h.hdr EXCEPT ![h.free[k]].size = @ + h.hdr[h.free[k + 1]].size],
        free    |-> Dropped(h.free, k + 1),
        regions |-> h.regions]
  ELSE h

(* Absorb the chunk at list position k + 1 into the one at position k when *)
(* the two touch: `a->size = a->size + sizeof + b->size' and b->state = 0. *)
Coalesced(h, k) ==
  IF /\ k \in 1 .. Len(h.free) - 1
     /\ chunks_adjacent(h, h.free[k], h.free[k + 1])
  THEN LET a == h.free[k]
           b == h.free[k + 1]
       IN [hdr     |-> [h.hdr EXCEPT ![a].size = @ + Hdr + h.hdr[b].size,
                                     ![b].state = 0],
           free    |-> Dropped(h.free, k + 1),
           regions |-> h.regions]
  ELSE h

(* heap_grow after a successful mmap of len bytes at p.                    *)
WithRegion(h, p, len) ==
  LET k == InsertAt(h, p)
      g == [hdr     |-> Store(h.hdr, p, [size |-> len - Hdr, user_size |-> 0, state |-> 1]),
            free    |-> Inserted(h.free, k, p),
            regions |-> h.regions \union {[base |-> p, len |-> len]}]
  IN Coalesced(g, k)

(* The kernel may refuse, or place the mapping at any free page.           *)
MapAt(h, len) ==
  {p \in Addr : /\ p > 0 /\ p % Page = 0 /\ p + len <= ArenaTop
                /\ (p .. (p + len - 1)) \intersect Mapped(h) = {}}

heap_grow(h, need) ==
  IF need > Word - 1 - (Hdr + Slack)
  THEN {h}
  ELSE {h} \union {WithRegion(h, p, RegionSize(need)) : p \in MapAt(h, RegionSize(need))}

(* A chunk is split when a header and one more unit fit behind the payload. *)
Splits(h, c, n) == h.hdr[c].size >= (n + Hdr + Align) % Word

(* malloc takes the i-th chunk of the list for a payload of n, remembering *)
(* the caller's orig_n, and zeroes the payload.                            *)
Taken(h, i, n, orig_n) ==
  LET c     == h.free[i]
      cs    == h.hdr[c].size
      split == Splits(h, c, n)
      rest  == c + Hdr + n
      hdr1  == IF split
               THEN Store(h.hdr, rest, [size |-> cs - n - Hdr, user_size |-> 0, state |-> 1])
               ELSE h.hdr
      size1 == IF split THEN n ELSE cs
      hdr2  == Store(hdr1, c, [size |-> size1, user_size |-> orig_n, state |-> 0])
  IN [hdr     |-> Overwrite(hdr2, c + Hdr, c + Hdr + n),
      free    |-> IF split THEN [h.free EXCEPT ![i] = rest] ELSE Dropped(h.free, i),
      regions |-> h.regions]

(* The heaps malloc may find when its search is over: heap_grow runs when  *)
(* the list is empty, and once more when nothing on it is long enough.     *)
Searched(h, n) ==
  LET first == IF Len(h.free) = 0 THEN heap_grow(h, n) ELSE {h}
  IN UNION {IF Fits(g, n) = {} THEN heap_grow(g, n) ELSE {g} : g \in first}

(* Mutants of Released: only the right neighbour is absorbed; the flag is  *)
(* left at 0.                                                              *)
ReleasedOneSided(h, c) ==
  LET k == InsertAt(h, c)
  IN Coalesced([hdr     |-> [h.hdr EXCEPT ![c].state = 1],
                free    |-> Inserted(h.free, k, c),
                regions |-> h.regions], k)
ReleasedUnflagged(h, c) ==
  LET k == InsertAt(h, c)
      g == [hdr |-> h.hdr, free |-> Inserted(h.free, k, c), regions |-> h.regions]
  IN Coalesced(Coalesced(g, k), k - 1)

(* free of the chunk at c.                                                 *)
Released(h, c) ==
  IF h.hdr[c].state = 1
  THEN h
  ELSE LET k == InsertAt(h, c)
           g == [hdr     |-> [h.hdr EXCEPT ![c].state = 1],
                 free    |-> Inserted(h.free, k, c),
                 regions |-> h.regions]
       IN Coalesced(Coalesced(g, k), k - 1)

-----------------------------------------------------------------------------
Init == /\ heap = [hdr |-> <<>>, free |-> <<>>, regions |-> {}]
        /\ live = {}

(* malloc(n) finds a chunk.                                                *)
Malloc(n) ==
  \E h \in Searched(heap, Wanted(n)) :
    /\ Fits(h, Wanted(n)) # {}
    /\ LET i == FirstFit(h, Wanted(n))
       IN /\ heap' = Taken(h, i, Wanted(n), n)
          /\ live' = live \union {h.free[i]}

(* malloc(n) returns 0; the region heap_grow may have mapped stays.        *)
MallocFails(n) ==
  \E h \in Searched(heap, Wanted(n)) :
    /\ Fits(h, Wanted(n)) = {}
    /\ heap' = h
    /\ UNCHANGED live

Free(c) ==
  /\ heap' = Released(heap, c)
  /\ live' = live \ {c}

(* Mutant of Calloc: the product may wrap.                                 *)
CallocWraps(n, m) == Malloc((n * m) % Word) \/ MallocFails((n * m) % Word)

(* calloc(n, m): refused when n * m exceeds size_t, else malloc(n * m).    *)
Calloc(n, m) ==
  IF m # 0 /\ n > (Word - 1) \div m
  THEN UNCHANGED vars
  ELSE Malloc((n * m) % Word) \/ MallocFails((n * m) % Word)

(* realloc of a live block that is long enough: in place.                  *)
ReallocInPlace(c, n) ==
  /\ n # 0
  /\ heap.hdr[c].size >= n
  /\ heap' = [hdr     |-> [heap.hdr EXCEPT ![c].user_size = n],
              free    |-> heap.free,
              regions |-> heap.regions]
  /\ UNCHANGED live

(* realloc of a block that is too short: malloc, copy, free.  When malloc  *)
(* fails the old block is untouched.  realloc(0, n) is malloc(n) and       *)
(* realloc(p, 0) is free(p).                                               *)
ReallocMoves(c, n) ==
  /\ n # 0
  /\ heap.hdr[c].size < n
  /\ \E h \in Searched(heap, Wanted(n)) :
       IF Fits(h, Wanted(n)) # {}
       THEN LET i == FirstFit(h, Wanted(n))
                g == Taken(h, i, Wanted(n), n)
            IN /\ heap' = Released(g, c)
               /\ live' = (live \union {h.free[i]}) \ {c}
       ELSE heap' = h /\ UNCHANGED live

Next ==
  \/ \E n \in Requests : Malloc(n) \/ MallocFails(n)
  \/ \E n, m \in Requests : Calloc(n, m)
  \/ \E c \in live : Free(c)
  \/ \E c \in live, n \in Requests : ReallocInPlace(c, n) \/ ReallocMoves(c, n)

Spec == Init /\ [][Next]_vars

-----------------------------------------------------------------------------
(* What the allocator must keep.                                           *)

Chunks(h, L) == OnList(h) \union L

TypeOK ==
  /\ DOMAIN heap.hdr \subseteq Addr
  /\ heap.hdr \in [DOMAIN heap.hdr -> Chunk]
  /\ heap.free \in Seq(Addr)
  /\ heap.regions \subseteq Region
  /\ live \subseteq Addr
  /\ Chunks(heap, live) \subseteq DOMAIN heap.hdr

(* The list is in strictly increasing address order, which free and        *)
(* heap_grow rely on to find the neighbours of a chunk in one walk.        *)
Sorted == \A i, j \in 1 .. Len(heap.free) : i < j => heap.free[i] < heap.free[j]

(* No byte belongs to two chunks, whether live or free: what one caller    *)
(* owns is never handed to another, and never used for a header.           *)
Disjoint ==
  \A a, b \in Chunks(heap, live) :
    a # b => Extent(heap, a) \intersect Extent(heap, b) = {}

(* Splitting and merging lose no memory: every byte obtained from the      *)
(* kernel lies in a chunk, and every chunk lies in obtained memory.        *)
NothingLost ==
  Mapped(heap) = UNION {Extent(heap, a) : a \in Chunks(heap, live)}

(* The flag free() reads instead of walking the list says what a walk of   *)
(* the list would say, for every chunk the program can pass.               *)
FlagIsMembership ==
  \A a \in Chunks(heap, live) : heap.hdr[a].state = 1 <=> a \in OnList(heap)

(* The list is what free and malloc take it for.                           *)
FreeListSound == Sorted /\ FlagIsMembership

(* A live block is at least as long as what its owner asked for.           *)
BlocksLongEnough ==
  \A a \in live : heap.hdr[a].size >= heap.hdr[a].user_size

(* Every byte the kernel gave belongs to one chunk, and a block has all    *)
(* the bytes its owner asked for.                                          *)
MemoryAccounted == Disjoint /\ NothingLost /\ BlocksLongEnough

(* Two free chunks touch only where two mmaps happen to touch: free merges *)
(* a chunk with both of its neighbours.                                    *)
NeighboursMerged ==
  \A i \in 1 .. Len(heap.free) - 1 :
    chunks_adjacent(heap, heap.free[i], heap.free[i + 1])
      => \E r \in heap.regions : r.base = heap.free[i + 1]

(* The pointer given to the caller is a multiple of 16, also after any     *)
(* sequence of splits, merges and region sizes.                            *)
PointersAligned == \A a \in live : (a + Hdr) % Align = 0

(* The blocks the program holds, as its pointers and the sizes it asked    *)
(* for.                                                                    *)
UserBlocks == [p \in {c + Hdr : c \in live} |-> heap.hdr[p - Hdr].user_size]

(* The sizes asked for: calloc's product is the true one, never wrapped.   *)
Asked == Requests \union {n * m : n, m \in Requests}

AbstractHeap ==
  INSTANCE Heap WITH Addresses <- Addr, Alignment <- Align, Sizes <- Asked,
                     blocks <- UserBlocks

(* The allocator implements the abstract heap: each call adds, removes,    *)
(* resizes or moves one block, into aligned bytes that no other block has, *)
(* and leaves the recorded size of every other block alone.                *)
KeepsItsPromise == AbstractHeap!Spec
=============================================================================
