----------------------------- MODULE MallocProofs -----------------------------
(***************************************************************************)
(* The safety of runtime/malloc.c for every arena, header size, alignment, *)
(* page size and word width: no byte is in two chunks and none is lost;    *)
(* blocks and headers are aligned; free neighbours are merged; and every   *)
(* call is a step of Heap.                                                 *)
(***************************************************************************)
EXTENDS Malloc, NaturalsInduction, WellFoundedInduction, TLAPS

-----------------------------------------------------------------------------
(* Lists.                                                                  *)

Entries(s)   == {s[i] : i \in 1 .. Len(s)}
Ascending(s) == \A i, j \in 1 .. Len(s) : i < j => s[i] < s[j]

(* Every nonempty set of naturals has a least element.                     *)
LEMMA LeastElement ==
  ASSUME NEW S \in SUBSET Nat, S # {}
  PROVE  \E m \in S : \A k \in S : m <= k
<1>1. IsWellFoundedOn(OpToRel(<, Nat), Nat)
  BY NatLessThanWellFounded
<1>2. PICK m \in S : \A k \in S : ~ (<<k, m>> \in OpToRel(<, Nat))
  BY <1>1, WFMin
<1>3. \A k \in S : ~ (k < m)
  BY <1>2 DEF OpToRel
<1> QED
  BY <1>3

(* Where a walk of an ascending list stops, x can be inserted.             *)
LEMMA InsertPosition ==
  ASSUME NEW h, h.free \in Seq(Nat), NEW x \in Nat
  PROVE  /\ InsertAt(h, x) \in 1 .. Len(h.free) + 1
         /\ \A i \in 1 .. InsertAt(h, x) - 1 : h.free[i] < x
         /\ InsertAt(h, x) <= Len(h.free) => h.free[InsertAt(h, x)] >= x
<1> DEFINE s == h.free
           stops == {k \in 1 .. Len(s) + 1 : k <= Len(s) => s[k] >= x}
<1>1. Len(s) \in Nat /\ \A i \in 1 .. Len(s) : s[i] \in Nat
  OBVIOUS
<1>2. Len(s) + 1 \in stops /\ stops \in SUBSET Nat
  BY <1>1
<1>3. PICK m \in stops : \A k \in stops : m <= k
  BY <1>2, LeastElement
<1>4. \A i \in 1 .. m - 1 : s[i] < x
  <2> SUFFICES ASSUME NEW i \in 1 .. m - 1 PROVE s[i] < x
    OBVIOUS
  <2>1. i \notin stops /\ i \in 1 .. Len(s)
    BY <1>1, <1>3
  <2> QED
    BY <2>1, <1>1
<1> HIDE DEF stops
<1>5. \E k \in 1 .. Len(s) + 1 :
        /\ \A i \in 1 .. k - 1 : s[i] < x
        /\ k <= Len(s) => s[k] >= x
  BY <1>3, <1>4 DEF stops
<1> QED
  BY <1>5 DEF InsertAt

LEMMA InsertedList ==
  ASSUME NEW s \in Seq(Nat), Ascending(s), NEW x \in Nat, x \notin Entries(s),
         NEW k \in 1 .. Len(s) + 1,
         \A i \in 1 .. k - 1 : s[i] < x,
         k <= Len(s) => s[k] >= x
  PROVE  /\ Inserted(s, k, x) \in Seq(Nat)
         /\ Len(Inserted(s, k, x)) = Len(s) + 1
         /\ Ascending(Inserted(s, k, x))
         /\ Entries(Inserted(s, k, x)) = Entries(s) \union {x}
<1> DEFINE t == Inserted(s, k, x)
<1>1. Len(s) \in Nat /\ \A i \in 1 .. Len(s) : s[i] \in Nat
  OBVIOUS
<1>2. t = [i \in 1 .. Len(s) + 1 |-> IF i < k THEN s[i] ELSE IF i = k THEN x ELSE s[i - 1]]
  BY DEF Inserted
<1>3. \A i \in 1 .. Len(s) + 1 : t[i] \in Nat
  BY <1>1, <1>2
<1>4. t \in Seq(Nat) /\ Len(t) = Len(s) + 1
  BY <1>1, <1>2, <1>3
<1> HIDE DEF t
<1>5. \A i \in k .. Len(s) : s[i] > x
  <2> SUFFICES ASSUME NEW i \in k .. Len(s) PROVE s[i] > x
    OBVIOUS
  <2>1. s[k] >= x /\ s[k] # x /\ s[i] >= s[k]
    BY <1>1 DEF Ascending, Entries
  <2> QED
    BY <2>1, <1>1
<1>6. Ascending(t)
  <2> SUFFICES ASSUME NEW i \in 1 .. Len(s) + 1, NEW j \in 1 .. Len(s) + 1, i < j
               PROVE  t[i] < t[j]
    BY <1>4 DEF Ascending
  <2>1. CASE j < k
    BY <2>1, <1>1, <1>2 DEF Ascending
  <2>2. CASE j = k
    BY <2>2, <1>1, <1>2
  <2>3. CASE j > k /\ i < k
    <3>1. i \in 1 .. Len(s) /\ j - 1 \in 1 .. Len(s) /\ i < j - 1
      BY <2>3, <1>1
    <3> QED
      BY <3>1, <2>3, <1>1, <1>2 DEF Ascending
  <2>4. CASE j > k /\ i = k
    BY <2>4, <1>1, <1>2, <1>5
  <2>5. CASE j > k /\ i > k
    <3>1. i - 1 \in 1 .. Len(s) /\ j - 1 \in 1 .. Len(s) /\ i - 1 < j - 1
      BY <2>5, <1>1
    <3>2. s[i - 1] < s[j - 1]
      BY <3>1 DEF Ascending
    <3>3. t[i] = s[i - 1] /\ t[j] = s[j - 1]
      BY <2>5, <1>1, <1>2
    <3> QED
      BY <3>2, <3>3
  <2> QED
    BY <2>1, <2>2, <2>3, <2>4, <2>5
<1>7. Entries(t) = Entries(s) \union {x}
  <2>1. \A i \in 1 .. Len(s) + 1 : t[i] \in Entries(s) \union {x}
    BY <1>1, <1>2 DEF Entries
  <2>2. \A i \in 1 .. Len(s) : \E j \in 1 .. Len(s) + 1 : t[j] = s[i]
    <3> SUFFICES ASSUME NEW i \in 1 .. Len(s) PROVE \E j \in 1 .. Len(s) + 1 : t[j] = s[i]
      OBVIOUS
    <3>1. CASE i < k
      BY <3>1, <1>1, <1>2
    <3>2. CASE i >= k
      <4>1. i + 1 \in 1 .. Len(s) + 1 /\ t[i + 1] = s[i]
        BY <3>2, <1>1, <1>2
      <4> QED BY <4>1
    <3> QED BY <3>1, <3>2, <1>1
  <2>3. t[k] = x
    BY <1>2
  <2> QED
    BY <2>1, <2>2, <2>3, <1>4 DEF Entries
<1> QED
  BY <1>4, <1>6, <1>7 DEF t

(* Inserting x where the walk stops: the list stays ascending.             *)
LEMMA InsertionFacts ==
  ASSUME NEW h, h.free \in Seq(Nat), Ascending(h.free), NEW x \in Nat, x \notin OnList(h)
  PROVE  /\ Inserted(h.free, InsertAt(h, x), x) \in Seq(Nat)
         /\ Ascending(Inserted(h.free, InsertAt(h, x), x))
         /\ Entries(Inserted(h.free, InsertAt(h, x), x)) = OnList(h) \union {x}
<1> DEFINE k == InsertAt(h, x)
           s == h.free
<1>1. /\ k \in 1 .. Len(s) + 1
      /\ \A i \in 1 .. k - 1 : s[i] < x
      /\ k <= Len(s) => s[k] >= x
  BY InsertPosition
<1>2. Entries(s) = OnList(h)
  BY DEF OnList, Entries
<1>3. s \in Seq(Nat) /\ Ascending(s) /\ x \notin Entries(s)
  BY <1>2
<1> HIDE DEF k, s
<1>4. /\ Inserted(s, k, x) \in Seq(Nat)
      /\ Ascending(Inserted(s, k, x))
      /\ Entries(Inserted(s, k, x)) = Entries(s) \union {x}
  BY <1>1, <1>3, InsertedList
<1> QED
  BY <1>2, <1>4 DEF k, s

LEMMA DroppedList ==
  ASSUME NEW s \in Seq(Nat), Ascending(s), NEW k \in 1 .. Len(s)
  PROVE  /\ Dropped(s, k) \in Seq(Nat)
         /\ Len(Dropped(s, k)) = Len(s) - 1
         /\ Ascending(Dropped(s, k))
         /\ Entries(Dropped(s, k)) = Entries(s) \ {s[k]}
<1> DEFINE t == Dropped(s, k)
<1>1. Len(s) \in Nat \ {0} /\ \A i \in 1 .. Len(s) : s[i] \in Nat
  OBVIOUS
<1>2. t = [i \in 1 .. Len(s) - 1 |-> IF i < k THEN s[i] ELSE s[i + 1]]
  BY DEF Dropped
<1>3. \A i \in 1 .. Len(s) - 1 : t[i] \in Nat
  BY <1>1, <1>2
<1>4. t \in Seq(Nat) /\ Len(t) = Len(s) - 1
  BY <1>1, <1>2, <1>3
<1> HIDE DEF t
<1>6. Ascending(t)
  <2> SUFFICES ASSUME NEW i \in 1 .. Len(s) - 1, NEW j \in 1 .. Len(s) - 1, i < j
               PROVE  t[i] < t[j]
    BY <1>4 DEF Ascending
  <2>0. i \in Nat /\ j \in Nat /\ k \in Nat /\ i \in 1 .. Len(s) /\ j \in 1 .. Len(s)
    BY <1>1
  <2>1. CASE j < k
    <3>1. t[i] = s[i] /\ t[j] = s[j]
      BY <2>0, <2>1, <1>2
    <3>2. s[i] < s[j]
      BY <2>0 DEF Ascending
    <3> QED
      BY <3>1, <3>2
  <2>2. CASE j >= k /\ i < k
    <3>1. t[i] = s[i] /\ t[j] = s[j + 1]
      BY <2>0, <2>2, <1>2
    <3>2. j + 1 \in 1 .. Len(s) /\ i < j + 1
      BY <2>0, <1>1
    <3>3. s[i] < s[j + 1]
      BY <2>0, <3>2 DEF Ascending
    <3> QED
      BY <3>1, <3>3
  <2>3. CASE j >= k /\ i >= k
    <3>1. t[i] = s[i + 1] /\ t[j] = s[j + 1]
      BY <2>0, <2>3, <1>2
    <3>2. i + 1 \in 1 .. Len(s) /\ j + 1 \in 1 .. Len(s) /\ i + 1 < j + 1
      BY <2>0, <1>1
    <3>3. s[i + 1] < s[j + 1]
      BY <3>2 DEF Ascending
    <3> QED
      BY <3>1, <3>3
  <2> QED
    BY <2>0, <2>1, <2>2, <2>3
<1>7. Entries(t) = Entries(s) \ {s[k]}
  <2>1. \A i \in 1 .. Len(s) - 1 : t[i] \in Entries(s) /\ t[i] # s[k]
    <3> SUFFICES ASSUME NEW i \in 1 .. Len(s) - 1 PROVE t[i] \in Entries(s) /\ t[i] # s[k]
      OBVIOUS
    <3>1. CASE i < k
      BY <3>1, <1>1, <1>2 DEF Entries, Ascending
    <3>2. CASE i >= k
      <4>1. i + 1 \in 1 .. Len(s) /\ t[i] = s[i + 1] /\ k < i + 1
        BY <3>2, <1>1, <1>2
      <4> QED BY <4>1, <1>1 DEF Entries, Ascending
    <3> QED BY <3>1, <3>2, <1>1
  <2>2. \A i \in 1 .. Len(s) : i # k => \E j \in 1 .. Len(s) - 1 : t[j] = s[i]
    <3> SUFFICES ASSUME NEW i \in 1 .. Len(s), i # k
                 PROVE  \E j \in 1 .. Len(s) - 1 : t[j] = s[i]
      OBVIOUS
    <3>1. CASE i < k
      BY <3>1, <1>1, <1>2
    <3>2. CASE i > k
      <4>1. i - 1 \in 1 .. Len(s) - 1 /\ t[i - 1] = s[i]
        BY <3>2, <1>1, <1>2
      <4> QED BY <4>1
    <3> QED BY <3>1, <3>2, <1>1
  <2>3. Entries(t) \subseteq Entries(s) \ {s[k]}
    BY <2>1, <1>4 DEF Entries
  <2>4. ASSUME NEW y \in Entries(s) \ {s[k]} PROVE y \in Entries(t)
    <3>1. PICK i \in 1 .. Len(s) : y = s[i]
      BY DEF Entries
    <3> QED
      BY <3>1, <2>2, <2>4, <1>4 DEF Entries
  <2> QED
    BY <2>3, <2>4
<1> QED
  BY <1>4, <1>6, <1>7 DEF t

(* Putting r in the place of the i-th entry, between its neighbours.       *)
LEMMA ReplacedList ==
  ASSUME NEW s \in Seq(Nat), Ascending(s), NEW i \in 1 .. Len(s), NEW r \in Nat,
         s[i] < r, \A j \in 1 .. Len(s) : i < j => r < s[j]
  PROVE  /\ [s EXCEPT ![i] = r] \in Seq(Nat)
         /\ Ascending([s EXCEPT ![i] = r])
         /\ Entries([s EXCEPT ![i] = r]) = (Entries(s) \ {s[i]}) \union {r}
<1> DEFINE t == [s EXCEPT ![i] = r]
<1>1. /\ t \in Seq(Nat) /\ Len(t) = Len(s) /\ t[i] = r
      /\ \A j \in 1 .. Len(s) : j # i => t[j] = s[j]
  OBVIOUS
<1>2. \A j \in 1 .. Len(s) : s[j] \in Nat
  OBVIOUS
<1>3. Len(s) \in Nat /\ i \in Nat
  OBVIOUS
<1> HIDE DEF t
<1>4. ASSUME NEW j \in 1 .. Len(s), NEW k \in 1 .. Len(s), j < k
      PROVE  t[j] < t[k]
  <2>1. s[j] < s[k] /\ s[j] \in Nat /\ s[k] \in Nat
    BY <1>2, <1>4 DEF Ascending
  <2>2. CASE j = i
    BY <1>1, <1>4, <2>1, <2>2
  <2>3. CASE k = i
    BY <1>1, <1>2, <1>4, <2>1, <2>3
  <2>4. CASE j # i /\ k # i
    BY <1>1, <2>1, <2>4
  <2> QED
    BY <2>2, <2>3, <2>4
<1>5. ASSUME NEW j \in 1 .. Len(s), j # i
      PROVE  s[j] # s[i]
  <2>1. j < i \/ i < j
    BY <1>3, <1>5
  <2> QED
    BY <2>1, <1>2 DEF Ascending
<1>6. Entries(t) \subseteq (Entries(s) \ {s[i]}) \union {r}
  BY <1>1, <1>5 DEF Entries
<1>7. (Entries(s) \ {s[i]}) \union {r} \subseteq Entries(t)
  <2>1. ASSUME NEW j \in 1 .. Len(s), s[j] # s[i] PROVE s[j] \in Entries(t)
    <3>1. j # i /\ t[j] = s[j]
      BY <1>1, <2>1
    <3> QED
      BY <1>1, <3>1 DEF Entries
  <2>2. r \in Entries(t)
    BY <1>1 DEF Entries
  <2> QED
    BY <2>1, <2>2 DEF Entries
<1>8. Ascending(t)
  BY <1>1, <1>4 DEF Ascending
<1> QED
  BY <1>1, <1>6, <1>7, <1>8 DEF t

-----------------------------------------------------------------------------
(* The invariant, as a statement about any heap h and set L of live chunks *)
(* (the actions go through intermediate heaps).                            *)

End(h, a) == a + Hdr + h.hdr[a].size

Typed(h, L) ==
  /\ h = [hdr |-> h.hdr, free |-> h.free, regions |-> h.regions]
  /\ h.hdr = [a \in DOMAIN h.hdr |-> h.hdr[a]]
  /\ DOMAIN h.hdr \subseteq Addr
  /\ \A a \in DOMAIN h.hdr : h.hdr[a] \in Chunk
  /\ h.free \in Seq(Nat)
  /\ h.regions \subseteq Region
  /\ \A r \in h.regions : r.base + r.len <= ArenaTop
  /\ Chunks(h, L) \subseteq DOMAIN h.hdr

Flagged(h, L) ==
  /\ \A a \in OnList(h) : h.hdr[a].state = 1
  /\ \A a \in L : h.hdr[a].state = 0 /\ h.hdr[a].size >= h.hdr[a].user_size

Tiled(h, L) ==
  /\ \A a \in Chunks(h, L) : End(h, a) <= ArenaTop
  /\ \A a, b \in Chunks(h, L) : a < b => End(h, a) <= b
  /\ \A x \in Nat : x \in Mapped(h) <=> \E a \in Chunks(h, L) : a <= x /\ x < End(h, a)

Good(h, L) ==
  /\ Typed(h, L)
  /\ Ascending(h.free)
  /\ Flagged(h, L)
  /\ Tiled(h, L)

(* What the other proofs read off a good heap.                             *)
LEMMA GoodFacts ==
  ASSUME NEW h, NEW L, Good(h, L)
  PROVE  /\ h.free \in Seq(Nat) /\ Len(h.free) \in Nat
         /\ \A i \in 1 .. Len(h.free) : h.free[i] \in Nat /\ h.free[i] \in OnList(h)
         /\ \A i, j \in 1 .. Len(h.free) : i < j => h.free[i] < h.free[j]
         /\ \A c \in OnList(h) : c \in Chunks(h, L)
         /\ \A c \in L : c \in Chunks(h, L) /\ c \notin OnList(h)
         /\ \A c \in Chunks(h, L) : c \in DOMAIN h.hdr
         /\ \A c \in DOMAIN h.hdr :
              /\ c \in Nat /\ c <= ArenaTop
              /\ h.hdr[c] \in Chunk
              /\ h.hdr[c].size \in Nat /\ h.hdr[c].user_size \in Nat
              /\ h.hdr[c].state \in {0, 1}
              /\ End(h, c) = c + Hdr + h.hdr[c].size
              /\ End(h, c) \in Nat /\ c + Hdr <= End(h, c)
         /\ Hdr \in Nat \ {0} /\ ArenaTop \in Nat
<1> USE SizesAssumption
<1>1. /\ h.free \in Seq(Nat) /\ Len(h.free) \in Nat
      /\ \A i \in 1 .. Len(h.free) : h.free[i] \in Nat
  BY DEF Good, Typed
<1>2. \A i \in 1 .. Len(h.free) : h.free[i] \in OnList(h)
  BY DEF OnList
<1>3. \A i, j \in 1 .. Len(h.free) : i < j => h.free[i] < h.free[j]
  BY DEF Good, Ascending
<1>4. /\ \A c \in OnList(h) : c \in Chunks(h, L)
      /\ \A c \in L : c \in Chunks(h, L)
      /\ \A c \in Chunks(h, L) : c \in DOMAIN h.hdr
  BY DEF Good, Typed, Chunks
<1>5. \A c \in L : c \notin OnList(h)
  BY DEF Good, Flagged
<1>6. \A c \in DOMAIN h.hdr : c \in Nat /\ c <= ArenaTop /\ h.hdr[c] \in Chunk
  BY DEF Good, Typed, Addr
<1>7. \A r \in Chunk : r.size \in Nat /\ r.user_size \in Nat /\ r.state \in {0, 1}
  BY DEF Chunk
<1>8. \A c \in DOMAIN h.hdr : /\ End(h, c) = c + Hdr + h.hdr[c].size
                              /\ End(h, c) \in Nat /\ c + Hdr <= End(h, c)
  BY <1>6, <1>7 DEF End
<1> QED
  BY <1>1, <1>2, <1>3, <1>4, <1>5, <1>6, <1>7, <1>8

(* Two chunks do not overlap, and all of them lie in the arena.            *)
LEMMA GoodApart ==
  ASSUME NEW h, NEW L, Good(h, L), NEW a \in Chunks(h, L)
  PROVE  /\ a \in DOMAIN h.hdr /\ a \in Nat /\ h.hdr[a].size \in Nat
         /\ End(h, a) \in Nat /\ a + Hdr <= End(h, a) /\ End(h, a) <= ArenaTop
         /\ End(h, a) = a + Hdr + h.hdr[a].size
         /\ \A b \in Chunks(h, L) : b # a => End(h, b) <= a \/ End(h, a) <= b
<1>1. /\ a \in DOMAIN h.hdr /\ a \in Nat /\ h.hdr[a].size \in Nat
      /\ End(h, a) \in Nat /\ a + Hdr <= End(h, a)
      /\ End(h, a) = a + Hdr + h.hdr[a].size
  BY GoodFacts
<1>2. End(h, a) <= ArenaTop
  BY DEF Good, Tiled
<1>3. ASSUME NEW b \in Chunks(h, L), b # a
      PROVE  End(h, b) <= a \/ End(h, a) <= b
  <2>1. b \in Nat
    BY GoodFacts
  <2>2. a < b \/ b < a
    BY <1>1, <1>3, <2>1
  <2> QED
    BY <2>2, <1>3 DEF Good, Tiled
<1> QED
  BY <1>1, <1>2, <1>3

(* Merging two touching chunks of the list keeps the heap good.            *)
LEMMA CoalescedGood ==
  ASSUME NEW h, NEW L, Good(h, L), NEW k \in Int
  PROVE  Good(Coalesced(h, k), L)
<1> USE SizesAssumption
<1>1. CASE ~ (k \in 1 .. Len(h.free) - 1 /\ chunks_adjacent(h, h.free[k], h.free[k + 1]))
  <2>1. Coalesced(h, k) = h
    BY <1>1 DEF Coalesced
  <2> QED
    BY <2>1
<1>2. CASE k \in 1 .. Len(h.free) - 1 /\ chunks_adjacent(h, h.free[k], h.free[k + 1])
  <2> DEFINE a == h.free[k]
             b == h.free[k + 1]
             g == Coalesced(h, k)
  <2>2. /\ g = [hdr |-> g.hdr, free |-> g.free, regions |-> g.regions]
        /\ g.hdr = [h.hdr EXCEPT ![a].size = @ + Hdr + h.hdr[b].size, ![b].state = 0]
        /\ g.free = Dropped(h.free, k + 1)
        /\ g.regions = h.regions
    BY <1>2 DEF Coalesced
  <2>3. /\ h.free \in Seq(Nat) /\ Len(h.free) \in Nat
        /\ k \in 1 .. Len(h.free) /\ k + 1 \in 1 .. Len(h.free)
    BY <1>2, GoodFacts
  <2>4. a \in OnList(h) /\ b \in OnList(h) /\ a < b
    BY <2>3, GoodFacts
  <2>5. /\ a \in DOMAIN h.hdr /\ b \in DOMAIN h.hdr
        /\ a \in Nat /\ b \in Nat /\ a # b
        /\ h.hdr[a] \in Chunk /\ h.hdr[b] \in Chunk
        /\ h.hdr[a].size \in Nat /\ h.hdr[b].size \in Nat
    <3>1. /\ a \in DOMAIN h.hdr /\ b \in DOMAIN h.hdr
      BY <2>4, GoodFacts
    <3> HIDE DEF a, b
    <3> QED
      BY <3>1, <2>4, GoodFacts
  <2>b. a + Hdr + h.hdr[a].size = b
    BY <1>2 DEF chunks_adjacent
  <2>a. b = h.free[k + 1]
    OBVIOUS
  <2> HIDE DEF g, a, b
  <2>6. /\ g.free \in Seq(Nat)
        /\ Ascending(g.free)
        /\ OnList(g) = OnList(h) \ {b}
    <3>1. Ascending(h.free)
      BY DEF Good
    <3>2. /\ g.free \in Seq(Nat) /\ Ascending(g.free)
          /\ Entries(g.free) = Entries(h.free) \ {b}
      <4> DEFINE m == k + 1
      <4>1. m \in 1 .. Len(h.free) /\ g.free = Dropped(h.free, m) /\ b = h.free[m]
        BY <2>2, <2>3, <2>a
      <4> HIDE DEF m
      <4> QED
        BY <3>1, <4>1, <2>3, DroppedList
    <3> QED
      BY <3>2 DEF OnList, Entries
  <2>7. /\ DOMAIN g.hdr = DOMAIN h.hdr
        /\ g.hdr = [c \in DOMAIN g.hdr |-> g.hdr[c]]
        /\ g.hdr[a] = [h.hdr[a] EXCEPT !.size = @ + Hdr + h.hdr[b].size]
        /\ g.hdr[b] = [h.hdr[b] EXCEPT !.state = 0]
        /\ \A c \in DOMAIN h.hdr : c # a /\ c # b => g.hdr[c] = h.hdr[c]
    BY <2>2, <2>5 DEF Good, Typed
  <2>c. /\ g.hdr[a] \in Chunk /\ g.hdr[a].size = h.hdr[a].size + Hdr + h.hdr[b].size
        /\ g.hdr[a].state = h.hdr[a].state
        /\ g.hdr[b] \in Chunk
    <3>1. h.hdr[a].size + Hdr + h.hdr[b].size \in Nat
      BY <2>5
    <3>2. /\ g.hdr[a] \in Chunk /\ g.hdr[a].size = h.hdr[a].size + Hdr + h.hdr[b].size
          /\ g.hdr[a].state = h.hdr[a].state
      BY <3>1, <2>5, <2>7 DEF Chunk
    <3>3. g.hdr[b] \in Chunk
      BY <2>5, <2>7 DEF Chunk
    <3> QED
      BY <3>2, <3>3
  <2>8. \A c \in DOMAIN g.hdr : g.hdr[c] \in Chunk
    BY <2>c, <2>7, GoodFacts
  <2>9. b \notin L /\ a \notin L
    BY <2>4, GoodFacts
  <2>10. Chunks(g, L) = Chunks(h, L) \ {b}
    BY <2>6, <2>9 DEF Chunks
  <2>11. Typed(g, L)
    BY <2>2, <2>6, <2>7, <2>8, <2>10 DEF Good, Typed
  <2>12. Flagged(g, L)
    <3>0. /\ \A c \in OnList(h) : c \in DOMAIN h.hdr /\ h.hdr[c].state = 1
          /\ \A c \in L : c \in DOMAIN h.hdr
      BY GoodFacts DEF Good, Flagged
    <3>1. \A c \in OnList(g) : g.hdr[c].state = 1
      <4> TAKE c \in OnList(g)
      <4>1. CASE c = a
        BY <2>c, <2>4, <3>0, <4>1
      <4>2. CASE c # a
        <5>1. c \in OnList(h) /\ c # b
          BY <2>6
        <5> QED
          BY <2>7, <3>0, <4>2, <5>1
      <4> QED
        BY <4>1, <4>2
    <3>2. \A c \in L : g.hdr[c] = h.hdr[c]
      BY <2>7, <2>9, <3>0
    <3> QED
      BY <3>1, <3>2 DEF Good, Flagged
  <2>13. /\ End(g, a) = End(h, b) /\ End(h, a) = b
         /\ \A c \in Chunks(g, L) : c # a => End(g, c) = End(h, c)
    <3>1. End(g, a) = End(h, b) /\ End(h, a) = b
      BY <2>b, <2>5, <2>c, GoodFacts DEF End
    <3>2. \A c \in Chunks(g, L) : c # a => End(g, c) = End(h, c)
      BY <2>7, <2>10, GoodFacts DEF End
    <3> QED
      BY <3>1, <3>2
  <2>14. Tiled(g, L)
    <3>1. \A c \in Chunks(g, L) : End(g, c) <= ArenaTop
      BY <2>4, <2>10, <2>13 DEF Good, Tiled, Chunks
    <3>2. ASSUME NEW c \in Chunks(g, L), NEW d \in Chunks(g, L), c < d
          PROVE  End(g, c) <= d
      <4>1. c \in Chunks(h, L) /\ d \in Chunks(h, L) /\ d # b /\ b \in Chunks(h, L)
        BY <2>4, <2>10 DEF Chunks
      <4>2. CASE c # a
        BY <3>2, <4>1, <4>2, <2>13 DEF Good, Tiled
      <4>3. CASE c = a
        <5>1. b <= d
          BY <3>2, <4>1, <4>3, <2>13 DEF Good, Tiled
        <5>2. b < d
          BY <5>1, <4>1, <2>5 DEF Good, Typed, Addr
        <5> QED
          BY <5>2, <4>1, <4>3, <2>13 DEF Good, Tiled
      <4> QED
        BY <4>2, <4>3
    <3>3. Mapped(g) = Mapped(h)
      BY <2>2 DEF Mapped
    <3>4. ASSUME NEW x \in Nat
          PROVE  (\E c \in Chunks(h, L) : c <= x /\ x < End(h, c))
                   <=> (\E c \in Chunks(g, L) : c <= x /\ x < End(g, c))
      <4>1. a \in Chunks(g, L) /\ a \in Chunks(h, L) /\ b \in Chunks(h, L)
        BY <2>4, <2>5, <2>10 DEF Chunks
      <4>2. End(h, b) \in Nat /\ b <= End(h, b)
        BY <2>5 DEF End, Chunk
      <4>3. ASSUME NEW c \in Chunks(h, L), c <= x, x < End(h, c)
            PROVE  \E d \in Chunks(g, L) : d <= x /\ x < End(g, d)
        <5>1. CASE c = a \/ c = b
          BY <5>1, <4>1, <4>2, <4>3, <2>4, <2>5, <2>13
        <5>2. CASE c # a /\ c # b
          BY <5>2, <4>3, <2>10, <2>13
        <5> QED
          BY <5>1, <5>2
      <4>4. ASSUME NEW c \in Chunks(g, L), c <= x, x < End(g, c)
            PROVE  \E d \in Chunks(h, L) : d <= x /\ x < End(h, d)
        <5>1. CASE c = a
          BY <5>1, <4>1, <4>4, <2>5, <2>13
        <5>2. CASE c # a
          BY <5>2, <4>4, <2>10, <2>13
        <5> QED
          BY <5>1, <5>2
      <4> QED
        BY <4>3, <4>4
    <3> QED
      BY <3>1, <3>2, <3>3, <3>4 DEF Good, Tiled
  <2> QED
    BY <2>6, <2>11, <2>12, <2>14 DEF Good, g
<1> QED
  BY <1>1, <1>2

(* Putting a live chunk on the list, as free does before it merges.        *)
LEMMA ListedGood ==
  ASSUME NEW h, NEW L, Good(h, L), NEW c \in L
  PROVE  Good([hdr     |-> [h.hdr EXCEPT ![c].state = 1],
               free    |-> Inserted(h.free, InsertAt(h, c), c),
               regions |-> h.regions], L \ {c})
<1> DEFINE k == InsertAt(h, c)
           g == [hdr     |-> [h.hdr EXCEPT ![c].state = 1],
                 free    |-> Inserted(h.free, k, c),
                 regions |-> h.regions]
<1>1. /\ c \in DOMAIN h.hdr /\ c \in Nat /\ h.hdr[c] \in Chunk
      /\ c \notin OnList(h) /\ h.free \in Seq(Nat) /\ Ascending(h.free)
  BY GoodFacts DEF Good
<1>4. /\ g.hdr = [h.hdr EXCEPT ![c].state = 1] /\ g.free = Inserted(h.free, k, c)
      /\ g.regions = h.regions
      /\ g = [hdr |-> g.hdr, free |-> g.free, regions |-> g.regions]
  OBVIOUS
<1> HIDE DEF g, k
<1>5. /\ g.free \in Seq(Nat) /\ Ascending(g.free)
      /\ Entries(g.free) = OnList(h) \union {c}
  BY <1>1, <1>4, InsertionFacts DEF k
<1>6. OnList(g) = OnList(h) \union {c}
  BY <1>5 DEF OnList, Entries
<1>7. Chunks(g, L \ {c}) = Chunks(h, L)
  BY <1>6 DEF Chunks
<1>8. /\ DOMAIN g.hdr = DOMAIN h.hdr
      /\ g.hdr = [a \in DOMAIN g.hdr |-> g.hdr[a]]
      /\ \A a \in DOMAIN h.hdr : a # c => g.hdr[a] = h.hdr[a]
      /\ g.hdr[c] \in Chunk /\ g.hdr[c].state = 1 /\ g.hdr[c].size = h.hdr[c].size
  <2> DEFINE u == [h.hdr EXCEPT ![c].state = 1]
  <2>1. h.hdr = [a \in DOMAIN h.hdr |-> h.hdr[a]]
    BY DEF Good, Typed
  <2>2. /\ DOMAIN u = DOMAIN h.hdr
        /\ u = [a \in DOMAIN u |-> u[a]]
        /\ \A a \in DOMAIN h.hdr : a # c => u[a] = h.hdr[a]
    BY <2>1
  <2>3. u[c] = [h.hdr[c] EXCEPT !.state = 1]
    BY <1>1
  <2>4. u[c] \in Chunk /\ u[c].state = 1 /\ u[c].size = h.hdr[c].size
    BY <1>1, <2>3 DEF Chunk
  <2>5. g.hdr = u
    BY <1>4
  <2> HIDE DEF u
  <2> QED
    BY <2>2, <2>4, <2>5
<1>9. Typed(g, L \ {c})
  <2>1. \A a \in DOMAIN g.hdr : g.hdr[a] \in Chunk
    BY <1>8, GoodFacts
  <2> QED
    BY <2>1, <1>4, <1>5, <1>7, <1>8 DEF Good, Typed
<1>10. Flagged(g, L \ {c})
  <2>1. /\ \A a \in OnList(h) : a \in DOMAIN h.hdr /\ h.hdr[a].state = 1
        /\ \A a \in L : /\ a \in DOMAIN h.hdr
                        /\ h.hdr[a].state = 0 /\ h.hdr[a].size >= h.hdr[a].user_size
    BY GoodFacts DEF Good, Flagged
  <2>2. \A a \in OnList(g) : g.hdr[a].state = 1
    BY <1>6, <1>8, <2>1
  <2>3. \A a \in L \ {c} : g.hdr[a] = h.hdr[a]
    BY <1>8, <2>1
  <2> QED
    BY <2>1, <2>2, <2>3 DEF Flagged
<1>11. \A a \in Chunks(h, L) : End(g, a) = End(h, a)
  BY <1>8, GoodFacts DEF End
<1>12. Tiled(g, L \ {c})
  BY <1>4, <1>7, <1>11 DEF Good, Tiled, Mapped
<1> QED
  BY <1>5, <1>9, <1>10, <1>12 DEF Good, g, k

(* free of a live chunk.                                                   *)
LEMMA ReleasedGood ==
  ASSUME NEW h, NEW L, Good(h, L), NEW c \in L
  PROVE  Good(Released(h, c), L \ {c})
<1> DEFINE k == InsertAt(h, c)
           g == [hdr     |-> [h.hdr EXCEPT ![c].state = 1],
                 free    |-> Inserted(h.free, k, c),
                 regions |-> h.regions]
<1>1. Good(g, L \ {c})
  BY ListedGood
<1>2. k \in Int /\ k - 1 \in Int
  <2>1. h.free \in Seq(Nat) /\ Len(h.free) \in Nat /\ c \in Nat
    BY GoodFacts
  <2>2. k \in 1 .. Len(h.free) + 1
    BY <2>1, InsertPosition
  <2> QED
    BY <2>1, <2>2
<1>3. h.hdr[c].state # 1
  BY DEF Good, Flagged
<1>4. Released(h, c) = Coalesced(Coalesced(g, k), k - 1)
  BY <1>3 DEF Released
<1> HIDE DEF g, k
<1>5. Good(Coalesced(g, k), L \ {c})
  BY <1>1, <1>2, CoalescedGood
<1> QED
  BY <1>2, <1>4, <1>5, CoalescedGood

(* Storing a header, and overwriting a range, keep the headers elsewhere.  *)
LEMMA OverwriteFacts ==
  ASSUME NEW hdr, NEW lo, NEW hi, NEW w, w = Overwrite(hdr, lo, hi)
  PROVE  /\ DOMAIN w \subseteq DOMAIN hdr
         /\ w = [a \in DOMAIN w |-> w[a]]
         /\ \A a \in DOMAIN w : w[a] = hdr[a]
         /\ \A a \in DOMAIN hdr : a + Hdr <= lo \/ hi <= a => a \in DOMAIN w
BY DEF Overwrite

LEMMA StoreFacts ==
  ASSUME NEW hdr, DOMAIN hdr \subseteq Nat, NEW c \in Nat, NEW v, NEW w, w = Store(hdr, c, v)
  PROVE  /\ DOMAIN w \subseteq DOMAIN hdr \union {c}
         /\ w = [a \in DOMAIN w |-> w[a]]
         /\ c \in DOMAIN w /\ w[c] = v
         /\ \A a \in DOMAIN w : a # c => w[a] = hdr[a]
         /\ \A a \in DOMAIN hdr : a + Hdr <= c \/ c + Hdr <= a => a \in DOMAIN w
BY SizesAssumption DEF Store, Overwrite

(* The part of the assumptions that most steps need.                       *)
LEMMA Positive == Hdr \in Nat \ {0} /\ Align \in Nat \ {0} /\ ArenaTop \in Nat
BY SizesAssumption

-----------------------------------------------------------------------------
(* Sizes.                                                                  *)

LEMMA RegionSizeFacts ==
  ASSUME NEW need \in Nat
  PROVE  RegionSize(need) \in Nat /\ RegionSize(need) >= Hdr + Align
<1> DEFINE x == (need + Hdr + Slack + Page - 1) % Word
<1>1. x \in Nat
  BY SizesAssumption
<1>2. x % Page \in Nat /\ x % Page <= x
  <2> HIDE DEF x
  <2> QED BY <1>1, SizesAssumption
<1> HIDE DEF x
<1>3. x - (x % Page) \in Nat
  BY <1>1, <1>2
<1> QED
  BY <1>3, SizesAssumption DEF RegionSize, RoundDown, x

(* A chunk long enough for the rounded request is long enough for the      *)
(* request: when align16 saturates, no chunk is.                           *)
LEMMA WantedFacts ==
  ASSUME NEW n \in Nat
  PROVE  /\ Wanted(n) \in Nat
         /\ Wanted(n) <= ArenaTop => Wanted(n) >= n
<1> DEFINE m == IF n = 0 THEN 1 ELSE n
<1>1. m \in Nat /\ m >= n
  OBVIOUS
<1> HIDE DEF m
<1>2. (Align - (m % Align)) % Align \in Nat
  <2>1. m % Align \in Nat
    BY <1>1, SizesAssumption
  <2>2. Align - (m % Align) \in Int
    BY <2>1, SizesAssumption
  <2> QED
    BY <2>2, SizesAssumption
<1>3. Wanted(n) = align16(m)
  BY DEF Wanted, m
<1> QED
  BY <1>1, <1>2, <1>3, SizesAssumption DEF align16

-----------------------------------------------------------------------------
(* A region from the kernel.                                               *)

LEMMA RegionGood ==
  ASSUME NEW h, NEW L, Good(h, L),
         NEW len \in Nat, len >= Hdr + Align, NEW p \in MapAt(h, len)
  PROVE  Good([hdr     |-> Store(h.hdr, p, [size |-> len - Hdr, user_size |-> 0, state |-> 1]),
               free    |-> Inserted(h.free, InsertAt(h, p), p),
               regions |-> h.regions \union {[base |-> p, len |-> len]}], L)
<1> USE SizesAssumption
<1> DEFINE k == InsertAt(h, p)
           v == [size |-> len - Hdr, user_size |-> 0, state |-> 1]
           R == [base |-> p, len |-> len]
           g == [hdr     |-> Store(h.hdr, p, v),
                 free    |-> Inserted(h.free, k, p),
                 regions |-> h.regions \union {R}]
<1>1. /\ p \in Nat /\ p <= ArenaTop /\ p + len <= ArenaTop
      /\ (p .. (p + len - 1)) \intersect Mapped(h) = {}
  BY DEF MapAt, Addr
<1>2. ASSUME NEW a \in Chunks(h, L)
      PROVE  End(h, a) <= p \/ p + len <= a
  <2>1. a \in Nat /\ End(h, a) \in Nat /\ End(h, a) > a
    BY <1>2, GoodFacts
  <2>2. ASSUME NEW x \in Nat, a <= x, x < End(h, a)
        PROVE  ~ (p <= x /\ x < p + len)
    <3>1. x \in Mapped(h)
      BY <1>2, <2>2 DEF Good, Tiled
    <3> QED
      BY <3>1, <1>1
  <2>3. SUFFICES ASSUME End(h, a) > p, p + len > a PROVE FALSE
    BY <2>1, <1>1
  <2> QED
    BY <2>1, <2>2, <2>3, <1>1
<1>3. p \notin Chunks(h, L)
  BY <1>1, <1>2, GoodFacts
<1>4. /\ g.hdr = Store(h.hdr, p, v) /\ g.free = Inserted(h.free, k, p)
      /\ g.regions = h.regions \union {R}
      /\ g = [hdr |-> g.hdr, free |-> g.free, regions |-> g.regions]
  OBVIOUS
<1>5. v \in Chunk /\ v.state = 1 /\ v.size = len - Hdr
  BY DEF Chunk
<1>6. R \in Region /\ R.base = p /\ R.len = len
  BY <1>1 DEF Region, Addr
<1> HIDE DEF g, k, v, R
<1>7. /\ g.free \in Seq(Nat) /\ Ascending(g.free)
      /\ OnList(g) = OnList(h) \union {p}
  <2>1. h.free \in Seq(Nat) /\ Ascending(h.free)
    BY DEF Good, Typed
  <2>2. p \notin OnList(h)
    BY <1>3 DEF Chunks
  <2>3. p \in Nat /\ g.free = Inserted(h.free, InsertAt(h, p), p)
    BY <1>1, <1>4 DEF k
  <2>4. /\ g.free \in Seq(Nat) /\ Ascending(g.free)
        /\ Entries(g.free) = OnList(h) \union {p}
    BY <2>1, <2>2, <2>3, InsertionFacts
  <2> QED
    BY <2>4 DEF OnList, Entries
<1>8. Chunks(g, L) = Chunks(h, L) \union {p}
  BY <1>7 DEF Chunks
<1>9. DOMAIN h.hdr \subseteq Nat
  BY GoodFacts
<1>10. /\ DOMAIN g.hdr \subseteq DOMAIN h.hdr \union {p}
       /\ g.hdr = [a \in DOMAIN g.hdr |-> g.hdr[a]]
       /\ p \in DOMAIN g.hdr /\ g.hdr[p] = v
       /\ \A a \in DOMAIN g.hdr : a # p => g.hdr[a] = h.hdr[a]
       /\ \A a \in DOMAIN h.hdr : a + Hdr <= p \/ p + Hdr <= a => a \in DOMAIN g.hdr
  BY <1>1, <1>4, <1>9, StoreFacts
<1>11. ASSUME NEW a \in Chunks(h, L)
       PROVE  a \in DOMAIN g.hdr /\ a # p /\ g.hdr[a] = h.hdr[a] /\ End(g, a) = End(h, a)
  <2>1. a \in DOMAIN h.hdr /\ a \in Nat /\ a + Hdr <= End(h, a)
    BY <1>11, GoodFacts
  <2>2. a + Hdr <= p \/ p + Hdr <= a
    <3>1. End(h, a) \in Nat
      BY <1>11, GoodApart
    <3>2. Hdr \in Nat /\ Align \in Nat
      BY Positive
    <3> QED
      BY <2>1, <3>1, <3>2, <1>1, <1>2, <1>11
  <2>3. a # p
    BY <1>3
  <2> QED
    BY <2>1, <2>2, <2>3, <1>10 DEF End
<1>12. End(g, p) = p + len
  BY <1>1, <1>5, <1>10 DEF End
<1>13. Typed(g, L)
  <2>1. DOMAIN g.hdr \subseteq Addr
    BY <1>1, <1>10 DEF Good, Typed, Addr
  <2>2. \A a \in DOMAIN g.hdr : g.hdr[a] \in Chunk
    BY <1>5, <1>10, GoodFacts
  <2>3. /\ g.regions \subseteq Region
        /\ \A r \in g.regions : r.base + r.len <= ArenaTop
    BY <1>1, <1>4, <1>6 DEF Good, Typed
  <2>4. Chunks(g, L) \subseteq DOMAIN g.hdr
    BY <1>8, <1>10, <1>11
  <2> QED
    BY <2>1, <2>2, <2>3, <2>4, <1>4, <1>7, <1>10 DEF Typed
<1>14. Flagged(g, L)
  <2>1. \A a \in OnList(g) : g.hdr[a].state = 1
    BY <1>5, <1>7, <1>10, <1>11, GoodFacts DEF Good, Flagged
  <2>2. \A a \in L : g.hdr[a] = h.hdr[a]
    BY <1>11, GoodFacts
  <2> QED
    BY <2>1, <2>2 DEF Good, Flagged
<1>15. Tiled(g, L)
  <2>1. \A a \in Chunks(g, L) : End(g, a) <= ArenaTop
    BY <1>1, <1>8, <1>11, <1>12 DEF Good, Tiled
  <2>2. ASSUME NEW a \in Chunks(g, L), NEW b \in Chunks(g, L), a < b
        PROVE  End(g, a) <= b
    <3>0. \A d \in Chunks(h, L) : d \in Nat /\ d < End(h, d) /\ End(h, d) \in Nat
      <4>1. ASSUME NEW d \in Chunks(h, L) PROVE d \in Nat /\ d < End(h, d) /\ End(h, d) \in Nat
        BY Positive, GoodApart
      <4> QED
        BY <4>1
    <3>1. CASE a = p
      <4>1. b \in Chunks(h, L)
        <5>1. b # p
          BY <2>2, <3>1, <1>1
        <5> QED
          BY <5>1, <1>8
      <4>2. ~ (End(h, b) <= p)
        BY <4>1, <3>0, <2>2, <3>1, <1>1
      <4> QED
        BY <4>1, <4>2, <3>1, <1>2, <1>12
    <3>2. CASE b = p
      <4>1. a \in Chunks(h, L)
        <5>1. a # p
          BY <2>2, <3>2, <1>1
        <5> QED
          BY <5>1, <1>8
      <4>2. ~ (p + len <= a)
        BY <4>1, <3>0, <2>2, <3>2, <1>1
      <4> QED
        BY <4>1, <4>2, <3>2, <1>2, <1>11
    <3>3. CASE a # p /\ b # p
      BY <2>2, <3>3, <1>8, <1>11 DEF Good, Tiled
    <3> QED
      BY <3>1, <3>2, <3>3
  <2>3. \A x \in Nat : x \in Mapped(g) <=> x \in Mapped(h) \/ (p <= x /\ x < p + len)
    BY <1>1, <1>4, <1>6 DEF Mapped
  <2>4. ASSUME NEW x \in Nat
        PROVE  x \in Mapped(g) <=> \E a \in Chunks(g, L) : a <= x /\ x < End(g, a)
    <3>1. x \in Mapped(h) <=> \E a \in Chunks(h, L) : a <= x /\ x < End(h, a)
      BY DEF Good, Tiled
    <3>2. (\E a \in Chunks(g, L) : a <= x /\ x < End(g, a))
            <=> \/ \E a \in Chunks(h, L) : a <= x /\ x < End(h, a)
                \/ p <= x /\ x < p + len
      BY <1>8, <1>11, <1>12
    <3> QED
      BY <2>3, <3>1, <3>2
  <2> QED
    BY <2>1, <2>2, <2>4 DEF Tiled
<1> QED
  BY <1>7, <1>13, <1>14, <1>15 DEF Good, g, k, v, R

LEMMA GrownGood ==
  ASSUME NEW h, NEW L, Good(h, L), NEW need \in Nat, NEW g \in heap_grow(h, need)
  PROVE  Good(g, L)
<1>1. CASE g = h
  BY <1>1
<1>2. CASE g # h
  <2> DEFINE len == RegionSize(need)
  <2>1. PICK p \in MapAt(h, len) : g = WithRegion(h, p, len)
    BY <1>2 DEF heap_grow
  <2>2. len \in Nat /\ len >= Hdr + Align
    BY RegionSizeFacts
  <2> HIDE DEF len
  <2> DEFINE k == InsertAt(h, p)
             f == [hdr     |-> Store(h.hdr, p, [size |-> len - Hdr, user_size |-> 0, state |-> 1]),
                   free    |-> Inserted(h.free, k, p),
                   regions |-> h.regions \union {[base |-> p, len |-> len]}]
  <2>3. Good(f, L)
    BY <2>2, RegionGood
  <2>4. k \in Int
    <3>1. h.free \in Seq(Nat) /\ Len(h.free) \in Nat /\ p \in Nat
      BY GoodFacts DEF MapAt, Addr
    <3>2. k \in 1 .. Len(h.free) + 1
      BY <3>1, InsertPosition
    <3> QED
      BY <3>1, <3>2
  <2>5. g = Coalesced(f, k)
    BY <2>1 DEF WithRegion
  <2> HIDE DEF f, k
  <2> QED
    BY <2>3, <2>4, <2>5, CoalescedGood
<1> QED
  BY <1>1, <1>2

-----------------------------------------------------------------------------
(* malloc hands out a chunk of the list.                                   *)

HandedOut(h, c, n, o, F) ==
  [hdr     |-> Overwrite(Store(h.hdr, c, [size |-> h.hdr[c].size, user_size |-> o, state |-> 0]),
                         c + Hdr, c + Hdr + n),
   free    |-> F,
   regions |-> h.regions]

CutInTwo(h, c, r, n, o, F) ==
  LET rest == [size |-> h.hdr[c].size - n - Hdr, user_size |-> 0, state |-> 1]
      own  == [size |-> n, user_size |-> o, state |-> 0]
  IN [hdr     |-> Overwrite(Store(Store(h.hdr, r, rest), c, own), c + Hdr, r),
      free    |-> F,
      regions |-> h.regions]

(* The whole chunk is handed out: c leaves the list, F is what remains.     *)
LEMMA TakenWhole ==
  ASSUME NEW h, NEW L, Good(h, L), NEW c \in OnList(h),
         NEW n \in Nat, NEW o \in Nat, h.hdr[c].size >= n, n >= o,
         NEW F \in Seq(Nat), Ascending(F), Entries(F) = OnList(h) \ {c}
  PROVE  Good(HandedOut(h, c, n, o, F), L \union {c})
<1> DEFINE v  == [size |-> h.hdr[c].size, user_size |-> o, state |-> 0]
           w  == Store(h.hdr, c, v)
           g  == [hdr     |-> Overwrite(w, c + Hdr, c + Hdr + n),
                  free    |-> F,
                  regions |-> h.regions]
           M  == L \union {c}
<1>1. /\ c \in Chunks(h, L) /\ c \in DOMAIN h.hdr /\ c \in Nat
      /\ DOMAIN h.hdr \subseteq Nat
      /\ h.hdr[c].size \in Nat /\ Hdr \in Nat \ {0}
  BY GoodFacts
<1>a. DOMAIN h.hdr \subseteq Nat /\ c \in Nat
  BY <1>1
<1>2. /\ g.hdr = Overwrite(w, c + Hdr, c + Hdr + n)
      /\ g.free = F
      /\ g.regions = h.regions
      /\ g = [hdr |-> g.hdr, free |-> g.free, regions |-> g.regions]
  OBVIOUS
<1>3. v \in Chunk /\ v.size = h.hdr[c].size /\ v.state = 0 /\ v.user_size = o
  BY <1>1 DEF Chunk
<1>b. w = Store(h.hdr, c, v)
  OBVIOUS
<1> HIDE DEF g, w, v
<1>5. /\ g.free \in Seq(Nat) /\ Ascending(g.free) /\ OnList(g) = OnList(h) \ {c}
  BY <1>2 DEF OnList, Entries
<1>6. Chunks(g, M) = Chunks(h, L)
  BY <1>1, <1>5 DEF Chunks
<1>7. /\ DOMAIN w \subseteq DOMAIN h.hdr
      /\ c \in DOMAIN w /\ w[c] = v
      /\ \A a \in DOMAIN w : a # c => w[a] = h.hdr[a]
      /\ \A a \in DOMAIN h.hdr : a + Hdr <= c \/ c + Hdr <= a => a \in DOMAIN w
  <2>1. /\ DOMAIN w \subseteq DOMAIN h.hdr \union {c}
        /\ c \in DOMAIN w /\ w[c] = v
        /\ \A a \in DOMAIN w : a # c => w[a] = h.hdr[a]
        /\ \A a \in DOMAIN h.hdr : a + Hdr <= c \/ c + Hdr <= a => a \in DOMAIN w
    BY <1>a, <1>b, StoreFacts
  <2> QED
    BY <2>1, <1>1
<1>8. /\ DOMAIN g.hdr \subseteq DOMAIN w
      /\ g.hdr = [a \in DOMAIN g.hdr |-> g.hdr[a]]
      /\ \A a \in DOMAIN g.hdr : g.hdr[a] = w[a]
      /\ \A a \in DOMAIN w : a + Hdr <= c + Hdr \/ c + Hdr + n <= a => a \in DOMAIN g.hdr
  BY <1>2, OverwriteFacts
<1>9. c \in DOMAIN g.hdr /\ g.hdr[c] = v /\ End(g, c) = End(h, c)
  <2>1. c \in DOMAIN g.hdr
    BY <1>1, <1>7, <1>8
  <2> QED
    BY <2>1, <1>3, <1>7, <1>8 DEF End
<1>10. ASSUME NEW a \in Chunks(h, L), a # c
       PROVE  a \in DOMAIN g.hdr /\ g.hdr[a] = h.hdr[a] /\ End(g, a) = End(h, a)
  <2>1. a \in DOMAIN h.hdr /\ a \in Nat /\ a + Hdr <= End(h, a) /\ End(h, a) \in Nat
    BY <1>10, GoodApart
  <2>2. End(h, a) <= c \/ End(h, c) <= a
    BY <1>1, <1>10, GoodApart
  <2>3. c + Hdr + n <= End(h, c)
    BY <1>1, GoodApart
  <2>4. End(h, c) \in Nat
    BY <1>1, GoodApart
  <2>5. a \in DOMAIN w
    BY <1>1, <1>7, <2>1, <2>2, <2>3, <2>4
  <2>6. a \in DOMAIN g.hdr
    BY <1>1, <1>8, <2>1, <2>2, <2>3, <2>4, <2>5
  <2> QED
    BY <2>5, <2>6, <1>7, <1>8, <1>10 DEF End
<1>11. Typed(g, M)
  <2>1. DOMAIN g.hdr \subseteq Addr
    BY <1>7, <1>8 DEF Good, Typed
  <2>2. \A a \in DOMAIN g.hdr : g.hdr[a] \in Chunk
    <3>1. \A a \in DOMAIN h.hdr : h.hdr[a] \in Chunk
      BY GoodFacts
    <3> QED
      BY <3>1, <1>3, <1>7, <1>8
  <2>3. Chunks(g, M) \subseteq DOMAIN g.hdr
    BY <1>6, <1>9, <1>10
  <2> QED
    BY <2>1, <2>2, <2>3, <1>2, <1>5, <1>8 DEF Good, Typed
<1>12. Flagged(g, M)
  <2>1. \A a \in OnList(g) : g.hdr[a].state = 1
    BY <1>5, <1>10, GoodFacts DEF Good, Flagged
  <2>2. g.hdr[c].state = 0 /\ g.hdr[c].size >= g.hdr[c].user_size
    BY <1>1, <1>3, <1>9
  <2>3. \A a \in L : g.hdr[a] = h.hdr[a]
    BY <1>1, <1>10, GoodFacts
  <2> QED
    BY <2>1, <2>2, <2>3 DEF Good, Flagged
<1>13. \A a \in Chunks(h, L) : End(g, a) = End(h, a)
  BY <1>9, <1>10
<1>14. Tiled(g, M)
  BY <1>2, <1>6, <1>13 DEF Good, Tiled, Mapped
<1> QED
  BY <1>5, <1>11, <1>12, <1>14 DEF Good, HandedOut, g, w, v

(* The chunk is split: r, the rest, takes the place of c in the list.       *)
LEMMA TakenSplit ==
  ASSUME NEW h, NEW L, Good(h, L), NEW c \in OnList(h),
         NEW n \in Nat, NEW o \in Nat, h.hdr[c].size >= n + Hdr + Align, n >= o,
         NEW r, r = c + Hdr + n,
         NEW F \in Seq(Nat), Ascending(F), Entries(F) = (OnList(h) \ {c}) \union {r}
  PROVE  Good(CutInTwo(h, c, r, n, o, F), L \union {c})
<1> DEFINE u  == [size |-> h.hdr[c].size - n - Hdr, user_size |-> 0, state |-> 1]
           v  == [size |-> n, user_size |-> o, state |-> 0]
           x  == Store(h.hdr, r, u)
           w  == Store(x, c, v)
           g  == [hdr     |-> Overwrite(w, c + Hdr, r),
                  free    |-> F,
                  regions |-> h.regions]
           M  == L \union {c}
<1>1. /\ c \in Chunks(h, L) /\ c \in DOMAIN h.hdr /\ c \in Nat
      /\ DOMAIN h.hdr \subseteq Nat
      /\ h.hdr[c].size \in Nat /\ Hdr \in Nat \ {0}
      /\ End(h, c) = c + Hdr + h.hdr[c].size
  BY GoodFacts
<1>b. h.hdr[c].size - n - Hdr \in Nat /\ h.hdr[c].size - n - Hdr >= Align /\ Align \in Nat \ {0}
  <2> DEFINE sz == h.hdr[c].size
  <2>1. sz \in Nat /\ sz >= n + Hdr + Align
    BY <1>1
  <2> HIDE DEF sz
  <2>2. sz - n - Hdr \in Nat /\ sz - n - Hdr >= Align /\ Align \in Nat \ {0}
    BY <2>1, Positive
  <2> QED
    BY <2>2 DEF sz
<1>3. /\ g.hdr = Overwrite(w, c + Hdr, r)
      /\ g.free = F
      /\ g.regions = h.regions
      /\ g = [hdr |-> g.hdr, free |-> g.free, regions |-> g.regions]
  OBVIOUS
<1>4. /\ u \in Chunk /\ u.state = 1 /\ u.size = h.hdr[c].size - n - Hdr
      /\ v \in Chunk /\ v.state = 0 /\ v.size = n /\ v.user_size = o
  BY <1>b DEF Chunk
<1>5. /\ r \in Nat /\ r = c + Hdr + n /\ c < r /\ r + Hdr <= End(h, c)
      /\ r + Hdr + u.size = End(h, c) /\ r < End(h, c) /\ End(h, c) \in Nat
  <2>1. r = c + Hdr + n
    OBVIOUS
  <2>2. End(h, c) = c + Hdr + h.hdr[c].size
    BY <1>1
  <2>3. h.hdr[c].size \in Nat /\ c \in Nat /\ Hdr \in Nat \ {0}
    BY <1>1
  <2>4. u.size = h.hdr[c].size - n - Hdr
    OBVIOUS
  <2> HIDE DEF u
  <2> DEFINE sz == h.hdr[c].size
  <2>5. /\ sz \in Nat /\ sz - n - Hdr \in Nat /\ sz - n - Hdr > 0
        /\ End(h, c) = c + Hdr + sz /\ u.size = sz - n - Hdr
    BY <2>2, <2>3, <2>4, <1>b
  <2> HIDE DEF sz
  <2> QED
    BY <2>1, <2>3, <2>5
<1>c. x = Store(h.hdr, r, u) /\ w = Store(x, c, v)
  OBVIOUS
<1>d. DOMAIN h.hdr \subseteq Nat /\ c \in Nat
  BY <1>1
<1> HIDE DEF g, w, x, u, v
<1>6. ASSUME NEW a \in Chunks(h, L), a # c
      PROVE  /\ a \in DOMAIN h.hdr /\ a \in Nat /\ a + Hdr <= End(h, a) /\ End(h, a) \in Nat
             /\ End(h, a) <= c \/ End(h, c) <= a
             /\ a # r
  <2>1. a \in DOMAIN h.hdr /\ a \in Nat /\ a + Hdr <= End(h, a) /\ End(h, a) \in Nat
    BY <1>6, GoodApart
  <2>2. End(h, a) <= c \/ End(h, c) <= a
    BY <1>1, <1>6, GoodApart
  <2>3. a # r
    BY <1>1, <1>5, <2>1, <2>2
  <2> QED
    BY <2>1, <2>2, <2>3
<1>7. /\ g.free \in Seq(Nat) /\ Ascending(g.free)
      /\ OnList(g) = (OnList(h) \ {c}) \union {r}
  BY <1>3 DEF OnList, Entries
<1>8. Chunks(g, M) = Chunks(h, L) \union {r}
  BY <1>1, <1>7 DEF Chunks
<1>9. /\ DOMAIN x \subseteq DOMAIN h.hdr \union {r}
      /\ r \in DOMAIN x /\ x[r] = u
      /\ \A a \in DOMAIN x : a # r => x[a] = h.hdr[a]
      /\ \A a \in DOMAIN h.hdr : a + Hdr <= r \/ r + Hdr <= a => a \in DOMAIN x
  <2>1. r \in Nat
    BY <1>5
  <2> QED
    BY <2>1, <1>c, <1>d, StoreFacts, SMTT(30)
<1>10. /\ DOMAIN w \subseteq DOMAIN x \union {c}
       /\ c \in DOMAIN w /\ w[c] = v
       /\ \A a \in DOMAIN w : a # c => w[a] = x[a]
       /\ \A a \in DOMAIN x : a + Hdr <= c \/ c + Hdr <= a => a \in DOMAIN w
  <2>1. DOMAIN x \subseteq Nat
    BY <1>1, <1>5, <1>9
  <2> QED
    BY <2>1, <1>c, <1>d, StoreFacts
<1>11. /\ DOMAIN g.hdr \subseteq DOMAIN w
       /\ g.hdr = [a \in DOMAIN g.hdr |-> g.hdr[a]]
       /\ \A a \in DOMAIN g.hdr : g.hdr[a] = w[a]
       /\ \A a \in DOMAIN w : a + Hdr <= c + Hdr \/ r <= a => a \in DOMAIN g.hdr
  BY <1>3, OverwriteFacts
<1>12. c \in DOMAIN g.hdr /\ g.hdr[c] = v /\ End(g, c) = r
  <2>1. c \in DOMAIN g.hdr
    BY <1>1, <1>10, <1>11
  <2> QED
    BY <2>1, <1>4, <1>5, <1>10, <1>11 DEF End
<1>13. r \in DOMAIN g.hdr /\ g.hdr[r] = u /\ End(g, r) = End(h, c)
  <2>1. r \in DOMAIN w
    BY <1>1, <1>5, <1>9, <1>10
  <2>2. r \in DOMAIN g.hdr
    BY <2>1, <1>5, <1>11
  <2>3. g.hdr[r] = u
    BY <2>1, <2>2, <1>1, <1>5, <1>9, <1>10, <1>11
  <2> QED
    BY <2>2, <2>3, <1>5 DEF End
<1>14. ASSUME NEW a \in Chunks(h, L), a # c
       PROVE  a \in DOMAIN g.hdr /\ g.hdr[a] = h.hdr[a] /\ End(g, a) = End(h, a)
  <2>1. a + Hdr <= c \/ End(h, c) <= a
    BY <1>1, <1>6, <1>14
  <2>2. a \in DOMAIN x /\ x[a] = h.hdr[a]
    <3>1. a + Hdr <= r \/ r + Hdr <= a
      BY <2>1, <1>1, <1>5, <1>6, <1>14
    <3> QED
      BY <3>1, <1>6, <1>9, <1>14
  <2>3. a \in DOMAIN w /\ w[a] = x[a]
    BY <2>1, <2>2, <1>1, <1>5, <1>6, <1>10, <1>14
  <2>4. a \in DOMAIN g.hdr
    BY <2>1, <2>3, <1>1, <1>5, <1>6, <1>11, <1>14
  <2> QED
    BY <2>2, <2>3, <2>4, <1>11 DEF End
<1>15. Typed(g, M)
  <2>1. DOMAIN g.hdr \subseteq Addr
    <3>1. r \in Addr
      <4>1. End(h, c) <= ArenaTop /\ End(h, c) \in Nat /\ ArenaTop \in Nat
        BY <1>1, GoodApart, Positive
      <4> QED
        BY <4>1, <1>5 DEF Addr
    <3> QED
      BY <3>1, <1>1, <1>9, <1>10, <1>11 DEF Good, Typed
  <2>2. \A a \in DOMAIN g.hdr : g.hdr[a] \in Chunk
    <3>1. \A a \in DOMAIN h.hdr : h.hdr[a] \in Chunk
      BY GoodFacts
    <3> QED
      BY <3>1, <1>4, <1>9, <1>10, <1>11
  <2>3. Chunks(g, M) \subseteq DOMAIN g.hdr
    BY <1>8, <1>12, <1>13, <1>14
  <2> QED
    BY <2>1, <2>2, <2>3, <1>3, <1>7, <1>11 DEF Good, Typed
<1>16. Flagged(g, M)
  <2>1. \A a \in OnList(g) : g.hdr[a].state = 1
    BY <1>4, <1>7, <1>13, <1>14, GoodFacts DEF Good, Flagged
  <2>2. g.hdr[c].state = 0 /\ g.hdr[c].size >= g.hdr[c].user_size
    BY <1>4, <1>12
  <2>3. \A a \in L : g.hdr[a] = h.hdr[a]
    BY <1>1, <1>14, GoodFacts
  <2> QED
    BY <2>1, <2>2, <2>3 DEF Good, Flagged
<1>17. Tiled(g, M)
  <2>1. \A a \in Chunks(g, M) : End(g, a) <= ArenaTop
    <3>1. \A a \in Chunks(h, L) : End(h, a) \in Nat /\ End(h, a) <= ArenaTop
      BY GoodApart
    <3>2. ArenaTop \in Nat
      BY Positive
    <3>3. End(g, c) <= ArenaTop /\ End(g, r) <= ArenaTop
      BY <3>1, <3>2, <1>1, <1>5, <1>12, <1>13
    <3> QED
      BY <3>1, <3>3, <1>8, <1>14
  <2>2. ASSUME NEW a \in Chunks(g, M), NEW b \in Chunks(g, M), a < b
        PROVE  End(g, a) <= b
    <3>0. \A d \in Chunks(h, L) \ {c} : /\ d \in Nat /\ d < End(h, d) /\ End(h, d) \in Nat
                                        /\ End(h, d) <= c \/ End(h, c) <= d
      BY <1>1, <1>6
    <3>c. /\ c \in Nat /\ r \in Nat /\ End(h, c) \in Nat /\ c < r /\ r < End(h, c)
          /\ End(g, c) = r /\ End(g, r) = End(h, c)
      BY <1>1, <1>5, <1>12, <1>13
    <3>1. CASE a = c
      <4>1. CASE b = r
        BY <3>1, <4>1, <3>c
      <4>2. CASE b # r
        <5>1. b # c
          BY <2>2, <3>1, <3>c
        <5>2. b \in Chunks(h, L) \ {c}
          BY <4>2, <5>1, <1>8
        <5>3. /\ b \in Nat /\ b < End(h, b) /\ End(h, b) \in Nat
              /\ End(h, b) <= c \/ End(h, c) <= b
          BY <5>2, <3>0
        <5>4. c < b
          BY <2>2, <3>1
        <5>5. r <= b
          BY <5>3, <5>4, <3>c
        <5> QED
          BY <5>5, <3>1, <3>c
      <4> QED
        BY <4>1, <4>2
    <3>2. CASE a = r
      <4>1. b # c /\ b # r
        BY <2>2, <3>2, <3>c
      <4>2. b \in Chunks(h, L) \ {c}
        BY <4>1, <1>8
      <4> QED
        BY <4>2, <3>0, <3>2, <2>2, <3>c
    <3>3. CASE a # c /\ a # r /\ b # r
      <4>1. a \in Chunks(h, L) /\ b \in Chunks(h, L)
        BY <3>3, <1>8
      <4> QED
        BY <4>1, <2>2, <3>3, <1>14 DEF Good, Tiled
    <3>4. CASE a # c /\ a # r /\ b = r
      <4>1. a \in Chunks(h, L) \ {c}
        BY <3>4, <1>8
      <4> QED
        <5>1. End(h, a) <= c
          <6>1. /\ a \in Nat /\ End(h, a) \in Nat
                /\ End(h, a) <= c \/ End(h, c) <= a
            BY <4>1, <3>0
          <6>2. a < r
            BY <2>2, <3>4
          <6> QED
            BY <6>1, <6>2, <3>c
        <5>2. End(g, a) = End(h, a)
          BY <4>1, <1>14
        <5>3. End(h, a) \in Nat /\ c < r /\ c \in Nat /\ r \in Nat
          BY <4>1, <3>0, <3>c
        <5> QED
          BY <5>1, <5>2, <5>3, <3>4
    <3> QED
      BY <3>1, <3>2, <3>3, <3>4
  <2>3. Mapped(g) = Mapped(h)
    BY <1>3 DEF Mapped
  <2>4. ASSUME NEW y \in Nat
        PROVE  (\E a \in Chunks(h, L) : a <= y /\ y < End(h, a))
                 <=> (\E a \in Chunks(g, M) : a <= y /\ y < End(g, a))
    <3>1. ASSUME NEW a \in Chunks(h, L), a <= y, y < End(h, a)
          PROVE  \E b \in Chunks(g, M) : b <= y /\ y < End(g, b)
      <4>1. CASE a = c
        <5>1. c \in Chunks(g, M) /\ r \in Chunks(g, M)
          BY <1>1, <1>8
        <5>2. y < r \/ r <= y
          BY <1>5
        <5> QED
          BY <5>1, <5>2, <3>1, <4>1, <1>1, <1>12, <1>13
      <4>2. CASE a # c
        BY <3>1, <4>2, <1>8, <1>14
      <4> QED
        BY <4>1, <4>2
    <3>2. ASSUME NEW a \in Chunks(g, M), a <= y, y < End(g, a)
          PROVE  \E b \in Chunks(h, L) : b <= y /\ y < End(h, b)
      <4>1. CASE a = c
        BY <3>2, <4>1, <1>1, <1>5, <1>12
      <4>2. CASE a = r
        BY <3>2, <4>2, <1>1, <1>5, <1>13
      <4>3. CASE a # c /\ a # r
        BY <3>2, <4>3, <1>8, <1>14
      <4> QED
        BY <4>1, <4>2, <4>3
    <3> QED
      BY <3>1, <3>2
  <2> QED
    BY <2>1, <2>2, <2>3, <2>4 DEF Good, Tiled
<1> QED
  BY <1>7, <1>15, <1>16, <1>17 DEF Good, CutInTwo, g, w, x, u, v

LEMMA TakenGood ==
  ASSUME NEW h, NEW L, Good(h, L), NEW n \in Nat, NEW o \in Nat, n >= o,
         NEW i \in Fits(h, n)
  PROVE  Good(Taken(h, i, n, o), L \union {h.free[i]})
<1> DEFINE c == h.free[i]
<1>1. /\ i \in 1 .. Len(h.free) /\ h.hdr[c].size >= n
      /\ c \in OnList(h) /\ c \in Nat
  BY GoodFacts DEF Fits
<1>2. h.free \in Seq(Nat) /\ Ascending(h.free) /\ Entries(h.free) = OnList(h)
  BY DEF Good, Typed, OnList, Entries
<1>a. c = h.free[i]
  OBVIOUS
<1>3. CASE ~ Splits(h, c, n)
  <2> DEFINE F == Dropped(h.free, i)
  <2>1. F \in Seq(Nat) /\ Ascending(F) /\ Entries(F) = OnList(h) \ {c}
    BY <1>1, <1>2, DroppedList
  <2>2. Taken(h, i, n, o) = HandedOut(h, c, n, o, F)
    BY <1>3 DEF Taken, HandedOut
  <2> HIDE DEF c, F
  <2>3. Good(HandedOut(h, c, n, o, F), L \union {c})
    BY <1>1, <2>1, TakenWhole
  <2> QED
    BY <2>2, <2>3 DEF c
<1>4. CASE Splits(h, c, n)
  <2> DEFINE r == c + Hdr + n
             F == [h.free EXCEPT ![i] = r]
  <2>1. Taken(h, i, n, o) = CutInTwo(h, c, r, n, o, F)
    BY <1>4 DEF Taken, CutInTwo
  <2>2. c \in Chunks(h, L)
    BY <1>1 DEF Chunks
  <2> HIDE DEF c
  (* The comparison did not wrap: the chunk lies below ArenaTop.           *)
  <2>3. /\ h.hdr[c].size >= n + Hdr + Align /\ h.hdr[c].size \in Nat
        /\ End(h, c) = c + Hdr + h.hdr[c].size
    <3>1. /\ c + Hdr + h.hdr[c].size <= ArenaTop /\ h.hdr[c].size \in Nat
          /\ End(h, c) = c + Hdr + h.hdr[c].size
      BY <2>2, GoodApart
    <3>2. n + Hdr + Align \in Nat /\ n + Hdr + Align < Word /\ Word \in Nat
      BY <1>1, <3>1, SizesAssumption
    <3>3. (n + Hdr + Align) % Word = n + Hdr + Align
      BY <3>2
    <3> QED
      BY <1>4, <3>1, <3>3 DEF Splits
  <2>4. r \in Nat /\ c < r /\ r < End(h, c)
    BY <1>1, <2>3, Positive
  <2>5. ASSUME NEW j \in 1 .. Len(h.free), i < j
        PROVE  r < h.free[j]
    <3> DEFINE d == h.free[j]
    <3>1. c < d /\ d \in Chunks(h, L)
      BY <1>1, <2>5, GoodFacts DEF c
    <3> HIDE DEF d, r
    <3>2. d \in Nat /\ d < End(h, d) /\ End(h, d) \in Nat /\ End(h, c) \in Nat
      BY <2>2, <3>1, GoodApart, Positive
    <3>3. End(h, c) <= d
      BY <1>1, <2>2, <3>1, <3>2, GoodApart
    <3> QED
      BY <2>4, <3>2, <3>3 DEF d
  <2>6. h.free[i] < r /\ c = h.free[i]
    BY <2>4 DEF c
  <2>7. r = c + Hdr + n /\ F = [h.free EXCEPT ![i] = r]
    OBVIOUS
  <2> HIDE DEF r, F
  <2>8. F \in Seq(Nat) /\ Ascending(F) /\ Entries(F) = (OnList(h) \ {c}) \union {r}
    <3>1. F = [h.free EXCEPT ![i] = r] /\ h.free[i] < r /\ r \in Nat
      BY <2>4, <2>6, <2>7
    <3>2. /\ F \in Seq(Nat) /\ Ascending(F)
          /\ Entries(F) = (Entries(h.free) \ {h.free[i]}) \union {r}
      BY <1>1, <1>2, <2>5, <3>1, ReplacedList
    <3> QED
      BY <1>2, <2>6, <3>2
  <2>9. Good(CutInTwo(h, c, r, n, o, F), L \union {c})
    BY <1>1, <2>3, <2>7, <2>8, TakenSplit
  <2> QED
    BY <2>1, <2>9 DEF c
<1> QED
  BY <1>3, <1>4

LEMMA FirstFitFacts ==
  ASSUME NEW h, NEW n, Fits(h, n) # {}
  PROVE  FirstFit(h, n) \in Fits(h, n)
<1>1. Fits(h, n) \in SUBSET Nat
  BY DEF Fits
<1>2. \E i \in Fits(h, n) : \A j \in Fits(h, n) : i <= j
  BY <1>1, LeastElement
<1> QED
  BY <1>2 DEF FirstFit

LEMMA SearchedGood ==
  ASSUME NEW h, NEW L, Good(h, L), NEW n \in Nat, NEW g \in Searched(h, n)
  PROVE  Good(g, L)
<1> DEFINE first == IF Len(h.free) = 0 THEN heap_grow(h, n) ELSE {h}
<1>1. PICK f \in first : g \in (IF Fits(f, n) = {} THEN heap_grow(f, n) ELSE {f})
  BY DEF Searched
<1>2. Good(f, L)
  BY GrownGood
<1> QED
  BY <1>1, <1>2, GrownGood

-----------------------------------------------------------------------------
(* The actions.                                                            *)

LEMMA MallocGood ==
  ASSUME Good(heap, live), NEW n \in Nat, Malloc(n) \/ MallocFails(n)
  PROVE  Good(heap', live')
<1> DEFINE m == Wanted(n)
<1>0. m \in Nat
  BY WantedFacts
<1>1. CASE Malloc(n)
  <2>1. PICK h \in Searched(heap, m) :
          /\ Fits(h, m) # {}
          /\ heap' = Taken(h, FirstFit(h, m), m, n)
          /\ live' = live \union {h.free[FirstFit(h, m)]}
    BY <1>1 DEF Malloc
  <2> DEFINE i == FirstFit(h, m)
  <2> HIDE DEF m
  <2>2. Good(h, live)
    BY <1>0, SearchedGood
  <2>3. i \in Fits(h, m)
    BY <2>1, FirstFitFacts
  <2>4. m >= n
    <3> DEFINE c == h.free[i]
    <3>1. c \in Chunks(h, live) /\ h.hdr[c].size >= m
      BY <2>2, <2>3, GoodFacts DEF Fits
    <3> HIDE DEF c
    <3>2. h.hdr[c].size <= ArenaTop
      BY <2>2, <3>1, GoodApart, Positive
    <3>3. m <= ArenaTop
      BY <1>0, <2>2, <3>1, <3>2, GoodApart, Positive
    <3> QED
      BY <3>3, WantedFacts DEF m
  <2> HIDE DEF i
  <2> QED
    BY <1>0, <2>1, <2>2, <2>3, <2>4, TakenGood DEF i
<1>2. CASE MallocFails(n)
  BY <1>0, <1>2, SearchedGood DEF MallocFails
<1> QED
  BY <1>1, <1>2

(* The block malloc takes for realloc leaves a good heap, in which the old *)
(* block is still live.                                                    *)
LEMMA TakenForCaller ==
  ASSUME NEW L, NEW n \in Nat, NEW h, Good(h, L), NEW i \in Fits(h, Wanted(n))
  PROVE  Good(Taken(h, i, Wanted(n), n), L \union {h.free[i]})
<1> DEFINE m == Wanted(n)
           c == h.free[i]
<1>0. m \in Nat
  BY WantedFacts
<1>1. c \in Chunks(h, L) /\ h.hdr[c].size >= m
  BY GoodFacts DEF Fits
<1>2. m >= n
  <2> HIDE DEF c, m
  <2>1. h.hdr[c].size <= ArenaTop
    BY <1>1, GoodApart, Positive
  <2>2. m <= ArenaTop
    BY <1>0, <1>1, <2>1, GoodApart, Positive
  <2> QED
    BY <2>2, WantedFacts DEF m
<1> HIDE DEF c
<1> QED
  BY <1>0, <1>2, TakenGood

LEMMA CallocGood ==
  ASSUME Good(heap, live), NEW n \in Nat, NEW m \in Nat, Calloc(n, m)
  PROVE  Good(heap', live')
<1>1. CASE UNCHANGED vars
  BY <1>1 DEF vars
<1>2. CASE Malloc((n * m) % Word) \/ MallocFails((n * m) % Word)
  <2> DEFINE p == (n * m) % Word
  <2>1. p \in Nat
    <3> DEFINE q == n * m
    <3>1. q \in Nat
      OBVIOUS
    <3> HIDE DEF q
    <3>2. q % Word \in Nat
      BY <3>1, SizesAssumption
    <3> QED
      BY <3>2 DEF q
  <2>2. Malloc(p) \/ MallocFails(p)
    BY <1>2
  <2> HIDE DEF p
  <2> QED
    BY <2>1, <2>2, MallocGood
<1> QED
  BY <1>1, <1>2 DEF Calloc

LEMMA ReallocInPlaceGood ==
  ASSUME Good(heap, live), NEW c \in live, NEW n \in Nat, ReallocInPlace(c, n)
  PROVE  Good(heap', live')
<1> DEFINE u == [heap.hdr EXCEPT ![c].user_size = n]
           g == [hdr |-> u, free |-> heap.free, regions |-> heap.regions]
<1>1. c \in DOMAIN heap.hdr /\ heap.hdr[c] \in Chunk
  BY GoodFacts
<1>2. /\ DOMAIN u = DOMAIN heap.hdr
      /\ u = [a \in DOMAIN u |-> u[a]]
      /\ \A a \in DOMAIN u : a # c => u[a] = heap.hdr[a]
      /\ u[c] = [heap.hdr[c] EXCEPT !.user_size = n]
  BY <1>1
<1>3. /\ u[c].user_size = n /\ u[c].size = heap.hdr[c].size
      /\ u[c].state = heap.hdr[c].state /\ u[c] \in Chunk
  BY <1>1, <1>2 DEF Chunk
<1>4. heap.hdr[c].size >= n /\ heap' = g /\ live' = live
  BY DEF ReallocInPlace
<1> HIDE DEF u
<1>5. g.hdr = u /\ g.free = heap.free /\ g.regions = heap.regions
  OBVIOUS
<1>6. /\ OnList(g) = OnList(heap) /\ Mapped(g) = Mapped(heap)
      /\ Chunks(g, live) = Chunks(heap, live)
  BY DEF OnList, Mapped, Chunks
<1>7. \A a \in DOMAIN heap.hdr : u[a].size = heap.hdr[a].size /\ u[a].state = heap.hdr[a].state
  BY <1>2, <1>3
<1> HIDE DEF g
<1>8. \A a \in Chunks(heap, live) : End(g, a) = End(heap, a)
  BY <1>5, <1>7, GoodFacts DEF End
<1>9. Typed(g, live)
  <2>1. \A a \in DOMAIN u : u[a] \in Chunk
    BY <1>2, <1>3 DEF Good, Typed
  <2>2. g = [hdr |-> g.hdr, free |-> g.free, regions |-> g.regions]
    BY DEF g
  <2> QED
    BY <1>2, <1>5, <1>6, <2>1, <2>2 DEF Good, Typed
<1>10. Flagged(g, live)
  <2>1. \A a \in OnList(g) : g.hdr[a].state = 1
    BY <1>5, <1>6, <1>7, GoodFacts DEF Good, Flagged
  <2>2. \A a \in live : g.hdr[a].state = 0
    BY <1>5, <1>6, <1>7, GoodFacts DEF Good, Flagged
  <2>3. \A a \in live : g.hdr[a].size >= g.hdr[a].user_size
    <3> TAKE a \in live
    <3>1. CASE a = c
      BY <1>3, <1>4, <1>5, <3>1
    <3>2. CASE a # c
      BY <1>2, <1>5, <3>2, GoodFacts DEF Good, Flagged
    <3> QED
      BY <3>1, <3>2
  <2> QED
    BY <2>1, <2>2, <2>3 DEF Flagged
<1>11. Tiled(g, live)
  BY <1>6, <1>8 DEF Good, Tiled
<1>12. Ascending(g.free)
  BY <1>5 DEF Good
<1> QED
  BY <1>4, <1>9, <1>10, <1>11, <1>12 DEF Good

LEMMA ReallocMovesGood ==
  ASSUME Good(heap, live), NEW c \in live, NEW n \in Nat, ReallocMoves(c, n)
  PROVE  Good(heap', live')
<1> DEFINE m == Wanted(n)
<1>0. m \in Nat
  BY WantedFacts
<1>1. PICK h \in Searched(heap, m) :
        IF Fits(h, m) # {}
        THEN /\ heap' = Released(Taken(h, FirstFit(h, m), m, n), c)
             /\ live' = (live \union {h.free[FirstFit(h, m)]}) \ {c}
        ELSE heap' = h /\ UNCHANGED live
  BY DEF ReallocMoves
<1> HIDE DEF m
<1>2. Good(h, live)
  BY <1>0, SearchedGood
<1>3. CASE Fits(h, m) # {}
  <2> DEFINE i == FirstFit(h, m)
             g == Taken(h, i, m, n)
  <2>1. i \in Fits(h, m)
    BY <1>3, FirstFitFacts
  <2>2. Good(g, live \union {h.free[i]})
    <3> HIDE DEF i
    <3> QED BY <1>2, <2>1, TakenForCaller DEF m
  <2>3. heap' = Released(g, c) /\ live' = (live \union {h.free[i]}) \ {c}
    BY <1>1, <1>3
  <2> HIDE DEF g, i
  <2> QED
    BY <2>2, <2>3, ReleasedGood
<1>4. CASE Fits(h, m) = {}
  BY <1>1, <1>2, <1>4
<1> QED
  BY <1>3, <1>4

LEMMA InitGood == Init => Good(heap, live)
<1> SUFFICES ASSUME Init PROVE Good(heap, live)
  OBVIOUS
<1>1. /\ heap = [hdr |-> <<>>, free |-> <<>>, regions |-> {}] /\ live = {}
      /\ heap.hdr = <<>> /\ heap.free = <<>> /\ heap.regions = {}
  BY DEF Init
<1>2. OnList(heap) = {} /\ Mapped(heap) = {} /\ Chunks(heap, live) = {}
  BY <1>1 DEF OnList, Mapped, Chunks
<1>3. DOMAIN heap.hdr = {}
  BY <1>1
<1>4. Typed(heap, live)
  <2>1. heap.hdr = [a \in DOMAIN heap.hdr |-> heap.hdr[a]]
    BY <1>1
  <2> QED
    BY <1>1, <1>2, <1>3, <2>1 DEF Typed
<1>5. Ascending(heap.free)
  BY <1>1 DEF Ascending
<1>6. Flagged(heap, live) /\ Tiled(heap, live)
  BY <1>1, <1>2 DEF Flagged, Tiled
<1> QED
  BY <1>4, <1>5, <1>6 DEF Good

LEMMA NextGood == Good(heap, live) /\ [Next]_vars => Good(heap', live')
<1> SUFFICES ASSUME Good(heap, live), [Next]_vars PROVE Good(heap', live')
  OBVIOUS
<1>0. \A n \in Requests : n \in Nat
  BY SizesAssumption
<1>1. ASSUME NEW n \in Requests, Malloc(n) \/ MallocFails(n) PROVE Good(heap', live')
  BY <1>0, <1>1, MallocGood
<1>2. ASSUME NEW n \in Requests, NEW m \in Requests, Calloc(n, m) PROVE Good(heap', live')
  BY <1>0, <1>2, CallocGood
<1>3. ASSUME NEW c \in live, Free(c) PROVE Good(heap', live')
  BY <1>3, ReleasedGood DEF Free
<1>4. ASSUME NEW c \in live, NEW n \in Requests, ReallocInPlace(c, n) PROVE Good(heap', live')
  BY <1>0, <1>4, ReallocInPlaceGood
<1>5. ASSUME NEW c \in live, NEW n \in Requests, ReallocMoves(c, n) PROVE Good(heap', live')
  BY <1>0, <1>5, ReallocMovesGood
<1>6. CASE UNCHANGED vars
  BY <1>6 DEF vars
<1> QED
  BY <1>1, <1>2, <1>3, <1>4, <1>5, <1>6 DEF Next

-----------------------------------------------------------------------------
(* The theorems.                                                           *)

(* Every heap the allocator reaches is good: the list ascends, the flags   *)
(* agree with it, and the chunks tile the mapped memory.                   *)
THEOREM HeapGood == Spec => []Good(heap, live)
<1>1. Init => Good(heap, live)
  BY InitGood
<1>2. Good(heap, live) /\ [Next]_vars => Good(heap, live)'
  BY NextGood
<1> QED
  BY <1>1, <1>2, PTL DEF Spec

(* malloc, free, calloc and realloc keep the heap well typed.              *)
THEOREM TypeCorrect == Spec => []TypeOK
<1>1. Good(heap, live) => TypeOK
  <2> SUFFICES ASSUME Good(heap, live) PROVE TypeOK
    OBVIOUS
  <2>1. DOMAIN heap.hdr \subseteq Addr /\ heap.hdr \in [DOMAIN heap.hdr -> Chunk]
    BY DEF Good, Typed
  <2>2. Chunks(heap, live) \subseteq DOMAIN heap.hdr /\ heap.regions \subseteq Region
    BY DEF Good, Typed
  <2>3. \A i \in 1 .. Len(heap.free) : heap.free[i] \in Addr
    BY <2>1, <2>2, GoodFacts
  <2>4. heap.free \in Seq(Addr)
    BY <2>3, GoodFacts
  <2> QED
    BY <2>1, <2>2, <2>4 DEF TypeOK, Chunks
<1> QED
  BY <1>1, HeapGood, PTL

(* The free list is in address order at every call.                        *)
THEOREM ListSorted == Spec => []Sorted
<1>1. Good(heap, live) => Sorted
  BY DEF Good, Ascending, Sorted
<1> QED
  BY <1>1, HeapGood, PTL

(* The flag malloc, free and heap_grow keep in each header says whether    *)
(* the chunk is on the list.                                               *)
THEOREM FlagsTruthful == Spec => []FlagIsMembership
<1>1. Good(heap, live) => FlagIsMembership
  <2> SUFFICES ASSUME Good(heap, live) PROVE FlagIsMembership
    OBVIOUS
  <2>1. \A a \in OnList(heap) : heap.hdr[a].state = 1
    BY DEF Good, Flagged
  <2>2. \A a \in live : heap.hdr[a].state = 0 /\ a \notin OnList(heap)
    BY GoodFacts DEF Good, Flagged
  <2> QED
    BY <2>1, <2>2 DEF FlagIsMembership, Chunks
<1> QED
  BY <1>1, HeapGood, PTL

(* No caller gets a block shorter than it asked for.                       *)
THEOREM BlocksNeverShort == Spec => []BlocksLongEnough
<1>1. Good(heap, live) => BlocksLongEnough
  BY DEF Good, Flagged, BlocksLongEnough
<1> QED
  BY <1>1, HeapGood, PTL

LEMMA ExtentFacts ==
  ASSUME NEW h, NEW L, Good(h, L), NEW a \in Chunks(h, L)
  PROVE  \A x : x \in Extent(h, a) <=> x \in Nat /\ a <= x /\ x < End(h, a)
<1>1. a \in Nat /\ h.hdr[a].size \in Nat /\ End(h, a) = a + Hdr + h.hdr[a].size
  BY GoodApart
<1>2. Hdr \in Nat
  BY Positive
<1> QED
  BY <1>1, <1>2 DEF Extent

(* No byte belongs to two chunks, for every arena and every sequence of    *)
(* calls.                                                                  *)
THEOREM ChunksDisjoint == Spec => []Disjoint
<1>1. Good(heap, live) => Disjoint
  <2> SUFFICES ASSUME Good(heap, live),
                      NEW a \in Chunks(heap, live), NEW b \in Chunks(heap, live), a # b,
                      NEW x \in Extent(heap, a), x \in Extent(heap, b)
               PROVE  FALSE
    BY DEF Disjoint
  <2>1. End(heap, b) <= a \/ End(heap, a) <= b
    BY GoodApart
  <2>2. x \in Nat /\ a <= x /\ x < End(heap, a) /\ b <= x /\ x < End(heap, b)
    BY ExtentFacts
  <2>3. a \in Nat /\ b \in Nat /\ End(heap, a) \in Nat /\ End(heap, b) \in Nat
    BY GoodApart
  <2> QED
    BY <2>1, <2>2, <2>3
<1> QED
  BY <1>1, HeapGood, PTL

(* The chunks, live and free, cover exactly the memory obtained from the   *)
(* kernel.                                                                 *)
THEOREM NoMemoryLost == Spec => []NothingLost
<1>1. Good(heap, live) => NothingLost
  <2> SUFFICES ASSUME Good(heap, live) PROVE NothingLost
    OBVIOUS
  <2>1. ASSUME NEW x \in Mapped(heap) PROVE x \in Nat
    <3>1. PICK r \in heap.regions : x \in r.base .. (r.base + r.len - 1)
      BY DEF Mapped
    <3>2. r.base \in Nat /\ r.len \in Nat
      <4>1. r \in Region
        BY DEF Good, Typed
      <4> QED
        BY <4>1, Positive DEF Region, Addr
    <3> QED
      BY <3>1, <3>2
  <2>2. \A a \in Chunks(heap, live) : \A x :
          x \in Extent(heap, a) <=> x \in Nat /\ a <= x /\ x < End(heap, a)
    BY ExtentFacts
  <2>3. \A x \in Nat :
          x \in Mapped(heap) <=> \E a \in Chunks(heap, live) : a <= x /\ x < End(heap, a)
    BY DEF Good, Tiled
  <2> QED
    BY <2>1, <2>2, <2>3 DEF NothingLost
<1> QED
  BY <1>1, HeapGood, PTL

(* The list is what malloc and free take it for: in address order, and     *)
(* holding exactly the chunks whose flag says so.                          *)
THEOREM FreeListIsSound == Spec => []FreeListSound
BY ListSorted, FlagsTruthful, PTL DEF FreeListSound

(* Whatever is split and merged, each byte the kernel gave belongs to one  *)
(* chunk, and no block is shorter than its owner asked for.                *)
THEOREM MemoryIsAccounted == Spec => []MemoryAccounted
BY ChunksDisjoint, NoMemoryLost, BlocksNeverShort, PTL DEF MemoryAccounted

-----------------------------------------------------------------------------
(***************************************************************************)
(* Every pointer runtime/malloc.c returns is a multiple of the alignment.  *)
(*                                                                         *)
(* The argument: every header in memory, of a live chunk, a free one or    *)
(* one left behind by a merge, stands at a multiple of Align and records   *)
(* a multiple of it.  Splits and merges only add and subtract multiples;   *)
(* the two places where other numbers come in are align16, whose result    *)
(* is a multiple also when it saturates, and the rounding of heap_grow.    *)
(***************************************************************************)

Multiple(x) == \E k \in Int : x = k * Align

LEMMA MultipleSum ==
  ASSUME NEW x, NEW y, Multiple(x), Multiple(y)
  PROVE  Multiple(x + y) /\ Multiple(x - y) /\ x \in Int /\ y \in Int
<1>1. PICK j \in Int : x = j * Align
  BY DEF Multiple
<1>2. PICK k \in Int : y = k * Align
  BY DEF Multiple
<1>3. Align \in Nat
  BY SizesAssumption
<1>4. x + y = (j + k) * Align /\ x - y = (j - k) * Align
  BY <1>1, <1>2, <1>3
<1>5. j + k \in Int /\ j - k \in Int /\ j * Align \in Int /\ k * Align \in Int
  BY <1>3
<1>6. \A i \in Int : Multiple(i * Align)
  BY DEF Multiple
<1>7. Multiple((j + k) * Align) /\ Multiple((j - k) * Align)
  BY <1>5, <1>6, Zenon
<1>8. Multiple(x + y) /\ Multiple(x - y)
  BY <1>4, <1>7, Zenon
<1>9. x \in Int /\ y \in Int
  BY <1>1, <1>2, <1>5, Zenon
<1> QED
  BY <1>8, <1>9

LEMMA MultipleMod ==
  ASSUME NEW x \in Nat
  PROVE  Multiple(x) <=> x % Align = 0
<1>1. Align \in Nat \ {0}
  BY SizesAssumption
<1>2. /\ x = Align * (x \div Align) + (x % Align) /\ x \div Align \in Int
      /\ x % Align \in 0 .. Align - 1
  BY <1>1
<1>3. ASSUME x % Align = 0
      PROVE  Multiple(x)
  <2>1. x = (x \div Align) * Align
    BY <1>1, <1>2, <1>3
  <2> QED
    BY <1>2, <2>1 DEF Multiple
<1>4. ASSUME Multiple(x)
      PROVE  x % Align = 0
  <2>1. PICK k \in Int : x = k * Align
    BY <1>4 DEF Multiple
  <2> DEFINE q == x \div Align
             r == x % Align
  <2>2. q \in Int /\ r \in 0 .. Align - 1 /\ r = (k - q) * Align
    BY <1>1, <1>2, <2>1
  <2> HIDE DEF q, r
  <2>3. k - q >= 1 => (k - q) * Align >= Align
    BY <1>1, <2>2
  <2>4. k - q <= -1 => (k - q) * Align <= - Align
    BY <1>1, <2>2
  <2>5. k - q = 0
    BY <1>1, <2>2, <2>3, <2>4
  <2> QED
    BY <1>1, <2>2, <2>5 DEF r
<1> QED
  BY <1>3, <1>4

(* The sizes the allocator is built with.                                  *)
LEMMA BuiltInMultiples ==
  Multiple(Hdr) /\ Multiple(Page) /\ Multiple(MinRegion) /\ Multiple(Word) /\ Multiple(Align)
<1>1. \A n \in {Hdr, Page, MinRegion, Word} : n \in Nat /\ n % Align = 0
  BY SizesAssumption
<1>2. Multiple(Align)
  <2>1. Align = 1 * Align
    BY SizesAssumption
  <2> QED
    BY <2>1 DEF Multiple
<1> QED
  BY <1>1, <1>2, MultipleMod

(* A multiple of a multiple.                                               *)
LEMMA MultipleTimes ==
  ASSUME NEW x, Multiple(x), NEW q \in Int
  PROVE  Multiple(q * x)
<1>1. PICK k \in Int : x = k * Align
  BY DEF Multiple
<1>2. Align \in Nat /\ q * k \in Int
  BY SizesAssumption
<1>3. q * x = (q * k) * Align
  BY <1>1, <1>2
<1> QED
  BY <1>2, <1>3 DEF Multiple

(* What align16 returns.                                                   *)
LEMMA WantedMultiple ==
  ASSUME NEW n \in Nat
  PROVE  Multiple(Wanted(n))
<1> DEFINE m == IF n = 0 THEN 1 ELSE n
           r == m % Align
           q == m \div Align
<1>1. m \in Nat /\ Align \in Nat \ {0} /\ Word \in Nat
  BY SizesAssumption
<1>2. Wanted(n) = align16(m)
  BY DEF Wanted
<1> HIDE DEF m
<1>3. r \in 0 .. Align - 1 /\ q \in Int /\ m = q * Align + r
  BY <1>1
<1>4. Multiple(Word - Align)
  BY BuiltInMultiples, MultipleSum
<1>5. CASE m > Word - Align
  BY <1>2, <1>4, <1>5 DEF align16
<1>6. CASE ~ (m > Word - Align) /\ r = 0
  <2>1. (Align - r) % Align = 0
    BY <1>1, <1>6
  <2>2. Wanted(n) = q * Align
    BY <1>1, <1>2, <1>3, <1>6, <2>1 DEF align16
  <2> QED
    BY <1>3, <2>2 DEF Multiple
<1>7. CASE ~ (m > Word - Align) /\ r # 0
  <2> HIDE DEF r, q
  <2>1. Align - r \in 0 .. Align - 1
    BY <1>1, <1>3, <1>7
  <2>2. (Align - r) % Align = Align - r
    BY <1>1, <2>1
  <2>3. Wanted(n) = m + (Align - r)
    BY <1>2, <1>7, <2>2 DEF align16, r
  <2>4. Wanted(n) = (q + 1) * Align /\ q + 1 \in Int
    BY <1>1, <1>3, <2>3
  <2> QED
    BY <2>4 DEF Multiple
<1> QED
  BY <1>5, <1>6, <1>7

LEMMA RegionMultiple ==
  ASSUME NEW need \in Nat
  PROVE  Multiple(RegionSize(need))
<1> DEFINE x == (need + Hdr + Slack + Page - 1) % Word
           q == x \div Page
<1>1. x \in Nat /\ Page \in Nat \ {0}
  BY SizesAssumption
<1>2. RegionSize(need) = MinRegion \/ RegionSize(need) = x - (x % Page)
  BY DEF RegionSize, RoundDown
<1> HIDE DEF x
<1>3. x - (x % Page) = q * Page /\ q \in Int
  BY <1>1
<1>4. Multiple(q * Page)
  <2> HIDE DEF q
  <2> QED BY <1>3, BuiltInMultiples, MultipleTimes
<1> QED
  BY <1>2, <1>3, <1>4, BuiltInMultiples

-----------------------------------------------------------------------------
(* Headers.                                                                *)

AlignedHeaders(hdr) == \A a \in DOMAIN hdr : Multiple(a) /\ Multiple(hdr[a].size)

LEMMA OverwriteAligned ==
  ASSUME NEW hdr, AlignedHeaders(hdr), NEW lo, NEW hi
  PROVE  AlignedHeaders(Overwrite(hdr, lo, hi))
BY DEF AlignedHeaders, Overwrite

LEMMA StoreAligned ==
  ASSUME NEW hdr, AlignedHeaders(hdr), NEW c, Multiple(c), NEW v, Multiple(v.size)
  PROVE  AlignedHeaders(Store(hdr, c, v))
<1> DEFINE kept == Overwrite(hdr, c, c + Hdr)
           w    == Store(hdr, c, v)
<1>1. AlignedHeaders(kept)
  BY OverwriteAligned
<1>2. /\ DOMAIN w = DOMAIN kept \union {c}
      /\ \A a \in DOMAIN w : w[a] = IF a = c THEN v ELSE kept[a]
  BY DEF Store
<1> HIDE DEF kept, w
<1>3. AlignedHeaders(w)
  BY <1>1, <1>2 DEF AlignedHeaders
<1> QED
  BY <1>3 DEF w

LEMMA CoalescedAligned ==
  ASSUME NEW h, NEW L, Good(h, L), AlignedHeaders(h.hdr), NEW k \in Int
  PROVE  AlignedHeaders(Coalesced(h, k).hdr)
<1>1. CASE k \in 1 .. Len(h.free) - 1 /\ chunks_adjacent(h, h.free[k], h.free[k + 1])
  <2> DEFINE a == h.free[k]
             b == h.free[k + 1]
             u == [h.hdr EXCEPT ![a].size = @ + Hdr + h.hdr[b].size, ![b].state = 0]
  <2>1. Coalesced(h, k).hdr = u
    BY <1>1 DEF Coalesced
  <2>2. k \in 1 .. Len(h.free) /\ k + 1 \in 1 .. Len(h.free) /\ k < k + 1
    BY <1>1, GoodFacts
  <2>3. a \in DOMAIN h.hdr /\ b \in DOMAIN h.hdr /\ a # b
    BY SMTT(30), <2>2, GoodFacts
  <2> HIDE DEF a, b
  <2>4. \A c \in DOMAIN h.hdr : h.hdr[c] \in Chunk
    BY GoodFacts
  <2>5. /\ DOMAIN u = DOMAIN h.hdr
        /\ u[a].size = h.hdr[a].size + Hdr + h.hdr[b].size
        /\ \A c \in DOMAIN h.hdr : c # a => u[c].size = h.hdr[c].size
    BY <2>3, <2>4 DEF Chunk
  <2> DEFINE x == h.hdr[a].size
             y == h.hdr[b].size
  <2>6. Multiple(x) /\ Multiple(y) /\ Multiple(Hdr)
    BY <2>3, BuiltInMultiples DEF AlignedHeaders
  <2>7. Multiple(x + Hdr + y)
    <3> HIDE DEF x, y
    <3>1. Multiple(x + Hdr)
      BY <2>6, MultipleSum
    <3> QED
      BY <2>6, <3>1, MultipleSum
  <2> HIDE DEF u
  <2> QED
    BY <2>1, <2>5, <2>7 DEF AlignedHeaders
<1>2. CASE ~ (k \in 1 .. Len(h.free) - 1 /\ chunks_adjacent(h, h.free[k], h.free[k + 1]))
  BY <1>2 DEF Coalesced
<1> QED
  BY <1>1, <1>2

LEMMA ReleasedAligned ==
  ASSUME NEW h, NEW L, Good(h, L), AlignedHeaders(h.hdr), NEW c \in L
  PROVE  AlignedHeaders(Released(h, c).hdr)
<1> DEFINE k == InsertAt(h, c)
           u == [h.hdr EXCEPT ![c].state = 1]
           g == [hdr |-> u, free |-> Inserted(h.free, k, c), regions |-> h.regions]
<1>1. CASE h.hdr[c].state = 1
  BY <1>1 DEF Released
<1>2. CASE h.hdr[c].state # 1
  <2>1. c \in DOMAIN h.hdr /\ \A a \in DOMAIN h.hdr : h.hdr[a] \in Chunk
    BY GoodFacts
  <2>2. DOMAIN u = DOMAIN h.hdr /\ \A a \in DOMAIN u : u[a].size = h.hdr[a].size
    BY <2>1 DEF Chunk
  <2>3. Good(g, L \ {c}) /\ g.hdr = u
    BY ListedGood
  <2>4. k \in Int
    <3>1. h.free \in Seq(Nat) /\ Len(h.free) \in Nat /\ c \in Nat
      BY GoodFacts
    <3>2. k \in 1 .. Len(h.free) + 1
      BY <3>1, InsertPosition
    <3> QED
      BY <3>1, <3>2
  <2>5. Released(h, c) = Coalesced(Coalesced(g, k), k - 1)
    BY <1>2 DEF Released
  <2> HIDE DEF g, k, u
  <2>6. AlignedHeaders(g.hdr)
    BY <2>2, <2>3 DEF AlignedHeaders
  <2> DEFINE f == Coalesced(g, k)
  <2>7. Good(f, L \ {c}) /\ AlignedHeaders(f.hdr)
    BY <2>3, <2>4, <2>6, CoalescedGood, CoalescedAligned
  <2> HIDE DEF f
  <2>8. AlignedHeaders(Coalesced(f, k - 1).hdr)
    BY <2>4, <2>7, CoalescedAligned
  <2> QED
    BY <2>5, <2>8 DEF f
<1> QED
  BY <1>1, <1>2

LEMMA GrownAligned ==
  ASSUME NEW h, NEW L, Good(h, L), AlignedHeaders(h.hdr), NEW need \in Nat,
         NEW g \in heap_grow(h, need)
  PROVE  AlignedHeaders(g.hdr)
<1>1. CASE g = h
  BY <1>1
<1>2. CASE g # h
  <2> DEFINE len == RegionSize(need)
  <2>1. PICK p \in MapAt(h, len) : g = WithRegion(h, p, len)
    BY <1>2 DEF heap_grow
  <2>2. len \in Nat /\ len >= Hdr + Align /\ Multiple(len)
    BY RegionSizeFacts, RegionMultiple
  <2> HIDE DEF len
  <2>3. Multiple(p)
    <3>1. p \in Nat /\ p % Page = 0 /\ Page \in Nat \ {0}
      BY SizesAssumption DEF MapAt, Addr
    <3> DEFINE q == p \div Page
    <3>2. p = q * Page /\ q \in Int
      BY <3>1
    <3> HIDE DEF q
    <3> QED
      BY <3>2, BuiltInMultiples, MultipleTimes
  <2> DEFINE k == InsertAt(h, p)
             v == [size |-> len - Hdr, user_size |-> 0, state |-> 1]
             w == Store(h.hdr, p, v)
             f == [hdr     |-> w,
                   free    |-> Inserted(h.free, k, p),
                   regions |-> h.regions \union {[base |-> p, len |-> len]}]
  <2>4. Good(f, L)
    BY <2>2, RegionGood
  <2>5. k \in Int
    <3>1. h.free \in Seq(Nat) /\ Len(h.free) \in Nat /\ p \in Nat
      BY GoodFacts DEF MapAt, Addr
    <3>2. k \in 1 .. Len(h.free) + 1
      BY <3>1, InsertPosition
    <3> QED
      BY <3>1, <3>2
  <2>6. AlignedHeaders(w)
    <3>1. Multiple(len - Hdr) /\ v.size = len - Hdr
      BY <2>2, BuiltInMultiples, MultipleSum
    <3>2. Multiple(v.size)
      BY <3>1
    <3> HIDE DEF v
    <3> QED
      BY <2>3, <3>2, StoreAligned
  <2>7. g = Coalesced(f, k) /\ f.hdr = w
    BY <2>1 DEF WithRegion
  <2> HIDE DEF f, k, w
  <2> QED
    BY <2>4, <2>5, <2>6, <2>7, CoalescedAligned
<1> QED
  BY <1>1, <1>2

LEMMA SearchedAligned ==
  ASSUME NEW h, NEW L, Good(h, L), AlignedHeaders(h.hdr), NEW n \in Nat,
         NEW g \in Searched(h, n)
  PROVE  AlignedHeaders(g.hdr)
<1> DEFINE first == IF Len(h.free) = 0 THEN heap_grow(h, n) ELSE {h}
<1>1. PICK f \in first : g \in (IF Fits(f, n) = {} THEN heap_grow(f, n) ELSE {f})
  BY DEF Searched
<1>2. Good(f, L) /\ AlignedHeaders(f.hdr)
  BY GrownGood, GrownAligned
<1> QED
  BY <1>1, <1>2, GrownAligned

LEMMA TakenAligned ==
  ASSUME NEW h, NEW L, Good(h, L), AlignedHeaders(h.hdr), NEW n \in Nat, Multiple(n),
         NEW o, NEW i \in Fits(h, n)
  PROVE  AlignedHeaders(Taken(h, i, n, o).hdr)
<1> DEFINE c     == h.free[i]
           cs    == h.hdr[c].size
           split == Splits(h, c, n)
           r     == c + Hdr + n
           u     == [size |-> cs - n - Hdr, user_size |-> 0, state |-> 1]
           hdr1  == IF split THEN Store(h.hdr, r, u) ELSE h.hdr
           v     == [size |-> IF split THEN n ELSE cs, user_size |-> o, state |-> 0]
           hdr2  == Store(hdr1, c, v)
           w     == Overwrite(hdr2, c + Hdr, c + Hdr + n)
<1>1. Taken(h, i, n, o).hdr = w
  BY DEF Taken
<1>2. c \in DOMAIN h.hdr
  BY GoodFacts DEF Fits
<1>3. Multiple(c) /\ Multiple(cs) /\ Multiple(Hdr)
  BY <1>2, BuiltInMultiples DEF AlignedHeaders
<1> HIDE DEF c, cs
<1>4. Multiple(r)
  <2>1. Multiple(c + Hdr)
    BY <1>3, MultipleSum
  <2> QED
    BY <2>1, MultipleSum
<1>5. Multiple(u.size)
  <2>1. Multiple(cs - n)
    BY <1>3, MultipleSum
  <2>2. Multiple(cs - n - Hdr)
    BY <1>3, <2>1, MultipleSum
  <2> QED
    BY <2>2
<1>6. Multiple(v.size)
  BY <1>3
<1> HIDE DEF r, u, v, split
<1>7. AlignedHeaders(hdr1)
  BY <1>4, <1>5, StoreAligned
<1> HIDE DEF hdr1
<1>8. AlignedHeaders(hdr2)
  BY <1>3, <1>6, <1>7, StoreAligned
<1> HIDE DEF hdr2
<1> QED
  BY <1>1, <1>8, OverwriteAligned

-----------------------------------------------------------------------------
(* The actions.                                                            *)

AlignedHeap == AlignedHeaders(heap.hdr)

LEMMA MallocAligned ==
  ASSUME Good(heap, live), AlignedHeap, NEW n \in Nat, Malloc(n) \/ MallocFails(n)
  PROVE  AlignedHeap'
<1> DEFINE m == Wanted(n)
<1>1. m \in Nat /\ Multiple(m)
  BY WantedFacts, WantedMultiple
<1>2. PICK h \in Searched(heap, m) :
        \/ Fits(h, m) # {} /\ heap' = Taken(h, FirstFit(h, m), m, n)
        \/ heap' = h
  BY DEF Malloc, MallocFails
<1> HIDE DEF m
<1>3. Good(h, live) /\ AlignedHeaders(h.hdr)
  BY <1>1, SearchedGood, SearchedAligned DEF AlignedHeap
<1>4. CASE Fits(h, m) # {} /\ heap' = Taken(h, FirstFit(h, m), m, n)
  <2> DEFINE i == FirstFit(h, m)
  <2>1. i \in Fits(h, m)
    BY <1>4, FirstFitFacts
  <2> HIDE DEF i
  <2>2. AlignedHeaders(Taken(h, i, m, n).hdr)
    BY <1>1, <1>3, <2>1, TakenAligned
  <2> QED
    BY <1>4, <2>2 DEF AlignedHeap, i
<1> QED
  BY <1>2, <1>3, <1>4 DEF AlignedHeap

LEMMA ReallocInPlaceAligned ==
  ASSUME Good(heap, live), AlignedHeap, NEW c \in live, NEW n \in Nat, ReallocInPlace(c, n)
  PROVE  AlignedHeap'
<1>1. c \in DOMAIN heap.hdr /\ \A a \in DOMAIN heap.hdr : heap.hdr[a] \in Chunk
  BY GoodFacts
<1>2. heap'.hdr = [heap.hdr EXCEPT ![c].user_size = n]
  BY DEF ReallocInPlace
<1>3. /\ DOMAIN heap'.hdr = DOMAIN heap.hdr
      /\ \A a \in DOMAIN heap.hdr : heap'.hdr[a].size = heap.hdr[a].size
  BY <1>1, <1>2 DEF Chunk
<1> QED
  BY <1>3 DEF AlignedHeap, AlignedHeaders

LEMMA ReallocMovesAligned ==
  ASSUME Good(heap, live), AlignedHeap, NEW c \in live, NEW n \in Nat, ReallocMoves(c, n)
  PROVE  AlignedHeap'
<1> DEFINE m == Wanted(n)
<1>1. m \in Nat /\ Multiple(m)
  BY WantedFacts, WantedMultiple
<1>2. PICK h \in Searched(heap, m) :
        \/ Fits(h, m) # {} /\ heap' = Released(Taken(h, FirstFit(h, m), m, n), c)
        \/ heap' = h
  BY DEF ReallocMoves
<1>3. Good(h, live) /\ AlignedHeaders(h.hdr)
  <2> HIDE DEF m
  <2> QED BY <1>1, SearchedGood, SearchedAligned DEF AlignedHeap
<1>4. CASE Fits(h, m) # {} /\ heap' = Released(Taken(h, FirstFit(h, m), m, n), c)
  <2> DEFINE i == FirstFit(h, m)
             g == Taken(h, i, m, n)
             L == live \union {h.free[i]}
  <2>1. i \in Fits(h, m)
    BY <1>4, FirstFitFacts
  <2>2. Good(g, L)
    <3> HIDE DEF i
    <3> QED BY <1>3, <2>1, TakenForCaller
  <2>3. AlignedHeaders(g.hdr)
    <3> HIDE DEF i, m
    <3> QED BY <1>1, <1>3, <2>1, TakenAligned
  <2>4. c \in L /\ heap' = Released(g, c)
    BY <1>4
  <2> HIDE DEF g, L
  <2> QED
    BY <2>2, <2>3, <2>4, ReleasedAligned DEF AlignedHeap
<1> QED
  BY <1>2, <1>3, <1>4 DEF AlignedHeap

LEMMA NextAligned ==
  ASSUME Good(heap, live), AlignedHeap, [Next]_vars
  PROVE  AlignedHeap'
<1>0. \A n \in Requests : n \in Nat
  BY SizesAssumption
<1>1. ASSUME NEW n \in Requests, Malloc(n) \/ MallocFails(n)
      PROVE  AlignedHeap'
  BY <1>0, <1>1, MallocAligned
<1>2. ASSUME NEW n \in Requests, NEW m \in Requests, Calloc(n, m)
      PROVE  AlignedHeap'
  <2> DEFINE x == (n * m) % Word
  <2>1. x \in Nat
    BY <1>0, SizesAssumption
  <2>2. UNCHANGED vars \/ Malloc(x) \/ MallocFails(x)
    BY <1>2 DEF Calloc
  <2> HIDE DEF x
  <2>3. CASE UNCHANGED vars
    BY <2>3 DEF vars, AlignedHeap
  <2> QED
    BY <2>1, <2>2, <2>3, MallocAligned
<1>3. ASSUME NEW c \in live, Free(c)
      PROVE  AlignedHeap'
  BY <1>3, ReleasedAligned DEF Free, AlignedHeap
<1>4. ASSUME NEW c \in live, NEW n \in Requests, ReallocInPlace(c, n) \/ ReallocMoves(c, n)
      PROVE  AlignedHeap'
  BY <1>0, <1>4, ReallocInPlaceAligned, ReallocMovesAligned
<1>5. CASE UNCHANGED vars
  BY <1>5 DEF vars, AlignedHeap
<1> QED
  BY <1>1, <1>2, <1>3, <1>4, <1>5 DEF Next

-----------------------------------------------------------------------------
(* Every heap the allocator reaches has aligned headers only.              *)
THEOREM HeadersAligned == Spec => []AlignedHeap
<1>1. Init => AlignedHeap
  BY DEF Init, AlignedHeap, AlignedHeaders
<1>2. Good(heap, live) /\ AlignedHeap /\ [Next]_vars => AlignedHeap'
  BY NextAligned
<1> QED
  BY <1>1, <1>2, HeapGood, PTL DEF Spec

(* The pointer malloc, calloc and realloc return is a multiple of Align,   *)
(* whatever has been split, merged and mapped before.                      *)
LEMMA ChunkAligned ==
  ASSUME NEW h, NEW L, Good(h, L), AlignedHeaders(h.hdr), NEW c \in L
  PROVE  (c + Hdr) % Align = 0
<1>1. c \in DOMAIN h.hdr /\ c \in Nat /\ Hdr \in Nat
  BY GoodFacts
<1>2. Multiple(c + Hdr)
  BY <1>1, BuiltInMultiples, MultipleSum DEF AlignedHeaders
<1> QED
  BY <1>1, <1>2, MultipleMod

(* Every live block starts at a multiple of the alignment.                 *)
THEOREM BlocksAligned == Spec => []PointersAligned
<1>1. Good(heap, live) /\ AlignedHeap => PointersAligned
  BY ChunkAligned DEF AlignedHeap, PointersAligned
<1> QED
  BY <1>1, HeapGood, HeadersAligned, PTL

-----------------------------------------------------------------------------
(***************************************************************************)
(* The free list of runtime/malloc.c has no two touching chunks, but for   *)
(* those that touch where two mmaps do.                                    *)
(*                                                                         *)
(* The argument: the list is in address order and no chunk overlaps        *)
(* another, so a chunk that ends where a free one starts is its            *)
(* predecessor on the list.  free therefore meets every touching pair that *)
(* the chunk it lists can form, in its two calls of coalesce_pair; a       *)
(* region can touch on its left only at its own base; and a split leaves   *)
(* the live half between the rest and what is before it.                   *)
(***************************************************************************)

(* If b starts where a ends, it is where a region starts.                  *)
Excused(h, a, b) == End(h, a) = b => \E r \in h.regions : r.base = b

Merged(h) == \A a, b \in OnList(h) : Excused(h, a, b)

(* The chunk that starts where the k-th of the list ends is the next.      *)
LEMMA NextOnList ==
  ASSUME NEW h, NEW L, Good(h, L), NEW k \in 1 .. Len(h.free),
         End(h, h.free[k]) \in OnList(h)
  PROVE  k \in 1 .. Len(h.free) - 1 /\ h.free[k + 1] = End(h, h.free[k])
<1> DEFINE a == h.free[k]
<1>1. PICK j \in 1 .. Len(h.free) : h.free[j] = End(h, a)
  BY DEF OnList
<1>2. /\ Len(h.free) \in Nat /\ a \in Chunks(h, L) /\ a \in Nat
      /\ h.free[j] \in Nat /\ a < End(h, a) /\ End(h, a) \in Nat
  <2>1. Len(h.free) \in Nat /\ a \in Chunks(h, L) /\ h.free[j] \in Nat
    BY GoodFacts
  <2> HIDE DEF a
  <2>2. a \in Nat /\ a + Hdr <= End(h, a) /\ End(h, a) \in Nat
    BY <2>1, GoodApart
  <2> QED
    BY <2>1, <2>2, Positive
<1>3. k < j
  <2>1. j < k => h.free[j] < a
    BY GoodFacts
  <2>2. j # k
    BY <1>1, <1>2
  <2> QED
    BY <1>1, <1>2, <2>1, <2>2
<1>4. k \in 1 .. Len(h.free) - 1 /\ k + 1 \in 1 .. Len(h.free) /\ k < k + 1
  BY <1>2, <1>3
<1>5. ~ (k + 1 < j)
  <2> DEFINE d == h.free[k + 1]
  <2>1. d \in Chunks(h, L) /\ d \in Nat /\ a < d
    BY <1>4, GoodFacts
  <2>2. k + 1 < j => d < h.free[j]
    BY <1>4, GoodFacts
  <2>3. End(h, a) <= d
    BY <1>2, <2>1 DEF Good, Tiled
  <2> HIDE DEF d
  <2> QED
    BY <1>1, <1>2, <2>1, <2>2, <2>3
<1>6. j = k + 1
  BY <1>2, <1>3, <1>5
<1> QED
  BY <1>1, <1>4, <1>6

(* What coalesce_pair does to the list and to the ends of its chunks.      *)
LEMMA CoalescedShape ==
  ASSUME NEW h, NEW L, Good(h, L), NEW k \in 1 .. Len(h.free) - 1,
         chunks_adjacent(h, h.free[k], h.free[k + 1])
  PROVE  LET g == Coalesced(h, k)
             a == h.free[k]
             b == h.free[k + 1]
         IN /\ OnList(g) = OnList(h) \ {b}
            /\ g.regions = h.regions
            /\ a \in OnList(h) /\ b \in OnList(h) /\ a # b
            /\ End(g, a) = End(h, b)
            /\ \A c \in OnList(h) : c # a /\ c # b => End(g, c) = End(h, c)
            /\ k \in 1 .. Len(g.free) /\ g.free[k] = a
<1> DEFINE g == Coalesced(h, k)
           a == h.free[k]
           b == h.free[k + 1]
           m == k + 1
           u == [h.hdr EXCEPT ![a].size = @ + Hdr + h.hdr[b].size, ![b].state = 0]
<1>1. g.hdr = u /\ g.free = Dropped(h.free, m) /\ g.regions = h.regions
  BY DEF Coalesced
<1>2. /\ h.free \in Seq(Nat) /\ Len(h.free) \in Nat /\ k \in 1 .. Len(h.free)
      /\ m \in 1 .. Len(h.free) /\ k < m /\ b = h.free[m]
  BY GoodFacts
<1>3. a \in OnList(h) /\ b \in OnList(h) /\ a < b /\ a \in Nat /\ b \in Nat
  BY <1>2, GoodFacts
<1>4. a + Hdr + h.hdr[a].size = b
  BY DEF chunks_adjacent
<1>5. k \in 1 .. Len(g.free) /\ g.free[k] = a
  <2>1. Dropped(h.free, m)[k] = h.free[k] /\ Len(Dropped(h.free, m)) = Len(h.free) - 1
    BY <1>2 DEF Dropped
  <2> QED
    BY <1>1, <2>1
<1> HIDE DEF m, a, b
<1>6. OnList(g) = OnList(h) \ {b}
  <2>1. Ascending(h.free)
    BY DEF Good
  <2>2. Entries(Dropped(h.free, m)) = Entries(h.free) \ {b}
    BY <1>2, <2>1, DroppedList
  <2> QED
    BY <1>1, <2>2 DEF OnList, Entries
<1>7. /\ a \in DOMAIN h.hdr /\ b \in DOMAIN h.hdr /\ a # b
      /\ h.hdr[a] \in Chunk /\ h.hdr[b] \in Chunk
      /\ \A c \in OnList(h) : c \in DOMAIN h.hdr
  BY <1>3, GoodFacts
<1>8. /\ u[a].size = h.hdr[a].size + Hdr + h.hdr[b].size
      /\ \A c \in DOMAIN h.hdr : c # a /\ c # b => u[c] = h.hdr[c]
  BY <1>7 DEF Chunk
<1> HIDE DEF u, g
<1>9. End(g, a) = End(h, b)
  <2> DEFINE x == h.hdr[a].size
             y == h.hdr[b].size
  <2>1. x \in Nat /\ y \in Nat /\ Hdr \in Nat
    BY <1>7, GoodFacts
  <2>2. End(g, a) = a + Hdr + (x + Hdr + y) /\ End(h, b) = b + Hdr + y /\ a + Hdr + x = b
    BY <1>1, <1>4, <1>8 DEF End
  <2> HIDE DEF x, y
  <2> QED
    BY <1>3, <2>1, <2>2
<1>10. \A c \in OnList(h) : c # a /\ c # b => End(g, c) = End(h, c)
  BY <1>1, <1>7, <1>8 DEF End
<1> QED
  BY <1>1, <1>3, <1>5, <1>6, <1>7, <1>9, <1>10 DEF g, a, b

(* c, at place k, may touch both neighbours; after coalesce_pair of it     *)
(* with the right one it touches none there.                               *)
LEMMA MergeRight ==
  ASSUME NEW h, NEW L, Good(h, L), NEW k \in 1 .. Len(h.free),
         \A a, b \in OnList(h) : a # h.free[k] /\ b # h.free[k] => Excused(h, a, b)
  PROVE  LET f == Coalesced(h, k)
         IN /\ k \in 1 .. Len(f.free) /\ f.free[k] = h.free[k]
            /\ f.regions = h.regions
            /\ \A a, b \in OnList(f) : b # h.free[k] => Excused(f, a, b)
<1> DEFINE c == h.free[k]
           f == Coalesced(h, k)
<1>1. CASE k \in 1 .. Len(h.free) - 1 /\ chunks_adjacent(h, c, h.free[k + 1])
  <2> DEFINE d == h.free[k + 1]
  <2>1. /\ OnList(f) = OnList(h) \ {d} /\ f.regions = h.regions
        /\ c \in OnList(h) /\ d \in OnList(h) /\ c # d
        /\ End(f, c) = End(h, d)
        /\ \A x \in OnList(h) : x # c /\ x # d => End(f, x) = End(h, x)
        /\ k \in 1 .. Len(f.free) /\ f.free[k] = c
    BY <1>1, CoalescedShape
  <2> HIDE DEF c, d, f
  <2>2. ASSUME NEW a \in OnList(f), NEW b \in OnList(f), b # c
        PROVE  Excused(f, a, b)
    <3>1. CASE a = c
      <4>1. Excused(h, d, b)
        BY <2>1, <2>2 DEF c
      <4> QED
        BY <2>1, <3>1, <4>1 DEF Excused
    <3>2. CASE a # c
      <4>1. Excused(h, a, b)
        BY <2>1, <2>2, <3>2 DEF c
      <4> QED
        BY <2>1, <2>2, <3>2, <4>1 DEF Excused
    <3> QED
      BY <3>1, <3>2
  <2> QED
    BY <2>1, <2>2 DEF c, f
<1>2. CASE ~ (k \in 1 .. Len(h.free) - 1 /\ chunks_adjacent(h, c, h.free[k + 1]))
  <2>1. f = h
    BY <1>2 DEF Coalesced
  <2>2. ASSUME NEW a \in OnList(h), NEW b \in OnList(h), b # c
        PROVE  Excused(h, a, b)
    <3>1. CASE a = c
      <4>1. SUFFICES ASSUME End(h, c) = b PROVE FALSE
        BY <3>1 DEF Excused
      <4>2. k \in 1 .. Len(h.free) - 1 /\ h.free[k + 1] = End(h, c)
        BY <2>2, <4>1, NextOnList
      <4> QED
        BY <1>2, <4>2 DEF chunks_adjacent, End
    <3>2. CASE a # c
      BY <2>2, <3>2
    <3> QED
      BY <3>1, <3>2
  <2> QED
    BY <2>1, <2>2
<1> QED
  BY <1>1, <1>2

(* Only the left neighbour may touch c, at place k; coalesce_pair of the   *)
(* two leaves no touching pair.                                            *)
LEMMA MergeLeft ==
  ASSUME NEW h, NEW L, Good(h, L), NEW k \in 1 .. Len(h.free),
         \A a, b \in OnList(h) : b # h.free[k] => Excused(h, a, b)
  PROVE  Merged(Coalesced(h, k - 1))
<1> DEFINE c == h.free[k]
           j == k - 1
           p == h.free[j]
           f == Coalesced(h, j)
<1>0. j \in Int /\ k = j + 1 /\ Len(h.free) \in Nat /\ c = h.free[j + 1]
  BY GoodFacts
<1>1. CASE j \in 1 .. Len(h.free) - 1 /\ chunks_adjacent(h, p, h.free[j + 1])
  <2> HIDE DEF j
  <2>1. /\ OnList(f) = OnList(h) \ {h.free[j + 1]} /\ f.regions = h.regions
        /\ p \in OnList(h) /\ h.free[j + 1] \in OnList(h)
        /\ End(f, p) = End(h, h.free[j + 1])
        /\ \A x \in OnList(h) : x # p /\ x # h.free[j + 1] => End(f, x) = End(h, x)
    BY <1>1, CoalescedShape
  <2> HIDE DEF p, f
  <2>2. ASSUME NEW a \in OnList(f), NEW b \in OnList(f)
        PROVE  Excused(f, a, b)
    <3>0. a \in OnList(h) /\ b \in OnList(h) /\ a # c /\ b # c /\ c \in OnList(h)
      BY <1>0, <2>1, <2>2
    <3>1. Excused(h, a, b) /\ Excused(h, c, b)
      BY <3>0
    <3> HIDE DEF c
    <3>2. CASE a = p
      BY <1>0, <2>1, <3>1, <3>2 DEF Excused
    <3>3. CASE a # p
      BY <1>0, <2>1, <3>0, <3>1, <3>3 DEF Excused
    <3> QED
      BY <3>2, <3>3
  <2> QED
    BY <2>2 DEF Merged, f, j
<1>2. CASE ~ (j \in 1 .. Len(h.free) - 1 /\ chunks_adjacent(h, p, h.free[j + 1]))
  <2>1. f = h
    BY <1>2 DEF Coalesced
  <2>2. ASSUME NEW a \in OnList(h), NEW b \in OnList(h)
        PROVE  Excused(h, a, b)
    <3>1. CASE b = c
      <4>1. SUFFICES ASSUME End(h, a) = c PROVE FALSE
        BY <3>1 DEF Excused
      <4>2. PICK i \in 1 .. Len(h.free) : h.free[i] = a
        BY <2>2 DEF OnList
      <4>3. i \in 1 .. Len(h.free) - 1 /\ h.free[i + 1] = c /\ i + 1 \in 1 .. Len(h.free)
        BY <1>0, <2>2, <3>1, <4>1, <4>2, NextOnList
      <4>4. i + 1 = k
        <5>1. /\ i + 1 < k => h.free[i + 1] < h.free[k]
              /\ k < i + 1 => h.free[k] < h.free[i + 1]
              /\ h.free[k] \in Nat
          BY <4>3, GoodFacts
        <5> QED
          BY <4>3, <5>1
      <4>5. i = j
        BY <4>3, <4>4
      <4> HIDE DEF j
      <4> QED
        BY <1>0, <1>2, <4>1, <4>2, <4>3, <4>5 DEF chunks_adjacent, End
    <3>2. CASE b # c
      BY <2>2, <3>2
    <3> QED
      BY <3>1, <3>2
  <2> QED
    BY <2>1, <2>2 DEF Merged
<1> QED
  BY <1>1, <1>2
-----------------------------------------------------------------------------
(* The heap's operations.                                                  *)

(* free of a live chunk.                                                   *)
LEMMA ReleasedMerged ==
  ASSUME NEW h, NEW L, Good(h, L), Merged(h), NEW c \in L
  PROVE  Merged(Released(h, c))
<1> DEFINE k == InsertAt(h, c)
           u == [h.hdr EXCEPT ![c].state = 1]
           g == [hdr |-> u, free |-> Inserted(h.free, k, c), regions |-> h.regions]
           f == Coalesced(g, k)
<1>1. /\ c \in DOMAIN h.hdr /\ c \in Nat /\ h.hdr[c] \in Chunk /\ c \notin OnList(h)
      /\ h.free \in Seq(Nat) /\ Len(h.free) \in Nat /\ h.hdr[c].state # 1
      /\ \A a \in OnList(h) : a \in DOMAIN h.hdr /\ a # c
  BY GoodFacts DEF Good, Flagged
<1>2. k \in 1 .. Len(h.free) + 1
  BY <1>1, InsertPosition
<1>3. Good(g, L \ {c})
  BY ListedGood
<1>4. k \in 1 .. Len(g.free) /\ g.free[k] = c
  <2>1. /\ Inserted(h.free, k, c)[k] = c
        /\ k \in 1 .. Len(Inserted(h.free, k, c))
    <3> HIDE DEF k
    <3> QED BY <1>1, <1>2 DEF Inserted
  <2> QED
    BY <2>1
<1>5. OnList(g) = OnList(h) \union {c}
  <2>1. Ascending(h.free)
    BY DEF Good
  <2>2. Entries(Inserted(h.free, k, c)) = OnList(h) \union {c}
    <3> HIDE DEF g, u, f
    <3> QED BY <1>1, <2>1, InsertionFacts
  <2> QED
    BY <2>2 DEF OnList, Entries
<1>6. \A a \in OnList(h) : End(g, a) = End(h, a)
  BY <1>1 DEF End
<1>7. g.regions = h.regions
  OBVIOUS
<1>8. Released(h, c) = Coalesced(f, k - 1)
  BY <1>1 DEF Released
<1> HIDE DEF g
<1>9. ASSUME NEW a \in OnList(g), NEW b \in OnList(g), a # g.free[k], b # g.free[k]
      PROVE  Excused(g, a, b)
  <2>1. a \in OnList(h) /\ b \in OnList(h)
    BY <1>4, <1>5, <1>9
  <2>2. Excused(h, a, b)
    BY <2>1 DEF Merged
  <2> QED
    BY <1>6, <1>7, <2>1, <2>2 DEF Excused
<1> HIDE DEF k
<1>10. /\ k \in 1 .. Len(f.free) /\ f.free[k] = c
       /\ \A a, b \in OnList(f) : b # c => Excused(f, a, b)
  BY <1>3, <1>4, <1>9, MergeRight
<1>11. Good(f, L \ {c})
  <2>1. k \in Int
    BY <1>1, <1>2
  <2> QED
    BY <1>3, <2>1, CoalescedGood
<1> HIDE DEF f
<1>12. Merged(Coalesced(f, k - 1))
  BY <1>10, <1>11, MergeLeft
<1> QED
  BY <1>8, <1>12

(* An insertion adds nothing but the inserted.                             *)
LEMMA ListedBefore ==
  ASSUME NEW s \in Seq(Nat), NEW x, NEW k \in 1 .. Len(s) + 1
  PROVE  \A y \in Entries(Inserted(s, k, x)) : y # x => y \in Entries(s)
<1> DEFINE t == Inserted(s, k, x)
<1>1. /\ Len(t) = Len(s) + 1 /\ Len(s) \in Nat
      /\ \A i \in 1 .. Len(s) + 1 :
           t[i] = IF i < k THEN s[i] ELSE IF i = k THEN x ELSE s[i - 1]
  BY DEF Inserted
<1> HIDE DEF t
<1>2. ASSUME NEW i \in 1 .. Len(t), t[i] # x
      PROVE  t[i] \in Entries(s)
  <2>1. CASE i < k
    BY <1>1, <1>2, <2>1 DEF Entries
  <2>2. CASE ~ (i < k)
    <3> DEFINE j == i - 1
    <3>1. j \in 1 .. Len(s) /\ t[i] = s[j]
      BY <1>1, <1>2, <2>2
    <3> HIDE DEF j
    <3> QED
      BY <3>1 DEF Entries
  <2> QED
    BY <2>1, <2>2
<1> QED
  BY <1>2 DEF Entries, t

(* heap_grow lists a region; it may touch a chunk on its left, at its base.*)
LEMMA GrownMerged ==
  ASSUME NEW h, NEW L, Good(h, L), Merged(h), NEW need \in Nat,
         NEW g \in heap_grow(h, need)
  PROVE  Merged(g)
<1>1. CASE g = h
  BY <1>1
<1>2. CASE g # h
  <2> DEFINE len == RegionSize(need)
  <2>1. PICK p \in MapAt(h, len) : g = WithRegion(h, p, len)
    BY <1>2 DEF heap_grow
  <2>2. len \in Nat /\ len >= Hdr + Align
    BY RegionSizeFacts
  <2> HIDE DEF len
  <2> DEFINE k == InsertAt(h, p)
             v == [size |-> len - Hdr, user_size |-> 0, state |-> 1]
             w == Store(h.hdr, p, v)
             R == [base |-> p, len |-> len]
             f == [hdr     |-> w,
                   free    |-> Inserted(h.free, k, p),
                   regions |-> h.regions \union {R}]
  <2>3. Good(f, L)
    BY <2>2, RegionGood
  <2>4. /\ h.free \in Seq(Nat) /\ Len(h.free) \in Nat /\ p \in Nat
        /\ DOMAIN h.hdr \subseteq Nat
    BY GoodFacts DEF MapAt, Addr
  <2>5. k \in 1 .. Len(h.free) + 1
    BY <2>4, InsertPosition
  <2>6. k \in 1 .. Len(f.free) /\ f.free[k] = p
    <3>1. /\ Inserted(h.free, k, p)[k] = p
          /\ k \in 1 .. Len(Inserted(h.free, k, p))
      <4> HIDE DEF k
      <4> QED BY <2>4, <2>5 DEF Inserted
    <3> QED
      BY <3>1
  <2>7. g = Coalesced(f, k) /\ f.regions = h.regions \union {R} /\ R.base = p /\ f.hdr = w
    BY <2>1 DEF WithRegion
  <2>8. \A a \in DOMAIN w : a # p => w[a] = h.hdr[a]
    <3> HIDE DEF v
    <3> QED BY <2>4, StoreFacts
  <2>9. \A a \in OnList(f) : a # p => a \in OnList(h)
    <3>1. \A x \in Entries(Inserted(h.free, k, p)) : x # p => x \in Entries(h.free)
      <4> HIDE DEF k
      <4> QED BY <2>4, <2>5, ListedBefore
    <3> QED
      BY <3>1 DEF OnList, Entries
  <2> HIDE DEF f, w, k, R
  <2>10. \A a \in OnList(f) : a # p => End(f, a) = End(h, a)
    BY <2>3, <2>7, <2>8, GoodFacts DEF End
  <2>11. ASSUME NEW a \in OnList(f), NEW b \in OnList(f), a # f.free[k], b # f.free[k]
         PROVE  Excused(f, a, b)
    <3>1. Excused(h, a, b)
      BY <2>6, <2>9, <2>11 DEF Merged
    <3> QED
      BY <2>6, <2>7, <2>10, <2>11, <3>1 DEF Excused
  <2>12. /\ g.regions = f.regions
         /\ \A a, b \in OnList(g) : b # p => Excused(g, a, b)
    BY <2>3, <2>6, <2>7, <2>11, MergeRight
  <2> QED
    BY <2>7, <2>12 DEF Merged, Excused
<1> QED
  BY <1>1, <1>2

LEMMA SearchedMerged ==
  ASSUME NEW h, NEW L, Good(h, L), Merged(h), NEW n \in Nat, NEW g \in Searched(h, n)
  PROVE  Merged(g)
<1> DEFINE first == IF Len(h.free) = 0 THEN heap_grow(h, n) ELSE {h}
<1>1. PICK f \in first : g \in (IF Fits(f, n) = {} THEN heap_grow(f, n) ELSE {f})
  BY DEF Searched
<1>2. Good(f, L) /\ Merged(f)
  BY GrownGood, GrownMerged
<1> QED
  BY <1>1, <1>2, GrownMerged

(* What is on the list after a chunk has been handed out.                  *)
LEMMA TakenShape ==
  ASSUME NEW h, NEW L, Good(h, L), NEW n \in Nat, NEW o \in Nat, n >= o,
         NEW i \in Fits(h, n)
  PROVE  /\ Taken(h, i, n, o).regions = h.regions
         /\ \A a \in OnList(Taken(h, i, n, o)) :
              \/ /\ a \in OnList(h) /\ a # h.free[i]
                 /\ End(Taken(h, i, n, o), a) = End(h, a)
              \/ /\ a = h.free[i] + Hdr + n
                 /\ End(Taken(h, i, n, o), a) = End(h, h.free[i])
                 /\ h.free[i] < a /\ a < End(h, h.free[i])
<1> DEFINE c     == h.free[i]
           cs    == h.hdr[c].size
           split == Splits(h, c, n)
           r     == c + Hdr + n
           u     == [size |-> cs - n - Hdr, user_size |-> 0, state |-> 1]
           hdr1  == IF split THEN Store(h.hdr, r, u) ELSE h.hdr
           v     == [size |-> IF split THEN n ELSE cs, user_size |-> o, state |-> 0]
           hdr2  == Store(hdr1, c, v)
           w     == Overwrite(hdr2, c + Hdr, c + Hdr + n)
           F     == IF split THEN [h.free EXCEPT ![i] = r] ELSE Dropped(h.free, i)
           g     == Taken(h, i, n, o)
<1>1. g = [hdr |-> w, free |-> F, regions |-> h.regions]
  BY DEF Taken
<1>2. Good(g, L \union {c})
  BY TakenGood
<1>3. /\ i \in 1 .. Len(h.free) /\ c \in OnList(h) /\ c \in Chunks(h, L) /\ c \in Nat
      /\ Hdr \in Nat \ {0}
  BY GoodFacts DEF Fits
<1>4. DOMAIN h.hdr \subseteq Nat /\ r \in Nat
  BY <1>3, GoodFacts
<1>5. g.hdr = w /\ g.regions = h.regions
  BY <1>1
<1>6. \A a \in OnList(g) : a \in DOMAIN w
  <2> HIDE DEF g, w
  <2> QED BY <1>2, <1>5, GoodFacts
<1>7. c \notin OnList(g)
  <2> HIDE DEF g
  <2> QED BY <1>2, GoodFacts
<1>8. \A a \in OnList(g) : a \in OnList(h) \/ (split /\ a = r)
  <2>1. \A a \in Entries(F) : a \in Entries(h.free) \/ (split /\ a = r)
    <3>1. h.free \in Seq(Nat) /\ Ascending(h.free)
      BY DEF Good, Typed
    <3>2. CASE split
      <4> HIDE DEF r, split
      <4> QED BY <1>3, <1>4, <3>1, <3>2 DEF Entries
    <3>3. CASE ~ split
      <4>1. Entries(Dropped(h.free, i)) = Entries(h.free) \ {h.free[i]}
        <5> HIDE DEF c, r, split, F, g
        <5> QED BY <1>3, <3>1, DroppedList
      <4> QED
        BY <3>3, <4>1
    <3> QED
      BY <3>2, <3>3
  <2>2. g.free = F
    BY <1>1
  <2> HIDE DEF g, F, r, split
  <2> QED
    BY <2>1, <2>2 DEF OnList, Entries
<1>9. split => /\ c < r /\ r < End(h, c) /\ cs \in Nat
               /\ r + Hdr + u.size = End(h, c)
  <2>1. CASE split
    <3>1. /\ c + Hdr + cs <= ArenaTop /\ cs \in Nat
          /\ End(h, c) = c + Hdr + cs
      <4> HIDE DEF c
      <4> QED BY <1>3, GoodApart
    <3>2. cs >= n
      BY DEF Fits
    <3>3. cs >= (n + Hdr + Align) % Word
      BY <2>1 DEF Splits
    <3>4. u.size = cs - n - Hdr
      OBVIOUS
    <3> HIDE DEF c, cs, u, r
    <3>5. n + Hdr + Align \in Nat /\ n + Hdr + Align < Word /\ Word \in Nat
      BY <1>3, <3>1, <3>2, SizesAssumption
    <3>6. cs >= n + Hdr + Align
      BY <3>3, <3>5
    <3> QED
      BY <1>3, <3>1, <3>4, <3>6, Positive DEF r
  <2> QED
    BY <2>1
<1>10. /\ DOMAIN hdr1 \subseteq Nat
       /\ \A a \in DOMAIN hdr1 : (split => a # r) => hdr1[a] = h.hdr[a]
       /\ split => hdr1[r] = u
  <2>1. CASE split
    <3> DEFINE x == Store(h.hdr, r, u)
    <3>1. /\ DOMAIN x \subseteq DOMAIN h.hdr \union {r} /\ x[r] = u
          /\ \A a \in DOMAIN x : a # r => x[a] = h.hdr[a]
      <4> HIDE DEF r, u
      <4> QED BY <1>4, StoreFacts
    <3>2. hdr1 = x
      BY <2>1
    <3> HIDE DEF x, hdr1, r, u
    <3> QED
      BY <1>4, <2>1, <3>1, <3>2
  <2>2. CASE ~ split
    BY <1>4, <2>2
  <2> QED
    BY <2>1, <2>2
<1> HIDE DEF hdr1, v
<1>11. /\ DOMAIN hdr2 \subseteq DOMAIN hdr1 \union {c}
       /\ \A a \in DOMAIN hdr2 : a # c => hdr2[a] = hdr1[a]
  <2> HIDE DEF c
  <2> QED BY <1>3, <1>10, StoreFacts
<1> HIDE DEF hdr2
<1>12. DOMAIN w \subseteq DOMAIN hdr2 /\ \A a \in DOMAIN w : w[a] = hdr2[a]
  BY OverwriteFacts
<1> HIDE DEF g, w, r, split, u, cs
<1>13. ASSUME NEW a \in OnList(g)
       PROVE  a # c /\ g.hdr[a] = hdr1[a] /\ a \in DOMAIN hdr1
  <2>1. a # c /\ a \in DOMAIN w
    BY <1>6, <1>7
  <2>2. a \in DOMAIN hdr2 /\ w[a] = hdr2[a] /\ hdr2[a] = hdr1[a] /\ a \in DOMAIN hdr1
    <3> HIDE DEF c
    <3> QED BY <1>11, <1>12, <2>1
  <2> QED
    BY <1>5, <2>1, <2>2
<1>14. ASSUME NEW a \in OnList(g)
       PROVE  \/ a \in OnList(h) /\ a # c /\ End(g, a) = End(h, a)
              \/ a = r /\ End(g, a) = End(h, c) /\ c < r /\ r < End(h, c)
  <2>1. CASE split /\ a = r
    <3>1. g.hdr[a] = u
      BY <1>10, <1>13, <2>1
    <3>2. End(g, a) = r + Hdr + u.size
      BY <2>1, <3>1 DEF End
    <3> QED
      BY <1>9, <2>1, <3>2
  <2>2. CASE ~ (split /\ a = r)
    <3>1. g.hdr[a] = h.hdr[a]
      BY <1>10, <1>13, <2>2
    <3> QED
      BY <1>8, <1>13, <2>2, <3>1 DEF End
  <2> QED
    BY <2>1, <2>2
<1> QED
  BY <1>5, <1>14 DEF g, r, c

LEMMA TakenMerged ==
  ASSUME NEW h, NEW L, Good(h, L), Merged(h), NEW n \in Nat, NEW o \in Nat, n >= o,
         NEW i \in Fits(h, n)
  PROVE  Merged(Taken(h, i, n, o))
<1> DEFINE c == h.free[i]
           r == c + Hdr + n
           g == Taken(h, i, n, o)
<1>1. /\ g.regions = h.regions
      /\ \A a \in OnList(g) :
           \/ a \in OnList(h) /\ a # c /\ End(g, a) = End(h, a)
           \/ a = r /\ End(g, a) = End(h, c) /\ c < a /\ a < End(h, c)
  BY TakenShape
<1>2. c \in OnList(h) /\ c \in Chunks(h, L)
  BY GoodFacts DEF Fits
<1> HIDE DEF g, r, c
<1>3. ASSUME NEW a \in OnList(g), NEW b \in OnList(g)
      PROVE  Excused(g, a, b)
  <2>1. CASE b \in OnList(h) /\ b # c
    <3>1. \E d \in OnList(h) : End(g, a) = End(h, d)
      BY <1>1, <1>2, <1>3
    <3>2. \A d \in OnList(h) : Excused(h, d, b)
      BY <2>1 DEF Merged
    <3> QED
      BY <1>1, <3>1, <3>2 DEF Excused
  <2>2. CASE b = r /\ c < r /\ r < End(h, c)
    <3>0. c \in Nat /\ r \in Nat /\ End(h, c) \in Nat
      <4>1. c \in Nat /\ End(h, c) \in Nat
        BY <1>2, GoodApart
      <4> QED
        BY <4>1, Positive DEF r
    <3>1. CASE a \in OnList(h) /\ a # c /\ End(g, a) = End(h, a)
      <4>1. a \in Chunks(h, L)
        BY <3>1, GoodFacts
      <4>2. /\ a \in Nat /\ End(h, a) \in Nat /\ a + Hdr <= End(h, a)
            /\ End(h, a) <= c \/ End(h, c) <= a
        BY <1>2, <3>1, <4>1, GoodApart
      <4>3. End(h, a) # r
        BY <2>2, <3>0, <4>2, Positive
      <4> QED
        BY <2>2, <3>1, <4>3 DEF Excused
    <3>2. CASE a = r /\ End(g, a) = End(h, c)
      BY <2>2, <3>0, <3>2 DEF Excused
    <3> QED
      BY <1>1, <3>1, <3>2
  <2> QED
    BY <1>1, <2>1, <2>2
<1> QED
  BY <1>3 DEF Merged, g

-----------------------------------------------------------------------------
(* The actions.                                                            *)

(* The chunk malloc takes is as long as the caller asked for.              *)
LEMMA WantedEnough ==
  ASSUME NEW h, NEW L, Good(h, L), NEW n \in Nat, NEW i \in Fits(h, Wanted(n))
  PROVE  Wanted(n) >= n
<1> DEFINE m == Wanted(n)
           c == h.free[i]
<1>0. m \in Nat
  BY WantedFacts
<1>1. c \in Chunks(h, L) /\ h.hdr[c].size >= m
  BY GoodFacts DEF Fits
<1> HIDE DEF c, m
<1>2. h.hdr[c].size <= ArenaTop
  BY <1>1, GoodApart, Positive
<1>3. m <= ArenaTop
  BY <1>0, <1>1, <1>2, GoodApart, Positive
<1> QED
  BY <1>3, WantedFacts DEF m

LEMMA MallocMerged ==
  ASSUME Good(heap, live), Merged(heap), NEW n \in Nat, Malloc(n) \/ MallocFails(n)
  PROVE  Merged(heap')
<1> DEFINE m == Wanted(n)
<1>1. m \in Nat
  BY WantedFacts
<1>2. PICK h \in Searched(heap, m) :
        \/ Fits(h, m) # {} /\ heap' = Taken(h, FirstFit(h, m), m, n)
        \/ heap' = h
  BY DEF Malloc, MallocFails
<1>3. Good(h, live) /\ Merged(h)
  <2> HIDE DEF m
  <2> QED BY <1>1, SearchedGood, SearchedMerged
<1>4. CASE Fits(h, m) # {} /\ heap' = Taken(h, FirstFit(h, m), m, n)
  <2> DEFINE i == FirstFit(h, m)
  <2>1. i \in Fits(h, m)
    BY <1>4, FirstFitFacts
  <2> HIDE DEF i
  <2>2. m >= n
    BY <1>3, <2>1, WantedEnough
  <2> HIDE DEF m
  <2>3. Merged(Taken(h, i, m, n))
    BY <1>1, <1>3, <2>1, <2>2, TakenMerged
  <2> QED
    BY <1>4, <2>3 DEF i
<1> QED
  BY <1>2, <1>3, <1>4

LEMMA ReallocInPlaceMerged ==
  ASSUME Good(heap, live), Merged(heap), NEW c \in live, NEW n \in Nat,
         ReallocInPlace(c, n)
  PROVE  Merged(heap')
<1>1. /\ c \in DOMAIN heap.hdr /\ \A a \in DOMAIN heap.hdr : heap.hdr[a] \in Chunk
      /\ \A a \in OnList(heap) : a \in DOMAIN heap.hdr
  BY GoodFacts
<1>2. /\ heap'.hdr = [heap.hdr EXCEPT ![c].user_size = n]
      /\ heap'.free = heap.free /\ heap'.regions = heap.regions
  BY DEF ReallocInPlace
<1>3. \A a \in DOMAIN heap.hdr : heap'.hdr[a].size = heap.hdr[a].size
  BY <1>1, <1>2 DEF Chunk
<1>4. OnList(heap') = OnList(heap)
  BY <1>2 DEF OnList
<1>5. \A a \in OnList(heap) : End(heap', a) = End(heap, a)
  BY <1>1, <1>3 DEF End
<1> QED
  BY <1>2, <1>4, <1>5 DEF Merged, Excused

LEMMA ReallocMovesMerged ==
  ASSUME Good(heap, live), Merged(heap), NEW c \in live, NEW n \in Nat, ReallocMoves(c, n)
  PROVE  Merged(heap')
<1> DEFINE m == Wanted(n)
<1>1. m \in Nat
  BY WantedFacts
<1>2. PICK h \in Searched(heap, m) :
        \/ Fits(h, m) # {} /\ heap' = Released(Taken(h, FirstFit(h, m), m, n), c)
        \/ heap' = h
  BY DEF ReallocMoves
<1>3. Good(h, live) /\ Merged(h)
  <2> HIDE DEF m
  <2> QED BY <1>1, SearchedGood, SearchedMerged
<1>4. CASE Fits(h, m) # {} /\ heap' = Released(Taken(h, FirstFit(h, m), m, n), c)
  <2> DEFINE i == FirstFit(h, m)
             g == Taken(h, i, m, n)
             L == live \union {h.free[i]}
  <2>1. i \in Fits(h, m)
    BY <1>4, FirstFitFacts
  <2>2. Good(g, L)
    <3> HIDE DEF i
    <3> QED BY <1>3, <2>1, TakenForCaller
  <2>3. Merged(g)
    <3> HIDE DEF i
    <3>1. m >= n
      BY <1>3, <2>1, WantedEnough
    <3> HIDE DEF m
    <3> QED BY <1>1, <1>3, <2>1, <3>1, TakenMerged
  <2>4. c \in L /\ heap' = Released(g, c)
    BY <1>4
  <2> HIDE DEF g, L
  <2> QED
    BY <2>2, <2>3, <2>4, ReleasedMerged
<1> QED
  BY <1>2, <1>3, <1>4

LEMMA NextMerged ==
  ASSUME Good(heap, live), Merged(heap), [Next]_vars
  PROVE  Merged(heap')
<1>0. \A n \in Requests : n \in Nat
  BY SizesAssumption
<1>1. ASSUME NEW n \in Requests, Malloc(n) \/ MallocFails(n)
      PROVE  Merged(heap')
  BY <1>0, <1>1, MallocMerged
<1>2. ASSUME NEW n \in Requests, NEW m \in Requests, Calloc(n, m)
      PROVE  Merged(heap')
  <2> DEFINE x == (n * m) % Word
  <2>1. x \in Nat
    BY <1>0, SizesAssumption
  <2>2. UNCHANGED vars \/ Malloc(x) \/ MallocFails(x)
    BY <1>2 DEF Calloc
  <2> HIDE DEF x
  <2>3. CASE UNCHANGED vars
    BY <2>3 DEF vars
  <2> QED
    BY <2>1, <2>2, <2>3, MallocMerged
<1>3. ASSUME NEW c \in live, Free(c)
      PROVE  Merged(heap')
  BY <1>3, ReleasedMerged DEF Free
<1>4. ASSUME NEW c \in live, NEW n \in Requests, ReallocInPlace(c, n) \/ ReallocMoves(c, n)
      PROVE  Merged(heap')
  BY <1>0, <1>4, ReallocInPlaceMerged, ReallocMovesMerged
<1>5. CASE UNCHANGED vars
  BY <1>5 DEF vars
<1> QED
  BY <1>1, <1>2, <1>3, <1>4, <1>5 DEF Next

-----------------------------------------------------------------------------
(* No chunk that free() lists stays apart from a free neighbour: two free  *)
(* chunks touch only at the base of a region.                              *)
THEOREM NeighboursAreMerged == Spec => []NeighboursMerged
<1>1. Init => Merged(heap)
  <2> SUFFICES ASSUME Init PROVE Merged(heap)
    OBVIOUS
  <2>1. OnList(heap) = {}
    BY DEF Init, OnList
  <2> QED
    BY <2>1 DEF Merged
<1>2. Good(heap, live) /\ Merged(heap) /\ [Next]_vars => Merged(heap)'
  BY NextMerged
<1>3. Good(heap, live) /\ Merged(heap) => NeighboursMerged
  <2> SUFFICES ASSUME Good(heap, live), Merged(heap),
                      NEW i \in 1 .. Len(heap.free) - 1,
                      chunks_adjacent(heap, heap.free[i], heap.free[i + 1])
               PROVE  \E r \in heap.regions : r.base = heap.free[i + 1]
    BY DEF NeighboursMerged
  <2> DEFINE j == i + 1
  <2>1. Len(heap.free) \in Nat
    BY GoodFacts
  <2>2. i \in 1 .. Len(heap.free) /\ j \in 1 .. Len(heap.free)
    BY <2>1
  <2>3. End(heap, heap.free[i]) = heap.free[j]
    BY DEF chunks_adjacent, End
  <2> HIDE DEF j
  <2>4. heap.free[i] \in OnList(heap) /\ heap.free[j] \in OnList(heap)
    BY <2>2, GoodFacts
  <2>5. \E r \in heap.regions : r.base = heap.free[j]
    BY <2>3, <2>4 DEF Merged, Excused
  <2> QED
    BY <2>5 DEF j
<1> QED
  BY <1>1, <1>2, <1>3, HeapGood, PTL DEF Spec

-----------------------------------------------------------------------------
(***************************************************************************)
(* The allocator implements Heap.tla.                                      *)
(*                                                                         *)
(* The argument: whatever the allocator does to its list, the requested    *)
(* sizes of the chunks that stay live are kept (Owed), and the chunk a     *)
(* call hands out or resizes is apart from every other live chunk because  *)
(* the heap it is found in, or leaves behind, is good; its pointer is      *)
(* aligned because every header in that heap is.                           *)
(***************************************************************************)

(* The heap g still records, for the chunks of L, the sizes h records.     *)
SameOwed(g, h, L) == \A a \in L : g.hdr[a].user_size = h.hdr[a].user_size

LEMMA CoalescedOwed ==
  ASSUME NEW h, NEW L, Good(h, L), NEW k \in Int
  PROVE  SameOwed(Coalesced(h, k), h, L)
<1>1. CASE k \in 1 .. Len(h.free) - 1 /\ chunks_adjacent(h, h.free[k], h.free[k + 1])
  <2> DEFINE a == h.free[k]
             b == h.free[k + 1]
             u == [h.hdr EXCEPT ![a].size = @ + Hdr + h.hdr[b].size, ![b].state = 0]
  <2>1. Coalesced(h, k).hdr = u
    BY <1>1 DEF Coalesced
  <2>2. k \in 1 .. Len(h.free) /\ k + 1 \in 1 .. Len(h.free)
    BY <1>1, GoodFacts
  <2>3. a \in OnList(h) /\ b \in OnList(h)
    BY <2>2, GoodFacts
  <2> HIDE DEF a, b
  <2>4. \A c \in L : c \in DOMAIN h.hdr /\ c # a /\ c # b
    BY <2>3, GoodFacts
  <2>5. \A c \in L : u[c] = h.hdr[c]
    BY <2>4
  <2> QED
    BY <2>1, <2>5 DEF SameOwed
<1>2. CASE ~ (k \in 1 .. Len(h.free) - 1 /\ chunks_adjacent(h, h.free[k], h.free[k + 1]))
  BY <1>2 DEF Coalesced, SameOwed
<1> QED
  BY <1>1, <1>2

LEMMA ReleasedOwed ==
  ASSUME NEW h, NEW L, Good(h, L), NEW c \in L
  PROVE  SameOwed(Released(h, c), h, L \ {c})
<1> DEFINE k == InsertAt(h, c)
           g == [hdr     |-> [h.hdr EXCEPT ![c].state = 1],
                 free    |-> Inserted(h.free, k, c),
                 regions |-> h.regions]
           f == Coalesced(g, k)
           M == L \ {c}
<1>1. Good(g, M)
  BY ListedGood
<1>2. k \in Int /\ k - 1 \in Int
  <2>1. h.free \in Seq(Nat) /\ Len(h.free) \in Nat /\ c \in Nat
    BY GoodFacts
  <2>2. k \in 1 .. Len(h.free) + 1
    BY <2>1, InsertPosition
  <2> QED
    BY <2>1, <2>2
<1>3. h.hdr[c].state # 1
  BY DEF Good, Flagged
<1>4. Released(h, c) = Coalesced(f, k - 1)
  BY <1>3 DEF Released
<1>5. SameOwed(g, h, M)
  <2>1. \A a \in M : a \in DOMAIN h.hdr /\ a # c
    BY GoodFacts
  <2> QED
    BY <2>1 DEF SameOwed
<1> HIDE DEF g, k
<1>6. Good(f, M) /\ SameOwed(f, g, M)
  BY <1>1, <1>2, CoalescedGood, CoalescedOwed
<1> HIDE DEF f
<1>7. SameOwed(Coalesced(f, k - 1), f, M)
  BY <1>2, <1>6, CoalescedOwed
<1> QED
  BY <1>4, <1>5, <1>6, <1>7 DEF SameOwed

LEMMA GrownOwed ==
  ASSUME NEW h, NEW L, Good(h, L), NEW need \in Nat, NEW g \in heap_grow(h, need)
  PROVE  SameOwed(g, h, L)
<1>1. CASE g = h
  BY <1>1 DEF SameOwed
<1>2. CASE g # h
  <2> DEFINE len == RegionSize(need)
  <2>1. PICK p \in MapAt(h, len) : g = WithRegion(h, p, len)
    BY <1>2 DEF heap_grow
  <2>2. len \in Nat /\ len >= Hdr + Align
    BY RegionSizeFacts
  <2> HIDE DEF len
  <2> DEFINE k == InsertAt(h, p)
             v == [size |-> len - Hdr, user_size |-> 0, state |-> 1]
             w == Store(h.hdr, p, v)
             f == [hdr     |-> w,
                   free    |-> Inserted(h.free, k, p),
                   regions |-> h.regions \union {[base |-> p, len |-> len]}]
  <2>3. Good(f, L)
    BY <2>2, RegionGood
  <2>4. h.free \in Seq(Nat) /\ Len(h.free) \in Nat /\ p \in Nat /\ DOMAIN h.hdr \subseteq Nat
    BY GoodFacts DEF MapAt, Addr
  <2>5. k \in 1 .. Len(h.free) + 1
    BY <2>4, InsertPosition
  <2>6. k \in Int
    BY <2>4, <2>5
  <2>7. g = Coalesced(f, k)
    BY <2>1 DEF WithRegion
  <2>8. p \in OnList(f)
    <3>1. Inserted(h.free, k, p)[k] = p
      BY <2>4, <2>5 DEF Inserted
    <3>2. k \in 1 .. Len(Inserted(h.free, k, p))
      BY <2>4, <2>5 DEF Inserted
    <3> QED
      BY <3>1, <3>2 DEF OnList
  <2>9. \A a \in L : a \in DOMAIN w /\ a # p
    <3>1. f.hdr = w
      OBVIOUS
    <3> HIDE DEF f, w
    <3> QED
      BY <2>3, <2>8, <3>1, GoodFacts
  <2>10. \A a \in DOMAIN w : a # p => w[a] = h.hdr[a]
    <3> HIDE DEF v
    <3> QED BY <2>4, StoreFacts
  <2>11. SameOwed(f, h, L)
    BY <2>9, <2>10 DEF SameOwed
  <2> HIDE DEF f, k
  <2>12. SameOwed(g, f, L)
    BY <2>3, <2>6, <2>7, CoalescedOwed
  <2> QED
    BY <2>11, <2>12 DEF SameOwed
<1> QED
  BY <1>1, <1>2

LEMMA SearchedOwed ==
  ASSUME NEW h, NEW L, Good(h, L), NEW n \in Nat, NEW g \in Searched(h, n)
  PROVE  SameOwed(g, h, L)
<1> DEFINE first == IF Len(h.free) = 0 THEN heap_grow(h, n) ELSE {h}
<1>1. PICK f \in first : g \in (IF Fits(f, n) = {} THEN heap_grow(f, n) ELSE {f})
  BY DEF Searched
<1>2. Good(f, L)
  BY GrownGood
<1>3. SameOwed(f, h, L)
  BY GrownOwed DEF SameOwed
<1>4. SameOwed(g, f, L)
  BY <1>1, <1>2, GrownOwed DEF SameOwed
<1> QED
  BY <1>3, <1>4 DEF SameOwed

(* malloc records the caller's size for the chunk it hands out, and        *)
(* disturbs no other live chunk's.                                         *)
LEMMA TakenOwed ==
  ASSUME NEW h, NEW L, Good(h, L), NEW n \in Nat, NEW o \in Nat, n >= o,
         NEW i \in Fits(h, n)
  PROVE  /\ SameOwed(Taken(h, i, n, o), h, L)
         /\ Taken(h, i, n, o).hdr[h.free[i]].user_size = o
         /\ h.free[i] \notin L
<1> DEFINE c     == h.free[i]
           cs    == h.hdr[c].size
           split == Splits(h, c, n)
           r     == c + Hdr + n
           u     == [size |-> cs - n - Hdr, user_size |-> 0, state |-> 1]
           hdr1  == IF split THEN Store(h.hdr, r, u) ELSE h.hdr
           v     == [size |-> IF split THEN n ELSE cs, user_size |-> o, state |-> 0]
           hdr2  == Store(hdr1, c, v)
           w     == Overwrite(hdr2, c + Hdr, c + Hdr + n)
           F     == IF split THEN [h.free EXCEPT ![i] = r] ELSE Dropped(h.free, i)
           g     == Taken(h, i, n, o)
<1>1. g = [hdr |-> w, free |-> F, regions |-> h.regions]
  BY DEF Taken
<1>2. Good(g, L \union {c})
  BY TakenGood
<1>3. i \in 1 .. Len(h.free) /\ c \in OnList(h) /\ c \in Nat /\ Hdr \in Nat
  BY GoodFacts DEF Fits
<1>4. DOMAIN h.hdr \subseteq Nat /\ r \in Nat
  BY <1>3, GoodFacts
<1>5. c \notin L
  BY <1>3, GoodFacts
<1>6. \A a \in L \union {c} : a \in DOMAIN w /\ a \notin OnList(g)
  <2>1. g.hdr = w
    BY <1>1
  <2> HIDE DEF g, w
  <2> QED
    BY <1>2, <2>1, GoodFacts
<1>7. split => r \in OnList(g)
  <2>1. CASE split
    <3>1. g.free = [h.free EXCEPT ![i] = r]
      BY <1>1, <2>1
    <3>2. h.free \in Seq(Nat)
      BY GoodFacts
    <3>3. i \in 1 .. Len(g.free) /\ g.free[i] = r
      <4> HIDE DEF r, g
      <4> QED BY <1>3, <3>1, <3>2
    <3> QED
      BY <3>3 DEF OnList
  <2> QED
    BY <2>1
<1>8. /\ DOMAIN hdr1 \subseteq Nat
      /\ \A a \in DOMAIN hdr1 : (split => a # r) => hdr1[a] = h.hdr[a]
  <2>1. CASE split
    <3> DEFINE x == Store(h.hdr, r, u)
    <3>1. /\ DOMAIN x \subseteq DOMAIN h.hdr \union {r}
          /\ \A a \in DOMAIN x : a # r => x[a] = h.hdr[a]
      <4> HIDE DEF r, u
      <4> QED BY <1>4, StoreFacts
    <3>2. hdr1 = x
      BY <2>1
    <3> HIDE DEF x, hdr1, r
    <3> QED
      BY <1>4, <2>1, <3>1, <3>2
  <2>2. CASE ~ split
    BY <1>4, <2>2
  <2> QED
    BY <2>1, <2>2
<1> HIDE DEF hdr1, v
<1>9. /\ DOMAIN hdr2 \subseteq DOMAIN hdr1 \union {c} /\ hdr2[c] = v
      /\ \A a \in DOMAIN hdr2 : a # c => hdr2[a] = hdr1[a]
  <2> HIDE DEF c
  <2> QED BY <1>3, <1>8, StoreFacts
<1> HIDE DEF hdr2
<1>10. DOMAIN w \subseteq DOMAIN hdr2 /\ \A a \in DOMAIN w : w[a] = hdr2[a]
  BY OverwriteFacts
<1>11. g.hdr = w
  BY <1>1
<1>12. v.user_size = o
  BY DEF v
<1> HIDE DEF g, w, c, r, split
<1>13. g.hdr[c].user_size = o
  BY <1>6, <1>9, <1>10, <1>11, <1>12
<1>14. ASSUME NEW a \in L
       PROVE  g.hdr[a] = h.hdr[a]
  <2>1. a # c /\ a \in DOMAIN w /\ (split => a # r)
    BY <1>5, <1>6, <1>7
  <2>2. a \in DOMAIN hdr2 /\ w[a] = hdr2[a] /\ hdr2[a] = hdr1[a]
    BY <2>1, <1>9, <1>10
  <2>3. a \in DOMAIN hdr1
    BY <2>1, <2>2, <1>9
  <2> QED
    BY <1>8, <1>11, <2>1, <2>2, <2>3
<1> QED
  BY <1>5, <1>13, <1>14 DEF SameOwed, c, g

-----------------------------------------------------------------------------
(* The refinement mapping.                                                 *)

Blocks(h, L) == [p \in {c + Hdr : c \in L} |-> h.hdr[p - Hdr].user_size]

LEMMA BlocksFacts ==
  ASSUME NEW h, NEW L, L \subseteq Nat, NEW c \in L
  PROVE  c + Hdr \in DOMAIN Blocks(h, L) /\ Blocks(h, L)[c + Hdr] = h.hdr[c].user_size
<1>1. (c + Hdr) - Hdr = c
  BY Positive
<1> QED
  BY <1>1 DEF Blocks

(* Two heaps that record the same sizes for the same chunks represent the  *)
(* same blocks.                                                            *)
LEMMA SameBlocks ==
  ASSUME NEW g, NEW h, NEW L, L \subseteq Nat, SameOwed(g, h, L)
  PROVE  Blocks(g, L) = Blocks(h, L)
<1>1. \A c \in L : (c + Hdr) - Hdr = c
  BY Positive
<1>2. \A p \in {c + Hdr : c \in L} : p - Hdr \in L
  BY <1>1
<1> QED
  BY <1>2 DEF Blocks, SameOwed

(* n bytes behind the header of a chunk of a good heap are free of every   *)
(* block the program holds, but for the one it may hold there.             *)
LEMMA RoomFor ==
  ASSUME Good(heap, live),
         NEW g, NEW M, Good(g, M), NEW c \in M, NEW n \in Nat, n <= g.hdr[c].size,
         AlignedHeaders(g.hdr),
         \A a \in live : a # c => a \in M /\ g.hdr[a].user_size = heap.hdr[a].user_size
  PROVE  AbstractHeap!Room(c + Hdr, n)
<1> DEFINE p == c + Hdr
<1>1. /\ c \in Chunks(g, M) /\ c \in Nat /\ Hdr \in Nat \ {0} /\ ArenaTop \in Nat
      /\ live \subseteq Nat
  <2>1. c \in Chunks(g, M)
    BY DEF Chunks
  <2>2. \A a \in live : a \in Nat
    BY GoodFacts
  <2> QED
    BY <2>1, <2>2, Positive, GoodApart
<1>2. /\ End(g, c) \in Nat /\ End(g, c) <= ArenaTop
      /\ End(g, c) = c + Hdr + g.hdr[c].size /\ g.hdr[c].size \in Nat
  BY <1>1, GoodApart
<1>3. p + n <= End(g, c) /\ p \in Nat /\ c < p
  BY <1>1, <1>2
<1>4. AbstractHeap!Bytes(p, n) \subseteq Addr
  <2> HIDE DEF p
  <2> QED
    BY <1>1, <1>2, <1>3 DEF AbstractHeap!Bytes, Addr
<1>5. ASSUME NEW q \in DOMAIN UserBlocks \ {p}
      PROVE  AbstractHeap!Bytes(p, n) \intersect AbstractHeap!Bytes(q, UserBlocks[q]) = {}
  <2>0. UserBlocks = Blocks(heap, live)
    BY DEF UserBlocks, Blocks
  <2>1. PICK a \in live : q = a + Hdr
    BY <1>5, <2>0 DEF Blocks
  <2>2. a # c
    BY <1>5, <2>1
  <2>3. UserBlocks[q] = heap.hdr[a].user_size
    BY <1>1, <2>0, <2>1, BlocksFacts, Zenon
  <2> DEFINE m == heap.hdr[a].user_size
  <2>4. a \in M /\ a \in Chunks(g, M) /\ g.hdr[a].user_size = m
    BY <2>2 DEF Chunks
  <2>5. m \in Nat /\ m <= g.hdr[a].size
    <3>1. g.hdr[a].user_size \in Nat /\ g.hdr[a].size \in Nat
      BY <2>4, GoodFacts
    <3>2. g.hdr[a].size >= g.hdr[a].user_size
      BY <2>4 DEF Good, Flagged
    <3> QED
      BY <2>4, <3>1, <3>2
  <2>6. /\ a \in Nat /\ End(g, a) \in Nat /\ g.hdr[a].size \in Nat
        /\ End(g, a) = a + Hdr + g.hdr[a].size
        /\ End(g, c) <= a \/ End(g, a) <= c
    BY <1>1, <2>2, <2>4, GoodApart
  <2> HIDE DEF m
  <2>7. q + m <= End(g, a) /\ q \in Nat /\ a < q
    BY <1>1, <2>1, <2>5, <2>6
  <2> HIDE DEF p
  <2>8. p + n <= q \/ q + m <= p
    BY <1>2, <1>3, <2>6, <2>7, <1>1, <2>5
  <2>9. AbstractHeap!Bytes(p, n) \intersect AbstractHeap!Bytes(q, m) = {}
    BY <1>3, <2>5, <2>7, <2>8 DEF AbstractHeap!Bytes
  <2> QED
    BY <2>3, <2>9 DEF m
<1> QED
  BY <1>4, <1>5, ChunkAligned DEF AbstractHeap!Room

-----------------------------------------------------------------------------
(* Each call is a step of the abstract heap.                               *)

LEMMA MallocAllocates ==
  ASSUME Good(heap, live), AlignedHeap, NEW n \in Nat, Malloc(n)
  PROVE  AbstractHeap!Allocate(n)
<1> DEFINE m == Wanted(n)
<1>1. PICK h \in Searched(heap, m) :
        /\ Fits(h, m) # {}
        /\ heap' = Taken(h, FirstFit(h, m), m, n)
        /\ live' = live \union {h.free[FirstFit(h, m)]}
  BY DEF Malloc
<1> DEFINE i == FirstFit(h, m)
           c == h.free[i]
           g == Taken(h, i, m, n)
<1>2. m \in Nat /\ i \in Fits(h, m)
  BY <1>1, WantedFacts, FirstFitFacts
<1>3. Good(h, live) /\ SameOwed(h, heap, live) /\ AlignedHeaders(h.hdr)
  <2> HIDE DEF m
  <2> QED BY <1>2, SearchedGood, SearchedOwed, SearchedAligned DEF AlignedHeap
<1>4. Good(g, live \union {c}) /\ AlignedHeaders(g.hdr)
  <2>1. Multiple(m)
    BY WantedMultiple
  <2> HIDE DEF i, m
  <2>2. AlignedHeaders(g.hdr)
    BY <1>2, <1>3, <2>1, TakenAligned
  <2> QED
    BY <1>2, <1>3, <2>2, TakenForCaller DEF m
<1>5. m >= n
  <2>1. c \in Chunks(h, live) /\ h.hdr[c].size >= m
    BY <1>2, <1>3, GoodFacts DEF Fits
  <2> HIDE DEF c, m
  <2>2. h.hdr[c].size <= ArenaTop
    BY <1>3, <2>1, GoodApart, Positive
  <2>3. m <= ArenaTop
    BY <1>2, <1>3, <2>1, <2>2, GoodApart, Positive
  <2> QED
    BY <2>3, WantedFacts DEF m
<1>6. SameOwed(g, h, live) /\ g.hdr[c].user_size = n /\ c \notin live
  <2> HIDE DEF i, m
  <2> QED BY <1>2, <1>3, <1>5, TakenOwed
<1>7. heap' = g /\ live' = live \union {c}
  BY <1>1
<1> HIDE DEF g, c, i, m
<1>8. SameOwed(g, heap, live)
  BY <1>3, <1>6 DEF SameOwed
<1>9. /\ c \in Nat /\ live \subseteq Nat /\ live \union {c} \subseteq Nat /\ Hdr \in Nat
      /\ c + Hdr \in Addr
  <2>1. \A a \in live \union {c} : a \in Nat
    BY <1>4, GoodFacts
  <2>2. c \in Chunks(g, live \union {c})
    BY DEF Chunks
  <2>3. c + Hdr <= End(g, c) /\ End(g, c) <= ArenaTop /\ End(g, c) \in Nat
    BY <1>4, <2>2, GoodApart
  <2> QED
    BY <2>1, <2>3, Positive DEF Addr
<1>10. UserBlocks' = AbstractHeap!With(c + Hdr, n)
  <2>1. UserBlocks' = Blocks(g, live \union {c}) /\ UserBlocks = Blocks(heap, live)
    BY <1>7 DEF UserBlocks, Blocks
  <2>2. /\ DOMAIN UserBlocks' = DOMAIN UserBlocks \union {c + Hdr}
        /\ UserBlocks'[c + Hdr] = n
    <3> DEFINE M == live \union {c}
    <3>1. DOMAIN Blocks(g, M) = {a + Hdr : a \in M}
      BY DEF Blocks
    <3>2. DOMAIN Blocks(heap, live) = {a + Hdr : a \in live}
      BY DEF Blocks
    <3>3. c \in M /\ M \subseteq Nat
      BY <1>9
    <3>4. Blocks(g, M)[c + Hdr] = n
      <4> HIDE DEF M
      <4> QED BY <1>6, <3>3, BlocksFacts, Zenon
    <3> QED
      BY <2>1, <3>1, <3>2, <3>4
  <2>3. ASSUME NEW q \in DOMAIN UserBlocks
        PROVE  q # c + Hdr /\ UserBlocks'[q] = UserBlocks[q]
    <3>1. PICK a \in live : q = a + Hdr
      BY <2>1 DEF Blocks
    <3>2. a # c /\ a \in Nat
      BY <1>6, <1>9
    <3>3. UserBlocks'[q] = g.hdr[a].user_size /\ UserBlocks[q] = heap.hdr[a].user_size
      <4> DEFINE M == live \union {c}
      <4>1. a \in M /\ M \subseteq Nat /\ live \subseteq Nat /\ UserBlocks' = Blocks(g, M)
        BY <1>9, <2>1
      <4> HIDE DEF M
      <4>2. Blocks(g, M)[a + Hdr] = g.hdr[a].user_size
        BY <4>1, BlocksFacts, Zenon
      <4>3. Blocks(heap, live)[a + Hdr] = heap.hdr[a].user_size
        BY <4>1, BlocksFacts, Zenon
      <4> QED
        BY <2>1, <3>1, <4>1, <4>2, <4>3
    <3> QED
      BY <1>8, <1>9, <3>1, <3>2, <3>3 DEF SameOwed
  <2>4. UserBlocks' = [q \in DOMAIN UserBlocks' |-> UserBlocks'[q]]
    BY DEF UserBlocks
  <2> QED
    BY <2>2, <2>3, <2>4 DEF AbstractHeap!With
<1>11. c + Hdr \notin DOMAIN UserBlocks
  <2>1. DOMAIN UserBlocks = {a + Hdr : a \in live}
    BY DEF UserBlocks
  <2>2. \A a \in live : a + Hdr # c + Hdr
    BY <1>6, <1>9
  <2> QED
    BY <2>1, <2>2
<1>12. AbstractHeap!Room(c + Hdr, n)
  <2>1. n <= g.hdr[c].size
    <3>1. g.hdr[c].size >= g.hdr[c].user_size
      BY <1>4 DEF Good, Flagged
    <3>2. g.hdr[c].size \in Nat
      BY <1>4, GoodFacts
    <3> QED
      BY <1>6, <3>1, <3>2
  <2> QED
    BY <1>4, <1>8, <2>1, RoomFor DEF SameOwed
<1> QED
  BY <1>9, <1>10, <1>11, <1>12 DEF AbstractHeap!Allocate

LEMMA MallocFailsStutters ==
  ASSUME Good(heap, live), NEW n \in Nat, MallocFails(n)
  PROVE  UserBlocks' = UserBlocks
<1> DEFINE m == Wanted(n)
<1>1. m \in Nat
  BY WantedFacts
<1>2. heap' \in Searched(heap, m) /\ live' = live
  BY DEF MallocFails
<1> HIDE DEF m
<1>3. SameOwed(heap', heap, live)
  BY <1>1, <1>2, SearchedOwed
<1>4. live \subseteq Nat
  BY GoodFacts
<1>5. Blocks(heap', live) = Blocks(heap, live)
  BY <1>3, <1>4, SameBlocks
<1>6. UserBlocks' = Blocks(heap', live) /\ UserBlocks = Blocks(heap, live)
  BY <1>2 DEF UserBlocks, Blocks
<1> QED
  BY <1>5, <1>6

LEMMA FreeReleases ==
  ASSUME Good(heap, live), NEW c \in live, Free(c)
  PROVE  AbstractHeap!Release(c + Hdr) /\ c + Hdr \in DOMAIN UserBlocks
<1> DEFINE M == live \ {c}
<1>1. heap' = Released(heap, c) /\ live' = M
  BY DEF Free
<1>2. SameOwed(heap', heap, M)
  BY <1>1, ReleasedOwed
<1>3. live \subseteq Nat
  BY GoodFacts
<1>4. Blocks(heap', M) = Blocks(heap, M)
  BY <1>2, <1>3, SameBlocks
<1>5. UserBlocks' = Blocks(heap', M)
  BY <1>1 DEF UserBlocks, Blocks
<1>6. Blocks(heap, M) = AbstractHeap!Without(c + Hdr)
  <2>1. {a + Hdr : a \in M} = {a + Hdr : a \in live} \ {c + Hdr}
    BY <1>3, Positive
  <2>2. DOMAIN UserBlocks = {a + Hdr : a \in live}
    BY DEF UserBlocks
  <2>3. \A q \in {a + Hdr : a \in M} : UserBlocks[q] = heap.hdr[q - Hdr].user_size
    BY <2>1 DEF UserBlocks
  <2> QED
    BY <2>1, <2>2, <2>3 DEF Blocks, AbstractHeap!Without
<1>7. c + Hdr \in DOMAIN UserBlocks
  BY DEF UserBlocks
<1> QED
  BY <1>4, <1>5, <1>6, <1>7 DEF AbstractHeap!Release

LEMMA ReallocResizes ==
  ASSUME Good(heap, live), AlignedHeap, NEW c \in live, NEW n \in Nat, ReallocInPlace(c, n)
  PROVE  AbstractHeap!Resize(c + Hdr, n) /\ c + Hdr \in DOMAIN UserBlocks
<1>1. /\ heap.hdr[c].size >= n
      /\ heap'.hdr = [heap.hdr EXCEPT ![c].user_size = n] /\ live' = live
  BY DEF ReallocInPlace
<1>2. /\ \A a \in live : a \in DOMAIN heap.hdr /\ a \in Nat
      /\ heap.hdr[c] \in Chunk /\ heap.hdr[c].size \in Nat
  BY GoodFacts
<1>3. c + Hdr \in DOMAIN UserBlocks
  BY DEF UserBlocks
<1>4. AbstractHeap!Room(c + Hdr, n)
  BY <1>1, <1>2, RoomFor DEF AlignedHeap
<1>5. /\ heap'.hdr[c].user_size = n
      /\ \A a \in live : a # c => heap'.hdr[a] = heap.hdr[a]
  <2>1. heap'.hdr[c] = [heap.hdr[c] EXCEPT !.user_size = n]
    BY <1>1, <1>2
  <2>2. \A a \in live : a # c => heap'.hdr[a] = heap.hdr[a]
    BY <1>1, <1>2
  <2>3. heap'.hdr[c].user_size = n
    BY <1>2, <2>1 DEF Chunk
  <2> QED
    BY <2>2, <2>3
<1>6. UserBlocks' = AbstractHeap!With(c + Hdr, n)
  <2>1. DOMAIN UserBlocks \union {c + Hdr} = {a + Hdr : a \in live}
    BY DEF UserBlocks
  <2>2. UserBlocks' = [q \in {a + Hdr : a \in live} |-> heap'.hdr[q - Hdr].user_size]
    BY <1>1 DEF UserBlocks
  <2>3. ASSUME NEW q \in {a + Hdr : a \in live}
        PROVE  heap'.hdr[q - Hdr].user_size = IF q = c + Hdr THEN n ELSE UserBlocks[q]
    <3>1. PICK a \in live : q = a + Hdr
      OBVIOUS
    <3>2. q - Hdr = a
      BY <1>2, <3>1, Positive
    <3>3. UserBlocks[q] = heap.hdr[q - Hdr].user_size
      BY DEF UserBlocks
    <3>4. CASE a = c
      BY <1>5, <3>1, <3>2, <3>4
    <3>5. CASE a # c
      <4>1. q # c + Hdr
        BY <1>2, <3>1, <3>5, Positive
      <4> QED
        BY <1>5, <3>2, <3>3, <3>5, <4>1
    <3> QED
      BY <3>4, <3>5
  <2> QED
    BY <2>1, <2>2, <2>3 DEF AbstractHeap!With
<1> QED
  BY <1>3, <1>4, <1>6 DEF AbstractHeap!Resize

LEMMA ReallocMovesBlock ==
  ASSUME Good(heap, live), AlignedHeap, NEW c \in live, NEW n \in Nat, ReallocMoves(c, n)
  PROVE  \/ AbstractHeap!Move(c + Hdr, n) /\ c + Hdr \in DOMAIN UserBlocks
         \/ UserBlocks' = UserBlocks
<1> DEFINE m == Wanted(n)
<1>1. PICK h \in Searched(heap, m) :
        IF Fits(h, m) # {}
        THEN /\ heap' = Released(Taken(h, FirstFit(h, m), m, n), c)
             /\ live' = (live \union {h.free[FirstFit(h, m)]}) \ {c}
        ELSE heap' = h /\ UNCHANGED live
  BY DEF ReallocMoves
<1>2. m \in Nat
  BY WantedFacts
<1>3. /\ Good(h, live) /\ SameOwed(h, heap, live) /\ live \subseteq Nat
      /\ AlignedHeaders(h.hdr)
  <2> HIDE DEF m
  <2> QED BY <1>2, SearchedGood, SearchedOwed, SearchedAligned, GoodFacts DEF AlignedHeap
<1>4. CASE Fits(h, m) = {}
  <2>1. heap' = h /\ live' = live
    BY <1>1, <1>4
  <2>2. Blocks(h, live) = Blocks(heap, live)
    BY <1>3, SameBlocks
  <2>3. UserBlocks' = Blocks(h, live) /\ UserBlocks = Blocks(heap, live)
    BY <2>1 DEF UserBlocks, Blocks
  <2> QED
    BY <2>2, <2>3
<1>5. CASE Fits(h, m) # {}
  <2> DEFINE i == FirstFit(h, m)
             d == h.free[i]
             g == Taken(h, i, m, n)
             L == live \union {d}
             M == L \ {c}
  <2>1. i \in Fits(h, m) /\ heap' = Released(g, c) /\ live' = M
    BY <1>1, <1>5, FirstFitFacts
  <2>2. Good(g, L) /\ AlignedHeaders(g.hdr)
    <3>1. Multiple(m)
      BY WantedMultiple
    <3> HIDE DEF i, m
    <3>2. AlignedHeaders(g.hdr)
      BY <1>2, <1>3, <2>1, <3>1, TakenAligned
    <3> QED
      BY <1>3, <2>1, <3>2, TakenForCaller DEF m
  <2>3. m >= n
    <3>1. d \in Chunks(h, live) /\ h.hdr[d].size >= m
      BY <1>3, <2>1, GoodFacts DEF Fits
    <3> HIDE DEF d, m
    <3>2. h.hdr[d].size <= ArenaTop
      BY <1>3, <3>1, GoodApart, Positive
    <3>3. m <= ArenaTop
      BY <1>2, <1>3, <3>1, <3>2, GoodApart, Positive
    <3> QED
      BY <3>3, WantedFacts DEF m
  <2>4. SameOwed(g, h, live) /\ g.hdr[d].user_size = n /\ d \notin live
    <3> HIDE DEF i, m
    <3> QED BY <1>2, <1>3, <2>1, <2>3, TakenOwed
  <2> HIDE DEF g, d, i, m
  <2>5. SameOwed(heap', g, M)
    BY <2>1, <2>2, ReleasedOwed
  <2>6. /\ d \in Nat /\ L \subseteq Nat /\ Hdr \in Nat /\ d # c /\ d + Hdr \in Addr
    <3>1. \A a \in L : a \in Nat
      BY <2>2, GoodFacts
    <3>2. d \in Chunks(g, L)
      BY DEF Chunks
    <3>3. d + Hdr <= End(g, d) /\ End(g, d) <= ArenaTop /\ End(g, d) \in Nat
      BY <2>2, <3>2, GoodApart
    <3> QED
      BY <2>4, <3>1, <3>3, Positive DEF Addr
  <2>7. d + Hdr \notin DOMAIN UserBlocks /\ c + Hdr \in DOMAIN UserBlocks
    <3>1. \A a \in live : a + Hdr # d + Hdr
      BY <1>3, <2>4, <2>6
    <3> QED
      BY <3>1 DEF UserBlocks
  <2>8. SameOwed(g, heap, live)
    BY <1>3, <2>4 DEF SameOwed
  <2>9. AbstractHeap!Room(d + Hdr, n)
    <3>1. n <= g.hdr[d].size
      <4>1. g.hdr[d].size >= g.hdr[d].user_size
        BY <2>2 DEF Good, Flagged
      <4>2. g.hdr[d].size \in Nat
        BY <2>2, GoodFacts
      <4> QED
        BY <2>4, <4>1, <4>2
    <3> QED
      BY <2>2, <2>8, <3>1, RoomFor DEF SameOwed
  <2>10. UserBlocks' = [q \in (DOMAIN UserBlocks \ {c + Hdr}) \union {d + Hdr} |->
                          IF q = d + Hdr THEN n ELSE UserBlocks[q]]
    <3>1. UserBlocks' = [q \in {a + Hdr : a \in M} |-> heap'.hdr[q - Hdr].user_size]
      BY <2>1 DEF UserBlocks
    <3>2. (DOMAIN UserBlocks \ {c + Hdr}) \union {d + Hdr} = {a + Hdr : a \in M}
      <4>1. DOMAIN UserBlocks = {a + Hdr : a \in live}
        BY DEF UserBlocks
      <4>2. \A a \in live : a + Hdr = c + Hdr => a = c
        BY <1>3, <2>6
      <4> QED
        BY <2>6, <4>1, <4>2
    <3>3. ASSUME NEW q \in {a + Hdr : a \in M}
          PROVE  heap'.hdr[q - Hdr].user_size = IF q = d + Hdr THEN n ELSE UserBlocks[q]
      <4>1. PICK a \in M : q = a + Hdr
        OBVIOUS
      <4>2. q - Hdr = a /\ a \in Nat
        BY <2>6, <4>1
      <4>3. heap'.hdr[a].user_size = g.hdr[a].user_size
        BY <2>5 DEF SameOwed
      <4>4. CASE a = d
        BY <2>4, <4>1, <4>2, <4>3, <4>4
      <4>5. CASE a # d
        <5>1. q # d + Hdr
          BY <2>6, <4>1, <4>2, <4>5
        <5>2. a \in live
          BY <4>5
        <5>3. UserBlocks[q] = heap.hdr[q - Hdr].user_size
          BY <4>1, <5>2 DEF UserBlocks
        <5>4. g.hdr[a].user_size = heap.hdr[a].user_size
          BY <2>8, <5>2 DEF SameOwed
        <5> QED
          BY <4>2, <4>3, <5>1, <5>3, <5>4
      <4> QED
        BY <4>4, <4>5
    <3> QED
      BY <3>1, <3>2, <3>3
  <2> QED
    BY <2>6, <2>7, <2>9, <2>10 DEF AbstractHeap!Move
<1> QED
  BY <1>4, <1>5

(* calloc's test rules out exactly the products that would wrap.           *)
LEMMA CallocProduct ==
  ASSUME NEW n \in Nat, NEW m \in Nat, ~ (m # 0 /\ n > (Word - 1) \div m)
  PROVE  (n * m) % Word = n * m
<1> DEFINE q == (Word - 1) \div m
<1>1. Word \in Nat /\ Word > 0
  BY SizesAssumption
<1>2. CASE m = 0
  BY <1>1, <1>2
<1>3. CASE m # 0
  <2>1. q \in Nat /\ q * m <= Word - 1
    BY <1>1, <1>3
  <2>2. n <= q
    BY <1>3, <2>1
  <2> HIDE DEF q
  <2>3. n * m <= q * m /\ n * m \in Nat /\ q * m \in Nat
    BY <2>1, <2>2
  <2> DEFINE x == n * m
             y == q * m
  <2>4. x \in Nat /\ y \in Nat /\ x <= y /\ y <= Word - 1
    BY <2>1, <2>3
  <2> HIDE DEF x, y
  <2>5. x % Word = x
    BY <1>1, <2>4
  <2> QED
    BY <2>5 DEF x
<1> QED
  BY <1>2, <1>3

LEMMA StepRefines ==
  ASSUME Good(heap, live), AlignedHeap, [Next]_vars
  PROVE  [AbstractHeap!Next]_UserBlocks
<1>0. \A n \in Requests : n \in Nat /\ n \in Asked
  BY SizesAssumption DEF Asked
<1>1. ASSUME NEW n \in Nat, n \in Asked, Malloc(n) \/ MallocFails(n)
      PROVE  [AbstractHeap!Next]_UserBlocks
  BY <1>1, MallocAllocates, MallocFailsStutters DEF AbstractHeap!Next
<1>2. ASSUME NEW n \in Requests, NEW m \in Requests, Calloc(n, m)
      PROVE  [AbstractHeap!Next]_UserBlocks
  <2>1. CASE UNCHANGED vars
    BY <2>1 DEF vars, UserBlocks
  <2>2. CASE ~ (m # 0 /\ n > (Word - 1) \div m)
    <3>1. (n * m) % Word = n * m /\ n * m \in Nat /\ n * m \in Asked
      BY <1>0, <2>2, CallocProduct DEF Asked
    <3>2. Malloc((n * m) % Word) \/ MallocFails((n * m) % Word)
      BY <1>2, <2>2 DEF Calloc
    <3> DEFINE x == n * m
    <3>3. x \in Nat /\ x \in Asked /\ (Malloc(x) \/ MallocFails(x))
      BY <3>1, <3>2
    <3> HIDE DEF x
    <3> QED
      BY <1>1, <3>3
  <2> QED
    BY <1>2, <2>1, <2>2 DEF Calloc
<1>3. ASSUME NEW c \in live, Free(c)
      PROVE  [AbstractHeap!Next]_UserBlocks
  BY <1>3, FreeReleases DEF AbstractHeap!Next
<1>4. ASSUME NEW c \in live, NEW n \in Requests, ReallocInPlace(c, n)
      PROVE  [AbstractHeap!Next]_UserBlocks
  BY <1>0, <1>4, ReallocResizes DEF AbstractHeap!Next
<1>5. ASSUME NEW c \in live, NEW n \in Requests, ReallocMoves(c, n)
      PROVE  [AbstractHeap!Next]_UserBlocks
  BY <1>0, <1>5, ReallocMovesBlock DEF AbstractHeap!Next
<1>6. CASE UNCHANGED vars
  BY <1>6 DEF vars, UserBlocks
<1> QED
  BY <1>0, <1>1, <1>2, <1>3, <1>4, <1>5, <1>6 DEF Next

-----------------------------------------------------------------------------
(* For every arena, header size, alignment and set of requests, each call  *)
(* adds, removes, resizes or moves one block of the abstract heap, into    *)
(* aligned bytes no other block has, or leaves the blocks as they are.     *)
THEOREM HeapRefinement == Spec => KeepsItsPromise
<1>1. Init => AbstractHeap!Init
  BY DEF Init, AbstractHeap!Init, UserBlocks
<1>2. Good(heap, live) /\ AlignedHeap /\ [Next]_vars => [AbstractHeap!Next]_UserBlocks
  BY StepRefines
<1> QED
  BY <1>1, <1>2, HeapGood, HeadersAligned, PTL DEF Spec, KeepsItsPromise, AbstractHeap!Spec
=============================================================================
