----------------------------- MODULE StreamsProofs -----------------------------
(***************************************************************************)
(* The streams of runtime/stdio.c cannot be told from files that get each  *)
(* byte at once, for any number of streams, files and descriptors and any  *)
(* size of the buffers and of the table.                                   *)
(*                                                                         *)
(* The argument: a flush, whether it succeeds, stops half-way or fails,    *)
(* leaves what the files and streams are without the buffers as it was,    *)
(* but for a file it damages (Follows).  Every call is such flushes and    *)
(* one change of its own, which the abstract call makes too.               *)
(***************************************************************************)
EXTENDS Streams, FiniteSetTheorems, SequenceTheorems, WellFoundedInduction, TLAPS

-----------------------------------------------------------------------------
(* The least of a set of numbers.                                          *)

Less == {ss \in Nat \X Nat : ss[1] < ss[2]}

LEMMA LessWellFounded == IsWellFoundedOn(Less, Nat)
<1>1. OpToRel(<, Nat) = Less
  BY Zenon DEF OpToRel, Less
<1> QED BY <1>1, NatLessThanWellFounded, Zenon

LEMMA HasLeast ==
  ASSUME NEW S, S \subseteq Nat, S # {}
  PROVE  \E g \in S : \A h \in S : g <= h
<1>1. \A x, y \in Nat : x < y => <<x, y>> \in Less
  BY DEF Less
<1>2. PICK g \in S : \A h \in S : ~(<<h, g>> \in Less)
  BY LessWellFounded, WFMin, Zenon
<1>3. \A h \in S : ~(h < g)
  BY <1>1, <1>2
<1>4. \A h \in S : g <= h
  BY <1>3
<1> QED BY <1>2, <1>4

LEMMA MinFacts ==
  ASSUME NEW S, S \subseteq Nat, S # {}
  PROVE  Min(S) \in S /\ \A h \in S : Min(S) <= h
<1>1. \E g \in S : \A h \in S : g =< h
  BY HasLeast
<1> QED BY <1>1, Zenon DEF Min

LEMMA MinOfTwo ==
  ASSUME NEW a \in Nat, NEW b \in Nat
  PROVE  Min({a, b}) = IF a <= b THEN a ELSE b
<1>1. Min({a, b}) \in {a, b} /\ \A h \in {a, b} : Min({a, b}) <= h
  BY MinFacts
<1> QED BY <1>1

-----------------------------------------------------------------------------
(* Bytes written over others.                                              *)

LEMMA OverwriteFacts ==
  ASSUME NEW c \in Content, NEW at \in Nat, NEW bs \in Seq(Bytes)
  PROVE  /\ Overwrite(c, at, bs) \in Content
         /\ bs = <<>> => Overwrite(c, at, bs) = c
         /\ bs # <<>> =>
              Len(Overwrite(c, at, bs)) = IF at + Len(bs) > Len(c) THEN at + Len(bs) ELSE Len(c)
<1> DEFINE n == IF at + Len(bs) > Len(c) THEN at + Len(bs) ELSE Len(c)
           v(i) == IF i \in at + 1 .. at + Len(bs) THEN bs[i - at]
                   ELSE IF i <= Len(c) THEN c[i] ELSE Zero
<1>1. Len(c) \in Nat /\ Len(bs) \in Nat /\ n \in Nat /\ DOMAIN c = 1 .. Len(c)
  BY DEF Content
<1>2. \A i \in 1 .. n : v(i) \in Bytes
  <2> TAKE i \in 1 .. n
  <2>1. CASE i \in at + 1 .. at + Len(bs)
    <3>1. i - at \in 1 .. Len(bs)
      BY <2>1, <1>1
    <3> QED BY <2>1, <3>1, ElementOfSeq
  <2>2. CASE i \notin at + 1 .. at + Len(bs) /\ i <= Len(c)
    BY <2>2, <1>1, ElementOfSeq DEF Content
  <2>3. CASE i \notin at + 1 .. at + Len(bs) /\ ~(i <= Len(c))
    BY <2>3, StreamsAssumption
  <2> QED BY <2>1, <2>2, <2>3
<1>3. [i \in 1 .. n |-> v(i)] \in Seq(Bytes) /\ Len([i \in 1 .. n |-> v(i)]) = n
  <2> HIDE DEF n, v
  <2>1. [i \in 1 .. n |-> v(i)] \in [1 .. n -> Bytes]
    BY <1>2
  <2> QED BY <2>1, <1>1, IsASeq, LenProperties
<1>4. bs # <<>> => Overwrite(c, at, bs) = [i \in 1 .. n |-> v(i)]
  BY DEF Overwrite
<1>5. bs = <<>> => Overwrite(c, at, bs) = c
  BY DEF Overwrite
<1> HIDE DEF v
<1> QED BY <1>3, <1>4, <1>5 DEF Content

(* A byte written after others is written with them.                       *)
LEMMA OverwriteMore ==
  ASSUME NEW c \in Content, NEW at \in Nat, NEW bs \in Seq(Bytes), NEW b \in Bytes
  PROVE  Overwrite(Overwrite(c, at, bs), at + Len(bs), <<b>>) = Overwrite(c, at, Append(bs, b))
<1> DEFINE d  == Overwrite(c, at, bs)
           at2 == at + Len(bs)
           all == Append(bs, b)
           n  == IF at2 + 1 > Len(d) THEN at2 + 1 ELSE Len(d)
           k  == IF at + Len(all) > Len(c) THEN at + Len(all) ELSE Len(c)
           v(i) == IF i \in at2 + 1 .. at2 + 1 THEN b ELSE IF i <= Len(d) THEN d[i] ELSE Zero
           w(i) == IF i \in at + 1 .. at + Len(all) THEN all[i - at]
                   ELSE IF i <= Len(c) THEN c[i] ELSE Zero
<1>1. Len(bs) \in Nat /\ Len(c) \in Nat /\ Len(all) = Len(bs) + 1 /\ all[Len(bs) + 1] = b
      /\ \A i \in 1 .. Len(bs) : all[i] = bs[i]
  BY AppendProperties DEF Content
<1>2. d \in Content /\ Len(d) \in Nat
  BY OverwriteFacts DEF Content
<1>3. Len(<<b>>) = 1 /\ <<b>>[1] = b /\ <<b>> # <<>>
  OBVIOUS
<1>4. Overwrite(d, at2, <<b>>) = [i \in 1 .. n |-> v(i)]
  <2> HIDE DEF d
  <2>1. at2 \in Nat
    BY <1>1
  <2> HIDE DEF at2
  <2>2. \A i \in at2 + 1 .. at2 + 1 : <<b>>[i - at2] = b
    BY <2>1
  <2> QED BY <2>2, <1>3 DEF Overwrite
<1>5. Overwrite(c, at, all) = [i \in 1 .. k |-> w(i)]
  <2>1. all # <<>>
    BY <1>1
  <2> QED BY <2>1 DEF Overwrite
<1>6. CASE bs = <<>>
  <2>1. d = c /\ Len(bs) = 0
    BY <1>6 DEF Overwrite
  <2>2. at2 = at /\ n = k
    <3> HIDE DEF all
    <3> QED BY <2>1, <1>1, <1>6
  <2>3. \A i \in 1 .. n : v(i) = w(i)
    <3> TAKE i \in 1 .. n
    <3> HIDE DEF d, n, all
    <3>1. d[i] = c[i] /\ Len(d) = Len(c) /\ n \in Nat
      BY <2>1, <2>2, <1>1
    <3>2. CASE i = at + 1
      BY <3>2, <2>1, <2>2, <1>1
    <3>3. CASE i # at + 1
      BY <3>1, <3>3, <2>1, <2>2, <1>1
    <3> QED BY <3>2, <3>3
  <2> HIDE DEF v, w, n, k
  <2> QED BY <2>2, <2>3, <1>4, <1>5
<1>7. CASE bs # <<>>
  <2> DEFINE l == IF at + Len(bs) > Len(c) THEN at + Len(bs) ELSE Len(c)
  <2>1. /\ Len(d) = l
        /\ d = [i \in 1 .. l |-> IF i \in at + 1 .. at + Len(bs) THEN bs[i - at]
                                 ELSE IF i <= Len(c) THEN c[i] ELSE Zero]
    BY <1>7, OverwriteFacts DEF Overwrite
  <2>2. n = k
    <3> HIDE DEF all
    <3> QED BY <2>1, <1>1
  <2>3. \A i \in 1 .. n : v(i) = w(i)
    <3> HIDE DEF d, all, n
    <3>1. n = (IF at + Len(bs) + 1 > Len(c) THEN at + Len(bs) + 1 ELSE Len(c))
      BY <2>2, <1>1
    <3> TAKE i \in 1 .. n
    <3>2. CASE i = at + Len(bs) + 1
      <4>1. i \in at + 1 .. at + Len(all) /\ i - at = Len(bs) + 1 /\ i \in at2 + 1 .. at2 + 1
        BY <3>2, <1>1
      <4> QED BY <4>1, <1>1
    <3>3. CASE i \in at + 1 .. at + Len(bs)
      <4>1. i - at \in 1 .. Len(bs) /\ i \in 1 .. l
        BY <3>3, <1>1
      <4>2. w(i) = bs[i - at]
        BY <4>1, <3>3, <1>1
      <4>3. v(i) = d[i]
        BY <3>3, <4>1, <2>1, <1>1
      <4> QED BY <4>1, <4>2, <4>3, <2>1, <3>3
    <3>4. CASE i \notin at + 1 .. at + Len(bs) + 1
      <4>1. w(i) = IF i <= Len(c) THEN c[i] ELSE Zero
        BY <3>4, <1>1
      <4>2. v(i) = IF i <= l THEN d[i] ELSE Zero
        BY <3>4, <2>1, <1>1
      <4>3. i <= Len(c) => i <= l
        BY <3>1, <3>4, <1>1
      <4>4. i <= l => d[i] = IF i <= Len(c) THEN c[i] ELSE Zero
        BY <2>1, <3>4, <1>1
      <4> HIDE DEF v, w, l
      <4> QED BY <4>1, <4>2, <4>3, <4>4
    <3> QED BY <3>2, <3>3, <3>4, <1>1, <3>1
  <2> HIDE DEF v, w, n, k
  <2> QED BY <2>2, <2>3, <1>4, <1>5
<1> QED BY <1>6, <1>7

-----------------------------------------------------------------------------
(* The states a call works on.                                             *)

Whole(m) == m = [file |-> m.file, kernel |-> m.kernel, damaged |-> m.damaged, err |-> m.err]

Typed(m) ==
  /\ Whole(m)
  /\ Standard \subseteq DOMAIN m.file /\ DOMAIN m.file \subseteq Standard \union Files
  /\ m.file \in [DOMAIN m.file -> FileObjects]
  /\ \A s \in DOMAIN m.file :
       Len(m.file[s].buf) <= BufCap /\ Len(m.file[s].ungot) <= UngetCap
  /\ m.kernel = [fds |-> m.kernel.fds, data |-> m.kernel.data]
  /\ m.kernel.fds \in [DOMAIN m.kernel.fds -> Descriptors] /\ DOMAIN m.kernel.fds \subseteq Fds
  /\ m.kernel.data \in [Paths -> Content]
  /\ m.damaged \subseteq Paths /\ m.err \in BOOLEAN

(* The streams of open have descriptors and files of their own.            *)
Separate(m, open) ==
  /\ open \subseteq DOMAIN m.file
  /\ \A s \in open :
       IsOpen(m.kernel, m.file[s].fd) /\ Descriptor(m, s).mode.write = m.file[s].writable
  /\ \A s, t \in open :
       m.file[s].fd = m.file[t].fd \/ Descriptor(m, s).path = Descriptor(m, t).path => s = t

Inv == TypeOK /\ StreamsApart

LEMMA InvFacts ==
  ASSUME Inv
  PROVE  /\ Typed(Now) /\ Separate(Now, Open) /\ Now.err = FALSE
         /\ Now = [file |-> file, kernel |-> kernel, damaged |-> damaged, err |-> FALSE]
BY DEF Inv, TypeOK, StreamsApart, DescriptorsDistinct, Typed, Whole, Separate, Now, Open, PathOf

LEMMA DescriptorFacts ==
  ASSUME NEW m, Typed(m), NEW s \in DOMAIN m.file, IsOpen(m.kernel, m.file[s].fd)
  PROVE  /\ Descriptor(m, s) = m.kernel.fds[m.file[s].fd]
         /\ Descriptor(m, s) \in Descriptors
         /\ Descriptor(m, s).path \in Paths /\ Descriptor(m, s).pos \in Nat
         /\ Descriptor(m, s).mode \in Modes
         /\ m.kernel.data[Descriptor(m, s).path] \in Content
         /\ WritePos(m.kernel, Descriptor(m, s)) \in Nat
<1>1. Descriptor(m, s) \in Descriptors
  BY DEF Typed, IsOpen, Descriptor
<1>2. Descriptor(m, s).path \in Paths /\ Descriptor(m, s).pos \in Nat
      /\ Descriptor(m, s).mode \in Modes
  BY <1>1 DEF Descriptors
<1>3. m.kernel.data[Descriptor(m, s).path] \in Content
  BY <1>2 DEF Typed
<1>4. Descriptor(m, s) = m.kernel.fds[m.file[s].fd]
  BY DEF Descriptor
<1>5. Len(m.kernel.data[Descriptor(m, s).path]) \in Nat
  BY <1>3 DEF Content
<1> QED BY <1>1, <1>2, <1>3, <1>4, <1>5 DEF WritePos

LEMMA FileFacts ==
  ASSUME NEW m, Typed(m), NEW s \in DOMAIN m.file
  PROVE  /\ m.file[s] = [fd |-> m.file[s].fd, writable |-> m.file[s].writable,
                         buf |-> m.file[s].buf, ungot |-> m.file[s].ungot]
         /\ m.file[s].fd \in Fds /\ m.file[s].writable \in BOOLEAN
         /\ m.file[s].buf \in Seq(Bytes) /\ m.file[s].ungot \in Seq(Bytes)
         /\ Pending(m, s) \in Seq(Bytes) /\ Len(Pending(m, s)) <= BufCap
<1>1. m.file[s] \in FileObjects
  BY DEF Typed
<1>2. Len(m.file[s].buf) <= BufCap
  BY DEF Typed
<1> QED BY <1>1, <1>2, StreamsAssumption DEF FileObjects, Pending

(* What a flush does: nothing, or it fails with nothing written, or j      *)
(* bytes pass.                                                             *)
Idle(m, s, r) == Pending(m, s) = <<>> /\ r = m

Refused(m, s, r) ==
  /\ Pending(m, s) # <<>>
  /\ Whole(r) /\ r.err = TRUE
  /\ r.file = m.file /\ r.kernel = m.kernel /\ r.damaged = m.damaged

Passed(m, s, r, j) ==
  LET d   == Descriptor(m, s)
      buf == Pending(m, s)
      at  == WritePos(m.kernel, d)
  IN /\ buf # <<>> /\ IsOpen(m.kernel, m.file[s].fd) /\ d.mode.write
     /\ j \in 1 .. Len(buf)
     /\ Whole(r) /\ r.err \in BOOLEAN /\ (r.err <=> m.err \/ j < Len(buf))
     /\ r.file = IF j = Len(buf) THEN [m.file EXCEPT ![s].buf = <<>>] ELSE m.file
     /\ r.kernel = [fds  |-> [m.kernel.fds EXCEPT ![m.file[s].fd].pos = at + j],
                    data |-> [m.kernel.data EXCEPT
                                ![d.path] = Overwrite(@, at, SubSeq(buf, 1, j))]]
     /\ r.damaged = IF j < Len(buf) \/ s \in closed THEN m.damaged \union {d.path}
                    ELSE m.damaged

LEMMA Fields ==
  ASSUME NEW r, NEW f, NEW k, NEW d, NEW e,
         r = [file |-> f, kernel |-> k, damaged |-> d, err |-> e]
  PROVE  Whole(r) /\ r.file = f /\ r.kernel = k /\ r.damaged = d /\ r.err = e
BY DEF Whole

LEMMA FlushCases ==
  ASSUME NEW m, Typed(m), NEW s \in DOMAIN m.file, NEW r \in Flushed(m, s)
  PROVE  Idle(m, s, r) \/ Refused(m, s, r) \/ \E j \in Nat : Passed(m, s, r, j)
<1> DEFINE buf == Pending(m, s)
           d   == Descriptor(m, s)
<1>1. PICK j \in Passes(m, s) : r = Flush(m, s, j)
  BY DEF Flushed
<1>2. buf \in Seq(Bytes) /\ Len(buf) \in Nat
  <2>1. buf \in Seq(Bytes)
    BY FileFacts
  <2> QED BY <2>1, LenProperties
<1>3. CASE buf = <<>>
  BY <1>1, <1>3 DEF Idle, Flush
<1>4. ASSUME buf # <<>>
      PROVE  /\ Whole(r) /\ r.err = (m.err \/ j < Len(buf))
             /\ r.file = IF j = Len(buf) THEN [m.file EXCEPT ![s].buf = <<>>] ELSE m.file
             /\ r.kernel = SysWrite(m.kernel, m.file[s].fd, SubSeq(buf, 1, j))
             /\ r.damaged = IF j > 0 /\ (j < Len(buf) \/ s \in closed)
                            THEN m.damaged \union {d.path} ELSE m.damaged
  <2> DEFINE f == IF j = Len(buf) THEN [m.file EXCEPT ![s].buf = <<>>] ELSE m.file
             k == SysWrite(m.kernel, m.file[s].fd, SubSeq(buf, 1, j))
             g == IF j > 0 /\ (j < Len(buf) \/ s \in closed)
                  THEN m.damaged \union {d.path} ELSE m.damaged
             e == m.err \/ j < Len(buf)
  <2>1. r = [file |-> f, kernel |-> k, damaged |-> g, err |-> e]
    BY <1>1, <1>4, Zenon DEF Flush
  <2> HIDE DEF f, k, g, e
  <2>2. Whole(r) /\ r.file = f /\ r.kernel = k /\ r.damaged = g /\ r.err = e
    BY <2>1, Fields, Zenon
  <2> QED BY <2>2, Zenon DEF f, k, g, e
<1>5. CASE buf # <<>> /\ j = 0
  <2>1. 0 < Len(buf)
    BY <1>2, <1>5, EmptySeq
  <2>2. SubSeq(buf, 1, j) = <<>> /\ ~(j = Len(buf)) /\ j < Len(buf) /\ ~(j > 0)
    BY <2>1, <1>2, <1>5, SubSeqEmpty
  <2>3. SysWrite(m.kernel, m.file[s].fd, SubSeq(buf, 1, j)) = m.kernel
    BY <2>2 DEF SysWrite
  <2>4. Refused(m, s, r)
    BY <1>4, <1>5, <2>2, <2>3, Zenon DEF Refused
  <2> QED BY <2>4
<1>6. CASE buf # <<>> /\ j # 0
  <2>1. j \in 1 .. Len(buf) /\ IsOpen(m.kernel, m.file[s].fd) /\ d.mode.write
    BY <1>1, <1>6, <1>2 DEF Passes
  <2>2. SubSeq(buf, 1, j) # <<>> /\ Len(SubSeq(buf, 1, j)) = j
    BY <2>1, <1>2, SubSeqProperties
  <2>3. SysWrite(m.kernel, m.file[s].fd, SubSeq(buf, 1, j))
        = [fds  |-> [m.kernel.fds EXCEPT ![m.file[s].fd].pos = WritePos(m.kernel, d) + j],
           data |-> [m.kernel.data EXCEPT
                       ![d.path] = Overwrite(@, WritePos(m.kernel, d), SubSeq(buf, 1, j))]]
    BY <2>2 DEF SysWrite, Descriptor
  <2>4. j \in Nat /\ j > 0
    BY <2>1, <1>2
  <2>5. m.err \in BOOLEAN
    BY DEF Typed
  <2>6. r.err \in BOOLEAN /\ (r.err <=> m.err \/ j < Len(buf))
    BY <1>4, <1>6, Zenon
  <2>7. r.damaged = IF j < Len(buf) \/ s \in closed THEN m.damaged \union {d.path}
                    ELSE m.damaged
    BY <1>4, <1>6, <2>4, Zenon
  <2>8. Passed(m, s, r, j)
    BY <1>4, <1>6, <2>1, <2>3, <2>6, <2>7, Zenon DEF Passed
  <2> QED BY <2>8, <2>4
<1> QED BY <1>3, <1>5, <1>6

-----------------------------------------------------------------------------
(* A file read with what is buffered for it.                               *)

LEMMA HeldContent ==
  ASSUME NEW m, NEW open, Separate(m, open), NEW s \in open
  PROVE  ContentIn(m, open, Descriptor(m, s).path)
         = Overwrite(m.kernel.data[Descriptor(m, s).path],
                     WritePos(m.kernel, Descriptor(m, s)), Pending(m, s))
<1> DEFINE H == Holders(m, open, Descriptor(m, s).path)
<1>1. H = {s}
  BY Zenon DEF Separate, Holders
<1>2. (CHOOSE t \in H : TRUE) = s
  BY <1>1
<1> HIDE DEF H
<1>3. H # {}
  BY <1>1
<1> QED BY <1>2, <1>3, Zenon DEF ContentIn, H

LEMMA UnheldContent ==
  ASSUME NEW m, NEW open, NEW p, \A s \in open : Descriptor(m, s).path # p
  PROVE  ContentIn(m, open, p) = m.kernel.data[p]
BY DEF ContentIn, Holders

(* The content of p is the same when its data are, and the stream that     *)
(* holds it is in the same place with the same bytes waiting.              *)
Undisturbed(m, o, r, q, p) ==
  /\ r.kernel.data[p] = m.kernel.data[p]
  /\ \A t \in o : Descriptor(m, t).path = p =>
       /\ t \in q /\ Descriptor(r, t).path = p
       /\ WritePos(r.kernel, Descriptor(r, t)) = WritePos(m.kernel, Descriptor(m, t))
       /\ Pending(r, t) = Pending(m, t)
  /\ \A t \in q : Descriptor(r, t).path = p => t \in o /\ Descriptor(m, t).path = p

LEMMA SameContent ==
  ASSUME NEW m, NEW o, Separate(m, o), NEW r, NEW q, Separate(r, q), NEW p,
         Undisturbed(m, o, r, q, p)
  PROVE  ContentIn(r, q, p) = ContentIn(m, o, p)
<1>1. CASE \A t \in o : Descriptor(m, t).path # p
  <2>1. \A t \in q : Descriptor(r, t).path # p
    BY <1>1 DEF Undisturbed
  <2>2. r.kernel.data[p] = m.kernel.data[p]
    BY DEF Undisturbed
  <2> QED BY <1>1, <2>1, <2>2, UnheldContent
<1>2. ASSUME NEW t \in o, Descriptor(m, t).path = p
      PROVE  ContentIn(r, q, p) = ContentIn(m, o, p)
  <2>1. /\ t \in q /\ Descriptor(r, t).path = p /\ r.kernel.data[p] = m.kernel.data[p]
        /\ WritePos(r.kernel, Descriptor(r, t)) = WritePos(m.kernel, Descriptor(m, t))
        /\ Pending(r, t) = Pending(m, t)
    BY <1>2 DEF Undisturbed
  <2>2. ContentIn(m, o, p)
        = Overwrite(m.kernel.data[p], WritePos(m.kernel, Descriptor(m, t)), Pending(m, t))
    BY <1>2, HeldContent, Zenon
  <2>3. ContentIn(r, q, p)
        = Overwrite(r.kernel.data[p], WritePos(r.kernel, Descriptor(r, t)), Pending(r, t))
    BY <2>1, HeldContent, Zenon
  <2> QED BY <2>1, <2>2, <2>3, Zenon
<1> QED BY <1>1, <1>2, Zenon

-----------------------------------------------------------------------------
(* r comes after m, with nothing changed but which bytes are still to be   *)
(* written, and files damaged by an error or by a closed stream's bytes.   *)

Follows(m, r) ==
  /\ DOMAIN r.file = DOMAIN m.file
  /\ \A t \in DOMAIN m.file :
       /\ r.file[t].fd = m.file[t].fd /\ r.file[t].writable = m.file[t].writable
       /\ r.file[t].ungot = m.file[t].ungot
       /\ r.file[t].buf \in {m.file[t].buf, <<>>}
  /\ DOMAIN r.kernel.fds = DOMAIN m.kernel.fds
  /\ \A fd \in DOMAIN m.kernel.fds :
       /\ r.kernel.fds[fd].path = m.kernel.fds[fd].path
       /\ r.kernel.fds[fd].mode = m.kernel.fds[fd].mode
  /\ m.damaged \subseteq r.damaged /\ (m.err => r.err)
  /\ r.damaged # m.damaged => r.err \/ StrayIn(m)
  /\ \A p \in Paths \ r.damaged : ContentIn(r, Open, p) = ContentIn(m, Open, p)
  /\ \A t \in Open :
       Descriptor(m, t).path \notin r.damaged => PositionIn(r, t) = PositionIn(m, t)

Good(m) == Typed(m) /\ Separate(m, Open) /\ DOMAIN m.file = DOMAIN file

LEMMA FollowsSelf == ASSUME NEW m PROVE Follows(m, m)
BY DEF Follows

(* A state that differs from m in nothing but err.                         *)
LEMMA RefusedFollows ==
  ASSUME NEW m, Good(m), NEW s \in DOMAIN m.file, NEW r, Refused(m, s, r)
  PROVE  Good(r) /\ Follows(m, r)
<1>1. \A t : Descriptor(r, t) = Descriptor(m, t) /\ Pending(r, t) = Pending(m, t)
  BY DEF Refused, Descriptor, Pending
<1>2. Typed(r)
  BY DEF Refused, Good, Typed
<1>3. Separate(r, Open)
  BY DEF Refused, Good, Separate, Descriptor, IsOpen
<1>4. \A p : ContentIn(r, Open, p) = ContentIn(m, Open, p)
  BY DEF Refused, ContentIn, Holders, Descriptor, Pending
<1>5. \A t : PositionIn(r, t) = PositionIn(m, t)
  BY <1>1 DEF Refused, PositionIn
<1>6. Follows(m, r)
  BY <1>4, <1>5, Zenon DEF Refused, Follows
<1> QED BY <1>2, <1>3, <1>6 DEF Refused, Good

(* What the write of j bytes changes, field by field.                      *)
LEMMA PassedFacts ==
  ASSUME NEW m, Good(m), NEW s \in DOMAIN m.file, NEW r, NEW j \in Nat, Passed(m, s, r, j)
  PROVE  /\ Typed(r)
         /\ DOMAIN r.file = DOMAIN m.file
         /\ \A t \in DOMAIN m.file :
              /\ r.file[t].fd = m.file[t].fd /\ r.file[t].writable = m.file[t].writable
              /\ r.file[t].ungot = m.file[t].ungot
              /\ r.file[t].buf = IF t = s /\ j = Len(Pending(m, s)) THEN <<>> ELSE m.file[t].buf
         /\ DOMAIN r.kernel.fds = DOMAIN m.kernel.fds
         /\ \A x \in DOMAIN m.kernel.fds :
              /\ r.kernel.fds[x].path = m.kernel.fds[x].path
              /\ r.kernel.fds[x].mode = m.kernel.fds[x].mode
              /\ x # m.file[s].fd => r.kernel.fds[x] = m.kernel.fds[x]
         /\ r.kernel.fds[m.file[s].fd].pos = WritePos(m.kernel, Descriptor(m, s)) + j
         /\ \A p \in Paths : p # Descriptor(m, s).path => r.kernel.data[p] = m.kernel.data[p]
         /\ r.kernel.data[Descriptor(m, s).path]
            = Overwrite(m.kernel.data[Descriptor(m, s).path],
                        WritePos(m.kernel, Descriptor(m, s)), SubSeq(Pending(m, s), 1, j))
<1> DEFINE fd  == m.file[s].fd
           d   == Descriptor(m, s)
           buf == Pending(m, s)
           at  == WritePos(m.kernel, d)
           ow  == Overwrite(m.kernel.data[d.path], at, SubSeq(buf, 1, j))
<1>1. Typed(m) /\ IsOpen(m.kernel, fd)
  BY DEF Good, Passed
<1>2. d = m.kernel.fds[fd] /\ d \in Descriptors /\ d.path \in Paths /\ at \in Nat
      /\ m.kernel.data[d.path] \in Content
  BY <1>1, DescriptorFacts
<1>3. buf \in Seq(Bytes) /\ j \in 1 .. Len(buf)
  BY <1>1, FileFacts DEF Passed
<1>4. SubSeq(buf, 1, j) \in Seq(Bytes)
  BY <1>3, SubSeqProperties
<1>5. ow \in Content
  BY <1>2, <1>4, OverwriteFacts
<1>6. /\ Whole(r) /\ r.err \in BOOLEAN
      /\ r.file = IF j = Len(buf) THEN [m.file EXCEPT ![s].buf = <<>>] ELSE m.file
      /\ r.kernel = [fds |-> [m.kernel.fds EXCEPT ![fd].pos = at + j],
                     data |-> [m.kernel.data EXCEPT ![d.path] = ow]]
      /\ r.damaged = IF j < Len(buf) \/ s \in closed THEN m.damaged \union {d.path} ELSE m.damaged
  BY DEF Passed
<1>7. fd \in DOMAIN m.kernel.fds /\ m.kernel.fds \in [DOMAIN m.kernel.fds -> Descriptors]
      /\ m.kernel.data \in [Paths -> Content] /\ m.file \in [DOMAIN m.file -> FileObjects]
  BY <1>1 DEF Typed, IsOpen
<1> HIDE DEF ow, at, buf, fd, d
<1>8. /\ r.kernel.fds = [m.kernel.fds EXCEPT ![fd].pos = at + j]
      /\ r.kernel.data = [m.kernel.data EXCEPT ![d.path] = ow]
      /\ r.kernel = [fds |-> r.kernel.fds, data |-> r.kernel.data]
  BY <1>6
<1>9. /\ r.kernel.fds \in [DOMAIN m.kernel.fds -> Descriptors]
      /\ DOMAIN r.kernel.fds = DOMAIN m.kernel.fds
      /\ \A x \in DOMAIN m.kernel.fds :
           /\ r.kernel.fds[x].path = m.kernel.fds[x].path
           /\ r.kernel.fds[x].mode = m.kernel.fds[x].mode
           /\ x # fd => r.kernel.fds[x] = m.kernel.fds[x]
      /\ r.kernel.fds[fd].pos = at + j
  <2> DEFINE y == [m.kernel.fds[fd] EXCEPT !.pos = at + j]
  <2>1. at + j \in Nat
    BY <1>2, <1>3
  <2>2. /\ y \in Descriptors /\ y.path = m.kernel.fds[fd].path
        /\ y.mode = m.kernel.fds[fd].mode /\ y.pos = at + j
    BY <1>2, <2>1 DEF Descriptors
  <2>3. r.kernel.fds = [m.kernel.fds EXCEPT ![fd] = y]
    BY <1>8
  <2> HIDE DEF y
  <2> QED BY <1>7, <2>2, <2>3
<1>10. /\ r.kernel.data \in [Paths -> Content]
       /\ \A p \in Paths : p # d.path => r.kernel.data[p] = m.kernel.data[p]
       /\ r.kernel.data[d.path] = ow
  BY <1>2, <1>5, <1>7, <1>8
<1>11. /\ r.file \in [DOMAIN m.file -> FileObjects] /\ DOMAIN r.file = DOMAIN m.file
       /\ \A t \in DOMAIN m.file :
            /\ r.file[t].fd = m.file[t].fd /\ r.file[t].writable = m.file[t].writable
            /\ r.file[t].ungot = m.file[t].ungot
            /\ r.file[t].buf = IF t = s /\ j = Len(buf) THEN <<>> ELSE m.file[t].buf
  <2>1. CASE j = Len(buf)
    <3>1. <<>> \in Seq(Bytes)
      BY EmptySeq
    <3>2. r.file = [m.file EXCEPT ![s].buf = <<>>]
      BY <1>6, <2>1
    <3> DEFINE y == [m.file[s] EXCEPT !.buf = <<>>]
    <3>3. /\ y \in FileObjects /\ y.fd = m.file[s].fd /\ y.writable = m.file[s].writable
          /\ y.ungot = m.file[s].ungot /\ y.buf = <<>>
      BY <1>7, <3>1 DEF FileObjects
    <3>4. r.file = [m.file EXCEPT ![s] = y]
      BY <3>2
    <3> HIDE DEF y
    <3> QED BY <1>7, <2>1, <3>3, <3>4
  <2>2. CASE j # Len(buf)
    BY <1>6, <1>7, <2>2
  <2> QED BY <2>1, <2>2
<1>12. Typed(r)
  <2>1. \A t \in DOMAIN m.file :
          Len(r.file[t].buf) <= BufCap /\ Len(r.file[t].ungot) <= UngetCap
    <3>1. Len(<<>>) = 0 /\ 0 <= BufCap
      BY StreamsAssumption
    <3> QED BY <1>1, <1>11, <3>1 DEF Typed
  <2> QED BY <1>1, <1>2, <1>6, <1>8, <1>9, <1>10, <1>11, <2>1 DEF Typed
<1> QED BY <1>9, <1>10, <1>11, <1>12, Zenon DEF ow, at, buf, fd, d

LEMMA PassedFollows ==
  ASSUME NEW m, Good(m), NEW s \in DOMAIN m.file, NEW r, NEW j \in Nat, Passed(m, s, r, j)
  PROVE  /\ Good(r) /\ Follows(m, r) /\ (Pending(r, s) # <<>> => r.err)
         /\ Pending(r, s) = <<>> => PositionIn(r, s) = PositionIn(m, s)
<1> DEFINE fd  == m.file[s].fd
           d   == Descriptor(m, s)
           buf == Pending(m, s)
           at  == WritePos(m.kernel, d)
<1>1. Typed(m) /\ IsOpen(m.kernel, fd) /\ Open \subseteq DOMAIN m.file
  BY DEF Good, Passed, Separate
<1>2. d = m.kernel.fds[fd] /\ d.path \in Paths /\ at \in Nat
      /\ m.kernel.data[d.path] \in Content
  BY <1>1, DescriptorFacts
<1>3. buf \in Seq(Bytes) /\ j \in 1 .. Len(buf) /\ buf # <<>>
  BY <1>1, FileFacts DEF Passed
<1>4. /\ Typed(r)
      /\ DOMAIN r.file = DOMAIN m.file
      /\ \A t \in DOMAIN m.file :
           /\ r.file[t].fd = m.file[t].fd /\ r.file[t].writable = m.file[t].writable
           /\ r.file[t].ungot = m.file[t].ungot
           /\ r.file[t].buf = IF t = s /\ j = Len(buf) THEN <<>> ELSE m.file[t].buf
      /\ DOMAIN r.kernel.fds = DOMAIN m.kernel.fds
      /\ \A x \in DOMAIN m.kernel.fds :
           /\ r.kernel.fds[x].path = m.kernel.fds[x].path
           /\ r.kernel.fds[x].mode = m.kernel.fds[x].mode
           /\ x # fd => r.kernel.fds[x] = m.kernel.fds[x]
      /\ r.kernel.fds[fd].pos = at + j
      /\ \A p \in Paths : p # d.path => r.kernel.data[p] = m.kernel.data[p]
      /\ r.kernel.data[d.path] = Overwrite(m.kernel.data[d.path], at, SubSeq(buf, 1, j))
  BY PassedFacts
<1>5. /\ r.err \in BOOLEAN /\ (r.err <=> m.err \/ j < Len(buf))
      /\ r.damaged = IF j < Len(buf) \/ s \in closed THEN m.damaged \union {d.path} ELSE m.damaged
  BY DEF Passed
<1>6. \A t \in DOMAIN m.file : Pending(r, t) = IF t = s /\ j = Len(buf) THEN <<>> ELSE Pending(m, t)
  BY <1>4 DEF Pending
<1> HIDE DEF fd, d, buf, at
<1>7. \A t \in Open : /\ t \in DOMAIN m.file /\ IsOpen(m.kernel, m.file[t].fd)
                      /\ m.file[t].fd \in DOMAIN m.kernel.fds
                      /\ Descriptor(m, t) = m.kernel.fds[m.file[t].fd]
                      /\ Descriptor(m, t).path \in Paths
  BY <1>1, DescriptorFacts DEF Good, Separate, IsOpen
<1>8. \A t \in Open : /\ Descriptor(r, t) = r.kernel.fds[m.file[t].fd]
                      /\ Descriptor(r, t).path = Descriptor(m, t).path
                      /\ Descriptor(r, t).mode = Descriptor(m, t).mode
  BY <1>4, <1>7 DEF Descriptor
<1>9. Separate(r, Open)
  BY <1>4, <1>7, <1>8 DEF Good, Separate, IsOpen
(* Streams of other files are where they were.                             *)
<1>10. ASSUME NEW t \in Open, Descriptor(m, t).path # d.path
       PROVE  /\ Descriptor(r, t) = Descriptor(m, t) /\ Pending(r, t) = Pending(m, t)
              /\ WritePos(r.kernel, Descriptor(r, t)) = WritePos(m.kernel, Descriptor(m, t))
              /\ PositionIn(r, t) = PositionIn(m, t)
  <2>1. m.file[t].fd # fd
    BY <1>2, <1>7, <1>10
  <2>2. Descriptor(r, t) = Descriptor(m, t)
    BY <2>1, <1>4, <1>7, <1>8
  <2>3. t # s
    BY <1>10 DEF d
  <2>4. Pending(r, t) = Pending(m, t)
    BY <2>3, <1>6, <1>7
  <2>5. WritePos(r.kernel, Descriptor(r, t)) = WritePos(m.kernel, Descriptor(m, t))
    BY <2>2, <1>4, <1>7, <1>10 DEF WritePos
  <2> QED BY <2>2, <2>4, <2>5 DEF PositionIn
(* The file written to is damaged, or s is its stream and has written all. *)
<1>11. ASSUME d.path \notin r.damaged
       PROVE  s \in Open /\ j = Len(buf) /\ \A t \in Open : Descriptor(m, t).path = d.path => t = s
  <2>1. ~(j < Len(buf)) /\ s \notin closed
    BY <1>5, <1>11
  <2>2. s \in Open
    BY <2>1 DEF Good, Open
  <2> QED BY <2>1, <2>2, <1>3 DEF Good, Separate, d
<1>12. ASSUME Pending(r, s) = <<>>
       PROVE  PositionIn(r, s) = PositionIn(m, s)
  <2>1. j = Len(buf)
    BY <1>12, <1>3, <1>6 DEF buf
  <2>2. Descriptor(r, s) = r.kernel.fds[fd]
    BY <1>4 DEF Descriptor, fd
  <2>3. PositionIn(r, s) = at + j
    BY <1>4, <1>12, <2>2 DEF PositionIn
  <2>4. PositionIn(m, s) = at + Len(buf)
    BY <1>3 DEF PositionIn, at, d, buf
  <2> QED BY <2>1, <2>3, <2>4
<1>13. ASSUME d.path \notin r.damaged
       PROVE  /\ ContentIn(r, Open, d.path) = ContentIn(m, Open, d.path)
              /\ PositionIn(r, s) = PositionIn(m, s)
  <2>1. s \in Open /\ j = Len(buf) /\ Pending(r, s) = <<>>
    BY <1>6, <1>11, <1>13
  <2>2. SubSeq(buf, 1, j) = buf
    BY <2>1, <1>3, SubSeqFull
  <2>3. ContentIn(m, Open, d.path) = Overwrite(m.kernel.data[d.path], at, buf)
    BY <2>1, HeldContent, Zenon DEF Good, d, at, buf
  <2>4. ContentIn(r, Open, d.path)
        = Overwrite(r.kernel.data[d.path], WritePos(r.kernel, Descriptor(r, s)), <<>>)
    BY <1>8, <1>9, <2>1, HeldContent, Zenon DEF d
  <2>5. ContentIn(r, Open, d.path) = r.kernel.data[d.path]
    BY <2>4 DEF Overwrite
  <2> QED BY <2>1, <2>2, <2>3, <2>5, <1>4, <1>12
<1>14. \A p \in Paths \ r.damaged : ContentIn(r, Open, p) = ContentIn(m, Open, p)
  <2> TAKE p \in Paths \ r.damaged
  <2>1. CASE p = d.path
    BY <2>1, <1>13
  <2>2. CASE p # d.path
    <3>1. r.kernel.data[p] = m.kernel.data[p]
      BY <2>2, <1>4
    <3>2. \A t \in Open : Descriptor(m, t).path = p =>
            /\ t \in Open /\ Descriptor(r, t).path = p
            /\ WritePos(r.kernel, Descriptor(r, t)) = WritePos(m.kernel, Descriptor(m, t))
            /\ Pending(r, t) = Pending(m, t)
      BY <2>2, <1>10
    <3>3. \A t \in Open : Descriptor(r, t).path = p => t \in Open /\ Descriptor(m, t).path = p
      BY <1>8
    <3>4. Undisturbed(m, Open, r, Open, p)
      BY <3>1, <3>2, <3>3 DEF Undisturbed
    <3>5. Separate(m, Open)
      BY DEF Good
    <3> HIDE DEF Open
    <3> QED BY <3>4, <3>5, <1>9, SameContent
  <2> QED BY <2>1, <2>2
<1>15. \A t \in Open : Descriptor(m, t).path \notin r.damaged =>
         PositionIn(r, t) = PositionIn(m, t)
  <2> TAKE t \in Open
  <2>1. CASE Descriptor(m, t).path # d.path
    BY <2>1, <1>10
  <2>2. CASE Descriptor(m, t).path = d.path /\ d.path \notin r.damaged
    BY <2>2, <1>11, <1>13
  <2> QED BY <2>1, <2>2
<1>16. r.damaged # m.damaged => r.err \/ StrayIn(m)
  BY <1>3, <1>5 DEF StrayIn, buf
<1>17. Follows(m, r)
  <2>1. \A t \in DOMAIN m.file : r.file[t].buf \in {m.file[t].buf, <<>>}
    BY <1>4
  <2>2. m.damaged \subseteq r.damaged /\ (m.err => r.err)
    BY <1>5
  <2> QED BY <1>4, <1>14, <1>15, <1>16, <2>1, <2>2, Zenon DEF Follows
<1>18. Pending(r, s) # <<>> => r.err
  BY <1>3, <1>5, <1>6
<1>19. Good(r)
  BY <1>4, <1>9 DEF Good
<1> QED BY <1>17, <1>18, <1>19, <1>12

(* Flushing s: what it could not write it says.                            *)
LEMMA FlushFollows ==
  ASSUME NEW m, Good(m), NEW s \in DOMAIN m.file, NEW r \in Flushed(m, s)
  PROVE  /\ Good(r) /\ Follows(m, r) /\ (Pending(r, s) # <<>> => r.err)
         /\ Pending(r, s) = <<>> => PositionIn(r, s) = PositionIn(m, s)
<1>1. Idle(m, s, r) \/ Refused(m, s, r) \/ \E j \in Nat : Passed(m, s, r, j)
  BY FlushCases DEF Good
<1>2. CASE Idle(m, s, r)
  BY <1>2, FollowsSelf DEF Idle
<1>3. CASE Refused(m, s, r)
  <2>1. Pending(r, s) # <<>> /\ r.err
    BY <1>3 DEF Refused, Pending
  <2>2. Good(r) /\ Follows(m, r)
    BY <1>3, RefusedFollows
  <2> QED BY <2>1, <2>2
<1>4. CASE \E j \in Nat : Passed(m, s, r, j)
  BY <1>4, PassedFollows
<1> QED BY <1>1, <1>2, <1>3, <1>4

LEMMA FollowsPending ==
  ASSUME NEW m, NEW r, Follows(m, r), NEW t \in DOMAIN m.file, Pending(r, t) # <<>>
  PROVE  Pending(m, t) = Pending(r, t)
BY DEF Follows, Pending

LEMMA FollowsPath ==
  ASSUME NEW m, Good(m), NEW r, Follows(m, r), NEW t \in Open
  PROVE  /\ Descriptor(r, t).path = Descriptor(m, t).path
         /\ Descriptor(r, t).mode = Descriptor(m, t).mode
         /\ t \in DOMAIN m.file /\ r.file[t].fd = m.file[t].fd
<1>1. t \in DOMAIN m.file /\ m.file[t].fd \in DOMAIN m.kernel.fds
  BY DEF Good, Separate, IsOpen
<1> QED BY <1>1 DEF Follows, Descriptor

LEMMA FollowsStray ==
  ASSUME NEW m, Good(m), NEW r, Follows(m, r), closed \subseteq Standard, StrayIn(r)
  PROVE  StrayIn(m)
<1>1. PICK t \in closed : Pending(r, t) # <<>>
  BY DEF StrayIn
<1>2. t \in DOMAIN m.file
  BY DEF Good, Typed
<1>3. Pending(m, t) # <<>>
  BY <1>1, <1>2, FollowsPending
<1> QED BY <1>3 DEF StrayIn

LEMMA FollowsTransitive ==
  ASSUME NEW m, Good(m), NEW r, Good(r), NEW q, Follows(m, r), Follows(r, q),
         closed \subseteq Standard
  PROVE  Follows(m, q)
<1>1. /\ DOMAIN q.file = DOMAIN m.file
      /\ \A t \in DOMAIN m.file :
           /\ q.file[t].fd = m.file[t].fd /\ q.file[t].writable = m.file[t].writable
           /\ q.file[t].ungot = m.file[t].ungot
           /\ q.file[t].buf \in {m.file[t].buf, <<>>}
  BY DEF Follows
<1>2. /\ DOMAIN q.kernel.fds = DOMAIN m.kernel.fds
      /\ \A fd \in DOMAIN m.kernel.fds :
           /\ q.kernel.fds[fd].path = m.kernel.fds[fd].path
           /\ q.kernel.fds[fd].mode = m.kernel.fds[fd].mode
  BY DEF Follows
<1>3. m.damaged \subseteq r.damaged /\ r.damaged \subseteq q.damaged
  BY DEF Follows
<1>4. (m.err => r.err) /\ (r.err => q.err)
  BY Zenon DEF Follows
<1>5. ASSUME q.damaged # m.damaged PROVE q.err \/ StrayIn(m)
  <2>1. CASE r.damaged # m.damaged
    <3>1. r.err \/ StrayIn(m)
      BY <2>1, Zenon DEF Follows
    <3> QED BY <3>1, <1>4, Zenon
  <2>2. CASE q.damaged # r.damaged
    <3>1. q.err \/ StrayIn(r)
      BY <2>2, Zenon DEF Follows
    <3> QED BY <3>1, FollowsStray
  <2> QED BY <1>5, <2>1, <2>2
<1>6. \A p \in Paths \ q.damaged : ContentIn(q, Open, p) = ContentIn(m, Open, p)
  <2> TAKE p \in Paths \ q.damaged
  <2>1. p \in Paths \ r.damaged
    BY <1>3
  <2> QED BY <2>1, Zenon DEF Follows
<1>7. \A t \in Open : Descriptor(m, t).path \notin q.damaged =>
        PositionIn(q, t) = PositionIn(m, t)
  <2> SUFFICES ASSUME NEW t \in Open, Descriptor(m, t).path \notin q.damaged
               PROVE  PositionIn(q, t) = PositionIn(m, t)
    OBVIOUS
  <2>1. Descriptor(r, t).path = Descriptor(m, t).path
    BY FollowsPath
  <2>2. Descriptor(m, t).path \notin r.damaged
    BY <1>3
  <2>3. PositionIn(r, t) = PositionIn(m, t)
    BY <2>2, Zenon DEF Follows
  <2>4. PositionIn(q, t) = PositionIn(r, t)
    BY <2>1, Zenon DEF Follows
  <2> QED BY <2>3, <2>4
<1>8. m.damaged \subseteq q.damaged
  BY <1>3
<1>9. (m.err => q.err) /\ (q.damaged # m.damaged => q.err \/ StrayIn(m))
  BY <1>4, <1>5, Zenon
<1> QED BY <1>1, <1>2, <1>6, <1>7, <1>8, <1>9, Zenon DEF Follows

-----------------------------------------------------------------------------
(* fflush(0): one flush after the other.                                   *)

Rounds(n, f) ==
  f = [i \in 0 .. n |-> IF i = 0 THEN {Now} ELSE UNION {Flushed(m, Listed[i]) : m \in f[i - 1]}]

LEMMA RoundsExist == \A n \in Nat : \E f : Rounds(n, f)
<1> DEFINE S == {k \in Nat : ~ \E f : Rounds(k, f)}
<1> SUFFICES ASSUME S # {} PROVE FALSE
  OBVIOUS
<1>1. PICK g \in S : \A h \in S : g <= h
  <2> HIDE DEF S
  <2>1. S \subseteq Nat
    BY DEF S
  <2> QED BY <2>1, HasLeast
<1>2. g \in Nat /\ ~ \E f : Rounds(g, f)
  BY <1>1
<1>3. CASE g = 0
  <2> DEFINE e == [i \in 0 .. 0 |-> {Now}]
  <2>1. Rounds(0, e)
    BY DEF Rounds
  <2> QED BY <1>2, <1>3, <2>1
<1>4. CASE g # 0
  <2>1. g - 1 \in Nat /\ g - 1 < g
    BY <1>2, <1>4
  <2>2. PICK f : Rounds(g - 1, f)
    <3>1. g - 1 \notin S
      <4> HIDE DEF S
      <4> QED BY <1>1, <2>1, <1>2
    <3> QED BY <2>1, <3>1
  <2> DEFINE round(x, i) == UNION {Flushed(m, Listed[i]) : m \in x}
             e == [i \in 0 .. g |-> IF i < g THEN f[i] ELSE round(f[g - 1], g)]
  <2>3. f = [i \in 0 .. g - 1 |-> IF i = 0 THEN {Now} ELSE round(f[i - 1], i)]
    BY <2>2 DEF Rounds
  <2>4. e = [i \in 0 .. g |-> IF i = 0 THEN {Now} ELSE round(e[i - 1], i)]
    <3> HIDE DEF round
    <3>1. \A i \in 0 .. g : e[i] = IF i = 0 THEN {Now} ELSE round(e[i - 1], i)
      <4> TAKE i \in 0 .. g
      <4>1. CASE i = g
        <5>1. e[i] = round(f[g - 1], g) /\ e[i - 1] = f[g - 1]
          BY <4>1, <2>1, <1>2
        <5> QED BY <5>1, <4>1, <1>4
      <4>2. CASE i # g
        <5>1. i \in 0 .. g - 1 /\ e[i] = f[i] /\ (i # 0 => e[i - 1] = f[i - 1])
          BY <4>2, <1>2
        <5> QED BY <5>1, <2>3
      <4> QED BY <4>1, <4>2
    <3> QED BY <3>1
  <2>5. Rounds(g, e)
    <3> HIDE DEF e
    <3> QED BY <2>4 DEF Rounds
  <2> QED BY <1>2, <2>5
<1> QED BY <1>3, <1>4

LEMMA ListedFacts ==
  ASSUME Inv
  PROVE  /\ Len(Listed) \in Nat /\ DOMAIN Listed = 1 .. Len(Listed)
         /\ \A i \in DOMAIN Listed : Listed[i] \in DOMAIN file
         /\ \A s : Kept(s) <=> \E i \in DOMAIN Listed : Listed[i] = s
<1>1. tracked \in Seq(Files) /\ Standard \subseteq DOMAIN file
      /\ \A i \in DOMAIN tracked : tracked[i] \in DOMAIN file
  BY DEF Inv, TypeOK, StreamsApart, TableExact
<1> DEFINE two == <<Stdout, Stderr>>
<1>2. Len(two) = 2 /\ two \in Seq(Standard) /\ two[1] = Stdout /\ two[2] = Stderr
      /\ DOMAIN two = {1, 2}
  BY DEF Standard
<1>3. Len(tracked) \in Nat /\ DOMAIN tracked = 1 .. Len(tracked)
  BY <1>1, LenProperties
<1> DEFINE T == Standard \union Files
<1>4. tracked \in Seq(T) /\ two \in Seq(T)
  <2>1. \A i \in 1 .. Len(tracked) : tracked[i] \in T
    BY <1>1, <1>3, ElementOfSeq
  <2>2. two \in Seq(T)
    BY DEF Standard
  <2>3. tracked \in Seq(T)
    <3> HIDE DEF T
    <3>1. tracked = [i \in 1 .. Len(tracked) |-> tracked[i]]
      BY <1>1, SeqDef
    <3>2. [i \in 1 .. Len(tracked) |-> tracked[i]] \in Seq(T)
      BY <1>3, <2>1, IsASeq
    <3> QED BY <3>1, <3>2
  <2> QED BY <2>2, <2>3
<1> HIDE DEF two, T
<1>5. /\ Len(Listed) = 2 + Len(tracked)
      /\ Listed \in Seq(T)
      /\ \A i \in 1 .. Len(Listed) :
           Listed[i] = IF i <= 2 THEN two[i] ELSE tracked[i - 2]
  <2>1. Listed = two \o tracked
    BY DEF Listed, two
  <2>2. /\ two \o tracked \in Seq(T)
        /\ Len(two \o tracked) = Len(two) + Len(tracked)
        /\ \A i \in 1 .. Len(two) + Len(tracked) :
             (two \o tracked)[i] = IF i <= Len(two) THEN two[i] ELSE tracked[i - Len(two)]
    BY <1>4, ConcatProperties, Zenon
  <2> DEFINE both == two \o tracked
  <2>3. Listed = both
    BY <2>1
  <2>4. /\ both \in Seq(T) /\ Len(both) = 2 + Len(tracked)
        /\ \A i \in 1 .. 2 + Len(tracked) : both[i] = IF i <= 2 THEN two[i] ELSE tracked[i - 2]
    BY <2>2, <1>2
  <2> HIDE DEF both
  <2> QED BY <2>3, <2>4
<1>6. DOMAIN Listed = 1 .. Len(Listed)
  BY <1>5, LenProperties
<1>7. \A i \in DOMAIN Listed : Listed[i] \in DOMAIN file /\ Kept(Listed[i])
  <2> TAKE i \in DOMAIN Listed
  <2>1. CASE i <= 2
    <3>1. Listed[i] \in Standard
      <4>1. i = 1 \/ i = 2
        BY <2>1, <1>3, <1>5, <1>6
      <4>2. Listed[i] = two[i]
        BY <2>1, <1>5, <1>6
      <4> QED BY <4>1, <4>2, <1>2 DEF Standard
    <3> QED BY <3>1, <1>1 DEF Kept
  <2>2. CASE ~(i <= 2)
    <3>1. i - 2 \in DOMAIN tracked /\ Listed[i] = tracked[i - 2]
      BY <2>2, <1>3, <1>5, <1>6
    <3> QED BY <3>1, <1>1 DEF Kept
  <2> QED BY <2>1, <2>2
<1>8. \A s : Kept(s) => \E i \in DOMAIN Listed : Listed[i] = s
  <2> SUFFICES ASSUME NEW s, Kept(s) PROVE \E i \in DOMAIN Listed : Listed[i] = s
    OBVIOUS
  <2>1. CASE s \in Standard
    <3>1. 1 \in DOMAIN Listed /\ 2 \in DOMAIN Listed /\ Listed[1] = Stdout /\ Listed[2] = Stderr
      BY <1>2, <1>3, <1>5, <1>6
    <3> QED BY <2>1, <3>1 DEF Standard
  <2>2. CASE \E j \in DOMAIN tracked : tracked[j] = s
    <3>1. PICK j \in DOMAIN tracked : tracked[j] = s
      BY <2>2
    <3>2. j + 2 \in DOMAIN Listed /\ ~(j + 2 <= 2) /\ (j + 2) - 2 = j
      BY <1>3, <1>5, <1>6
    <3>3. Listed[j + 2] = tracked[j]
      BY <3>2, <1>5, <1>6
    <3> QED BY <3>1, <3>2, <3>3
  <2> QED BY <2>1, <2>2 DEF Kept
<1> QED BY <1>3, <1>5, <1>6, <1>7, <1>8

LEMMA AllFlushedRounds ==
  ASSUME Inv
  PROVE  \E f : Rounds(Len(Listed), f) /\ AllFlushed = f[Len(Listed)]
<1> DEFINE f == CHOOSE g : Rounds(Len(Listed), g)
<1>1. Rounds(Len(Listed), f)
  BY RoundsExist, ListedFacts
<1>2. AllFlushed = f[Len(Listed)]
  BY DEF AllFlushed, Rounds
<1> QED BY <1>1, <1>2

LEMMA GoodNow == ASSUME Inv PROVE Good(Now)
BY InvFacts DEF Good, Now

(* What a flush of all streams could not write it says.                    *)
LEMMA AllFlushedFollows ==
  ASSUME Inv, NEW r \in AllFlushed
  PROVE  /\ Good(r) /\ Follows(Now, r)
         /\ \A i \in DOMAIN Listed : Pending(r, Listed[i]) # <<>> => r.err
<1> DEFINE n == Len(Listed)
           P(k, x) == /\ Good(x) /\ Follows(Now, x)
                      /\ \A i \in 1 .. k : Pending(x, Listed[i]) # <<>> => x.err
<1>1. n \in Nat /\ DOMAIN Listed = 1 .. n /\ \A i \in 1 .. n : Listed[i] \in DOMAIN file
  BY ListedFacts
<1>2. PICK f : Rounds(n, f) /\ AllFlushed = f[n]
  BY AllFlushedRounds
<1> HIDE DEF n
<1>3. /\ f[0] = {Now}
      /\ \A k \in 1 .. n : f[k] = UNION {Flushed(m, Listed[k]) : m \in f[k - 1]}
  <2> DEFINE round(x, i) == UNION {Flushed(m, Listed[i]) : m \in x}
             start       == {Now}
             value(i)    == IF i = 0 THEN start ELSE round(f[i - 1], i)
  <2>1. f = [i \in 0 .. n |-> value(i)]
    BY <1>2 DEF Rounds
  <2>2. value(0) = start /\ \A k \in 1 .. n : value(k) = round(f[k - 1], k)
    <3> HIDE DEF round, start
    <3> QED BY <1>1
  <2> HIDE DEF value
  <2>3. 0 \in 0 .. n /\ \A k \in 1 .. n : k \in 0 .. n
    BY <1>1
  <2>4. \A i \in 0 .. n : f[i] = value(i)
    BY <2>1, Zenon
  <2>5. f[0] = start /\ \A k \in 1 .. n : f[k] = round(f[k - 1], k)
    <3> HIDE DEF round, start
    <3> QED BY <2>2, <2>3, <2>4, Zenon
  <2> QED BY <2>5, Zenon DEF round, start
<1>4. closed \subseteq Standard
  BY DEF Inv, TypeOK
<1>5. \A x \in f[0] : P(0, x)
  BY <1>3, GoodNow, FollowsSelf
<1>6. ASSUME NEW k \in 1 .. n, \A x \in f[k - 1] : P(k - 1, x)
      PROVE  \A x \in f[k] : P(k, x)
  <2> TAKE x \in f[k]
  <2>1. PICK m \in f[k - 1] : x \in Flushed(m, Listed[k])
    BY <1>3
  <2>2. P(k - 1, m)
    BY <1>6
  <2>3. Listed[k] \in DOMAIN m.file
    BY <1>1, <2>2 DEF Good
  <2>4. Good(x) /\ Follows(m, x) /\ (Pending(x, Listed[k]) # <<>> => x.err)
    BY <2>1, <2>2, <2>3, FlushFollows
  <2>5. Follows(Now, x)
    BY <2>2, <2>4, <1>4, GoodNow, FollowsTransitive
  <2>6. ASSUME NEW i \in 1 .. k, Pending(x, Listed[i]) # <<>> PROVE x.err
    <3>1. CASE i = k
      BY <2>4, <2>6, <3>1
    <3>2. CASE i # k
      <4>1. i \in 1 .. k - 1 /\ i \in 1 .. n
        BY <1>1, <3>2
      <4>2. Listed[i] \in DOMAIN m.file
        BY <4>1, <1>1, <2>2 DEF Good
      <4>3. Pending(m, Listed[i]) # <<>>
        BY <4>2, <2>4, <2>6, FollowsPending
      <4>4. m.err
        BY <2>2, <4>1, <4>3
      <4> QED BY <4>4, <2>4, Zenon DEF Follows
    <3> QED BY <3>1, <3>2
  <2> QED BY <2>4, <2>5, <2>6
<1>7. \A x \in f[n] : P(n, x)
  <2> DEFINE S == {k \in 0 .. n : ~ \A x \in f[k] : P(k, x)}
  <2> HIDE DEF P
  <2> SUFFICES ASSUME S # {} PROVE FALSE
    BY <1>1
  <2>1. PICK g \in S : \A h \in S : g <= h
    <3>1. S \subseteq Nat
      BY <1>1
    <3> HIDE DEF S
    <3> QED BY <3>1, HasLeast
  <2>2. g # 0
    BY <1>5, <2>1
  <2>3. g \in 1 .. n /\ g - 1 \in 0 .. n /\ ~(g <= g - 1)
    BY <1>1, <2>1, <2>2
  <2>4. \A x \in f[g - 1] : P(g - 1, x)
    BY <2>1, <2>3
  <2> QED BY <1>6, <2>1, <2>3, <2>4
<1> QED BY <1>1, <1>2, <1>7

-----------------------------------------------------------------------------
(* What a call leaves behind.                                              *)

Ends(m) == file' = m.file /\ kernel' = m.kernel /\ damaged' = m.damaged

LEMMA SetFacts ==
  ASSUME Inv, NEW m, m.err \in BOOLEAN, Set(m)
  PROVE  Ends(m) /\ errors' \in 0 .. MaxErrors
<1>1. errors \in 0 .. MaxErrors /\ MaxErrors \in Nat
  BY StreamsAssumption DEF Inv, TypeOK
<1> QED BY <1>1 DEF Set, Ends

LEMMA InvAfter ==
  ASSUME NEW m, Typed(m), Separate(m, Open'), Ends(m), errors' \in 0 .. MaxErrors,
         closed' \subseteq Standard, tracked' \in Seq(Files), Len(tracked') <= TrackCap,
         TableExact', exited' \in BOOLEAN
  PROVE  Inv'
<1>1. TypeOK'
  BY DEF TypeOK, Typed, Ends
<1>2. DescriptorsDistinct'
  BY DEF DescriptorsDistinct, Separate, Ends, Descriptor, PathOf, Now, IsOpen
<1> QED BY <1>1, <1>2 DEF Inv, StreamsApart

LEMMA InvKept ==
  ASSUME Inv, NEW m, Good(m), Ends(m), errors' \in 0 .. MaxErrors,
         UNCHANGED <<closed, tracked>>, exited' \in BOOLEAN
  PROVE  Inv' /\ Open' = Open
<1>1. Open' = Open
  BY DEF Ends, Good, Open
<1>2. TableExact'
  BY DEF Inv, StreamsApart, TableExact, Ends, Good
<1>3. closed' \subseteq Standard /\ tracked' \in Seq(Files) /\ Len(tracked') <= TrackCap
  BY DEF Inv, TypeOK
<1>4. Typed(m) /\ Separate(m, Open')
  BY <1>1 DEF Good
<1> QED BY <1>1, <1>2, <1>3, <1>4, InvAfter

-----------------------------------------------------------------------------
(* The abstract state.                                                     *)

KeptBy(q, s) == s \in Standard \/ \E i \in DOMAIN q : q[i] = s

(* The files of m are c and its streams, those of q, are st, for a table   *)
(* t, and damage aside.                                                    *)
Matches(v, w, D) == IF w.path \in D THEN [v EXCEPT !.pos = w.pos] = w ELSE v = w

LooksAs(m, q, t, c, st) ==
  /\ \A p \in Paths \ m.damaged : ContentIn(m, q, p) = c[p]
  /\ DOMAIN st = q
  /\ \A s \in q : Matches(ViewIn(m, s, KeptBy(t, s)), st[s], m.damaged)

AbsContent == [p \in Paths |-> ContentIn(Now, Open, p)]
AbsStream  == [s \in Open |-> ViewIn(Now, s, Kept(s))]

LEMMA SameViews ==
  ASSUME NEW m, NEW r, r.file = m.file, r.kernel = m.kernel
  PROVE  /\ \A q, p : ContentIn(r, q, p) = ContentIn(m, q, p)
         /\ \A s, k : ViewIn(r, s, k) = ViewIn(m, s, k)
         /\ \A s : Pending(r, s) = Pending(m, s) /\ PositionIn(r, s) = PositionIn(m, s)
<1>1. \A s : Descriptor(r, s) = Descriptor(m, s) /\ Pending(r, s) = Pending(m, s)
  BY DEF Descriptor, Pending
<1>2. \A s : PositionIn(r, s) = PositionIn(m, s)
  BY <1>1 DEF PositionIn
<1>3. \A q, p : ContentIn(r, q, p) = ContentIn(m, q, p)
  BY DEF ContentIn, Holders, Descriptor, Pending
<1>4. \A s, k : ViewIn(r, s, k) = ViewIn(m, s, k)
  BY <1>1, <1>2, Zenon DEF ViewIn
<1> QED BY <1>1, <1>2, <1>3, <1>4

LEMMA NowNext ==
  ASSUME NEW m, Ends(m)
  PROVE  Now'.file = m.file /\ Now'.kernel = m.kernel
BY DEF Now, Ends

LEMMA CallBecomes ==
  ASSUME Inv, ~exited, NEW m, Ends(m), exited' = exited,
         damaged \subseteq m.damaged, m.damaged # damaged => result'.err \/ StrayIn(Now),
         NEW c, NEW st, LooksAs(m, Open', tracked', c, st)
  PROVE  ByteFiles!Becomes(c, st)
<1>1. damaged' = m.damaged
  BY DEF Ends
<1>2. \A q, p : ContentIn(Now', q, p) = ContentIn(m, q, p)
  BY NowNext, SameViews
<1>3. \A s, k : ViewIn(Now', s, k) = ViewIn(m, s, k)
  BY NowNext, SameViews
<1>4. \A p \in Paths \ damaged' : ContentIn(Now', IF exited' THEN {} ELSE Open', p) = c[p]
  BY <1>1, <1>2 DEF LooksAs
<1>5. \A s : Kept(s)' = KeptBy(tracked', s)
  BY DEF Kept, KeptBy
<1>6. \A s \in Open' : Matches(ViewIn(Now', s, Kept(s)'), st[s], damaged')
  BY <1>1, <1>3, <1>5 DEF LooksAs
<1>7. DOMAIN st = Open'
  BY DEF LooksAs
<1>8. ByteFiles!DamageOnly
  BY <1>1 DEF ByteFiles!DamageOnly
<1> QED BY <1>4, <1>6, <1>7, <1>8 DEF ByteFiles!Becomes, Matches

LEMMA StrayKeeps ==
  ASSUME NEW m, Ends(m), UNCHANGED closed, StrayIn(m) => StrayIn(Now)
  PROVE  ByteFiles!Keeps
<1>1. \A s : Pending(Now', s) = Pending(m, s)
  BY NowNext, SameViews
<1>2. StrayIn(Now)' => \E s \in closed : Pending(Now', s) # <<>>
  BY DEF StrayIn
<1>3. StrayIn(Now)' => StrayIn(m)
  BY <1>1, <1>2 DEF StrayIn
<1> QED BY <1>3 DEF ByteFiles!Keeps

Looks(m, c, st) == LooksAs(m, Open, tracked, c, st)

LEMMA LooksNow == Looks(Now, AbsContent, AbsStream)
<1>1. \A p \in Paths : ContentIn(Now, Open, p) = AbsContent[p]
  BY DEF AbsContent
<1>2. \A s : Kept(s) = KeptBy(tracked, s)
  BY DEF Kept, KeptBy
<1>3. DOMAIN AbsStream = Open /\ \A s \in Open : ViewIn(Now, s, KeptBy(tracked, s)) = AbsStream[s]
  BY <1>2 DEF AbsStream
<1>4. \A s, k : Matches(ViewIn(Now, s, k), ViewIn(Now, s, k), Now.damaged)
  BY DEF Matches, ViewIn
<1> QED BY <1>1, <1>3, <1>4, Zenon DEF Looks, LooksAs

LEMMA ViewFields ==
  ASSUME NEW m, NEW s, NEW k
  PROVE  /\ ViewIn(m, s, k) =
              [path |-> Descriptor(m, s).path, pos |-> PositionIn(m, s),
               pushed |-> m.file[s].ungot, kept |-> k, read |-> Descriptor(m, s).mode.read,
               write |-> Descriptor(m, s).mode.write, append |-> Descriptor(m, s).mode.append]
         /\ ViewIn(m, s, k).path = Descriptor(m, s).path
         /\ ViewIn(m, s, k).pos = PositionIn(m, s)
         /\ ViewIn(m, s, k).pushed = m.file[s].ungot
         /\ ViewIn(m, s, k).kept = k
         /\ ViewIn(m, s, k).read = Descriptor(m, s).mode.read
         /\ ViewIn(m, s, k).write = Descriptor(m, s).mode.write
         /\ ViewIn(m, s, k).append = Descriptor(m, s).mode.append
BY DEF ViewIn

(* A view with another position.                                           *)
LEMMA MatchesMoved ==
  ASSUME NEW p, NEW a, NEW b, NEW q, NEW k, NEW x, NEW y, NEW z, NEW w, NEW D, NEW E,
         D \subseteq E, p \notin E => a = b,
         Matches([path |-> p, pos |-> b, pushed |-> q, kept |-> k, read |-> x, write |-> y,
                  append |-> z], w, D)
  PROVE  Matches([path |-> p, pos |-> a, pushed |-> q, kept |-> k, read |-> x, write |-> y,
                  append |-> z], w, E)
<1> DEFINE v(i) == [path |-> p, pos |-> i, pushed |-> q, kept |-> k, read |-> x, write |-> y,
                    append |-> z]
<1>1. \A i, j : [v(i) EXCEPT !.pos = j] = v(j)
  OBVIOUS
<1>2. \A i : v(i).path = p /\ v(i).pos = i
  OBVIOUS
<1> HIDE DEF v
<1>3. Matches(v(b), w, D)
  BY DEF v
<1>4. CASE w.path \in D
  <2>1. v(w.pos) = w
    BY <1>1, <1>3, <1>4 DEF Matches
  <2>2. [v(a) EXCEPT !.pos = w.pos] = w /\ w.path \in E
    BY <1>1, <1>4, <2>1
  <2>3. Matches(v(a), w, E)
    BY <2>2 DEF Matches
  <2> QED BY <2>3 DEF v
<1>5. CASE w.path \notin D
  <2>1. v(b) = w /\ w.path = p
    BY <1>2, <1>3, <1>5 DEF Matches
  <2>2. CASE p \in E
    <3>1. w = v(w.pos)
      BY <1>2, <2>1
    <3>2. [v(a) EXCEPT !.pos = w.pos] = w /\ w.path \in E
      BY <1>1, <2>1, <2>2, <3>1
    <3>3. Matches(v(a), w, E)
      BY <3>2 DEF Matches
    <3> QED BY <3>3 DEF v
  <2>3. CASE p \notin E
    <3>1. v(a) = w /\ w.path \notin E
      BY <2>1, <2>3
    <3>2. Matches(v(a), w, E)
      BY <3>1 DEF Matches
    <3> QED BY <3>2 DEF v
  <2> QED BY <2>2, <2>3
<1> QED BY <1>4, <1>5

LEMMA LooksFollows ==
  ASSUME NEW m, Good(m), NEW r, Follows(m, r), NEW c, NEW st, Looks(m, c, st)
  PROVE  Looks(r, c, st)
<1>1. m.damaged \subseteq r.damaged
  BY DEF Follows
<1>2. \A p \in Paths \ r.damaged : ContentIn(r, Open, p) = c[p]
  <2> TAKE p \in Paths \ r.damaged
  <2>1. p \in Paths \ m.damaged
    BY <1>1
  <2>2. ContentIn(r, Open, p) = ContentIn(m, Open, p)
    BY Zenon DEF Follows
  <2>3. ContentIn(m, Open, p) = c[p]
    BY <2>1, Zenon DEF Looks, LooksAs
  <2> QED BY <2>2, <2>3
<1>3. ASSUME NEW s \in Open
      PROVE  Matches(ViewIn(r, s, KeptBy(tracked, s)), st[s], r.damaged)
  <2> DEFINE k == KeptBy(tracked, s)
  <2>1. Matches(ViewIn(m, s, k), st[s], m.damaged)
    BY DEF Looks, LooksAs
  <2> HIDE DEF k
  <2>2. /\ Descriptor(r, s).path = Descriptor(m, s).path
        /\ Descriptor(r, s).mode = Descriptor(m, s).mode
        /\ s \in DOMAIN m.file
    BY FollowsPath
  <2>3. r.file[s].ungot = m.file[s].ungot
    BY <2>2 DEF Follows
  <2>4. Descriptor(m, s).path \notin r.damaged => PositionIn(r, s) = PositionIn(m, s)
    BY Zenon DEF Follows
  <2>5. ViewIn(r, s, k)
        = [path |-> Descriptor(m, s).path, pos |-> PositionIn(r, s),
           pushed |-> m.file[s].ungot, kept |-> k, read |-> Descriptor(m, s).mode.read,
           write |-> Descriptor(m, s).mode.write, append |-> Descriptor(m, s).mode.append]
    BY <2>2, <2>3, Zenon DEF ViewIn
  <2>6. ViewIn(m, s, k)
        = [path |-> Descriptor(m, s).path, pos |-> PositionIn(m, s),
           pushed |-> m.file[s].ungot, kept |-> k, read |-> Descriptor(m, s).mode.read,
           write |-> Descriptor(m, s).mode.write, append |-> Descriptor(m, s).mode.append]
    BY Zenon DEF ViewIn
  <2>7. Matches(ViewIn(r, s, k), st[s], r.damaged)
    BY <1>1, <2>1, <2>4, <2>5, <2>6, MatchesMoved
  <2> QED BY <2>7 DEF k
<1>4. DOMAIN st = Open
  BY DEF Looks, LooksAs
<1> QED BY <1>2, <1>3, <1>4, Zenon DEF Looks, LooksAs

LEMMA LooksBecomes ==
  ASSUME Inv, ~exited, NEW m, Good(m), Ends(m), UNCHANGED <<closed, tracked, exited>>,
         damaged \subseteq m.damaged, m.damaged # damaged => result'.err \/ StrayIn(Now),
         NEW c, NEW st, Looks(m, c, st)
  PROVE  ByteFiles!Becomes(c, st)
<1>1. Open' = Open
  BY DEF Ends, Good, Open
<1>2. LooksAs(m, Open', tracked', c, st)
  BY <1>1, Zenon DEF Looks
<1>3. exited' = exited
  OBVIOUS
<1> QED BY <1>2, <1>3, CallBecomes

(* A call that only flushes changes nothing abstract.                      *)
LEMMA FollowsBecomes ==
  ASSUME Inv, ~exited, NEW m, Good(m), Follows(Now, m), Ends(m), m.err => result'.err,
         UNCHANGED <<closed, tracked, exited>>
  PROVE  ByteFiles!Becomes(AbsContent, AbsStream) /\ ByteFiles!Keeps
<1>1. Looks(m, AbsContent, AbsStream)
  BY LooksNow, LooksFollows, GoodNow
<1>2. damaged \subseteq m.damaged /\ (m.damaged # damaged => m.err \/ StrayIn(Now))
  <2>1. Now.damaged = damaged
    BY DEF Now
  <2> QED BY <2>1, Zenon DEF Follows
<1>3. m.damaged # damaged => result'.err \/ StrayIn(Now)
  BY <1>2, Zenon
<1>4. ByteFiles!Becomes(AbsContent, AbsStream)
  BY <1>1, <1>2, <1>3, LooksBecomes
<1>5. StrayIn(m) => StrayIn(Now)
  BY FollowsStray, GoodNow DEF Inv, TypeOK
<1> QED BY <1>4, <1>5, StrayKeeps

LEMMA AbsHere ==
  ASSUME ~exited
  PROVE  /\ [p \in Paths |-> ContentIn(Now, IF exited THEN {} ELSE Open, p)] = AbsContent
         /\ [s \in Open |-> ViewIn(Now, s, Kept(s))] = AbsStream
BY DEF AbsContent, AbsStream

LEMMA AbsStreamFacts ==
  ASSUME Inv, NEW s \in Open
  PROVE  /\ DOMAIN AbsStream = Open
         /\ AbsStream[s] = ViewIn(Now, s, Kept(s))
         /\ AbsStream[s].path = Descriptor(Now, s).path /\ AbsStream[s].path \in Paths
         /\ AbsStream[s].pos = PositionIn(Now, s)
         /\ AbsStream[s].pushed = file[s].ungot
         /\ AbsStream[s].kept = Kept(s)
         /\ AbsStream[s].read = Descriptor(Now, s).mode.read
         /\ AbsStream[s].write = file[s].writable
         /\ AbsStream[s].append = Descriptor(Now, s).mode.append
         /\ AbsContent[AbsStream[s].path]
            = Overwrite(kernel.data[Descriptor(Now, s).path],
                        WritePos(kernel, Descriptor(Now, s)), Pending(Now, s))
<1>1. DOMAIN AbsStream = Open /\ AbsStream[s] = ViewIn(Now, s, Kept(s))
  BY DEF AbsStream
<1>2. Typed(Now) /\ Separate(Now, Open)
  BY InvFacts
<1>3. s \in DOMAIN Now.file /\ IsOpen(Now.kernel, Now.file[s].fd)
      /\ Descriptor(Now, s).mode.write = Now.file[s].writable
  BY <1>2, Zenon DEF Separate
<1>4. Now.file = file /\ Now.kernel = kernel
  BY DEF Now
<1>5. Descriptor(Now, s).path \in Paths
  BY <1>2, <1>3, DescriptorFacts
<1>6. AbsContent[Descriptor(Now, s).path] = ContentIn(Now, Open, Descriptor(Now, s).path)
  BY <1>5 DEF AbsContent
<1>7. ContentIn(Now, Open, Descriptor(Now, s).path)
      = Overwrite(kernel.data[Descriptor(Now, s).path],
                  WritePos(kernel, Descriptor(Now, s)), Pending(Now, s))
  <2>1. ContentIn(Now, Open, Descriptor(Now, s).path)
        = Overwrite(Now.kernel.data[Descriptor(Now, s).path],
                    WritePos(Now.kernel, Descriptor(Now, s)), Pending(Now, s))
    BY <1>2, HeldContent
  <2> QED BY <2>1, <1>4
<1>8. /\ AbsStream[s].path = Descriptor(Now, s).path
      /\ AbsStream[s].pos = PositionIn(Now, s)
      /\ AbsStream[s].pushed = Now.file[s].ungot
      /\ AbsStream[s].kept = Kept(s)
      /\ AbsStream[s].read = Descriptor(Now, s).mode.read
      /\ AbsStream[s].write = Descriptor(Now, s).mode.write
      /\ AbsStream[s].append = Descriptor(Now, s).mode.append
  <2>1. PICK k : k = Kept(s)
    OBVIOUS
  <2>2. /\ ViewIn(Now, s, k).path = Descriptor(Now, s).path
        /\ ViewIn(Now, s, k).pos = PositionIn(Now, s)
        /\ ViewIn(Now, s, k).pushed = Now.file[s].ungot
        /\ ViewIn(Now, s, k).kept = k
        /\ ViewIn(Now, s, k).read = Descriptor(Now, s).mode.read
        /\ ViewIn(Now, s, k).write = Descriptor(Now, s).mode.write
        /\ ViewIn(Now, s, k).append = Descriptor(Now, s).mode.append
    BY ViewFields
  <2>3. AbsStream[s] = ViewIn(Now, s, k)
    BY <1>1, <2>1, Zenon
  <2> QED BY <2>1, <2>2, <2>3, Zenon
<1> QED BY <1>1, <1>3, <1>4, <1>5, <1>6, <1>7, <1>8, Zenon

LEMMA AnswerFacts ==
  ASSUME NEW call, NEW ok, NEW err, NEW bytes, NEW n, Answer(call, ok, err, bytes, n)
  PROVE  /\ result'.call = call /\ result'.ok = ok /\ result'.err = err
         /\ result'.bytes = bytes /\ result'.n = n
BY DEF Answer

LEMMA OpenFacts ==
  ASSUME Inv, NEW s \in Open
  PROVE  /\ s \in DOMAIN file /\ s \in DOMAIN Now.file
         /\ IsOpen(kernel, file[s].fd) /\ file[s].fd \in DOMAIN kernel.fds
         /\ Now.file = file /\ Now.kernel = kernel /\ Now.damaged = damaged
         /\ Good(Now) /\ closed \subseteq Standard
         /\ Descriptor(Now, s).mode.write = file[s].writable
<1>1. Good(Now)
  BY GoodNow
<1>2. Now.file = file /\ Now.kernel = kernel /\ Now.damaged = damaged
  BY DEF Now
<1>3. s \in DOMAIN file
  BY DEF Open
<1> QED BY <1>1, <1>2, <1>3 DEF Inv, TypeOK, StreamsApart, DescriptorsDistinct, IsOpen

-----------------------------------------------------------------------------
(* The calls, one by one: each keeps the invariant and is the call of the  *)
(* abstract streams.                                                       *)

LEMMA FflushRefines ==
  ASSUME Inv, ~exited, NEW s \in Open, Fflush(s)
  PROVE  Inv' /\ ByteFiles!Flush
<1>1. PICK m \in Flushed(Now, s) : Set(m) /\ Answer("fflush", ~m.err, m.err, <<>>, 0)
  BY DEF Fflush
<1>2. UNCHANGED <<closed, tracked, exited>>
  BY DEF Fflush
<1>3. Good(m) /\ Follows(Now, m)
  BY FlushFollows, OpenFacts
<1>4. result'.call = "fflush" /\ result'.err = m.err
  BY <1>1, AnswerFacts
<1>5. Ends(m) /\ errors' \in 0 .. MaxErrors
  BY <1>1, <1>3, SetFacts DEF Good, Typed
<1>6. ByteFiles!Becomes(AbsContent, AbsStream) /\ ByteFiles!Keeps
  BY <1>2, <1>3, <1>4, <1>5, FollowsBecomes
<1>7. exited' \in BOOLEAN
  BY <1>2 DEF Inv, TypeOK
<1>8. Inv'
  BY <1>2, <1>3, <1>5, <1>7, InvKept
<1> QED BY <1>4, <1>6, <1>8, AbsHere DEF ByteFiles!Flush

LEMMA FflushAllRefines ==
  ASSUME Inv, ~exited, FflushAll
  PROVE  Inv' /\ ByteFiles!Flush
<1>1. PICK m \in AllFlushed : Set(m) /\ Answer("fflush", ~m.err, m.err, <<>>, 0)
  BY DEF FflushAll
<1>2. UNCHANGED <<closed, tracked, exited>>
  BY DEF FflushAll
<1>3. Good(m) /\ Follows(Now, m)
  BY AllFlushedFollows
<1>4. result'.call = "fflush" /\ result'.err = m.err
  BY <1>1, AnswerFacts
<1>5. Ends(m) /\ errors' \in 0 .. MaxErrors
  BY <1>1, <1>3, SetFacts DEF Good, Typed
<1>6. ByteFiles!Becomes(AbsContent, AbsStream) /\ ByteFiles!Keeps
  BY <1>2, <1>3, <1>4, <1>5, FollowsBecomes
<1>7. exited' \in BOOLEAN
  BY <1>2 DEF Inv, TypeOK
<1>8. Inv'
  BY <1>2, <1>3, <1>5, <1>7, InvKept
<1> QED BY <1>4, <1>6, <1>8, AbsHere DEF ByteFiles!Flush

LEMMA FtellRefines ==
  ASSUME Inv, ~exited, NEW s \in Open, Ftell(s)
  PROVE  Inv' /\ ByteFiles!Tell(s)
<1>1. PICK m \in Flushed(Now, s) :
        /\ Set(m)
        /\ \/ Answer("ftell", TRUE, m.err, <<>>, m.kernel.fds[file[s].fd].pos - Len(file[s].ungot))
           \/ Answer("ftell", FALSE, TRUE, <<>>, -1)
  BY DEF Ftell
<1>2. UNCHANGED <<closed, tracked, exited>>
  BY DEF Ftell
<1>3. /\ Good(m) /\ Follows(Now, m) /\ (Pending(m, s) # <<>> => m.err)
      /\ Pending(m, s) = <<>> => PositionIn(m, s) = PositionIn(Now, s)
  BY FlushFollows, OpenFacts
<1>4. /\ result'.call = "ftell" /\ (m.err => result'.err)
      /\ result'.err = TRUE \/ (/\ result'.err = m.err
                                /\ result'.n = m.kernel.fds[file[s].fd].pos - Len(file[s].ungot))
  <2>1. CASE Answer("ftell", TRUE, m.err, <<>>, m.kernel.fds[file[s].fd].pos - Len(file[s].ungot))
    <3>1. /\ result'.call = "ftell" /\ result'.err = m.err
          /\ result'.n = m.kernel.fds[file[s].fd].pos - Len(file[s].ungot)
      BY <2>1, AnswerFacts
    <3> QED BY <3>1, Zenon
  <2>2. CASE Answer("ftell", FALSE, TRUE, <<>>, -1)
    <3>1. result'.call = "ftell" /\ result'.err = TRUE
      BY <2>2, AnswerFacts
    <3> QED BY <3>1, Zenon
  <2> QED BY <1>1, <2>1, <2>2
<1>5. Ends(m) /\ errors' \in 0 .. MaxErrors
  BY <1>1, <1>3, SetFacts DEF Good, Typed
<1>6. ByteFiles!Becomes(AbsContent, AbsStream) /\ ByteFiles!Keeps
  BY <1>2, <1>3, <1>4, <1>5, FollowsBecomes
<1>7. exited' \in BOOLEAN
  BY <1>2 DEF Inv, TypeOK
<1>8. Inv'
  BY <1>2, <1>3, <1>5, <1>7, InvKept
<1>9. ~result'.err => result'.n = AbsStream[s].pos - Len(AbsStream[s].pushed)
  <2> SUFFICES ASSUME ~result'.err PROVE result'.n = AbsStream[s].pos - Len(AbsStream[s].pushed)
    OBVIOUS
  <2>1. ~m.err /\ result'.n = m.kernel.fds[file[s].fd].pos - Len(file[s].ungot)
    BY <1>4, Zenon
  <2>2. Pending(m, s) = <<>>
    BY <1>3, <2>1, Zenon
  <2>3. m.file[s].fd = file[s].fd
    BY <1>3, OpenFacts, FollowsPath
  <2>4. PositionIn(Now, s) = m.kernel.fds[file[s].fd].pos
    BY <1>3, <2>2, <2>3 DEF PositionIn, Descriptor
  <2> QED BY <2>1, <2>4, AbsStreamFacts
<1> QED BY <1>4, <1>6, <1>8, <1>9, AbsHere DEF ByteFiles!Tell

-----------------------------------------------------------------------------
(* Bytes that are lost or misplaced damage their files.                    *)

LEMMA LosesFollows ==
  ASSUME NEW m, Good(m), NEW S, S \subseteq DOMAIN m.file,
         \A t \in S : Pending(m, t) # <<>> => m.err \/ t \in closed
  PROVE  /\ Good(Loses(m, S)) /\ Follows(m, Loses(m, S))
         /\ Whole(Loses(m, S))
         /\ Loses(m, S).file = m.file /\ Loses(m, S).kernel = m.kernel
         /\ Loses(m, S).err = m.err
         /\ Loses(m, S).damaged
            = m.damaged \union {Descriptor(m, t).path : t \in Unflushed(m, S)}
<1> DEFINE r == Loses(m, S)
           D == m.damaged \union {Descriptor(m, t).path : t \in Unflushed(m, S)}
<1>1. m = [file |-> m.file, kernel |-> m.kernel, damaged |-> m.damaged, err |-> m.err]
  BY DEF Good, Typed, Whole
<1>2. r = [file |-> m.file, kernel |-> m.kernel, damaged |-> D, err |-> m.err]
  <2>1. r = [m EXCEPT !.damaged = D]
    BY DEF Loses
  <2> HIDE DEF r, D
  <2> QED BY <1>1, <2>1
<1> HIDE DEF r
<1>3. Whole(r) /\ r.file = m.file /\ r.kernel = m.kernel /\ r.damaged = D /\ r.err = m.err
  <2> HIDE DEF D
  <2> QED BY <1>2, Fields, Zenon
<1>4. \A t \in Unflushed(m, S) : Descriptor(m, t).path \in Paths
  BY DescriptorFacts DEF Unflushed, Good
<1>5. D \subseteq Paths /\ m.damaged \subseteq D
  BY <1>4 DEF Good, Typed
<1>6. Typed(r)
  <2> HIDE DEF D
  <2> QED BY <1>3, <1>5 DEF Good, Typed
<1>7. Separate(r, Open) /\ DOMAIN r.file = DOMAIN file
  <2>1. Separate(m, Open) /\ DOMAIN m.file = DOMAIN file
    BY DEF Good
  <2> QED BY <1>3, <2>1 DEF Separate, Descriptor
<1>8. ASSUME r.damaged # m.damaged PROVE r.err \/ StrayIn(m)
  <2>1. PICK t \in Unflushed(m, S) : TRUE
    BY <1>3, <1>8
  <2>2. Pending(m, t) # <<>> /\ t \in S
    BY DEF Unflushed
  <2>3. m.err \/ t \in closed
    BY <2>2
  <2> QED BY <1>3, <2>2, <2>3, Zenon DEF StrayIn
<1>9. /\ \A q, p : ContentIn(r, q, p) = ContentIn(m, q, p)
      /\ \A t : PositionIn(r, t) = PositionIn(m, t)
  BY <1>3, SameViews
<1>10. m.damaged \subseteq r.damaged
  BY <1>3, <1>5
<1>11. (m.err => r.err) /\ (r.damaged # m.damaged => r.err \/ StrayIn(m))
  BY <1>3, <1>8, Zenon
<1>12. \A t \in DOMAIN m.file : r.file[t].buf \in {m.file[t].buf, <<>>}
  BY <1>3
<1>13. Follows(m, r)
  BY <1>3, <1>9, <1>10, <1>11, <1>12, Zenon DEF Follows
<1> QED BY <1>3, <1>6, <1>7, <1>13, Zenon DEF Good, r, D

-----------------------------------------------------------------------------
(* A stream is moved, or bytes are pushed back.                            *)

Moves(m, s, u, j, y) ==
  /\ Whole(y) /\ y.err = m.err /\ y.damaged = m.damaged
  /\ y.file = [m.file EXCEPT ![s].ungot = u]
  /\ y.kernel = [fds |-> [m.kernel.fds EXCEPT ![m.file[s].fd].pos = j], data |-> m.kernel.data]

LEMMA MovesFacts ==
  ASSUME NEW m, Good(m), NEW s \in Open, NEW u \in Seq(Bytes), Len(u) <= UngetCap,
         NEW j \in Nat, NEW y, Moves(m, s, u, j, y)
  PROVE  /\ Good(y)
         /\ y.kernel.data = m.kernel.data
         /\ \A t \in DOMAIN m.file :
              /\ y.file[t].fd = m.file[t].fd /\ y.file[t].writable = m.file[t].writable
              /\ y.file[t].ungot = IF t = s THEN u ELSE m.file[t].ungot
              /\ Pending(y, t) = Pending(m, t)
         /\ \A t \in Open :
              /\ Descriptor(y, t).path = Descriptor(m, t).path
              /\ Descriptor(y, t).mode = Descriptor(m, t).mode
              /\ t # s => Descriptor(y, t) = Descriptor(m, t)
         /\ Descriptor(y, s).pos = j
<1> DEFINE fd == m.file[s].fd
<1>1. /\ Typed(m) /\ Separate(m, Open) /\ s \in DOMAIN m.file
      /\ IsOpen(m.kernel, fd) /\ fd \in DOMAIN m.kernel.fds
  BY DEF Good, Separate, IsOpen
<1>2. /\ m.kernel.fds \in [DOMAIN m.kernel.fds -> Descriptors]
      /\ m.file \in [DOMAIN m.file -> FileObjects]
  BY <1>1 DEF Typed
<1>3. /\ y.kernel.fds = [m.kernel.fds EXCEPT ![fd].pos = j] /\ y.kernel.data = m.kernel.data
      /\ y.kernel = [fds |-> y.kernel.fds, data |-> y.kernel.data]
      /\ y.file = [m.file EXCEPT ![s].ungot = u]
  <2> DEFINE f == [m.kernel.fds EXCEPT ![fd].pos = j]
  <2>1. y.kernel = [fds |-> f, data |-> m.kernel.data]
    BY DEF Moves
  <2>2. y.file = [m.file EXCEPT ![s].ungot = u]
    BY DEF Moves
  <2> HIDE DEF f
  <2>3. y.kernel.fds = f /\ y.kernel.data = m.kernel.data
        /\ y.kernel = [fds |-> y.kernel.fds, data |-> y.kernel.data]
    BY <2>1
  <2> QED BY <2>2, <2>3 DEF f
<1> HIDE DEF fd
<1>4. /\ y.kernel.fds \in [DOMAIN m.kernel.fds -> Descriptors]
      /\ DOMAIN y.kernel.fds = DOMAIN m.kernel.fds
      /\ \A x \in DOMAIN m.kernel.fds :
           /\ y.kernel.fds[x].path = m.kernel.fds[x].path
           /\ y.kernel.fds[x].mode = m.kernel.fds[x].mode
           /\ x # fd => y.kernel.fds[x] = m.kernel.fds[x]
      /\ y.kernel.fds[fd].pos = j
  <2> DEFINE z == [m.kernel.fds[fd] EXCEPT !.pos = j]
  <2>1. /\ z \in Descriptors /\ z.path = m.kernel.fds[fd].path
        /\ z.mode = m.kernel.fds[fd].mode /\ z.pos = j
    BY <1>1, <1>2 DEF Descriptors
  <2>2. y.kernel.fds = [m.kernel.fds EXCEPT ![fd] = z]
    BY <1>3
  <2> HIDE DEF z
  <2> QED BY <1>1, <1>2, <2>1, <2>2
<1>5. /\ y.file \in [DOMAIN m.file -> FileObjects] /\ DOMAIN y.file = DOMAIN m.file
      /\ \A t \in DOMAIN m.file :
           /\ y.file[t].fd = m.file[t].fd /\ y.file[t].writable = m.file[t].writable
           /\ y.file[t].buf = m.file[t].buf
           /\ y.file[t].ungot = IF t = s THEN u ELSE m.file[t].ungot
  <2> DEFINE z == [m.file[s] EXCEPT !.ungot = u]
  <2>1. /\ z \in FileObjects /\ z.fd = m.file[s].fd /\ z.writable = m.file[s].writable
        /\ z.buf = m.file[s].buf /\ z.ungot = u
    BY <1>1, <1>2 DEF FileObjects
  <2>2. y.file = [m.file EXCEPT ![s] = z]
    BY <1>3
  <2> HIDE DEF z
  <2> QED BY <1>1, <1>2, <2>1, <2>2
<1>6. Typed(y)
  <2>1. \A t \in DOMAIN m.file :
          Len(y.file[t].buf) <= BufCap /\ Len(y.file[t].ungot) <= UngetCap
    BY <1>1, <1>5 DEF Typed
  <2>2. Whole(y) /\ y.err = m.err /\ y.damaged = m.damaged
    BY DEF Moves
  <2> QED BY <1>1, <1>3, <1>4, <1>5, <2>1, <2>2 DEF Typed
<1>7. \A t \in Open : /\ t \in DOMAIN m.file /\ m.file[t].fd \in DOMAIN m.kernel.fds
                      /\ Descriptor(m, t) = m.kernel.fds[m.file[t].fd]
                      /\ Descriptor(y, t) = y.kernel.fds[m.file[t].fd]
                      /\ t # s => m.file[t].fd # fd
  BY <1>1, <1>5 DEF Separate, IsOpen, Descriptor, fd
<1>8. /\ \A t \in Open :
           /\ Descriptor(y, t).path = Descriptor(m, t).path
           /\ Descriptor(y, t).mode = Descriptor(m, t).mode
           /\ t # s => Descriptor(y, t) = Descriptor(m, t)
      /\ Descriptor(y, s).pos = j
  BY <1>4, <1>7 DEF fd
<1>9. Separate(y, Open)
  BY <1>1, <1>4, <1>5, <1>7, <1>8 DEF Separate, IsOpen
<1>10. \A t \in DOMAIN m.file : Pending(y, t) = Pending(m, t)
  BY <1>5 DEF Pending
<1> QED BY <1>3, <1>5, <1>6, <1>8, <1>9, <1>10 DEF Good

LEMMA NewFields ==
  ASSUME NEW m, Whole(m), NEW f, NEW k
  PROVE  [[m EXCEPT !.file = f] EXCEPT !.kernel = k]
         = [file |-> f, kernel |-> k, damaged |-> m.damaged, err |-> m.err]
<1>1. ASSUME NEW a, NEW b, NEW c, NEW d
      PROVE  [[file |-> a, kernel |-> b, damaged |-> c, err |-> d] EXCEPT !.file = f]
             = [file |-> f, kernel |-> b, damaged |-> c, err |-> d]
  OBVIOUS
<1>2. ASSUME NEW a, NEW b, NEW c, NEW d
      PROVE  [[file |-> a, kernel |-> b, damaged |-> c, err |-> d] EXCEPT !.kernel = k]
             = [file |-> a, kernel |-> k, damaged |-> c, err |-> d]
  OBVIOUS
<1>3. m = [file |-> m.file, kernel |-> m.kernel, damaged |-> m.damaged, err |-> m.err]
  BY Zenon DEF Whole
<1>4. [m EXCEPT !.file = f]
      = [file |-> f, kernel |-> m.kernel, damaged |-> m.damaged, err |-> m.err]
  BY <1>1, <1>3
<1>5. [[file |-> f, kernel |-> m.kernel, damaged |-> m.damaged, err |-> m.err] EXCEPT !.kernel = k]
      = [file |-> f, kernel |-> k, damaged |-> m.damaged, err |-> m.err]
  BY <1>2
<1> QED BY <1>4, <1>5, Zenon

LEMMA MoveRecord ==
  ASSUME NEW m, Good(m), NEW s \in Open, NEW u, NEW j
  PROVE  Moves(m, s, u, j, [m EXCEPT !.file[s].ungot = u, !.kernel.fds[m.file[s].fd].pos = j])
<1> DEFINE fd == m.file[s].fd
           f  == [m.file EXCEPT ![s].ungot = u]
           k  == [fds |-> [m.kernel.fds EXCEPT ![fd].pos = j], data |-> m.kernel.data]
           y  == [file |-> f, kernel |-> k, damaged |-> m.damaged, err |-> m.err]
<1>1. m = [file |-> m.file, kernel |-> m.kernel, damaged |-> m.damaged, err |-> m.err]
  BY DEF Good, Typed, Whole
<1>2. m.kernel = [fds |-> m.kernel.fds, data |-> m.kernel.data]
  BY DEF Good, Typed
<1>3. [m.kernel EXCEPT !.fds[fd].pos = j] = k
  <2> HIDE DEF fd
  <2> QED BY <1>2
<1>4. [m EXCEPT !.file[s].ungot = u, !.kernel.fds[m.file[s].fd].pos = j]
      = [[m EXCEPT !.file = f] EXCEPT !.kernel = [m.kernel EXCEPT !.fds[fd].pos = j]]
  <2> HIDE DEF fd
  <2>1. [m EXCEPT !.file[s].ungot = u] = [m EXCEPT !.file = f]
    OBVIOUS
  <2> DEFINE x == [m EXCEPT !.file = f]
  <2>2. x.kernel = m.kernel
    BY <1>1
  <2>3. [x EXCEPT !.kernel.fds[fd].pos = j] = [x EXCEPT !.kernel = [m.kernel EXCEPT !.fds[fd].pos = j]]
    <3> HIDE DEF x
    <3> QED BY <2>2
  <2> QED BY <2>1, <2>3 DEF fd
<1>5. [[m EXCEPT !.file = f] EXCEPT !.kernel = k] = y
  <2> HIDE DEF f, k
  <2> QED BY NewFields, Zenon DEF Good, Typed
<1>6. [m EXCEPT !.file[s].ungot = u, !.kernel.fds[m.file[s].fd].pos = j] = y
  <2> HIDE DEF f, k, y
  <2> QED BY <1>3, <1>4, <1>5
<1>7. Moves(m, s, u, j, y)
  <2>1. Whole(y) /\ y.file = f /\ y.kernel = k /\ y.damaged = m.damaged /\ y.err = m.err
    <3> HIDE DEF f, k
    <3> QED BY Fields
  <2> HIDE DEF y
  <2> QED BY <2>1, Zenon DEF Moves, f, k, fd
<1> HIDE DEF y
<1> QED BY <1>6, <1>7

(* The abstract streams with s at g and u pushed back in front of it.      *)
View(d, g, u, k) ==
  [path |-> d.path, pos |-> g, pushed |-> u, kept |-> k, read |-> d.mode.read,
   write |-> d.mode.write, append |-> d.mode.append]

Turn(s, g, u) == [AbsStream EXCEPT ![s] = View(Descriptor(Now, s), g, u, Kept(s))]

At(s, g)         == [AbsStream EXCEPT ![s].pos = g]
Pushed(st, s, u) == [st EXCEPT ![s].pushed = u]

LEMMA TurnIs ==
  ASSUME Inv, NEW s \in Open, NEW g, NEW u
  PROVE  /\ Pushed(At(s, g), s, u) = Turn(s, g, u)
         /\ Pushed(AbsStream, s, u) = Turn(s, AbsStream[s].pos, u)
         /\ At(s, g) = Turn(s, g, file[s].ungot)
<1> DEFINE d == Descriptor(Now, s)
<1>1. PICK k : k = Kept(s)
  OBVIOUS
<1>2. AbsStream[s] = View(d, PositionIn(Now, s), file[s].ungot, k)
  <2>1. AbsStream[s] = ViewIn(Now, s, k)
    BY <1>1, AbsStreamFacts, Zenon
  <2>2. Now.file = file
    BY OpenFacts
  <2> QED BY <2>1, <2>2, Zenon DEF ViewIn, View
<1>3. AbsStream[s].pos = PositionIn(Now, s) /\ s \in DOMAIN AbsStream
  BY AbsStreamFacts
<1>4. \A i, q, h : /\ [View(d, i, q, k) EXCEPT !.pos = h] = View(d, h, q, k)
                   /\ [View(d, i, q, k) EXCEPT !.pushed = h] = View(d, i, h, k)
  BY DEF View
<1> HIDE DEF d
<1>5. [AbsStream EXCEPT ![s].pos = g]
      = [AbsStream EXCEPT ![s] = View(d, g, file[s].ungot, k)]
  <2> DEFINE z == [AbsStream[s] EXCEPT !.pos = g]
  <2>1. [AbsStream EXCEPT ![s].pos = g] = [AbsStream EXCEPT ![s] = z]
    OBVIOUS
  <2>2. z = View(d, g, file[s].ungot, k)
    BY <1>2, <1>4
  <2> HIDE DEF z
  <2> QED BY <2>1, <2>2
<1>6. [AbsStream EXCEPT ![s].pushed = u]
      = [AbsStream EXCEPT ![s] = View(d, PositionIn(Now, s), u, k)]
  <2> DEFINE z == [AbsStream[s] EXCEPT !.pushed = u]
  <2>1. [AbsStream EXCEPT ![s].pushed = u] = [AbsStream EXCEPT ![s] = z]
    OBVIOUS
  <2>2. z = View(d, PositionIn(Now, s), u, k)
    BY <1>2, <1>4
  <2> HIDE DEF z
  <2> QED BY <2>1, <2>2
<1>7. Pushed(At(s, g), s, u) = [AbsStream EXCEPT ![s] = View(d, g, u, k)]
  <2> DEFINE st == [AbsStream EXCEPT ![s] = View(d, g, file[s].ungot, k)]
             z  == [st[s] EXCEPT !.pushed = u]
  <2>1. st[s] = View(d, g, file[s].ungot, k)
    BY <1>3
  <2>2. z = View(d, g, u, k)
    <3> HIDE DEF st
    <3> QED BY <2>1, <1>4
  <2>3. Pushed(st, s, u) = [st EXCEPT ![s] = z]
    BY DEF Pushed
  <2>4. [st EXCEPT ![s] = View(d, g, u, k)] = [AbsStream EXCEPT ![s] = View(d, g, u, k)]
    OBVIOUS
  <2>5. At(s, g) = st
    BY <1>5 DEF At
  <2> HIDE DEF st, z
  <2> QED BY <2>2, <2>3, <2>4, <2>5
<1>8. At(s, g) = Turn(s, g, file[s].ungot) /\ Pushed(AbsStream, s, u) = Turn(s, AbsStream[s].pos, u)
  BY <1>1, <1>3, <1>5, <1>6, Zenon DEF Turn, d, At, Pushed
<1>9. Pushed(At(s, g), s, u) = Turn(s, g, u)
  BY <1>1, <1>7, Zenon DEF Turn, d
<1> QED BY <1>8, <1>9

LEMMA MovesLooks ==
  ASSUME Inv, NEW m, Good(m), Follows(Now, m), NEW s \in Open,
         NEW u \in Seq(Bytes), Len(u) <= UngetCap, NEW j \in Nat, NEW y, Moves(m, s, u, j, y),
         NEW g, Descriptor(m, s).path \notin m.damaged =>
                  \/ Pending(m, s) = <<>> /\ g = j
                  \/ j = Descriptor(m, s).pos /\ g = PositionIn(Now, s)
  PROVE  Good(y) /\ Looks(y, AbsContent, Turn(s, g, u)) /\ (StrayIn(y) => StrayIn(m))
<1>1. /\ Good(y)
      /\ y.kernel.data = m.kernel.data
      /\ \A t \in DOMAIN m.file :
           /\ y.file[t].fd = m.file[t].fd /\ y.file[t].writable = m.file[t].writable
           /\ y.file[t].ungot = IF t = s THEN u ELSE m.file[t].ungot
           /\ Pending(y, t) = Pending(m, t)
      /\ \A t \in Open :
           /\ Descriptor(y, t).path = Descriptor(m, t).path
           /\ Descriptor(y, t).mode = Descriptor(m, t).mode
           /\ t # s => Descriptor(y, t) = Descriptor(m, t)
      /\ Descriptor(y, s).pos = j
  BY MovesFacts
<1> DEFINE p == Descriptor(m, s).path
<1>2. Looks(m, AbsContent, AbsStream)
  BY LooksNow, LooksFollows, GoodNow
<1>3. y.damaged = m.damaged
  BY DEF Moves
<1>4. /\ Open \subseteq DOMAIN m.file
      /\ \A t \in Open : Descriptor(m, t).path = p => t = s
      /\ Separate(m, Open) /\ Separate(y, Open) /\ DOMAIN m.file = DOMAIN file
  BY <1>1 DEF Good, Separate
<1>5. /\ Descriptor(m, s).path = Descriptor(Now, s).path
      /\ Descriptor(m, s).mode = Descriptor(Now, s).mode
  BY GoodNow, FollowsPath
<1>6. ASSUME p \notin m.damaged
      PROVE  /\ ContentIn(y, Open, p) = ContentIn(m, Open, p)
             /\ PositionIn(y, s) = g
  <2>1. ContentIn(m, Open, p)
        = Overwrite(m.kernel.data[p], WritePos(m.kernel, Descriptor(m, s)), Pending(m, s))
    BY <1>4, HeldContent
  <2>2. ContentIn(y, Open, p)
        = Overwrite(m.kernel.data[p], WritePos(y.kernel, Descriptor(y, s)), Pending(m, s))
    <3>1. ContentIn(y, Open, Descriptor(y, s).path)
          = Overwrite(y.kernel.data[Descriptor(y, s).path],
                      WritePos(y.kernel, Descriptor(y, s)), Pending(y, s))
      BY <1>4, HeldContent
    <3> HIDE DEF Open
    <3> QED BY <1>1, <1>4, <3>1
  <2>3. CASE Pending(m, s) = <<>> /\ g = j
    <3>1. ContentIn(y, Open, p) = m.kernel.data[p] /\ ContentIn(m, Open, p) = m.kernel.data[p]
      BY <2>1, <2>2, <2>3 DEF Overwrite
    <3>2. Pending(y, s) = <<>>
      BY <1>1, <1>4, <2>3
    <3> QED BY <1>1, <2>3, <3>1, <3>2 DEF PositionIn
  <2>4. CASE j = Descriptor(m, s).pos /\ g = PositionIn(Now, s)
    <3>1. WritePos(y.kernel, Descriptor(y, s)) = WritePos(m.kernel, Descriptor(m, s))
      BY <1>1, <2>4 DEF WritePos
    <3>2. Pending(y, s) = Pending(m, s)
      BY <1>1, <1>4
    <3>3. PositionIn(y, s) = PositionIn(m, s)
      BY <1>1, <2>4, <3>1, <3>2 DEF PositionIn
    <3>4. PositionIn(m, s) = PositionIn(Now, s)
      BY <1>5, <1>6, Zenon DEF Follows
    <3> QED BY <2>1, <2>2, <2>4, <3>1, <3>3, <3>4
  <2> QED BY <1>6, <2>3, <2>4
<1>7. ASSUME NEW q \in Paths, q # p
      PROVE  ContentIn(y, Open, q) = ContentIn(m, Open, q)
  <2>1. Undisturbed(m, Open, y, Open, q)
    <3>1. \A t \in Open : Descriptor(m, t).path = q =>
            /\ t \in Open /\ Descriptor(y, t).path = q
            /\ WritePos(y.kernel, Descriptor(y, t)) = WritePos(m.kernel, Descriptor(m, t))
            /\ Pending(y, t) = Pending(m, t)
      <4> SUFFICES ASSUME NEW t \in Open, Descriptor(m, t).path = q
                   PROVE  /\ Descriptor(y, t).path = q
                          /\ WritePos(y.kernel, Descriptor(y, t))
                             = WritePos(m.kernel, Descriptor(m, t))
                          /\ Pending(y, t) = Pending(m, t)
        OBVIOUS
      <4>1. t # s /\ t \in DOMAIN m.file
        BY <1>4, <1>7
      <4>2. Descriptor(y, t) = Descriptor(m, t) /\ Pending(y, t) = Pending(m, t)
        BY <1>1, <4>1
      <4> QED BY <1>1, <4>2 DEF WritePos
    <3>2. \A t \in Open : Descriptor(y, t).path = q => t \in Open /\ Descriptor(m, t).path = q
      BY <1>1
    <3> QED BY <1>1, <3>1, <3>2 DEF Undisturbed
  <2> HIDE DEF Open
  <2> QED BY <1>4, <2>1, SameContent
<1>8. \A q \in Paths \ y.damaged : ContentIn(y, Open, q) = AbsContent[q]
  <2> TAKE q \in Paths \ y.damaged
  <2>1. ContentIn(m, Open, q) = AbsContent[q]
    BY <1>2, <1>3 DEF Looks, LooksAs
  <2>2. ContentIn(y, Open, q) = ContentIn(m, Open, q)
    BY <1>3, <1>6, <1>7
  <2> QED BY <2>1, <2>2
<1>9. \A t \in Open : Matches(ViewIn(y, t, KeptBy(tracked, t)), Turn(s, g, u)[t], y.damaged)
  <2> TAKE t \in Open
  <2>0. PICK k : k = KeptBy(tracked, t)
    OBVIOUS
  <2>1. CASE t = s
    <3>1. Turn(s, g, u)[t] = View(Descriptor(Now, s), g, u, k)
      <4>1. s \in DOMAIN AbsStream /\ Kept(s) = KeptBy(tracked, s)
        BY DEF AbsStream, Kept, KeptBy
      <4>2. Turn(s, g, u)[s] = View(Descriptor(Now, s), g, u, Kept(s))
        BY <4>1 DEF Turn
      <4> QED BY <2>0, <2>1, <4>1, <4>2, Zenon
    <3> DEFINE d == Descriptor(Now, s)
               w == View(d, g, u, k)
    <3>2. Matches(w, w, y.damaged)
      BY DEF Matches, View
    <3>3. d.path \notin y.damaged => PositionIn(y, s) = g
      BY <1>3, <1>5, <1>6
    <3>4. w = [path |-> d.path, pos |-> g, pushed |-> u, kept |-> k, read |-> d.mode.read,
               write |-> d.mode.write, append |-> d.mode.append]
      BY DEF View
    <3>5. ViewIn(y, s, k)
          = [path |-> d.path, pos |-> PositionIn(y, s), pushed |-> u, kept |-> k,
             read |-> d.mode.read, write |-> d.mode.write, append |-> d.mode.append]
      <4>1. y.file[s].ungot = u
        BY <1>1, <1>4
      <4> QED BY <1>1, <1>5, <4>1, Zenon DEF ViewIn
    <3> HIDE DEF d, w
    <3>6. Matches(ViewIn(y, s, k), w, y.damaged)
      BY <3>2, <3>3, <3>4, <3>5, MatchesMoved
    <3> QED BY <2>0, <2>1, <3>1, <3>6, Zenon DEF w, d
  <2>2. CASE t # s
    <3>1. Turn(s, g, u)[t] = AbsStream[t]
      BY <2>2 DEF Turn, AbsStream
    <3>2. Matches(ViewIn(m, t, k), AbsStream[t], m.damaged)
      BY <1>2, <2>0, Zenon DEF Looks, LooksAs
    <3>3. t \in DOMAIN m.file
      BY <1>4
    <3>4. Descriptor(y, t) = Descriptor(m, t) /\ Pending(y, t) = Pending(m, t)
          /\ y.file[t].ungot = m.file[t].ungot
      BY <1>1, <2>2, <3>3
    <3>5. WritePos(y.kernel, Descriptor(y, t)) = WritePos(m.kernel, Descriptor(m, t))
      BY <1>1, <3>4 DEF WritePos
    <3>6. ViewIn(y, t, k) = ViewIn(m, t, k)
      BY <3>4, <3>5, Zenon DEF ViewIn, PositionIn
    <3> QED BY <1>3, <2>0, <3>1, <3>2, <3>6, Zenon
  <2> QED BY <2>1, <2>2
<1>10. DOMAIN Turn(s, g, u) = Open
  BY DEF Turn, AbsStream
<1>11. Looks(y, AbsContent, Turn(s, g, u))
  BY <1>8, <1>9, <1>10, Zenon DEF Looks, LooksAs
<1>12. StrayIn(y) => StrayIn(m)
  <2>1. closed \subseteq DOMAIN m.file
    BY <1>4 DEF Inv, TypeOK
  <2> QED BY <1>1, <2>1 DEF StrayIn
<1> QED BY <1>1, <1>11, <1>12

LEMMA KernelMoved ==
  ASSUME NEW m, Good(m), NEW s \in Open, NEW x
  PROVE  /\ [fds |-> [m.kernel.fds EXCEPT ![m.file[s].fd].pos = Descriptor(m, s).pos],
             data |-> m.kernel.data] = m.kernel
         /\ [m.kernel EXCEPT !.fds[m.file[s].fd].pos = x]
            = [fds |-> [m.kernel.fds EXCEPT ![m.file[s].fd].pos = x], data |-> m.kernel.data]
<1> DEFINE fd == m.file[s].fd
           z  == [m.kernel.fds[fd] EXCEPT !.pos = Descriptor(m, s).pos]
<1>1. /\ m.kernel = [fds |-> m.kernel.fds, data |-> m.kernel.data]
      /\ m.kernel.fds \in [DOMAIN m.kernel.fds -> Descriptors]
      /\ fd \in DOMAIN m.kernel.fds
  BY DEF Good, Typed, Separate, IsOpen
<1>2. m.kernel.fds[fd] \in Descriptors /\ Descriptor(m, s) = m.kernel.fds[fd]
  BY <1>1 DEF Descriptor
<1>3. z = m.kernel.fds[fd]
  BY <1>2 DEF Descriptors
<1>4. [m.kernel.fds EXCEPT ![fd].pos = Descriptor(m, s).pos] = [m.kernel.fds EXCEPT ![fd] = z]
  OBVIOUS
<1> HIDE DEF z, fd
<1>5. [m.kernel.fds EXCEPT ![fd] = z] = m.kernel.fds
  BY <1>1, <1>3
<1>6. [fds |-> [m.kernel.fds EXCEPT ![fd].pos = Descriptor(m, s).pos], data |-> m.kernel.data]
      = m.kernel
  BY <1>1, <1>4, <1>5
<1>7. [m.kernel EXCEPT !.fds[fd].pos = x]
      = [fds |-> [m.kernel.fds EXCEPT ![fd].pos = x], data |-> m.kernel.data]
  BY <1>1
<1> QED BY <1>6, <1>7 DEF fd

LEMMA UngetcRefines ==
  ASSUME Inv, ~exited, NEW s \in Open, NEW b \in Bytes, Ungetc(s, b)
  PROVE  Inv' /\ ByteFiles!Unget(s, b)
<1>1. UNCHANGED <<closed, tracked, kernel, damaged, exited, errors>>
  BY DEF Ungetc
<1>2. exited' \in BOOLEAN /\ errors' \in 0 .. MaxErrors
  BY <1>1 DEF Inv, TypeOK
<1>3. /\ file[s].ungot \in Seq(Bytes) /\ Len(file[s].ungot) \in Nat
      /\ Len(file[s].ungot) <= UngetCap /\ UngetCap \in Nat
  <2>1. file[s].ungot \in Seq(Bytes)
    BY OpenFacts, FileFacts DEF Good
  <2> QED BY <2>1, OpenFacts, LenProperties, StreamsAssumption DEF Inv, TypeOK
<1>4. CASE Len(file[s].ungot) >= UngetCap
  <2>1. file' = file /\ Answer("ungetc", FALSE, FALSE, <<>>, 0)
    BY <1>4 DEF Ungetc
  <2>2. result'.call = "ungetc" /\ result'.ok = FALSE
    BY <2>1, AnswerFacts
  <2>3. Good(Now) /\ Follows(Now, Now) /\ Now.err = FALSE
    BY GoodNow, FollowsSelf DEF Now
  <2>4. Ends(Now)
    BY <1>1, <2>1 DEF Ends, Now
  <2>5. ByteFiles!Becomes(AbsContent, AbsStream) /\ ByteFiles!Keeps
    BY <1>1, <2>3, <2>4, FollowsBecomes
  <2>6. Inv'
    BY <1>1, <1>2, <2>3, <2>4, InvKept
  <2>7. Len(AbsStream[s].pushed) = UngetCap
    BY <1>3, <1>4, AbsStreamFacts
  <2> QED BY <2>2, <2>5, <2>6, <2>7, AbsHere DEF ByteFiles!Unget
<1>5. CASE ~(Len(file[s].ungot) >= UngetCap)
  <2> DEFINE u == Append(file[s].ungot, b)
             f == [file EXCEPT ![s].ungot = u]
             y == [file |-> f, kernel |-> kernel, damaged |-> damaged, err |-> FALSE]
             j == Descriptor(Now, s).pos
  <2>1. file' = f /\ Answer("ungetc", TRUE, FALSE, <<>>, 0)
    BY <1>5 DEF Ungetc
  <2>2. result'.call = "ungetc" /\ result'.ok = TRUE
    BY <2>1, AnswerFacts
  <2>3. u \in Seq(Bytes) /\ Len(u) <= UngetCap
    <3>1. u \in Seq(Bytes) /\ Len(u) = Len(file[s].ungot) + 1
      BY <1>3, AppendProperties
    <3> QED BY <1>3, <1>5, <3>1
  <2> HIDE DEF u
  <2>4. Whole(y) /\ y.file = f /\ y.kernel = kernel /\ y.damaged = damaged /\ y.err = FALSE
    <3> HIDE DEF f
    <3> QED BY Fields, Zenon
  <2> HIDE DEF y
  <2>5. j \in Nat
    BY OpenFacts, DescriptorFacts DEF Good
  <2>6. Moves(Now, s, u, j, y)
    <3>1. Now.err = FALSE
      BY DEF Now
    <3>2. kernel = [fds |-> [kernel.fds EXCEPT ![file[s].fd].pos = j], data |-> kernel.data]
      BY KernelMoved, OpenFacts
    <3> QED BY <2>4, <3>1, <3>2, OpenFacts DEF Moves
  <2> DEFINE g == PositionIn(Now, s)
  <2>7. Good(y) /\ Looks(y, AbsContent, Turn(s, g, u)) /\ (StrayIn(y) => StrayIn(Now))
    <3> HIDE DEF j
    <3>1. j = Descriptor(Now, s).pos /\ g = PositionIn(Now, s)
      BY DEF j
    <3> HIDE DEF g
    <3> QED BY <2>3, <2>5, <2>6, <3>1, OpenFacts, FollowsSelf, MovesLooks
  <2>8. Ends(y)
    BY <1>1, <2>1, <2>4 DEF Ends
  <2>9. ByteFiles!Becomes(AbsContent, Turn(s, g, u)) /\ ByteFiles!Keeps
    <3>1. damaged \subseteq y.damaged /\ ~(y.damaged # damaged)
      BY <2>4
    <3>2. ByteFiles!Becomes(AbsContent, Turn(s, g, u))
      <4> HIDE DEF g
      <4> QED BY <1>1, <2>7, <2>8, <3>1, LooksBecomes
    <3> QED BY <1>1, <2>7, <2>8, <3>2, StrayKeeps
  <2>10. Inv'
    BY <1>1, <1>2, <2>7, <2>8, InvKept
  <2>11. /\ Turn(s, g, u) = [AbsStream EXCEPT ![s].pushed = Append(@, b)]
         /\ Len(AbsStream[s].pushed) < UngetCap
    <3>1. AbsStream[s].pushed = file[s].ungot /\ AbsStream[s].pos = g
      BY AbsStreamFacts
    <3>2. [AbsStream EXCEPT ![s].pushed = Append(AbsStream[s].pushed, b)]
          = Pushed(AbsStream, s, u)
      BY <3>1 DEF u, Pushed
    <3>3. Pushed(AbsStream, s, u) = Turn(s, AbsStream[s].pos, u)
      BY TurnIs
    <3>4. Turn(s, g, u) = [AbsStream EXCEPT ![s].pushed = Append(@, b)]
      BY <3>1, <3>2, <3>3
    <3> QED BY <1>3, <1>5, <3>1, <3>4
  <2> HIDE DEF g
  <2> QED BY <2>2, <2>9, <2>10, <2>11, AbsHere DEF ByteFiles!Unget
<1> QED BY <1>4, <1>5

(* What is left to read, what of it the descriptor gives, and how many of  *)
(* the bytes pushed back go.                                               *)
Unread(s) ==
  SubSeq(kernel.data[Descriptor(Now, s).path], Descriptor(Now, s).pos + 1,
         Len(kernel.data[Descriptor(Now, s).path]))
Rest(s) == IF Descriptor(Now, s).mode.read THEN Unread(s) ELSE <<>>
Dropped(s, n) == Min({n, Len(file[s].ungot)})
Remaining(s, n) == SubSeq(file[s].ungot, 1, Len(file[s].ungot) - Dropped(s, n))

LEMMA HereFacts ==
  ASSUME Inv, NEW s \in Open
  PROVE  /\ Descriptor(Now, s) = kernel.fds[file[s].fd]
         /\ Descriptor(Now, s).pos \in Nat /\ Descriptor(Now, s).path \in Paths
         /\ Descriptor(Now, s).mode \in Modes
         /\ kernel.data[Descriptor(Now, s).path] \in Seq(Bytes)
         /\ Len(kernel.data[Descriptor(Now, s).path]) \in Nat
         /\ file[s].ungot \in Seq(Bytes) /\ Len(file[s].ungot) \in Nat
         /\ Len(file[s].ungot) <= UngetCap /\ UngetCap \in Nat
<1>1. /\ Good(Now) /\ Typed(Now) /\ IsOpen(kernel, file[s].fd) /\ s \in DOMAIN file
      /\ Now.file = file /\ Now.kernel = kernel
  BY OpenFacts DEF Good
<1>2. /\ Descriptor(Now, s) = kernel.fds[file[s].fd]
      /\ Descriptor(Now, s).pos \in Nat /\ Descriptor(Now, s).path \in Paths
      /\ Descriptor(Now, s).mode \in Modes
      /\ kernel.data[Descriptor(Now, s).path] \in Content
  BY <1>1, DescriptorFacts
<1>3. file[s].ungot \in Seq(Bytes)
  BY <1>1, FileFacts
<1>4. Len(file[s].ungot) <= UngetCap
  BY <1>1 DEF Inv, TypeOK
<1> QED BY <1>2, <1>3, <1>4, LenProperties, StreamsAssumption DEF Content

LEMMA ReadFacts ==
  ASSUME Inv, NEW s \in Open, NEW n \in 1 .. MaxRead
  PROVE  /\ Unread(s) \in Seq(Bytes) /\ Len(Unread(s)) \in Nat
         /\ Rest(s) \in Seq(Bytes) /\ Len(Rest(s)) \in Nat
         /\ n \in Nat /\ Dropped(s, n) \in Nat
         /\ Dropped(s, n) <= n /\ Dropped(s, n) <= Len(file[s].ungot)
         /\ Dropped(s, n) = IF Len(file[s].ungot) < n THEN Len(file[s].ungot) ELSE n
         /\ Remaining(s, n) \in Seq(Bytes) /\ Len(Remaining(s, n)) <= UngetCap
<1> DEFINE data == kernel.data[Descriptor(Now, s).path]
           pos  == Descriptor(Now, s).pos
           ungot == file[s].ungot
<1>1. pos \in Nat /\ data \in Seq(Bytes) /\ Len(data) \in Nat
      /\ ungot \in Seq(Bytes) /\ Len(ungot) \in Nat /\ Len(ungot) <= UngetCap
      /\ UngetCap \in Nat
  BY HereFacts
<1>2. Unread(s) = SubSeq(data, pos + 1, Len(data))
  BY DEF Unread
<1>3. n \in Nat
  BY StreamsAssumption
<1>4. Dropped(s, n) = IF n <= Len(ungot) THEN n ELSE Len(ungot)
  BY <1>1, <1>3, MinOfTwo DEF Dropped
<1>5. Remaining(s, n) = SubSeq(ungot, 1, Len(ungot) - Dropped(s, n))
  BY DEF Remaining
<1> HIDE DEF data, pos, ungot
<1>6. Unread(s) \in Seq(Bytes)
  <2>1. \A i \in pos + 1 .. Len(data) : data[i] \in Bytes
    <3>1. \A i \in pos + 1 .. Len(data) : i \in 1 .. Len(data)
      BY <1>1
    <3> QED BY <1>1, <3>1, ElementOfSeq
  <2> QED BY <1>1, <1>2, <2>1, SubSeqProperties
<1>7. Rest(s) \in Seq(Bytes)
  <2>1. <<>> \in Seq(Bytes)
    BY EmptySeq
  <2> QED BY <1>6, <2>1 DEF Rest
<1>8. /\ Dropped(s, n) \in Nat /\ Dropped(s, n) <= n /\ Dropped(s, n) <= Len(ungot)
      /\ Dropped(s, n) = IF Len(ungot) < n THEN Len(ungot) ELSE n
  BY <1>1, <1>3, <1>4
<1>9. Remaining(s, n) \in Seq(Bytes) /\ Len(Remaining(s, n)) <= UngetCap
  <2> DEFINE l == Len(ungot) - Dropped(s, n)
  <2>1. l \in Nat /\ l <= Len(ungot)
    BY <1>1, <1>8
  <2>2. Remaining(s, n) = SubSeq(ungot, 1, l)
    BY <1>5
  <2> HIDE DEF l
  <2>3. \A i \in 1 .. l : ungot[i] \in Bytes
    <3>1. \A i \in 1 .. l : i \in 1 .. Len(ungot)
      BY <1>1, <2>1
    <3> QED BY <1>1, <3>1, ElementOfSeq
  <2>4. Remaining(s, n) \in Seq(Bytes) /\ Len(Remaining(s, n)) = IF 1 <= l THEN l - 1 + 1 ELSE 0
    BY <2>1, <2>2, <2>3, SubSeqProperties
  <2> QED BY <1>1, <2>1, <2>4
<1>10. Len(Unread(s)) \in Nat /\ Len(Rest(s)) \in Nat
  BY <1>6, <1>7, LenProperties
<1> QED BY <1>3, <1>6, <1>7, <1>8, <1>9, <1>10 DEF ungot

LEMMA FreadStep ==
  ASSUME Inv, NEW s \in Open, NEW n \in 1 .. MaxRead, Fread(s, n)
  PROVE  /\ Pending(Now, s) = <<>>
         /\ UNCHANGED <<closed, tracked, damaged, exited, errors>>
         /\ \E m \in Nat, err \in BOOLEAN :
              /\ m <= n - Dropped(s, n) /\ m <= Len(Rest(s))
              /\ err \/ Dropped(s, n) + m = n
                 \/ (m = Len(Rest(s)) /\ Descriptor(Now, s).mode.read)
              /\ kernel' = IF m = 0 THEN kernel
                           ELSE [kernel EXCEPT !.fds[file[s].fd].pos = Descriptor(Now, s).pos + m]
              /\ file' = [file EXCEPT ![s].ungot = Remaining(s, n)]
              /\ Answer("fread", ~err, err,
                        Latest(file[s].ungot, Dropped(s, n)) \o SubSeq(Rest(s), 1, m),
                        Dropped(s, n) + m)
<1> DEFINE d == Descriptor(Now, s)
           k == Dropped(s, n)
           rest == Rest(s)
<1>1. kernel.fds[file[s].fd] = d /\ IsOpen(kernel, file[s].fd)
  BY HereFacts, OpenFacts
<1>2. rest = IF IsOpen(kernel, file[s].fd) /\ d.mode.read
             THEN SubSeq(kernel.data[d.path], d.pos + 1, Len(kernel.data[d.path])) ELSE <<>>
  BY <1>1 DEF Rest, Unread
<1>3. k = Min({n, Len(file[s].ungot)})
  BY DEF Dropped
<1>4. Remaining(s, n) = SubSeq(file[s].ungot, 1, Len(file[s].ungot) - k)
  BY DEF Remaining
<1> HIDE DEF d, k, rest
<1>5. PICK m \in 0 .. Min({n - k, Len(rest)}), err \in BOOLEAN :
        /\ ~err => k + m = n \/ (m = Len(rest) /\ d.mode.read)
        /\ kernel' = IF m = 0 THEN kernel ELSE [kernel EXCEPT !.fds[file[s].fd].pos = @ + m]
        /\ file' = [file EXCEPT ![s].ungot = SubSeq(@, 1, Len(@) - k)]
        /\ Answer("fread", ~err, err, Latest(file[s].ungot, k) \o SubSeq(rest, 1, m), k + m)
  BY <1>1, <1>2, <1>3, Zenon DEF Fread
<1>6. Pending(Now, s) = <<>> /\ UNCHANGED <<closed, tracked, damaged, exited, errors>>
  BY DEF Fread
<1>7. /\ n \in Nat /\ k \in Nat /\ k <= n /\ Len(rest) \in Nat
  BY ReadFacts DEF k, rest
<1>8. Min({n - k, Len(rest)}) = IF n - k <= Len(rest) THEN n - k ELSE Len(rest)
  <2>1. n - k \in Nat
    BY <1>7
  <2> QED BY <1>7, <2>1, MinOfTwo
<1>9. m \in Nat /\ m <= n - k /\ m <= Len(rest)
  BY <1>5, <1>7, <1>8
<1>10. kernel' = IF m = 0 THEN kernel ELSE [kernel EXCEPT !.fds[file[s].fd].pos = d.pos + m]
  BY <1>1, <1>5
<1>11. file' = [file EXCEPT ![s].ungot = Remaining(s, n)]
  BY <1>4, <1>5
<1>12. err \/ k + m = n \/ (m = Len(rest) /\ d.mode.read)
  BY <1>5
<1> QED BY <1>5, <1>6, <1>9, <1>10, <1>11, <1>12, Zenon DEF d, k, rest

LEMMA FreadRefines ==
  ASSUME Inv, ~exited, NEW s \in Open, NEW n \in 1 .. MaxRead, Fread(s, n)
  PROVE  Inv' /\ ByteFiles!Get(s, n)
<1> DEFINE f    == file[s]
           k    == Dropped(s, n)
           d    == Descriptor(Now, s)
           data == kernel.data[d.path]
           all  == Unread(s)
           rest == Rest(s)
           u    == Remaining(s, n)
           y    == [file |-> file', kernel |-> kernel', damaged |-> damaged, err |-> FALSE]
<1>1. /\ Good(Now) /\ Now.file = file /\ Now.kernel = kernel /\ Now.damaged = damaged
  BY OpenFacts
<1>2. /\ d = kernel.fds[f.fd] /\ d.pos \in Nat
  BY HereFacts
<1>3. /\ all \in Seq(Bytes) /\ Len(all) \in Nat /\ rest \in Seq(Bytes) /\ Len(rest) \in Nat
      /\ n \in Nat /\ k \in Nat /\ k <= n /\ u \in Seq(Bytes) /\ Len(u) <= UngetCap
      /\ k = IF Len(f.ungot) < n THEN Len(f.ungot) ELSE n
  BY ReadFacts
<1>4. rest = (IF d.mode.read THEN all ELSE <<>>)
      /\ all = SubSeq(data, d.pos + 1, Len(data))
      /\ u = SubSeq(f.ungot, 1, Len(f.ungot) - k)
  BY DEF Rest, Unread, Remaining
<1>5. PICK m \in Nat, err \in BOOLEAN :
        /\ m <= n - k /\ m <= Len(rest)
        /\ err \/ k + m = n \/ (m = Len(rest) /\ d.mode.read)
        /\ kernel' = IF m = 0 THEN kernel ELSE [kernel EXCEPT !.fds[f.fd].pos = d.pos + m]
        /\ file' = [file EXCEPT ![s].ungot = u]
        /\ Answer("fread", ~err, err, Latest(f.ungot, k) \o SubSeq(rest, 1, m), k + m)
  BY FreadStep
<1>7. /\ Pending(Now, s) = <<>>
      /\ UNCHANGED <<closed, tracked, damaged, exited, errors>>
  BY FreadStep
<1> HIDE DEF k, d, f, data, all, rest, u
<1>12. kernel' = [fds |-> [kernel.fds EXCEPT ![f.fd].pos = d.pos + m], data |-> kernel.data]
  <2>1. /\ [fds |-> [kernel.fds EXCEPT ![f.fd].pos = d.pos], data |-> kernel.data] = kernel
        /\ [kernel EXCEPT !.fds[f.fd].pos = d.pos + m]
           = [fds |-> [kernel.fds EXCEPT ![f.fd].pos = d.pos + m], data |-> kernel.data]
    <3> DEFINE v == d.pos + m
    <3> HIDE DEF v
    <3>1. /\ [fds |-> [Now.kernel.fds EXCEPT ![Now.file[s].fd].pos = Descriptor(Now, s).pos],
              data |-> Now.kernel.data] = Now.kernel
          /\ [Now.kernel EXCEPT !.fds[Now.file[s].fd].pos = v]
             = [fds |-> [Now.kernel.fds EXCEPT ![Now.file[s].fd].pos = v],
                data |-> Now.kernel.data]
      BY <1>1, KernelMoved, Zenon
    <3> QED BY <1>1, <3>1, ZenonT(60) DEF f, d, v
  <2>2. CASE m = 0
    <3>1. kernel' = kernel /\ d.pos + m = d.pos
      BY <1>2, <1>5, <2>2
    <3> QED BY <2>1, <3>1
  <2>3. CASE m # 0
    <3>1. kernel' = [kernel EXCEPT !.fds[f.fd].pos = d.pos + m]
      BY <1>5, <2>3
    <3> QED BY <2>1, <3>1
  <2> QED BY <2>2, <2>3
<1>13. Whole(y) /\ y.file = file' /\ y.kernel = kernel' /\ y.damaged = damaged /\ y.err = FALSE
  BY Fields, Zenon
<1> HIDE DEF y
<1>14. Moves(Now, s, u, d.pos + m, y)
  <2>1. Now.err = FALSE
    BY DEF Now
  <2> QED BY <1>1, <1>5, <1>12, <1>13, <2>1 DEF Moves, f
<1>15. PositionIn(Now, s) = d.pos
  BY <1>7 DEF PositionIn, d
<1> DEFINE g == d.pos + m
<1>16. Good(y) /\ Looks(y, AbsContent, Turn(s, g, u)) /\ (StrayIn(y) => StrayIn(Now))
  <2>1. g \in Nat
    BY <1>2
  <2>2. Moves(Now, s, u, g, y)
    BY <1>14
  <2> HIDE DEF g
  <2> QED BY <1>1, <1>3, <1>7, <2>1, <2>2, FollowsSelf, MovesLooks DEF d
<1>17. Ends(y)
  BY <1>7, <1>13 DEF Ends
<1>18. /\ result'.call = "fread" /\ result'.err = err
       /\ result'.bytes = Latest(f.ungot, k) \o SubSeq(rest, 1, m)
  <2> DEFINE bs == Latest(f.ungot, k) \o SubSeq(rest, 1, m)
             ok == ~err
             l  == k + m
  <2>1. Answer("fread", ok, err, bs, l)
    BY <1>5
  <2> HIDE DEF bs, ok, l
  <2>2. result'.call = "fread" /\ result'.err = err /\ result'.bytes = bs
    BY <2>1, AnswerFacts, Zenon
  <2> QED BY <2>2, Zenon DEF bs
<1>19. ByteFiles!Becomes(AbsContent, Turn(s, g, u)) /\ ByteFiles!Keeps
  <2>1. damaged \subseteq y.damaged /\ ~(y.damaged # damaged)
    BY <1>13
  <2>2. ByteFiles!Becomes(AbsContent, Turn(s, g, u))
    <3> HIDE DEF g
    <3> QED BY <1>7, <1>16, <1>17, <2>1, LooksBecomes
  <2> QED BY <1>7, <1>16, <1>17, StrayKeeps, <2>2
<1>20. Inv'
  <2>1. exited' \in BOOLEAN /\ errors' \in 0 .. MaxErrors
    BY <1>7 DEF Inv, TypeOK
  <2> QED BY <1>7, <1>16, <1>17, <2>1, InvKept
<1>21. /\ AbsStream[s].path = d.path /\ AbsStream[s].pos = d.pos
       /\ AbsStream[s].pushed = f.ungot /\ AbsStream[s].read = d.mode.read
       /\ AbsContent[AbsStream[s].path] = data
  <2>1. AbsContent[AbsStream[s].path] = Overwrite(data, WritePos(kernel, d), <<>>)
    BY <1>7, AbsStreamFacts DEF d, data
  <2>2. AbsContent[AbsStream[s].path] = data
    BY <2>1 DEF Overwrite
  <2> QED BY <1>15, <2>2, AbsStreamFacts DEF f, d
<1>22. Turn(s, g, u) = [AbsStream EXCEPT ![s].pos = @ + m, ![s].pushed = SubSeq(@, 1, Len(@) - k)]
  <2> DEFINE st == [AbsStream EXCEPT ![s].pos = @ + m]
  <2>1. Pushed(At(s, g), s, u) = Turn(s, g, u) /\ At(s, g) = Turn(s, g, file[s].ungot)
    <3> HIDE DEF g
    <3> QED BY TurnIs
  <2>2. st = At(s, g)
    BY <1>21 DEF At
  <2>3. [AbsStream EXCEPT ![s].pos = @ + m, ![s].pushed = SubSeq(@, 1, Len(@) - k)]
        = [st EXCEPT ![s].pushed = SubSeq(@, 1, Len(@) - k)]
    OBVIOUS
  <2> HIDE DEF st
  <2>4. st[s].pushed = f.ungot
    <3>1. s \in DOMAIN AbsStream
      BY AbsStreamFacts
    <3> HIDE DEF g
    <3> QED BY <2>1, <2>2, <3>1 DEF Turn, View, f
  <2>5. [st EXCEPT ![s].pushed = SubSeq(@, 1, Len(@) - k)] = Pushed(st, s, u)
    BY <1>4, <2>4 DEF Pushed
  <2> QED BY <2>1, <2>2, <2>3, <2>5
<1>23. /\ m \in 0 .. n - k /\ m <= Len(all) /\ (m > 0 => d.mode.read)
       /\ SubSeq(rest, 1, m) = SubSeq(all, 1, m)
       /\ err \/ k + m = n \/ m = Len(all)
  <2>1. CASE d.mode.read
    <3>1. rest = all
      BY <1>4, <2>1, Zenon
    <3>2. m \in 0 .. n - k /\ m <= Len(all)
      BY <1>3, <1>5, <3>1
    <3>3. err \/ k + m = n \/ m = Len(all)
      BY <1>5, <3>1, Zenon
    <3> QED BY <2>1, <3>1, <3>2, <3>3, Zenon
  <2>2. CASE ~d.mode.read
    <3>1. m = 0
      BY <1>4, <1>5, <2>2
    <3>2. SubSeq(rest, 1, m) = <<>> /\ SubSeq(all, 1, m) = <<>>
      BY <3>1, SubSeqEmpty
    <3>3. err \/ k + m = n
      BY <1>5, <2>2
    <3> QED BY <1>3, <3>1, <3>2, <3>3
  <2> QED BY <2>1, <2>2
<1>24. Latest(f.ungot, k) = ByteFiles!Latest(f.ungot, k)
  BY DEF Latest, ByteFiles!Latest
<1> HIDE DEF g
<1> DEFINE x == AbsStream[s]
           kk == IF Len(x.pushed) < n THEN Len(x.pushed) ELSE n
           r  == SubSeq(AbsContent[x.path], x.pos + 1, Len(AbsContent[x.path]))
<1>25. kk = k /\ r = all
  BY <1>3, <1>4, <1>21
<1> DEFINE Q(i) ==
             /\ i <= Len(r) /\ (i > 0 => x.read)
             /\ ByteFiles!Becomes(AbsContent, [AbsStream EXCEPT ![s].pos = @ + i,
                                                  ![s].pushed = SubSeq(@, 1, Len(@) - kk)])
             /\ result'.bytes = ByteFiles!Latest(x.pushed, kk) \o SubSeq(r, 1, i)
             /\ kk + i = n \/ i = Len(r) \/ result'.err
<1>26. Q(m) /\ m \in 0 .. n - kk
  <2> HIDE DEF kk, r
  <2>1. m <= Len(r) /\ (m > 0 => x.read) /\ m \in 0 .. n - kk
    BY <1>21, <1>23, <1>25
  <2>2. ByteFiles!Becomes(AbsContent, [AbsStream EXCEPT ![s].pos = @ + m,
                                          ![s].pushed = SubSeq(@, 1, Len(@) - kk)])
    BY <1>19, <1>22, <1>25
  <2>3. result'.bytes = ByteFiles!Latest(x.pushed, kk) \o SubSeq(r, 1, m)
    BY <1>18, <1>21, <1>23, <1>24, <1>25
  <2>4. kk + m = n \/ m = Len(r) \/ result'.err
    BY <1>18, <1>23, <1>25, Zenon
  <2> QED BY <2>1, <2>2, <2>3, <2>4
<1>27. \E i \in 0 .. n - kk : Q(i)
  <2> HIDE DEF Q, kk
  <2> QED BY <1>26
<1> QED BY <1>18, <1>19, <1>20, <1>27, AbsHere DEF ByteFiles!Get

LEMMA DropRecord ==
  ASSUME NEW m, Good(m), NEW s \in Open, NEW u
  PROVE  Moves(m, s, u, Descriptor(m, s).pos, [m EXCEPT !.file[s].ungot = u])
<1> DEFINE f == [m.file EXCEPT ![s].ungot = u]
           y == [file |-> f, kernel |-> m.kernel, damaged |-> m.damaged, err |-> m.err]
           j == Descriptor(m, s).pos
<1>1. m = [file |-> m.file, kernel |-> m.kernel, damaged |-> m.damaged, err |-> m.err]
  BY DEF Good, Typed, Whole
<1>2. [m EXCEPT !.file[s].ungot = u] = [m EXCEPT !.file = f]
  OBVIOUS
<1>3. [m EXCEPT !.file = f] = y
  <2> HIDE DEF f
  <2> QED BY <1>1
<1>4. Whole(y) /\ y.file = f /\ y.kernel = m.kernel /\ y.damaged = m.damaged /\ y.err = m.err
  <2> HIDE DEF f
  <2> QED BY Fields
<1>5. [fds |-> [m.kernel.fds EXCEPT ![m.file[s].fd].pos = j], data |-> m.kernel.data] = m.kernel
  BY KernelMoved
<1> HIDE DEF y, j
<1>6. Moves(m, s, u, j, y)
  BY <1>4, <1>5 DEF Moves
<1> QED BY <1>2, <1>3, <1>6 DEF j

(* Where a seek starts from in the kernel, and where it does for files     *)
(* without buffers.                                                        *)
From(m, s, whence) ==
  CASE whence = "SEEK_SET" -> 0
    [] whence = "SEEK_CUR" -> m.kernel.fds[file[s].fd].pos
    [] whence = "SEEK_END" -> Len(m.kernel.data[PathOf(s)])

AbsFrom(s, whence) ==
  CASE whence = "SEEK_SET" -> 0
    [] whence = "SEEK_CUR" -> AbsStream[s].pos
    [] whence = "SEEK_END" -> Len(AbsContent[AbsStream[s].path])

SeekBecomes(c, st, s, off, whence) ==
  LET from == CASE whence = "SEEK_SET" -> 0
                [] whence = "SEEK_CUR" -> st[s].pos
                [] whence = "SEEK_END" -> Len(c[st[s].path])
  IN ByteFiles!Becomes(c, [st EXCEPT ![s].pos = IF result'.ok THEN from + off ELSE @,
                                     ![s].pushed = <<>>])

LEMMA SameFrom ==
  ASSUME Inv, NEW s \in Open, NEW m, Good(m), Follows(Now, m), NEW whence \in Whences,
         Pending(m, s) = <<>>, Descriptor(m, s).path \notin m.damaged
  PROVE  From(m, s, whence) = AbsFrom(s, whence)
<1> DEFINE p == Descriptor(Now, s).path
<1>1. /\ Descriptor(m, s).path = p /\ m.file[s].fd = file[s].fd /\ p \in Paths
      /\ PathOf(s) = p
  BY FollowsPath, OpenFacts, HereFacts DEF PathOf
<1>2. Descriptor(m, s) = m.kernel.fds[file[s].fd]
  BY <1>1 DEF Descriptor
<1>3. AbsStream[s].pos = m.kernel.fds[file[s].fd].pos
  <2>1. PositionIn(m, s) = m.kernel.fds[file[s].fd].pos
    BY <1>2 DEF PositionIn
  <2>2. PositionIn(m, s) = PositionIn(Now, s)
    BY <1>1, Zenon DEF Follows
  <2> QED BY <2>1, <2>2, AbsStreamFacts
<1>4. AbsContent[AbsStream[s].path] = m.kernel.data[PathOf(s)]
  <2>1. ContentIn(m, Open, p) = ContentIn(Now, Open, p)
    BY <1>1, Zenon DEF Follows
  <2>2. AbsContent[AbsStream[s].path] = ContentIn(Now, Open, p)
    BY <1>1, AbsStreamFacts DEF AbsContent
  <2>3. Separate(m, Open)
    BY DEF Good
  <2> HIDE DEF p
  <2>4. ContentIn(m, Open, p) = Overwrite(m.kernel.data[p], WritePos(m.kernel, Descriptor(m, s)), <<>>)
    <3> HIDE DEF Open
    <3>1. ContentIn(m, Open, Descriptor(m, s).path)
          = Overwrite(m.kernel.data[Descriptor(m, s).path],
                      WritePos(m.kernel, Descriptor(m, s)), Pending(m, s))
      BY <2>3, HeldContent
    <3> QED BY <1>1, <3>1
  <2>5. ContentIn(m, Open, p) = m.kernel.data[p]
    BY <2>4 DEF Overwrite
  <2> QED BY <1>1, <2>1, <2>2, <2>5
<1> HIDE DEF p
<1>5. CASE whence = "SEEK_SET"
  BY <1>5 DEF From, AbsFrom
<1>6. CASE whence = "SEEK_CUR"
  BY <1>3, <1>6 DEF From, AbsFrom
<1>7. CASE whence = "SEEK_END"
  BY <1>4, <1>7 DEF From, AbsFrom
<1> QED BY <1>5, <1>6, <1>7 DEF Whences

LEMMA FseekRefines ==
  ASSUME Inv, ~exited, NEW s \in Open, NEW off \in Offsets, NEW whence \in Whences,
         Fseek(s, off, whence)
  PROVE  Inv' /\ ByteFiles!Seek(s, off, whence)
<1> DEFINE fd == file[s].fd
<1>1. PICK m \in Flushed(Now, s) :
        LET r  == Loses(m, {s})
            to == off + From(m, s, whence)
        IN \/ /\ to \in 0 .. MaxLen[PathOf(s)] - 1
              /\ Set([r EXCEPT !.file[s].ungot = <<>>, !.kernel.fds[fd].pos = to])
              /\ Answer("fseek", TRUE, r.err, <<>>, 0)
           \/ /\ Set([m EXCEPT !.file[s].ungot = <<>>])
              /\ Answer("fseek", FALSE, TRUE, <<>>, 0)
  BY Zenon DEF Fseek, From
<1>2. UNCHANGED <<closed, tracked, exited>> /\ exited' \in BOOLEAN
  BY DEF Fseek, Inv, TypeOK
<1>3. Good(m) /\ Follows(Now, m) /\ (Pending(m, s) # <<>> => m.err)
  BY FlushFollows, OpenFacts
<1>4. /\ Good(Now) /\ closed \subseteq Standard /\ s \in DOMAIN m.file /\ m.file[s].fd = fd
      /\ Descriptor(m, s).path = Descriptor(Now, s).path
      /\ Now.damaged = damaged
  <2>1. s \in DOMAIN m.file
    BY <1>3, OpenFacts DEF Good
  <2> QED BY <1>3, <2>1, OpenFacts, FollowsPath
<1> DEFINE g == IF result'.ok THEN AbsFrom(s, whence) + off ELSE AbsStream[s].pos
(* Both ways: a state y that is like m but for s, which is at g.           *)
<1>5. ASSUME NEW y, Ends(y), errors' \in 0 .. MaxErrors, Good(y),
             Looks(y, AbsContent, Turn(s, g, <<>>)), StrayIn(y) => StrayIn(Now),
             damaged \subseteq y.damaged, y.damaged # damaged => result'.err \/ StrayIn(Now),
             result'.call = "fseek"
      PROVE  Inv' /\ ByteFiles!Seek(s, off, whence)
  <2>1. Inv'
    BY <1>2, <1>5, InvKept
  <2>2. ByteFiles!Keeps
    BY <1>2, <1>5, StrayKeeps
  <2>3. ByteFiles!Becomes(AbsContent, Turn(s, g, <<>>))
    <3> HIDE DEF g
    <3> QED BY <1>2, <1>5, LooksBecomes
  <2> DEFINE st == [AbsStream EXCEPT ![s].pos = IF result'.ok THEN AbsFrom(s, whence) + off ELSE @]
  <2>4. Turn(s, g, <<>>) = [st EXCEPT ![s].pushed = <<>>]
    <3>1. st = At(s, g)
      BY DEF At
    <3>2. Pushed(At(s, g), s, <<>>) = Turn(s, g, <<>>)
      <4> HIDE DEF g
      <4> QED BY TurnIs
    <3> HIDE DEF st
    <3> QED BY <3>1, <3>2 DEF Pushed
  <2>5. ByteFiles!Becomes(AbsContent, [AbsStream EXCEPT
                            ![s].pos = IF result'.ok THEN AbsFrom(s, whence) + off ELSE @,
                            ![s].pushed = <<>>])
    <3> HIDE DEF g
    <3> QED BY <2>3, <2>4
  <2> HIDE DEF g
  <2>6. SeekBecomes(AbsContent, AbsStream, s, off, whence)
    BY <2>5, Zenon DEF SeekBecomes, AbsFrom
  <2> DEFINE c == [p \in Paths |-> ContentIn(Now, IF exited THEN {} ELSE Open, p)]
             v == [t \in Open |-> ViewIn(Now, t, Kept(t))]
  <2>7. SeekBecomes(c, v, s, off, whence)
    <3>1. c = AbsContent /\ v = AbsStream
      BY AbsHere
    <3> HIDE DEF c, v
    <3> QED BY <2>6, <3>1
  <2>8. ByteFiles!Seek(s, off, whence)
    BY <1>5, <2>2, <2>7, Zenon DEF ByteFiles!Seek, SeekBecomes
  <2> QED BY <2>1, <2>8
<1>6. CASE /\ Set([m EXCEPT !.file[s].ungot = <<>>])
           /\ Answer("fseek", FALSE, TRUE, <<>>, 0)
  <2> DEFINE y == [m EXCEPT !.file[s].ungot = <<>>]
             j == Descriptor(m, s).pos
  <2>1. Moves(m, s, <<>>, j, y)
    BY <1>3, DropRecord
  <2>2. j \in Nat
    BY <1>3, DescriptorFacts DEF Good, Separate
  <2>3. Set(y) /\ result'.call = "fseek" /\ result'.ok = FALSE /\ result'.err = TRUE
    BY <1>6, AnswerFacts
  <2>4. g = PositionIn(Now, s)
    BY <2>3, AbsStreamFacts
  <2> HIDE DEF y, g
  <2>5. j = Descriptor(m, s).pos
    OBVIOUS
  <2> HIDE DEF j
  <2>6. <<>> \in Seq(Bytes) /\ Len(<<>>) <= UngetCap
    BY EmptySeq, StreamsAssumption
  <2>7. Good(y) /\ Looks(y, AbsContent, Turn(s, g, <<>>)) /\ (StrayIn(y) => StrayIn(m))
    BY <1>3, <2>1, <2>2, <2>4, <2>5, <2>6, MovesLooks
  <2>8. Ends(y) /\ errors' \in 0 .. MaxErrors
    BY <2>3, <2>7, SetFacts DEF Good, Typed
  <2>9. damaged \subseteq y.damaged /\ (y.damaged # damaged => result'.err \/ StrayIn(Now))
    <3>1. y.damaged = m.damaged /\ Now.damaged \subseteq m.damaged
      BY <1>3, <2>1, Zenon DEF Moves, Follows
    <3> QED BY <1>4, <2>3, <3>1
  <2>10. StrayIn(y) => StrayIn(Now)
    BY <1>3, <1>4, <2>7, FollowsStray
  <2> QED BY <1>5, <2>3, <2>7, <2>8, <2>9, <2>10 DEF g
<1>7. CASE /\ off + From(m, s, whence) \in 0 .. MaxLen[PathOf(s)] - 1
           /\ Set([Loses(m, {s}) EXCEPT !.file[s].ungot = <<>>,
                                        !.kernel.fds[fd].pos = off + From(m, s, whence)])
           /\ Answer("fseek", TRUE, Loses(m, {s}).err, <<>>, 0)
  <2> DEFINE r == Loses(m, {s})
             j == off + From(m, s, whence)
             y == [r EXCEPT !.file[s].ungot = <<>>, !.kernel.fds[fd].pos = j]
  <2>1. /\ Good(r) /\ Follows(m, r) /\ r.file = m.file /\ r.kernel = m.kernel /\ r.err = m.err
        /\ r.damaged = m.damaged \union {Descriptor(m, t).path : t \in Unflushed(m, {s})}
    <3>1. {s} \subseteq DOMAIN m.file /\ \A t \in {s} : Pending(m, t) # <<>> => m.err \/ t \in closed
      BY <1>3, <1>4
    <3> QED BY <1>3, <3>1, LosesFollows
  <2>2. Set(y) /\ result'.call = "fseek" /\ result'.ok = TRUE /\ result'.err = r.err
    <3> HIDE DEF r
    <3>1. Set(y)
      BY <1>7 DEF r
    <3>2. Answer("fseek", TRUE, r.err, <<>>, 0)
      BY <1>7 DEF r
    <3> QED BY <3>1, <3>2, AnswerFacts
  <2> HIDE DEF r
  <2>3. Moves(r, s, <<>>, j, y)
    <3>1. r.file[s].fd = fd
      BY <1>4, <2>1
    <3> HIDE DEF j, fd
    <3>2. Moves(r, s, <<>>, j, [r EXCEPT !.file[s].ungot = <<>>, !.kernel.fds[r.file[s].fd].pos = j])
      BY <2>1, MoveRecord
    <3> QED BY <3>1, <3>2
  <2>4. j \in Nat
    <3>1. MaxLen[PathOf(s)] \in Nat
      <4>1. PathOf(s) \in Paths
        BY HereFacts DEF PathOf
      <4> QED BY <4>1, StreamsAssumption
    <3> HIDE DEF j
    <3> QED BY <1>7, <3>1 DEF j
  <2>5. Follows(Now, r)
    BY <1>3, <1>4, <2>1, FollowsTransitive
  <2>6. Descriptor(r, s).path = Descriptor(m, s).path /\ Pending(r, s) = Pending(m, s)
    BY <2>1 DEF Descriptor, Pending
  <2>7. Descriptor(r, s).path \notin r.damaged => Pending(r, s) = <<>> /\ g = j
    <3> SUFFICES ASSUME Descriptor(r, s).path \notin r.damaged PROVE Pending(r, s) = <<>> /\ g = j
      OBVIOUS
    <3>1. s \notin Unflushed(m, {s}) /\ Descriptor(m, s).path \notin m.damaged
      BY <2>1, <2>6
    <3>2. IsOpen(m.kernel, m.file[s].fd)
      BY <1>3 DEF Good, Separate
    <3>3. Pending(m, s) = <<>>
      BY <3>1, <3>2 DEF Unflushed
    <3>4. From(m, s, whence) = AbsFrom(s, whence)
      BY <1>3, <3>1, <3>3, SameFrom
    <3>5. off \in Int /\ off + From(m, s, whence) \in Nat
      BY <2>4, StreamsAssumption
    <3>6. AbsFrom(s, whence) + off = off + From(m, s, whence)
      <4>1. CASE whence = "SEEK_SET"
        <5>1. From(m, s, whence) = 0
          BY <4>1 DEF From
        <5> QED BY <3>4, <3>5, <5>1
      <4>2. CASE whence = "SEEK_CUR"
        <5>1. From(m, s, whence) = AbsStream[s].pos
          BY <3>4, <4>2 DEF AbsFrom
        <5>2. From(m, s, whence) = m.kernel.fds[fd].pos
          BY <4>2 DEF From
        <5>3. m.kernel.fds[fd].pos \in Nat
          <6>1. Descriptor(m, s).pos \in Nat
            BY <1>3, <1>4, <3>2, DescriptorFacts DEF Good
          <6> QED BY <1>4, <6>1 DEF Descriptor
        <5> QED BY <3>4, <3>5, <5>2, <5>3
      <4>3. CASE whence = "SEEK_END"
        <5>1. From(m, s, whence) = Len(m.kernel.data[PathOf(s)])
          BY <4>3 DEF From
        <5>2. m.kernel.data[PathOf(s)] \in Seq(Bytes)
          <6>1. PathOf(s) \in Paths
            BY HereFacts DEF PathOf
          <6> QED BY <1>3, <6>1 DEF Good, Typed, Content
        <5>3. Len(m.kernel.data[PathOf(s)]) \in Nat
          BY <5>2, LenProperties
        <5> QED BY <3>4, <3>5, <5>1, <5>3
      <4> QED BY <4>1, <4>2, <4>3 DEF Whences
    <3>7. g = AbsFrom(s, whence) + off
      BY <2>2
    <3> QED BY <2>6, <3>3, <3>6, <3>7
  <2> HIDE DEF g, y, j
  <2>8. <<>> \in Seq(Bytes) /\ Len(<<>>) <= UngetCap
    BY EmptySeq, StreamsAssumption
  <2>9. Good(y) /\ Looks(y, AbsContent, Turn(s, g, <<>>)) /\ (StrayIn(y) => StrayIn(r))
    BY <2>1, <2>3, <2>4, <2>5, <2>7, <2>8, MovesLooks
  <2>10. Ends(y) /\ errors' \in 0 .. MaxErrors
    BY <2>2, <2>9, SetFacts DEF Good, Typed
  <2>11. damaged \subseteq y.damaged /\ (y.damaged # damaged => result'.err \/ StrayIn(Now))
    <3>1. /\ y.damaged = r.damaged /\ Now.damaged \subseteq r.damaged
          /\ r.damaged # Now.damaged => r.err \/ StrayIn(Now)
      BY <2>3, <2>5, Zenon DEF Moves, Follows
    <3> QED BY <1>4, <2>2, <3>1, Zenon
  <2>12. StrayIn(y) => StrayIn(Now)
    BY <1>4, <2>5, <2>9, FollowsStray
  <2> QED BY <1>5, <2>2, <2>9, <2>10, <2>11, <2>12 DEF g
<1> QED BY <1>1, <1>6, <1>7

-----------------------------------------------------------------------------
(* A byte is put into the buffer.                                          *)

Adds(m, s, b, y) ==
  /\ Whole(y) /\ y.err = m.err /\ y.damaged = m.damaged /\ y.kernel = m.kernel
  /\ y.file = [m.file EXCEPT ![s].buf = Append(m.file[s].buf, b)]

LEMMA AddRecord ==
  ASSUME NEW m, Good(m), NEW s \in Open, NEW b
  PROVE  Adds(m, s, b, [m EXCEPT !.file[s].buf = Append(@, b)])
<1> DEFINE f == [m.file EXCEPT ![s].buf = Append(m.file[s].buf, b)]
           y == [file |-> f, kernel |-> m.kernel, damaged |-> m.damaged, err |-> m.err]
<1>1. m = [file |-> m.file, kernel |-> m.kernel, damaged |-> m.damaged, err |-> m.err]
  BY DEF Good, Typed, Whole
<1>2. [m EXCEPT !.file[s].buf = Append(@, b)] = [m EXCEPT !.file = f]
  OBVIOUS
<1>3. [m EXCEPT !.file = f] = y
  <2> HIDE DEF f
  <2> QED BY <1>1
<1>4. Whole(y) /\ y.file = f /\ y.kernel = m.kernel /\ y.damaged = m.damaged /\ y.err = m.err
  <2> HIDE DEF f
  <2> QED BY Fields
<1> HIDE DEF y
<1>5. Adds(m, s, b, y)
  BY <1>4 DEF Adds
<1> QED BY <1>2, <1>3, <1>5

LEMMA AddsFacts ==
  ASSUME NEW m, Good(m), NEW s \in Open, m.file[s].writable, NEW b \in Bytes,
         Len(m.file[s].buf) < BufCap, NEW y, Adds(m, s, b, y)
  PROVE  /\ Good(y)
         /\ \A t \in DOMAIN m.file :
              /\ y.file[t].fd = m.file[t].fd /\ y.file[t].ungot = m.file[t].ungot
              /\ t # s => Pending(y, t) = Pending(m, t)
         /\ Pending(y, s) = Append(Pending(m, s), b)
         /\ \A t \in Open : Descriptor(y, t) = Descriptor(m, t)
<1>1. /\ Typed(m) /\ Separate(m, Open) /\ s \in DOMAIN m.file
      /\ DOMAIN m.file = DOMAIN file /\ Open \subseteq DOMAIN m.file
  BY DEF Good, Separate
<1>2. /\ m.file[s].buf \in Seq(Bytes) /\ Len(m.file[s].buf) \in Nat
      /\ m.file \in [DOMAIN m.file -> FileObjects] /\ m.file[s] \in FileObjects
  <2>1. m.file[s].buf \in Seq(Bytes)
    BY <1>1, FileFacts
  <2> QED BY <1>1, <2>1, LenProperties DEF Typed
<1> DEFINE u == Append(m.file[s].buf, b)
           z == [m.file[s] EXCEPT !.buf = u]
<1>3. u \in Seq(Bytes) /\ Len(u) = Len(m.file[s].buf) + 1
  BY <1>2, AppendProperties
<1>4. y.file = [m.file EXCEPT ![s].buf = u]
  BY DEF Adds
<1> HIDE DEF u
<1>5. /\ z \in FileObjects /\ z.fd = m.file[s].fd /\ z.writable = m.file[s].writable
      /\ z.ungot = m.file[s].ungot /\ z.buf = u
  BY <1>2, <1>3 DEF FileObjects
<1>6. y.file = [m.file EXCEPT ![s] = z]
  BY <1>4
<1> HIDE DEF z
<1>7. /\ y.file \in [DOMAIN m.file -> FileObjects] /\ DOMAIN y.file = DOMAIN m.file
      /\ \A t \in DOMAIN m.file :
           /\ y.file[t].fd = m.file[t].fd /\ y.file[t].writable = m.file[t].writable
           /\ y.file[t].ungot = m.file[t].ungot
           /\ y.file[t].buf = IF t = s THEN u ELSE m.file[t].buf
  BY <1>1, <1>2, <1>5, <1>6
<1>8. Whole(y) /\ y.err = m.err /\ y.damaged = m.damaged /\ y.kernel = m.kernel
  BY DEF Adds
<1>9. Typed(y)
  <2>1. Len(u) <= BufCap
    BY <1>2, <1>3, StreamsAssumption
  <2>2. \A t \in DOMAIN m.file :
          Len(y.file[t].buf) <= BufCap /\ Len(y.file[t].ungot) <= UngetCap
    BY <1>1, <1>7, <2>1 DEF Typed
  <2> QED BY <1>1, <1>7, <1>8, <2>2 DEF Typed
<1>10. \A t \in Open : Descriptor(y, t) = Descriptor(m, t)
  BY <1>1, <1>7, <1>8 DEF Descriptor
<1>11. Separate(y, Open)
  BY <1>1, <1>7, <1>8, <1>10 DEF Separate
<1>12. \A t \in DOMAIN m.file : t # s => Pending(y, t) = Pending(m, t)
  BY <1>7 DEF Pending
<1>13. Pending(y, s) = Append(Pending(m, s), b)
  BY <1>1, <1>7 DEF Pending, u
<1> QED BY <1>1, <1>7, <1>9, <1>10, <1>11, <1>12, <1>13 DEF Good

PutAt(s) ==
  IF AbsStream[s].append THEN Len(AbsContent[AbsStream[s].path]) ELSE AbsStream[s].pos

PutContent(s, b) ==
  [AbsContent EXCEPT ![AbsStream[s].path] = Overwrite(@, PutAt(s), <<b>>)]

(* The byte comes where the abstract stream puts it.                       *)
LEMMA AddsPlace ==
  ASSUME Inv, NEW m, Good(m), Follows(Now, m), NEW s \in Open, m.file[s].writable,
         NEW b \in Bytes, Len(m.file[s].buf) < BufCap, NEW y, Adds(m, s, b, y),
         Descriptor(m, s).path \notin m.damaged
  PROVE  /\ ContentIn(y, Open, Descriptor(m, s).path)
            = Overwrite(AbsContent[Descriptor(m, s).path], PutAt(s), <<b>>)
         /\ PositionIn(y, s) = PutAt(s) + 1
<1> DEFINE d    == Descriptor(m, s)
           p    == d.path
           data == m.kernel.data[p]
           at   == WritePos(m.kernel, d)
           buf  == Pending(m, s)
<1>1. /\ Good(y) /\ Pending(y, s) = Append(buf, b) /\ Descriptor(y, s) = d
      /\ y.kernel = m.kernel
  BY AddsFacts DEF Adds
<1>2. /\ s \in DOMAIN m.file /\ IsOpen(m.kernel, m.file[s].fd) /\ Typed(m)
      /\ Separate(m, Open) /\ Separate(y, Open)
  BY <1>1 DEF Good, Separate
<1>3. /\ data \in Content /\ at \in Nat /\ d.pos \in Nat /\ p \in Paths
      /\ data \in Seq(Bytes) /\ Len(data) \in Nat
  <2>1. data \in Content /\ at \in Nat /\ d.pos \in Nat /\ p \in Paths
    BY <1>2, DescriptorFacts
  <2> QED BY <2>1, LenProperties DEF Content
<1>4. buf \in Seq(Bytes) /\ Len(buf) \in Nat
  <2>1. buf \in Seq(Bytes)
    BY <1>2, FileFacts
  <2> QED BY <2>1, LenProperties
<1>5. /\ p = Descriptor(Now, s).path /\ d.mode = Descriptor(Now, s).mode
  BY FollowsPath, GoodNow
<1>6. ContentIn(m, Open, p) = Overwrite(data, at, buf)
  BY <1>2, HeldContent
<1>7. ContentIn(y, Open, p) = Overwrite(data, at, Append(buf, b))
  <2>1. ContentIn(y, Open, Descriptor(y, s).path)
        = Overwrite(y.kernel.data[Descriptor(y, s).path],
                    WritePos(y.kernel, Descriptor(y, s)), Pending(y, s))
    BY <1>2, HeldContent
  <2> HIDE DEF d, buf
  <2> QED BY <1>1, <2>1
<1>8. AbsContent[p] = Overwrite(data, at, buf) /\ AbsStream[s].path = p
      /\ AbsStream[s].append = d.mode.append
  <2>1. AbsContent[p] = ContentIn(Now, Open, p)
    BY <1>3 DEF AbsContent
  <2>2. ContentIn(m, Open, p) = ContentIn(Now, Open, p)
    BY <1>3, Zenon DEF Follows
  <2>3. AbsStream[s].path = Descriptor(Now, s).path
        /\ AbsStream[s].append = Descriptor(Now, s).mode.append
    BY AbsStreamFacts
  <2> QED BY <1>5, <1>6, <2>1, <2>2, <2>3, Zenon
<1>9. AbsStream[s].pos = PositionIn(m, s)
  <2>1. PositionIn(m, s) = PositionIn(Now, s)
    BY <1>5, Zenon DEF Follows
  <2> QED BY <2>1, AbsStreamFacts
<1>10. PutAt(s) = at + Len(buf)
  <2>1. CASE d.mode.append
    <3>1. PutAt(s) = Len(Overwrite(data, at, buf))
      BY <1>8, <2>1, Zenon DEF PutAt
    <3>2. at = Len(data)
      BY <2>1 DEF WritePos
    <3> HIDE DEF at, data, buf
    <3>3. CASE buf = <<>>
      <4>1. Overwrite(data, at, buf) = data /\ Len(buf) = 0
        BY <3>3 DEF Overwrite
      <4> QED BY <1>3, <3>1, <3>2, <4>1
    <3>4. CASE buf # <<>>
      <4>1. Len(Overwrite(data, at, buf))
            = IF at + Len(buf) > Len(data) THEN at + Len(buf) ELSE Len(data)
        BY <1>3, <1>4, <3>4, OverwriteFacts
      <4> QED BY <1>3, <1>4, <3>1, <3>2, <4>1
    <3> QED BY <3>3, <3>4
  <2>2. CASE ~d.mode.append
    <3>1. PutAt(s) = PositionIn(m, s)
      BY <1>8, <1>9, <2>2, Zenon DEF PutAt
    <3>2. at = d.pos
      BY <2>2 DEF WritePos
    <3>3. CASE buf = <<>>
      <4>1. PositionIn(m, s) = d.pos /\ Len(buf) = 0
        BY <3>3 DEF PositionIn
      <4> HIDE DEF at, buf, d
      <4> QED BY <1>3, <3>1, <3>2, <4>1
    <3>4. CASE buf # <<>>
      <4>1. PositionIn(m, s) = at + Len(buf)
        BY <3>4 DEF PositionIn
      <4> QED BY <3>1, <4>1
    <3> QED BY <3>3, <3>4
  <2> QED BY <2>1, <2>2
<1>11. PositionIn(y, s) = PutAt(s) + 1
  <2> HIDE DEF buf, d
  <2>1. Append(buf, b) # <<>> /\ Len(Append(buf, b)) = Len(buf) + 1
    BY <1>4, AppendProperties
  <2>2. PositionIn(y, s) = WritePos(m.kernel, d) + (Len(buf) + 1)
    BY <1>1, <2>1 DEF PositionIn
  <2> HIDE DEF at
  <2> QED BY <1>3, <1>4, <1>10, <2>2 DEF at
<1>12. ContentIn(y, Open, p) = Overwrite(AbsContent[p], PutAt(s), <<b>>)
  <2> HIDE DEF at, buf, data, p
  <2>1. Overwrite(Overwrite(data, at, buf), at + Len(buf), <<b>>)
        = Overwrite(data, at, Append(buf, b))
    BY <1>3, <1>4, OverwriteMore
  <2> QED BY <1>7, <1>8, <1>10, <2>1
<1> QED BY <1>11, <1>12

LEMMA AddsLooks ==
  ASSUME Inv, NEW m, Good(m), Follows(Now, m), NEW s \in Open, m.file[s].writable,
         NEW b \in Bytes, Len(m.file[s].buf) < BufCap, NEW y, Adds(m, s, b, y)
  PROVE  /\ Good(y) /\ Looks(y, PutContent(s, b), At(s, PutAt(s) + 1))
         /\ StrayIn(y) => StrayIn(m)
<1>1. /\ Good(y)
      /\ \A t \in DOMAIN m.file :
           /\ y.file[t].fd = m.file[t].fd /\ y.file[t].ungot = m.file[t].ungot
           /\ t # s => Pending(y, t) = Pending(m, t)
      /\ \A t \in Open : Descriptor(y, t) = Descriptor(m, t)
  BY AddsFacts
<1>2. y.damaged = m.damaged /\ y.kernel = m.kernel
  BY DEF Adds
<1> DEFINE p == Descriptor(m, s).path
           g == PutAt(s) + 1
<1>3. Looks(m, AbsContent, AbsStream)
  BY LooksNow, LooksFollows, GoodNow
<1>4. /\ Open \subseteq DOMAIN m.file
      /\ \A t \in Open : Descriptor(m, t).path = p => t = s
      /\ Separate(m, Open) /\ Separate(y, Open) /\ DOMAIN m.file = DOMAIN file
  BY <1>1 DEF Good, Separate
<1>5. /\ p = Descriptor(Now, s).path
      /\ Descriptor(m, s).mode = Descriptor(Now, s).mode
      /\ m.file[s].ungot = file[s].ungot
  <2>1. s \in DOMAIN Now.file /\ Now.file = file
    BY OpenFacts
  <2>2. m.file[s].ungot = Now.file[s].ungot
    BY <2>1 DEF Follows
  <2> QED BY <2>1, <2>2, FollowsPath, GoodNow
<1>6. AbsStream[s].path = p /\ p \in Paths
  BY <1>5, AbsStreamFacts
<1>7. ASSUME p \notin m.damaged
      PROVE  /\ ContentIn(y, Open, p) = PutContent(s, b)[p]
             /\ PositionIn(y, s) = g
  <2>1. ContentIn(y, Open, p) = Overwrite(AbsContent[p], PutAt(s), <<b>>) /\ PositionIn(y, s) = g
    BY <1>7, AddsPlace
  <2>2. p \in DOMAIN AbsContent
    BY <1>6 DEF AbsContent
  <2>3. PutContent(s, b)[p] = Overwrite(AbsContent[p], PutAt(s), <<b>>)
    BY <1>6, <2>2 DEF PutContent
  <2> QED BY <2>1, <2>3
<1>8. ASSUME NEW q \in Paths, q # p
      PROVE  ContentIn(y, Open, q) = ContentIn(m, Open, q) /\ PutContent(s, b)[q] = AbsContent[q]
  <2>1. Undisturbed(m, Open, y, Open, q)
    <3>1. \A t \in Open : Descriptor(m, t).path = q =>
            /\ t \in Open /\ Descriptor(y, t).path = q
            /\ WritePos(y.kernel, Descriptor(y, t)) = WritePos(m.kernel, Descriptor(m, t))
            /\ Pending(y, t) = Pending(m, t)
      <4> SUFFICES ASSUME NEW t \in Open, Descriptor(m, t).path = q
                   PROVE  /\ Descriptor(y, t).path = q
                          /\ WritePos(y.kernel, Descriptor(y, t))
                             = WritePos(m.kernel, Descriptor(m, t))
                          /\ Pending(y, t) = Pending(m, t)
        OBVIOUS
      <4>1. t # s /\ t \in DOMAIN m.file
        BY <1>4, <1>8
      <4> QED BY <1>1, <1>2, <4>1
    <3>2. \A t \in Open : Descriptor(y, t).path = q => t \in Open /\ Descriptor(m, t).path = q
      BY <1>1
    <3> QED BY <1>2, <3>1, <3>2 DEF Undisturbed
  <2>2. PutContent(s, b)[q] = AbsContent[q]
    BY <1>6, <1>8 DEF PutContent, AbsContent
  <2> HIDE DEF Open
  <2> QED BY <1>4, <2>1, <2>2, SameContent
<1>9. \A q \in Paths \ y.damaged : ContentIn(y, Open, q) = PutContent(s, b)[q]
  <2> TAKE q \in Paths \ y.damaged
  <2>1. ContentIn(m, Open, q) = AbsContent[q]
    BY <1>2, <1>3 DEF Looks, LooksAs
  <2> QED BY <1>2, <1>7, <1>8, <2>1
<1>10. At(s, g) = Turn(s, g, file[s].ungot)
  <2> HIDE DEF g
  <2> QED BY TurnIs
<1>11. \A t \in Open : Matches(ViewIn(y, t, KeptBy(tracked, t)), At(s, g)[t], y.damaged)
  <2> TAKE t \in Open
  <2>0. PICK k : k = KeptBy(tracked, t)
    OBVIOUS
  <2>1. CASE t = s
    <3>1. At(s, g)[t] = View(Descriptor(Now, s), g, file[s].ungot, k)
      <4>1. s \in DOMAIN AbsStream /\ Kept(s) = KeptBy(tracked, s)
        BY DEF AbsStream, Kept, KeptBy
      <4> HIDE DEF g
      <4>2. Turn(s, g, file[s].ungot)[s] = View(Descriptor(Now, s), g, file[s].ungot, Kept(s))
        BY <4>1 DEF Turn
      <4> QED BY <1>10, <2>0, <2>1, <4>1, <4>2, Zenon
    <3> DEFINE d == Descriptor(Now, s)
               u == file[s].ungot
               w == View(d, g, u, k)
    <3> HIDE DEF g
    <3>2. Matches(w, w, y.damaged)
      BY DEF Matches, View
    <3>3. d.path \notin y.damaged => PositionIn(y, s) = g
      BY <1>2, <1>5, <1>7
    <3>4. w = [path |-> d.path, pos |-> g, pushed |-> u, kept |-> k, read |-> d.mode.read,
               write |-> d.mode.write, append |-> d.mode.append]
      BY DEF View
    <3>5. ViewIn(y, s, k)
          = [path |-> d.path, pos |-> PositionIn(y, s), pushed |-> u, kept |-> k,
             read |-> d.mode.read, write |-> d.mode.write, append |-> d.mode.append]
      <4>1. y.file[s].ungot = u
        BY <1>1, <1>4, <1>5
      <4>2. Descriptor(y, s) = Descriptor(m, s)
        BY <1>1
      <4> QED BY <1>5, <4>1, <4>2, Zenon DEF ViewIn
    <3> HIDE DEF d, w, u
    <3>6. Matches(ViewIn(y, s, k), w, y.damaged)
      BY <3>2, <3>3, <3>4, <3>5, MatchesMoved
    <3> QED BY <2>0, <2>1, <3>1, <3>6, Zenon DEF w, d, u
  <2>2. CASE t # s
    <3>1. At(s, g)[t] = AbsStream[t]
      <4> HIDE DEF g
      <4> QED BY <2>2 DEF At, AbsStream
    <3>2. Matches(ViewIn(m, t, k), AbsStream[t], m.damaged)
      BY <1>3, <2>0, Zenon DEF Looks, LooksAs
    <3>3. t \in DOMAIN m.file
      BY <1>4
    <3>4. Descriptor(y, t) = Descriptor(m, t) /\ Pending(y, t) = Pending(m, t)
          /\ y.file[t].ungot = m.file[t].ungot
      BY <1>1, <2>2, <3>3
    <3>5. ViewIn(y, t, k) = ViewIn(m, t, k)
      BY <1>2, <3>4, Zenon DEF ViewIn, PositionIn
    <3> HIDE DEF g
    <3> QED BY <1>2, <2>0, <3>1, <3>2, <3>5, Zenon
  <2> QED BY <2>1, <2>2
<1>12. DOMAIN At(s, g) = Open
  BY DEF At, AbsStream
<1>13. Looks(y, PutContent(s, b), At(s, g))
  BY <1>9, <1>11, <1>12, Zenon DEF Looks, LooksAs
<1>14. StrayIn(y) => StrayIn(m)
  <2>1. closed \subseteq DOMAIN m.file /\ s \notin closed
    BY <1>4 DEF Inv, TypeOK, Open
  <2> QED BY <1>1, <2>1 DEF StrayIn
<1> QED BY <1>1, <1>13, <1>14

LEMMA SameOverwrite ==
  ASSUME NEW c, NEW at, NEW bs
  PROVE  ByteFiles!Overwrite(c, at, bs) = Overwrite(c, at, bs)
BY DEF Overwrite, ByteFiles!Overwrite

PutBecomes(c, st, s, b) ==
  LET at == IF st[s].append THEN Len(c[st[s].path]) ELSE st[s].pos
  IN /\ st[s].write
     /\ ByteFiles!Becomes([c EXCEPT ![st[s].path] = ByteFiles!Overwrite(@, at, <<b>>)],
                          [st EXCEPT ![s].pos = at + 1])

(* The byte is written.                                                    *)
LEMMA PutDone ==
  ASSUME Inv, ~exited, NEW s \in Open, NEW b \in Bytes, file[s].writable,
         ByteFiles!Becomes(PutContent(s, b), At(s, PutAt(s) + 1)), ByteFiles!Keeps,
         result'.call = "fputc", result'.ok \/ result'.err
  PROVE  ByteFiles!Put(s, b)
<1>1. AbsStream[s].write
  BY AbsStreamFacts
<1>2. PutContent(s, b) = [AbsContent EXCEPT ![AbsStream[s].path] = ByteFiles!Overwrite(@, PutAt(s), <<b>>)]
  BY SameOverwrite DEF PutContent
<1>3. At(s, PutAt(s) + 1) = [AbsStream EXCEPT ![s].pos = PutAt(s) + 1]
  BY DEF At
<1>4. PutBecomes(AbsContent, AbsStream, s, b)
  BY <1>1, <1>2, <1>3, Zenon DEF PutBecomes, PutAt
<1> DEFINE c == [p \in Paths |-> ContentIn(Now, IF exited THEN {} ELSE Open, p)]
           v == [t \in Open |-> ViewIn(Now, t, Kept(t))]
<1>5. PutBecomes(c, v, s, b)
  <2>1. c = AbsContent /\ v = AbsStream
    BY AbsHere
  <2> HIDE DEF c, v
  <2> QED BY <1>4, <2>1
<1> QED BY <1>5, Zenon DEF ByteFiles!Put, ByteFiles!PutAt, PutBecomes

(* The byte is refused: no more is done than a flush does.                 *)
LEMMA PutRefused ==
  ASSUME Inv, ~exited, NEW s \in Open, NEW b \in Bytes, NEW m, Good(m), Follows(Now, m), Set(m),
         UNCHANGED <<closed, tracked, exited>>, Answer("fputc", FALSE, TRUE, <<>>, 0)
  PROVE  Inv' /\ ByteFiles!Put(s, b)
<1>1. result'.call = "fputc" /\ result'.ok = FALSE /\ result'.err = TRUE
  BY AnswerFacts
<1>2. Ends(m) /\ errors' \in 0 .. MaxErrors
  BY SetFacts DEF Good, Typed
<1>3. ByteFiles!Becomes(AbsContent, AbsStream) /\ ByteFiles!Keeps
  BY <1>1, <1>2, FollowsBecomes
<1>4. exited' \in BOOLEAN
  BY DEF Inv, TypeOK
<1>5. Inv'
  BY <1>2, <1>4, InvKept
<1> QED BY <1>1, <1>3, <1>5, AbsHere DEF ByteFiles!Put

LEMMA FputcRefines ==
  ASSUME Inv, ~exited, NEW s \in Open, NEW b \in Bytes, Fputc(s, b)
  PROVE  Inv' /\ ByteFiles!Put(s, b)
<1>1. UNCHANGED <<closed, tracked, exited>>
  BY DEF Fputc
<1>2. Good(Now) /\ Follows(Now, Now) /\ Now.file = file /\ s \in DOMAIN Now.file
      /\ closed \subseteq Standard /\ Now.damaged = damaged
  BY OpenFacts, FollowsSelf
<1>3. CASE ~file[s].writable
  <2>1. Set(Now) /\ Answer("fputc", FALSE, TRUE, <<>>, 0)
    BY <1>3 DEF Fputc
  <2> QED BY <1>1, <1>2, <2>1, PutRefused
<1>4. CASE file[s].writable
  <2>1. PICK m \in IF Len(file[s].buf) >= BufCap THEN Flushed(Now, s) ELSE {Now} :
          IF m.err THEN Set(m) /\ Answer("fputc", FALSE, TRUE, <<>>, 0)
          ELSE \E r \in IF s = Stderr \/ (s = Stdout /\ b = Newline)
                        THEN Flushed([m EXCEPT !.file[s].buf = Append(@, b)], s)
                        ELSE {[m EXCEPT !.file[s].buf = Append(@, b)]} :
                 Set(r) /\ Answer("fputc", ~r.err, r.err, <<>>, 0)
    BY <1>4, Zenon DEF Fputc
  <2>2. Good(m) /\ Follows(Now, m) /\ (Pending(m, s) # <<>> => m.err \/ m = Now)
        /\ (m = Now => m.err \/ Len(m.file[s].buf) < BufCap)
    <3>1. CASE Len(file[s].buf) >= BufCap
      <4>1. m \in Flushed(Now, s)
        BY <2>1, <3>1
      <4>2. Good(m) /\ Follows(Now, m) /\ (Pending(m, s) # <<>> => m.err)
        BY <1>2, <4>1, FlushFollows
      <4>3. m = Now => m.err
        <5>1. BufCap \in Nat /\ BufCap > 0
          BY StreamsAssumption
        <5>2. Pending(Now, s) = file[s].buf
          BY <1>2, <1>4 DEF Pending
        <5>3. file[s].buf # <<>>
          BY <3>1, <5>1
        <5> QED BY <4>2, <5>2, <5>3
      <4> QED BY <4>2, <4>3
    <3>2. CASE ~(Len(file[s].buf) >= BufCap)
      <4>1. m = Now
        BY <2>1, <3>2
      <4>2. Len(file[s].buf) \in Nat /\ BufCap \in Nat
        <5>1. file[s].buf \in Seq(Bytes)
          BY <1>2, FileFacts DEF Good
        <5> QED BY <5>1, LenProperties, StreamsAssumption
      <4> QED BY <1>2, <3>2, <4>1, <4>2
    <3> QED BY <3>1, <3>2
  <2>3. m.file[s].writable = TRUE /\ s \in DOMAIN m.file
    <3>1. file[s].writable \in BOOLEAN
      BY <1>2, FileFacts DEF Good
    <3> QED BY <1>2, <1>4, <2>2, <3>1, Zenon DEF Follows
  <2>4. CASE m.err
    <3>1. Set(m) /\ Answer("fputc", FALSE, TRUE, <<>>, 0)
      BY <2>1, <2>4, Zenon
    <3> QED BY <1>1, <2>2, <3>1, PutRefused
  <2>5. CASE ~m.err
    <3> DEFINE y == [m EXCEPT !.file[s].buf = Append(@, b)]
    <3>1. PICK r \in IF s = Stderr \/ (s = Stdout /\ b = Newline) THEN Flushed(y, s) ELSE {y} :
            Set(r) /\ Answer("fputc", ~r.err, r.err, <<>>, 0)
      BY <2>1, <2>5, Zenon
    <3>2. Adds(m, s, b, y)
      BY <2>2, AddRecord
    <3> HIDE DEF y
    <3>3. Len(m.file[s].buf) < BufCap
      <4>1. CASE m = Now
        BY <2>2, <2>5, <4>1
      <4>2. CASE m # Now
        <5>1. Pending(m, s) = <<>>
          BY <2>2, <2>5, <4>2
        <5>2. m.file[s].buf = <<>>
          BY <2>3, <5>1 DEF Pending
        <5> QED BY <5>2, StreamsAssumption
      <4> QED BY <4>1, <4>2
    <3>4. Good(y) /\ Looks(y, PutContent(s, b), At(s, PutAt(s) + 1)) /\ (StrayIn(y) => StrayIn(m))
      BY <2>2, <2>3, <3>2, <3>3, AddsLooks
    <3>5. Good(r) /\ Follows(y, r)
      <4>1. CASE r \in Flushed(y, s)
        <5>1. s \in DOMAIN y.file
          BY <1>2, <3>4 DEF Good
        <5> QED BY <3>4, <4>1, <5>1, FlushFollows
      <4>2. CASE r = y
        BY <3>4, <4>2, FollowsSelf
      <4> QED BY <3>1, <4>1, <4>2
    <3>6. Looks(r, PutContent(s, b), At(s, PutAt(s) + 1))
      BY <3>4, <3>5, LooksFollows
    <3>7. StrayIn(r) => StrayIn(Now)
      BY <1>2, <2>2, <3>4, <3>5, FollowsStray
    <3>8. /\ result'.call = "fputc" /\ result'.ok = ~r.err /\ result'.err = r.err
      BY <3>1, AnswerFacts
    <3>9. Ends(r) /\ errors' \in 0 .. MaxErrors
      BY <3>1, <3>5, SetFacts DEF Good, Typed
    <3>10. damaged \subseteq r.damaged /\ (r.damaged # damaged => result'.err \/ StrayIn(Now))
      <4>1. damaged \subseteq m.damaged /\ (m.damaged # damaged => StrayIn(Now))
        BY <1>2, <2>2, <2>5, Zenon DEF Follows
      <4>2. y.damaged \subseteq r.damaged /\ (r.damaged # y.damaged => r.err \/ StrayIn(y))
        BY <3>5, Zenon DEF Follows
      <4>3. y.damaged = m.damaged
        BY <3>2 DEF Adds
      <4>4. StrayIn(y) => StrayIn(Now)
        BY <1>2, <2>2, <3>4, FollowsStray
      <4>5. damaged \subseteq r.damaged
        BY <4>1, <4>2, <4>3
      <4>6. CASE m.damaged # damaged
        BY <4>1, <4>5, <4>6
      <4>7. CASE m.damaged = damaged
        BY <3>8, <4>2, <4>3, <4>4, <4>5, <4>7, Zenon
      <4> QED BY <4>6, <4>7
    <3>11. ByteFiles!Becomes(PutContent(s, b), At(s, PutAt(s) + 1))
      BY <1>1, <3>5, <3>6, <3>9, <3>10, LooksBecomes
    <3>12. ByteFiles!Keeps
      BY <1>1, <3>7, <3>9, StrayKeeps
    <3>13. exited' \in BOOLEAN
      BY <1>1 DEF Inv, TypeOK
    <3>14. Inv'
      BY <1>1, <3>5, <3>9, <3>13, InvKept
    <3>15. result'.ok \/ result'.err
      BY <3>8, Zenon
    <3> QED BY <1>4, <3>8, <3>11, <3>12, <3>14, <3>15, PutDone
  <2> QED BY <2>4, <2>5
<1> QED BY <1>3, <1>4

-----------------------------------------------------------------------------
(* A stream s comes, goes or is given another file: r is m with q the open *)
(* streams, nothing is waiting in s, and only the data of p may change.    *)

Elsewhere(m, r, q, s, p) ==
  /\ q \ {s} = Open \ {s}
  /\ \A t \in Open \ {s} :
       /\ r.file[t] = m.file[t] /\ Descriptor(r, t) = Descriptor(m, t)
       /\ Descriptor(m, t).path # p
  /\ \A x \in Paths : x # p => r.kernel.data[x] = m.kernel.data[x]
  /\ m.damaged \subseteq r.damaged
  /\ s \in Open => Descriptor(m, s).path \in r.damaged \/ Pending(m, s) = <<>>
  /\ s \in q => Pending(r, s) = <<>>

(* Content that is in the file in any case.                                *)
LEMMA PlainContent ==
  ASSUME NEW m, NEW open, Separate(m, open), NEW s, NEW x,
         \A t \in open \ {s} : Descriptor(m, t).path # x,
         s \in open => Descriptor(m, s).path # x \/ Pending(m, s) = <<>>
  PROVE  ContentIn(m, open, x) = m.kernel.data[x]
<1>1. CASE s \in open /\ Descriptor(m, s).path = x
  <2>1. ContentIn(m, open, x)
        = Overwrite(m.kernel.data[x], WritePos(m.kernel, Descriptor(m, s)), <<>>)
    BY <1>1, HeldContent
  <2> QED BY <2>1 DEF Overwrite
<1>2. CASE ~(s \in open /\ Descriptor(m, s).path = x)
  <2>1. \A t \in open : Descriptor(m, t).path # x
    BY <1>2
  <2> QED BY <2>1, UnheldContent
<1> QED BY <1>1, <1>2

LEMMA ElsewhereContent ==
  ASSUME NEW m, Good(m), NEW r, NEW q, Separate(r, q), NEW s, NEW p, Elsewhere(m, r, q, s, p)
  PROVE  /\ \A x \in Paths \ r.damaged :
              ContentIn(r, q, x) = IF x = p THEN r.kernel.data[p] ELSE ContentIn(m, Open, x)
         /\ p \notin r.damaged => ContentIn(m, Open, p) = m.kernel.data[p]
<1>0. Separate(m, Open)
  BY DEF Good
<1> HIDE DEF Open
<1>1. p \notin r.damaged => ContentIn(m, Open, p) = m.kernel.data[p]
  BY <1>0, PlainContent DEF Elsewhere
<1>2. ASSUME NEW x \in Paths \ r.damaged
      PROVE  ContentIn(r, q, x) = IF x = p THEN r.kernel.data[p] ELSE ContentIn(m, Open, x)
  <2>1. CASE \A t \in Open \ {s} : Descriptor(m, t).path # x
    <3>1. \A t \in q \ {s} : Descriptor(r, t).path # x
      BY <2>1 DEF Elsewhere
    <3>2. ContentIn(r, q, x) = r.kernel.data[x]
      <4>1. s \in q => Descriptor(r, s).path # x \/ Pending(r, s) = <<>>
        BY DEF Elsewhere
      <4> QED BY <3>1, <4>1, PlainContent
    <3>3. ContentIn(m, Open, x) = m.kernel.data[x]
      BY <1>0, <1>2, <2>1, PlainContent DEF Elsewhere
    <3> QED BY <1>2, <3>2, <3>3 DEF Elsewhere
  <2>2. CASE ~(\A t \in Open \ {s} : Descriptor(m, t).path # x)
    <3>1. PICK t \in Open \ {s} : Descriptor(m, t).path = x
      BY <2>2
    <3>2. /\ r.file[t] = m.file[t] /\ Descriptor(r, t) = Descriptor(m, t) /\ x # p
          /\ t \in q /\ r.kernel.data[x] = m.kernel.data[x]
      BY <1>2, <3>1 DEF Elsewhere
    <3>3. WritePos(r.kernel, Descriptor(r, t)) = WritePos(m.kernel, Descriptor(m, t))
          /\ Pending(r, t) = Pending(m, t)
      <4>1. r.kernel.data[Descriptor(m, t).path] = m.kernel.data[Descriptor(m, t).path]
        BY <3>1, <3>2
      <4> QED BY <3>2, <4>1, Zenon DEF WritePos, Pending
    <3>4. ContentIn(r, q, Descriptor(r, t).path)
          = Overwrite(r.kernel.data[Descriptor(r, t).path],
                      WritePos(r.kernel, Descriptor(r, t)), Pending(r, t))
      BY <3>2, HeldContent
    <3>5. ContentIn(m, Open, Descriptor(m, t).path)
          = Overwrite(m.kernel.data[Descriptor(m, t).path],
                      WritePos(m.kernel, Descriptor(m, t)), Pending(m, t))
      BY <1>0, <3>1, HeldContent
    <3> QED BY <3>1, <3>2, <3>3, <3>4, <3>5
  <2> QED BY <2>1, <2>2
<1> QED BY <1>1, <1>2

LEMMA ElsewhereView ==
  ASSUME NEW m, Good(m), NEW r, NEW q, NEW s, NEW p, Elsewhere(m, r, q, s, p),
         NEW t \in Open \ {s}, NEW k
  PROVE  ViewIn(r, t, k) = ViewIn(m, t, k)
<1>1. Descriptor(m, t).path \in Paths
  BY DescriptorFacts DEF Good, Separate
<1>2. /\ r.file[t] = m.file[t] /\ Descriptor(r, t) = Descriptor(m, t)
      /\ r.kernel.data[Descriptor(m, t).path] = m.kernel.data[Descriptor(m, t).path]
  BY <1>1 DEF Elsewhere
<1>3. Pending(r, t) = Pending(m, t) /\ WritePos(r.kernel, Descriptor(r, t)) = WritePos(m.kernel, Descriptor(m, t))
  BY <1>2 DEF Pending, WritePos
<1> QED BY <1>2, <1>3, Zenon DEF ViewIn, PositionIn

LEMMA ElsewhereLooks ==
  ASSUME NEW m, Good(m), Looks(m, AbsContent, AbsStream),
         NEW r, NEW q, Separate(r, q), NEW s, NEW p, Elsewhere(m, r, q, s, p),
         NEW table, \A t \in Open \ {s} : KeptBy(table, t) <=> KeptBy(tracked, t),
         NEW c, \A x \in Paths : x # p => c[x] = AbsContent[x],
         p \in Paths \ r.damaged => c[p] = r.kernel.data[p],
         NEW st, DOMAIN st = q, \A t \in Open \ {s} : st[t] = AbsStream[t],
         s \in q => ViewIn(r, s, KeptBy(table, s)) = st[s]
  PROVE  LooksAs(r, q, table, c, st)
<1>1. \A x \in Paths \ r.damaged : ContentIn(r, q, x) = c[x]
  <2> TAKE x \in Paths \ r.damaged
  <2>1. ContentIn(r, q, x) = IF x = p THEN r.kernel.data[p] ELSE ContentIn(m, Open, x)
    BY ElsewhereContent
  <2>2. x # p => ContentIn(m, Open, x) = c[x]
    BY DEF Looks, LooksAs, Elsewhere
  <2> QED BY <2>1, <2>2
<1>2. ASSUME NEW t \in q PROVE Matches(ViewIn(r, t, KeptBy(table, t)), st[t], r.damaged)
  <2>1. CASE t = s
    <3>0. PICK k : k = KeptBy(table, s)
      OBVIOUS
    <3>1. ViewIn(r, s, k) = st[s]
      BY <1>2, <2>1, <3>0, Zenon
    <3>2. Matches(ViewIn(r, s, k), ViewIn(r, s, k), r.damaged)
      BY DEF Matches, ViewIn
    <3> QED BY <2>1, <3>0, <3>1, <3>2, Zenon
  <2>2. CASE t # s
    <3>0. PICK k : k = KeptBy(tracked, t)
      OBVIOUS
    <3>1. t \in Open \ {s}
      BY <1>2, <2>2 DEF Elsewhere
    <3>2. ViewIn(r, t, k) = ViewIn(m, t, k)
      BY <3>1, ElsewhereView
    <3>3. Matches(ViewIn(m, t, k), AbsStream[t], m.damaged)
      BY <3>0, <3>1, Zenon DEF Looks, LooksAs
    <3>4. Matches(ViewIn(m, t, k), AbsStream[t], r.damaged)
      <4>1. ViewIn(m, t, k) = [path |-> Descriptor(m, t).path, pos |-> PositionIn(m, t),
              pushed |-> m.file[t].ungot, kept |-> k, read |-> Descriptor(m, t).mode.read,
              write |-> Descriptor(m, t).mode.write, append |-> Descriptor(m, t).mode.append]
        BY ViewFields
      <4>2. m.damaged \subseteq r.damaged
        BY DEF Elsewhere
      <4> QED BY <3>3, <4>1, <4>2, MatchesMoved
    <3>5. KeptBy(table, t) = KeptBy(tracked, t)
      BY <3>1 DEF KeptBy
    <3>6. st[t] = AbsStream[t]
      BY <3>1
    <3> QED BY <3>0, <3>2, <3>4, <3>5, <3>6, Zenon
  <2> QED BY <2>1, <2>2
<1> QED BY <1>1, <1>2 DEF LooksAs

-----------------------------------------------------------------------------
(* Opening a file.                                                         *)

NewEntry(p, mode) == [path |-> p, pos |-> 0, mode |-> mode]
NewFd(k) == Min(FreeFds(k))
NewData(k, p, mode) == IF mode.trunc THEN [k.data EXCEPT ![p] = <<>>] ELSE k.data

LEMMA SysOpenFacts ==
  ASSUME NEW m, Typed(m), FreeFds(m.kernel) # {}, NEW p \in Paths, NEW mode \in Modes
  PROVE  /\ NewFd(m.kernel) \in Fds \ DOMAIN m.kernel.fds
         /\ SysOpen(m.kernel, p, mode)
            = [fds  |-> With(m.kernel.fds, NewFd(m.kernel), NewEntry(p, mode)),
               data |-> NewData(m.kernel, p, mode)]
         /\ SysClose(SysOpen(m.kernel, p, mode), NewFd(m.kernel))
            = [fds |-> m.kernel.fds, data |-> NewData(m.kernel, p, mode)]
         /\ NewData(m.kernel, p, mode) \in [Paths -> Content]
         /\ \A x \in Paths : x # p => NewData(m.kernel, p, mode)[x] = m.kernel.data[x]
         /\ NewData(m.kernel, p, mode)[p] = IF mode.trunc THEN <<>> ELSE m.kernel.data[p]
<1> DEFINE x == NewFd(m.kernel)
           v == NewEntry(p, mode)
           f == With(m.kernel.fds, x, v)
           d == NewData(m.kernel, p, mode)
<1>1. x \in Fds \ DOMAIN m.kernel.fds
  <2>1. Fds \subseteq Nat
    BY StreamsAssumption DEF Fds
  <2>2. FreeFds(m.kernel) \subseteq Nat
    BY <2>1 DEF FreeFds
  <2>3. Min(FreeFds(m.kernel)) \in FreeFds(m.kernel)
    BY <2>2, MinFacts
  <2> QED BY <2>3 DEF FreeFds, NewFd
<1>2. SysOpen(m.kernel, p, mode) = [fds |-> f, data |-> d]
  BY DEF SysOpen, NewFd, NewData, NewEntry
<1>3. Without(f, x) = m.kernel.fds
  <2>1. m.kernel.fds = [y \in DOMAIN m.kernel.fds |-> m.kernel.fds[y]]
    BY DEF Typed
  <2>2. DOMAIN f \ {x} = DOMAIN m.kernel.fds
    BY <1>1 DEF With
  <2>3. \A y \in DOMAIN m.kernel.fds : f[y] = m.kernel.fds[y]
    BY <1>1 DEF With
  <2> HIDE DEF f, x
  <2> QED BY <2>1, <2>2, <2>3 DEF Without
<1>4. SysClose([fds |-> f, data |-> d], x) = [fds |-> m.kernel.fds, data |-> d]
  <2> HIDE DEF f, x, d
  <2> QED BY <1>3 DEF SysClose
<1>5. d \in [Paths -> Content] /\ d[p] = (IF mode.trunc THEN <<>> ELSE m.kernel.data[p])
      /\ \A y \in Paths : y # p => d[y] = m.kernel.data[y]
  <2>1. <<>> \in Content
    BY EmptySeq DEF Content
  <2>2. m.kernel.data \in [Paths -> Content]
    BY DEF Typed
  <2>3. CASE mode.trunc
    BY <2>1, <2>2, <2>3 DEF NewData
  <2>4. CASE ~mode.trunc
    BY <2>1, <2>2, <2>4 DEF NewData
  <2> QED BY <2>3, <2>4
<1> QED BY <1>1, <1>2, <1>4, <1>5

LEMMA NewDataFacts ==
  ASSUME NEW m, Typed(m), FreeFds(m.kernel) # {}, NEW p \in Paths, NEW mode \in Modes
  PROVE  /\ NewData(m.kernel, p, mode) \in [Paths -> Content]
         /\ \A x \in Paths : x # p => NewData(m.kernel, p, mode)[x] = m.kernel.data[x]
         /\ NewData(m.kernel, p, mode)[p] = IF mode.trunc THEN <<>> ELSE m.kernel.data[p]
BY SysOpenFacts

AbsFresh(p, mode) == IF mode.trunc THEN [AbsContent EXCEPT ![p] = <<>>] ELSE AbsContent

(* The content of the file after it was opened is what the abstract call   *)
(* makes of it, if nothing was waiting to be written to it.                *)
LEMMA FreshFacts ==
  ASSUME NEW p \in Paths, NEW mode
  PROVE  /\ \A x \in Paths : x # p => AbsFresh(p, mode)[x] = AbsContent[x]
         /\ AbsFresh(p, mode)[p] = IF mode.trunc THEN <<>> ELSE AbsContent[p]
<1>1. AbsContent = [x \in Paths |-> AbsContent[x]]
  BY DEF AbsContent
<1> QED BY <1>1 DEF AbsFresh

(* Once exit takes care of it or not, a stream that opens is in the table  *)
(* when there is room, which the abstract call sees by counting.           *)
LEMMA KeptCount ==
  ASSUME Inv
  PROVE  Cardinality({t \in DOMAIN AbsStream \ Standard : AbsStream[t].kept}) = Len(tracked)
<1> DEFINE K == {t \in Open \ Standard : Kept(t)}
<1>1. Len(tracked) \in Nat /\ tracked \in [1 .. Len(tracked) -> Files] /\ DOMAIN tracked = 1 .. Len(tracked)
  BY LenProperties DEF Inv, TypeOK
<1>2. \A i \in 1 .. Len(tracked) : tracked[i] \in DOMAIN file \intersect Files
  BY <1>1 DEF Inv, StreamsApart, TableExact
<1>3. \A i \in 1 .. Len(tracked) : tracked[i] \in K
  <2> TAKE i \in 1 .. Len(tracked)
  <2>1. tracked[i] \notin Standard /\ closed \subseteq Standard
    BY <1>2, StreamsAssumption DEF Inv, TypeOK
  <2>2. Kept(tracked[i])
    BY <1>1 DEF Kept
  <2> QED BY <1>2, <2>1, <2>2 DEF Open
<1>4. tracked \in Bijection(1 .. Len(tracked), K)
  <2>1. tracked \in [1 .. Len(tracked) -> K]
    BY <1>1, <1>3
  <2>2. \A i, j \in 1 .. Len(tracked) : tracked[i] = tracked[j] => i = j
    BY <1>1 DEF Inv, StreamsApart, TableExact
  <2>3. \A t \in K : \E i \in 1 .. Len(tracked) : tracked[i] = t
    BY <1>1 DEF Kept
  <2> HIDE DEF K
  <2> QED BY <2>1, <2>2, <2>3 DEF Bijection, Injection, Surjection, IsInjective
<1>5. Cardinality(K) = Len(tracked)
  <2>1. IsFiniteSet(1 .. Len(tracked)) /\ Cardinality(1 .. Len(tracked)) = Len(tracked)
    <3> DEFINE n == Len(tracked)
    <3> HIDE DEF n
    <3>1. n \in Nat
      BY <1>1 DEF n
    <3>2. /\ IsFiniteSet(1 .. n)
          /\ Cardinality(1 .. n) = IF 1 > n THEN 0 ELSE n - 1 + 1
      BY <3>1, FS_Interval
    <3>3. Cardinality(1 .. n) = n
      BY <3>1, <3>2
    <3> QED BY <3>2, <3>3 DEF n
  <2> HIDE DEF K
  <2>2. ExistsBijection(1 .. Len(tracked), K)
    BY <1>4 DEF ExistsBijection
  <2> QED BY <2>1, <2>2, FS_Bijection
<1>6. {t \in DOMAIN AbsStream \ Standard : AbsStream[t].kept} = K
  <2>1. DOMAIN AbsStream = Open
    BY DEF AbsStream
  <2>2. \A t \in Open : AbsStream[t].kept <=> Kept(t)
    <3> TAKE t \in Open
    <3>1. AbsStream[t].kept = Kept(t)
      BY AbsStreamFacts
    <3> QED BY <3>1
  <2> QED BY <2>1, <2>2
<1> QED BY <1>5, <1>6

LEMMA ElsewhereFresh ==
  ASSUME NEW m, Good(m), Looks(m, AbsContent, AbsStream),
         NEW r, NEW q, Separate(r, q), NEW s, NEW p \in Paths \ r.damaged, Elsewhere(m, r, q, s, p),
         NEW mode, r.kernel.data[p] = IF mode.trunc THEN <<>> ELSE m.kernel.data[p]
  PROVE  AbsFresh(p, mode)[p] = r.kernel.data[p]
<1>1. ContentIn(m, Open, p) = m.kernel.data[p]
  BY ElsewhereContent
<1>2. ContentIn(m, Open, p) = AbsContent[p]
  BY DEF Elsewhere, Looks, LooksAs
<1> QED BY <1>1, <1>2, FreshFacts

(* The descriptors of streams in use are those of no file that opens.      *)
LEMMA AloneFacts ==
  ASSUME Inv, NEW p, NEW own, Alone(p, own), NEW t \in Open, file[t].fd \notin own
  PROVE  Descriptor(Now, t).path # p
BY OpenFacts, HereFacts DEF Alone

LEMMA FopenFails ==
  ASSUME Inv, ~exited, NEW s, s \notin Open, NEW p \in Paths, NEW mode \in Modes, Alone(p, {}),
         file' = file, kernel' = [fds |-> kernel.fds, data |-> NewData(kernel, p, mode)],
         UNCHANGED <<tracked, closed, damaged, exited, errors>>, FreeFds(kernel) # {},
         Answer("fopen", FALSE, FALSE, <<>>, 0)
  PROVE  Inv' /\ ByteFiles!Becomes(AbsFresh(p, mode), AbsStream) /\ ByteFiles!Keeps
<1> DEFINE k == [fds |-> kernel.fds, data |-> NewData(kernel, p, mode)]
           y == [file |-> file, kernel |-> k, damaged |-> damaged, err |-> FALSE]
<1>1. /\ Good(Now) /\ Now.file = file /\ Now.kernel = kernel /\ Now.damaged = damaged
  BY GoodNow DEF Now
<1>2. /\ NewData(kernel, p, mode) \in [Paths -> Content]
      /\ \A x \in Paths : x # p => NewData(kernel, p, mode)[x] = kernel.data[x]
      /\ NewData(kernel, p, mode)[p] = IF mode.trunc THEN <<>> ELSE kernel.data[p]
  <2>1. Typed(Now) /\ FreeFds(Now.kernel) # {}
    BY <1>1 DEF Good
  <2> QED BY <1>1, <2>1, NewDataFacts
<1>3. Whole(y) /\ y.file = file /\ y.kernel = k /\ y.damaged = damaged /\ y.err = FALSE
  <2> HIDE DEF k
  <2> QED BY Fields, Zenon
<1>4. k.fds = kernel.fds /\ k.data = NewData(kernel, p, mode)
  OBVIOUS
<1> HIDE DEF y, k
<1>5. Good(y)
  <2>1. Typed(Now) /\ Separate(Now, Open)
    BY <1>1 DEF Good
  <2>2. k = [fds |-> k.fds, data |-> k.data]
    BY DEF k
  <2>3. Typed(y)
    <3>1. /\ kernel.fds \in [DOMAIN kernel.fds -> Descriptors] /\ DOMAIN kernel.fds \subseteq Fds
          /\ damaged \subseteq Paths
      BY <1>1, <2>1 DEF Typed
    <3>2. /\ Standard \subseteq DOMAIN file /\ DOMAIN file \subseteq Standard \union Files
          /\ file \in [DOMAIN file -> FileObjects]
          /\ \A t \in DOMAIN file : Len(file[t].buf) <= BufCap /\ Len(file[t].ungot) <= UngetCap
      BY <1>1, <2>1 DEF Typed
    <3> QED BY <1>2, <1>3, <1>4, <2>2, <3>1, <3>2 DEF Typed
  <2>4. \A t : Descriptor(y, t) = Descriptor(Now, t)
    BY <1>1, <1>3, <1>4 DEF Descriptor
  <2>5. Separate(y, Open)
    BY <1>1, <1>3, <1>4, <2>1, <2>4 DEF Separate, IsOpen
  <2> QED BY <1>3, <2>3, <2>5 DEF Good
<1>6. Ends(y) /\ errors' \in 0 .. MaxErrors /\ exited' \in BOOLEAN
  <2>1. kernel' = k
    BY DEF k
  <2> QED BY <1>3, <2>1 DEF Ends, Inv, TypeOK
<1>7. Inv' /\ Open' = Open
  BY <1>5, <1>6, InvKept
<1>8. Elsewhere(Now, y, Open, s, p)
  <2>1. \A t \in Open : Descriptor(y, t) = Descriptor(Now, t) /\ y.file[t] = Now.file[t]
    BY <1>1, <1>3, <1>4 DEF Descriptor
  <2>2. \A t \in Open : Descriptor(Now, t).path # p
    BY AloneFacts
  <2> QED BY <1>1, <1>2, <1>3, <1>4, <2>1, <2>2 DEF Elsewhere
<1>9. LooksAs(y, Open, tracked, AbsFresh(p, mode), AbsStream)
  <2>1. Looks(Now, AbsContent, AbsStream)
    BY LooksNow
  <2>2. Separate(y, Open) /\ DOMAIN AbsStream = Open
    BY <1>5 DEF Good, AbsStream
  <2>3. y.kernel.data[p] = IF mode.trunc THEN <<>> ELSE Now.kernel.data[p]
    BY <1>1, <1>2, <1>3, <1>4
  <2>4. p \in Paths \ y.damaged => AbsFresh(p, mode)[p] = y.kernel.data[p]
    BY <1>1, <1>8, <2>1, <2>2, <2>3, ElsewhereFresh
  <2>5. \A x \in Paths : x # p => AbsFresh(p, mode)[x] = AbsContent[x]
    BY FreshFacts
  <2> QED BY <1>1, <1>8, <2>1, <2>2, <2>4, <2>5, ElsewhereLooks
<1>10. ByteFiles!Becomes(AbsFresh(p, mode), AbsStream)
  BY <1>3, <1>6, <1>7, <1>9, CallBecomes
<1>11. ByteFiles!Keeps
  <2>1. StrayIn(y) => StrayIn(Now)
    BY <1>1, <1>3 DEF StrayIn, Pending
  <2> QED BY <1>6, <2>1, StrayKeeps
<1> QED BY <1>7, <1>10, <1>11

NewFile(fd, mode) == [fd |-> fd, writable |-> mode.write, buf |-> <<>>, ungot |-> <<>>]

LEMMA NewFileFacts ==
  ASSUME NEW fd \in Fds, NEW mode \in Modes
  PROVE  /\ NewFile(fd, mode) \in FileObjects
         /\ NewFile(fd, mode).fd = fd /\ NewFile(fd, mode).writable = mode.write
         /\ NewFile(fd, mode).buf = <<>> /\ NewFile(fd, mode).ungot = <<>>
         /\ Len(NewFile(fd, mode).buf) <= BufCap /\ Len(NewFile(fd, mode).ungot) <= UngetCap
<1>1. <<>> \in Seq(Bytes) /\ Len(<<>>) = 0 /\ BufCap \in Nat /\ UngetCap \in Nat
  BY EmptySeq, StreamsAssumption
<1>2. mode.write \in BOOLEAN
  BY DEF Modes
<1> QED BY <1>1, <1>2 DEF NewFile, FileObjects

(* The state after s was given the new descriptor of a file just opened.   *)
Opens(m, s, p, mode, r) ==
  /\ Whole(r) /\ r.damaged = m.damaged /\ r.err = m.err
  /\ r.file = With(m.file, s, NewFile(NewFd(m.kernel), mode))
  /\ r.kernel = [fds  |-> With(m.kernel.fds, NewFd(m.kernel), NewEntry(p, mode)),
                 data |-> NewData(m.kernel, p, mode)]

OpensTo(m, s, p, mode, r) ==
  /\ Typed(r) /\ NewFd(m.kernel) \in Fds \ DOMAIN m.kernel.fds
  /\ DOMAIN r.file = DOMAIN m.file \union {s}
  /\ r.file[s] = NewFile(NewFd(m.kernel), mode)
  /\ \A t \in DOMAIN m.file : t # s => r.file[t] = m.file[t]
  /\ DOMAIN r.kernel.fds = DOMAIN m.kernel.fds \union {NewFd(m.kernel)}
  /\ r.kernel.fds[NewFd(m.kernel)] = NewEntry(p, mode)
  /\ \A x \in DOMAIN m.kernel.fds : r.kernel.fds[x] = m.kernel.fds[x]
  /\ r.kernel.data = NewData(m.kernel, p, mode)

LEMMA OpensTyped ==
  ASSUME NEW m, Typed(m), FreeFds(m.kernel) # {}, NEW s \in Standard \union Files,
         NEW p \in Paths, NEW mode \in Modes, NEW r, Opens(m, s, p, mode, r)
  PROVE  OpensTo(m, s, p, mode, r)
<1> DEFINE x == NewFd(m.kernel)
           d == NewEntry(p, mode)
           f == NewFile(x, mode)
<1>1. x \in Fds \ DOMAIN m.kernel.fds
  BY SysOpenFacts
<1>2. d \in Descriptors
  BY DEF Descriptors, NewEntry
<1>3. f \in FileObjects /\ Len(f.buf) <= BufCap /\ Len(f.ungot) <= UngetCap
  BY <1>1, NewFileFacts
<1>4. r.file = With(m.file, s, f)
  BY DEF Opens
<1>5. r.kernel.fds = With(m.kernel.fds, x, d) /\ r.kernel.data = NewData(m.kernel, p, mode)
      /\ r.kernel = [fds |-> r.kernel.fds, data |-> r.kernel.data]
  <2> DEFINE a == With(m.kernel.fds, x, d)
             b == NewData(m.kernel, p, mode)
  <2>1. r.kernel = [fds |-> a, data |-> b]
    BY Zenon DEF Opens
  <2> HIDE DEF a, b
  <2>2. r.kernel.fds = a /\ r.kernel.data = b
    BY <2>1
  <2> QED BY <2>1, <2>2 DEF a, b
<1> HIDE DEF d, f, x
<1>6. /\ DOMAIN r.file = DOMAIN m.file \union {s} /\ r.file[s] = f
      /\ \A t \in DOMAIN m.file : t # s => r.file[t] = m.file[t]
      /\ r.file = [t \in DOMAIN m.file \union {s} |-> r.file[t]]
  <2> DEFINE g == With(m.file, s, f)
  <2>1. /\ DOMAIN g = DOMAIN m.file \union {s} /\ g[s] = f
        /\ \A t \in DOMAIN m.file : t # s => g[t] = m.file[t]
        /\ g = [t \in DOMAIN m.file \union {s} |-> g[t]]
    BY DEF With
  <2> HIDE DEF g
  <2>2. r.file = g
    BY <1>4 DEF g
  <2> QED BY <2>1, <2>2
<1>7. /\ DOMAIN r.kernel.fds = DOMAIN m.kernel.fds \union {x} /\ r.kernel.fds[x] = d
      /\ \A y \in DOMAIN m.kernel.fds : r.kernel.fds[y] = m.kernel.fds[y]
      /\ r.kernel.fds = [y \in DOMAIN m.kernel.fds \union {x} |-> r.kernel.fds[y]]
  <2> DEFINE g == With(m.kernel.fds, x, d)
  <2>1. /\ DOMAIN g = DOMAIN m.kernel.fds \union {x} /\ g[x] = d
        /\ \A y \in DOMAIN m.kernel.fds : y # x => g[y] = m.kernel.fds[y]
        /\ g = [y \in DOMAIN m.kernel.fds \union {x} |-> g[y]]
    BY DEF With
  <2> HIDE DEF g
  <2>2. r.kernel.fds = g
    BY <1>5 DEF g
  <2> QED BY <1>1, <2>1, <2>2
<1>8. r.file \in [DOMAIN r.file -> FileObjects]
  <2>1. \A t \in DOMAIN r.file : r.file[t] \in FileObjects
    BY <1>3, <1>6 DEF Typed
  <2> QED BY <1>6, <2>1
<1>9. r.kernel.fds \in [DOMAIN r.kernel.fds -> Descriptors] /\ DOMAIN r.kernel.fds \subseteq Fds
  <2>1. \A y \in DOMAIN r.kernel.fds : r.kernel.fds[y] \in Descriptors
    BY <1>2, <1>7 DEF Typed
  <2> QED BY <1>1, <1>7, <2>1 DEF Typed
<1>10. r.kernel.data \in [Paths -> Content]
  <2>1. NewData(m.kernel, p, mode) \in [Paths -> Content]
    BY NewDataFacts
  <2> QED BY <1>5, <2>1
<1>11. \A t \in DOMAIN r.file : Len(r.file[t].buf) <= BufCap /\ Len(r.file[t].ungot) <= UngetCap
  BY <1>3, <1>6 DEF Typed
<1>12. Whole(r) /\ r.damaged = m.damaged /\ r.err = m.err
  BY DEF Opens
<1>13. Typed(r)
  <2>1. Standard \subseteq DOMAIN r.file /\ DOMAIN r.file \subseteq Standard \union Files
        /\ r.damaged \subseteq Paths /\ r.err \in BOOLEAN
    BY <1>6, <1>12 DEF Typed
  <2> QED BY <1>5, <1>8, <1>9, <1>10, <1>11, <1>12, <2>1 DEF Typed
<1> QED BY <1>1, <1>5, <1>6, <1>7, <1>13 DEF d, f, x, OpensTo

AbsOpened(p, mode, kept) ==
  [path |-> p, pos |-> 0, pushed |-> <<>>, kept |-> kept,
   read |-> mode.read, write |-> mode.write, append |-> mode.append]

OpensAt(m, r, q, s, p, mode) ==
  /\ Separate(r, q) /\ Elsewhere(m, r, q, s, p)
  /\ \A k : ViewIn(r, s, k) = AbsOpened(p, mode, k)
  /\ r.kernel.data[p] = IF mode.trunc THEN <<>> ELSE m.kernel.data[p]

LEMMA OpensApart ==
  ASSUME NEW m, Good(m), FreeFds(m.kernel) # {}, NEW s \in Standard \union Files,
         NEW p \in Paths, NEW mode \in Modes, NEW r, Opens(m, s, p, mode, r),
         NEW q, s \in q, q \ {s} = Open \ {s}, \A t \in Open \ {s} : Descriptor(m, t).path # p,
         s \in Open => Descriptor(m, s).path \in m.damaged \/ Pending(m, s) = <<>>
  PROVE  OpensAt(m, r, q, s, p, mode)
<1> DEFINE x == NewFd(m.kernel)
           d == NewEntry(p, mode)
<1>1. Typed(m) /\ Separate(m, Open)
  BY DEF Good
<1>2. /\ Typed(r) /\ x \in Fds \ DOMAIN m.kernel.fds
      /\ DOMAIN r.file = DOMAIN m.file \union {s}
      /\ r.file[s] = NewFile(x, mode)
      /\ \A t \in DOMAIN m.file : t # s => r.file[t] = m.file[t]
      /\ DOMAIN r.kernel.fds = DOMAIN m.kernel.fds \union {x}
      /\ r.kernel.fds[x] = d
      /\ \A y \in DOMAIN m.kernel.fds : r.kernel.fds[y] = m.kernel.fds[y]
      /\ r.kernel.data = NewData(m.kernel, p, mode)
  <2>1. OpensTo(m, s, p, mode, r)
    BY <1>1, OpensTyped
  <2> QED BY <2>1, Zenon DEF OpensTo
<1>3. /\ r.file[s].fd = x /\ r.file[s].writable = mode.write /\ r.file[s].buf = <<>>
      /\ r.file[s].ungot = <<>>
  BY <1>2, NewFileFacts
<1>4. d.path = p /\ d.pos = 0 /\ d.mode = mode
  BY DEF NewEntry
<1> HIDE DEF d, x
<1>5. Descriptor(r, s) = d /\ Pending(r, s) = <<>>
  BY <1>2, <1>3 DEF Descriptor, Pending
<1>6. \A t \in Open \ {s} :
        /\ t \in DOMAIN m.file /\ IsOpen(m.kernel, m.file[t].fd)
        /\ r.file[t] = m.file[t] /\ Descriptor(r, t) = Descriptor(m, t)
        /\ IsOpen(r.kernel, r.file[t].fd) /\ r.file[t].fd # x
  <2> TAKE t \in Open \ {s}
  <2>1. t \in DOMAIN m.file /\ IsOpen(m.kernel, m.file[t].fd)
    BY <1>1 DEF Separate
  <2>2. m.file[t].fd \in DOMAIN m.kernel.fds
    BY <2>1 DEF IsOpen
  <2>3. r.file[t] = m.file[t]
    BY <1>2, <2>1
  <2>4. r.kernel.fds[m.file[t].fd] = m.kernel.fds[m.file[t].fd]
    BY <1>2, <2>2
  <2>5. Descriptor(r, t) = Descriptor(m, t)
    BY <2>3, <2>4 DEF Descriptor
  <2>6. IsOpen(r.kernel, r.file[t].fd) /\ r.file[t].fd # x
    BY <1>2, <2>2, <2>3 DEF IsOpen
  <2> QED BY <2>1, <2>3, <2>5, <2>6
<1>7. Separate(r, q)
  <2>1. q \subseteq DOMAIN r.file
    BY <1>2, <1>6
  <2>2. ASSUME NEW t \in q
        PROVE  IsOpen(r.kernel, r.file[t].fd) /\ Descriptor(r, t).mode.write = r.file[t].writable
    <3>1. CASE t = s
      BY <1>2, <1>3, <1>4, <1>5, <3>1 DEF IsOpen
    <3>2. CASE t # s
      <4>1. t \in Open \ {s}
        BY <2>2, <3>2
      <4>2. Descriptor(m, t).mode.write = m.file[t].writable
        BY <1>1, <4>1 DEF Separate
      <4>3. r.file[t] = m.file[t] /\ Descriptor(r, t) = Descriptor(m, t)
            /\ IsOpen(r.kernel, r.file[t].fd)
        BY <1>6, <4>1
      <4> QED BY <4>2, <4>3, Zenon
    <3> QED BY <3>1, <3>2
  <2>3. ASSUME NEW t \in q, NEW u \in q,
               r.file[t].fd = r.file[u].fd \/ Descriptor(r, t).path = Descriptor(r, u).path
        PROVE  t = u
    <3>1. CASE t # s /\ u # s
      <4>1. t \in Open \ {s} /\ u \in Open \ {s}
        BY <2>3, <3>1
      <4>2. m.file[t].fd = m.file[u].fd \/ Descriptor(m, t).path = Descriptor(m, u).path
        BY <1>6, <2>3, <4>1
      <4> QED BY <1>1, <4>1, <4>2 DEF Separate
    <3>2. CASE t = s /\ u # s
      <4>1. u \in Open \ {s}
        BY <2>3, <3>2
      <4> QED BY <1>3, <1>4, <1>5, <1>6, <2>3, <3>2, <4>1
    <3>3. CASE t # s /\ u = s
      <4>1. t \in Open \ {s}
        BY <2>3, <3>3
      <4> QED BY <1>3, <1>4, <1>5, <1>6, <2>3, <3>3, <4>1
    <3> QED BY <3>1, <3>2, <3>3
  <2> QED BY <2>1, <2>2, <2>3 DEF Separate
<1>8. /\ \A y \in Paths : y # p => r.kernel.data[y] = m.kernel.data[y]
      /\ r.kernel.data[p] = IF mode.trunc THEN <<>> ELSE m.kernel.data[p]
  <2>1. /\ \A y \in Paths : y # p => NewData(m.kernel, p, mode)[y] = m.kernel.data[y]
        /\ NewData(m.kernel, p, mode)[p] = IF mode.trunc THEN <<>> ELSE m.kernel.data[p]
    BY <1>1, NewDataFacts
  <2> QED BY <1>2, <2>1
<1>9. Elsewhere(m, r, q, s, p)
  <2>1. r.damaged = m.damaged
    BY DEF Opens
  <2> QED BY <1>5, <1>6, <1>8, <2>1 DEF Elsewhere
<1>10. ASSUME NEW k PROVE ViewIn(r, s, k) = AbsOpened(p, mode, k)
  <2>1. PositionIn(r, s) = 0
    BY <1>4, <1>5 DEF PositionIn
  <2> QED BY <1>3, <1>4, <1>5, <2>1, Zenon DEF ViewIn, AbsOpened
<1> QED BY <1>7, <1>8, <1>9, <1>10 DEF OpensAt

(* What a stream opened or reopened looks like.                            *)
LEMMA OpensLooks ==
  ASSUME NEW m, Good(m), Looks(m, AbsContent, AbsStream),
         NEW r, NEW q, Separate(r, q), NEW s, s \in q, NEW p \in Paths, NEW mode,
         Elsewhere(m, r, q, s, p), r.kernel.data[p] = IF mode.trunc THEN <<>> ELSE m.kernel.data[p],
         \A k : ViewIn(r, s, k) = AbsOpened(p, mode, k),
         NEW table, \A t \in Open \ {s} : KeptBy(table, t) <=> KeptBy(tracked, t)
  PROVE  LooksAs(r, q, table, AbsFresh(p, mode),
                 With(AbsStream, s, AbsOpened(p, mode, KeptBy(table, s))))
<1> DEFINE st == With(AbsStream, s, AbsOpened(p, mode, KeptBy(table, s)))
<1>1. DOMAIN st = q
  BY DEF With, AbsStream, Elsewhere
<1>2. \A t \in Open \ {s} : st[t] = AbsStream[t]
  BY DEF With, AbsStream
<1>3. ViewIn(r, s, KeptBy(table, s)) = st[s]
  <2>0. PICK k : k = KeptBy(table, s)
    OBVIOUS
  <2>1. With(AbsStream, s, AbsOpened(p, mode, k))[s] = AbsOpened(p, mode, k)
    BY DEF With
  <2> QED BY <2>0, <2>1, Zenon
<1>4. \A x \in Paths : x # p => AbsFresh(p, mode)[x] = AbsContent[x]
  BY FreshFacts
<1>5. p \in Paths \ r.damaged => AbsFresh(p, mode)[p] = r.kernel.data[p]
  BY ElsewhereFresh
<1> HIDE DEF st
<1>6. LooksAs(r, q, table, AbsFresh(p, mode), st)
  BY <1>1, <1>2, <1>3, <1>4, <1>5, ElsewhereLooks
<1> QED BY <1>6 DEF st

(* track_fopen.                                                            *)
LEMMA TrackFacts ==
  ASSUME Inv, NEW s \in Files \ DOMAIN file, DOMAIN file' = DOMAIN file \union {s},
         tracked' = IF Len(tracked) < TrackCap THEN Append(tracked, s) ELSE tracked
  PROVE  /\ tracked' \in Seq(Files) /\ Len(tracked') <= TrackCap /\ TableExact'
         /\ \A t : t # s => (KeptBy(tracked', t) <=> KeptBy(tracked, t))
         /\ KeptBy(tracked', s) <=> Len(tracked) < TrackCap
<1> DEFINE n == Len(tracked)
<1>1. /\ n \in Nat /\ tracked \in Seq(Files) /\ DOMAIN tracked = 1 .. n /\ n <= TrackCap
      /\ TrackCap \in Nat
  BY LenProperties, StreamsAssumption DEF Inv, TypeOK
<1>2. /\ \A i \in 1 .. n : tracked[i] \in DOMAIN file \intersect Files
      /\ \A i, j \in 1 .. n : tracked[i] = tracked[j] => i = j
  BY <1>1 DEF Inv, StreamsApart, TableExact
<1>3. s \notin Standard /\ \A i \in 1 .. n : tracked[i] # s
  BY <1>2, StreamsAssumption
<1>4. CASE n < TrackCap
  <2> DEFINE q == Append(tracked, s)
  <2>1. /\ q \in Seq(Files) /\ Len(q) = n + 1 /\ DOMAIN q = 1 .. n + 1
        /\ \A i \in 1 .. n : q[i] = tracked[i]
        /\ q[n + 1] = s
    <3>1. q \in Seq(Files) /\ Len(q) = n + 1 /\ \A i \in 1 .. n : q[i] = tracked[i]
      BY <1>1, AppendProperties
    <3>2. q[n + 1] = s
      BY <1>1, AppendProperties
    <3>3. DOMAIN q = 1 .. n + 1
      BY <3>1, LenProperties
    <3> QED BY <3>1, <3>2, <3>3
  <2>2. tracked' = q
    BY <1>4
  <2> HIDE DEF q, n
  <2>3. \A i \in 1 .. n + 1 : i \in 1 .. n \/ i = n + 1
    BY <1>1
  <2>4. TableExact'
    <3>1. \A i \in 1 .. n + 1 : q[i] \in DOMAIN file' \intersect Files
      BY <1>2, <2>1, <2>3
    <3>2. \A i, j \in 1 .. n + 1 : q[i] = q[j] => i = j
      BY <1>2, <1>3, <2>1, <2>3
    <3> QED BY <2>1, <2>2, <3>1, <3>2 DEF TableExact
  <2>5. \A t : t # s => (KeptBy(q, t) <=> KeptBy(tracked, t))
    <3> SUFFICES ASSUME NEW t, t # s PROVE KeptBy(q, t) <=> KeptBy(tracked, t)
      OBVIOUS
    <3>1. ASSUME NEW i \in DOMAIN q, q[i] = t PROVE \E j \in DOMAIN tracked : tracked[j] = t
      BY <1>1, <2>1, <2>3, <3>1
    <3>2. ASSUME NEW i \in DOMAIN tracked, tracked[i] = t PROVE \E j \in DOMAIN q : q[j] = t
      BY <1>1, <2>1, <3>2
    <3> QED BY <3>1, <3>2 DEF KeptBy
  <2>6. KeptBy(q, s)
    BY <1>1, <2>1 DEF KeptBy
  <2>7. Len(q) <= TrackCap
    BY <1>1, <1>4, <2>1
  <2> QED BY <1>4, <2>1, <2>2, <2>4, <2>5, <2>6, <2>7 DEF n
<1>5. CASE ~(n < TrackCap)
  <2>1. tracked' = tracked
    BY <1>5
  <2>2. TableExact'
    <3>1. \A i \in DOMAIN tracked : tracked[i] \in DOMAIN file' \intersect Files
      BY <1>1, <1>2
    <3>2. \A i, j \in DOMAIN tracked : tracked[i] = tracked[j] => i = j
      BY <1>1, <1>2
    <3> HIDE DEF n
    <3> QED BY <2>1, <3>1, <3>2 DEF TableExact
  <2>3. ~KeptBy(tracked, s)
    BY <1>1, <1>3 DEF KeptBy
  <2> QED BY <1>1, <1>5, <2>1, <2>2, <2>3
<1> QED BY <1>4, <1>5

LEMMA FopenSucceeds ==
  ASSUME Inv, ~exited, NEW s \in Files \ DOMAIN file, NEW p \in Paths, NEW mode \in Modes,
         Alone(p, {}), FreeFds(kernel) # {},
         kernel' = SysOpen(kernel, p, mode),
         file' = With(file, s, NewFile(NewFd(kernel), mode)),
         tracked' = IF Len(tracked) < TrackCap THEN Append(tracked, s) ELSE tracked,
         UNCHANGED <<closed, damaged, exited, errors>>
  PROVE  /\ Inv' /\ ByteFiles!Keeps
         /\ ByteFiles!Becomes(AbsFresh(p, mode),
                              With(AbsStream, s, AbsOpened(p, mode, Len(tracked) < TrackCap)))
<1> DEFINE k == SysOpen(kernel, p, mode)
           f == With(file, s, NewFile(NewFd(kernel), mode))
           y == [file |-> f, kernel |-> k, damaged |-> damaged, err |-> FALSE]
           q == Open \union {s}
<1>1. /\ Good(Now) /\ Now.file = file /\ Now.kernel = kernel /\ Now.damaged = damaged
      /\ Now.err = FALSE
  BY GoodNow DEF Now
<1>2. Whole(y) /\ y.file = f /\ y.kernel = k /\ y.damaged = damaged /\ y.err = FALSE
  <2> HIDE DEF k, f
  <2> QED BY Fields, Zenon
<1> HIDE DEF y
<1>3. Typed(Now) /\ FreeFds(Now.kernel) # {} /\ s \in Standard \union Files
  BY <1>1 DEF Good
<1>4. Opens(Now, s, p, mode, y)
  <2>1. SysOpen(Now.kernel, p, mode)
        = [fds  |-> With(Now.kernel.fds, NewFd(Now.kernel), NewEntry(p, mode)),
           data |-> NewData(Now.kernel, p, mode)]
    BY <1>3, SysOpenFacts
  <2>2. y.kernel = SysOpen(Now.kernel, p, mode)
    BY <1>1, <1>2
  <2>3. y.file = With(Now.file, s, NewFile(NewFd(Now.kernel), mode))
    BY <1>1, <1>2
  <2>4. Whole(y) /\ y.damaged = Now.damaged /\ y.err = Now.err
    BY <1>1, <1>2
  <2> QED BY <2>1, <2>2, <2>3, <2>4, Zenon DEF Opens
<1>5. Ends(y) /\ errors' \in 0 .. MaxErrors /\ exited' \in BOOLEAN /\ closed' \subseteq Standard
  BY <1>2 DEF Ends, Inv, TypeOK
<1>6. Typed(y) /\ DOMAIN y.file = DOMAIN file \union {s}
  <2>1. OpensTo(Now, s, p, mode, y)
    BY <1>3, <1>4, OpensTyped
  <2> QED BY <1>1, <2>1, Zenon DEF OpensTo
<1>7. s \notin Open /\ s \notin closed /\ Open' = q
  <2>1. s \notin Standard
    BY StreamsAssumption
  <2>2. s \notin closed
    BY <2>1 DEF Inv, TypeOK
  <2>3. DOMAIN file' = DOMAIN file \union {s}
    BY <1>5, <1>6 DEF Ends
  <2> QED BY <2>2, <2>3 DEF Open
<1>8. /\ tracked' \in Seq(Files) /\ Len(tracked') <= TrackCap /\ TableExact'
      /\ \A t : t # s => (KeptBy(tracked', t) <=> KeptBy(tracked, t))
      /\ KeptBy(tracked', s) <=> Len(tracked) < TrackCap
  <2>1. DOMAIN file' = DOMAIN file \union {s}
    BY <1>5, <1>6 DEF Ends
  <2> QED BY <2>1, TrackFacts
<1>9. /\ Separate(y, q) /\ Elsewhere(Now, y, q, s, p)
      /\ \A j : ViewIn(y, s, j) = AbsOpened(p, mode, j)
      /\ y.kernel.data[p] = IF mode.trunc THEN <<>> ELSE Now.kernel.data[p]
  <2>1. s \in q /\ q \ {s} = Open \ {s}
    BY <1>7
  <2>2. \A t \in Open \ {s} : Descriptor(Now, t).path # p
    BY AloneFacts
  <2> HIDE DEF q
  <2>3. OpensAt(Now, y, q, s, p, mode)
    BY <1>1, <1>3, <1>4, <1>7, <2>1, <2>2, OpensApart
  <2> QED BY <2>3, Zenon DEF OpensAt
<1>10. LooksAs(y, q, tracked', AbsFresh(p, mode),
               With(AbsStream, s, AbsOpened(p, mode, KeptBy(tracked', s))))
  <2>1. s \in q /\ Looks(Now, AbsContent, AbsStream)
    BY LooksNow
  <2> HIDE DEF q
  <2> QED BY <1>1, <1>8, <1>9, <2>1, OpensLooks
<1>11. KeptBy(tracked', s) = (Len(tracked) < TrackCap)
  BY <1>8 DEF KeptBy
<1>12. Inv'
  BY <1>5, <1>6, <1>7, <1>8, <1>9, InvAfter
<1>13. ByteFiles!Becomes(AbsFresh(p, mode),
                         With(AbsStream, s, AbsOpened(p, mode, Len(tracked) < TrackCap)))
  <2> PICK kept : kept = KeptBy(tracked', s)
    OBVIOUS
  <2>1. LooksAs(y, Open', tracked', AbsFresh(p, mode), With(AbsStream, s, AbsOpened(p, mode, kept)))
    BY <1>7, <1>10, Zenon
  <2>2. damaged \subseteq y.damaged /\ ~(y.damaged # damaged)
    BY <1>2
  <2>3. ByteFiles!Becomes(AbsFresh(p, mode), With(AbsStream, s, AbsOpened(p, mode, kept)))
    BY <1>5, <2>1, <2>2, CallBecomes
  <2> QED BY <1>11, <2>3, Zenon
<1>14. ByteFiles!Keeps
  <2>1. \A t \in closed : y.file[t] = file[t]
    <3>1. \A t \in DOMAIN Now.file : t # s => y.file[t] = Now.file[t]
      <4>1. OpensTo(Now, s, p, mode, y)
        BY <1>3, <1>4, OpensTyped
      <4> QED BY <4>1, Zenon DEF OpensTo
    <3> QED BY <1>1, <1>7, <3>1 DEF Inv, TypeOK
  <2>2. StrayIn(y) => StrayIn(Now)
    BY <1>1, <2>1 DEF StrayIn, Pending
  <2> QED BY <1>5, <2>2, StrayKeeps
<1> QED BY <1>12, <1>13, <1>14

LEMMA SameCardinality ==
  ASSUME NEW S
  PROVE  ByteFiles!Cardinality(S) = Cardinality(S)
BY Zenon DEF ByteFiles!Cardinality, Cardinality

OpenBecomes(c, st, s, p, mode, kept) ==
  ByteFiles!Becomes(IF mode.trunc THEN [c EXCEPT ![p] = <<>>] ELSE c,
                    ByteFiles!With(st, s, ByteFiles!Opened(p, mode, kept)))

LEMMA FopenRefines ==
  ASSUME Inv, ~exited, NEW s, NEW p \in Paths, NEW mode \in Modes, Fopen(s, p, mode)
  PROVE  Inv' /\ ByteFiles!Open(s, p, mode)
<1>1. /\ s \in Files \ DOMAIN file /\ Alone(p, {}) /\ FreeFds(kernel) # {}
      /\ UNCHANGED <<closed, damaged, exited, errors>>
  BY DEF Fopen
<1>2. Good(Now) /\ Now.kernel = kernel /\ Typed(Now) /\ FreeFds(Now.kernel) # {} /\ s \notin Open
  BY <1>1, GoodNow DEF Good, Now, Open
<1> DEFINE cc == [x \in Paths |-> ContentIn(Now, IF exited THEN {} ELSE Open, x)]
           vv == [t \in Open |-> ViewIn(Now, t, Kept(t))]
<1>3. cc = AbsContent /\ vv = AbsStream
  BY AbsHere
<1>4. CASE /\ kernel' = SysOpen(kernel, p, mode)
           /\ file' = With(file, s, NewFile(NewFd(kernel), mode))
           /\ tracked' = IF Len(tracked) < TrackCap THEN Append(tracked, s) ELSE tracked
           /\ Answer("fopen", TRUE, FALSE, <<>>, 0)
  <2>1. result'.call = "fopen" /\ result'.ok = TRUE
    BY <1>4, AnswerFacts
  <2>2. /\ Inv' /\ ByteFiles!Keeps
        /\ ByteFiles!Becomes(AbsFresh(p, mode),
                             With(AbsStream, s, AbsOpened(p, mode, Len(tracked) < TrackCap)))
    BY <1>1, <1>4, FopenSucceeds
  <2> DEFINE room == ByteFiles!Cardinality({t \in DOMAIN AbsStream \ Standard : AbsStream[t].kept}) < TrackCap
  <2>3. room = (Len(tracked) < TrackCap)
    BY KeptCount, SameCardinality
  <2>4. OpenBecomes(AbsContent, AbsStream, s, p, mode, room)
    <3>1. \A k : With(AbsStream, s, AbsOpened(p, mode, k))
                 = ByteFiles!With(AbsStream, s, ByteFiles!Opened(p, mode, k))
      BY Zenon DEF With, ByteFiles!With, AbsOpened, ByteFiles!Opened
    <3> PICK k : k = room
      OBVIOUS
    <3>2. ByteFiles!Becomes(AbsFresh(p, mode), With(AbsStream, s, AbsOpened(p, mode, k)))
      BY <2>2, <2>3, Zenon
    <3>3. ByteFiles!Becomes(AbsFresh(p, mode),
                            ByteFiles!With(AbsStream, s, ByteFiles!Opened(p, mode, k)))
      BY <3>1, <3>2, Zenon
    <3>4. OpenBecomes(AbsContent, AbsStream, s, p, mode, k)
      BY <3>3, Zenon DEF OpenBecomes, AbsFresh
    <3> QED BY <3>4, Zenon
  <2>5. OpenBecomes(cc, vv, s, p, mode,
                    ByteFiles!Cardinality({t \in DOMAIN vv \ Standard : vv[t].kept}) < TrackCap)
    <3> HIDE DEF cc, vv
    <3> QED BY <1>3, <2>4, Zenon
  <2>6. s \notin DOMAIN vv
    BY <1>2
  <2> HIDE DEF vv
  <2>7. ByteFiles!Open(s, p, mode)
    BY <2>1, <2>2, <2>5, <2>6, Zenon
       DEF ByteFiles!Open, ByteFiles!Fresh, ByteFiles!KeptNow, OpenBecomes, vv
  <2> QED BY <2>2, <2>7
<1>5. ASSUME Answer("fopen", FALSE, FALSE, <<>>, 0), UNCHANGED <<file, tracked>>,
             kernel' \in {kernel, SysClose(SysOpen(kernel, p, mode), NewFd(kernel))}
      PROVE  Inv' /\ ByteFiles!Open(s, p, mode)
  <2>1. result'.call = "fopen" /\ result'.ok = FALSE
    BY <1>5, AnswerFacts
  <2>2. CASE kernel' = SysClose(SysOpen(kernel, p, mode), NewFd(kernel))
    <3>1. SysClose(SysOpen(Now.kernel, p, mode), NewFd(Now.kernel))
          = [fds |-> Now.kernel.fds, data |-> NewData(Now.kernel, p, mode)]
      BY <1>2, SysOpenFacts
    <3>2. kernel' = [fds |-> kernel.fds, data |-> NewData(kernel, p, mode)]
      BY <1>2, <2>2, <3>1
    <3>3. Inv' /\ ByteFiles!Becomes(AbsFresh(p, mode), AbsStream) /\ ByteFiles!Keeps
      BY <1>1, <1>2, <1>5, <3>2, FopenFails
    <3>4. ByteFiles!Becomes(IF mode.trunc THEN [cc EXCEPT ![p] = <<>>] ELSE cc, vv)
      <4>1. ByteFiles!Becomes(IF mode.trunc THEN [AbsContent EXCEPT ![p] = <<>>] ELSE AbsContent,
                              AbsStream)
        BY <3>3, Zenon DEF AbsFresh
      <4> HIDE DEF cc, vv
      <4> QED BY <1>3, <4>1, Zenon
    <3>5. ByteFiles!Open(s, p, mode)
      BY <2>1, <3>3, <3>4, Zenon DEF ByteFiles!Open, ByteFiles!Fresh
    <3> QED BY <3>3, <3>5
  <2>3. CASE kernel' = kernel
    <3>1. Ends(Now) /\ errors' \in 0 .. MaxErrors /\ exited' \in BOOLEAN /\ Now.err = FALSE
      BY <1>1, <1>5, <2>3 DEF Ends, Now, Inv, TypeOK
    <3>2. Inv'
      BY <1>1, <1>2, <1>5, <3>1, InvKept
    <3>3. ByteFiles!Becomes(AbsContent, AbsStream) /\ ByteFiles!Keeps
      BY <1>1, <1>2, <1>5, <3>1, FollowsSelf, FollowsBecomes
    <3>4. ByteFiles!Becomes(cc, vv)
      <4> HIDE DEF cc, vv
      <4> QED BY <1>3, <3>3
    <3>5. ByteFiles!Open(s, p, mode)
      BY <2>1, <3>3, <3>4, Zenon DEF ByteFiles!Open
    <3> QED BY <3>2, <3>5
  <2> QED BY <1>5, <2>2, <2>3
<1> QED BY <1>4, <1>5 DEF Fopen, NewFile, NewFd

-----------------------------------------------------------------------------
(* Closing a descriptor that no stream of q has: y is r without it.        *)

Closes(r, x, q, y) ==
  /\ Whole(y) /\ y.damaged = r.damaged /\ y.err = r.err
  /\ y.kernel = SysClose(r.kernel, x)
  /\ Standard \subseteq DOMAIN y.file /\ DOMAIN y.file \subseteq DOMAIN r.file
  /\ y.file = [t \in DOMAIN y.file |-> r.file[t]]
  /\ q \subseteq DOMAIN y.file /\ \A t \in q : r.file[t].fd # x

LEMMA SysCloseFacts ==
  ASSUME NEW k, k = [fds |-> k.fds, data |-> k.data], NEW x
  PROVE  /\ SysClose(k, x).fds = Without(k.fds, x)
         /\ SysClose(k, x).data = k.data
         /\ SysClose(k, x) = [fds |-> SysClose(k, x).fds, data |-> SysClose(k, x).data]
<1> DEFINE f == Without(k.fds, x)
           d == k.data
           g == k.fds
<1>1. SysClose(k, x) = [k EXCEPT !.fds = f]
  BY DEF SysClose
<1> HIDE DEF f
<1>2. [k EXCEPT !.fds = f] = [fds |-> f, data |-> d]
  <2>1. k = [fds |-> g, data |-> d]
    OBVIOUS
  <2> HIDE DEF g, d
  <2>2. [[fds |-> g, data |-> d] EXCEPT !.fds = f] = [fds |-> f, data |-> d]
    OBVIOUS
  <2> QED BY <2>1, <2>2
<1> HIDE DEF d
<1>3. SysClose(k, x) = [fds |-> f, data |-> d]
  BY <1>1, <1>2
<1> QED BY <1>3 DEF f, d

LEMMA ClosesTyped ==
  ASSUME NEW r, Typed(r), NEW x, NEW q, Separate(r, q), NEW y, Closes(r, x, q, y)
  PROVE  /\ Typed(y) /\ Separate(y, q)
         /\ \A t \in q : y.file[t] = r.file[t] /\ Descriptor(y, t) = Descriptor(r, t)
         /\ y.kernel.data = r.kernel.data
<1>1. /\ y.kernel.fds = Without(r.kernel.fds, x) /\ y.kernel.data = r.kernel.data
      /\ y.kernel = [fds |-> y.kernel.fds, data |-> y.kernel.data]
  <2>1. r.kernel = [fds |-> r.kernel.fds, data |-> r.kernel.data]
    BY DEF Typed
  <2>2. y.kernel = SysClose(r.kernel, x)
    BY DEF Closes
  <2> QED BY <2>1, <2>2, SysCloseFacts
<1>2. /\ DOMAIN y.kernel.fds = DOMAIN r.kernel.fds \ {x}
      /\ \A z \in DOMAIN r.kernel.fds \ {x} : y.kernel.fds[z] = r.kernel.fds[z]
      /\ y.kernel.fds = [z \in DOMAIN r.kernel.fds \ {x} |-> r.kernel.fds[z]]
  BY <1>1 DEF Without
<1>3. /\ Whole(y) /\ y.damaged = r.damaged /\ y.err = r.err
      /\ Standard \subseteq DOMAIN y.file /\ DOMAIN y.file \subseteq DOMAIN r.file
      /\ y.file = [t \in DOMAIN y.file |-> r.file[t]]
      /\ q \subseteq DOMAIN y.file /\ \A t \in q : r.file[t].fd # x
  BY DEF Closes
<1>4. \A t \in DOMAIN y.file : y.file[t] = r.file[t]
  BY <1>3
<1>5. /\ DOMAIN r.file \subseteq Standard \union Files
      /\ r.file \in [DOMAIN r.file -> FileObjects]
      /\ \A t \in DOMAIN r.file : Len(r.file[t].buf) <= BufCap /\ Len(r.file[t].ungot) <= UngetCap
      /\ r.kernel.fds \in [DOMAIN r.kernel.fds -> Descriptors] /\ DOMAIN r.kernel.fds \subseteq Fds
      /\ r.kernel.data \in [Paths -> Content]
      /\ r.damaged \subseteq Paths /\ r.err \in BOOLEAN
  BY DEF Typed
<1>6. y.kernel.fds \in [DOMAIN y.kernel.fds -> Descriptors] /\ DOMAIN y.kernel.fds \subseteq Fds
  BY <1>2, <1>5
<1>7. y.file \in [DOMAIN y.file -> FileObjects]
  <2>1. \A t \in DOMAIN y.file : r.file[t] \in FileObjects
    BY <1>3, <1>5
  <2> DEFINE D == DOMAIN y.file
  <2>2. y.file = [t \in D |-> r.file[t]] /\ \A t \in D : r.file[t] \in FileObjects
    BY <1>3, <2>1
  <2> HIDE DEF D
  <2>3. y.file \in [D -> FileObjects]
    BY <2>2
  <2> QED BY <2>3 DEF D
<1>8. \A t \in DOMAIN y.file : Len(y.file[t].buf) <= BufCap /\ Len(y.file[t].ungot) <= UngetCap
  BY <1>3, <1>4, <1>5
<1>9. Typed(y)
  <2>1. DOMAIN y.file \subseteq Standard \union Files
    BY <1>3, <1>5
  <2> QED BY <1>1, <1>3, <1>5, <1>6, <1>7, <1>8, <2>1 DEF Typed
<1>10. ASSUME NEW t \in q
       PROVE  /\ y.file[t] = r.file[t] /\ Descriptor(y, t) = Descriptor(r, t)
              /\ IsOpen(y.kernel, y.file[t].fd)
              /\ Descriptor(y, t).mode.write = y.file[t].writable
  <2>1. y.file[t] = r.file[t] /\ r.file[t].fd # x
    BY <1>3, <1>4
  <2>2. IsOpen(r.kernel, r.file[t].fd) /\ Descriptor(r, t).mode.write = r.file[t].writable
    BY DEF Separate
  <2>3. r.file[t].fd \in DOMAIN r.kernel.fds \ {x}
    BY <2>1, <2>2 DEF IsOpen
  <2>4. Descriptor(y, t) = Descriptor(r, t)
    BY <1>2, <2>1, <2>3 DEF Descriptor
  <2>5. IsOpen(y.kernel, y.file[t].fd)
    BY <1>2, <2>1, <2>3 DEF IsOpen
  <2> QED BY <2>1, <2>2, <2>4, <2>5, Zenon
<1>11. Separate(y, q)
  <2>1. \A t, u \in q :
          y.file[t].fd = y.file[u].fd \/ Descriptor(y, t).path = Descriptor(y, u).path => t = u
    BY <1>10 DEF Separate
  <2> QED BY <1>3, <1>10, <2>1 DEF Separate
<1> QED BY <1>1, <1>9, <1>10, <1>11

LEMMA ClosesLooks ==
  ASSUME NEW r, Typed(r), NEW x, NEW q, Separate(r, q), NEW y, Closes(r, x, q, y),
         NEW table, NEW c, NEW st, LooksAs(r, q, table, c, st)
  PROVE  LooksAs(y, q, table, c, st)
<1>1. /\ Separate(y, q) /\ y.kernel.data = r.kernel.data
      /\ \A t \in q : y.file[t] = r.file[t] /\ Descriptor(y, t) = Descriptor(r, t)
  BY ClosesTyped
<1>2. y.damaged = r.damaged
  BY DEF Closes
<1>3. \A t \in q : /\ Pending(y, t) = Pending(r, t)
                   /\ WritePos(y.kernel, Descriptor(y, t)) = WritePos(r.kernel, Descriptor(r, t))
  BY <1>1 DEF Pending, WritePos
<1>4. \A p \in Paths : ContentIn(y, q, p) = ContentIn(r, q, p)
  <2> TAKE p \in Paths
  <2>1. Undisturbed(r, q, y, q, p)
    BY <1>1, <1>3 DEF Undisturbed
  <2> QED BY <1>1, <2>1, SameContent
<1>5. ASSUME NEW t \in q PROVE Matches(ViewIn(y, t, KeptBy(table, t)), st[t], y.damaged)
  <2> PICK k : k = KeptBy(table, t)
    OBVIOUS
  <2>1. y.file[t] = r.file[t] /\ Descriptor(y, t) = Descriptor(r, t)
        /\ Pending(y, t) = Pending(r, t)
        /\ WritePos(y.kernel, Descriptor(y, t)) = WritePos(r.kernel, Descriptor(r, t))
    BY <1>1, <1>3
  <2>2. ViewIn(y, t, k) = ViewIn(r, t, k)
    BY <2>1, Zenon DEF ViewIn, PositionIn
  <2>3. Matches(ViewIn(r, t, k), st[t], r.damaged)
    BY Zenon DEF LooksAs
  <2> QED BY <1>2, <2>2, <2>3, Zenon
<1> QED BY <1>2, <1>4, <1>5 DEF LooksAs

-----------------------------------------------------------------------------
(* What freopen and fclose leave of a stream: it was flushed, and what was *)
(* not written is lost.                                                    *)

Left(s, r) ==
  /\ Good(r) /\ Follows(Now, r) /\ Looks(r, AbsContent, AbsStream)
  /\ Descriptor(r, s).path \in r.damaged \/ Pending(r, s) = <<>>
  /\ damaged \subseteq r.damaged /\ (r.damaged # damaged => r.err \/ StrayIn(Now))
  /\ StrayIn(r) => StrayIn(Now)
  /\ Pending(r, s) # <<>> => r.err
  /\ FreeFds(r.kernel) = FreeFds(kernel)
  /\ \A t \in Open : r.file[t].fd = file[t].fd /\ Descriptor(r, t).path = Descriptor(Now, t).path

LEMMA LosesLeaves ==
  ASSUME Inv, NEW s \in Open, NEW m \in Flushed(Now, s)
  PROVE  /\ Left(s, Loses(m, {s})) /\ Good(m) /\ Follows(Now, m)
         /\ Loses(m, {s}).err = m.err
<1> DEFINE r == Loses(m, {s})
<1>1. Good(m) /\ Follows(Now, m) /\ (Pending(m, s) # <<>> => m.err)
  BY FlushFollows, OpenFacts
<1>2. /\ Good(Now) /\ closed \subseteq Standard /\ s \in DOMAIN m.file
      /\ Now.damaged = damaged /\ Now.kernel = kernel /\ Now.file = file
  <2>1. s \in DOMAIN m.file
    BY <1>1, OpenFacts DEF Good
  <2> QED BY <2>1, OpenFacts
<1>3. /\ Good(r) /\ Follows(m, r) /\ r.file = m.file /\ r.kernel = m.kernel /\ r.err = m.err
      /\ r.damaged = m.damaged \union {Descriptor(m, t).path : t \in Unflushed(m, {s})}
  <2>1. {s} \subseteq DOMAIN m.file /\ \A t \in {s} : Pending(m, t) # <<>> => m.err \/ t \in closed
    BY <1>1, <1>2
  <2> QED BY <1>1, <2>1, LosesFollows
<1> HIDE DEF r
<1>4. Follows(Now, r)
  BY <1>1, <1>2, <1>3, FollowsTransitive
<1>5. Looks(r, AbsContent, AbsStream)
  BY <1>2, <1>4, LooksNow, LooksFollows
<1>6. Descriptor(r, s).path = Descriptor(m, s).path /\ Pending(r, s) = Pending(m, s)
  BY <1>3 DEF Descriptor, Pending
<1>7. Descriptor(r, s).path \in r.damaged \/ Pending(r, s) = <<>>
  <2>1. IsOpen(m.kernel, m.file[s].fd)
    BY <1>1 DEF Good, Separate
  <2>2. Pending(m, s) # <<>> => s \in Unflushed(m, {s})
    BY <2>1 DEF Unflushed
  <2> QED BY <1>3, <1>6, <2>2
<1>8. damaged \subseteq r.damaged /\ (r.damaged # damaged => r.err \/ StrayIn(Now))
  BY <1>2, <1>4, Zenon DEF Follows
<1>9. StrayIn(r) => StrayIn(Now)
  BY <1>2, <1>4, FollowsStray
<1>10. Pending(r, s) # <<>> => r.err
  BY <1>1, <1>3, <1>6
<1>11. FreeFds(r.kernel) = FreeFds(kernel)
  BY <1>2, <1>4, Zenon DEF Follows, FreeFds
<1>12. \A t \in Open : r.file[t].fd = file[t].fd /\ Descriptor(r, t).path = Descriptor(Now, t).path
  BY <1>2, <1>4, FollowsPath
<1>13. Left(s, r)
  BY <1>3, <1>4, <1>5, <1>7, <1>8, <1>9, <1>10, <1>11, <1>12 DEF Left
<1> QED BY <1>1, <1>3, <1>13 DEF r

LEMMA ReplaceRecord ==
  ASSUME NEW r, Whole(r), NEW s \in DOMAIN r.file, NEW f, NEW k
  PROVE  [r EXCEPT !.file[s] = f, !.kernel = k]
         = [file |-> With(r.file, s, f), kernel |-> k, damaged |-> r.damaged, err |-> r.err]
<1> DEFINE g == [r.file EXCEPT ![s] = f]
<1>1. [r EXCEPT !.file[s] = f, !.kernel = k] = [[r EXCEPT !.file = g] EXCEPT !.kernel = k]
  OBVIOUS
<1>2. g = With(r.file, s, f)
  <2> DEFINE D == DOMAIN r.file
  <2>1. D \union {s} = D
    OBVIOUS
  <2>2. g = [t \in D |-> IF t = s THEN f ELSE r.file[t]]
    OBVIOUS
  <2> HIDE DEF D, g
  <2> QED BY <2>1, <2>2 DEF With, D
<1> HIDE DEF g
<1>3. [[r EXCEPT !.file = g] EXCEPT !.kernel = k]
      = [file |-> g, kernel |-> k, damaged |-> r.damaged, err |-> r.err]
  BY NewFields
<1> QED BY <1>1, <1>2, <1>3

(* The state when the new file is open, before the old one is closed.      *)
Reopened(r, s, p, mode) ==
  [file |-> With(r.file, s, NewFile(NewFd(r.kernel), mode)), kernel |-> SysOpen(r.kernel, p, mode),
   damaged |-> r.damaged, err |-> r.err]

AbsReopened(s, p, mode) == With(AbsStream, s, AbsOpened(p, mode, KeptBy(tracked, s)))

LEMMA ReopenedFacts ==
  ASSUME Inv, NEW s \in Open, NEW r, Left(s, r), NEW p \in Paths, NEW mode \in Modes,
         Alone(p, {file[s].fd}), FreeFds(kernel) # {}
  PROVE  /\ Good(Reopened(r, s, p, mode))
         /\ Looks(Reopened(r, s, p, mode), AbsFresh(p, mode), AbsReopened(s, p, mode))
         /\ Reopened(r, s, p, mode).file = With(r.file, s, NewFile(NewFd(r.kernel), mode))
         /\ Reopened(r, s, p, mode).kernel = SysOpen(r.kernel, p, mode)
         /\ Reopened(r, s, p, mode).damaged = r.damaged
         /\ Reopened(r, s, p, mode).err = r.err
         /\ \A t \in DOMAIN file : t # s => Reopened(r, s, p, mode).file[t] = r.file[t]
         /\ Reopened(r, s, p, mode).file[s].fd \notin DOMAIN r.kernel.fds
<1> DEFINE z == Reopened(r, s, p, mode)
           f == With(r.file, s, NewFile(NewFd(r.kernel), mode))
           k == SysOpen(r.kernel, p, mode)
<1>1. /\ Good(r) /\ Typed(r) /\ Separate(r, Open) /\ Looks(r, AbsContent, AbsStream)
      /\ Descriptor(r, s).path \in r.damaged \/ Pending(r, s) = <<>>
      /\ FreeFds(r.kernel) # {} /\ DOMAIN r.file = DOMAIN file /\ s \in DOMAIN file
      /\ s \in Standard \union Files
  BY DEF Left, Good, Open, Inv, TypeOK
<1>2. Whole(z) /\ z.file = f /\ z.kernel = k /\ z.damaged = r.damaged /\ z.err = r.err
  <2>1. z = [file |-> f, kernel |-> k, damaged |-> r.damaged, err |-> r.err]
    BY DEF Reopened
  <2> HIDE DEF z, f, k
  <2> QED BY <2>1, Fields, Zenon
<1> HIDE DEF z
<1>3. Opens(r, s, p, mode, z)
  <2>1. SysOpen(r.kernel, p, mode)
        = [fds  |-> With(r.kernel.fds, NewFd(r.kernel), NewEntry(p, mode)),
           data |-> NewData(r.kernel, p, mode)]
    BY <1>1, SysOpenFacts
  <2> QED BY <1>2, <2>1, Zenon DEF Opens
<1>4. OpensTo(r, s, p, mode, z)
  BY <1>1, <1>3, OpensTyped
<1>5. \A t \in Open \ {s} : Descriptor(r, t).path # p
  <2> SUFFICES ASSUME NEW t \in Open \ {s} PROVE Descriptor(r, t).path # p
    OBVIOUS
  <2>1. file[t].fd \notin {file[s].fd}
    BY DEF Inv, StreamsApart, DescriptorsDistinct
  <2>2. Descriptor(Now, t).path # p
    BY <2>1, AloneFacts
  <2> QED BY <2>2 DEF Left
<1>6. /\ Separate(z, Open) /\ Elsewhere(r, z, Open, s, p)
      /\ \A j : ViewIn(z, s, j) = AbsOpened(p, mode, j)
      /\ z.kernel.data[p] = IF mode.trunc THEN <<>> ELSE r.kernel.data[p]
  <2>1. s \in Open /\ Open \ {s} = Open \ {s}
    OBVIOUS
  <2> HIDE DEF Open
  <2>2. OpensAt(r, z, Open, s, p, mode)
    BY <1>1, <1>3, <1>5, <2>1, OpensApart
  <2> QED BY <2>2, Zenon DEF OpensAt
<1>7. Looks(z, AbsFresh(p, mode), AbsReopened(s, p, mode))
  <2>1. s \in Open
    OBVIOUS
  <2> HIDE DEF Open
  <2>2. LooksAs(z, Open, tracked, AbsFresh(p, mode),
                With(AbsStream, s, AbsOpened(p, mode, KeptBy(tracked, s))))
    BY <1>1, <1>6, <2>1, OpensLooks
  <2> QED BY <2>2, Zenon DEF Looks, AbsReopened
<1>8. Good(z)
  <2>1. DOMAIN z.file = DOMAIN file
    BY <1>1, <1>4 DEF OpensTo
  <2>2. Typed(z)
    BY <1>4 DEF OpensTo
  <2> QED BY <1>6, <2>1, <2>2 DEF Good
<1>9. \A t \in DOMAIN file : t # s => z.file[t] = r.file[t]
  BY <1>1, <1>4, Zenon DEF OpensTo
<1>10. z.file[s].fd \notin DOMAIN r.kernel.fds
  <2>1. z.file[s] = NewFile(NewFd(r.kernel), mode) /\ NewFd(r.kernel) \in Fds \ DOMAIN r.kernel.fds
    BY <1>4, Zenon DEF OpensTo
  <2> QED BY <2>1 DEF NewFile
<1> QED BY <1>2, <1>7, <1>8, <1>9, <1>10 DEF z

(* The state after: the old descriptor stays open or is closed.            *)
Replaced(r, s, p, mode) ==
  [file    |-> With(r.file, s, NewFile(NewFd(r.kernel), mode)),
   kernel  |-> IF s \in Standard THEN SysOpen(r.kernel, p, mode)
               ELSE SysClose(SysOpen(r.kernel, p, mode), file[s].fd),
   damaged |-> r.damaged, err |-> r.err]

LEMMA ReopenLooks ==
  ASSUME Inv, NEW s \in Open, NEW r, Left(s, r), NEW p \in Paths, NEW mode \in Modes,
         Alone(p, {file[s].fd}), FreeFds(kernel) # {},
         NEW y, y = Replaced(r, s, p, mode)
  PROVE  /\ Good(y) /\ Looks(y, AbsFresh(p, mode), AbsReopened(s, p, mode))
         /\ y.damaged = r.damaged /\ y.err = r.err
         /\ StrayIn(y) => StrayIn(Now)
<1> DEFINE z == Reopened(r, s, p, mode)
           k == SysOpen(r.kernel, p, mode)
           x == file[s].fd
           f == With(r.file, s, NewFile(NewFd(r.kernel), mode))
           kk == IF s \in Standard THEN k ELSE SysClose(k, x)
<1>1. /\ Good(r) /\ DOMAIN r.file = DOMAIN file /\ s \in DOMAIN r.file /\ Whole(r)
  BY Zenon DEF Left, Good, Typed, Open
<1>2. /\ Good(z) /\ Looks(z, AbsFresh(p, mode), AbsReopened(s, p, mode))
      /\ z.file = f /\ z.kernel = k /\ z.damaged = r.damaged /\ z.err = r.err
      /\ \A t \in DOMAIN file : t # s => z.file[t] = r.file[t]
      /\ z.file[s].fd \notin DOMAIN r.kernel.fds
  BY ReopenedFacts
<1>3. y = [file |-> f, kernel |-> kk, damaged |-> r.damaged, err |-> r.err]
  BY Zenon DEF Replaced
<1>4. Whole(y) /\ y.file = f /\ y.kernel = kk /\ y.damaged = r.damaged /\ y.err = r.err
  <2> HIDE DEF f, kk
  <2> DEFINE d == r.damaged
             e == r.err
  <2>1. y = [file |-> f, kernel |-> kk, damaged |-> d, err |-> e]
    BY <1>3
  <2> HIDE DEF d, e
  <2>2. Whole(y) /\ y.file = f /\ y.kernel = kk /\ y.damaged = d /\ y.err = e
    BY <2>1, Fields
  <2> QED BY <2>2 DEF d, e
<1>5. StrayIn(y) => StrayIn(Now)
  <2>1. \A t \in closed : y.file[t] = r.file[t]
    BY <1>2, <1>4 DEF Inv, TypeOK, Open
  <2>2. StrayIn(y) => StrayIn(r)
    BY <2>1 DEF StrayIn, Pending
  <2> QED BY <2>2 DEF Left
<1>6. z = [file |-> z.file, kernel |-> z.kernel, damaged |-> z.damaged, err |-> z.err]
      /\ DOMAIN z.file = DOMAIN file /\ Typed(z) /\ Separate(z, Open)
  BY <1>2 DEF Good, Typed, Whole
<1> HIDE DEF z, f, k, x
<1>7. CASE s \in Standard
  <2>1. y = z
    BY <1>2, <1>3, <1>6, <1>7
  <2> QED BY <1>2, <1>4, <1>5, <2>1
<1>8. CASE s \notin Standard
  <2>1. Closes(z, x, Open, y)
    <3>1. y.kernel = SysClose(z.kernel, x) /\ y.file = z.file /\ y.damaged = z.damaged
          /\ y.err = z.err
      BY <1>2, <1>4, <1>8
    <3>2. \A t \in Open : z.file[t].fd # x
      <4> TAKE t \in Open
      <4>1. CASE t = s
        <5>1. x \in DOMAIN r.kernel.fds
          <6>1. IsOpen(r.kernel, r.file[s].fd)
            BY <1>1 DEF Good, Separate
          <6>2. r.file[s].fd = file[s].fd
            BY DEF Left
          <6> QED BY <6>1, <6>2 DEF IsOpen, x
        <5> QED BY <1>2, <4>1, <5>1
      <4>2. CASE t # s
        <5>1. z.file[t].fd = file[t].fd
          <6>1. r.file[t].fd = file[t].fd /\ t \in DOMAIN file
            BY DEF Left, Open
          <6> QED BY <1>2, <4>2, <6>1
        <5>2. file[t].fd # file[s].fd
          BY <4>2 DEF Inv, StreamsApart, DescriptorsDistinct
        <5> QED BY <5>1, <5>2 DEF x
      <4> QED BY <4>1, <4>2
    <3>3. z.file = [t \in DOMAIN z.file |-> z.file[t]] /\ Standard \subseteq DOMAIN z.file
          /\ Open \subseteq DOMAIN z.file
      <4>1. z.file \in [DOMAIN z.file -> FileObjects] /\ Standard \subseteq DOMAIN z.file
            /\ Open \subseteq DOMAIN z.file
        BY <1>6 DEF Typed, Separate
      <4> QED BY <4>1
    <3> QED BY <1>4, <3>1, <3>2, <3>3 DEF Closes
  <2>2. Typed(y) /\ Separate(y, Open)
    BY <1>6, <2>1, ClosesTyped
  <2>3. Looks(y, AbsFresh(p, mode), AbsReopened(s, p, mode))
    BY <1>2, <1>6, <2>1, ClosesLooks DEF Looks
  <2>4. Good(y)
    BY <1>2, <1>4, <1>6, <2>2 DEF Good
  <2> QED BY <1>4, <1>5, <2>3, <2>4
<1> QED BY <1>7, <1>8

ReopenBecomes(c, st, s, p, mode) ==
  ByteFiles!Becomes(IF mode.trunc THEN [c EXCEPT ![p] = <<>>] ELSE c,
                    [st EXCEPT ![s] = ByteFiles!Opened(p, mode, @.kept)])

LEMMA SameReopened ==
  ASSUME Inv, NEW s \in Open, NEW p, NEW mode
  PROVE  AbsReopened(s, p, mode)
         = [AbsStream EXCEPT ![s] = ByteFiles!Opened(p, mode, AbsStream[s].kept)]
<1> PICK k : k = KeptBy(tracked, s)
  OBVIOUS
<1>1. AbsStream[s].kept = k
  <2>1. AbsStream[s].kept = Kept(s)
    BY AbsStreamFacts
  <2> QED BY <2>1, Zenon DEF Kept, KeptBy
<1>2. AbsReopened(s, p, mode) = With(AbsStream, s, AbsOpened(p, mode, k))
  BY Zenon DEF AbsReopened
<1> DEFINE v == ByteFiles!Opened(p, mode, k)
<1>3. v = AbsOpened(p, mode, k)
  BY DEF AbsOpened, ByteFiles!Opened
<1> HIDE DEF v
<1>4. With(AbsStream, s, v) = [AbsStream EXCEPT ![s] = v]
  <2>1. DOMAIN AbsStream \union {s} = DOMAIN AbsStream
    BY DEF AbsStream
  <2>2. [AbsStream EXCEPT ![s] = v]
        = [t \in DOMAIN AbsStream |-> IF t = s THEN v ELSE AbsStream[t]]
    OBVIOUS
  <2> DEFINE D == DOMAIN AbsStream
             g == [AbsStream EXCEPT ![s] = v]
  <2>3. D \union {s} = D /\ g = [t \in D |-> IF t = s THEN v ELSE AbsStream[t]]
    BY <2>1, <2>2
  <2> HIDE DEF D, g
  <2>4. With(AbsStream, s, v) = g
    BY <2>3 DEF With, D
  <2> QED BY <2>4 DEF g
<1> QED BY <1>1, <1>2, <1>3, <1>4, Zenon DEF v

LEMMA FreopenRefines ==
  ASSUME Inv, ~exited, NEW s \in Open, NEW p \in Paths, NEW mode \in Modes, Freopen(s, p, mode)
  PROVE  Inv' /\ ByteFiles!Reopen(s, p, mode)
<1>1. Alone(p, {file[s].fd}) /\ FreeFds(kernel) # {} /\ UNCHANGED <<closed, tracked, exited>>
      /\ exited' \in BOOLEAN
  BY DEF Freopen, Inv, TypeOK
<1>2. PICK m \in Flushed(Now, s) :
        \/ LET r   == Loses(m, {s})
               k   == SysOpen(r.kernel, p, mode)
               new == NewFile(NewFd(kernel), mode)
           IN /\ Set([r EXCEPT !.file[s] = new,
                               !.kernel = IF s \in Standard THEN k ELSE SysClose(k, file[s].fd)])
              /\ Answer("freopen", TRUE, r.err, <<>>, 0)
        \/ Set(m) /\ Answer("freopen", FALSE, m.err, <<>>, 0)
  BY Zenon DEF Freopen, NewFile, NewFd
<1> DEFINE r == Loses(m, {s})
<1>3. Left(s, r) /\ Good(m) /\ Follows(Now, m)
  BY LosesLeaves
<1> DEFINE cc == [x \in Paths |-> ContentIn(Now, IF exited THEN {} ELSE Open, x)]
           vv == [t \in Open |-> ViewIn(Now, t, Kept(t))]
<1>4. cc = AbsContent /\ vv = AbsStream
  BY AbsHere
<1>5. CASE Set(m) /\ Answer("freopen", FALSE, m.err, <<>>, 0)
  <2>1. result'.call = "freopen" /\ result'.ok = FALSE /\ result'.err = m.err
    BY <1>5, AnswerFacts
  <2>2. Ends(m) /\ errors' \in 0 .. MaxErrors
    BY <1>3, <1>5, SetFacts DEF Good, Typed
  <2>3. ByteFiles!Becomes(AbsContent, AbsStream) /\ ByteFiles!Keeps
    BY <1>1, <1>3, <2>1, <2>2, FollowsBecomes
  <2>4. Inv'
    BY <1>1, <1>3, <2>2, InvKept
  <2>5. ByteFiles!Becomes(cc, vv)
    <3> HIDE DEF cc, vv
    <3> QED BY <1>4, <2>3
  <2>6. ByteFiles!Reopen(s, p, mode)
    BY <2>1, <2>3, <2>5, Zenon DEF ByteFiles!Reopen
  <2> QED BY <2>4, <2>6
<1>6. CASE LET k   == SysOpen(r.kernel, p, mode)
               new == NewFile(NewFd(kernel), mode)
           IN /\ Set([r EXCEPT !.file[s] = new,
                               !.kernel = IF s \in Standard THEN k ELSE SysClose(k, file[s].fd)])
              /\ Answer("freopen", TRUE, r.err, <<>>, 0)
  <2> DEFINE y == Replaced(r, s, p, mode)
  <2> HIDE DEF r
  <2>1. Set(y) /\ Answer("freopen", TRUE, r.err, <<>>, 0)
    <3> DEFINE f == NewFile(NewFd(kernel), mode)
               k == IF s \in Standard THEN SysOpen(r.kernel, p, mode)
                    ELSE SysClose(SysOpen(r.kernel, p, mode), file[s].fd)
    <3>1. Set([r EXCEPT !.file[s] = f, !.kernel = k]) /\ Answer("freopen", TRUE, r.err, <<>>, 0)
      BY <1>6
    <3>2. Whole(r) /\ s \in DOMAIN r.file /\ NewFd(r.kernel) = NewFd(kernel)
      BY <1>3, Zenon DEF Left, Good, Typed, Open, NewFd
    <3>3. y = [file |-> With(r.file, s, f), kernel |-> k, damaged |-> r.damaged, err |-> r.err]
      BY <3>2, Zenon DEF Replaced
    <3> HIDE DEF f, k, y
    <3>4. y = [r EXCEPT !.file[s] = f, !.kernel = k]
      BY <3>2, <3>3, ReplaceRecord, Zenon
    <3> QED BY <3>1, <3>4, Zenon
  <2> HIDE DEF y
  <2>2. y = Replaced(r, s, p, mode)
    BY DEF y
  <2>3. /\ Good(y) /\ Looks(y, AbsFresh(p, mode), AbsReopened(s, p, mode))
        /\ y.damaged = r.damaged /\ y.err = r.err
        /\ StrayIn(y) => StrayIn(Now)
    BY <1>1, <1>3, <2>2, ReopenLooks
  <2>4. result'.call = "freopen" /\ result'.ok = TRUE /\ result'.err = r.err
    BY <2>1, AnswerFacts
  <2>5. Ends(y) /\ errors' \in 0 .. MaxErrors
    BY <2>1, <2>3, SetFacts DEF Good, Typed
  <2>6. damaged \subseteq y.damaged /\ (y.damaged # damaged => result'.err \/ StrayIn(Now))
    BY <1>3, <2>3, <2>4, Zenon DEF Left
  <2>7. ByteFiles!Becomes(AbsFresh(p, mode), AbsReopened(s, p, mode))
    BY <1>1, <2>3, <2>5, <2>6, LooksBecomes
  <2>8. ByteFiles!Keeps
    BY <1>1, <2>3, <2>5, StrayKeeps
  <2>9. Inv'
    BY <1>1, <2>3, <2>5, InvKept
  <2>10. ReopenBecomes(AbsContent, AbsStream, s, p, mode)
    BY <2>7, SameReopened, Zenon DEF ReopenBecomes, AbsFresh
  <2>11. ReopenBecomes(cc, vv, s, p, mode)
    <3> HIDE DEF cc, vv
    <3> QED BY <1>4, <2>10
  <2>12. ByteFiles!Reopen(s, p, mode)
    BY <2>4, <2>8, <2>11, Zenon DEF ByteFiles!Reopen, ByteFiles!Fresh, ReopenBecomes
  <2> QED BY <2>9, <2>12
<1> QED BY <1>2, <1>5, <1>6

-----------------------------------------------------------------------------
(* Closing a stream.                                                       *)

(* untrack_fopen takes the stream out of the table and no other.           *)
LEMMA UntrackedFacts ==
  ASSUME NEW q \in Seq(Files), \A i, j \in DOMAIN q : q[i] = q[j] => i = j, NEW s
  PROVE  /\ Untracked(q, s) \in Seq(Files) /\ Len(Untracked(q, s)) <= Len(q)
         /\ \A i, j \in DOMAIN Untracked(q, s) :
              Untracked(q, s)[i] = Untracked(q, s)[j] => i = j
         /\ \A i \in DOMAIN Untracked(q, s) :
              Untracked(q, s)[i] # s /\ \E j \in DOMAIN q : q[j] = Untracked(q, s)[i]
         /\ \A j \in DOMAIN q : q[j] # s => \E i \in DOMAIN Untracked(q, s) : Untracked(q, s)[i] = q[j]
<1> DEFINE n == Len(q)
           u == Untracked(q, s)
<1>1. n \in Nat /\ q \in [1 .. n -> Files] /\ DOMAIN q = 1 .. n
  BY LenProperties
<1>2. CASE \A i \in DOMAIN q : q[i] # s
  <2>1. u = q
    BY <1>2 DEF Untracked
  <2> QED BY <1>1, <1>2, <2>1
<1>3. CASE ~(\A i \in DOMAIN q : q[i] # s)
  <2> DEFINE S == {j \in DOMAIN q : q[j] = s}
             x == Min(S)
             w == [q EXCEPT ![x] = q[n]]
  <2>1. u = SubSeq(w, 1, n - 1)
    BY <1>3, Zenon DEF Untracked
  <2>2. x \in S
    <3>1. S \subseteq Nat /\ S # {}
      BY <1>1, <1>3
    <3> HIDE DEF S
    <3> QED BY <3>1, MinFacts
  <2>3. x \in 1 .. n /\ q[x] = s /\ \A i \in 1 .. n : q[i] = s => i = x
    BY <1>1, <2>2
  <2> HIDE DEF x, n, u
  <2>4. n \in 1 .. n /\ n - 1 \in Nat
    BY <1>1, <2>3
  <2>5. \A i \in 1 .. n : w[i] = IF i = x THEN q[n] ELSE q[i]
    BY <1>1, <2>3
  <2>6. \A i \in 1 .. n - 1 : w[i] \in Files
    BY <1>1, <2>4, <2>5
  <2> HIDE DEF w
  <2>7. /\ u \in Seq(Files) /\ Len(u) = n - 1
        /\ \A i \in 1 .. n - 1 : u[i] = w[i]
    <3>1. /\ SubSeq(w, 1, n - 1) \in Seq(Files)
          /\ Len(SubSeq(w, 1, n - 1)) = IF 1 <= n - 1 THEN n - 1 - 1 + 1 ELSE 0
          /\ \A i \in 1 .. n - 1 - 1 + 1 : SubSeq(w, 1, n - 1)[i] = w[1 + i - 1]
      BY <2>4, <2>6, SubSeqProperties
    <3>2. Len(u) = n - 1
      BY <2>1, <2>4, <3>1
    <3>3. \A i \in 1 .. n - 1 : u[i] = w[i]
      BY <2>1, <2>4, <3>1
    <3> QED BY <2>1, <3>1, <3>2, <3>3
  <2>8. DOMAIN u = 1 .. n - 1
    BY <2>7, LenProperties
  <2>9. \A i \in 1 .. n - 1 : i \in 1 .. n /\ i # n /\ u[i] = IF i = x THEN q[n] ELSE q[i]
    BY <1>1, <2>5, <2>7
  <2>10. \A i, j \in 1 .. n : q[i] = q[j] => i = j
    BY <1>1
  <2>11. \A i, j \in 1 .. n - 1 : u[i] = u[j] => i = j
    BY <2>4, <2>9, <2>10
  <2>12. \A i \in 1 .. n - 1 : u[i] # s /\ \E j \in 1 .. n : q[j] = u[i]
    <3> TAKE i \in 1 .. n - 1
    <3>1. CASE i = x
      BY <2>3, <2>4, <2>9, <3>1
    <3>2. CASE i # x
      BY <2>3, <2>9, <3>2
    <3> QED BY <3>1, <3>2
  <2>13. \A j \in 1 .. n : q[j] # s => \E i \in 1 .. n - 1 : u[i] = q[j]
    <3> SUFFICES ASSUME NEW j \in 1 .. n, q[j] # s PROVE \E i \in 1 .. n - 1 : u[i] = q[j]
      OBVIOUS
    <3>1. j # x
      BY <2>3
    <3>2. CASE j = n
      <4>1. x \in 1 .. n - 1
        BY <1>1, <2>3, <3>1, <3>2
      <4>2. u[x] = q[j]
        BY <2>9, <3>2, <4>1
      <4> QED BY <4>1, <4>2
    <3>3. CASE j # n
      <4>1. j \in 1 .. n - 1
        BY <1>1, <3>3
      <4>2. u[j] = q[j]
        BY <2>9, <3>1, <4>1
      <4> QED BY <4>1, <4>2
    <3> QED BY <3>2, <3>3
  <2>14. Len(u) <= n
    BY <1>1, <2>7
  <2> QED BY <1>1, <2>7, <2>8, <2>11, <2>12, <2>13, <2>14 DEF u, n
<1> QED BY <1>2, <1>3

(* The state after fclose: the FILE of a standard stream is kept.          *)
Gone(r, s) ==
  [file    |-> IF s \in Standard THEN r.file ELSE Without(r.file, s),
   kernel  |-> SysClose(r.kernel, file[s].fd),
   damaged |-> r.damaged, err |-> r.err]

GoneTo(r, s, y) ==
  /\ y.damaged = r.damaged /\ y.err = r.err
  /\ DOMAIN y.file = (IF s \in Standard THEN DOMAIN file ELSE DOMAIN file \ {s})
  /\ \A t \in DOMAIN y.file : y.file[t] = r.file[t]

LEMMA GoneFacts ==
  ASSUME Inv, NEW s \in Open, NEW r, Left(s, r), NEW y, y = Gone(r, s)
  PROVE  GoneTo(r, s, y) /\ Closes(r, file[s].fd, Open \ {s}, y)
<1> DEFINE f == IF s \in Standard THEN r.file ELSE Without(r.file, s)
           k == SysClose(r.kernel, file[s].fd)
           d == r.damaged
           e == r.err
           D == DOMAIN r.file
<1>1. Whole(y) /\ y.file = f /\ y.kernel = k /\ y.damaged = d /\ y.err = e
  <2>1. y = [file |-> f, kernel |-> k, damaged |-> d, err |-> e]
    BY DEF Gone
  <2> HIDE DEF f, k, d, e
  <2> QED BY <2>1, Fields
<1>2. /\ D = DOMAIN file /\ Standard \subseteq D /\ Open \subseteq D
      /\ r.file = [t \in D |-> r.file[t]]
  <2>1. Typed(r) /\ Separate(r, Open) /\ DOMAIN r.file = DOMAIN file
    BY DEF Left, Good
  <2> QED BY <2>1 DEF Typed, Separate
<1>3. /\ DOMAIN f = (IF s \in Standard THEN D ELSE D \ {s})
      /\ \A t \in DOMAIN f : f[t] = r.file[t]
      /\ f = [t \in DOMAIN f |-> r.file[t]]
  <2>1. CASE s \in Standard
    BY <1>2, <2>1
  <2>2. CASE s \notin Standard
    <3>1. f = [t \in D \ {s} |-> r.file[t]]
      BY <2>2 DEF Without
    <3> HIDE DEF f, D
    <3> QED BY <2>2, <3>1
  <2> QED BY <2>1, <2>2
<1>4. \A t \in Open \ {s} : r.file[t].fd # file[s].fd
  <2> TAKE t \in Open \ {s}
  <2>1. r.file[t].fd = file[t].fd
    BY DEF Left
  <2>2. file[t].fd # file[s].fd
    BY DEF Inv, StreamsApart, DescriptorsDistinct
  <2> QED BY <2>1, <2>2
<1> HIDE DEF f, k, d, e
<1>5. /\ DOMAIN y.file = (IF s \in Standard THEN DOMAIN file ELSE DOMAIN file \ {s})
      /\ \A t \in DOMAIN y.file : y.file[t] = r.file[t]
      /\ y.file = [t \in DOMAIN y.file |-> r.file[t]]
  BY <1>1, <1>2, <1>3
<1>6. Closes(r, file[s].fd, Open \ {s}, y)
  <2>1. /\ Standard \subseteq DOMAIN y.file /\ DOMAIN y.file \subseteq D
        /\ Open \ {s} \subseteq DOMAIN y.file
    BY <1>2, <1>5
  <2> HIDE DEF Open
  <2>2. DOMAIN y.file \subseteq DOMAIN r.file
    BY <2>1
  <2>3. y.damaged = r.damaged /\ y.err = r.err /\ y.kernel = SysClose(r.kernel, file[s].fd)
    BY <1>1, Zenon DEF k, d, e
  <2> QED BY <1>1, <1>4, <1>5, <2>1, <2>2, <2>3, Zenon DEF Closes
<1> QED BY <1>1, <1>5, <1>6, Zenon DEF GoneTo, d, e

LEMMA GoneLooks ==
  ASSUME Inv, NEW s \in Open, NEW r, Left(s, r), NEW y, y = Gone(r, s),
         NEW table, \A t \in Open \ {s} : KeptBy(table, t) <=> KeptBy(tracked, t)
  PROVE  /\ Typed(y) /\ Separate(y, Open \ {s})
         /\ LooksAs(y, Open \ {s}, table, AbsContent, Without(AbsStream, s))
<1> DEFINE q == Open \ {s}
           p == Descriptor(r, s).path
           x == file[s].fd
           st == Without(AbsStream, s)
<1>1. /\ Good(r) /\ Looks(r, AbsContent, AbsStream)
      /\ p \in r.damaged \/ Pending(r, s) = <<>>
  BY DEF Left
<1>2. Closes(r, x, q, y)
  BY GoneFacts
<1>3. s \in Open /\ s \notin q /\ q \subseteq Open /\ q \ {s} = Open \ {s}
  OBVIOUS
<1>4. Typed(r) /\ Separate(r, Open)
  BY <1>1 DEF Good
<1>5. \A t \in Open \ {s} : Descriptor(r, t).path # p
  BY <1>4 DEF Separate
<1>6. Separate(r, q)
  BY <1>3, <1>4, Zenon DEF Separate
<1>7. DOMAIN st = q /\ \A t \in q : st[t] = AbsStream[t]
  BY DEF Without, AbsStream
<1> HIDE DEF Open, q, p, x, st
<1>8. Elsewhere(r, r, q, s, p)
  <2>1. q \ {s} = Open \ {s} /\ s \notin q
    BY <1>3
  <2>2. s \in Open => Descriptor(r, s).path \in r.damaged \/ Pending(r, s) = <<>>
    BY <1>1 DEF p
  <2> QED BY <1>5, <2>1, <2>2 DEF Elsewhere
<1>9. p \in Paths \ r.damaged => AbsContent[p] = r.kernel.data[p]
  <2> SUFFICES ASSUME p \in Paths \ r.damaged PROVE AbsContent[p] = r.kernel.data[p]
    OBVIOUS
  <2>1. ContentIn(r, Open, p) = r.kernel.data[p]
    BY <1>1, <1>6, <1>8, ElsewhereContent
  <2>2. ContentIn(r, Open, p) = AbsContent[p]
    BY <1>1, Zenon DEF Looks, LooksAs
  <2> QED BY <2>1, <2>2
<1>10. LooksAs(r, q, table, AbsContent, st)
  <2>1. \A t \in Open \ {s} : st[t] = AbsStream[t]
    BY <1>3, <1>7
  <2> QED BY <1>1, <1>3, <1>6, <1>7, <1>8, <1>9, <2>1, ElsewhereLooks
<1>11. Typed(y) /\ Separate(y, q)
  BY <1>2, <1>4, <1>6, ClosesTyped
<1>12. LooksAs(y, q, table, AbsContent, st)
  BY <1>2, <1>4, <1>6, <1>10, ClosesLooks
<1> QED BY <1>11, <1>12 DEF q, st

LEMMA GoneRecord ==
  ASSUME NEW r, Whole(r), NEW s
  PROVE  /\ s \in Standard => [r EXCEPT !.kernel = SysClose(@, file[s].fd)] = Gone(r, s)
         /\ s \notin Standard =>
              [[r EXCEPT !.kernel = SysClose(@, file[s].fd)] EXCEPT !.file = Without(@, s)]
              = Gone(r, s)
<1> DEFINE k == SysClose(r.kernel, file[s].fd)
           f == Without(r.file, s)
           g == r.file
           h == r.kernel
           d == r.damaged
           e == r.err
           x == [r EXCEPT !.kernel = SysClose(@, file[s].fd)]
           y == [file |-> g, kernel |-> k, damaged |-> d, err |-> e]
           w == [file |-> g, kernel |-> h, damaged |-> d, err |-> e]
<1>1. x = [r EXCEPT !.kernel = k]
  OBVIOUS
<1>2. r = w
  BY DEF Whole
<1>3. x = y
  <2>1. [w EXCEPT !.kernel = k] = y
    <3> HIDE DEF k, g, h, d, e
    <3> QED OBVIOUS
  <2> HIDE DEF x, w, y, k
  <2> QED BY <1>1, <1>2, <2>1
<1>4. [y EXCEPT !.file = Without(@, s)] = [file |-> f, kernel |-> k, damaged |-> d, err |-> e]
  <2>1. y.file = g
    <3> HIDE DEF g, k, d, e
    <3> QED OBVIOUS
  <2>2. [y EXCEPT !.file = Without(@, s)] = [y EXCEPT !.file = Without(y.file, s)]
    <3> HIDE DEF y
    <3> QED OBVIOUS
  <2>3. Without(y.file, s) = f
    <3> HIDE DEF y
    <3> QED BY <2>1
  <2>4. [y EXCEPT !.file = f] = [file |-> f, kernel |-> k, damaged |-> d, err |-> e]
    <3> HIDE DEF f, g, k, d, e
    <3> QED OBVIOUS
  <2> HIDE DEF y
  <2> QED BY <2>2, <2>3, <2>4
<1>5. s \in Standard => y = Gone(r, s)
  BY Zenon DEF Gone
<1>6. s \notin Standard => [file |-> f, kernel |-> k, damaged |-> d, err |-> e] = Gone(r, s)
  BY Zenon DEF Gone
<1> HIDE DEF x, y, f, k, d, e
<1>7. [x EXCEPT !.file = Without(@, s)] = [y EXCEPT !.file = Without(@, s)]
  BY <1>3
<1> QED BY <1>3, <1>4, <1>5, <1>6, <1>7, Zenon DEF x

(* The table after fclose, and the streams exit will take care of.         *)
LEMMA TableAfter ==
  ASSUME Inv, NEW s \in Open, NEW y,
         DOMAIN y.file = (IF s \in Standard THEN DOMAIN file ELSE DOMAIN file \ {s}),
         file' = y.file,
         \/ s \in Standard /\ closed' = closed \union {s} /\ tracked' = tracked
         \/ s \notin Standard /\ closed' = closed /\ tracked' = Untracked(tracked, s)
  PROVE  /\ Open' = Open \ {s} /\ closed' \subseteq Standard
         /\ tracked' \in Seq(Files) /\ Len(tracked') <= TrackCap /\ TableExact'
         /\ \A t \in Open \ {s} : KeptBy(tracked', t) <=> KeptBy(tracked, t)
<1>1. /\ tracked \in Seq(Files) /\ Len(tracked) <= TrackCap /\ closed \subseteq Standard
      /\ \A i \in DOMAIN tracked : tracked[i] \in DOMAIN file \intersect Files
      /\ \A i, j \in DOMAIN tracked : tracked[i] = tracked[j] => i = j
      /\ s \in DOMAIN file \ closed
  BY DEF Inv, TypeOK, StreamsApart, TableExact, Open
<1>2. CASE s \in Standard
  <2>1. Open' = Open \ {s}
    BY <1>1, <1>2 DEF Open
  <2>2. tracked' = tracked /\ closed' \subseteq Standard
    BY <1>1, <1>2
  <2>3. TableExact'
    BY <1>1, <1>2, <2>2 DEF TableExact
  <2> QED BY <1>1, <2>1, <2>2, <2>3, Zenon
<1>3. CASE s \notin Standard
  <2> DEFINE u == Untracked(tracked, s)
  <2>1. /\ u \in Seq(Files) /\ Len(u) <= Len(tracked)
        /\ \A i, j \in DOMAIN u : u[i] = u[j] => i = j
        /\ \A i \in DOMAIN u : u[i] # s /\ \E j \in DOMAIN tracked : tracked[j] = u[i]
        /\ \A j \in DOMAIN tracked : tracked[j] # s => \E i \in DOMAIN u : u[i] = tracked[j]
    BY <1>1, UntrackedFacts
  <2>2. tracked' = u /\ closed' = closed /\ DOMAIN y.file = DOMAIN file \ {s}
    BY <1>3
  <2> HIDE DEF u
  <2>3. Len(u) \in Nat /\ Len(tracked) \in Nat /\ TrackCap \in Nat
    BY <1>1, <2>1, LenProperties, StreamsAssumption
  <2>4. Len(u) <= TrackCap
    BY <1>1, <2>1, <2>3
  <2>5. Open' = Open \ {s}
    BY <1>1, <2>2 DEF Open
  <2>6. \A i \in DOMAIN u : u[i] \in (DOMAIN file \ {s}) \intersect Files
    <3> TAKE i \in DOMAIN u
    <3>1. PICK j \in DOMAIN tracked : tracked[j] = u[i]
      BY <2>1
    <3> QED BY <1>1, <2>1, <3>1
  <2>7. TableExact'
    BY <2>1, <2>2, <2>6 DEF TableExact
  <2>8. \A t \in Open \ {s} : KeptBy(u, t) <=> KeptBy(tracked, t)
    <3> TAKE t \in Open \ {s}
    <3>1. (\E i \in DOMAIN u : u[i] = t) <=> \E j \in DOMAIN tracked : tracked[j] = t
      <4>1. ASSUME NEW i \in DOMAIN u, u[i] = t PROVE \E j \in DOMAIN tracked : tracked[j] = t
        BY <2>1, <4>1
      <4>2. ASSUME NEW j \in DOMAIN tracked, tracked[j] = t PROVE \E i \in DOMAIN u : u[i] = t
        BY <2>1, <4>2
      <4> QED BY <4>1, <4>2
    <3> QED BY <3>1 DEF KeptBy
  <2> QED BY <1>1, <2>1, <2>2, <2>4, <2>5, <2>7, <2>8, Zenon
<1> QED BY <1>2, <1>3, Zenon

LEMMA FcloseRefines ==
  ASSUME Inv, ~exited, NEW s \in Open, Fclose(s)
  PROVE  Inv' /\ ByteFiles!Close(s)
<1>1. PICK m \in Flushed(Now, s) :
        LET r == [Loses(m, {s}) EXCEPT !.kernel = SysClose(@, file[s].fd)]
        IN /\ IF s \in Standard
              THEN Set(r) /\ closed' = closed \union {s} /\ UNCHANGED tracked
              ELSE /\ Set([r EXCEPT !.file = Without(@, s)])
                   /\ tracked' = Untracked(tracked, s)
                   /\ UNCHANGED closed
           /\ Answer("fclose", TRUE, r.err, <<>>, 0)
  BY Zenon DEF Fclose
<1> DEFINE r == Loses(m, {s})
           y == Gone(r, s)
           x == [r EXCEPT !.kernel = SysClose(@, file[s].fd)]
<1>2. exited' = exited /\ exited' \in BOOLEAN
  BY DEF Fclose, Inv, TypeOK
<1>3. Left(s, r)
  BY LosesLeaves
<1>4. Whole(r)
  BY <1>3 DEF Left, Good, Typed
<1>5. /\ IF s \in Standard
         THEN Set(x) /\ closed' = closed \union {s} /\ UNCHANGED tracked
         ELSE /\ Set([x EXCEPT !.file = Without(@, s)])
              /\ tracked' = Untracked(tracked, s)
              /\ UNCHANGED closed
      /\ Answer("fclose", TRUE, x.err, <<>>, 0)
  BY <1>1
<1> HIDE DEF r
<1>6. Answer("fclose", TRUE, r.err, <<>>, 0)
  <2>1. x.err = r.err
    BY <1>4
  <2> HIDE DEF x
  <2> QED BY <1>5, <2>1, Zenon
<1>7. /\ Set(y)
      /\ \/ s \in Standard /\ closed' = closed \union {s} /\ tracked' = tracked
         \/ s \notin Standard /\ closed' = closed /\ tracked' = Untracked(tracked, s)
  <2>1. CASE s \in Standard
    <3>1. x = y
      BY <1>4, <2>1, GoneRecord, Zenon
    <3> HIDE DEF x, y
    <3> QED BY <1>5, <2>1, <3>1, Zenon
  <2>2. CASE s \notin Standard
    <3>1. [x EXCEPT !.file = Without(@, s)] = y
      BY <1>4, <2>2, GoneRecord, Zenon
    <3> HIDE DEF x, y
    <3> QED BY <1>5, <2>2, <3>1, Zenon
  <2> QED BY <2>1, <2>2
<1> HIDE DEF x, y
<1>8. /\ y.damaged = r.damaged /\ y.err = r.err
      /\ DOMAIN y.file = (IF s \in Standard THEN DOMAIN file ELSE DOMAIN file \ {s})
      /\ \A t \in DOMAIN y.file : y.file[t] = r.file[t]
  <2>1. y = Gone(r, s)
    BY DEF y
  <2>2. GoneTo(r, s, y)
    BY <1>3, <2>1, GoneFacts
  <2> QED BY <2>2, Zenon DEF GoneTo
<1>9. r.err \in BOOLEAN
  BY <1>3 DEF Left, Good, Typed
<1>10. Ends(y) /\ errors' \in 0 .. MaxErrors
  <2>1. y.err \in BOOLEAN
    BY <1>8, <1>9
  <2> QED BY <1>7, <2>1, SetFacts
<1>11. /\ Open' = Open \ {s} /\ closed' \subseteq Standard
       /\ tracked' \in Seq(Files) /\ Len(tracked') <= TrackCap /\ TableExact'
       /\ \A t \in Open \ {s} : KeptBy(tracked', t) <=> KeptBy(tracked, t)
  <2>1. file' = y.file
    BY <1>10 DEF Ends
  <2> QED BY <1>7, <1>8, <2>1, TableAfter
<1>12. /\ Typed(y) /\ Separate(y, Open')
       /\ LooksAs(y, Open', tracked', AbsContent, Without(AbsStream, s))
  <2>1. y = Gone(r, s)
    BY DEF y
  <2>2. /\ Typed(y) /\ Separate(y, Open \ {s})
        /\ LooksAs(y, Open \ {s}, tracked', AbsContent, Without(AbsStream, s))
    BY <1>3, <1>11, <2>1, GoneLooks
  <2> QED BY <1>11, <2>2
<1>13. Inv'
  BY <1>2, <1>10, <1>11, <1>12, InvAfter
<1>14. result'.call = "fclose" /\ result'.err = r.err
  BY <1>6, AnswerFacts
<1>15. ByteFiles!Becomes(AbsContent, Without(AbsStream, s))
  <2>1. damaged \subseteq y.damaged /\ (y.damaged # damaged => result'.err \/ StrayIn(Now))
    BY <1>3, <1>8, <1>14, Zenon DEF Left
  <2> QED BY <1>2, <1>10, <1>12, <2>1, CallBecomes
<1>16. StrayIn(Now)' => StrayIn(Now) \/ (s \in Standard /\ result'.err)
  <2> SUFFICES ASSUME StrayIn(Now)' PROVE StrayIn(Now) \/ (s \in Standard /\ result'.err)
    OBVIOUS
  <2>1. PICK t \in closed' : Pending(Now', t) # <<>>
    BY DEF StrayIn
  <2>2. Pending(r, t) # <<>>
    <3>1. Pending(Now', t) = Pending(y, t)
      BY <1>10, NowNext, SameViews
    <3>2. t \in DOMAIN y.file
      BY <1>11, <1>12, <2>1 DEF Typed
    <3> QED BY <1>8, <2>1, <3>1, <3>2 DEF Pending
  <2>3. CASE t \in closed
    <3>1. StrayIn(r)
      BY <2>2, <2>3 DEF StrayIn
    <3> QED BY <1>3, <3>1 DEF Left
  <2>4. CASE t \notin closed
    <3>1. t = s /\ s \in Standard
      BY <1>7, <2>1, <2>4
    <3>2. r.err
      BY <1>3, <2>2, <3>1 DEF Left
    <3> QED BY <1>14, <3>1, <3>2
  <2> QED BY <2>3, <2>4
<1> DEFINE cc == [p \in Paths |-> ContentIn(Now, IF exited THEN {} ELSE Open, p)]
           vv == [t \in Open |-> ViewIn(Now, t, Kept(t))]
<1>17. ByteFiles!Becomes(cc, Without(vv, s))
  <2>1. cc = AbsContent /\ vv = AbsStream
    BY AbsHere
  <2> HIDE DEF cc, vv
  <2> QED BY <1>15, <2>1
<1>18. ByteFiles!Close(s)
  <2>1. ByteFiles!Becomes(cc, ByteFiles!Without(vv, s))
    BY <1>17, Zenon DEF Without, ByteFiles!Without
  <2> QED BY <1>14, <1>16, <2>1, Zenon DEF ByteFiles!Close
<1> QED BY <1>13, <1>18

-----------------------------------------------------------------------------
(* exit.  What the streams of the table could not write, it damages.       *)

ExitKeeps(c, st) ==
  \A p \in Paths \ damaged' :
    (\A s \in DOMAIN st : st[s].path = p => st[s].kept)
      => [x \in Paths |-> ContentIn(Now', IF exited' THEN {} ELSE Open', x)][p] = c[p]

LEMMA ExitRefines ==
  ASSUME Inv, ~exited, Exit
  PROVE  Inv' /\ ByteFiles!Exit
<1> DEFINE S == {Listed[i] : i \in DOMAIN Listed}
<1>1. PICK m \in AllFlushed : Set(Loses(m, S)) /\ Answer("exit", TRUE, m.err, <<>>, 0)
  BY DEF Exit
<1>2. UNCHANGED <<closed, tracked>> /\ exited' = TRUE /\ exited' \in BOOLEAN
  BY DEF Exit
<1>3. /\ Good(m) /\ Follows(Now, m)
      /\ \A i \in DOMAIN Listed : Pending(m, Listed[i]) # <<>> => m.err
  BY AllFlushedFollows
<1>4. S \subseteq DOMAIN m.file /\ \A t \in S : Pending(m, t) # <<>> => m.err \/ t \in closed
  BY <1>3, ListedFacts DEF Good
<1>5. \A t : Kept(t) => t \in S
  BY ListedFacts
<1> DEFINE r == Loses(m, S)
<1> HIDE DEF S
<1>6. /\ Good(r) /\ Follows(m, r) /\ r.file = m.file /\ r.kernel = m.kernel /\ r.err = m.err
      /\ r.damaged = m.damaged \union {Descriptor(m, t).path : t \in Unflushed(m, S)}
  BY <1>3, <1>4, LosesFollows
<1> HIDE DEF r
<1>7. Good(Now) /\ Now.damaged = damaged /\ Now.kernel = kernel /\ closed \subseteq Standard
  BY GoodNow DEF Now, Inv, TypeOK
<1>8. Follows(Now, r)
  BY <1>3, <1>6, <1>7, FollowsTransitive
<1>9. Ends(r) /\ errors' \in 0 .. MaxErrors
  <2>1. r.err \in BOOLEAN /\ Set(r)
    BY <1>1, <1>6 DEF Good, Typed, r
  <2> QED BY <2>1, SetFacts
<1>10. Inv'
  BY <1>2, <1>6, <1>9, InvKept
<1>11. result'.call = "exit" /\ result'.err = m.err
  BY <1>1, AnswerFacts
<1>12. ByteFiles!DamageOnly
  <2>1. damaged \subseteq r.damaged /\ (r.damaged # damaged => r.err \/ StrayIn(Now))
    BY <1>7, <1>8, Zenon DEF Follows
  <2>2. damaged' = r.damaged
    BY <1>9 DEF Ends
  <2> QED BY <1>6, <1>11, <2>1, <2>2, Zenon DEF ByteFiles!DamageOnly
<1>13. ByteFiles!Keeps
  <2>1. StrayIn(r) => StrayIn(Now)
    BY <1>7, <1>8, FollowsStray
  <2> QED BY <1>2, <1>9, <2>1, StrayKeeps
<1>14. ExitKeeps(AbsContent, AbsStream)
  <2> SUFFICES ASSUME NEW p \in Paths \ damaged',
                      \A s \in DOMAIN AbsStream : AbsStream[s].path = p => AbsStream[s].kept
               PROVE  [x \in Paths |-> ContentIn(Now', IF exited' THEN {} ELSE Open', x)][p]
                      = AbsContent[p]
    BY DEF ExitKeeps
  <2>1. damaged' = r.damaged
    BY <1>9 DEF Ends
  <2>2. [x \in Paths |-> ContentIn(Now', IF exited' THEN {} ELSE Open', x)][p]
        = r.kernel.data[p]
    <3>1. ContentIn(Now', {}, p) = ContentIn(r, {}, p)
      BY <1>9, NowNext, SameViews
    <3>2. ContentIn(r, {}, p) = r.kernel.data[p]
      BY UnheldContent
    <3> QED BY <1>2, <3>1, <3>2
  <2>3. AbsContent[p] = ContentIn(r, Open, p)
    <3>1. Looks(r, AbsContent, AbsStream)
      BY <1>7, <1>8, LooksNow, LooksFollows
    <3> QED BY <2>1, <3>1 DEF Looks, LooksAs
  <2>4. Separate(r, Open)
    BY <1>6 DEF Good
  <2>5. ASSUME NEW t \in Open, Descriptor(r, t).path = p PROVE Pending(r, t) = <<>>
    <3>1. Descriptor(Now, t).path = p
      BY <1>7, <1>8, <2>5, FollowsPath
    <3>2. AbsStream[t].path = p /\ t \in DOMAIN AbsStream /\ AbsStream[t].kept = Kept(t)
      BY <3>1, AbsStreamFacts
    <3>3. t \in S
      <4>1. AbsStream[t].kept
        BY <3>2
      <4> QED BY <1>5, <3>2, <4>1, Zenon
    <3>4. Descriptor(m, t).path = p /\ Pending(m, t) = Pending(r, t)
      BY <1>6, <2>5 DEF Descriptor, Pending
    <3>5. IsOpen(m.kernel, m.file[t].fd)
      BY <1>3 DEF Good, Separate
    <3>6. Pending(m, t) # <<>> => p \in r.damaged
      BY <1>6, <3>3, <3>4, <3>5 DEF Unflushed
    <3> QED BY <2>1, <3>4, <3>6
  <2>6. ContentIn(r, Open, p) = r.kernel.data[p]
    <3> HIDE DEF Open
    <3>1. CASE \A u \in Open : Descriptor(r, u).path # p
      BY <3>1, UnheldContent
    <3>2. CASE \E u \in Open : Descriptor(r, u).path = p
      <4>1. PICK u \in Open : Descriptor(r, u).path = p
        BY <3>2
      <4>2. ContentIn(r, Open, Descriptor(r, u).path)
            = Overwrite(r.kernel.data[Descriptor(r, u).path],
                        WritePos(r.kernel, Descriptor(r, u)), Pending(r, u))
        BY <2>4, HeldContent
      <4>3. Pending(r, u) = <<>>
        BY <2>5, <4>1
      <4> QED BY <4>1, <4>2, <4>3 DEF Overwrite
    <3> QED BY <3>1, <3>2
  <2> QED BY <2>2, <2>3, <2>6
<1> DEFINE cc == [p \in Paths |-> ContentIn(Now, IF exited THEN {} ELSE Open, p)]
           vv == [t \in Open |-> ViewIn(Now, t, Kept(t))]
<1>15. ExitKeeps(cc, vv)
  <2>1. cc = AbsContent /\ vv = AbsStream
    BY AbsHere
  <2> HIDE DEF cc, vv
  <2> QED BY <1>14, <2>1
<1>16. ByteFiles!Exit
  BY <1>2, <1>11, <1>12, <1>13, <1>15, Zenon DEF ByteFiles!Exit, ExitKeeps
<1> QED BY <1>10, <1>16

-----------------------------------------------------------------------------
(* The start, and a step that changes nothing.                             *)

LEMMA StartFacts ==
  ASSUME Init
  PROVE  /\ DOMAIN file = Standard /\ Open = Standard
         /\ \A s \in Standard : file[s].fd = (IF s = Stdout THEN 1 ELSE 2)
         /\ \A s \in Standard : /\ file[s].writable = TRUE
                                /\ file[s].buf = <<>> /\ file[s].ungot = <<>>
         /\ DOMAIN kernel.fds = {1, 2} /\ kernel.data = Initial
         /\ kernel = [fds |-> kernel.fds, data |-> kernel.data]
         /\ \A fd \in {1, 2} : kernel.fds[fd] = [path |-> IF fd = 1 THEN OutPath ELSE ErrPath,
                                                 pos |-> 0, mode |-> WriteOnly]
BY DEF Init, Open

LEMMA StartInv ==
  ASSUME Init
  PROVE  Inv
<1>1. /\ Stdout # Stderr /\ OutPath \in Paths /\ ErrPath \in Paths /\ OutPath # ErrPath
      /\ Initial \in [Paths -> Content] /\ BufCap \in Nat /\ UngetCap \in Nat /\ TrackCap \in Nat
      /\ MaxErrors \in Nat /\ {1, 2} \subseteq Fds
  BY StreamsAssumption DEF Fds
<1>2. /\ DOMAIN file = Standard /\ Open = Standard
      /\ \A s \in Standard : file[s].fd = (IF s = Stdout THEN 1 ELSE 2)
      /\ \A s \in Standard : /\ file[s].writable = TRUE
                             /\ file[s].buf = <<>> /\ file[s].ungot = <<>>
      /\ DOMAIN kernel.fds = {1, 2} /\ kernel.data = Initial
      /\ kernel = [fds |-> kernel.fds, data |-> kernel.data]
      /\ \A fd \in {1, 2} : kernel.fds[fd] = [path |-> IF fd = 1 THEN OutPath ELSE ErrPath,
                                              pos |-> 0, mode |-> WriteOnly]
  BY StartFacts
<1>3. closed = {} /\ tracked = <<>> /\ damaged = {} /\ exited = FALSE /\ errors = 0
  BY DEF Init
<1>4. file \in [DOMAIN file -> FileObjects]
  <2>1. \A s \in Standard :
          [fd |-> IF s = Stdout THEN 1 ELSE 2, writable |-> TRUE, buf |-> <<>>, ungot |-> <<>>]
            \in FileObjects
    BY <1>1 DEF FileObjects
  <2>2. file = [s \in Standard |-> [fd |-> IF s = Stdout THEN 1 ELSE 2, writable |-> TRUE,
                                    buf |-> <<>>, ungot |-> <<>>]]
    BY DEF Init
  <2> QED BY <2>1, <2>2
<1>5. kernel.fds \in [{1, 2} -> Descriptors]
  <2>1. WriteOnly \in Modes /\ WriteOnly.write = TRUE
    BY DEF WriteOnly, Modes
  <2>2. \A fd \in {1, 2} : [path |-> IF fd = 1 THEN OutPath ELSE ErrPath, pos |-> 0,
                            mode |-> WriteOnly] \in Descriptors
    BY <1>1, <2>1 DEF Descriptors
  <2>3. kernel.fds = [fd \in {1, 2} |-> [path |-> IF fd = 1 THEN OutPath ELSE ErrPath,
                                         pos |-> 0, mode |-> WriteOnly]]
    BY DEF Init
  <2> QED BY <2>2, <2>3
<1>6. kernel \in [fds : [DOMAIN kernel.fds -> Descriptors], data : [Paths -> Content]]
  <2> DEFINE f == kernel.fds
             d == kernel.data
  <2>1. kernel = [fds |-> f, data |-> d] /\ f \in [DOMAIN f -> Descriptors]
        /\ d \in [Paths -> Content]
    BY <1>1, <1>2, <1>5
  <2> HIDE DEF f, d
  <2>2. kernel \in [fds : [DOMAIN f -> Descriptors], data : [Paths -> Content]]
    BY <2>1
  <2> QED BY <2>2 DEF f
<1>7. TypeOK
  <2>1. \A s \in DOMAIN file : Len(file[s].buf) <= BufCap /\ Len(file[s].ungot) <= UngetCap
    BY <1>1, <1>2
  <2>2. tracked \in Seq(Files) /\ Len(tracked) <= TrackCap
    BY <1>1, <1>3
  <2>3. errors \in 0 .. MaxErrors
    BY <1>1, <1>3
  <2> QED BY <1>1, <1>2, <1>3, <1>4, <1>6, <2>1, <2>2, <2>3 DEF TypeOK
<1>8. TableExact
  BY <1>3 DEF TableExact
<1>9. DescriptorsDistinct
  <2>1. \A s \in Open : /\ IsOpen(kernel, file[s].fd)
                        /\ Descriptor(Now, s) = kernel.fds[IF s = Stdout THEN 1 ELSE 2]
    BY <1>2 DEF IsOpen, Descriptor, Now
  <2>2. \A s \in Open : /\ PathOf(s) = (IF s = Stdout THEN OutPath ELSE ErrPath)
                        /\ Descriptor(Now, s).mode.write = TRUE
    BY <1>2, <2>1 DEF PathOf, WriteOnly
  <2>3. \A s \in Open : s = Stdout \/ s = Stderr
    BY <1>2 DEF Standard
  <2>4. \A s, t \in Open : file[s].fd = file[t].fd \/ PathOf(s) = PathOf(t) => s = t
    BY <1>1, <1>2, <2>2, <2>3
  <2> QED BY <1>2, <2>1, <2>2, <2>4 DEF DescriptorsDistinct
<1> QED BY <1>7, <1>8, <1>9 DEF Inv, StreamsApart

LEMMA StartRefines ==
  ASSUME Init
  PROVE  ByteFiles!Init
<1>1. Open = Standard /\ \A s \in Standard : Now.file[s].ungot = <<>>
  BY StartFacts DEF Now
<1>2. closed = {} /\ damaged = {} /\ exited = FALSE
  BY DEF Init
<1>3. StrayIn(Now) = FALSE
  BY <1>2 DEF StrayIn
<1>4. \A s \in Standard : ViewIn(Now, s, Kept(s)).pushed = <<>> /\ ViewIn(Now, s, Kept(s)).kept
  <2> TAKE s \in Standard
  <2> PICK k : k = Kept(s)
    OBVIOUS
  <2>1. k
    BY DEF Kept
  <2>2. ViewIn(Now, s, k).pushed = <<>> /\ ViewIn(Now, s, k).kept = k
    BY <1>1, ViewFields
  <2> QED BY <2>1, <2>2, Zenon
<1> DEFINE vv == [s \in Open |-> ViewIn(Now, s, Kept(s))]
<1>5. DOMAIN vv = Standard
  BY <1>1
<1>6. \A s \in Standard : vv[s].pushed = <<>> /\ vv[s].kept
  BY <1>1, <1>4, Zenon
<1> QED BY <1>2, <1>3, <1>5, <1>6, Zenon DEF ByteFiles!Init

LEMMA StutterRefines ==
  ASSUME Inv, UNCHANGED vars
  PROVE  Inv' /\ UNCHANGED ByteFiles!vars
<1>1. Inv'
  BY DEF Inv, TypeOK, StreamsApart, TableExact, DescriptorsDistinct, vars, Open, Now, PathOf,
         Descriptor, IsOpen
<1>2. Now' = Now /\ Open' = Open /\ damaged' = damaged /\ exited' = exited /\ result' = result
      /\ closed' = closed /\ tracked' = tracked
  BY DEF vars, Now, Open
<1>3. \A s : Kept(s)' = Kept(s)
  BY <1>2 DEF Kept
<1>4. StrayIn(Now)' = StrayIn(Now)
  BY <1>2 DEF StrayIn
<1>5. [p \in Paths |-> ContentIn(Now', IF exited' THEN {} ELSE Open', p)]
      = [p \in Paths |-> ContentIn(Now, IF exited THEN {} ELSE Open, p)]
  BY <1>2, Zenon
<1>6. [s \in Open' |-> ViewIn(Now', s, Kept(s)')] = [s \in Open |-> ViewIn(Now, s, Kept(s))]
  <2>1. \A s \in Open : ViewIn(Now', s, Kept(s)') = ViewIn(Now, s, Kept(s))
    BY <1>2, <1>3, Zenon
  <2> QED BY <1>2, <2>1
<1> QED BY <1>1, <1>2, <1>4, <1>5, <1>6 DEF ByteFiles!vars

-----------------------------------------------------------------------------
(* A call of the program is a call of the abstract streams.                *)

LEMMA StepRefines ==
  ASSUME Inv, [Next]_vars
  PROVE  Inv' /\ [ByteFiles!Next]_(ByteFiles!vars)
<1> DEFINE vv == [s \in Open |-> ViewIn(Now, s, Kept(s))]
<1>1. DOMAIN vv = Open
  OBVIOUS
<1>2. CASE UNCHANGED vars
  BY <1>2, StutterRefines
<1>3. ASSUME ~exited, NEW s \in Open,
             \/ Fflush(s) \/ Ftell(s) \/ Fclose(s)
             \/ \E b \in Bytes : Fputc(s, b) \/ Ungetc(s, b)
             \/ \E n \in 1 .. MaxRead : Fread(s, n)
             \/ \E off \in Offsets, whence \in Whences : Fseek(s, off, whence)
      PROVE  Inv' /\ ByteFiles!Next
  <2>0. s \in DOMAIN vv
    BY <1>1
  <2>1. CASE Fflush(s)
    <3>1. Inv' /\ ByteFiles!Flush
      BY <1>3, <2>1, FflushRefines
    <3> QED BY <1>3, <3>1, Zenon DEF ByteFiles!Next
  <2>2. CASE Ftell(s)
    <3>1. Inv' /\ ByteFiles!Tell(s)
      BY <1>3, <2>2, FtellRefines
    <3> QED BY <1>3, <2>0, <3>1, Zenon DEF ByteFiles!Next
  <2>3. CASE Fclose(s)
    <3>1. Inv' /\ ByteFiles!Close(s)
      BY <1>3, <2>3, FcloseRefines
    <3> QED BY <1>3, <2>0, <3>1, Zenon DEF ByteFiles!Next
  <2>4. ASSUME NEW b \in Bytes, Fputc(s, b) PROVE Inv' /\ ByteFiles!Next
    <3>1. Inv' /\ ByteFiles!Put(s, b)
      BY <1>3, <2>4, FputcRefines
    <3> QED BY <1>3, <2>0, <3>1, Zenon DEF ByteFiles!Next
  <2>5. ASSUME NEW b \in Bytes, Ungetc(s, b) PROVE Inv' /\ ByteFiles!Next
    <3>1. Inv' /\ ByteFiles!Unget(s, b)
      BY <1>3, <2>5, UngetcRefines
    <3> QED BY <1>3, <2>0, <3>1, Zenon DEF ByteFiles!Next
  <2>6. ASSUME NEW n \in 1 .. MaxRead, Fread(s, n) PROVE Inv' /\ ByteFiles!Next
    <3>1. Inv' /\ ByteFiles!Get(s, n)
      BY <1>3, <2>6, FreadRefines
    <3> QED BY <1>3, <2>0, <2>6, <3>1, Zenon DEF ByteFiles!Next
  <2>7. ASSUME NEW off \in Offsets, NEW whence \in Whences, Fseek(s, off, whence)
        PROVE  Inv' /\ ByteFiles!Next
    <3>1. Inv' /\ ByteFiles!Seek(s, off, whence)
      BY <1>3, <2>7, FseekRefines
    <3>2. whence \in {"SEEK_SET", "SEEK_CUR", "SEEK_END"}
      BY DEF Whences
    <3> QED BY <1>3, <2>0, <3>1, <3>2, Zenon DEF ByteFiles!Next
  <2> QED BY <1>3, <2>1, <2>2, <2>3, <2>4, <2>5, <2>6, <2>7
<1>4. ASSUME ~exited, NEW o \in MayOpen,
             IF o.stream \in Open THEN Freopen(o.stream, o.path, o.mode)
             ELSE Fopen(o.stream, o.path, o.mode)
      PROVE  Inv' /\ ByteFiles!Next
  <2>1. o.stream \in Standard \union Files /\ o.path \in Paths /\ o.mode \in Modes
    BY StreamsAssumption
  <2>2. o.mode \in {x.mode : x \in MayOpen}
    OBVIOUS
  <2>3. CASE o.stream \in Open
    <3>1. Inv' /\ ByteFiles!Reopen(o.stream, o.path, o.mode)
      BY <1>4, <2>1, <2>3, FreopenRefines
    <3>2. o.stream \in DOMAIN vv
      BY <1>1, <2>3
    <3> QED BY <1>4, <2>1, <2>2, <3>1, <3>2, Zenon DEF ByteFiles!Next
  <2>4. CASE o.stream \notin Open
    <3>1. Inv' /\ ByteFiles!Open(o.stream, o.path, o.mode)
      BY <1>4, <2>1, <2>4, FopenRefines
    <3> QED BY <1>4, <2>1, <2>2, <3>1, Zenon DEF ByteFiles!Next
  <2> QED BY <2>3, <2>4
<1>5. ASSUME ~exited, FflushAll PROVE Inv' /\ ByteFiles!Next
  BY <1>5, FflushAllRefines, Zenon DEF ByteFiles!Next
<1>6. ASSUME ~exited, Exit PROVE Inv' /\ ByteFiles!Next
  BY <1>6, ExitRefines, Zenon DEF ByteFiles!Next
<1>7. CASE Next
  <2>1. ~exited
    BY <1>7 DEF Next
  <2>2. \/ \E s \in Open : \/ Fflush(s) \/ Ftell(s) \/ Fclose(s)
                           \/ \E b \in Bytes : Fputc(s, b) \/ Ungetc(s, b)
                           \/ \E n \in 1 .. MaxRead : Fread(s, n)
                           \/ \E off \in Offsets, whence \in Whences : Fseek(s, off, whence)
        \/ \E o \in MayOpen :
             IF o.stream \in Open THEN Freopen(o.stream, o.path, o.mode)
             ELSE Fopen(o.stream, o.path, o.mode)
        \/ FflushAll \/ Exit
    <3> HIDE DEF Open
    <3> QED BY <1>7, Zenon DEF Next
  <2>3. Inv' /\ ByteFiles!Next
    BY <1>3, <1>4, <1>5, <1>6, <2>1, <2>2, Zenon
  <2> QED BY <2>3
<1> QED BY <1>2, <1>7

-----------------------------------------------------------------------------
LEMMA Invariant == Spec => []Inv
<1>1. Init => Inv
  BY StartInv
<1>2. Inv /\ [Next]_vars => Inv'
  BY StepRefines
<1> QED BY <1>1, <1>2, PTL DEF Spec

(* The FILE objects, the table and the descriptors stay what the code      *)
(* takes them for: no buffer outgrows f->buf_cap, no FILE holds more than  *)
(* 16 bytes pushed back, open_files no more than 64 entries, whatever      *)
(* sequence of calls is made and whichever of them fail.                   *)
THEOREM TypeCorrect == Spec => []TypeOK
<1>1. Inv => TypeOK
  BY DEF Inv
<1> QED BY <1>1, Invariant, PTL

(* The table never holds a FILE that fclose has freed, nor one twice, and  *)
(* no two streams in use share a descriptor or a file, through every       *)
(* fopen, freopen and fclose: untrack_fopen, which moves the last entry,   *)
(* and freopen, which opens before it closes, get it right.                *)
THEOREM StreamsAreApart == Spec => []StreamsApart
<1>1. Inv => StreamsApart
  BY DEF Inv
<1> QED BY <1>1, Invariant, PTL

(* Each call does to the files and positions of ByteFile what the same     *)
(* call does there, whatever is still in the buffers and however the       *)
(* writes of a flush end: a file is damaged only by a call that says it    *)
(* met an error, or by bytes a standard stream was closed with.            *)
THEOREM StreamsRefine == Spec => ActsLikeFiles
<1>1. Init => ByteFiles!Init
  BY StartRefines
<1>2. Inv /\ [Next]_vars => [ByteFiles!Next]_(ByteFiles!vars)
  BY StepRefines
<1> QED BY <1>1, <1>2, Invariant, PTL DEF Spec, ActsLikeFiles, ByteFiles!Spec

=============================================================================
