------------------------------- MODULE ByteFile -------------------------------
(***************************************************************************)
(* What the streams of runtime/stdio.c promise: a stream is a position in  *)
(* a file and the bytes pushed back in front of it.  A byte written is in  *)
(* the file at once: there are no buffers and no descriptors.              *)
(*                                                                         *)
(* A call that meets an output error (f->err = 1) may damage the file.     *)
(* Nothing is promised of a damaged file, and everything of the others.    *)
(***************************************************************************)
EXTENDS Integers, Sequences, FiniteSets

CONSTANTS
  Paths,       \* files
  Standard,    \* the streams open from the start
  Zero,        \* the byte a hole in a file reads as
  UngetLimit,  \* bytes that can be pushed back
  KeptLimit    \* opened streams that exit takes care of

VARIABLES
  content,   \* the bytes of each file
  stream,    \* the open streams: [path, pos, pushed, kept, read, write, append]
  damaged,   \* the files an output error damaged
  stray,     \* a standard stream was closed with bytes it could not write
  exited,
  result     \* what the last call returned: [call, ok, err, bytes, n]

vars == <<content, stream, damaged, stray, exited, result>>

(* Bytes bs written over content c from offset at on.                      *)
Overwrite(c, at, bs) ==
  IF bs = <<>> THEN c
  ELSE [i \in 1 .. IF at + Len(bs) > Len(c) THEN at + Len(bs) ELSE Len(c) |->
          IF i \in at + 1 .. at + Len(bs) THEN bs[i - at]
          ELSE IF i <= Len(c) THEN c[i] ELSE Zero]

With(f, x, v) == [y \in DOMAIN f \union {x} |-> IF y = x THEN v ELSE f[y]]
Without(f, x) == [y \in DOMAIN f \ {x} |-> f[y]]

(* The last k of the bytes pushed back, the latest first.                  *)
Latest(q, k) == [i \in 1 .. k |-> q[Len(q) + 1 - i]]

(* Damage is done by calls that meet an error, and by stray bytes.         *)
DamageOnly ==
  /\ damaged \subseteq damaged'
  /\ damaged' # damaged => result'.err \/ stray

(* The files become c and the streams st, whatever is damaged aside.       *)
Becomes(c, st) ==
  /\ DamageOnly
  /\ \A p \in Paths \ damaged' : content'[p] = c[p]
  /\ DOMAIN stream' = DOMAIN st
  /\ \A s \in DOMAIN st :
       IF st[s].path \in damaged' THEN [stream'[s] EXCEPT !.pos = st[s].pos] = st[s]
       ELSE stream'[s] = st[s]
  /\ UNCHANGED exited

Keeps == stray' => stray

PutAt(s) == IF stream[s].append THEN Len(content[stream[s].path]) ELSE stream[s].pos

(* A byte is written, or the call fails, and then it may be or not.        *)
Put(s, b) ==
  /\ result'.call = "fputc" /\ Keeps
  /\ \/ /\ stream[s].write
        /\ Becomes([content EXCEPT ![stream[s].path] = Overwrite(@, PutAt(s), <<b>>)],
                   [stream EXCEPT ![s].pos = PutAt(s) + 1])
        /\ result'.ok \/ result'.err
     \/ Becomes(content, stream) /\ ~result'.ok /\ result'.err

(* Up to n bytes: those pushed back first, then the file's.  Less than n   *)
(* is the end of the file or an error.                                     *)
Get(s, n) ==
  LET x    == stream[s]
      k    == IF Len(x.pushed) < n THEN Len(x.pushed) ELSE n
      rest == SubSeq(content[x.path], x.pos + 1, Len(content[x.path]))
  IN /\ result'.call = "fread" /\ Keeps
     /\ \E m \in 0 .. n - k :
          /\ m <= Len(rest) /\ (m > 0 => x.read)
          /\ Becomes(content, [stream EXCEPT ![s].pos = @ + m,
                                             ![s].pushed = SubSeq(@, 1, Len(@) - k)])
          /\ result'.bytes = Latest(x.pushed, k) \o SubSeq(rest, 1, m)
          /\ k + m = n \/ m = Len(rest) \/ result'.err

Unget(s, b) ==
  /\ result'.call = "ungetc" /\ Keeps
  /\ \/ /\ Len(stream[s].pushed) < UngetLimit
        /\ Becomes(content, [stream EXCEPT ![s].pushed = Append(@, b)])
        /\ result'.ok
     \/ /\ Len(stream[s].pushed) = UngetLimit
        /\ Becomes(content, stream)
        /\ ~result'.ok

(* To an offset from the start, from the file's own position, which bytes  *)
(* pushed back do not move, or from the end.  A seek that fails only drops *)
(* the bytes pushed back.                                                  *)
Seek(s, off, whence) ==
  LET from == CASE whence = "SEEK_SET" -> 0
                [] whence = "SEEK_CUR" -> stream[s].pos
                [] whence = "SEEK_END" -> Len(content[stream[s].path])
  IN /\ result'.call = "fseek" /\ Keeps
     /\ Becomes(content, [stream EXCEPT ![s].pos = IF result'.ok THEN from + off ELSE @,
                                        ![s].pushed = <<>>])

(* The position takes the bytes pushed back as not read yet.               *)
Tell(s) ==
  /\ result'.call = "ftell" /\ Keeps
  /\ Becomes(content, stream)
  /\ ~result'.err => result'.n = stream[s].pos - Len(stream[s].pushed)

Flush == result'.call = "fflush" /\ Keeps /\ Becomes(content, stream)

-----------------------------------------------------------------------------
Opened(p, mode, kept) ==
  [path |-> p, pos |-> 0, pushed |-> <<>>, kept |-> kept,
   read |-> mode.read, write |-> mode.write, append |-> mode.append]

Fresh(p, mode) == IF mode.trunc THEN [content EXCEPT ![p] = <<>>] ELSE content

KeptNow == {s \in DOMAIN stream \ Standard : stream[s].kept}

(* fopen gives a stream at the start of the file.  A call that fails may   *)
(* have emptied it.                                                        *)
Open(s, p, mode) ==
  /\ result'.call = "fopen" /\ Keeps
  /\ \/ /\ s \notin DOMAIN stream
        /\ Becomes(Fresh(p, mode),
                   With(stream, s, Opened(p, mode, Cardinality(KeptNow) < KeptLimit)))
        /\ result'.ok
     \/ Becomes(Fresh(p, mode), stream) /\ ~result'.ok
     \/ Becomes(content, stream) /\ ~result'.ok

Reopen(s, p, mode) ==
  /\ result'.call = "freopen" /\ Keeps
  /\ \/ /\ Becomes(Fresh(p, mode), [stream EXCEPT ![s] = Opened(p, mode, @.kept)])
        /\ result'.ok
     \/ Becomes(content, stream) /\ ~result'.ok

Close(s) ==
  /\ result'.call = "fclose"
  /\ Becomes(content, Without(stream, s))
  /\ stray' => stray \/ (s \in Standard /\ result'.err)

(* exit leaves in the files what was written to the streams it keeps.      *)
Exit ==
  /\ result'.call = "exit"
  /\ exited'
  /\ DamageOnly
  /\ \A p \in Paths \ damaged' :
       (\A s \in DOMAIN stream : stream[s].path = p => stream[s].kept)
         => content'[p] = content[p]
  /\ Keeps

-----------------------------------------------------------------------------
CONSTANTS Streams, Bytes, OpenModes, MaxRead, Offsets

Init ==
  /\ damaged = {} /\ stray = FALSE /\ exited = FALSE
  /\ DOMAIN stream = Standard
  /\ \A s \in Standard : stream[s].pushed = <<>> /\ stream[s].kept

Next ==
  /\ ~exited
  /\ \/ \E s \in DOMAIN stream :
          \/ \E b \in Bytes : Put(s, b) \/ Unget(s, b)
          \/ \E n \in 1 .. MaxRead : Get(s, n)
          \/ \E off \in Offsets, whence \in {"SEEK_SET", "SEEK_CUR", "SEEK_END"} : Seek(s, off, whence)
          \/ Tell(s) \/ Close(s)
          \/ \E p \in Paths, mode \in OpenModes : Reopen(s, p, mode)
     \/ \E s \in Streams, p \in Paths, mode \in OpenModes : Open(s, p, mode)
     \/ Flush \/ Exit

Spec == Init /\ [][Next]_vars
=============================================================================
