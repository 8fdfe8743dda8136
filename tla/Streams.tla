-------------------------------- MODULE Streams --------------------------------
(***************************************************************************)
(* runtime/stdio.c, the streams: buffers, bytes pushed back, the table of  *)
(* opened files, and exit (runtime/stdlib.c) over the kernel's             *)
(* descriptors, whose writes may be short and may fail.                    *)
(*                                                                         *)
(* The calls are those of one thread, which has no lock to take: each is   *)
(* one action.  A write error is a number: how many bytes the writes of a  *)
(* flush had passed when one of them failed.  fputs, puts and fwrite are   *)
(* fputc repeated, stopping at the first failure.  f->err and f->eof are   *)
(* set and never read; what the model keeps of them is result.err.  A      *)
(* program uses one stream at a time for a file, flushes or seeks between  *)
(* writing and reading, and does not use a stream it has closed.           *)
(***************************************************************************)
EXTENDS Integers, SequencesExt

CONSTANTS
  Stdout, Stderr,
  Files,       \* addresses malloc may return for a FILE
  Paths,
  OutPath, ErrPath,  \* what descriptors 1 and 2 are at the start
  Initial,     \* the content of the files at the start
  Bytes,
  Newline,
  Zero,        \* the byte a hole in a file reads as
  MayOpen,     \* what the program opens: [stream, path, mode], the mode parsed
               \* into [read, write, trunc, append]
  MayPut,      \* what it writes or pushes back, as pairs <<stream, byte>>
  BufCap,      \* f->buf_cap (1024)
  UngetCap,    \* the length of f->ungot (16)
  TrackCap,    \* the length of open_files (64)
  MaxFd,       \* bound on descriptors
  MayRead,     \* streams the program reads, pushes bytes back to and seeks in
  MayClose,    \* streams the program closes or reopens
  Offsets,     \* what fseek is called with
  MaxErrors,   \* bound on the calls that meet an output error
  MaxRead,     \* bound on the size of a read
  MaxLen       \* bounds on the length of each file with what is buffered for it

Standard == {Stdout, Stderr}
Fds      == 1 .. MaxFd
Content  == Seq(Bytes)
Modes    == [read : BOOLEAN, write : BOOLEAN, trunc : BOOLEAN, append : BOOLEAN]

ASSUME StreamsAssumption ==
  /\ Stdout # Stderr /\ Standard \intersect Files = {}
  /\ {OutPath, ErrPath} \subseteq Paths /\ OutPath # ErrPath
  /\ Initial \in [Paths -> Content] /\ {Newline, Zero} \subseteq Bytes
  /\ MayOpen \subseteq [stream : Standard \union Files, path : Paths, mode : Modes]
  /\ BufCap \in Nat \ {0} /\ UngetCap \in Nat /\ TrackCap \in Nat
  /\ MaxFd \in Nat /\ MaxFd >= 2 /\ MaxErrors \in Nat /\ MaxRead \in Nat
  /\ Offsets \subseteq Int /\ MaxLen \in [Paths -> Nat]

VARIABLES
  file,     \* the FILE objects: [fd, writable, buf, ungot]
  closed,   \* standard streams that fclose has been called on
  tracked,  \* open_files, up to open_files_n
  kernel,   \* [fds: descriptor -> [path, pos, mode], data: path -> bytes]
  damaged,  \* files that lost, doubled or misplaced bytes
  exited,
  errors,   \* how many calls met an output error
  result    \* of the last call: [call, ok, err, bytes, n]

vars == <<file, closed, tracked, kernel, damaged, exited, errors, result>>

Open == DOMAIN file \ closed

Answer(call, ok, err, bytes, n) ==
  result' = [call |-> call, ok |-> ok, err |-> err, bytes |-> bytes, n |-> n]

(* Bytes bs written over content c from offset at on.                      *)
Overwrite(c, at, bs) ==
  IF bs = <<>> THEN c
  ELSE [i \in 1 .. IF at + Len(bs) > Len(c) THEN at + Len(bs) ELSE Len(c) |->
          IF i \in at + 1 .. at + Len(bs) THEN bs[i - at]
          ELSE IF i <= Len(c) THEN c[i] ELSE Zero]

With(f, x, v) == [y \in DOMAIN f \union {x} |-> IF y = x THEN v ELSE f[y]]
Without(f, x) == [y \in DOMAIN f \ {x} |-> f[y]]

-----------------------------------------------------------------------------
(* The kernel.                                                             *)

IsOpen(k, fd) == fd \in DOMAIN k.fds

WritePos(k, d) == IF d.mode.append THEN Len(k.data[d.path]) ELSE d.pos

SysWrite(k, fd, bs) ==
  LET d  == k.fds[fd]
      at == WritePos(k, d)
  IN IF bs = <<>> THEN k
     ELSE [fds  |-> [k.fds EXCEPT ![fd].pos = at + Len(bs)],
           data |-> [k.data EXCEPT ![d.path] = Overwrite(@, at, bs)]]

(* The lowest free descriptor.                                             *)
FreeFds(k) == Fds \ DOMAIN k.fds
SysOpen(k, p, mode) ==
  [fds  |-> With(k.fds, Min(FreeFds(k)), [path |-> p, pos |-> 0, mode |-> mode]),
   data |-> IF mode.trunc THEN [k.data EXCEPT ![p] = <<>>] ELSE k.data]

SysClose(k, fd) == [k EXCEPT !.fds = Without(@, fd)]

-----------------------------------------------------------------------------
(* fflush(f).  The state a call works on is [file, kernel, damaged, err];  *)
(* the writes of a flush pass j bytes in all.                              *)

Now == [file |-> file, kernel |-> kernel, damaged |-> damaged, err |-> FALSE]

Descriptor(m, s) == m.kernel.fds[m.file[s].fd]
PathOf(s)        == Descriptor(Now, s).path

Pending(m, s) == IF m.file[s].writable THEN m.file[s].buf ELSE <<>>

(* The numbers of bytes that may pass.                                     *)
Passes(m, s) ==
  IF Pending(m, s) # <<>> /\ IsOpen(m.kernel, m.file[s].fd) /\ Descriptor(m, s).mode.write
  THEN 0 .. Len(Pending(m, s)) ELSE {0}

(* Mutant of Flush: a write that came up short is taken for the whole.     *)
FlushOnce(m, s, j) ==
  LET buf == Pending(m, s)
  IN IF j = 0 THEN [m EXCEPT !.err = @ \/ buf # <<>>]
     ELSE [m EXCEPT !.kernel = SysWrite(@, m.file[s].fd, SubSeq(buf, 1, j)),
                    !.file[s].buf = <<>>]

(* An error leaves the whole buffer in place.  When some of it had passed, *)
(* or the descriptor is by now another file's, a file is damaged.          *)
Flush(m, s, j) ==
  LET buf == Pending(m, s)
  IN IF buf = <<>> THEN m
     ELSE [file    |-> IF j = Len(buf) THEN [m.file EXCEPT ![s].buf = <<>>] ELSE m.file,
           kernel  |-> SysWrite(m.kernel, m.file[s].fd, SubSeq(buf, 1, j)),
           damaged |-> IF j > 0 /\ (j < Len(buf) \/ s \in closed)
                       THEN m.damaged \union {Descriptor(m, s).path} ELSE m.damaged,
           err     |-> m.err \/ j < Len(buf)]

Flushed(m, s) == {Flush(m, s, j) : j \in Passes(m, s)}

(* The files of the streams of S lose, or get at another place, what was   *)
(* not flushed.                                                            *)
Unflushed(m, S) == {s \in S : Pending(m, s) # <<>> /\ IsOpen(m.kernel, m.file[s].fd)}
Loses(m, S) == [m EXCEPT !.damaged = @ \union {Descriptor(m, s).path : s \in Unflushed(m, S)}]

(* fflush(0): stdout, stderr and the table, whatever fails.                *)
Listed == <<Stdout, Stderr>> \o tracked

AllFlushed ==
  LET after[i \in 0 .. Len(Listed)] ==
        IF i = 0 THEN {Now} ELSE UNION {Flushed(m, Listed[i]) : m \in after[i - 1]}
  IN after[Len(Listed)]

Set(m) ==
  /\ file' = m.file /\ kernel' = m.kernel /\ damaged' = m.damaged
  /\ errors' = IF m.err THEN errors + 1 ELSE errors
  /\ errors' <= MaxErrors

-----------------------------------------------------------------------------
(* Output.                                                                 *)

Room(s) ==
  IsOpen(kernel, file[s].fd) =>
    Max({Len(kernel.data[PathOf(s)]), WritePos(kernel, Descriptor(Now, s))}) + Len(file[s].buf)
      < MaxLen[PathOf(s)]

(* file_write of one byte: a full buffer is flushed first; stderr is       *)
(* flushed after each byte and stdout after each line.                     *)
Fputc(s, b) ==
  /\ Room(s)
  /\ UNCHANGED <<closed, tracked, exited>>
  /\ IF ~file[s].writable THEN Set(Now) /\ Answer("fputc", FALSE, TRUE, <<>>, 0)
     ELSE \E m \in IF Len(file[s].buf) >= BufCap THEN Flushed(Now, s) ELSE {Now} :
       IF m.err THEN Set(m) /\ Answer("fputc", FALSE, TRUE, <<>>, 0)
       ELSE LET added == [m EXCEPT !.file[s].buf = Append(@, b)]
            IN \E r \in IF s = Stderr \/ (s = Stdout /\ b = Newline)
                        THEN Flushed(added, s) ELSE {added} :
                 Set(r) /\ Answer("fputc", ~r.err, r.err, <<>>, 0)

Fflush(s) ==
  /\ \E m \in Flushed(Now, s) : Set(m) /\ Answer("fflush", ~m.err, m.err, <<>>, 0)
  /\ UNCHANGED <<closed, tracked, exited>>

FflushAll ==
  /\ \E m \in AllFlushed : Set(m) /\ Answer("fflush", ~m.err, m.err, <<>>, 0)
  /\ UNCHANGED <<closed, tracked, exited>>

-----------------------------------------------------------------------------
(* Input.                                                                  *)

(* The last k of the bytes pushed back, the latest first.                  *)
Latest(q, k) == [i \in 1 .. k |-> q[Len(q) + 1 - i]]

(* fread of n bytes, and fgetc for one: bytes pushed back, then reads      *)
(* until there are enough, the file ends or a read fails.                  *)
Fread(s, n) ==
  LET f    == file[s]
      k    == Min({n, Len(f.ungot)})
      d    == kernel.fds[f.fd]
      rest == IF IsOpen(kernel, f.fd) /\ d.mode.read
              THEN SubSeq(kernel.data[d.path], d.pos + 1, Len(kernel.data[d.path])) ELSE <<>>
  IN /\ Pending(Now, s) = <<>>
     /\ \E m \in 0 .. Min({n - k, Len(rest)}), err \in BOOLEAN :
          /\ ~err => k + m = n \/ (m = Len(rest) /\ d.mode.read)
          /\ err => k + m < n
          /\ kernel' = IF m = 0 THEN kernel ELSE [kernel EXCEPT !.fds[f.fd].pos = @ + m]
          /\ file' = [file EXCEPT ![s].ungot = SubSeq(@, 1, Len(@) - k)]
          /\ Answer("fread", ~err, err, Latest(f.ungot, k) \o SubSeq(rest, 1, m), k + m)
     /\ UNCHANGED <<closed, tracked, damaged, exited, errors>>

(* Mutant of Ungetc: nunget > 16 is refused.                               *)
UngetcOver(s, b) ==
  /\ Len(file[s].ungot) <= UngetCap
  /\ file' = [file EXCEPT ![s].ungot = Append(@, b)]
  /\ Answer("ungetc", TRUE, FALSE, <<>>, 0)
  /\ UNCHANGED <<closed, tracked, kernel, damaged, exited, errors>>

(* The byte goes in front of those pushed back before, if there is room.   *)
Ungetc(s, b) ==
  /\ IF Len(file[s].ungot) >= UngetCap
     THEN file' = file /\ Answer("ungetc", FALSE, FALSE, <<>>, 0)
     ELSE /\ file' = [file EXCEPT ![s].ungot = Append(@, b)]
          /\ Answer("ungetc", TRUE, FALSE, <<>>, 0)
  /\ UNCHANGED <<closed, tracked, kernel, damaged, exited, errors>>

(* fseek: the flush may fail, the bytes pushed back are dropped in any     *)
(* case, and the seek, which may go past the end of the file, may fail.    *)
Fseek(s, off, whence) ==
  LET fd == file[s].fd
  IN /\ IsOpen(kernel, fd)
     /\ \E m \in Flushed(Now, s) :
          LET r  == Loses(m, {s})
              to == off + CASE whence = "SEEK_SET" -> 0
                            [] whence = "SEEK_CUR" -> m.kernel.fds[fd].pos
                            [] whence = "SEEK_END" -> Len(m.kernel.data[PathOf(s)])
          IN \/ /\ to \in 0 .. MaxLen[PathOf(s)] - 1
                /\ Set([r EXCEPT !.file[s].ungot = <<>>, !.kernel.fds[fd].pos = to])
                /\ Answer("fseek", TRUE, r.err, <<>>, 0)
             \/ /\ Set([m EXCEPT !.file[s].ungot = <<>>])
                /\ Answer("fseek", FALSE, TRUE, <<>>, 0)
     /\ UNCHANGED <<closed, tracked, exited>>

(* Mutant of Ftell: the bytes pushed back are not taken off.               *)
FtellKernel(s) ==
  /\ IsOpen(kernel, file[s].fd)
  /\ \E m \in Flushed(Now, s) :
       Set(m) /\ Answer("ftell", TRUE, m.err, <<>>, m.kernel.fds[file[s].fd].pos)
  /\ UNCHANGED <<closed, tracked, exited>>

Ftell(s) ==
  /\ IsOpen(kernel, file[s].fd)
  /\ \E m \in Flushed(Now, s) :
       /\ Set(m)
       /\ \/ Answer("ftell", TRUE, m.err, <<>>, m.kernel.fds[file[s].fd].pos - Len(file[s].ungot))
          \/ Answer("ftell", FALSE, TRUE, <<>>, -1)
  /\ UNCHANGED <<closed, tracked, exited>>

-----------------------------------------------------------------------------
(* Opening and closing.                                                    *)

(* No stream has the file open, or only s has.                             *)
Alone(p, own) == \A fd \in DOMAIN kernel.fds \ own : kernel.fds[fd].path # p

(* Mutant of Untracked: the search stops before the last entry.            *)
UntrackedShort(q, s) ==
  IF \A i \in 1 .. Len(q) - 1 : q[i] # s THEN q
  ELSE LET i == Min({j \in DOMAIN q : q[j] = s})
       IN SubSeq([q EXCEPT ![i] = q[Len(q)]], 1, Len(q) - 1)

(* untrack_fopen: the last entry takes the place of the one that goes.     *)
Untracked(q, s) ==
  IF \A i \in DOMAIN q : q[i] # s THEN q
  ELSE LET i == Min({j \in DOMAIN q : q[j] = s})
       IN SubSeq([q EXCEPT ![i] = q[Len(q)]], 1, Len(q) - 1)

(* open, then malloc, then track_fopen, which keeps no more than 64.       *)
Fopen(s, p, mode) ==
  /\ s \in Files \ DOMAIN file /\ Alone(p, {}) /\ FreeFds(kernel) # {}
  /\ LET k == SysOpen(kernel, p, mode)
     IN \/ /\ kernel' = k
           /\ file' = With(file, s, [fd |-> Min(FreeFds(kernel)), writable |-> mode.write,
                                     buf |-> <<>>, ungot |-> <<>>])
           /\ tracked' = IF Len(tracked) < TrackCap THEN Append(tracked, s) ELSE tracked
           /\ Answer("fopen", TRUE, FALSE, <<>>, 0)
        \/ /\ kernel' = SysClose(k, Min(FreeFds(kernel)))
           /\ Answer("fopen", FALSE, FALSE, <<>>, 0)
           /\ UNCHANGED <<file, tracked>>
        \/ /\ Answer("fopen", FALSE, FALSE, <<>>, 0)
           /\ UNCHANGED <<file, tracked, kernel>>
  /\ UNCHANGED <<closed, damaged, exited, errors>>

(* freopen: the old descriptor is closed after the new file is open, and   *)
(* stays open when the stream is a standard one.                           *)
Freopen(s, p, mode) ==
  /\ Alone(p, {file[s].fd}) /\ FreeFds(kernel) # {}
  /\ \E m \in Flushed(Now, s) :
       \/ LET r   == Loses(m, {s})
              k   == SysOpen(r.kernel, p, mode)
              new == [fd |-> Min(FreeFds(kernel)), writable |-> mode.write,
                      buf |-> <<>>, ungot |-> <<>>]
          IN /\ Set([r EXCEPT !.file[s] = new,
                              !.kernel = IF s \in Standard THEN k ELSE SysClose(k, file[s].fd)])
             /\ Answer("freopen", TRUE, r.err, <<>>, 0)
       \/ Set(m) /\ Answer("freopen", FALSE, m.err, <<>>, 0)
  /\ UNCHANGED <<closed, tracked, exited>>

(* fclose: a flush that fails is not reported, and the buffer is lost with *)
(* the FILE, or kept in it when the stream is a standard one.              *)
Fclose(s) ==
  /\ \E m \in Flushed(Now, s) :
       LET r == [Loses(m, {s}) EXCEPT !.kernel = SysClose(@, file[s].fd)]
       IN /\ IF s \in Standard
             THEN Set(r) /\ closed' = closed \union {s} /\ UNCHANGED tracked
             ELSE /\ Set([r EXCEPT !.file = Without(@, s)])
                  /\ tracked' = Untracked(tracked, s)
                  /\ UNCHANGED closed
          /\ Answer("fclose", TRUE, r.err, <<>>, 0)
  /\ UNCHANGED exited

(* exit: fflush(0), and what is in the other buffers is gone.              *)
Exit ==
  /\ \E m \in AllFlushed :
       /\ Set(Loses(m, {Listed[i] : i \in DOMAIN Listed}))
       /\ Answer("exit", TRUE, m.err, <<>>, 0)
  /\ exited' = TRUE
  /\ UNCHANGED <<closed, tracked>>

-----------------------------------------------------------------------------
Whences   == {"SEEK_SET", "SEEK_CUR", "SEEK_END"}
WriteOnly == [read |-> FALSE, write |-> TRUE, trunc |-> FALSE, append |-> FALSE]

Init ==
  /\ file = [s \in Standard |-> [fd |-> IF s = Stdout THEN 1 ELSE 2, writable |-> TRUE,
                                 buf |-> <<>>, ungot |-> <<>>]]
  /\ closed = {} /\ tracked = <<>>
  /\ kernel = [fds |-> [fd \in {1, 2} |-> [path |-> IF fd = 1 THEN OutPath ELSE ErrPath,
                                           pos |-> 0, mode |-> WriteOnly]],
               data |-> Initial]
  /\ damaged = {} /\ exited = FALSE /\ errors = 0
  /\ result = [call |-> "start", ok |-> TRUE, err |-> FALSE, bytes |-> <<>>, n |-> 0]

Next ==
  /\ ~exited
  /\ \/ \E s \in Open : Fflush(s) \/ Ftell(s) \/ \E b \in Bytes : <<s, b>> \in MayPut /\ Fputc(s, b)
     \/ \E s \in Open \intersect MayRead :
          \/ \E b \in Bytes : <<s, b>> \in MayPut /\ Ungetc(s, b)
          \/ \E n \in 1 .. MaxRead : Fread(s, n)
          \/ \E off \in Offsets, whence \in Whences : Fseek(s, off, whence)
     \/ \E s \in Open \intersect MayClose : Fclose(s)
     \/ \E o \in MayOpen :
          IF o.stream \in Open THEN Freopen(o.stream, o.path, o.mode)
          ELSE Fopen(o.stream, o.path, o.mode)
     \/ FflushAll \/ Exit

Spec == Init /\ [][Next]_vars

-----------------------------------------------------------------------------
FileObjects == [fd : Fds, writable : BOOLEAN, buf : Seq(Bytes), ungot : Seq(Bytes)]
Descriptors == [path : Paths, pos : Nat, mode : Modes]

TypeOK ==
  /\ Standard \subseteq DOMAIN file /\ DOMAIN file \subseteq Standard \union Files
  /\ file \in [DOMAIN file -> FileObjects]
  /\ \A s \in DOMAIN file : Len(file[s].buf) <= BufCap /\ Len(file[s].ungot) <= UngetCap
  /\ closed \subseteq Standard
  /\ tracked \in Seq(Files) /\ Len(tracked) <= TrackCap
  /\ kernel \in [fds : [DOMAIN kernel.fds -> Descriptors], data : [Paths -> Content]]
  /\ DOMAIN kernel.fds \subseteq Fds
  /\ damaged \subseteq Paths /\ exited \in BOOLEAN /\ errors \in 0 .. MaxErrors

(* open_files holds FILEs that exist, each once: fflush(0) and exit never  *)
(* follow a pointer to one that fclose has freed.                          *)
TableExact ==
  /\ \A i \in DOMAIN tracked : tracked[i] \in DOMAIN file \intersect Files
  /\ \A i, j \in DOMAIN tracked : tracked[i] = tracked[j] => i = j

(* Every stream in use has a descriptor and a file of its own; the         *)
(* descriptor is open, and for writing just when the stream is.            *)
DescriptorsDistinct ==
  /\ \A s \in Open :
       IsOpen(kernel, file[s].fd) /\ Descriptor(Now, s).mode.write = file[s].writable
  /\ \A s, t \in Open : file[s].fd = file[t].fd \/ PathOf(s) = PathOf(t) => s = t

(* No operation reaches a FILE that is freed or a descriptor that is       *)
(* another stream's.                                                       *)
StreamsApart == TableExact /\ DescriptorsDistinct

-----------------------------------------------------------------------------
(* A buffered byte counts as written: what the streams of open and the     *)
(* files of a state m are without the buffers.                             *)

Holders(m, open, p) == {s \in open : Descriptor(m, s).path = p}

ContentIn(m, open, p) ==
  IF Holders(m, open, p) = {} THEN m.kernel.data[p]
  ELSE LET s == CHOOSE s \in Holders(m, open, p) : TRUE
       IN Overwrite(m.kernel.data[p], WritePos(m.kernel, Descriptor(m, s)), Pending(m, s))

PositionIn(m, s) ==
  LET d == Descriptor(m, s)
  IN IF Pending(m, s) = <<>> THEN d.pos ELSE WritePos(m.kernel, d) + Len(Pending(m, s))

Kept(s) == s \in Standard \/ \E i \in DOMAIN tracked : tracked[i] = s

ViewIn(m, s, kept) ==
  LET d == Descriptor(m, s)
  IN [path |-> d.path, pos |-> PositionIn(m, s), pushed |-> m.file[s].ungot, kept |-> kept,
      read |-> d.mode.read, write |-> d.mode.write, append |-> d.mode.append]

StrayIn(m) == \E s \in closed : Pending(m, s) # <<>>

ByteFiles == INSTANCE ByteFile WITH
  UngetLimit <- UngetCap, KeptLimit <- TrackCap,
  Streams <- Standard \union Files, OpenModes <- {o.mode : o \in MayOpen},
  content <- [p \in Paths |-> ContentIn(Now, IF exited THEN {} ELSE Open, p)],
  stream <- [s \in Open |-> ViewIn(Now, s, Kept(s))],
  stray <- StrayIn(Now)

(* The buffers, the descriptors and the table cannot be told from files    *)
(* that get each byte at once, except through a call that met an error.    *)
ActsLikeFiles == ByteFiles!Spec
=============================================================================
