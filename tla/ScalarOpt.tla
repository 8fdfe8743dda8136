------------------------------ MODULE ScalarOpt ------------------------------
(***************************************************************************)
(* What src/scalar_opt.c does after mem2reg to code without arithmetic:    *)
(* dead code elimination until nothing changes, then a compact numbering   *)
(* of the values that are left; and the pipeline of src/opt.c at -O1 up to *)
(* register allocation, which sees the instructions without the markers.   *)
(***************************************************************************)
EXTENDS Mem2Reg

(* The value ids of an instruction, in the order in which it is walked.    *)
Reads(inst) ==
  SelectSeq(<<inst.a>> \o (IF inst.op = "cbr" THEN <<>> ELSE <<inst.b>>)
                       \o (IF inst.op = "call" THEN inst.args ELSE <<>>),
            LAMBDA v : v # None)

HasSideEffect(inst) ==
  inst.op \in Terminators \union {"store", "label", "alloca", "call", "param"}

Dce(insts) ==
  LET used == UNION {Uses(inst) : inst \in ToSet(insts)}
  IN  SelectSeq(insts, LAMBDA i : HasSideEffect(i) \/ i.dst = None \/ i.dst \in used)

RECURSIVE DceAll(_)
DceAll(insts) == IF Dce(insts) = insts THEN insts ELSE DceAll(Dce(insts))

(* The ids to keep, in the order in which they are first seen.             *)
Introduces(inst) ==
  IF Observes(inst) THEN <<>>
  ELSE (IF inst.dst = None THEN <<>> ELSE <<inst.dst>>) \o Reads(inst)

FirstSeen(insts) ==
  FoldLeft(LAMBDA ids, v : IF Contains(ids, v) THEN ids ELSE Append(ids, v),
           <<>>, FlattenSeq([i \in DOMAIN insts |-> Introduces(insts[i])]))

Renumber(fn) ==
  LET ids == FirstSeen(fn.insts)
      New(v) == IF Contains(ids, v) THEN (CHOOSE n \in DOMAIN ids : ids[n] = v) - 1 ELSE None
      Rewrite(inst) ==
        CASE inst.op \in {"label", "br"} -> inst
          [] inst.op = "dbg" -> [inst EXCEPT !.a = New(@)]
          [] OTHER -> [inst EXCEPT
               !.dst = New(@), !.a = New(@),
               !.b = IF inst.op = "cbr" THEN @ ELSE New(@),
               !.args = IF inst.op = "call" THEN [n \in DOMAIN @ |-> New(@[n])] ELSE @]
  IN  [insts |-> [i \in DOMAIN fn.insts |-> Rewrite(fn.insts[i])],
       next  |-> Len(ids),
       vars  |-> [var \in DOMAIN fn.vars |-> New(fn.vars[var])]]

ScalarCleanup(fn) == Renumber([fn EXCEPT !.insts = DceAll(@)])

Opt(fn, want_debug) == ScalarCleanup(OptMem2Reg(fn, want_debug))

(* extract_markers: what the register allocator sees.                      *)
ExtractMarkers(insts) == SelectSeq(insts, LAMBDA i : i.op # "dbg")
=============================================================================
