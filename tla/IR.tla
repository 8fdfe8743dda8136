---------------------------------- MODULE IR ----------------------------------
(***************************************************************************)
(* The intermediate representation of one function, include/fakecc/ir.h.   *)
(* Of an instruction the model keeps the operands: dst and the value       *)
(* operands a and b, None when there is none, imm and args.  Arithmetic is *)
(* left out: a call stands for any computation whose result and operands   *)
(* matter.  Instructions are numbered from 1, values, labels and slots     *)
(* from 0 as in the code.                                                  *)
(***************************************************************************)
EXTENDS Integers, SequencesExt, FiniteSetsExt

None == -1

Inst(op, dst, a, b, imm, args) ==
  [op |-> op, dst |-> dst, a |-> a, b |-> b, imm |-> imm, args |-> args]

Alloca(slot, bytes) == Inst("alloca", slot, None, None, bytes, <<>>)
Addr(v, slot)       == Inst("addr", v, slot, None, 0, <<>>)
Load(v, slot)       == Inst("load", v, slot, None, 0, <<>>)
Store(slot, v)      == Inst("store", None, slot, v, 0, <<>>)
Copy(v, w)          == Inst("copy", v, w, None, 0, <<>>)
Const(v, n)         == Inst("const", v, None, None, n, <<>>)
Param(v, n)         == Inst("param", v, None, None, n, <<>>)
Call(v, args)       == Inst("call", v, None, None, 0, args)
Label(l)            == Inst("label", None, None, None, l, <<>>)
Br(l)               == Inst("br", None, None, None, l, <<>>)
Cbr(v, l, m)        == Inst("cbr", None, v, m, l, <<>>)
Table(v, l, ls)     == Inst("table", None, v, None, l, ls)
JmpPtr(v)           == Inst("jmp_ptr", None, v, None, 0, <<>>)
Return(v)           == Inst("return", None, v, None, 0, <<>>)
DbgValue(var, v)    == Inst("dbg", None, v, None, var, <<>>)

Terminators == {"br", "cbr", "table", "jmp_ptr", "return"}

Values(fn) == 0 .. fn.next - 1

(* What the passes over values do not look at.                             *)
Observes(inst) == inst.op \in {"label", "br", "dbg"}

(* The ids an instruction reads, of values and of slots.                   *)
Uses(inst) ==
  IF Observes(inst) THEN {}
  ELSE ({inst.a} \union (IF inst.op = "cbr" THEN {} ELSE {inst.b})
                 \union (IF inst.op = "call" THEN ToSet(inst.args) ELSE {})) \ {None}

(* A set of numbers in ascending order, as the scans of arrays meet them.  *)
Ascending(S) ==
  LET Below(x) == {y \in S : y < x}
  IN  [k \in 1 .. Cardinality(S) |-> CHOOSE x \in S : Cardinality(Below(x)) = k - 1]

LastDef(insts, v) ==
  LET defs == {i \in DOMAIN insts : insts[i].dst = v}
  IN  IF defs = {} THEN None ELSE Max(defs)
=============================================================================
