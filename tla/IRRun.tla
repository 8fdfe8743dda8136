-------------------------------- MODULE IRRun --------------------------------
(***************************************************************************)
(* What the instructions of the IR mean: a run of a function has a place   *)
(* in it, the contents of its slots and its values.  The code generators   *)
(* give the instructions their meaning; here it is that of src/cg64.c,     *)
(* taken before any register is chosen.                                    *)
(***************************************************************************)
EXTENDS IR

Data    == {0, 1}
Undef   == -2     \* no datum
Address == 8      \* of a slot: which slot makes no difference here

Start(f) == [pc |-> 1, mem |-> [s \in 0 .. f.next - 1 |-> Undef],
                       val |-> [v \in 0 .. f.next - 1 |-> Undef]]

OpAt(f, m) == IF m.pc \in DOMAIN f.insts THEN f.insts[m.pc].op ELSE "end"

Observable == {"call", "cbr", "table", "jmp_ptr", "return", "end"}
Stopped(f, m) == OpAt(f, m) \in Observable

(* The instruction after label l.                                          *)
LabelPc(f, l) == CHOOSE i \in DOMAIN f.insts : f.insts[i].op = "label" /\ f.insts[i].imm = l

Advance(m) == [m EXCEPT !.pc = @ + 1]

Silent(f, m) ==
  LET inst == f.insts[m.pc]
  IN  CASE inst.op = "br"    -> [m EXCEPT !.pc = LabelPc(f, inst.imm)]
        [] inst.op = "load"  -> Advance([m EXCEPT !.val[inst.dst] = m.mem[inst.a]])
        [] inst.op = "store" -> Advance([m EXCEPT !.mem[inst.a] = m.val[inst.b]])
        [] inst.op = "copy"  -> Advance([m EXCEPT !.val[inst.dst] = m.val[inst.a]])
        [] inst.op = "const" -> Advance([m EXCEPT !.val[inst.dst] = inst.imm])
        [] inst.op = "addr"  -> Advance([m EXCEPT !.val[inst.dst] = Address])
        [] OTHER             -> Advance(m)

(* Where a branch goes: cbr to imm unless its operand is 0; a table to the *)
(* entry its operand selects, to imm beyond the table.                     *)
BranchLabel(inst, v) ==
  CASE inst.op = "cbr"   -> IF v # 0 THEN inst.imm ELSE inst.b
    [] inst.op = "table" -> IF v + 1 \in DOMAIN inst.args THEN inst.args[v + 1] ELSE inst.imm

Branch(f, m) ==
  LET inst == f.insts[m.pc]
  IN  [m EXCEPT !.pc = LabelPc(f, BranchLabel(inst, m.val[inst.a]))]

Returned(f, m, r) ==
  LET inst == f.insts[m.pc]
  IN  Advance(IF inst.dst = None THEN m ELSE [m EXCEPT !.val[inst.dst] = r])
=============================================================================
