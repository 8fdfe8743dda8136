------------------------------ MODULE SpillCosts ------------------------------
(***************************************************************************)
(* What it costs to spill a value: compute_spill_cost of src/regalloc.c.   *)
(***************************************************************************)
EXTENDS ScalarOpt

(* A block is taken to be in a loop when it branches back.                 *)
InLoop(g, b) == \E s \in ToSet(g.succs[b]) : s <= b

(* What a load gives, or a copy of a load, is 64 times as dear.            *)
FrameExtDepth == 6

RECURSIVE IsFrameExt(_, _, _)
IsFrameExt(insts, v, depth) ==
  LET d == LastDef(insts, v)
  IN  /\ depth > 0 /\ d # None
      /\ \/ insts[d].op = "load"
         \/ insts[d].op = "copy" /\ IsFrameExt(insts, insts[d].a, depth - 1)

SpillCost(insts, g, v) ==
  LET BlockOf(i) == CHOOSE b \in Nodes(g) : i \in g.blocks[b].start .. g.blocks[b].end
      Weight(i)  == IF InLoop(g, BlockOf(i)) THEN 11 ELSE 1
      Times(i)   == IF Observes(insts[i]) THEN 0
                    ELSE Len(SelectSeq(Reads(insts[i]), LAMBDA r : r = v))
      def  == LastDef(insts, v)
      uses == FoldLeft(LAMBDA sum, i : sum + Times(i) * Weight(i), 0, [i \in DOMAIN insts |-> i])
      cost == Max({1, uses + IF def = None THEN 0 ELSE Weight(def)})
  IN  IF IsFrameExt(insts, v, FrameExtDepth) THEN 64 * cost ELSE cost
=============================================================================
