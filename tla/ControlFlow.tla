----------------------------- MODULE ControlFlow -----------------------------
(***************************************************************************)
(* The control flow graph of a function, src/cfg.c.  Blocks are numbered   *)
(* from 1 here, and from 0 in the code.                                    *)
(***************************************************************************)
EXTENDS IR

(* Blocks begin at the first instruction, at labels and after terminators. *)
Starts(insts) ==
  {1} \union {i \in 2 .. Len(insts) : \/ insts[i].op = "label"
                                      \/ insts[i - 1].op \in Terminators}

Blocks(insts) ==
  LET starts == Ascending(Starts(insts))
  IN  [k \in DOMAIN starts |->
        [start |-> starts[k],
         end   |-> IF k = Len(starts) THEN Len(insts) ELSE starts[k + 1] - 1]]

LabelOf(insts, block) ==
  IF insts # <<>> /\ insts[block.start].op = "label" THEN insts[block.start].imm ELSE None

FindLabel(insts, blocks, l) == {k \in DOMAIN blocks : LabelOf(insts, blocks[k]) = l}

(* The labels that a terminator names; the targets of an indirect jump are *)
(* not known.                                                              *)
TargetLabels(inst) ==
  CASE inst.op = "br"    -> <<inst.imm>>
    [] inst.op = "cbr"   -> <<inst.imm, inst.b>>
    [] inst.op = "table" -> <<inst.imm>> \o inst.args
    [] OTHER             -> <<>>

(* Where block k can go, in the order in which the code links it: an edge  *)
(* is there once, where it was linked first (cfg_link), and a label that   *)
(* no block has is not linked.                                             *)
Successors(insts, blocks, k) ==
  LET last   == insts[blocks[k].end]
      labels == TargetLabels(last)
      At(n)  == FindLabel(insts, blocks, labels[n])
      linked == Ascending({n \in DOMAIN labels : At(n) # {} /\ \A m \in 1 .. n - 1 : At(m) # At(n)})
  IN  IF insts # <<>> /\ last.op \in Terminators
      THEN [n \in DOMAIN linked |-> Min(At(linked[n]))]
      ELSE IF k + 1 \in DOMAIN blocks THEN <<k + 1>> ELSE <<>>

Graph(insts) ==
  LET blocks == Blocks(insts)
      succs  == [k \in DOMAIN blocks |-> Successors(insts, blocks, k)]
  IN  [blocks |-> blocks, succs |-> succs,
       preds |-> [k \in DOMAIN blocks |-> Ascending({p \in DOMAIN blocks : k \in ToSet(succs[p])})]]

Nodes(g) == DOMAIN g.blocks
Entry    == 1
=============================================================================
