-------------------------------- MODULE Phis ---------------------------------
(***************************************************************************)
(* Where the promotion of src/mem2reg.c puts phis: the variables that      *)
(* nothing pins to memory, the blocks that store to them, and for one      *)
(* after the other the worklist over the dominance frontiers               *)
(* (mem2reg_place_phis).  A step is a turn of one of its loops.            *)
(***************************************************************************)
EXTENDS Dominators

VARIABLE placement  \* the slots to promote and where each is stored to; which slot it is
                    \* the turn of; its worklist, the blocks that define it, the phis so far

promotionVars == <<domVars, placement>>

(* Mutant: only the size of a slot pins it.                                *)
PinnedBySize(fn) ==
  {inst.dst : inst \in {i \in ToSet(fn.insts) : i.op = "alloca" /\ i.imm > 0}}

Pinned(fn) ==
  {inst.dst : inst \in {i \in ToSet(fn.insts) : i.op = "alloca" /\ i.imm > 0}}
  \union {inst.a : inst \in {i \in ToSet(fn.insts) : i.op = "addr"}}

PromotableSlots(fn) ==
  LET pinned == Pinned(fn)
      free   == SelectSeq(fn.insts, LAMBDA i : i.op = "alloca" /\ i.dst \notin pinned)
  IN  [n \in DOMAIN free |-> free[n].dst]

StoreBlocks(fn, g, slot) ==
  {b \in Nodes(g) : \E i \in g.blocks[b].start .. g.blocks[b].end :
                      fn.insts[i].op = "store" /\ fn.insts[i].a = slot}

-----------------------------------------------------------------------------
Placing(p) == placement.phase = p

Unplaced ==
  [phase |-> "idle", slots |-> <<>>, stores |-> <<>>, turn |-> 1, work |-> <<>>, defs |-> {},
   phis |-> <<>>]

PlacePhis(slots, stores) ==
  /\ Phase("built") /\ Placing("idle")
  /\ placement' = [Unplaced EXCEPT !.phase = "seeding", !.slots = slots, !.stores = stores,
                                   !.phis = [s \in ToSet(slots) |-> {}]]

Slot == placement.slots[placement.turn]

Seed ==
  /\ Placing("seeding") /\ placement.turn \in DOMAIN placement.slots
  /\ placement' = [placement EXCEPT !.phase = "spreading", !.defs = placement.stores[Slot],
                                    !.work = Ascending(placement.stores[Slot])]

(* Mutant: a block with a phi does not have its own frontier looked at.    *)
NoNewWork(new) == Front(placement.work)

(* A block with a phi is a definition too: its frontier needs phis.        *)
NewWork(new) == Front(placement.work) \o Ascending(new \ placement.defs)

PlaceInFrontier ==
  /\ Placing("spreading") /\ placement.work # <<>>
  /\ LET new == tree.df[Last(placement.work)] \ placement.phis[Slot]
     IN  placement' = [placement EXCEPT !.phis[Slot] = @ \union new,
                                        !.defs = @ \union new, !.work = NewWork(new)]

NextSlot ==
  /\ Placing("spreading") /\ placement.work = <<>>
  /\ placement' = [placement EXCEPT !.phase = "seeding", !.turn = @ + 1]

AllPlaced ==
  /\ Placing("seeding") /\ placement.turn \notin DOMAIN placement.slots
  /\ placement' = [placement EXCEPT !.phase = "placed"]

PlaceStep == Seed \/ PlaceInFrontier \/ NextSlot \/ AllPlaced

PhiInit == DomInit /\ placement = Unplaced

PhiStep ==
  \/ BuildStep /\ UNCHANGED placement
  \/ PlaceStep /\ UNCHANGED domVars
  \/ /\ \E slots \in Seq(Int) : \E stores \in [ToSet(slots) -> SUBSET Nodes(flowGraph)] :
          PlacePhis(slots, stores)
     /\ UNCHANGED domVars

PhiSpec == PhiInit /\ [][PhiStep]_promotionVars

-----------------------------------------------------------------------------
(* The blocks to whose end the value comes that block x leaves in a slot,  *)
(* past no other block that defines the slot.                              *)
Onward(g, x, defs) ==
  {c \in Nodes(g) : \A S \in SUBSET Nodes(g) : x \in S /\ Closed(g, S, defs) => c \in S}

(* Where the value that a block leaves in a variable arrives, either there *)
(* is a phi, or the block dominates the place: the renaming, which goes    *)
(* down the dominator tree, then has the value that control brings there   *)
(* (mem2reg.c:43-114, :349-438).  Not so when one block jumps back to the  *)
(* entry, which then has no frontier to be in (domtree.c:94).              *)
PhisWhereNeeded ==
  Placing("placed") /\ Len(flowGraph.preds[Entry]) # 1 =>
    \A s \in ToSet(placement.slots) :
      LET defs == placement.stores[s] \union placement.phis[s]
      IN  \A x \in defs \intersect Reachable(flowGraph, {}) :
            \A c \in Onward(flowGraph, x, defs) : \A b \in ToSet(flowGraph.succs[c]) :
              b \in placement.phis[s] \/ StrictlyDominates(flowGraph, x, b)

(* What the renaming relies on.                                            *)
ReadyToRename == DominatorsRight /\ PhisWhereNeeded
=============================================================================
