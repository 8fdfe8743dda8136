------------------------------- MODULE Mem2Reg -------------------------------
(***************************************************************************)
(* src/mem2reg.c: the variables of a function that nothing pins to memory  *)
(* become SSA values.  A function is its instructions, the number of value *)
(* ids in use and, for every debug variable, the slot it lives in.         *)
(* Widths and signedness are left out, and with them the floating point    *)
(* zero that stands for an undefined value on an edge: values are integers.*)
(***************************************************************************)
EXTENDS Phis

Width == 4

(* A pinned scalar gets the bytes that make the code generator lay it out. *)
GiveHome(fn, inst) ==
  IF inst.op = "alloca" /\ inst.dst \in Pinned(fn) /\ inst.imm = 0
  THEN [inst EXCEPT !.imm = Width] ELSE inst

GiveHomes(fn) == [fn EXCEPT !.insts = [i \in DOMAIN fn.insts |-> GiveHome(fn, fn.insts[i])]]

(* dbg_var_for_slot *)
VarsOf(fn, slot) == {var \in DOMAIN fn.vars : fn.vars[var] = slot}

(* What the passes below share: phis[slot] is where the slot has phis.     *)
Context(fn, want_debug) ==
  LET slots == PromotableSlots(fn)
  IN  [fn |-> fn, g |-> flowGraph, idom |-> tree.idom, slots |-> slots, debug |-> want_debug,
       phis |-> placement.phis]

PhiSlots(c, b) == SelectSeq(c.slots, LAMBDA s : b \in c.phis[s])

(* Phi results take fresh ids; in which order does not matter.             *)
PhiValue(c, s, b) ==
  c.fn.next + (b - 1) * Len(c.slots) + (CHOOSE n \in DOMAIN c.slots : c.slots[n] = s) - 1

(* Renaming walks the dominator tree with, for every slot, the value that  *)
(* reaches the current point on top of its stack; out keeps what reached   *)
(* the end of a block, the arguments of the phis that follow it.           *)
Marked(c, slot) == c.debug /\ VarsOf(c.fn, slot) # {}

RenameLoad(st, i, inst) ==
  [st EXCEPT !.insts[i] = IF st.top[inst.a] # None THEN Copy(inst.dst, st.top[inst.a])
                                                   ELSE Const(inst.dst, 0)]

RenameStore(c, st, i, inst) ==
  LET stored == [st EXCEPT !.top[inst.a] = inst.b]
  IN  IF Marked(c, inst.a)
      THEN [stored EXCEPT !.insts[i] = DbgValue(Min(VarsOf(c.fn, inst.a)), inst.b)]
      ELSE [stored EXCEPT !.dead = @ \union {i}]

RenameInst(c, st, i) ==
  LET inst == st.insts[i]
  IN  CASE inst.op = "load"  /\ inst.a \in ToSet(c.slots) -> RenameLoad(st, i, inst)
        [] inst.op = "store" /\ inst.a \in ToSet(c.slots) -> RenameStore(c, st, i, inst)
        [] OTHER -> st

PushPhis(c, st, b) ==
  [st EXCEPT !.top = [s \in DOMAIN @ |-> IF b \in c.phis[s] THEN PhiValue(c, s, b) ELSE @[s]]]

Span(block) == [k \in 1 .. block.end - block.start + 1 |-> block.start + k - 1]

(* Mutant: a sibling sees what the blocks visited before it pushed.        *)
PopNothing(before, after) == after

(* On the way back a block's own pushes are popped.                        *)
PopBlock(before, after) == [after EXCEPT !.top = before.top]

RECURSIVE RenameBlock(_, _, _)
RenameBlock(c, st, b) ==
  LET ended == FoldLeft(LAMBDA t, i : RenameInst(c, t, i),
                        PushPhis(c, st, b), Span(c.g.blocks[b]))
      below == FoldLeft(LAMBDA t, k : IF c.idom[k] = b THEN RenameBlock(c, t, k) ELSE t,
                        [ended EXCEPT !.out = @ @@ (b :> ended.top)],
                        [k \in Nodes(c.g) |-> k])
  IN  PopBlock(st, below)

Rename(c) ==
  RenameBlock(c,
    [insts |-> c.fn.insts,
     dead  |-> {i \in DOMAIN c.fn.insts : /\ c.fn.insts[i].op = "alloca"
                                          /\ c.fn.insts[i].dst \in ToSet(c.slots)},
     top   |-> [s \in ToSet(c.slots) |-> None],
     out   |-> <<>>],
    Entry)

(* Writeback: markers for the phis of a block, what is left of its body,   *)
(* the copies for the phis of its successors, its terminator.  A block     *)
(* that renaming did not reach has no phi arguments to copy.               *)

(* Mutant: only stores leave markers.                                      *)
PhiMarkersNone(c, b) == <<>>

PhiMarkers(c, b) ==
  LET marked == SelectSeq(PhiSlots(c, b), LAMBDA s : Marked(c, s))
  IN  [n \in DOMAIN marked |-> DbgValue(Min(VarsOf(c.fn, marked[n])), PhiValue(c, marked[n], b))]

EdgeCopies(c, st, b, s) ==
  LET slots == PhiSlots(c, s)
  IN  [n \in DOMAIN slots |->
        Copy(PhiValue(c, slots[n], s),
             IF st.out[b][slots[n]] = None THEN 0 ELSE st.out[b][slots[n]])]

PhiCopies(c, st, b) ==
  IF b \notin DOMAIN st.out THEN <<>>
  ELSE FlattenSeq([n \in DOMAIN c.g.succs[b] |-> EdgeCopies(c, st, b, c.g.succs[b][n])])

BlockOut(c, st, b) ==
  LET kept  == SelectSeq(Span(c.g.blocks[b]), LAMBDA i : i \notin st.dead)
      Is(i) == st.insts[i].op \in Terminators
      body  == SelectSeq(kept, LAMBDA i : ~ Is(i))
      term  == SelectSeq(kept, Is)
  IN  PhiMarkers(c, b) \o [n \in DOMAIN body |-> st.insts[body[n]]]
      \o PhiCopies(c, st, b) \o [n \in DOMAIN term |-> st.insts[term[n]]]

Promote(c) ==
  LET st == Rename(c)
  IN  [c.fn EXCEPT !.insts = FlattenSeq([b \in Nodes(c.g) |-> BlockOut(c, st, b)]),
                   !.next  = @ + Len(c.slots) * Cardinality(Nodes(c.g))]

Promotable(fn) == PromotableSlots(fn) # <<>>

(* The first half of opt_mem2reg: the graph and its tree, and, if there is *)
(* something to promote, the phis.                                         *)
BuildTree(fn) == Phase("idle") /\ Build(Graph(fn.insts)) /\ UNCHANGED placement

Prepare(fn) ==
  \/ BuildStep /\ UNCHANGED placement
  \/ /\ Promotable(fn)
     /\ LET slots == PromotableSlots(fn)
        IN  PlacePhis(slots, [s \in ToSet(slots) |-> StoreBlocks(fn, flowGraph, s)])
     /\ UNCHANGED domVars
  \/ PlaceStep /\ UNCHANGED domVars

PromotionReady(fn) == IF Promotable(fn) THEN Placing("placed") ELSE Phase("built")

Unprepared    == Unbuilt /\ placement = Unplaced
FreePromotion == FreeTree /\ placement' = Unplaced

OptMem2Reg(fn, want_debug) ==
  IF Promotable(fn) THEN Promote(Context(GiveHomes(fn), want_debug)) ELSE GiveHomes(fn)
=============================================================================
