----------------------------- MODULE Dominators ------------------------------
(***************************************************************************)
(* The dominator tree of a control flow graph: cfg_rpo of src/cfg.c, which *)
(* numbers the blocks, and src/domtree.c, which finds immediate dominators *)
(* by iteration to a fixpoint (Cooper, Harvey, Kennedy) and then dominance *)
(* frontiers, with the textbook definitions they are to agree with.  A     *)
(* step is a turn of one of their loops.                                   *)
(***************************************************************************)
EXTENDS ControlFlow

VARIABLES
  flowGraph,  \* the graph
  dfs,        \* cfg_rpo: the blocks seen, the stack, the blocks done in their order
  tree,       \* DomTree: the parents in the tree, and the frontiers
  turn        \* where the loops are: the phase and the block; of its predecessors, how many
              \* were met; the two fingers, or the runner; has this pass changed anything

domVars == <<flowGraph, dfs, tree, turn>>

AtEntry == [phase |-> "idle", at |-> Entry, met |-> 0, new |-> None, other |-> None,
            changed |-> FALSE]

NoGraph == [blocks |-> <<>>, succs |-> <<>>, preds |-> <<>>]
NoSearch == [seen |-> {}, stack |-> <<>>, post |-> <<>>]

NoTree == [idom |-> <<>>, df |-> <<>>]

Unbuilt == flowGraph = NoGraph /\ dfs = NoSearch /\ tree = NoTree /\ turn = AtEntry

(* domtree_free, cfg_free *)
FreeTree == flowGraph' = NoGraph /\ dfs' = NoSearch /\ tree' = NoTree /\ turn' = AtEntry

Phase(p) == turn.phase = p

(* domtree_build begins.  The entry is marked as processed.                *)
Build(g) ==
  /\ flowGraph' = g
  /\ dfs' = [seen |-> {Entry}, stack |-> <<Entry>>, post |-> <<>>]
  /\ tree' = [idom |-> [b \in Nodes(g) |-> IF b = Entry THEN Entry ELSE None],
              df   |-> [b \in Nodes(g) |-> {}]]
  /\ turn' = [AtEntry EXCEPT !.phase = "numbering"]

-----------------------------------------------------------------------------
(* cfg_rpo: depth first from the entry, a block is numbered when all its   *)
(* successors are; the numbers are then reversed.                          *)
Visit ==
  /\ Phase("numbering") /\ dfs.stack # <<>>
  /\ LET succs   == flowGraph.succs[Last(dfs.stack)]
         unseen  == {n \in DOMAIN succs : succs[n] \notin dfs.seen}
         next    == succs[Min(unseen)]
     IN  dfs' = IF unseen # {}
                THEN [dfs EXCEPT !.seen = @ \union {next}, !.stack = Append(@, next)]
                ELSE [dfs EXCEPT !.stack = Front(@), !.post = Append(@, Last(dfs.stack))]
  /\ UNCHANGED <<flowGraph, tree, turn>>

Unreached == 2147483647

Rpo(b) ==
  IF b \in ToSet(dfs.post) THEN Len(dfs.post) - (CHOOSE i \in DOMAIN dfs.post : dfs.post[i] = b)
                           ELSE Unreached

Numbered ==
  /\ Phase("numbering") /\ dfs.stack = <<>>
  /\ turn' = [turn EXCEPT !.phase = "meeting"]
  /\ UNCHANGED <<flowGraph, dfs, tree>>

-----------------------------------------------------------------------------
(* A pass over the blocks in the order of the code, not of their numbers.  *)
InPass(p)  == Phase(p) /\ turn.at \in Nodes(flowGraph)
PassOver(p) == Phase(p) /\ turn.at \notin Nodes(flowGraph)

PredsAt == flowGraph.preds[turn.at]
Processed(b) == tree.idom[b] # None
Ready == {n \in DOMAIN PredsAt : Processed(PredsAt[n])}

NextBlock == [turn EXCEPT !.at = @ + 1, !.met = 0, !.new = None, !.other = None]

Skip ==
  /\ InPass("meeting") /\ turn.new = None /\ (turn.at = Entry \/ Ready = {})
  /\ turn' = NextBlock
  /\ UNCHANGED <<flowGraph, dfs, tree>>

FirstGuess ==
  /\ InPass("meeting") /\ turn.new = None /\ turn.at # Entry /\ Ready # {}
  /\ LET p == PredsAt[Min(Ready)] IN turn' = [turn EXCEPT !.new = p, !.other = p]
  /\ UNCHANGED <<flowGraph, dfs, tree>>

Met == InPass("meeting") /\ turn.new # None /\ turn.new = turn.other

MeetPred ==
  /\ Met /\ turn.met < Len(PredsAt)
  /\ LET p == PredsAt[turn.met + 1]
     IN  turn' = [turn EXCEPT !.met = @ + 1, !.other = IF Processed(p) THEN p ELSE @]
  /\ UNCHANGED <<flowGraph, dfs, tree>>

(* Which of two fingers goes up: the one whose number is greater.          *)
Below(f, g) == Rpo(f) > Rpo(g)

(* The two fingers go up the tree until they meet.                         *)
Climb ==
  /\ InPass("meeting") /\ turn.new # turn.other
  /\ \/ Below(turn.new, turn.other) /\ turn' = [turn EXCEPT !.new = tree.idom[@]]
     \/ Below(turn.other, turn.new) /\ turn' = [turn EXCEPT !.other = tree.idom[@]]
  /\ UNCHANGED <<flowGraph, dfs, tree>>

SetIdom ==
  /\ Met /\ turn.met = Len(PredsAt)
  /\ tree' = [tree EXCEPT !.idom[turn.at] = turn.new]
  /\ turn' = [NextBlock EXCEPT !.changed = @ \/ tree' # tree]
  /\ UNCHANGED <<flowGraph, dfs>>

PassAgain ==
  /\ PassOver("meeting") /\ turn.changed
  /\ turn' = [AtEntry EXCEPT !.phase = "meeting"]
  /\ UNCHANGED <<flowGraph, dfs, tree>>

Settled ==
  /\ PassOver("meeting") /\ ~ turn.changed
  /\ tree' = [tree EXCEPT !.idom[Entry] = None]
  /\ turn' = [AtEntry EXCEPT !.phase = "running"]
  /\ UNCHANGED <<flowGraph, dfs>>

-----------------------------------------------------------------------------
(* The frontiers: from every predecessor of a block that has several, a    *)
(* runner goes up the tree to the parent of the block, or beyond the root. *)
Stopping == turn.new \in {None, tree.idom[turn.at]}

NextRunner ==
  /\ InPass("running") /\ Len(PredsAt) >= 2 /\ Stopping /\ turn.met < Len(PredsAt)
  /\ turn' = [turn EXCEPT !.met = @ + 1, !.new = PredsAt[turn.met + 1]]
  /\ UNCHANGED <<flowGraph, dfs, tree>>

(* Mutant: the runner takes one step only.                                 *)
AboveNothing(b) == None

Above(b) == tree.idom[b]

RunUp ==
  /\ InPass("running") /\ ~ Stopping
  /\ tree' = [tree EXCEPT !.df[turn.new] = @ \union {turn.at}]
  /\ turn' = [turn EXCEPT !.new = Above(@)]
  /\ UNCHANGED <<flowGraph, dfs>>

RunOver ==
  /\ InPass("running") /\ (Len(PredsAt) < 2 \/ (Stopping /\ turn.met = Len(PredsAt)))
  /\ turn' = NextBlock
  /\ UNCHANGED <<flowGraph, dfs, tree>>

Built ==
  /\ PassOver("running")
  /\ turn' = [turn EXCEPT !.phase = "built"]
  /\ UNCHANGED <<flowGraph, dfs, tree>>

BuildStep ==
  \/ Visit \/ Numbered
  \/ Skip \/ FirstGuess \/ MeetPred \/ Climb \/ SetIdom \/ PassAgain \/ Settled
  \/ NextRunner \/ RunUp \/ RunOver \/ Built

-----------------------------------------------------------------------------
(* What cfg_build gives: an edge is in the list of its source and in that  *)
(* of its target, once each.                                               *)
IsGraph(g) ==
  /\ g.blocks \in Seq([start : Nat, end : Nat]) /\ g.blocks # <<>>
  /\ g.succs \in [Nodes(g) -> Seq(Nodes(g))]
  /\ g.preds \in [Nodes(g) -> Seq(Nodes(g))]
  /\ \A a, b \in Nodes(g) : a \in ToSet(g.preds[b]) <=> b \in ToSet(g.succs[a])
  /\ \A b \in Nodes(g) : IsInjective(g.preds[b])

DomInit ==
  /\ IsGraph(flowGraph)
  /\ dfs = [seen |-> {Entry}, stack |-> <<Entry>>, post |-> <<>>]
  /\ tree = [idom |-> [b \in Nodes(flowGraph) |-> IF b = Entry THEN Entry ELSE None],
             df   |-> [b \in Nodes(flowGraph) |-> {}]]
  /\ turn = [AtEntry EXCEPT !.phase = "numbering"]

DomSpec == DomInit /\ [][BuildStep]_domVars

-----------------------------------------------------------------------------
(* Reference: what can be reached without passing a block of without, the  *)
(* least set that has the entry and is closed under the edges.             *)
Closed(g, S, without) == \A b \in S : ToSet(g.succs[b]) \ without \subseteq S

Reachable(g, without) ==
  {b \in Nodes(g) \ without :
     \A S \in SUBSET (Nodes(g) \ without) :
       {Entry} \ without \subseteq S /\ Closed(g, S, without) => b \in S}

(* a dominates b when no path from the entry reaches b once a is taken     *)
(* away.                                                                   *)
StrictlyDominates(g, a, b) == a # b /\ b \notin Reachable(g, {a})

Dominates(g, a, b) == a = b \/ StrictlyDominates(g, a, b)

IsIdom(g, a, b) ==
  /\ StrictlyDominates(g, a, b)
  /\ \A c \in Reachable(g, {}) : StrictlyDominates(g, c, b) => Dominates(g, c, a)

InFrontier(g, x, b) ==
  /\ \E p \in ToSet(g.preds[b]) \intersect Reachable(g, {}) : Dominates(g, x, p)
  /\ ~ StrictlyDominates(g, x, b)

(* domtree_build computes immediate dominators and, for the blocks that    *)
(* can be reached, dominance frontiers as the textbook defines them, on    *)
(* irreducible graphs and with unreachable predecessors too                *)
(* (domtree.c:11-113).  The one exception is a join it does not take for   *)
(* one: the entry, when a single block jumps back to it (domtree.c:94).    *)
DominatorsRight ==
  turn.phase = "built" =>
    LET g     == flowGraph
        reach == Reachable(g, {})
    IN  /\ \A b \in Nodes(g) : IF b \in reach \ {Entry} THEN IsIdom(g, tree.idom[b], b)
                                                        ELSE tree.idom[b] = None
        /\ \A x, b \in reach : b # Entry \/ Len(g.preds[b]) # 1 =>
             (b \in tree.df[x] <=> InFrontier(g, x, b))
=============================================================================
