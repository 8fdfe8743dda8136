------------------------------- MODULE RegAlloc -------------------------------
(***************************************************************************)
(* src/regalloc.c for one class of registers, that of the integers, up to  *)
(* greedy_color: which values live where, the colours that a value may not *)
(* have, the interference graph, and the order in which values get their   *)
(* colours.  A step is a turn of one of its loops.  What the x86 code      *)
(* generator needs for folded addresses (addr_fold_extras) is left out:    *)
(* the IR of the model has no pointer arithmetic.                          *)
(***************************************************************************)
EXTENDS Colouring

VARIABLES
  cfg,    \* the blocks of code, first and last instruction, and their successors
  flow,   \* what each block needs at its start, the next block, has this pass changed it
  walk,   \* a walk over the code: where it is, and what lives after that or what changed
  search  \* the lists of values by weight, from which they are picked

regAllocVars == <<allVars, cfg, flow, walk, search>>

Defines(inst) == {inst.dst} \intersect Values(code)
Reading(inst) == Uses(inst) \intersect Values(code)

InBlock(b) == cfg.blocks[b].start .. cfg.blocks[b].end

-----------------------------------------------------------------------------
(* compute_use_def: what instructions i to j set, and what they read       *)
(* before they set it.                                                     *)
SetIn(i, j)  == {code.insts[k].dst : k \in i .. j}
ReadIn(i, j) == UNION {Reading(code.insts[k]) \ SetIn(i, k - 1) : k \in i .. j}

Exposed(b) == ReadIn(cfg.blocks[b].start, cfg.blocks[b].end)

LiveOut(b) == UNION {flow.in[s] : s \in ToSet(cfg.succs[b])}
LiveIn(b)  ==
  Exposed(b) \union (LiveOut(b) \ SetIn(cfg.blocks[b].start, cfg.blocks[b].end))

Unexplored == [in |-> [b \in DOMAIN cfg.blocks |-> {}], at |-> Len(cfg.blocks), changed |-> FALSE]

(* compute_live_in_out: the blocks from the last to the first, until a     *)
(* pass changes nothing.                                                   *)
FlowThrough ==
  /\ stage = "liveness" /\ flow.at # 0
  /\ LET needs == LiveIn(flow.at)
     IN  flow' = [in |-> [flow.in EXCEPT ![flow.at] = needs],
                  at |-> flow.at - 1,
                  changed |-> flow.changed \/ needs # flow.in[flow.at]]
  /\ UNCHANGED <<allVars, cfg, walk, search>>

(* Mutant: what one pass changed counts as changed by the next one too.    *)
FlowAgainChanged ==
  /\ stage = "liveness" /\ flow.at = 0 /\ flow.changed
  /\ flow' = [flow EXCEPT !.at = Len(cfg.blocks)]
  /\ UNCHANGED <<allVars, cfg, walk, search>>

FlowAgain ==
  /\ stage = "liveness" /\ flow.at = 0 /\ flow.changed
  /\ flow' = [flow EXCEPT !.at = Len(cfg.blocks), !.changed = FALSE]
  /\ UNCHANGED <<allVars, cfg, walk, search>>

-----------------------------------------------------------------------------
(* build_interf_graph_cfg walks back over each block, from what lives at   *)
(* its end.  A copy, which may be one of several that set the same value,  *)
(* leaves its result alive.                                                *)
Before(inst, live) ==
  (IF inst.op = "copy" THEN live ELSE live \ Defines(inst)) \union Reading(inst)

Over == [block |-> 0, at |-> 0, live |-> {}]

EndOf(b) ==
  IF b \in DOMAIN cfg.blocks
  THEN [block |-> b, at |-> cfg.blocks[b].end, live |-> LiveOut(b)] ELSE Over

There == code.insts[walk.at]

Back ==
  IF walk.at = cfg.blocks[walk.block].start THEN EndOf(walk.block + 1)
  ELSE [walk EXCEPT !.at = @ - 1, !.live = Before(There, @)]

FlowDone ==
  /\ stage = "liveness" /\ flow.at = 0 /\ ~ flow.changed
  /\ stage' = "barring" /\ walk' = EndOf(1)
  /\ UNCHANGED <<code, ra, run, mach, moves, graph, colouring, cfg, flow, search>>

(* Mutant: the arguments of a call may stay where it overwrites them.      *)
AcrossUnlessRead == walk.live \ (Defines(There) \union Reading(There))

(* What lives over a call, and may not be where the call overwrites it.    *)
Across == walk.live \ Defines(There)

(* Pass 1.                                                                 *)
Bar(S) == [v \in DOMAIN graph.forbidden |->
             graph.forbidden[v] \union (IF v \in S THEN CallerColours ELSE {})]

BarOverCall ==
  /\ stage = "barring" /\ walk.at # 0
  /\ graph' = IF There.op = "call" THEN [graph EXCEPT !.forbidden = Bar(Across)] ELSE graph
  /\ walk' = Back
  /\ UNCHANGED <<stage, code, ra, run, mach, moves, colouring, cfg, flow, search>>

FromStart == [at |-> 1, changed |-> FALSE]

Barred ==
  /\ stage = "barring" /\ walk.at = 0
  /\ stage' = "spreading" /\ walk' = FromStart
  /\ UNCHANGED <<code, ra, run, mach, moves, graph, colouring, cfg, flow, search>>

(* Pass 1b, at -O1: the two sides of a copy bar the same colours.          *)
Spread ==
  /\ stage = "spreading" /\ walk.at <= Len(code.insts)
  /\ LET inst == There
         both == graph.forbidden[inst.dst] \union graph.forbidden[inst.a]
     IN  IF inst.op = "copy" /\ {inst.dst, inst.a} \subseteq Values(code)
         THEN /\ graph' = [graph EXCEPT !.forbidden[inst.dst] = both, !.forbidden[inst.a] = both]
              /\ walk' = [at |-> walk.at + 1, changed |-> walk.changed \/ graph' # graph]
         ELSE graph' = graph /\ walk' = [walk EXCEPT !.at = @ + 1]
  /\ UNCHANGED <<stage, code, ra, run, mach, moves, colouring, cfg, flow, search>>

SpreadAgain ==
  /\ stage = "spreading" /\ walk.at > Len(code.insts) /\ walk.changed
  /\ walk' = FromStart
  /\ UNCHANGED <<allVars, cfg, flow, search>>

SpreadDone ==
  /\ stage = "spreading" /\ walk.at > Len(code.insts) /\ ~ walk.changed
  /\ stage' = "linking" /\ walk' = EndOf(1)
  /\ UNCHANGED <<code, ra, run, mach, moves, graph, colouring, cfg, flow, search>>

(* ig_add_edge, for v and each of ws that is not its neighbour yet.        *)
Link(adj, v, ws) ==
  LET new == ws \ ({v} \union ToSet(adj[v]))
  IN  [w \in DOMAIN adj |-> IF w = v THEN adj[v] \o Ascending(new)
                            ELSE IF w \in new THEN Append(adj[w], v) ELSE adj[w]]

(* Pass 2: what an instruction sets interferes with what lives after it.   *)
LinkLive ==
  /\ stage = "linking" /\ walk.at # 0
  /\ graph' = IF There.dst \in Values(code)
              THEN [graph EXCEPT !.adj = Link(@, There.dst, walk.live)] ELSE graph
  /\ walk' = Back
  /\ UNCHANGED <<stage, code, ra, run, mach, moves, colouring, cfg, flow, search>>

LiveLinked ==
  /\ stage = "linking" /\ walk.at = 0
  /\ stage' = "parameters" /\ walk' = [at |-> 1, other |-> 2]
  /\ UNCHANGED <<code, ra, run, mach, moves, graph, colouring, cfg, flow, search>>

(* Pass 2b: no two parameters share a home.                                *)
LinkParams ==
  /\ stage = "parameters" /\ walk.at \in Incoming
  /\ IF walk.other \in Incoming
     THEN /\ graph' = [graph EXCEPT !.adj = Link(@, ParamOf(walk.at), {ParamOf(walk.other)})]
          /\ walk' = [walk EXCEPT !.other = @ + 1]
     ELSE graph' = graph /\ walk' = [at |-> walk.at + 1, other |-> walk.at + 2]
  /\ UNCHANGED <<stage, code, ra, run, mach, moves, colouring, cfg, flow, search>>

-----------------------------------------------------------------------------
(* compute_mcs_order: maximum cardinality search, with a list of values    *)
(* for every weight.  A value that gains weight is put in front of its new *)
(* list and stays linked from the old one, but it has one link only: what  *)
(* came after it in the old list is cut off, and is found by the scan when *)
(* the lists run out.                                                      *)
AllLight ==
  [head   |-> [w \in 0 .. code.next |-> IF w = 0 THEN code.next - 1 ELSE None],
   lnk    |-> [v \in Values(code) |-> v - 1],
   weight |-> [v \in Values(code) |-> 0], max |-> 0, gain |-> <<>>]

ParamsLinked ==
  /\ stage = "parameters" /\ walk.at \notin Incoming
  /\ stage' = "ordering" /\ search' = AllLight
  /\ UNCHANGED <<code, ra, run, mach, moves, graph, colouring, cfg, flow, walk>>

Unpicked == Values(code) \ ToSet(graph.order)
Top == search.head[search.max]
Popped == [search EXCEPT !.head[search.max] = search.lnk[Top]]

(* What is picked first is coloured last; its neighbours gain weight.      *)
Pick(s, v) ==
  /\ graph' = [graph EXCEPT !.order = <<v>> \o @]
  /\ search' = [s EXCEPT !.gain = graph.adj[v]]

(* The first of the heaviest, unless it was picked or is heavier by now.   *)
PickNext ==
  /\ stage = "ordering" /\ search.gain = <<>> /\ Unpicked # {}
  /\ \/ Top = None /\ search.max > 0 /\ search' = [search EXCEPT !.max = @ - 1] /\ graph' = graph
     \/ Top = None /\ search.max = 0 /\ Pick(search, Min(Unpicked))
     \/ /\ Top # None
        /\ IF Top \in Unpicked /\ search.weight[Top] = search.max
           THEN Pick(Popped, Top) ELSE search' = Popped /\ graph' = graph
  /\ UNCHANGED <<stage, code, ra, run, mach, moves, colouring, cfg, flow, walk>>

GainWeight ==
  /\ stage = "ordering" /\ search.gain # <<>>
  /\ LET w      == Head(search.gain)
         weight == search.weight[w] + 1
         s      == [search EXCEPT !.gain = Tail(@)]
     IN  search' = IF w \notin Unpicked THEN s
                   ELSE [s EXCEPT !.weight[w] = weight, !.lnk[w] = s.head[weight],
                                  !.head[weight] = w, !.max = Max({@, weight})]
  /\ UNCHANGED <<allVars, cfg, flow, walk>>

Ordered ==
  /\ stage = "ordering" /\ search.gain = <<>> /\ Unpicked = {}
  /\ stage' = "colouring" /\ colouring' = Uncoloured(graph)
  /\ UNCHANGED <<code, ra, run, mach, moves, graph, cfg, flow, walk, search>>

Analyse == \/ FlowThrough \/ FlowAgain \/ FlowDone
           \/ BarOverCall \/ Barred \/ Spread \/ SpreadAgain \/ SpreadDone
           \/ LinkLive \/ LiveLinked \/ LinkParams \/ ParamsLinked \/ PickNext \/ GainWeight
           \/ Ordered

RegAllocStep == Analyse \/ (AllocStep /\ UNCHANGED <<cfg, flow, walk, search>>)

-----------------------------------------------------------------------------
(* What is known when the allocator begins: what the values cost, which of *)
(* them the code neither sets nor reads, and that no value naming a place  *)
(* in the frame is worth saving a register for.                            *)
NamesFrame(f, v) == \E i \in ToSet(f.insts) : i.op \in {"alloca", "addr"} /\ i.dst = v

Unlinked(f, cost) ==
  [adj       |-> [v \in Values(f) |-> <<>>],
   forbidden |-> [v \in Values(f) |-> IF NamesFrame(f, v) THEN Colours \ CallerColours ELSE {}],
   cost      |-> cost,
   unused    |-> Values(f) \ UNION {Uses(i) \union {i.dst} : i \in ToSet(f.insts)},
   order     |-> <<>>]

(* The blocks are those of the code: every instruction is in one, control  *)
(* comes in at the first and leaves at the last, for the start of a        *)
(* successor unless the jump is through a pointer.                         *)
GraphOf(f, g) ==
  /\ g.blocks \in Seq([start : Nat \ {0}, end : Nat]) /\ g.blocks # <<>>
  /\ g.succs \in [DOMAIN g.blocks -> Seq(DOMAIN g.blocks)]
  /\ \A i \in DOMAIN f.insts : \E b \in DOMAIN g.blocks :
       i \in g.blocks[b].start .. g.blocks[b].end
  /\ \A b \in DOMAIN g.blocks :
       /\ g.blocks[b].start <= g.blocks[b].end
       /\ \A i \in g.blocks[b].start .. g.blocks[b].end :
            /\ i \in DOMAIN f.insts
            /\ \A c \in DOMAIN g.blocks \ {b} : i \notin g.blocks[c].start .. g.blocks[c].end
            /\ i # g.blocks[b].start => f.insts[i].op # "label"
            /\ IF i # g.blocks[b].end THEN f.insts[i].op \notin Terminators
               ELSE f.insts[i].op = "jmp_ptr" \/
                    \A j \in Goes(f, i) : \E s \in ToSet(g.succs[b]) : g.blocks[s].start = j

(* A function that jumps through a pointer keeps its variables in memory   *)
(* (ir.c:1046): none of its blocks needs a value of another.               *)
JumpsCarryNothing ==
  (\E i \in ToSet(code.insts) : i.op = "jmp_ptr") =>
    \A b \in DOMAIN cfg.blocks : Exposed(b) \subseteq FrameSlots(code)

Prepared ==
  /\ WellFormed(code) /\ GraphOf(code, cfg) /\ JumpsCarryNothing

RegAllocInit ==
  /\ stage = "liveness" /\ Unstarted /\ Unallocated /\ Prepared
  /\ \E cost \in [Values(code) -> Nat] : graph = Unlinked(code, cost)
  /\ flow = Unexplored /\ walk = Over /\ search = AllLight /\ colouring = Uncoloured(Nobody)

RegAllocSpec == RegAllocInit /\ [][RegAllocStep]_regAllocVars

-----------------------------------------------------------------------------
(* What may be read after instruction i of block b, as far as the blocks   *)
(* that follow have told.                                                  *)
LiveAfter(b, i) ==
  ReadIn(i + 1, cfg.blocks[b].end) \union (LiveOut(b) \ SetIn(i + 1, cfg.blocks[b].end))

BlockOf(i) == CHOOSE b \in DOMAIN cfg.blocks : i \in InBlock(b)

Live == [i \in DOMAIN code.insts |-> LiveAfter(BlockOf(i), i)]

(* The allocator is given what it relies on; when values get their colours *)
(* it is known what may still be read, and interferes as it should; when   *)
(* they have them, no two that are needed at once share a register, none   *)
(* is where a call overwrites it, and every value has a home               *)
(* (regalloc.c:549-985, :1171-1267).                                       *)
HomesRight ==
  /\ stage = "liveness" /\ walk = Over /\ flow = Unexplored =>
       Prepared /\ graph.cost \in [Values(code) -> Nat]
  /\ stage = "colouring" /\ colouring.todo = graph.order =>
       Liveness(code, Live) /\ Interferes(code, Live, graph)
  /\ NeighboursApart
  /\ stage = "compiled" => Allocated(code, Live, ra)
=============================================================================
