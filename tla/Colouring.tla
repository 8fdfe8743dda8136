------------------------------ MODULE Colouring -------------------------------
(***************************************************************************)
(* greedy_color of src/regalloc.c, one value a step: a value gets a colour *)
(* or a spill slot of its own, and may take the colour of a neighbour that *)
(* is cheaper to spill.  When all values have their homes the code         *)
(* generator takes over.                                                   *)
(***************************************************************************)
EXTENDS CodeGen

VARIABLES
  graph,     \* what is to be coloured: adj, the neighbours of each value; the
             \* colours forbidden to it; its cost; the unused values; the order
  colouring  \* the colour and the slot of each value, the next slot, the values left

allVars == <<stage, code, ra, run, mach, moves, graph, colouring>>

Uncoloured(g) ==
  [colour |-> [v \in DOMAIN g.adj |-> None], slot |-> [v \in DOMAIN g.adj |-> None],
   next |-> 0, todo |-> g.order]

Nobody == [adj |-> <<>>, forbidden |-> <<>>, cost |-> <<>>, unused |-> {}, order |-> <<>>]

Unallocated == ra = [reg |-> <<>>, slot |-> <<>>]

-----------------------------------------------------------------------------
Current == Head(colouring.todo)
Neighbours(v) == ToSet(graph.adj[v])

Free(v) == Colours \ (graph.forbidden[v] \union {colouring.colour[w] : w \in Neighbours(v)})

(* Where v's neighbours list one that v can take the colour from: v may    *)
(* have the colour, and no other neighbour has it too.                     *)
Holders(v, c) == {w \in Neighbours(v) : colouring.colour[w] = c}

VictimPlaces(v) ==
  {n \in DOMAIN graph.adj[v] :
     LET c == colouring.colour[graph.adj[v][n]]
     IN  c # None /\ c \notin graph.forbidden[v] /\ Cardinality(Holders(v, c)) = 1}

CostAt(v, n) == graph.cost[graph.adj[v][n]]

(* The cheapest of them, the first of several.                             *)
Victim(v) ==
  graph.adj[v][Min({n \in VictimPlaces(v) :
                      \A k \in VictimPlaces(v) : CostAt(v, n) <= CostAt(v, k)})]

Evicts(v) == VictimPlaces(v) # {} /\ graph.cost[Victim(v)] < graph.cost[v]

Spill(s, v) == [s EXCEPT !.colour[v] = None, !.slot[v] = s.next, !.next = @ + 1]

(* Mutant: the victim is not given a slot.                                 *)
TakeOverOnly(s, v, victim) == [s EXCEPT !.colour[v] = s.colour[victim], !.colour[victim] = None]

TakeOver(s, v, victim) == [Spill(s, victim) EXCEPT !.colour[v] = s.colour[victim]]

(* The next value, for which s is a state with one value less to colour.   *)
Colour ==
  /\ stage = "colouring" /\ colouring.todo # <<>>
  /\ LET v == Current
         s == [colouring EXCEPT !.todo = Tail(@)]
     IN  \/ /\ v \notin graph.unused /\ Free(v) # {}
            /\ colouring' = [s EXCEPT !.colour[v] = Min(Free(v))]
         \/ /\ v \notin graph.unused /\ Free(v) = {} /\ Evicts(v)
            /\ colouring' = TakeOver(s, v, Victim(v))
         \/ /\ v \in graph.unused \/ (Free(v) = {} /\ ~ Evicts(v))
            /\ colouring' = Spill(s, v)
  /\ UNCHANGED <<stage, code, ra, run, mach, moves, graph>>

(* ra_alloc_class: colours become registers.                               *)
Coloured ==
  /\ stage = "colouring" /\ colouring.todo = <<>>
  /\ ra' = [reg  |-> [v \in Values(code) |->
                        IF colouring.colour[v] = None THEN None ELSE Palette[colouring.colour[v]]],
            slot |-> colouring.slot]
  /\ stage' = "compiled"
  /\ UNCHANGED <<code, run, mach, moves, graph, colouring>>

AllocStep == Colour \/ Coloured \/ (Run /\ UNCHANGED <<graph, colouring>>)

-----------------------------------------------------------------------------
(* What the colouring relies on: what an instruction sets is a neighbour   *)
(* of what lives on, parameters are neighbours, and what lives over a call *)
(* may have no colour that the call overwrites.                            *)
Interferes(f, live, g) ==
  /\ g.adj \in [Values(f) -> Seq(Values(f))]
  /\ \A v \in Values(f) : \A w \in ToSet(g.adj[v]) : w # v /\ v \in ToSet(g.adj[w])
  /\ g.forbidden \in [Values(f) -> SUBSET Colours] /\ g.cost \in [Values(f) -> Nat]
  /\ g.order \in Seq(Values(f)) /\ IsInjective(g.order) /\ ToSet(g.order) = Values(f)
  /\ \A i \in DOMAIN f.insts :
       LET inst == f.insts[i]
           rest == live[i] \ ({inst.dst} \union FrameSlots(f))
       IN  /\ SetsValue(inst) => rest \subseteq ToSet(g.adj[inst.dst])
           /\ inst.op = "call" => \A v \in rest : CallerColours \subseteq g.forbidden[v]
           /\ inst.op = "param" =>
                \A j \in 1 .. i - 1 : f.insts[j].dst \in ToSet(g.adj[inst.dst])

(* The allocation of any function, and the code made from it.              *)
AllocInit ==
  /\ stage = "colouring" /\ Unstarted /\ Unallocated
  /\ WellFormed(code)
  /\ \E live : Liveness(code, live) /\ Interferes(code, live, graph)
  /\ colouring = Uncoloured(graph)

AllocSpec == AllocInit /\ [][AllocStep]_allVars

-----------------------------------------------------------------------------
(* While values are being coloured: neighbours have different registers,   *)
(* nobody has a register that a call would overwrite under it, and nobody  *)
(* loses its home to an eviction (regalloc.c:1182-1267).                   *)
NeighboursApart ==
  stage = "colouring" =>
    \A v \in DOMAIN graph.adj :
      /\ colouring.colour[v] \notin graph.forbidden[v]
      /\ colouring.colour[v] # None =>
           \A w \in Neighbours(v) : colouring.colour[w] # colouring.colour[v]
      /\ v \in ToSet(colouring.todo) \/ (colouring.colour[v] = None <=> colouring.slot[v] # None)
=============================================================================
