------------------------------- MODULE Backend -------------------------------
(***************************************************************************)
(* The arm64 back end at -O1: a function is optimised, its values get      *)
(* their homes, and the code generator takes it from there.                *)
(***************************************************************************)
EXTENDS RegAlloc, SpillCosts

CONSTANT Functions  \* the functions that are compiled

backendVars == <<regAllocVars, promotionVars>>

Init ==
  /\ stage = "parsed" /\ code \in Functions
  /\ Unallocated /\ Unstarted
  /\ graph = Nobody /\ colouring = Uncoloured(Nobody)
  /\ cfg = NoGraph /\ flow = Unexplored /\ walk = Over /\ search = <<>>
  /\ Unprepared

StartPromotion   == stage = "parsed" /\ BuildTree(code) /\ UNCHANGED regAllocVars
PreparePromotion == stage = "parsed" /\ Prepare(code) /\ UNCHANGED regAllocVars

Compile ==
  /\ stage = "parsed" /\ PromotionReady(code)
  /\ code' = Opt(code, FALSE) /\ FreePromotion
  /\ cfg' = Graph(code'.insts)
  /\ graph' = Unlinked(code', [v \in Values(code') |-> SpillCost(code'.insts, cfg', v)])
  /\ flow' = Unexplored'
  /\ search' = AllLight'
  /\ stage' = "liveness"
  /\ UNCHANGED <<ra, run, mach, moves, colouring, walk>>

Next ==
  \/ StartPromotion \/ PreparePromotion \/ Compile
  \/ (RegAllocStep /\ UNCHANGED promotionVars)

(* The loops of the compiler go on until they end.                         *)
CompilerLoops ==
  \/ PreparePromotion
  \/ /\ \/ Analyse
        \/ ((Colour \/ Coloured) /\ UNCHANGED <<cfg, flow, walk, search>>)
        \/ (Shuffle /\ UNCHANGED <<graph, colouring, cfg, flow, walk, search>>)
     /\ UNCHANGED promotionVars

Spec == Init /\ [][Next]_backendVars /\ WF_backendVars(CompilerLoops)

-----------------------------------------------------------------------------
InCompilerLoop ==
  \/ stage = "parsed" /\ ~ Phase("idle") /\ ~ PromotionReady(code)
  \/ stage \notin {"parsed", "compiled", "running", "returned"}

(* The loops that find the dominators, place phis, find what lives, spread *)
(* what is barred and order the values end, and so do those that order the *)
(* moves, whatever cycles they meet (cfg.c:172-193, domtree.c:34-75,       *)
(* :92-112, mem2reg.c:85-107, regalloc.c:630-672, :803-833, :1020-1072,    *)
(* cg64.c:3824-3837, :5136-5191): a compilation does not hang.             *)
LoopsEnd == InCompilerLoop ~> ~ InCompilerLoop
=============================================================================
