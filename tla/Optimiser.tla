------------------------------ MODULE Optimiser ------------------------------
(***************************************************************************)
(* The optimiser at -O1 -g, and the program that it compiles: a function   *)
(* is optimised, and then the code before and after run side by side on    *)
(* the same data.  Calls, branches, indirect jumps and returns are what a  *)
(* run can be observed by; there both must be at the same point, the rest  *)
(* each does on its own.                                                   *)
(***************************************************************************)
EXTENDS ScalarOpt, IRRun

CONSTANT Functions  \* the functions that are compiled

VARIABLES
  stage,  \* "parsed", "compiled", "running", "returned"
  fn,     \* the function as src/ir.c made it
  code,   \* as the optimiser left it
  src,    \* the run of fn: where it is, its slots, its values
  tgt     \* the run of code

vars == <<stage, fn, code, src, tgt, promotionVars>>

-----------------------------------------------------------------------------
Init ==
  /\ stage = "parsed" /\ fn \in Functions /\ code = fn
  /\ src = Start(fn) /\ tgt = Start(fn) /\ Unprepared

StartPromotion   == stage = "parsed" /\ BuildTree(fn) /\ UNCHANGED <<stage, fn, code, src, tgt>>
PreparePromotion == stage = "parsed" /\ Prepare(fn) /\ UNCHANGED <<stage, fn, code, src, tgt>>

Optimise ==
  /\ stage = "parsed" /\ PromotionReady(fn)
  /\ code' = Opt(fn, TRUE) /\ FreePromotion
  /\ stage' = "compiled"
  /\ UNCHANGED <<fn, src, tgt>>

Enter ==
  /\ stage = "compiled"
  /\ tgt' = Start(code)
  /\ stage' = "running"
  /\ UNCHANGED <<fn, code, src, promotionVars>>

SourceStep ==
  /\ stage = "running" /\ ~ Stopped(fn, src)
  /\ src' = Silent(fn, src)
  /\ UNCHANGED <<stage, fn, code, tgt, promotionVars>>

TargetStep ==
  /\ stage = "running" /\ Stopped(fn, src) /\ ~ Stopped(code, tgt)
  /\ tgt' = Silent(code, tgt)
  /\ UNCHANGED <<stage, fn, code, src, promotionVars>>

Together == stage = "running" /\ Stopped(fn, src) /\ OpAt(fn, src) = OpAt(code, tgt)

CallStep ==
  /\ Together /\ OpAt(fn, src) = "call"
  /\ \E r \in IF fn.insts[src.pc].dst = None THEN {0} ELSE Data :
       src' = Returned(fn, src, r) /\ tgt' = Returned(code, tgt, r)
  /\ UNCHANGED <<stage, fn, code, promotionVars>>

(* A branch on a value the program never set has no meaning to keep.       *)
BranchStep ==
  /\ Together /\ OpAt(fn, src) \in {"cbr", "table"}
  /\ src.val[fn.insts[src.pc].a] # Undef
  /\ src' = Branch(fn, src) /\ tgt' = Branch(code, tgt)
  /\ UNCHANGED <<stage, fn, code, promotionVars>>

JumpStep ==
  /\ Together /\ OpAt(fn, src) = "jmp_ptr"
  /\ \E i \in {j \in DOMAIN fn.insts : fn.insts[j].op = "label"} :
       LET l == fn.insts[i].imm
       IN  /\ src' = [src EXCEPT !.pc = LabelPc(fn, l)]
           /\ tgt' = [tgt EXCEPT !.pc = LabelPc(code, l)]
  /\ UNCHANGED <<stage, fn, code, promotionVars>>

ReturnStep ==
  /\ Together /\ OpAt(fn, src) = "return"
  /\ stage' = "returned"
  /\ UNCHANGED <<fn, code, src, tgt, promotionVars>>

Next ==
  \/ StartPromotion \/ PreparePromotion \/ Optimise \/ Enter \/ SourceStep \/ TargetStep
  \/ CallStep \/ BranchStep \/ JumpStep \/ ReturnStep

Spec == Init /\ [][Next]_vars

-----------------------------------------------------------------------------
Ids(f) == {None} \union 0 .. f.next - 1

(* Shapes: optimised code names only values and slots that it has, every   *)
(* address taken (ADDR) is of a slot with room in the frame, and promoted  *)
(* slots are neither read nor written in code that can be reached.         *)
OptTypeOK ==
  /\ stage \in {"parsed", "compiled", "running", "returned"}
  /\ stage = "compiled" =>
       LET g     == Graph(code.insts)
           live  == UNION {g.blocks[b].start .. g.blocks[b].end : b \in Reachable(g, {})}
           homes == {i.dst : i \in {j \in ToSet(code.insts) : j.op = "alloca" /\ j.imm > 0}}
       IN  /\ \A i \in DOMAIN code.insts : ToSet(Introduces(code.insts[i])) \subseteq Ids(code)
           /\ \A i \in DOMAIN code.insts :
                code.insts[i].op = "addr" => code.insts[i].a \in homes
           /\ \A i \in live : code.insts[i].op \in {"load", "store"} => code.insts[i].a \in homes
  /\ src.pc \in Nat /\ tgt.pc \in Nat

Observed(f, m) ==
  IF OpAt(f, m) = "end" THEN <<>>
  ELSE LET ids == Reads(f.insts[m.pc]) IN [n \in DOMAIN ids |-> m.val[ids[n]]]

(* mem2reg and the cleanup keep the meaning of every function: whatever    *)
(* the calls return and however the branches go, optimised code makes the  *)
(* same calls, takes the same branches and returns the same as the code    *)
(* before, except for values the program never set (mem2reg.c:349-438,     *)
(* :178-285, scalar_opt.c:208-274).                                        *)
SameMeaning ==
  stage = "running" /\ Stopped(fn, src) /\ Stopped(code, tgt) =>
    /\ OpAt(fn, src) = OpAt(code, tgt)
    /\ \A n \in DOMAIN Observed(fn, src) :
         Observed(fn, src)[n] \in {Undef, Observed(code, tgt)[n]}

(* -g never changes the generated code (opt.h:13-16, main.c's usage text): *)
(* without its markers the code is what it is without -g, value ids too.   *)
DebugOrthogonal ==
  stage = "parsed" /\ PromotionReady(fn) =>
    Opt(fn, FALSE) = [Opt(fn, TRUE) EXCEPT !.insts = ExtractMarkers(@)]

(* The markers for a variable since the last jump before tgt.pc.           *)
RunStart == 1 + Max({0} \union {i \in 1 .. tgt.pc - 1 : code.insts[i].op \in Terminators})
MarkersSeen(var) ==
  SelectSeq(SubSeq(code.insts, RunStart, tgt.pc - 1), LAMBDA i : i.op = "dbg" /\ i.imm = var)

(* "From here on, source variable imm lives in SSA value a" (ir.h:100-101), *)
(* up to the next jump in the order of the code: where both runs stop, the  *)
(* value that the last marker for a variable names is what it holds, also   *)
(* where control came in by another way than from the code above.           *)
MarkersTrue ==
  stage = "running" /\ Stopped(fn, src) /\ Stopped(code, tgt) =>
    \A var \in DOMAIN fn.vars :
      LET seen == MarkersSeen(var)
      IN  seen # <<>> /\ Last(seen).a # None =>
            src.mem[fn.vars[var]] \in {Undef, tgt.val[Last(seen).a]}

(* -g changes no code, and what it says of a variable up to the next jump  *)
(* is true.                                                                *)
DebugTrue == DebugOrthogonal /\ MarkersTrue
=============================================================================
