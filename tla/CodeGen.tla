------------------------------- MODULE CodeGen -------------------------------
(***************************************************************************)
(* The code generator for arm64, src/cg64.c, for a function whose values   *)
(* have their homes: the code that emit_function makes of each instruction *)
(* runs next to the instruction itself.  A machine has registers, the      *)
(* spill slots and the memory of its frame.  The moves that put parameters *)
(* and arguments in their places are worked out by loops of the compiler;  *)
(* the model takes a turn of such a loop and the move that it emits for    *)
(* one step.  Integers only, at most 8 parameters and arguments, no call   *)
(* through a pointer.                                                      *)
(***************************************************************************)
EXTENDS IRRun, Registers

VARIABLES
  stage,  \* "parsed"; "liveness" to "colouring", of the allocator (RegAlloc, Colouring);
          \* "compiled", "entering", "running", "passing", "returned", of the code
  code,   \* the function, as src/ir.c made it and then as the optimiser left it
  ra,     \* the homes of its values: a register, or a spill slot
  run,    \* the run of code: where it is, its slots, its values
  mach,   \* where the machine is, its registers, spill slots, memory, saved registers
  moves   \* what is left to move on entry or before a call

vars == <<stage, code, ra, run, mach, moves>>

Junk == -3     \* what nobody may read

Passed(n)   == 10 + n   \* what the caller passes as its n-th argument
CallersIn(r) == 100 + r \* and has in register r

-----------------------------------------------------------------------------
(* Homes.  A constant without a register is made anew where it is read.    *)
Home(v) == ra.reg[v]
RegOf(v) == IF Home(v) = None THEN SCR0 ELSE Home(v)

IsConst(v) == LET d == LastDef(code.insts, v) IN d # None /\ code.insts[d].op = "const"
ConstOf(v) == code.insts[LastDef(code.insts, v)].imm

Stored(m, v) == IF IsConst(v) THEN ConstOf(v) ELSE m.spill[ra.slot[v]]

(* load_op and load_ptrv: afterwards the operand is in RegOf(v).           *)
LoadOp(m, v)   == IF Home(v) = None THEN [m EXCEPT !.reg[SCR0] = Stored(m, v)] ELSE m
LoadPtrV(m, v) == IF Home(v) = None THEN [m EXCEPT !.reg[SCR0] = m.spill[ra.slot[v]]] ELSE m

Operand(m, v) == LoadOp(m, v).reg[RegOf(v)]

(* dst_reg and commit: a result goes to its home.                          *)
Commit(m, v, x) ==
  LET set == [m EXCEPT !.reg[RegOf(v)] = x]
  IN  IF Home(v) = None THEN [set EXCEPT !.spill[ra.slot[v]] = x] ELSE set

(* The code of an instruction that neither branches nor calls.             *)
Emit(m, inst) ==
  CASE inst.op = "br"    -> [m EXCEPT !.pc = LabelPc(code, inst.imm)]
    [] inst.op = "const" -> Advance(Commit(m, inst.dst, inst.imm))
    [] inst.op = "addr"  -> Advance(Commit(m, inst.dst, Address))
    [] inst.op = "copy"  -> Advance(Commit(LoadOp(m, inst.a), inst.dst, Operand(m, inst.a)))
    [] inst.op = "load"  -> Advance(Commit(m, inst.dst, m.mem[inst.a]))
    [] inst.op = "store" -> Advance([LoadOp(m, inst.b) EXCEPT !.mem[inst.a] = Operand(m, inst.b)])
    [] OTHER             -> Advance(m)

(* BR_TABLE compares the index with one number after the other, each put   *)
(* in SCR0.                                                                *)
Equals(m, v, k) == [m EXCEPT !.reg[SCR0] = k].reg[RegOf(v)] = k

(* Mutant: the sense of the test is the other way round.                   *)
EmitCbnz(m, inst) ==
  LET at == LoadOp(m, inst.a)
      hits == {k \in DOMAIN inst.args : Equals(at, inst.a, k - 1)}
  IN  CASE inst.op = "cbr"   -> IF at.reg[RegOf(inst.a)] # 0 THEN inst.b ELSE inst.imm
        [] inst.op = "table" -> IF hits = {} THEN inst.imm ELSE inst.args[Min(hits)]

EmitBranch(m, inst) ==
  LET at == LoadOp(m, inst.a)
      hits == {k \in DOMAIN inst.args : Equals(at, inst.a, k - 1)}
  IN  CASE inst.op = "cbr"   -> IF at.reg[RegOf(inst.a)] = 0 THEN inst.b ELSE inst.imm
        [] inst.op = "table" -> IF hits = {} THEN inst.imm ELSE inst.args[Min(hits)]

-----------------------------------------------------------------------------
Idle == [todo |-> {}, src |-> <<>>, first |-> None, cur |-> None]

Unstarted ==
  /\ run = [pc |-> 1, mem |-> <<>>, val |-> <<>>]
  /\ mach = [pc |-> 1, reg |-> [r \in Registers |-> CallersIn(r)],
             spill |-> <<>>, mem |-> <<>>, saved |-> <<>>]
  /\ moves = Idle

(* The callee-saved registers that the function uses.                      *)
Saved == {ra.reg[v] : v \in Values(code)} \ (CallerSaved \union {None})

Incoming == {i \in DOMAIN code.insts : code.insts[i].op = "param"}
ParamOf(p) == code.insts[p].dst
Arrives(p) == X0 + code.insts[p].imm - 1
ParamHome(p) == Home(ParamOf(p))

(* An instruction names it; the label of a branch counts as a name.        *)
ParamIsUsed(p) ==
  \E i \in ToSet(code.insts) :
    /\ i.op # "param"
    /\ \/ ParamOf(p) \in {i.a, i.b}
       \/ i.op = "call" /\ ParamOf(p) \in ToSet(i.args)

(* The prologue: the frame, the registers to save, and the moves to make.  *)
Enter ==
  /\ stage = "compiled"
  /\ run' = [Start(code) EXCEPT !.val = [v \in DOMAIN @ |->
               IF \E p \in Incoming : ParamOf(p) = v
               THEN Passed(code.insts[CHOOSE p \in Incoming : ParamOf(p) = v].imm) ELSE Undef]]
  /\ mach' = [pc |-> 1,
              reg |-> [r \in Registers |-> IF r < 8 THEN Passed(r + 1) ELSE CallersIn(r)],
              spill |-> [s \in ToSet(ra.slot) \ {None} |-> Junk],
              mem |-> [s \in Values(code) |-> Undef],
              saved |-> [r \in Saved |-> CallersIn(r)]]
  /\ moves' = [Idle EXCEPT
       !.todo = {p \in Incoming : ParamIsUsed(p) /\ ParamHome(p) # Arrives(p)},
       !.src = [p \in Incoming |-> Arrives(p)]]
  /\ stage' = "entering"
  /\ UNCHANGED <<code, ra>>

-----------------------------------------------------------------------------
(* The parameters, which arrive in x0 to x7: a move waits while its home   *)
(* holds another that is still to be moved.                                *)
Done(p) == [moves EXCEPT !.todo = @ \ {p}]

ParamHeld(p) ==
  \E q \in moves.todo \ {p} :
    ParamHome(p) = moves.src[q] /\ ParamHome(q) # moves.src[q]

(* PM_EMIT *)
PlaceParam(m, p) ==
  IF ParamHome(p) = None
  THEN [m EXCEPT !.reg[SCR1] = m.reg[moves.src[p]],
                 !.spill[ra.slot[ParamOf(p)]] = m.reg[moves.src[p]]]
  ELSE [m EXCEPT !.reg[ParamHome(p)] = m.reg[moves.src[p]]]

FreeParams == {p \in moves.todo : ~ ParamHeld(p)}

MoveParam ==
  /\ stage = "entering" /\ moves.first = None /\ FreeParams # {}
  /\ mach' = PlaceParam(mach, Min(FreeParams))
  /\ moves' = Done(Min(FreeParams))
  /\ UNCHANGED <<stage, code, ra, run>>

(* Only cycles are left: the first register of one is saved, and the       *)
(* others follow, each into the register that was read last.               *)
BreakParamCycle ==
  /\ stage = "entering" /\ moves.first = None /\ moves.todo # {} /\ FreeParams = {}
  /\ LET p == Min({q \in moves.todo : ParamHome(q) # None})
     IN  /\ mach' = [mach EXCEPT !.reg[SCR0] = mach.reg[moves.src[p]]]
         /\ moves' = [moves EXCEPT !.first = p, !.cur = moves.src[p]]
  /\ UNCHANGED <<stage, code, ra, run>>

FollowParamCycle ==
  /\ stage = "entering" /\ moves.first # None
  /\ LET q == Min({p \in moves.todo : ParamHome(p) = moves.cur})
     IN  IF q = moves.first
         THEN /\ mach' = [mach EXCEPT !.reg[ParamHome(q)] = mach.reg[SCR0]]
              /\ moves' = [Done(q) EXCEPT !.first = None, !.cur = None]
         ELSE /\ mach' = PlaceParam(mach, q)
              /\ moves' = [Done(q) EXCEPT !.cur = moves.src[q]]
  /\ UNCHANGED <<stage, code, ra, run>>

Entered ==
  /\ stage = "entering" /\ moves.todo = {}
  /\ stage' = "running" /\ moves' = Idle
  /\ UNCHANGED <<code, ra, run, mach>>

-----------------------------------------------------------------------------
Here == code.insts[run.pc]
At(op) == stage = "running" /\ OpAt(code, run) = op

Straight ==
  /\ stage = "running" /\ ~ Stopped(code, run)
  /\ run' = Silent(code, run)
  /\ mach' = Emit(mach, Here)
  /\ UNCHANGED <<stage, code, ra, moves>>

(* emit_call: argument n is moved to register n - 1, from its home if it   *)
(* has one and is no constant.                                             *)
ArgReg(n) == X0 + n - 1

BeginCall ==
  /\ At("call")
  /\ moves' = [Idle EXCEPT !.todo = DOMAIN Here.args,
                           !.src = [n \in DOMAIN Here.args |->
                                     IF IsConst(Here.args[n]) THEN None ELSE Home(Here.args[n])]]
  /\ stage' = "passing"
  /\ UNCHANGED <<code, ra, run, mach>>

(* Mutant: the first pending move is taken to be safe.                     *)
ArgHeldByEarlier(n) == \E m \in moves.todo : m < n /\ moves.src[m] = ArgReg(n)

ArgHeld(n) == \E m \in moves.todo \ {n} : moves.src[m] = ArgReg(n)

FreeArgs == {n \in moves.todo : ~ ArgHeld(n)}

PassArgument ==
  /\ stage = "passing" /\ FreeArgs # {}
  /\ LET n == Min(FreeArgs)
         x == IF moves.src[n] = None THEN Stored(mach, Here.args[n]) ELSE mach.reg[moves.src[n]]
     IN  /\ mach' = [mach EXCEPT !.reg[ArgReg(n)] = x]
         /\ moves' = Done(n)
  /\ UNCHANGED <<stage, code, ra, run>>

Parked(n) == [moves EXCEPT !.src[n] = SCR0]

ParkArgument ==
  /\ stage = "passing" /\ moves.todo # {} /\ FreeArgs = {}
  /\ LET n == Min({k \in moves.todo : moves.src[k] # None})
     IN  /\ mach' = [mach EXCEPT !.reg[SCR0] = mach.reg[moves.src[n]]]
         /\ moves' = Parked(n)
  /\ UNCHANGED <<stage, code, ra, run>>

(* The callee leaves its result in x0 and junk in what it need not keep.   *)
AfterCall(r) ==
  LET m == [mach EXCEPT !.reg = [x \in Registers |->
              IF x = X0 THEN r ELSE IF x \in CallerSaved THEN Junk ELSE @[x]]]
  IN  Advance(IF Here.dst = None THEN m ELSE Commit(m, Here.dst, r))

CallStep ==
  /\ stage = "passing" /\ moves.todo = {}
  /\ \E r \in IF Here.dst = None THEN {0} ELSE Data :
       run' = Returned(code, run, r) /\ mach' = AfterCall(r)
  /\ stage' = "running" /\ moves' = Idle
  /\ UNCHANGED <<code, ra>>

(* A branch on a value the program never set has no meaning to keep.       *)
BranchStep ==
  /\ At("cbr") \/ At("table")
  /\ run.val[Here.a] # Undef
  /\ run' = Branch(code, run)
  /\ mach' = [LoadOp(mach, Here.a) EXCEPT !.pc = LabelPc(code, EmitBranch(mach, Here))]
  /\ UNCHANGED <<stage, code, ra, moves>>

JumpStep ==
  /\ At("jmp_ptr")
  /\ \E i \in {j \in DOMAIN code.insts : code.insts[j].op = "label"} :
       /\ run' = [run EXCEPT !.pc = i]
       /\ mach' = [LoadPtrV(mach, Here.a) EXCEPT !.pc = i]
  /\ UNCHANGED <<stage, code, ra, moves>>

(* The result goes to x0 and the epilogue restores what was saved.         *)
ReturnStep ==
  /\ At("return")
  /\ mach' = [mach EXCEPT !.reg = [x \in Registers |->
                CASE x \in DOMAIN mach.saved -> mach.saved[x]
                  [] x = X0 /\ x \notin DOMAIN mach.saved -> Operand(mach, Here.a)
                  [] OTHER -> LoadOp(mach, Here.a).reg[x]]]
  /\ stage' = "returned"
  /\ UNCHANGED <<code, ra, run, moves>>

Shuffle == MoveParam \/ BreakParamCycle \/ FollowParamCycle \/ Entered
           \/ PassArgument \/ ParkArgument \/ CallStep

Run == Enter \/ Shuffle \/ Straight \/ BeginCall \/ BranchStep \/ JumpStep \/ ReturnStep

-----------------------------------------------------------------------------
(* What the code generator relies on, of the optimiser and the allocator.  *)

Instruction == [op : STRING, dst : Int, a : Int, b : Int, imm : Int, args : Seq(Int)]

(* The values an instruction reads; what it reads of its slots is memory.  *)
ValueOperands(inst) ==
  CASE inst.op = "store"  -> {inst.b}
    [] inst.op = "call"   -> ToSet(inst.args)
    [] inst.op \in {"copy", "cbr", "table", "jmp_ptr", "return"} -> {inst.a}
    [] OTHER              -> {}

SetsValue(inst) ==
  \/ inst.op \in {"const", "addr", "copy", "load"}
  \/ inst.op = "call" /\ inst.dst # None

LabelsOf(inst) ==
  CASE inst.op = "br"    -> {inst.imm}
    [] inst.op = "cbr"   -> {inst.imm, inst.b}
    [] inst.op = "table" -> {inst.imm} \union ToSet(inst.args)
    [] OTHER             -> {}

FrameSlots(f) == {f.insts[i].dst : i \in {j \in DOMAIN f.insts : f.insts[j].op = "alloca"}}
LabelPcs(f)   == {i \in DOMAIN f.insts : f.insts[i].op = "label"}

(* Parameters come first, each arriving in a register of its own; what a   *)
(* constant sets nothing else sets; a branch goes to a label there is; a   *)
(* slot is no operand but of loads, stores and addr.                       *)
WellFormed(f) ==
  /\ f.insts \in Seq(Instruction) /\ f.next \in Nat
  /\ \A i \in DOMAIN f.insts :
       LET inst == f.insts[i]
       IN  /\ ValueOperands(inst) \subseteq Values(f) \ FrameSlots(f)
           /\ (SetsValue(inst) \/ inst.op = "param") => inst.dst \in Values(f)
           /\ inst.dst = None \/ SetsValue(inst) \/ inst.op \in {"param", "alloca"}
           /\ inst.op \in {"load", "store"} => inst.a \in Values(f)
           /\ inst.op = "call" => Len(inst.args) <= 8
           /\ \A l \in LabelsOf(inst) : \E j \in LabelPcs(f) : f.insts[j].imm = l
           /\ inst.op = "const" => \A j \in DOMAIN f.insts \ {i} : f.insts[j].dst # inst.dst
           /\ inst.op = "param" =>
                /\ inst.imm \in 1 .. 8
                /\ \A j \in 1 .. i - 1 : /\ f.insts[j].op = "param" /\ f.insts[j].dst # inst.dst
                                         /\ f.insts[j].imm # inst.imm

(* Where the program can go after an instruction.                          *)
Goes(f, i) ==
  LET inst == f.insts[i]
  IN  CASE inst.op \in {"br", "cbr", "table"} -> {LabelPc(f, l) : l \in LabelsOf(inst)}
        [] inst.op = "jmp_ptr" -> LabelPcs(f)
        [] inst.op = "return"  -> {}
        [] OTHER               -> {i + 1} \intersect DOMAIN f.insts

(* live[i] is what may be read after instruction i before it is set again. *)
Needs(f, live, i) ==
  (ValueOperands(f.insts[i]) \union (live[i] \ {f.insts[i].dst})) \ FrameSlots(f)

Liveness(f, live) ==
  /\ live \in [DOMAIN f.insts -> SUBSET Values(f)]
  /\ \A i \in DOMAIN f.insts : \A j \in Goes(f, i) : Needs(f, live, j) \subseteq live[i]

Apart(homes, v, w) == homes.reg[v] = None \/ homes.reg[v] # homes.reg[w]

(* Every value has a register of the palette or a slot of its own; what an *)
(* instruction sets, it sets in a register that nothing alive is in, and a *)
(* call finds nothing alive in the registers it overwrites; parameters do  *)
(* not share a home.                                                       *)
Allocated(f, live, homes) ==
  /\ homes.reg \in [Values(f) -> ToSet(Palette) \union {None}]
  /\ homes.slot \in [Values(f) -> Nat \union {None}]
  /\ \A v \in Values(f) :
       /\ homes.reg[v] = None <=> homes.slot[v] # None
       /\ \A w \in Values(f) \ {v} : homes.slot[v] = None \/ homes.slot[w] # homes.slot[v]
  /\ \A i \in DOMAIN f.insts :
       LET inst == f.insts[i]
           rest == live[i] \ ({inst.dst} \union FrameSlots(f))
       IN  /\ SetsValue(inst) => \A v \in rest : Apart(homes, v, inst.dst)
           /\ inst.op = "call" => \A v \in rest : homes.reg[v] \notin CallerSaved
           /\ inst.op = "param" =>
                \A j \in 1 .. i - 1 : Apart(homes, inst.dst, f.insts[j].dst)

(* The index of a table of labels has a register.                          *)
IndexesHeld(f, homes) ==
  \A i \in DOMAIN f.insts : f.insts[i].op = "table" => homes.reg[f.insts[i].a] # None

(* The code generator by itself: whatever function it is given, and        *)
(* whatever homes for its values, that are as it relies on.                *)
GenInit ==
  /\ stage = "compiled" /\ Unstarted
  /\ WellFormed(code)
  /\ \E live : Liveness(code, live) /\ Allocated(code, live, ra)
  /\ IndexesHeld(code, ra)

GenSpec == GenInit /\ [][Run]_vars
-----------------------------------------------------------------------------
(* The allocator gives no two values one home while both are needed, over  *)
(* calls and around loops: what the machine finds where an operand lives   *)
(* is what the operand is, unless the program never set it                 *)
(* (regalloc.c:682-985, :1171-1267, cg64.c:499-512).                       *)
OperandsIntact ==
  stage = "running" /\ OpAt(code, run) # "end" =>
    \A v \in ValueOperands(Here) : run.val[v] \in {Undef, Operand(mach, v)}

(* The machine takes every branch the IR takes (cg64.c:5507-5529).         *)
SamePath == stage \in {"running", "passing"} => mach.pc = run.pc

(* Whatever cycle the homes make, every parameter the function uses has    *)
(* reached its home when the prologue is over (cg64.c:5136-5191).          *)
ParametersArrive ==
  stage = "entering" /\ moves.todo = {} =>
    \A p \in Incoming : ParamIsUsed(p) => Operand(mach, ParamOf(p)) = run.val[ParamOf(p)]

(* Every argument is in its register when a call is made (cg64.c:3824-3861). *)
ArgumentsArrive ==
  stage = "passing" /\ moves.todo = {} =>
    \A n \in DOMAIN Here.args : run.val[Here.args[n]] \in {Undef, mach.reg[ArgReg(n)]}

(* The caller gets the result, and finds its own values in the registers   *)
(* that a call preserves (cg64.c:4781-4791, :5594-5600, :5954-5960).       *)
CallerUndisturbed ==
  stage = "returned" =>
    /\ run.val[Here.a] \in {Undef, mach.reg[X0]}
    /\ \A r \in Registers \ CallerSaved : mach.reg[r] = CallersIn(r)

(* A function keeps its side of the calls it takes part in.                *)
CallsKept == ParametersArrive /\ ArgumentsArrive /\ CallerUndisturbed
=============================================================================
