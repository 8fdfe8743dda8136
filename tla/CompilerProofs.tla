---------------------------- MODULE CompilerProofs ----------------------------
(***************************************************************************)
(* Correctness of the compiler, back to front.  First the code generator,  *)
(* src/cg64.c, for every function and every allocation of registers that   *)
(* is as the generator relies on: operands are where they are read from,   *)
(* the machine takes the branches of the IR, and both sides of a call are  *)
(* kept.  Its invariant follows the liveness that the allocation was made  *)
(* for: a value that may still be read is where its home says.  While      *)
(* parameters or arguments are being moved, it says where the value of     *)
(* each move that is left is found.                                        *)
(*                                                                         *)
(* Then src/regalloc.c: the colouring, for every interference graph that   *)
(* is as it relies on, and the analysis before it, for every function and  *)
(* every graph of its blocks: what it takes to live is a liveness, the     *)
(* graph it makes has the edges and the bars of that, and the homes that   *)
(* come out are as the code generator relies on.                           *)
(*                                                                         *)
(* Then src/domtree.c, for every control flow graph: the tree and the      *)
(* frontiers that domtree_build leaves, and the phis that src/mem2reg.c    *)
(* places by them.  And src/cfg.c: the graph of every well-formed function *)
(* is one that they rely on.                                               *)
(***************************************************************************)
EXTENDS RegAlloc, Phis, FiniteSetTheorems, WellFoundedInduction, TLAPS

(* What a run r of the code and a machine m are, with moves mv to make.    *)
Machine ==
  [pc : Nat, reg : [Registers -> Int], spill : [ToSet(ra.slot) \ {None} -> Int],
   mem : [Values(code) -> Int], saved : [Saved -> Int]]

IRState == [pc : Nat, mem : [Values(code) -> Int], val : [Values(code) -> Int]]

Typed(r, m) == r \in IRState /\ m \in Machine /\ m.pc = r.pc

(* Constants have their value, memory is the same, what the caller relies  *)
(* on is saved or untouched.                                               *)
Kept(r, m) ==
  /\ \A v \in Values(code) : IsConst(v) => r.val[v] \in {Undef, ConstOf(v)}
  /\ \A s \in Values(code) : r.mem[s] \in {Undef, m.mem[s]}
  /\ \A x \in Saved : m.saved[x] = CallersIn(x)
  /\ \A x \in Registers \ (CallerSaved \union Saved) : m.reg[x] = CallersIn(x)

(* Value v is where it is read from.                                       *)
Holds(r, m, v) == r.val[v] \in {Undef, Operand(m, v)}

(* What the code reads at all, and what it may still read from place pc on,*)
(* with the parameters that are not yet behind.                            *)
Read == UNION {ValueOperands(code.insts[i]) : i \in DOMAIN code.insts}

Awaited(live, pc) ==
  {v \in Read : /\ pc \in DOMAIN code.insts
                /\ \/ v \in Needs(code, live, pc)
                   \/ \E p \in Incoming : p >= pc /\ v = ParamOf(p)}

(* What lives over the instruction at pc.                                  *)
Rest(live, pc) == (Read \intersect live[pc]) \ ({code.insts[pc].dst} \union FrameSlots(code))

(* Between two instructions, and before one sets its value.                *)
InStep(live, r, m) ==
  Typed(r, m) /\ Kept(r, m) /\ \A v \in Awaited(live, r.pc) : Holds(r, m, v)

RestHolds(live, r, m) == \A v \in Rest(live, r.pc) : Holds(r, m, v)

(* On entry: the parameters have their values, which are where they        *)
(* arrived or, for the first of a cycle, in SCR0, until they are moved.    *)
EntryValues(r) ==
  /\ r.pc = 1
  /\ \A p \in Incoming : r.val[ParamOf(p)] = Passed(code.insts[p].imm)
  /\ \A v \in Values(code) : v \in {ParamOf(p) : p \in Incoming} \/ r.val[v] = Undef

ToMove == {p \in Incoming : ParamIsUsed(p) /\ ParamHome(p) # Arrives(p)}

Sources(S) == {Arrives(p) : p \in S}
Targets(S) == {ParamHome(p) : p \in S}

(* The register to be written next is the only one of the cycle that is no *)
(* longer read.                                                            *)
InCycle(r, m, mv) ==
  /\ mv.first \in mv.todo
  /\ m.reg[SCR0] = r.val[ParamOf(mv.first)]
  /\ mv.cur \in Registers
  /\ mv.cur \notin Sources(mv.todo \ {mv.first})
  /\ Targets(mv.todo) = Sources(mv.todo \ {mv.first}) \union {mv.cur}

Entering(r, m, mv) ==
  /\ EntryValues(r)
  /\ mv.todo \subseteq ToMove /\ mv.src = [p \in Incoming |-> Arrives(p)]
  /\ \A p \in Incoming \ mv.todo : ParamIsUsed(p) => Operand(m, ParamOf(p)) = r.val[ParamOf(p)]
  /\ \A p \in mv.todo \ {mv.first} : m.reg[Arrives(p)] = r.val[ParamOf(p)]
  /\ mv.first # None => InCycle(r, m, mv)

(* Before a call: an argument is in its register, or what is to be moved   *)
(* there is where the move reads it.                                       *)
ArgsAt(pc) == code.insts[pc].args

ArgFrom(m, mv, v, n) == IF mv.src[n] = None THEN Stored(m, v) ELSE m.reg[mv.src[n]]

Passing(live, r, m, mv) ==
  /\ r.pc \in DOMAIN code.insts /\ code.insts[r.pc].op = "call"
  /\ mv.todo \subseteq DOMAIN ArgsAt(r.pc)
  /\ mv.src \in [DOMAIN ArgsAt(r.pc) -> Registers \union {None}]
  /\ \A n \in mv.todo : mv.src[n] = None => Home(ArgsAt(r.pc)[n]) = None \/ IsConst(ArgsAt(r.pc)[n])
  /\ \A n \in DOMAIN ArgsAt(r.pc) \ mv.todo : r.val[ArgsAt(r.pc)[n]] \in {Undef, m.reg[ArgReg(n)]}
  /\ \A n \in mv.todo : r.val[ArgsAt(r.pc)[n]] \in {Undef, ArgFrom(m, mv, ArgsAt(r.pc)[n], n)}
  /\ RestHolds(live, r, m)

Returns(r, m) ==
  /\ r.pc \in DOMAIN code.insts
  /\ r.val[code.insts[r.pc].a] \in {Undef, m.reg[X0]}
  /\ \A x \in Registers \ CallerSaved : m.reg[x] = CallersIn(x)

StageOK(live, st, r, m, mv) ==
  /\ st \in {"compiled", "entering", "running", "passing", "returned"}
  /\ st # "compiled" => Typed(r, m) /\ mv.todo \subseteq Incoming \union 1 .. 8
  /\ st \in {"entering", "running", "passing"} => Kept(r, m)
  /\ st = "entering" => Entering(r, m, mv)
  /\ st = "running"  => mv = Idle /\ InStep(live, r, m)
  /\ st = "passing"  => Passing(live, r, m, mv)
  /\ st = "returned" => Returns(r, m)

Contract(live) ==
  /\ WellFormed(code) /\ Liveness(code, live)
  /\ Allocated(code, live, ra) /\ IndexesHeld(code, ra)

IInv == \E live : Contract(live) /\ StageOK(live, stage, run, mach, moves)

-----------------------------------------------------------------------------
(* Least and greatest elements.                                            *)

Less == {ss \in Nat \X Nat : ss[1] < ss[2]}

LEMMA LessWellFounded == IsWellFoundedOn(Less, Nat)
<1>1. OpToRel(<, Nat) = Less
  BY Zenon DEF OpToRel, Less
<1> QED BY <1>1, NatLessThanWellFounded, Zenon

LEMMA HasLeast ==
  ASSUME NEW S, S \subseteq Nat, S # {}
  PROVE  \E g \in S : \A h \in S : g <= h
<1>1. \A x, y \in Nat : x < y => <<x, y>> \in Less
  BY DEF Less
<1>2. PICK g \in S : \A h \in S : ~ (<<h, g>> \in Less)
  BY LessWellFounded, WFMin, Zenon
<1>3. \A h \in S : ~ (h < g)
  BY <1>1, <1>2
<1>4. \A h \in S : g <= h
  BY <1>3
<1> QED BY <1>2, <1>4

LEMMA MinFacts ==
  ASSUME NEW S, S \subseteq Nat, S # {}
  PROVE  Min(S) \in S
<1>1. \E g \in S : \A h \in S : g =< h
  BY HasLeast
<1> QED BY <1>1, Zenon DEF Min

LEMMA MaxFacts ==
  ASSUME NEW n \in Nat, NEW S, S \subseteq 1 .. n, S # {}
  PROVE  Max(S) \in S
<1> DEFINE T == {n - x : x \in S}
<1>0. \A x \in S : x \in Nat /\ n - x \in Nat
  OBVIOUS
<1>1. T \subseteq Nat /\ T # {}
  BY <1>0
<1>2. PICK t \in T : \A h \in T : t <= h
  BY <1>1, HasLeast
<1>3. PICK g \in S : t = n - g
  OBVIOUS
<1>4. \A h \in S : g >= h
  <2> TAKE h \in S
  <2>1. n - h \in T
    OBVIOUS
  <2>2. t <= n - h
    BY <2>1, <1>2
  <2> QED BY <2>2, <1>3, <1>0
<1>5. \E x \in S : \A y \in S : x >= y
  BY <1>4
<1> QED BY <1>5, Zenon DEF Max

(* A function from a finite set into itself that tells its arguments apart *)
(* leaves nothing out.                                                     *)
LEMMA OneToOneIsOnto ==
  ASSUME NEW S, IsFiniteSet(S), NEW f \in [S -> S],
         \A x, y \in S : f[x] = f[y] => x = y
  PROVE  \A y \in S : \E x \in S : f[x] = y
<1>1. f \in Injection(S, S)
  BY DEF Injection, IsInjective
<1>2. f \in Surjection(S, S)
  BY <1>1, FS_Injection
<1> QED BY <1>2 DEF Surjection

-----------------------------------------------------------------------------
(* Homes and constants.                                                    *)

LEMMA RegisterFacts ==
  /\ Registers \subseteq Nat /\ SCR0 \in Registers /\ SCR1 \in Registers /\ SCR0 # SCR1
  /\ None \notin Registers /\ X0 \in Registers
  /\ \A n \in 1 .. 8 : X0 + n - 1 \in Registers /\ X0 + n - 1 \in CallerSaved
                       /\ X0 + n - 1 # SCR0 /\ X0 + n - 1 # SCR1
BY RegistersAssumption DEF Registers, SCR0, SCR1, X0, None

LEMMA HomeFacts ==
  ASSUME NEW live, Contract(live), NEW v \in Values(code)
  PROVE  /\ Home(v) = None \/ /\ Home(v) \in Registers /\ Home(v) # SCR0 /\ Home(v) # SCR1
                              /\ Home(v) \in Saved \union CallerSaved
         /\ Home(v) = None => ra.slot[v] \in ToSet(ra.slot) \ {None}
         /\ RegOf(v) \in Registers
         /\ v \in DOMAIN ra.slot
<1>1. ToSet(Palette) \subseteq Registers \ {SCR0, SCR1}
  BY RegistersAssumption DEF ToSet
<1>2. /\ ra.reg \in [Values(code) -> ToSet(Palette) \union {None}]
      /\ ra.slot \in [Values(code) -> Nat \union {None}]
      /\ ra.reg[v] = None <=> ra.slot[v] # None
  BY DEF Contract, Allocated
<1>3. ra.reg[v] \in Saved \union CallerSaved \/ ra.reg[v] = None
  BY DEF Saved
<1>4. ra.slot[v] \in ToSet(ra.slot)
  BY <1>2 DEF ToSet
<1> QED
  BY <1>1, <1>2, <1>3, <1>4, RegisterFacts DEF Home, RegOf

LEMMA CodeFacts ==
  ASSUME WellFormed(code)
  PROVE  /\ Len(code.insts) \in Nat /\ DOMAIN code.insts = 1 .. Len(code.insts)
         /\ code.next \in Nat /\ Values(code) \subseteq Nat
         /\ \A i \in DOMAIN code.insts :
              /\ code.insts[i].op \in STRING /\ code.insts[i].dst \in Int
              /\ code.insts[i].a \in Int /\ code.insts[i].b \in Int
              /\ code.insts[i].imm \in Int /\ code.insts[i].args \in Seq(Int)
<1>1. code.insts \in Seq(Instruction) /\ code.next \in Nat
  BY DEF WellFormed
<1>2. Len(code.insts) \in Nat /\ DOMAIN code.insts = 1 .. Len(code.insts)
  BY <1>1
<1>3. \A i \in DOMAIN code.insts : code.insts[i] \in Instruction
  BY <1>1, <1>2
<1>4. \A inst \in Instruction : /\ inst.op \in STRING /\ inst.dst \in Int
                                /\ inst.a \in Int /\ inst.b \in Int
                                /\ inst.imm \in Int /\ inst.args \in Seq(Int)
  BY DEF Instruction
<1>5. Values(code) \subseteq Nat
  BY <1>1 DEF Values
<1> QED BY <1>1, <1>2, <1>3, <1>4, <1>5, Zenon

(* A constant's last definition is its only one.                           *)
LEMMA ConstFacts ==
  ASSUME WellFormed(code), NEW v
  PROVE  /\ IsConst(v) => \E i \in DOMAIN code.insts : /\ code.insts[i].op = "const"
                                                      /\ code.insts[i].dst = v
                                                      /\ ConstOf(v) = code.insts[i].imm
         /\ \A i \in DOMAIN code.insts :
              code.insts[i].op = "const" /\ code.insts[i].dst = v =>
                IsConst(v) /\ ConstOf(v) = code.insts[i].imm
         /\ \A i \in DOMAIN code.insts :
              IsConst(v) /\ code.insts[i].dst = v => code.insts[i].op = "const"
         /\ IsConst(v) => ConstOf(v) \in Int
<1> DEFINE defs == {i \in DOMAIN code.insts : code.insts[i].dst = v}
<1>2. DOMAIN code.insts = 1 .. Len(code.insts) /\ Len(code.insts) \in Nat
  BY CodeFacts
<1>3. defs # {} => Max(defs) \in defs
  BY <1>2, MaxFacts
<1>4. LastDef(code.insts, v) = IF defs = {} THEN None ELSE Max(defs)
  BY Zenon DEF LastDef
<1>5. None \notin DOMAIN code.insts
  BY <1>2 DEF None
<1>6. \A i \in DOMAIN code.insts : code.insts[i].op = "const" =>
        \A j \in DOMAIN code.insts \ {i} : code.insts[j].dst # code.insts[i].dst
  BY DEF WellFormed
<1>7. \A i \in DOMAIN code.insts : code.insts[i].imm \in Int
  BY CodeFacts
<1> DEFINE d == LastDef(code.insts, v)
<1>8. IsConst(v) => d \in defs /\ code.insts[d].op = "const" /\ ConstOf(v) = code.insts[d].imm
  BY <1>3, <1>4 DEF IsConst, ConstOf
<1>9. ASSUME NEW i \in defs, code.insts[i].op = "const"
      PROVE  IsConst(v) /\ ConstOf(v) = code.insts[i].imm
  <2>1. defs = {i}
    BY <1>6, <1>9
  <2>2. d = i /\ d # None
    BY <2>1, <1>3, <1>4, <1>5
  <2> QED BY <2>2, <1>9 DEF IsConst, ConstOf
<1>10. ASSUME NEW i \in defs, IsConst(v) PROVE code.insts[i].op = "const"
  BY <1>8, <1>6, <1>10
<1> QED
  BY <1>7, <1>8, <1>9, <1>10

(* An operand is in its home register, or is made, or is in its slot.      *)
LEMMA OperandFacts ==
  ASSUME NEW live, Contract(live), NEW m \in Machine, NEW v \in Values(code)
  PROVE  /\ Operand(m, v) = IF Home(v) = None THEN Stored(m, v) ELSE m.reg[Home(v)]
         /\ Home(v) = None => Stored(m, v) \in Int
         /\ Operand(m, v) \in Int
<1>1. /\ m.reg \in [Registers -> Int]
      /\ m.spill \in [ToSet(ra.slot) \ {None} -> Int]
  BY DEF Machine
<1>2. Home(v) = None => Stored(m, v) \in Int
  BY <1>1, HomeFacts, ConstFacts DEF Stored, Contract
<1>3. Home(v) = None => Operand(m, v) = Stored(m, v)
  BY <1>1, RegisterFacts DEF Operand, LoadOp, RegOf, Machine
<1>4. Home(v) # None => Operand(m, v) = m.reg[Home(v)]
  BY DEF Operand, LoadOp, RegOf
<1> QED BY <1>1, <1>2, <1>3, <1>4, HomeFacts

(* What lies outside of the registers of the homes is no operand's.        *)
LEMMA SameOperand ==
  ASSUME NEW live, Contract(live), NEW m \in Machine, NEW n \in Machine, NEW v \in Values(code),
         Home(v) = None => m.spill[ra.slot[v]] = n.spill[ra.slot[v]],
         Home(v) # None => m.reg[Home(v)] = n.reg[Home(v)]
  PROVE  Operand(m, v) = Operand(n, v)
BY OperandFacts DEF Stored

LEMMA LoadFacts ==
  ASSUME NEW live, Contract(live), NEW m \in Machine, NEW v \in Values(code)
  PROVE  /\ LoadOp(m, v) \in Machine
         /\ \A x \in Registers \ {SCR0} : LoadOp(m, v).reg[x] = m.reg[x]
         /\ LoadOp(m, v) = [m EXCEPT !.reg = LoadOp(m, v).reg]
         /\ LoadOp(m, v).reg[RegOf(v)] = Operand(m, v)
         /\ \A w \in Values(code) : Operand(LoadOp(m, v), w) = Operand(m, w)
<1> DEFINE L == LoadOp(m, v)
<1>1. CASE Home(v) # None
  BY <1>1 DEF LoadOp, Operand, Machine
<1>2. CASE Home(v) = None
  <2>1. L = [m EXCEPT !.reg[SCR0] = Stored(m, v)] /\ Stored(m, v) \in Int
    BY <1>2, OperandFacts DEF LoadOp
  <2>2. L \in Machine /\ L = [m EXCEPT !.reg = L.reg]
        /\ \A x \in Registers \ {SCR0} : L.reg[x] = m.reg[x]
    BY <2>1, RegisterFacts DEF Machine
  <2>3. \A w \in Values(code) : Operand(L, w) = Operand(m, w)
    <3> TAKE w \in Values(code)
    <3>1. L.spill = m.spill
      BY <2>1 DEF Machine
    <3>2. Home(w) # None => L.reg[Home(w)] = m.reg[Home(w)]
      BY <2>2, HomeFacts
    <3> QED BY <3>1, <3>2, <2>2, SameOperand
  <2> QED BY <2>2, <2>3 DEF Operand
<1> QED BY <1>1, <1>2

(* A result changes its home, and SCR0 when that is a slot.                *)
LEMMA CommitFacts ==
  ASSUME NEW live, Contract(live), NEW m \in Machine, NEW v \in Values(code), NEW x \in Int
  PROVE  /\ Commit(m, v, x) \in Machine
         /\ Commit(m, v, x) = [m EXCEPT !.reg = Commit(m, v, x).reg,
                                        !.spill = Commit(m, v, x).spill]
         /\ Operand(Commit(m, v, x), v) = IF Home(v) = None /\ IsConst(v) THEN ConstOf(v) ELSE x
         /\ \A w \in Values(code) \ {v} :
              Apart(ra, w, v) => Operand(Commit(m, v, x), w) = Operand(m, w)
         /\ \A y \in Registers \ (CallerSaved \union Saved) : Commit(m, v, x).reg[y] = m.reg[y]
<1> DEFINE C == Commit(m, v, x)
<1>0. /\ m.reg \in [Registers -> Int]
      /\ m.spill \in [ToSet(ra.slot) \ {None} -> Int]
  BY DEF Machine
<1>1. C = IF Home(v) = None
          THEN [m EXCEPT !.reg[SCR0] = x, !.spill[ra.slot[v]] = x]
          ELSE [m EXCEPT !.reg[Home(v)] = x]
  BY DEF Commit, RegOf, Machine
<1>2. C \in Machine /\ C = [m EXCEPT !.reg = C.reg, !.spill = C.spill]
  <2>1. PICK g \in [Registers -> Int], s \in [ToSet(ra.slot) \ {None} -> Int] :
          C = [m EXCEPT !.reg = g, !.spill = s]
    <3>1. CASE Home(v) = None
      <4>1. [m.reg EXCEPT ![SCR0] = x] \in [Registers -> Int]
        BY <1>0, RegisterFacts
      <4>2. [m.spill EXCEPT ![ra.slot[v]] = x] \in [ToSet(ra.slot) \ {None} -> Int]
        BY <1>0
      <4>3. C = [m EXCEPT !.reg = [m.reg EXCEPT ![SCR0] = x],
                          !.spill = [m.spill EXCEPT ![ra.slot[v]] = x]]
        BY <3>1, <1>1
      <4> QED BY <4>1, <4>2, <4>3
    <3>2. CASE Home(v) # None
      <4>1. [m.reg EXCEPT ![Home(v)] = x] \in [Registers -> Int]
        BY <1>0
      <4>2. C = [m EXCEPT !.reg = [m.reg EXCEPT ![Home(v)] = x], !.spill = m.spill]
        BY <3>2, <1>1 DEF Machine
      <4> QED BY <4>1, <4>2, <1>0
    <3> QED BY <3>1, <3>2
  <2> QED BY <2>1 DEF Machine
<1>3. Operand(C, v) = IF Home(v) = None /\ IsConst(v) THEN ConstOf(v) ELSE x
  <2>1. CASE Home(v) = None
    <3>1. C.spill[ra.slot[v]] = x
      BY <2>1, <1>0, <1>1, HomeFacts DEF Machine
    <3> QED BY <2>1, <3>1, <1>2, OperandFacts DEF Stored
  <2>2. CASE Home(v) # None
    <3>1. C.reg[Home(v)] = x
      BY <2>2, <1>0, <1>1, HomeFacts DEF Machine
    <3> QED BY <2>2, <3>1, <1>2, OperandFacts
  <2> QED BY <2>1, <2>2
<1>4. ASSUME NEW w \in Values(code) \ {v}, Apart(ra, w, v)
      PROVE  Operand(C, w) = Operand(m, w)
  <2>1. ra.slot[v] # None => ra.slot[w] # ra.slot[v]
    BY DEF Contract, Allocated
  <2>2. Home(v) = None => ra.slot[v] # ra.slot[w]
    BY <2>1, HomeFacts
  <2>3. Home(w) = None => C.spill[ra.slot[w]] = m.spill[ra.slot[w]]
    BY <2>2, <1>0, <1>1, HomeFacts DEF Machine
  <2>4. Home(w) # None => C.reg[Home(w)] = m.reg[Home(w)]
    BY <1>0, <1>1, <1>4, HomeFacts DEF Machine, Apart, Home
  <2> QED BY <2>3, <2>4, <1>2, SameOperand
<1>5. \A y \in Registers \ (CallerSaved \union Saved) : C.reg[y] = m.reg[y]
  BY <1>0, <1>1, HomeFacts, RegistersAssumption DEF Machine
<1> QED BY <1>2, <1>3, <1>4, <1>5

-----------------------------------------------------------------------------
(* What lives where: along the flow of control nothing becomes needed but  *)
(* what an instruction sets.                                               *)

LEMMA ReadFacts ==
  ASSUME WellFormed(code)
  PROVE  /\ Read \subseteq Values(code) \ FrameSlots(code)
         /\ \A i \in DOMAIN code.insts : ValueOperands(code.insts[i]) \subseteq Read
BY DEF WellFormed, Read

LEMMA SlotFacts ==
  ASSUME WellFormed(code), NEW i \in DOMAIN code.insts,
         code.insts[i].op \in {"load", "store"}
  PROVE  code.insts[i].a \in Values(code)
BY DEF WellFormed

LEMMA LabelFacts ==
  ASSUME WellFormed(code), NEW i \in DOMAIN code.insts, NEW l \in LabelsOf(code.insts[i])
  PROVE  LabelPc(code, l) \in LabelPcs(code)
<1>1. \E j \in DOMAIN code.insts : code.insts[j].op = "label" /\ code.insts[j].imm = l
  BY DEF WellFormed, LabelPcs
<1>2. LET j == LabelPc(code, l) IN j \in DOMAIN code.insts /\ code.insts[j].op = "label"
  BY <1>1, Zenon DEF LabelPc
<1> QED BY <1>2 DEF LabelPcs

LEMMA IncomingFirst ==
  ASSUME WellFormed(code), NEW p \in Incoming, NEW i \in DOMAIN code.insts, i <= p
  PROVE  i \in Incoming
<1>1. i \in 1 .. p - 1 \/ i = p
  BY CodeFacts DEF Incoming
<1>2. \A j \in 1 .. p - 1 : code.insts[j].op = "param"
  BY DEF WellFormed, Incoming
<1> QED BY <1>1, <1>2 DEF Incoming

LEMMA RestAwaited ==
  ASSUME NEW live, NEW i \in DOMAIN code.insts
  PROVE  Rest(live, i) \subseteq Awaited(live, i)
BY DEF Rest, Awaited, Needs

LEMMA OperandsAwaited ==
  ASSUME NEW live, WellFormed(code), NEW i \in DOMAIN code.insts
  PROVE  ValueOperands(code.insts[i]) \subseteq Awaited(live, i)
BY ReadFacts DEF Awaited, Needs

LEMMA GoingOn ==
  ASSUME NEW live, Contract(live), NEW i \in DOMAIN code.insts, NEW j \in Goes(code, i),
         NEW v \in Awaited(live, j)
  PROVE  /\ v = code.insts[i].dst => SetsValue(code.insts[i]) \/ v \in Awaited(live, i)
         /\ v # code.insts[i].dst => v \in Rest(live, i) \/ (i \in Incoming /\ v \in Awaited(live, i))
         /\ v \in Values(code) /\ v \in Read
<1> DEFINE inst == code.insts[i]
<1>1. v \in Read /\ v \in Values(code) \ FrameSlots(code)
  BY ReadFacts DEF Contract, Awaited
<1>2. CASE v \in Needs(code, live, j)
  <2>1. v \in live[i]
    <3>1. Needs(code, live, j) \subseteq live[i]
      BY DEF Contract, Liveness
    <3> QED BY <3>1, <1>2
  <2>2. v # inst.dst => v \in Rest(live, i)
    BY <1>1, <2>1 DEF Rest
  <2>3. v = inst.dst /\ ~ SetsValue(inst) => v \in Awaited(live, i)
    <3> SUFFICES ASSUME v = inst.dst, ~ SetsValue(inst) PROVE v \in Awaited(live, i)
      OBVIOUS
    <3>1. inst.op \in {"param", "alloca"}
      <4>1. inst.dst = None \/ SetsValue(inst) \/ inst.op \in {"param", "alloca"}
        BY DEF Contract, WellFormed
      <4>2. v \in Nat
        BY <1>1, CodeFacts DEF Contract
      <4> QED BY <4>1, <4>2 DEF None
    <3>2. inst.op # "alloca"
      BY <1>1 DEF FrameSlots
    <3>3. i \in Incoming /\ v = ParamOf(i) /\ i >= i
      BY <3>1, <3>2, CodeFacts DEF Contract, Incoming, ParamOf
    <3> QED BY <3>3, <1>1 DEF Awaited
  <2> QED BY <1>1, <2>2, <2>3
<1>3. CASE \E p \in Incoming : p >= j /\ v = ParamOf(p)
  <2>1. PICK p \in Incoming : p >= j /\ v = ParamOf(p)
    BY <1>3
  <2>2. j \in DOMAIN code.insts
    BY DEF Awaited
  <2>3. j \in Incoming
    BY <2>1, <2>2, IncomingFirst, CodeFacts DEF Contract, Incoming
  <2>4. j \notin LabelPcs(code)
    BY <2>3 DEF Incoming, LabelPcs
  <2>5. j = i + 1
    BY <2>4, LabelFacts DEF Goes, Contract
  <2>6. i \in Incoming /\ p >= i
    BY <2>1, <2>5, CodeFacts, IncomingFirst DEF Contract, Incoming
  <2>7. v \in Awaited(live, i)
    BY <2>1, <2>6, <1>1 DEF Awaited
  <2> QED BY <2>6, <2>7, <1>1
<1> QED BY <1>2, <1>3 DEF Awaited

-----------------------------------------------------------------------------
(* Steps of the run and the machine together.                              *)

LEMMA HoldsMeans ==
  ASSUME NEW r, NEW m, NEW v
  PROVE  Holds(r, m, v) <=> r.val[v] = Undef \/ r.val[v] = Operand(m, v)
BY DEF Holds

LEMMA AdvanceFacts ==
  /\ \A r \in IRState :
       /\ Advance(r) \in IRState /\ Advance(r).pc = r.pc + 1
       /\ Advance(r).mem = r.mem /\ Advance(r).val = r.val
       /\ Advance(r) = [r EXCEPT !.pc = r.pc + 1]
  /\ \A m \in Machine :
       /\ Advance(m) \in Machine /\ Advance(m).pc = m.pc + 1
       /\ Advance(m).mem = m.mem /\ Advance(m).saved = m.saved
       /\ Advance(m).reg = m.reg /\ Advance(m).spill = m.spill
       /\ Advance(m) = [m EXCEPT !.pc = m.pc + 1]
BY DEF Advance, IRState, Machine

(* An instruction that sets a value: y is what it is, x what the machine   *)
(* puts in its home.                                                       *)
LEMMA SettingKeeps ==
  ASSUME NEW live, Contract(live), NEW r, NEW m, Typed(r, m), Kept(r, m),
         r.pc \in DOMAIN code.insts, SetsValue(code.insts[r.pc]),
         RestHolds(live, r, m),
         NEW x \in Int, NEW y \in Int, y \in {Undef, x},
         IsConst(code.insts[r.pc].dst) => x = ConstOf(code.insts[r.pc].dst),
         NEW r2, r2 = Advance([r EXCEPT !.val[code.insts[r.pc].dst] = y]),
         NEW m2, m2 = Advance(Commit(m, code.insts[r.pc].dst, x)),
         Goes(code, r.pc) = {r.pc + 1} \intersect DOMAIN code.insts
  PROVE  InStep(live, r2, m2)
<1> DEFINE i == r.pc
           d == code.insts[i].dst
           C == Commit(m, d, x)
<1>1. d \in Values(code) /\ m \in Machine /\ r \in IRState /\ m.pc = r.pc
  BY DEF Contract, WellFormed, Typed
<1>2. /\ C \in Machine
      /\ C = [m EXCEPT !.reg = C.reg, !.spill = C.spill]
      /\ Operand(C, d) = IF Home(d) = None /\ IsConst(d) THEN ConstOf(d) ELSE x
      /\ \A w \in Values(code) \ {d} : Apart(ra, w, d) => Operand(C, w) = Operand(m, w)
      /\ \A z \in Registers \ (CallerSaved \union Saved) : C.reg[z] = m.reg[z]
  BY <1>1, CommitFacts
<1>3. /\ r2 \in IRState /\ r2.pc = i + 1 /\ r2.mem = r.mem /\ r2.val = [r.val EXCEPT ![d] = y]
  <2>1. [r EXCEPT !.val[d] = y] \in IRState
    BY <1>1 DEF IRState
  <2>2. LET q == [r EXCEPT !.val[d] = y]
        IN  q.pc = i /\ q.mem = r.mem /\ q.val = [r.val EXCEPT ![d] = y]
    BY <1>1 DEF IRState
  <2> QED BY <2>1, <2>2, AdvanceFacts
<1>4. /\ m2 \in Machine /\ m2.pc = i + 1 /\ m2.mem = m.mem /\ m2.saved = m.saved
      /\ m2.reg = C.reg /\ m2.spill = C.spill
  <2>1. C.pc = i /\ C.mem = m.mem /\ C.saved = m.saved
    BY <1>1, <1>2 DEF Machine
  <2> QED BY <1>2, <2>1, AdvanceFacts
<1>5. Typed(r2, m2)
  BY <1>3, <1>4 DEF Typed
<1>6. r.val \in [Values(code) -> Int]
  BY <1>1 DEF IRState
<1>7. Kept(r2, m2)
  <2>1. ASSUME NEW v \in Values(code), IsConst(v) PROVE r2.val[v] \in {Undef, ConstOf(v)}
    BY <2>1, <1>3, <1>6 DEF Kept
  <2>2. \A s \in Values(code) : r2.mem[s] \in {Undef, m2.mem[s]}
    BY <1>3, <1>4 DEF Kept
  <2>3. \A z \in Saved : m2.saved[z] = CallersIn(z)
    BY <1>4 DEF Kept
  <2>4. \A z \in Registers \ (CallerSaved \union Saved) : m2.reg[z] = CallersIn(z)
    BY <1>2, <1>4 DEF Kept
  <2> QED BY <2>1, <2>2, <2>3, <2>4 DEF Kept
<1>8. \A v \in Values(code) : Operand(m2, v) = Operand(C, v)
  BY <1>2, <1>4, SameOperand
<1>9. ASSUME NEW v \in Awaited(live, r2.pc) PROVE Holds(r2, m2, v)
  <2>1. v \in Values(code) /\ v \in Read
    BY ReadFacts DEF Awaited, Contract
  <2>2. CASE v = d
    BY <2>1, <2>2, <1>2, <1>3, <1>6, <1>8 DEF Holds
  <2>3. CASE v # d
    <3>1. r2.pc \in Goes(code, i)
      BY <1>3 DEF Awaited
    <3>2. i \notin Incoming
      BY DEF Incoming, SetsValue
    <3>3. v \in Rest(live, i)
      BY <2>3, <3>1, <3>2, GoingOn
    <3>4. Apart(ra, v, d)
      BY <3>3 DEF Contract, Allocated, Rest
    <3>5. Operand(m2, v) = Operand(m, v) /\ r2.val[v] = r.val[v]
      BY <2>1, <2>3, <3>4, <1>2, <1>3, <1>6, <1>8
    <3> QED BY <3>3, <3>5 DEF Holds, RestHolds
  <2> QED BY <2>2, <2>3
<1> QED BY <1>5, <1>7, <1>9 DEF InStep

(* A machine whose scratch registers alone have changed.                   *)
LEMMA ScratchKeeps ==
  ASSUME NEW live, Contract(live), NEW r, NEW m, Typed(r, m), Kept(r, m),
         NEW v \in Values(code), NEW L, L = LoadOp(m, v)
  PROVE  /\ Typed(r, L) /\ Kept(r, L)
         /\ \A w \in Values(code) : Holds(r, L, w) <=> Holds(r, m, w)
<1>1. m \in Machine
  BY DEF Typed
<1>2. /\ L \in Machine
      /\ \A x \in Registers \ {SCR0} : L.reg[x] = m.reg[x]
      /\ L = [m EXCEPT !.reg = L.reg]
      /\ \A w \in Values(code) : Operand(L, w) = Operand(m, w)
  BY <1>1, LoadFacts
<1>3. L.pc = m.pc /\ L.mem = m.mem /\ L.saved = m.saved
  BY <1>1, <1>2 DEF Machine
<1>4. Typed(r, L)
  BY <1>2, <1>3 DEF Typed
<1>5. Kept(r, L)
  BY <1>2, <1>3, RegistersAssumption DEF Kept
<1> QED BY <1>2, <1>4, <1>5 DEF Holds

(* An instruction that sets nothing, and after which both are at j.        *)
LEMMA MovingOnKeeps ==
  ASSUME NEW live, Contract(live), NEW r, NEW m, InStep(live, r, m),
         r.pc \in DOMAIN code.insts, ~ SetsValue(code.insts[r.pc]),
         NEW j \in Nat, j \in DOMAIN code.insts => j \in Goes(code, r.pc),
         NEW r2, r2 = [r EXCEPT !.pc = j], NEW m2, m2 = [m EXCEPT !.pc = j]
  PROVE  InStep(live, r2, m2)
<1>1. r \in IRState /\ m \in Machine
  BY DEF InStep, Typed
<1>2. r2 \in IRState /\ r2.pc = j /\ r2.mem = r.mem /\ r2.val = r.val
  BY <1>1 DEF IRState
<1>3. /\ m2 \in Machine /\ m2.pc = j /\ m2.mem = m.mem /\ m2.saved = m.saved
      /\ m2.reg = m.reg /\ m2.spill = m.spill
  BY <1>1 DEF Machine
<1>4. Typed(r2, m2) /\ Kept(r2, m2)
  BY <1>2, <1>3 DEF InStep, Typed, Kept
<1>5. ASSUME NEW v \in Awaited(live, j) PROVE Holds(r2, m2, v)
  <2>1. v \in Values(code) /\ v \in Awaited(live, r.pc)
    <3>1. j \in Goes(code, r.pc)
      BY DEF Awaited
    <3> QED BY <3>1, GoingOn, RestAwaited
  <2>2. Operand(m2, v) = Operand(m, v)
    BY <2>1, <1>1, <1>3, SameOperand
  <2> QED BY <2>1, <2>2, <1>2 DEF Holds, InStep
<1> QED BY <1>2, <1>4, <1>5 DEF InStep

LEMMA StoringKeeps ==
  ASSUME NEW live, Contract(live), NEW r, NEW m, Typed(r, m), Kept(r, m),
         NEW s \in Values(code), NEW x \in Int, NEW y \in Int, y \in {Undef, x},
         NEW r2, r2 = [r EXCEPT !.mem[s] = y], NEW m2, m2 = [m EXCEPT !.mem[s] = x]
  PROVE  /\ Typed(r2, m2) /\ Kept(r2, m2) /\ r2.pc = r.pc
         /\ \A w \in Values(code) : Holds(r2, m2, w) <=> Holds(r, m, w)
<1>1. r \in IRState /\ m \in Machine /\ m.pc = r.pc
  BY DEF Typed
<1>2. r2 \in IRState /\ r2.pc = r.pc /\ r2.mem = [r.mem EXCEPT ![s] = y] /\ r2.val = r.val
  BY <1>1 DEF IRState
<1>3. /\ m2 \in Machine /\ m2.pc = m.pc /\ m2.mem = [m.mem EXCEPT ![s] = x]
      /\ m2.saved = m.saved /\ m2.reg = m.reg /\ m2.spill = m.spill
  BY <1>1 DEF Machine
<1>4. Typed(r2, m2)
  BY <1>1, <1>2, <1>3 DEF Typed
<1>5. r.mem \in [Values(code) -> Int] /\ m.mem \in [Values(code) -> Int]
  BY <1>1 DEF IRState, Machine
<1>6. Kept(r2, m2)
  BY <1>2, <1>3, <1>5 DEF Kept
<1>7. \A w \in Values(code) : Operand(m2, w) = Operand(m, w)
  BY <1>1, <1>3, SameOperand
<1> QED BY <1>2, <1>4, <1>6, <1>7 DEF Holds

LEMMA StraightKeeps ==
  ASSUME NEW live, Contract(live), NEW r, NEW m, InStep(live, r, m),
         r.pc \in DOMAIN code.insts, code.insts[r.pc].op \notin Observable,
         NEW r2, r2 = Silent(code, r), NEW m2, m2 = Emit(m, code.insts[r.pc])
  PROVE  InStep(live, r2, m2)
<1> DEFINE i == r.pc
           inst == code.insts[i]
<1>1. r \in IRState /\ m \in Machine /\ m.pc = i /\ Typed(r, m) /\ Kept(r, m)
  BY DEF InStep, Typed
<1>2. i \in DOMAIN code.insts /\ i \in Nat /\ i + 1 \in Nat /\ WellFormed(code)
  BY CodeFacts DEF Contract
<1>3. RestHolds(live, r, m)
  BY RestAwaited DEF InStep, RestHolds
<1>4. \A w \in ValueOperands(inst) : Holds(r, m, w) /\ w \in Values(code)
  BY <1>2, OperandsAwaited, ReadFacts DEF InStep
<1>5. inst.op \notin {"br", "cbr", "table", "jmp_ptr", "return"} =>
        Goes(code, i) = {i + 1} \intersect DOMAIN code.insts
  BY Zenon DEF Goes
<1>6. r.val \in [Values(code) -> Int] /\ r.mem \in [Values(code) -> Int]
      /\ m.mem \in [Values(code) -> Int]
  BY <1>1 DEF IRState, Machine
<1>7. CASE inst.op = "br"
  <2>1. inst.imm \in LabelsOf(inst) /\ Goes(code, i) = {LabelPc(code, l) : l \in LabelsOf(inst)}
    BY <1>7 DEF LabelsOf, Goes
  <2>2. LabelPc(code, inst.imm) \in LabelPcs(code)
    BY <2>1, <1>2, LabelFacts
  <2>3. LabelPc(code, inst.imm) \in Nat /\ LabelPc(code, inst.imm) \in Goes(code, i)
    BY <2>1, <2>2, <1>2, CodeFacts DEF LabelPcs
  <2>4. /\ r2 = [r EXCEPT !.pc = LabelPc(code, inst.imm)]
        /\ m2 = [m EXCEPT !.pc = LabelPc(code, inst.imm)]
    BY <1>7 DEF Silent, Emit
  <2>5. ~ SetsValue(inst)
    BY <1>7 DEF SetsValue
  <2>6. LabelPc(code, inst.imm) \in DOMAIN code.insts =>
          LabelPc(code, inst.imm) \in Goes(code, i)
    BY <2>3
  <2> QED BY <2>3, <2>4, <2>5, <2>6, MovingOnKeeps
<1>8. CASE inst.op = "const"
  <2>1. SetsValue(inst) /\ inst.imm \in Int /\ inst.imm = ConstOf(inst.dst)
    BY <1>2, <1>8, CodeFacts, ConstFacts DEF SetsValue
  <2>2. /\ r2 = Advance([r EXCEPT !.val[inst.dst] = inst.imm])
        /\ m2 = Advance(Commit(m, inst.dst, inst.imm))
    BY <1>8 DEF Silent, Emit
  <2> QED BY <2>1, <2>2, <1>1, <1>2, <1>3, <1>5, <1>8, SettingKeeps
<1>9. CASE inst.op = "addr"
  <2>1. SetsValue(inst) /\ Address \in Int /\ ~ IsConst(inst.dst)
    BY <1>2, <1>9, ConstFacts DEF SetsValue, Address
  <2>2. /\ r2 = Advance([r EXCEPT !.val[inst.dst] = Address])
        /\ m2 = Advance(Commit(m, inst.dst, Address))
    BY <1>9 DEF Silent, Emit
  <2> QED BY <2>1, <2>2, <1>1, <1>2, <1>3, <1>5, <1>9, SettingKeeps
<1>10. CASE inst.op = "copy"
  <2> DEFINE L == LoadOp(m, inst.a)
             x == Operand(m, inst.a)
             y == r.val[inst.a]
  <2>1. SetsValue(inst) /\ ~ IsConst(inst.dst) /\ inst.a \in ValueOperands(inst)
    BY <1>2, <1>10, ConstFacts DEF SetsValue, ValueOperands
  <2>2. inst.a \in Values(code) /\ y \in {Undef, x} /\ y \in Int
    BY <2>1, <1>4, <1>6 DEF Holds
  <2>3. x \in Int
    BY <2>2, <1>1, OperandFacts
  <2>4. Typed(r, L) /\ Kept(r, L) /\ RestHolds(live, r, L)
    <3>1. Rest(live, i) \subseteq Values(code)
      BY <1>2, ReadFacts DEF Rest
    <3>2. Typed(r, L) /\ Kept(r, L) /\ \A w \in Values(code) : Holds(r, L, w) <=> Holds(r, m, w)
      BY <1>1, <2>2, ScratchKeeps
    <3> QED BY <3>1, <3>2, <1>3 DEF RestHolds
  <2>5. /\ r2 = Advance([r EXCEPT !.val[inst.dst] = y])
        /\ m2 = Advance(Commit(L, inst.dst, x))
    BY <1>10 DEF Silent, Emit
  <2> QED BY <2>1, <2>2, <2>3, <2>4, <2>5, <1>2, <1>5, <1>10, SettingKeeps
<1>11. CASE inst.op = "load"
  <2> DEFINE x == m.mem[inst.a]
             y == r.mem[inst.a]
  <2>1. SetsValue(inst) /\ ~ IsConst(inst.dst) /\ inst.a \in Values(code)
    <3>1. SetsValue(inst) /\ ~ IsConst(inst.dst)
      BY <1>2, <1>11, ConstFacts DEF SetsValue
    <3>2. inst.a \in Values(code)
      BY <1>2, <1>11, SlotFacts
    <3> QED BY <3>1, <3>2
  <2>2. x \in Int /\ y \in Int /\ y \in {Undef, x}
    BY <1>1, <2>1, <1>6 DEF Kept
  <2>3. /\ r2 = Advance([r EXCEPT !.val[inst.dst] = y])
        /\ m2 = Advance(Commit(m, inst.dst, x))
    BY <1>11 DEF Silent, Emit
  <2> QED BY <2>1, <2>2, <2>3, <1>1, <1>2, <1>3, <1>5, <1>11, SettingKeeps
<1>12. CASE inst.op = "store"
  <2> DEFINE L == LoadOp(m, inst.b)
             x == Operand(m, inst.b)
             y == r.val[inst.b]
             r1 == [r EXCEPT !.mem[inst.a] = y]
             m1 == [L EXCEPT !.mem[inst.a] = x]
  <2>1. ~ SetsValue(inst) /\ inst.a \in Values(code) /\ inst.b \in ValueOperands(inst)
    <3>1. ~ SetsValue(inst) /\ inst.b \in ValueOperands(inst)
      BY <1>12 DEF SetsValue, ValueOperands
    <3>2. inst.a \in Values(code)
      BY <1>2, <1>12, SlotFacts
    <3> QED BY <3>1, <3>2
  <2>2. inst.b \in Values(code) /\ y \in {Undef, x} /\ y \in Int
    BY <2>1, <1>4, <1>6 DEF Holds
  <2>3. x \in Int
    BY <2>2, <1>1, OperandFacts
  <2>4. Typed(r, L) /\ Kept(r, L) /\ \A w \in Values(code) : Holds(r, L, w) <=> Holds(r, m, w)
    BY <1>1, <2>2, ScratchKeeps
  <2>5. /\ Typed(r1, m1) /\ Kept(r1, m1) /\ r1.pc = i
        /\ \A w \in Values(code) : Holds(r1, m1, w) <=> Holds(r, m, w)
    <3>1. \A w \in Values(code) : Holds(r1, m1, w) <=> Holds(r, L, w)
      <4> HIDE DEF L, x, y
      <4> QED BY <2>1, <2>2, <2>3, <2>4, StoringKeeps
    <3>2. Typed(r1, m1) /\ Kept(r1, m1) /\ r1.pc = i
      <4> HIDE DEF L, x, y
      <4> QED BY <2>1, <2>2, <2>3, <2>4, StoringKeeps
    <3> QED BY <3>1, <3>2, <2>4
  <2>6. \A v \in Awaited(live, i) : Holds(r1, m1, v)
    <3>1. Awaited(live, i) \subseteq Values(code)
      BY <1>2, ReadFacts DEF Awaited
    <3>2. \A v \in Awaited(live, i) : Holds(r, m, v)
      BY DEF InStep
    <3> QED BY <2>5, <3>1, <3>2
  <2>7. r2 = [r1 EXCEPT !.pc = i + 1] /\ m2 = [m1 EXCEPT !.pc = i + 1]
    <3>1. r2 = Advance(r1) /\ m2 = Advance(m1)
      BY <1>12 DEF Silent, Emit
    <3>2. r1 \in IRState /\ m1 \in Machine /\ r1.pc = i /\ m1.pc = i
      BY <2>5 DEF Typed
    <3>3. Advance(r1) = [r1 EXCEPT !.pc = i + 1] /\ Advance(m1) = [m1 EXCEPT !.pc = i + 1]
      BY <3>2 DEF Advance
    <3> QED BY <3>1, <3>3
  <2>8. i + 1 \in DOMAIN code.insts => i + 1 \in Goes(code, i)
    BY <1>5, <1>12
  <2> QED
    <3> HIDE DEF r1, m1
    <3>1. InStep(live, r1, m1)
      BY <2>5, <2>6 DEF InStep
    <3>2. /\ r1.pc \in DOMAIN code.insts /\ ~ SetsValue(code.insts[r1.pc])
          /\ i + 1 \in DOMAIN code.insts => i + 1 \in Goes(code, r1.pc)
      BY <2>1, <2>5, <2>8
    <3> QED BY <3>1, <3>2, <2>5, <2>7, <1>2, MovingOnKeeps
<1>13. CASE inst.op \notin {"br", "const", "addr", "copy", "load", "store"}
  <2>1. ~ SetsValue(inst) /\ inst.op \notin {"cbr", "table", "jmp_ptr", "return"}
    BY <1>13 DEF SetsValue, Observable
  <2>2. r2 = Advance(r) /\ m2 = Advance(m)
    BY <1>13 DEF Silent, Emit
  <2>3. r2 = [r EXCEPT !.pc = i + 1] /\ m2 = [m EXCEPT !.pc = i + 1]
    BY <2>2, <1>1, AdvanceFacts
  <2>4. i + 1 \in DOMAIN code.insts => i + 1 \in Goes(code, i)
    BY <2>1, <1>5, <1>13
  <2> QED BY <2>1, <2>3, <2>4, <1>2, MovingOnKeeps
<1> QED BY <1>7, <1>8, <1>9, <1>10, <1>11, <1>12, <1>13

(* The scratch register is no value's home.                                *)
LEMMA SpoilingKeeps ==
  ASSUME NEW live, Contract(live), NEW r, NEW m, InStep(live, r, m), WellFormed(code),
         NEW x \in Int, NEW n, n = [m EXCEPT !.reg[SCR0] = x]
  PROVE  InStep(live, r, n)
<1>1. m \in Machine /\ r \in IRState /\ m.pc = r.pc /\ Kept(r, m)
  BY DEF InStep, Typed
<1>2. /\ n \in Machine /\ n.pc = m.pc /\ n.mem = m.mem /\ n.saved = m.saved
      /\ n.spill = m.spill
      /\ \A y \in Registers \ {SCR0} : n.reg[y] = m.reg[y]
  BY <1>1, RegisterFacts DEF Machine
<1>3. \A w \in Values(code) : Operand(n, w) = Operand(m, w)
  BY <1>1, <1>2, SameOperand, HomeFacts
<1>4. Typed(r, n)
  BY <1>1, <1>2 DEF Typed
<1>5. Kept(r, n)
  BY <1>1, <1>2, RegistersAssumption DEF Kept
<1>6. Awaited(live, r.pc) \subseteq Values(code)
  BY ReadFacts DEF Awaited
<1> QED BY <1>3, <1>4, <1>5, <1>6 DEF InStep, Holds

LEMMA LoadingKeeps ==
  ASSUME NEW live, Contract(live), NEW r, NEW m, InStep(live, r, m), WellFormed(code),
         NEW v \in Values(code)
  PROVE  InStep(live, r, LoadOp(m, v)) /\ InStep(live, r, LoadPtrV(m, v))
<1>1. m \in Machine
  BY DEF InStep, Typed
<1>2. Home(v) = None => m.spill[ra.slot[v]] \in Int /\ Stored(m, v) \in Int
  BY <1>1, HomeFacts, OperandFacts DEF Machine
<1>3. InStep(live, r, LoadOp(m, v))
  BY <1>2, SpoilingKeeps DEF LoadOp
<1>4. InStep(live, r, LoadPtrV(m, v))
  BY <1>2, SpoilingKeeps DEF LoadPtrV
<1> QED BY <1>3, <1>4

(* The code of a branch finds the label that the IR branches to: the       *)
(* index of a table is in a register that the comparisons leave alone.     *)
LEMMA BranchTaken ==
  ASSUME NEW live, Contract(live), NEW m \in Machine, NEW inst,
         NEW i \in DOMAIN code.insts, inst = code.insts[i],
         inst.op \in {"cbr", "table"}, inst.a \in Values(code),
         NEW x \in Int, x = Operand(m, inst.a)
  PROVE  /\ EmitBranch(m, inst) = BranchLabel(inst, x)
         /\ BranchLabel(inst, x) \in LabelsOf(inst)
<1> DEFINE L == LoadOp(m, inst.a)
<1>1. L \in Machine /\ L.reg[RegOf(inst.a)] = x
  BY LoadFacts
<1>2. CASE inst.op = "cbr"
  BY <1>1, <1>2 DEF EmitBranch, BranchLabel, LabelsOf
<1>3. CASE inst.op = "table"
  <2> DEFINE hits == {k \in DOMAIN inst.args : Equals(L, inst.a, k - 1)}
  <2>1. Home(inst.a) # None
    BY <1>3 DEF Contract, IndexesHeld, Home
  <2>2. RegOf(inst.a) # SCR0 /\ RegOf(inst.a) \in Registers
    BY <2>1, HomeFacts DEF RegOf
  <2>3. inst.args \in Seq(Int)
    BY CodeFacts DEF Contract
  <2>4. \A k \in DOMAIN inst.args : k \in Nat /\ (Equals(L, inst.a, k - 1) <=> x = k - 1)
    <3> TAKE k \in DOMAIN inst.args
    <3>1. [L EXCEPT !.reg[SCR0] = k - 1].reg[RegOf(inst.a)] = x
      BY <1>1, <2>2 DEF Machine
    <3> QED BY <3>1, <2>3 DEF Equals
  <2>5. hits = {x + 1} \intersect DOMAIN inst.args
    BY <2>4
  <2>6. CASE x + 1 \in DOMAIN inst.args
    <3>1. hits = {x + 1} /\ hits \subseteq Nat /\ hits # {}
      BY <2>4, <2>5, <2>6
    <3>2. Min(hits) = x + 1
      BY <3>1, MinFacts
    <3>3. EmitBranch(m, inst) = inst.args[x + 1]
      BY <3>1, <3>2, <1>3 DEF EmitBranch
    <3>4. BranchLabel(inst, x) = inst.args[x + 1]
      BY <2>6, <1>3 DEF BranchLabel
    <3> QED BY <3>3, <3>4, <2>6, <1>3 DEF LabelsOf, ToSet
  <2>7. CASE x + 1 \notin DOMAIN inst.args
    <3>1. hits = {}
      BY <2>5, <2>7
    <3>2. EmitBranch(m, inst) = inst.imm
      BY <3>1, <1>3 DEF EmitBranch
    <3>3. BranchLabel(inst, x) = inst.imm
      BY <2>7, <1>3 DEF BranchLabel
    <3> QED BY <3>2, <3>3, <1>3 DEF LabelsOf
  <2> QED BY <2>6, <2>7
<1> QED BY <1>2, <1>3

LEMMA BranchKeeps ==
  ASSUME NEW live, Contract(live), WellFormed(code), NEW r, NEW m, InStep(live, r, m),
         NEW inst, r.pc \in DOMAIN code.insts, inst = code.insts[r.pc],
         inst.op \in {"cbr", "table"}, r.val[inst.a] # Undef
  PROVE  InStep(live, Branch(code, r),
                [LoadOp(m, inst.a) EXCEPT !.pc = LabelPc(code, EmitBranch(m, inst))])
<1> DEFINE x == r.val[inst.a]
           l == BranchLabel(inst, x)
           j == LabelPc(code, l)
           L == LoadOp(m, inst.a)
<1>1. inst.a \in ValueOperands(inst)
  BY DEF ValueOperands
<1>2. inst.a \in Values(code) /\ inst.a \in Awaited(live, r.pc)
  BY <1>1, ReadFacts, OperandsAwaited
<1>3. m \in Machine /\ x = Operand(m, inst.a) /\ x \in Int
  <2>1. m \in Machine /\ r \in IRState /\ Holds(r, m, inst.a)
    BY <1>2 DEF InStep, Typed
  <2> QED BY <2>1, <1>2, OperandFacts DEF Holds
<1>4. EmitBranch(m, inst) = l /\ l \in LabelsOf(inst)
  BY <1>2, <1>3, BranchTaken
<1>5. j \in LabelPcs(code)
  BY <1>4, LabelFacts
<1>6. Goes(code, r.pc) = {LabelPc(code, k) : k \in LabelsOf(inst)}
  BY DEF Goes
<1>7. j \in Nat /\ (j \in DOMAIN code.insts => j \in Goes(code, r.pc))
  BY <1>4, <1>5, <1>6, CodeFacts DEF LabelPcs
<1>8. InStep(live, r, L)
  BY <1>2, LoadingKeeps
<1>9. ~ SetsValue(code.insts[r.pc])
  BY DEF SetsValue
<1>10. Branch(code, r) = [r EXCEPT !.pc = j]
  BY DEF Branch
<1> HIDE DEF j, L
<1>11. InStep(live, [r EXCEPT !.pc = j], [L EXCEPT !.pc = j])
  BY <1>7, <1>8, <1>9, MovingOnKeeps
<1> USE DEF j, L
<1> QED BY <1>4, <1>10, <1>11

LEMMA JumpKeeps ==
  ASSUME NEW live, Contract(live), WellFormed(code), NEW r, NEW m, InStep(live, r, m),
         NEW inst, r.pc \in DOMAIN code.insts, inst = code.insts[r.pc],
         inst.op = "jmp_ptr", NEW j \in LabelPcs(code)
  PROVE  InStep(live, [r EXCEPT !.pc = j], [LoadPtrV(m, inst.a) EXCEPT !.pc = j])
<1> DEFINE L == LoadPtrV(m, inst.a)
<1>1. inst.a \in Values(code)
  <2>1. inst.a \in ValueOperands(inst)
    BY DEF ValueOperands
  <2> QED BY <2>1, ReadFacts
<1>2. InStep(live, r, L)
  BY <1>1, LoadingKeeps
<1>3. j \in Nat /\ j \in Goes(code, r.pc)
  BY CodeFacts DEF LabelPcs, Goes
<1>4. ~ SetsValue(code.insts[r.pc])
  BY DEF SetsValue
<1> HIDE DEF L
<1>5. InStep(live, [r EXCEPT !.pc = j], [L EXCEPT !.pc = j])
  BY <1>2, <1>3, <1>4, MovingOnKeeps
<1> QED BY <1>5 DEF L

LEMMA ReturnKeeps ==
  ASSUME NEW live, Contract(live), WellFormed(code), NEW r, NEW m, InStep(live, r, m),
         NEW inst, r.pc \in DOMAIN code.insts, inst = code.insts[r.pc], inst.op = "return",
         NEW m2, m2 = [m EXCEPT !.reg = [x \in Registers |->
                        CASE x \in DOMAIN m.saved -> m.saved[x]
                          [] x = X0 /\ x \notin DOMAIN m.saved -> Operand(m, inst.a)
                          [] OTHER -> LoadOp(m, inst.a).reg[x]]]
  PROVE  Typed(r, m2) /\ Returns(r, m2)
<1>1. m \in Machine /\ r \in IRState /\ m.pc = r.pc /\ Kept(r, m)
  BY DEF InStep, Typed
<1>2. inst.a \in Values(code) /\ Holds(r, m, inst.a)
  <2>1. inst.a \in ValueOperands(inst)
    BY DEF ValueOperands
  <2> QED BY <2>1, ReadFacts, OperandsAwaited DEF InStep
<1> DEFINE L == LoadOp(m, inst.a)
<1>3. L \in Machine /\ (\A x \in Registers \ {SCR0} : L.reg[x] = m.reg[x])
      /\ Operand(m, inst.a) \in Int
  BY <1>1, <1>2, LoadFacts, OperandFacts
<1>4. m.saved \in [Saved -> Int] /\ L.reg \in [Registers -> Int] /\ Saved \subseteq Registers \ CallerSaved
  <2>1. \A v \in Values(code) : ra.reg[v] \in Registers \union {None}
    BY HomeFacts DEF Home
  <2>2. Saved \subseteq Registers \ CallerSaved
    BY <2>1 DEF Saved
  <2>3. m.saved \in [Saved -> Int]
    BY <1>1 DEF Machine
  <2>4. L.reg \in [Registers -> Int]
    BY <1>3 DEF Machine
  <2> QED BY <2>2, <2>3, <2>4
<1>5. \A x \in Registers :
        m2.reg[x] = IF x \in Saved THEN m.saved[x]
                    ELSE IF x = X0 THEN Operand(m, inst.a) ELSE L.reg[x]
  BY <1>1, <1>4 DEF Machine
<1>6. m2 \in Machine /\ m2.pc = m.pc
  <2>1. PICK g \in [Registers -> Int] : m2 = [m EXCEPT !.reg = g]
    <3> DEFINE g == [x \in Registers |->
                        CASE x \in DOMAIN m.saved -> m.saved[x]
                          [] x = X0 /\ x \notin DOMAIN m.saved -> Operand(m, inst.a)
                          [] OTHER -> LoadOp(m, inst.a).reg[x]]
    <3>1. \A x \in Registers : g[x] \in Int
      BY <1>3, <1>4
    <3>2. g \in [Registers -> Int]
      BY <3>1
    <3> QED BY <3>2
  <2> QED BY <2>1, <1>1 DEF Machine
<1>7. X0 \in Registers /\ X0 \in CallerSaved /\ SCR0 \in CallerSaved
  BY RegistersAssumption, RegisterFacts DEF X0
<1>8. m2.reg[X0] = Operand(m, inst.a)
  BY <1>4, <1>5, <1>7
<1>9. ASSUME NEW x \in Registers \ CallerSaved PROVE m2.reg[x] = CallersIn(x)
  <2>1. CASE x \in Saved
    BY <2>1, <1>1, <1>5 DEF Kept
  <2>2. CASE x \notin Saved
    BY <2>2, <1>1, <1>3, <1>5, <1>7 DEF Kept
  <2> QED BY <2>1, <2>2
<1> QED BY <1>1, <1>2, <1>6, <1>8, <1>9 DEF Typed, Returns, Holds

-----------------------------------------------------------------------------
(* Calls.                                                                  *)

LEMMA CallFacts ==
  ASSUME NEW live, Contract(live), WellFormed(code), NEW i \in DOMAIN code.insts,
         code.insts[i].op = "call"
  PROVE  /\ DOMAIN ArgsAt(i) \subseteq 1 .. 8
         /\ \A n \in DOMAIN ArgsAt(i) :
              /\ ArgReg(n) \in Registers /\ ArgReg(n) \in CallerSaved
              /\ ArgReg(n) # SCR0 /\ ArgReg(n) # None
              /\ ArgsAt(i)[n] \in Values(code) /\ ArgsAt(i)[n] \in ValueOperands(code.insts[i])
         /\ \A v \in Rest(live, i) : v \in Values(code) /\ Home(v) \notin CallerSaved
<1>1. ArgsAt(i) \in Seq(Int) /\ Len(ArgsAt(i)) <= 8
  <2>1. ArgsAt(i) \in Seq(Int)
    BY CodeFacts DEF ArgsAt
  <2>2. Len(ArgsAt(i)) <= 8
    BY DEF WellFormed, ArgsAt
  <2> QED BY <2>1, <2>2
<1>2. DOMAIN ArgsAt(i) \subseteq 1 .. 8
  <2> DEFINE len == Len(ArgsAt(i))
  <2>1. DOMAIN ArgsAt(i) = 1 .. len /\ len \in Nat
    BY <1>1
  <2>2. len \in Nat /\ len <= 8
    BY <1>1, <2>1
  <2>3. 1 .. len \subseteq 1 .. 8
    <3> HIDE DEF len
    <3> QED BY <2>2
  <2> QED BY <2>1, <2>3
<1>3. \A n \in DOMAIN ArgsAt(i) : ArgsAt(i)[n] \in ValueOperands(code.insts[i])
  BY DEF ValueOperands, ArgsAt, ToSet
<1>4. \A n \in DOMAIN ArgsAt(i) : ArgsAt(i)[n] \in Values(code)
  BY <1>3, ReadFacts
<1>5. \A n \in DOMAIN ArgsAt(i) :
        ArgReg(n) \in Registers /\ ArgReg(n) \in CallerSaved /\ ArgReg(n) # SCR0 /\ ArgReg(n) # None
  BY <1>2, RegisterFacts DEF ArgReg
<1>6. \A v \in Rest(live, i) : v \in Values(code)
  BY ReadFacts DEF Rest
<1>7. \A v \in Rest(live, i) : Home(v) \notin CallerSaved
  BY DEF Rest, Contract, Allocated, Home
<1> QED BY <1>2, <1>3, <1>4, <1>5, <1>6, <1>7

(* A register that a call overwrites, or a scratch register, is changed:   *)
(* what lives over the call is untouched.                                  *)
LEMMA ArgumentRegisterKeeps ==
  ASSUME NEW live, Contract(live), WellFormed(code), NEW r, NEW m, Typed(r, m), Kept(r, m),
         r.pc \in DOMAIN code.insts, code.insts[r.pc].op = "call", RestHolds(live, r, m),
         NEW g \in [Registers -> Int],
         \A y \in Registers \ CallerSaved : g[y] = m.reg[y],
         NEW n, n = [m EXCEPT !.reg = g]
  PROVE  /\ Typed(r, n) /\ Kept(r, n) /\ RestHolds(live, r, n)
         /\ n.reg = g /\ \A v : Stored(n, v) = Stored(m, v)
<1>1. m \in Machine /\ r \in IRState /\ m.pc = r.pc
  BY DEF Typed
<1>2. /\ n \in Machine /\ n.pc = m.pc /\ n.mem = m.mem /\ n.saved = m.saved
      /\ n.spill = m.spill /\ n.reg = g
  BY <1>1 DEF Machine
<1>3. Typed(r, n) /\ Kept(r, n)
  BY <1>1, <1>2 DEF Typed, Kept
<1>4. ASSUME NEW v \in Rest(live, r.pc) PROVE Holds(r, n, v)
  <2>1. v \in Values(code) /\ Home(v) \notin CallerSaved
    BY CallFacts
  <2>2. Operand(n, v) = Operand(m, v)
    <3>1. Home(v) # None => n.reg[Home(v)] = m.reg[Home(v)]
      BY <2>1, <1>2, HomeFacts
    <3> QED BY <2>1, <3>1, <1>1, <1>2, SameOperand
  <2> QED BY <2>2, <1>4 DEF Holds, RestHolds
<1>5. \A v : Stored(n, v) = Stored(m, v)
  BY <1>2 DEF Stored
<1> QED BY <1>2, <1>3, <1>4, <1>5 DEF RestHolds

LEMMA HereFacts ==
  ASSUME OpAt(code, run) # "end"
  PROVE  run.pc \in DOMAIN code.insts /\ Here.op = OpAt(code, run)
BY DEF OpAt, Here

LEMMA BeginCallKeeps ==
  ASSUME NEW live, Contract(live), WellFormed(code),
         StageOK(live, stage, run, mach, moves), BeginCall
  PROVE  StageOK(live, stage', run', mach', moves')
<1> DEFINE i == run.pc
           from(n) == IF IsConst(Here.args[n]) THEN None ELSE Home(Here.args[n])
<1>1. /\ stage = "running" /\ stage' = "passing" /\ run' = run /\ mach' = mach
      /\ i \in DOMAIN code.insts /\ code.insts[i].op = "call" /\ Here.args = ArgsAt(i)
  BY HereFacts DEF BeginCall, At, Here, ArgsAt
<1>2. InStep(live, run, mach)
  BY <1>1 DEF StageOK
<1>3. mach \in Machine /\ run \in IRState /\ Kept(run, mach) /\ Typed(run, mach)
  BY <1>2 DEF InStep, Typed
<1>4. moves'.todo = DOMAIN ArgsAt(i) /\ moves'.src = [n \in DOMAIN ArgsAt(i) |-> from(n)]
  BY <1>1 DEF BeginCall, Idle
<1>5. ASSUME NEW n \in DOMAIN ArgsAt(i)
      PROVE  /\ from(n) \in Registers \union {None}
             /\ from(n) = None => Home(ArgsAt(i)[n]) = None \/ IsConst(ArgsAt(i)[n])
             /\ run.val[ArgsAt(i)[n]] \in {Undef, ArgFrom(mach, moves', ArgsAt(i)[n], n)}
  <2> DEFINE v == ArgsAt(i)[n]
  <2>1. v \in Values(code) /\ v \in ValueOperands(code.insts[i]) /\ v = Here.args[n]
    BY <1>1, CallFacts
  <2>2. Home(v) \in Registers \union {None}
    BY <2>1, HomeFacts
  <2>3. Holds(run, mach, v)
    BY <2>1, <1>1, <1>2, OperandsAwaited DEF InStep
  <2>4. moves'.src[n] = from(n)
    BY <1>4
  <2>5. CASE IsConst(v)
    <3>1. run.val[v] \in {Undef, ConstOf(v)}
      BY <2>1, <2>5, <1>3 DEF Kept
    <3>2. ArgFrom(mach, moves', v, n) = ConstOf(v)
      BY <2>1, <2>4, <2>5 DEF ArgFrom, Stored
    <3> QED BY <2>1, <2>5, <3>1, <3>2
  <2>6. CASE ~ IsConst(v)
    <3>1. Operand(mach, v) = ArgFrom(mach, moves', v, n)
      BY <2>1, <2>4, <2>6, <1>3, OperandFacts DEF ArgFrom
    <3> QED BY <2>1, <2>2, <2>3, <2>6, <3>1 DEF Holds
  <2> QED BY <2>5, <2>6
<1>6. RestHolds(live, run, mach)
  BY <1>1, <1>2, RestAwaited DEF RestHolds, InStep
<1>7. moves'.src \in [DOMAIN ArgsAt(i) -> Registers \union {None}]
  BY <1>4, <1>5
<1>8. \A n \in moves'.todo :
        /\ moves'.src[n] = None => Home(ArgsAt(i)[n]) = None \/ IsConst(ArgsAt(i)[n])
        /\ run.val[ArgsAt(i)[n]] \in {Undef, ArgFrom(mach, moves', ArgsAt(i)[n], n)}
  BY <1>4, <1>5
<1>9. Passing(live, run', mach', moves')
  BY <1>1, <1>4, <1>6, <1>7, <1>8 DEF Passing
<1>10. moves'.todo \subseteq Incoming \union 1 .. 8
  BY <1>1, <1>4, CallFacts
<1> QED BY <1>1, <1>3, <1>9, <1>10 DEF StageOK

LEMMA PassArgumentKeeps ==
  ASSUME NEW live, Contract(live), WellFormed(code),
         StageOK(live, stage, run, mach, moves), PassArgument
  PROVE  StageOK(live, stage', run', mach', moves')
<1> DEFINE i == run.pc
           n == Min(FreeArgs)
           v == ArgsAt(i)[n]
           x == ArgFrom(mach, moves, v, n)
           g == [mach.reg EXCEPT ![ArgReg(n)] = x]
<1>1. /\ stage = "passing" /\ stage' = "passing" /\ run' = run
      /\ Passing(live, run, mach, moves) /\ Typed(run, mach) /\ Kept(run, mach)
  BY DEF PassArgument, StageOK
<1>2. mach \in Machine /\ i \in DOMAIN code.insts /\ code.insts[i].op = "call"
  BY <1>1 DEF Typed, Passing
<1>3. n \in moves.todo /\ n \in DOMAIN ArgsAt(i) /\ ~ ArgHeld(n)
  <2>1. FreeArgs \subseteq Nat /\ FreeArgs # {}
    BY <1>1, <1>2, CallFacts DEF FreeArgs, PassArgument, Passing
  <2>2. n \in FreeArgs
    BY <2>1, MinFacts
  <2> QED BY <2>2, <1>1 DEF FreeArgs, Passing
<1>4. /\ ArgReg(n) \in Registers /\ ArgReg(n) \in CallerSaved
      /\ v \in Values(code)
  BY <1>2, <1>3, CallFacts
<1>5. x \in Int /\ mach.reg \in [Registers -> Int]
  <2>1. mach.reg \in [Registers -> Int]
    BY <1>2 DEF Machine
  <2>2. CASE moves.src[n] = None
    <3>1. Home(v) = None \/ IsConst(v)
      BY <1>1, <1>3, <2>2 DEF Passing
    <3>2. Stored(mach, v) \in Int
      BY <3>1, <1>2, <1>4, OperandFacts, ConstFacts DEF Stored
    <3> QED BY <2>1, <2>2, <3>2 DEF ArgFrom
  <2>3. CASE moves.src[n] # None
    <3>1. moves.src[n] \in Registers
      BY <1>1, <1>3, <2>3 DEF Passing
    <3> QED BY <2>1, <2>3, <3>1 DEF ArgFrom
  <2> QED BY <2>2, <2>3, <2>1
<1>6. mach' = [mach EXCEPT !.reg = g] /\ moves'.todo = moves.todo \ {n} /\ moves'.src = moves.src
  <2>1. Here.args[n] = v
    BY DEF Here, ArgsAt
  <2>2. mach' = [mach EXCEPT !.reg[ArgReg(n)] =
                   IF moves.src[n] = None THEN Stored(mach, v) ELSE mach.reg[moves.src[n]]]
    BY <2>1 DEF PassArgument
  <2>3. mach' = [mach EXCEPT !.reg = g]
    BY <2>2 DEF ArgFrom
  <2>4. moves' = [moves EXCEPT !.todo = moves.todo \ {n}]
    BY DEF PassArgument, Done
  <2> QED BY <2>3, <2>4, <1>1 DEF Passing
<1>7. g \in [Registers -> Int] /\ \A y \in Registers \ CallerSaved : g[y] = mach.reg[y]
  BY <1>4, <1>5
<1>8. /\ Typed(run, mach') /\ Kept(run, mach') /\ RestHolds(live, run, mach')
      /\ mach'.reg = g /\ \A w : Stored(mach', w) = Stored(mach, w)
  <2> HIDE DEF g
  <2>1. RestHolds(live, run, mach)
    BY <1>1 DEF Passing
  <2> QED BY <1>1, <1>2, <1>6, <1>7, <2>1, ArgumentRegisterKeeps
<1>9. ASSUME NEW k \in DOMAIN ArgsAt(i) \ moves'.todo
      PROVE  run.val[ArgsAt(i)[k]] \in {Undef, mach'.reg[ArgReg(k)]}
  <2>1. CASE k = n
    <3>1. mach'.reg[ArgReg(n)] = x
      BY <1>4, <1>5, <1>8
    <3> QED BY <2>1, <3>1, <1>1, <1>3 DEF Passing
  <2>2. CASE k # n
    <3>1. k \notin moves.todo /\ ArgReg(k) # ArgReg(n) /\ ArgReg(k) \in Registers
      BY <2>2, <1>2, <1>3, <1>6, CallFacts DEF ArgReg, X0
    <3>2. mach'.reg[ArgReg(k)] = mach.reg[ArgReg(k)]
      BY <3>1, <1>5, <1>8
    <3> QED BY <3>1, <3>2, <1>1 DEF Passing
  <2> QED BY <2>1, <2>2
<1>10. ASSUME NEW k \in moves'.todo
       PROVE  run.val[ArgsAt(i)[k]] \in {Undef, ArgFrom(mach', moves', ArgsAt(i)[k], k)}
  <2>1. k \in moves.todo /\ k # n
    BY <1>6
  <2>2. moves.src[k] # ArgReg(n)
    BY <2>1, <1>3 DEF ArgHeld
  <2>3. moves.src[k] \in Registers \union {None}
    BY <2>1, <1>1 DEF Passing
  <2>4. moves.src[k] # None => mach'.reg[moves.src[k]] = mach.reg[moves.src[k]]
    BY <2>2, <2>3, <1>5, <1>8
  <2>5. ArgFrom(mach', moves', ArgsAt(i)[k], k) = ArgFrom(mach, moves, ArgsAt(i)[k], k)
    BY <2>4, <1>6, <1>8 DEF ArgFrom
  <2> QED BY <2>1, <2>5, <1>1 DEF Passing
<1>11. Passing(live, run', mach', moves')
  BY <1>1, <1>6, <1>8, <1>9, <1>10 DEF Passing
<1>12. moves'.todo \subseteq Incoming \union 1 .. 8
  BY <1>1, <1>6 DEF StageOK
<1> QED BY <1>1, <1>8, <1>11, <1>12 DEF StageOK

(* When every move waits for another, no two read the same register, and   *)
(* none reads SCR0.                                                        *)
LEMMA WaitingMoves ==
  ASSUME moves.todo \subseteq 1 .. 8,
         \A n \in moves.todo : \E m \in moves.todo : moves.src[m] = ArgReg(n)
  PROVE  \A m \in moves.todo : \E n \in moves.todo : moves.src[m] = ArgReg(n)
<1> DEFINE T == moves.todo
           src == moves.src
           f == [n \in T |-> CHOOSE m \in T : src[m] = ArgReg(n)]
<1>1. \A n \in T : f[n] \in T /\ src[f[n]] = ArgReg(n)
  <2> TAKE n \in T
  <2>1. \E m \in T : src[m] = ArgReg(n)
    OBVIOUS
  <2>2. LET c == CHOOSE m \in T : src[m] = ArgReg(n) IN c \in T /\ src[c] = ArgReg(n)
    BY <2>1, Zenon
  <2> QED BY <2>2
<1>2. \A n \in T : n \in Int
  OBVIOUS
<1> HIDE DEF f
<1>3. \A n, m \in T : f[n] = f[m] => n = m
  <2> SUFFICES ASSUME NEW n \in T, NEW m \in T, f[n] = f[m] PROVE n = m
    OBVIOUS
  <2>1. ArgReg(n) = ArgReg(m)
    BY <1>1, Zenon
  <2>2. n \in Int /\ m \in Int
    BY <1>2
  <2> QED BY <2>1, <2>2 DEF ArgReg, X0
<1>4. f \in [T -> T]
  BY <1>1 DEF f
<1>5. IsFiniteSet(T)
  <2>1. IsFiniteSet(1 .. 8)
    <3>1. PICK k \in Int, n \in Int : k = 1 /\ n = 8
      OBVIOUS
    <3>2. IsFiniteSet(k .. n)
      BY FS_Interval
    <3> QED BY <3>1, <3>2
  <2> QED BY <2>1, FS_Subset
<1>6. \A m \in T : \E n \in T : f[n] = m
  BY <1>3, <1>4, <1>5, OneToOneIsOnto
<1> QED BY <1>1, <1>6

LEMMA ParkArgumentKeeps ==
  ASSUME NEW live, Contract(live), WellFormed(code),
         StageOK(live, stage, run, mach, moves), ParkArgument
  PROVE  StageOK(live, stage', run', mach', moves')
<1> DEFINE i == run.pc
           n == Min({k \in moves.todo : moves.src[k] # None})
           x == mach.reg[moves.src[n]]
           g == [mach.reg EXCEPT ![SCR0] = x]
<1>1. /\ stage = "passing" /\ stage' = "passing" /\ run' = run
      /\ Passing(live, run, mach, moves) /\ Typed(run, mach) /\ Kept(run, mach)
  BY DEF ParkArgument, StageOK
<1>2. mach \in Machine /\ i \in DOMAIN code.insts /\ code.insts[i].op = "call"
  BY <1>1 DEF Typed, Passing
<1>3. moves.todo \subseteq 1 .. 8 /\ moves.todo \subseteq DOMAIN ArgsAt(i) /\ moves.todo # {}
  BY <1>1, <1>2, CallFacts DEF Passing, ParkArgument
<1>4. \A k \in moves.todo : \E m \in moves.todo : moves.src[m] = ArgReg(k)
  BY DEF ParkArgument, FreeArgs, ArgHeld
<1>5. \A m \in moves.todo : \E k \in moves.todo : moves.src[m] = ArgReg(k)
  BY <1>3, <1>4, WaitingMoves
<1>6. \A m \in moves.todo : moves.src[m] \in Registers /\ moves.src[m] # SCR0 /\ moves.src[m] # None
  BY <1>2, <1>3, <1>5, CallFacts
<1>7. n \in moves.todo
  <2>1. {k \in moves.todo : moves.src[k] # None} \subseteq Nat
    BY <1>3
  <2>2. {k \in moves.todo : moves.src[k] # None} # {}
    BY <1>3, <1>6
  <2> QED BY <2>1, <2>2, MinFacts
<1>8. mach.reg \in [Registers -> Int] /\ x \in Int /\ SCR0 \in Registers /\ SCR0 \in CallerSaved
  BY <1>2, <1>6, <1>7, RegistersAssumption, RegisterFacts DEF Machine
<1>9. /\ mach' = [mach EXCEPT !.reg = g] /\ moves'.todo = moves.todo
      /\ moves'.src = [moves.src EXCEPT ![n] = SCR0]
  <2>1. moves' = [moves EXCEPT !.src[n] = SCR0]
    BY DEF ParkArgument, Parked
  <2>2. mach' = [mach EXCEPT !.reg[SCR0] = x]
    BY DEF ParkArgument
  <2> QED BY <2>1, <2>2, <1>1, <1>7 DEF Passing
<1>10. g \in [Registers -> Int] /\ \A y \in Registers \ CallerSaved : g[y] = mach.reg[y]
  BY <1>8
<1>11. /\ Typed(run, mach') /\ Kept(run, mach') /\ RestHolds(live, run, mach')
       /\ mach'.reg = g /\ \A w : Stored(mach', w) = Stored(mach, w)
  <2> HIDE DEF g
  <2>1. RestHolds(live, run, mach)
    BY <1>1 DEF Passing
  <2> QED BY <1>1, <1>2, <1>9, <1>10, <2>1, ArgumentRegisterKeeps
<1>12. ASSUME NEW k \in DOMAIN ArgsAt(i) \ moves'.todo
       PROVE  run.val[ArgsAt(i)[k]] \in {Undef, mach'.reg[ArgReg(k)]}
  <2>1. k \notin moves.todo /\ ArgReg(k) # SCR0 /\ ArgReg(k) \in Registers
    BY <1>2, <1>9, CallFacts
  <2>2. mach'.reg[ArgReg(k)] = mach.reg[ArgReg(k)]
    BY <2>1, <1>8, <1>11
  <2> QED BY <2>1, <2>2, <1>1 DEF Passing
<1>13. ASSUME NEW k \in moves'.todo
       PROVE  /\ moves'.src[k] \in Registers /\ moves'.src[k] # None
              /\ run.val[ArgsAt(i)[k]] \in {Undef, ArgFrom(mach', moves', ArgsAt(i)[k], k)}
  <2>1. k \in moves.todo /\ k \in DOMAIN moves.src
    BY <1>1, <1>9 DEF Passing
  <2>2. moves'.src[k] # None /\ moves'.src[k] \in Registers
    BY <2>1, <1>6, <1>8, <1>9, RegisterFacts
  <2>3. mach'.reg[moves'.src[k]] = mach.reg[moves.src[k]]
    BY <2>1, <1>6, <1>8, <1>9, <1>11
  <2>4. ArgFrom(mach', moves', ArgsAt(i)[k], k) = ArgFrom(mach, moves, ArgsAt(i)[k], k)
    BY <2>1, <2>2, <2>3, <1>6 DEF ArgFrom
  <2> QED BY <2>1, <2>2, <2>4, <1>1 DEF Passing
<1>14. moves'.src \in [DOMAIN ArgsAt(i) -> Registers \union {None}]
  BY <1>1, <1>8, <1>9 DEF Passing
<1>15. Passing(live, run', mach', moves')
  BY <1>1, <1>9, <1>11, <1>12, <1>13, <1>14 DEF Passing
<1>16. moves'.todo \subseteq Incoming \union 1 .. 8
  BY <1>1, <1>9 DEF StageOK
<1> QED BY <1>1, <1>11, <1>15, <1>16 DEF StageOK

(* After a call that has no result.                                        *)
LEMMA CallingKeeps ==
  ASSUME NEW live, Contract(live), WellFormed(code), NEW r, NEW m, Typed(r, m), Kept(r, m),
         r.pc \in DOMAIN code.insts, code.insts[r.pc].op = "call",
         code.insts[r.pc].dst = None, RestHolds(live, r, m)
  PROVE  InStep(live, Advance(r), Advance(m))
<1> DEFINE i == r.pc
           r2 == Advance(r)
           m2 == Advance(m)
<1>1. r \in IRState /\ m \in Machine /\ m.pc = i
  BY DEF Typed
<1>2. /\ r2 \in IRState /\ r2.pc = i + 1 /\ r2.mem = r.mem /\ r2.val = r.val
      /\ m2 \in Machine /\ m2.pc = i + 1 /\ m2.mem = m.mem /\ m2.saved = m.saved
      /\ m2.reg = m.reg /\ m2.spill = m.spill
  BY <1>1, AdvanceFacts
<1> HIDE DEF r2, m2
<1>3. Typed(r2, m2) /\ Kept(r2, m2)
  BY <1>2 DEF Typed, Kept
<1>4. ASSUME NEW v \in Awaited(live, r2.pc) PROVE Holds(r2, m2, v)
  <2>1. i + 1 \in Goes(code, i)
    BY <1>2, <1>4 DEF Goes, Awaited
  <2>2. v \in Values(code) /\ v \in Awaited(live, i + 1)
    BY <1>2, ReadFacts DEF Awaited
  <2>3. v # None /\ i \notin Incoming
    BY <2>2, CodeFacts DEF None, Incoming
  <2>4. v \in Rest(live, i)
    BY <2>1, <2>2, <2>3, GoingOn
  <2>5. Operand(m2, v) = Operand(m, v)
    BY <2>2, <1>1, <1>2, SameOperand
  <2> QED BY <2>4, <2>5, <1>2 DEF Holds, RestHolds
<1>5. InStep(live, r2, m2)
  BY <1>3, <1>4 DEF InStep
<1> QED BY <1>5 DEF r2, m2

LEMMA CallStepKeeps ==
  ASSUME NEW live, Contract(live), WellFormed(code),
         StageOK(live, stage, run, mach, moves), CallStep
  PROVE  StageOK(live, stage', run', mach', moves')
<1> DEFINE i == run.pc
           inst == code.insts[i]
<1>1. /\ stage = "passing" /\ stage' = "running" /\ moves' = Idle
      /\ Passing(live, run, mach, moves) /\ Typed(run, mach) /\ Kept(run, mach)
  BY DEF CallStep, StageOK
<1>2. /\ mach \in Machine /\ run \in IRState /\ i \in DOMAIN code.insts /\ inst.op = "call"
      /\ RestHolds(live, run, mach) /\ Here = inst
  BY <1>1 DEF Typed, Passing, Here
<1>3. PICK q \in {0, 1} : run' = Returned(code, run, q) /\ mach' = AfterCall(q)
  BY DEF CallStep, Data
<1> DEFINE g == [x \in Registers |-> IF x = X0 THEN q ELSE IF x \in CallerSaved THEN Junk
                                     ELSE mach.reg[x]]
           m == [mach EXCEPT !.reg = g]
<1>4. mach.reg \in [Registers -> Int] /\ X0 \in CallerSaved
  BY <1>2, RegistersAssumption DEF Machine, X0
<1>5. g \in [Registers -> Int] /\ \A y \in Registers \ CallerSaved : g[y] = mach.reg[y]
  <2>1. \A x \in Registers : g[x] \in Int
    BY <1>4 DEF Junk
  <2> QED BY <2>1, <1>4
<1>6. Typed(run, m) /\ Kept(run, m) /\ RestHolds(live, run, m)
  <2> HIDE DEF g
  <2> QED BY <1>1, <1>2, <1>5, ArgumentRegisterKeeps
<1>7. mach' = Advance(IF inst.dst = None THEN m ELSE Commit(m, inst.dst, q))
  BY <1>2, <1>3 DEF AfterCall
<1>8. run' = Advance(IF inst.dst = None THEN run ELSE [run EXCEPT !.val[inst.dst] = q])
  BY <1>3 DEF Returned
<1> HIDE DEF m, g
<1>9. InStep(live, run', mach')
  <2>1. CASE inst.dst = None
    <3>1. run' = Advance(run) /\ mach' = Advance(m)
      BY <2>1, <1>7, <1>8
    <3>2. InStep(live, Advance(run), Advance(m))
      BY <2>1, <1>2, <1>6, CallingKeeps
    <3> QED BY <3>1, <3>2
  <2>2. CASE inst.dst # None
    <3>1. SetsValue(inst)
      BY <2>2, <1>2 DEF SetsValue
    <3>2. ~ IsConst(inst.dst)
      BY <1>2, ConstFacts
    <3>3. Goes(code, i) = {i + 1} \intersect DOMAIN code.insts
      BY <1>2 DEF Goes
    <3>4. q \in Int /\ q \in {Undef, q}
      BY <1>3
    <3>5. /\ run' = Advance([run EXCEPT !.val[inst.dst] = q])
          /\ mach' = Advance(Commit(m, inst.dst, q))
      BY <2>2, <1>7, <1>8
    <3> QED BY <3>1, <3>2, <3>3, <3>4, <3>5, <1>2, <1>6, SettingKeeps
  <2> QED BY <2>1, <2>2
<1>10. Typed(run', mach') /\ Kept(run', mach') /\ moves'.todo = {}
  BY <1>1, <1>9 DEF InStep, Idle
<1> QED BY <1>1, <1>9, <1>10 DEF StageOK

LEMMA RunningKeeps ==
  ASSUME NEW live, Contract(live), WellFormed(code),
         StageOK(live, stage, run, mach, moves),
         Straight \/ BranchStep \/ JumpStep \/ ReturnStep
  PROVE  StageOK(live, stage', run', mach', moves')
<1>1. stage = "running" /\ moves = Idle /\ moves' = Idle /\ InStep(live, run, mach)
  BY DEF Straight, BranchStep, JumpStep, ReturnStep, At, StageOK
<1>2. moves'.todo = {}
  BY <1>1 DEF Idle
<1>3. stage' = "running" /\ InStep(live, run', mach') => StageOK(live, stage', run', mach', moves')
  BY <1>1, <1>2 DEF StageOK, InStep
<1>4. CASE Straight
  <2>1. run.pc \in DOMAIN code.insts /\ code.insts[run.pc].op \notin Observable
    BY <1>4 DEF Straight, Stopped, OpAt, Observable
  <2>2. run' = Silent(code, run) /\ mach' = Emit(mach, code.insts[run.pc]) /\ stage' = "running"
    BY <1>1, <1>4 DEF Straight, Here
  <2>3. InStep(live, run', mach')
    BY <2>1, <2>2, <1>1, StraightKeeps
  <2> QED BY <2>2, <2>3, <1>3
<1>5. CASE BranchStep
  <2>1. /\ run.pc \in DOMAIN code.insts /\ Here.op \in {"cbr", "table"}
        /\ Here = code.insts[run.pc] /\ run.val[Here.a] # Undef
    BY <1>5, HereFacts DEF BranchStep, At, Here
  <2>2. /\ run' = Branch(code, run) /\ stage' = "running"
        /\ mach' = [LoadOp(mach, Here.a) EXCEPT !.pc = LabelPc(code, EmitBranch(mach, Here))]
    BY <1>1, <1>5 DEF BranchStep
  <2>3. InStep(live, Branch(code, run),
               [LoadOp(mach, Here.a) EXCEPT !.pc = LabelPc(code, EmitBranch(mach, Here))])
    BY <2>1, <1>1, BranchKeeps
  <2> QED BY <2>2, <2>3, <1>3
<1>6. CASE JumpStep
  <2>1. run.pc \in DOMAIN code.insts /\ Here.op = "jmp_ptr" /\ Here = code.insts[run.pc]
    BY <1>6, HereFacts DEF JumpStep, At, Here
  <2>2. PICK j \in LabelPcs(code) :
          /\ run' = [run EXCEPT !.pc = j] /\ stage' = "running"
          /\ mach' = [LoadPtrV(mach, Here.a) EXCEPT !.pc = j]
    BY <1>1, <1>6 DEF JumpStep, LabelPcs
  <2>3. InStep(live, [run EXCEPT !.pc = j], [LoadPtrV(mach, Here.a) EXCEPT !.pc = j])
    BY <2>1, <1>1, JumpKeeps
  <2> QED BY <2>2, <2>3, <1>3
<1>7. CASE ReturnStep
  <2>1. run.pc \in DOMAIN code.insts /\ Here.op = "return" /\ Here = code.insts[run.pc]
    BY <1>7, HereFacts DEF ReturnStep, At, Here
  <2>2. /\ stage' = "returned" /\ run' = run
        /\ mach' = [mach EXCEPT !.reg = [x \in Registers |->
                      CASE x \in DOMAIN mach.saved -> mach.saved[x]
                        [] x = X0 /\ x \notin DOMAIN mach.saved -> Operand(mach, Here.a)
                        [] OTHER -> LoadOp(mach, Here.a).reg[x]]]
    BY <1>7 DEF ReturnStep
  <2>3. Typed(run, mach') /\ Returns(run, mach')
    BY <2>1, <2>2, <1>1, ReturnKeeps
  <2> QED BY <2>2, <2>3, <1>2 DEF StageOK
<1> QED BY <1>4, <1>5, <1>6, <1>7

-----------------------------------------------------------------------------
(* The prologue.                                                           *)

LEMMA ParamFacts ==
  ASSUME NEW live, Contract(live), WellFormed(code), NEW p \in Incoming
  PROVE  /\ p \in Nat /\ p \in DOMAIN code.insts
         /\ ParamOf(p) \in Values(code) /\ ~ IsConst(ParamOf(p))
         /\ code.insts[p].imm \in 1 .. 8 /\ Arrives(p) = code.insts[p].imm - 1
         /\ Arrives(p) \in Registers /\ Arrives(p) # SCR0 /\ Arrives(p) # SCR1 /\ Arrives(p) # None
         /\ \A q \in Incoming \ {p} : /\ ParamOf(q) # ParamOf(p) /\ Arrives(q) # Arrives(p)
                                      /\ Apart(ra, ParamOf(p), ParamOf(q))
<1>1. p \in DOMAIN code.insts /\ code.insts[p].op = "param" /\ p \in Nat
  BY CodeFacts DEF Incoming
<1>2. ParamOf(p) \in Values(code) /\ code.insts[p].imm \in 1 .. 8
  BY <1>1 DEF WellFormed, ParamOf
<1>3. ~ IsConst(ParamOf(p))
  BY <1>1, ConstFacts DEF ParamOf
<1>4. Arrives(p) = code.insts[p].imm - 1
  BY <1>2 DEF Arrives, X0
<1>5. Arrives(p) \in Registers /\ Arrives(p) # SCR0 /\ Arrives(p) # SCR1 /\ Arrives(p) # None
  BY <1>2, RegisterFacts DEF Arrives
<1>6. ASSUME NEW q \in Incoming, NEW k \in Incoming, k < q
      PROVE  /\ ParamOf(q) # ParamOf(k) /\ Arrives(q) # Arrives(k)
             /\ Apart(ra, ParamOf(q), ParamOf(k))
  <2>1. /\ q \in DOMAIN code.insts /\ k \in DOMAIN code.insts /\ code.insts[q].op = "param"
        /\ q \in Nat /\ k \in Nat /\ k \in 1 .. q - 1
    BY <1>6, CodeFacts DEF Incoming
  <2>2. code.insts[k].dst # code.insts[q].dst /\ code.insts[k].imm # code.insts[q].imm
    BY <2>1 DEF WellFormed
  <2>3. code.insts[k].imm \in Int /\ code.insts[q].imm \in Int
    BY <2>1, CodeFacts
  <2>4. Apart(ra, code.insts[q].dst, code.insts[k].dst)
    BY <2>1 DEF Contract, Allocated
  <2>5. Arrives(q) # Arrives(k)
    <3>1. \A x, y \in Int : x # y => X0 + x - 1 # X0 + y - 1
      BY DEF X0
    <3> QED BY <3>1, <2>2, <2>3 DEF Arrives
  <2> QED BY <2>2, <2>4, <2>5 DEF ParamOf
<1>7. ASSUME NEW q \in Incoming \ {p}
      PROVE  /\ ParamOf(q) # ParamOf(p) /\ Arrives(q) # Arrives(p)
             /\ Apart(ra, ParamOf(p), ParamOf(q))
  <2>1. q \in Nat /\ (q < p \/ p < q)
    BY <1>1, CodeFacts DEF Incoming
  <2>2. CASE q < p
    BY <2>2, <1>6, Zenon
  <2>3. CASE p < q
    <3>1. ParamOf(q) # ParamOf(p) /\ Arrives(q) # Arrives(p) /\ Apart(ra, ParamOf(q), ParamOf(p))
      BY <2>3, <1>6, Zenon
    <3> QED BY <3>1 DEF Apart
  <2> QED BY <2>1, <2>2, <2>3
<1> QED BY <1>1, <1>2, <1>3, <1>4, <1>5, <1>7

LEMMA IncomingFinite ==
  ASSUME WellFormed(code), NEW S, S \subseteq Incoming
  PROVE  IsFiniteSet(S) /\ S \subseteq Nat
<1>1. S \subseteq 1 .. Len(code.insts) /\ Len(code.insts) \in Nat
  BY CodeFacts DEF Incoming
<1>2. IsFiniteSet(1 .. Len(code.insts))
  <2>1. PICK k \in Int, n \in Int : k = 1 /\ n = Len(code.insts)
    BY <1>1
  <2>2. IsFiniteSet(k .. n)
    BY FS_Interval
  <2> QED BY <2>1, <2>2
<1>3. IsFiniteSet(S)
  BY <1>1, <1>2, FS_Subset
<1>4. S \subseteq Nat
  BY <1>1
<1> QED BY <1>3, <1>4

LEMMA EnterKeeps ==
  ASSUME NEW live, Contract(live), WellFormed(code),
         StageOK(live, stage, run, mach, moves), Enter
  PROVE  StageOK(live, stage', run', mach', moves')
<1> DEFINE par(v) == CHOOSE p \in Incoming : ParamOf(p) = v
           val == [v \in Values(code) |-> IF \E p \in Incoming : ParamOf(p) = v
                                          THEN Passed(code.insts[par(v)].imm) ELSE Undef]
           reg == [x \in Registers |-> IF x < 8 THEN Passed(x + 1) ELSE CallersIn(x)]
           slots == ToSet(ra.slot) \ {None}
<1>1. run' = [pc |-> 1, mem |-> [s \in Values(code) |-> Undef], val |-> val]
  BY DEF Enter, Start, Values
<1>2. mach' = [pc |-> 1, reg |-> reg, spill |-> [s \in slots |-> Junk],
               mem |-> [s \in Values(code) |-> Undef], saved |-> [x \in Saved |-> CallersIn(x)]]
  BY DEF Enter
<1>3. /\ stage' = "entering" /\ moves'.todo = ToMove /\ moves'.first = None
      /\ moves'.src = [p \in Incoming |-> Arrives(p)]
  BY DEF Enter, Idle, ToMove
<1>4. ASSUME NEW p \in Incoming PROVE par(ParamOf(p)) = p
  <2>1. \E q \in Incoming : ParamOf(q) = ParamOf(p)
    OBVIOUS
  <2>2. par(ParamOf(p)) \in Incoming /\ ParamOf(par(ParamOf(p))) = ParamOf(p)
    BY <2>1, Zenon
  <2> HIDE DEF par
  <2>3. \A q \in Incoming \ {p} : ParamOf(q) # ParamOf(p)
    BY ParamFacts
  <2> QED BY <2>2, <2>3
<1> HIDE DEF par
<1>5. \A v \in Values(code) : val[v] \in Int
  <2> TAKE v \in Values(code)
  <2>1. CASE \E p \in Incoming : ParamOf(p) = v
    <3>1. PICK p \in Incoming : ParamOf(p) = v
      BY <2>1
    <3>2. val[v] = Passed(code.insts[p].imm)
      BY <3>1, <1>4
    <3>3. code.insts[p].imm \in Int
      BY ParamFacts
    <3> QED BY <3>2, <3>3 DEF Passed
  <2>2. CASE ~ \E p \in Incoming : ParamOf(p) = v
    BY <2>2 DEF Undef
  <2> QED BY <2>1, <2>2
<1>6. ASSUME NEW p \in Incoming
      PROVE  val[ParamOf(p)] = Passed(code.insts[p].imm) /\ reg[Arrives(p)] = val[ParamOf(p)]
  <2>1. val[ParamOf(p)] = Passed(code.insts[p].imm)
    BY <1>4, ParamFacts
  <2>2. Arrives(p) \in Registers /\ Arrives(p) < 8 /\ Arrives(p) + 1 = code.insts[p].imm
    BY ParamFacts
  <2> QED BY <2>1, <2>2
<1>7. ASSUME NEW v \in Values(code)
      PROVE  v \in {ParamOf(p) : p \in Incoming} \/ val[v] = Undef
  OBVIOUS
<1>8. Saved \subseteq Registers /\ Registers \subseteq Nat
  <2>1. \A v \in Values(code) : ra.reg[v] \in Registers \union {None}
    BY HomeFacts DEF Home
  <2> QED BY <2>1, RegisterFacts DEF Saved
<1>9. run' \in IRState
  <2>1. val \in [Values(code) -> Int]
    BY <1>5
  <2> HIDE DEF val
  <2> QED BY <1>1, <2>1 DEF IRState, Undef
<1>10. mach' \in Machine
  <2>1. reg \in [Registers -> Int]
    BY <1>8 DEF Passed, CallersIn
  <2>2. [x \in Saved |-> CallersIn(x)] \in [Saved -> Int]
    BY <1>8 DEF CallersIn
  <2> HIDE DEF reg
  <2> QED BY <1>2, <2>1, <2>2 DEF Machine, Undef, Junk
<1>11. Typed(run', mach')
  BY <1>1, <1>2, <1>9, <1>10 DEF Typed
<1>12. Kept(run', mach')
  <2>1. ASSUME NEW v \in Values(code), IsConst(v) PROVE run'.val[v] = Undef
    <3>1. v \notin {ParamOf(p) : p \in Incoming}
      BY <2>1, ParamFacts
    <3>2. val[v] = Undef
      BY <3>1, <1>7
    <3> HIDE DEF val
    <3> QED BY <3>2, <1>1
  <2>2. \A s \in Values(code) : run'.mem[s] = Undef
    BY <1>1
  <2>3. \A x \in Saved : mach'.saved[x] = CallersIn(x)
    BY <1>2
  <2>4. \A x \in Registers \ (CallerSaved \union Saved) : mach'.reg[x] = CallersIn(x)
    <3> TAKE x \in Registers \ (CallerSaved \union Saved)
    <3>1. ~ (x < 8)
      BY <1>8, RegistersAssumption DEF X0
    <3>2. mach'.reg = reg
      BY <1>2
    <3> QED BY <3>1, <3>2
  <2> QED BY <2>1, <2>2, <2>3, <2>4 DEF Kept
<1>13. EntryValues(run')
  <2>1. run'.pc = 1 /\ run'.val = val
    BY <1>1
  <2> QED BY <2>1, <1>6, <1>7 DEF EntryValues
<1>14. ASSUME NEW p \in Incoming \ ToMove, ParamIsUsed(p)
       PROVE  Operand(mach', ParamOf(p)) = run'.val[ParamOf(p)]
  <2>1. ParamHome(p) = Arrives(p) /\ ParamOf(p) \in Values(code) /\ Arrives(p) # None
    BY <1>14, ParamFacts DEF ToMove
  <2>2. Operand(mach', ParamOf(p)) = mach'.reg[Arrives(p)]
    BY <2>1, <1>10, OperandFacts DEF ParamHome
  <2>3. run'.val = val /\ mach'.reg = reg
    BY <1>1, <1>2
  <2> QED BY <2>2, <2>3, <1>6
<1>15. \A p \in Incoming : mach'.reg[Arrives(p)] = run'.val[ParamOf(p)]
  <2>1. run'.val = val /\ mach'.reg = reg
    BY <1>1, <1>2
  <2> QED BY <2>1, <1>6
<1>16. ToMove \subseteq Incoming
  BY DEF ToMove
<1>17. Entering(run', mach', moves')
  BY <1>3, <1>13, <1>14, <1>15, <1>16 DEF Entering
<1> QED BY <1>3, <1>11, <1>12, <1>16, <1>17 DEF StageOK

(* A parameter is put in its home: it is there, and the others stay where  *)
(* they are.                                                               *)
Placed(m, p, x) ==
  IF ParamHome(p) = None
  THEN [m EXCEPT !.reg[SCR1] = x, !.spill[ra.slot[ParamOf(p)]] = x]
  ELSE [m EXCEPT !.reg[ParamHome(p)] = x]

LEMMA PlacingKeeps ==
  ASSUME NEW live, Contract(live), WellFormed(code), NEW r, NEW m, Typed(r, m), Kept(r, m),
         NEW p \in Incoming, NEW x \in Int,
         NEW n, n = Placed(m, p, x)
  PROVE  /\ Typed(r, n) /\ Kept(r, n) /\ Operand(n, ParamOf(p)) = x
         /\ \A q \in Incoming \ {p} : Operand(n, ParamOf(q)) = Operand(m, ParamOf(q))
         /\ \A y \in Registers \ {SCR1, ParamHome(p)} : n.reg[y] = m.reg[y]
<1> DEFINE v == ParamOf(p)
<1>1. m \in Machine /\ m.pc = r.pc /\ r \in IRState
  BY DEF Typed
<1>2. m.reg \in [Registers -> Int] /\ m.spill \in [ToSet(ra.slot) \ {None} -> Int]
  BY <1>1 DEF Machine
<1>3. v \in Values(code) /\ ~ IsConst(v) /\ Home(v) = ParamHome(p)
  BY ParamFacts DEF ParamHome
<1>4. /\ Home(v) # None => Home(v) \in Registers /\ Home(v) \in Saved \union CallerSaved
      /\ Home(v) = None => ra.slot[v] \in ToSet(ra.slot) \ {None}
  BY <1>3, HomeFacts
<1> DEFINE reg == IF Home(v) = None THEN [m.reg EXCEPT ![SCR1] = x] ELSE [m.reg EXCEPT ![Home(v)] = x]
           spill == IF Home(v) = None THEN [m.spill EXCEPT ![ra.slot[v]] = x] ELSE m.spill
<1>5. n = [m EXCEPT !.reg = reg, !.spill = spill]
  <2>1. CASE Home(v) = None
    BY <2>1, <1>3 DEF Placed
  <2>2. CASE Home(v) # None
    BY <2>2, <1>1, <1>3 DEF Machine, Placed
  <2> QED BY <2>1, <2>2
<1>6. reg \in [Registers -> Int] /\ spill \in [ToSet(ra.slot) \ {None} -> Int]
  BY <1>2, <1>4, RegisterFacts
<1>7. /\ n \in Machine /\ n.pc = m.pc /\ n.mem = m.mem /\ n.saved = m.saved
      /\ n.reg = reg /\ n.spill = spill
  <2> HIDE DEF reg, spill
  <2> QED BY <1>1, <1>5, <1>6 DEF Machine
<1>8. Typed(r, n)
  BY <1>1, <1>7 DEF Typed
<1>9. \A y \in Registers \ {SCR1, Home(v)} : reg[y] = m.reg[y]
  BY <1>2
<1>10. Kept(r, n)
  <2>1. \A y \in Registers \ (CallerSaved \union Saved) : reg[y] = m.reg[y]
    BY <1>2, <1>4, RegistersAssumption
  <2> HIDE DEF reg, spill
  <2> QED BY <1>7, <2>1 DEF Kept
<1>11. Operand(n, v) = x
  <2>1. CASE Home(v) = None
    <3>1. n.spill[ra.slot[v]] = x
      BY <2>1, <1>2, <1>4, <1>7
    <3>2. Operand(n, v) = n.spill[ra.slot[v]]
      BY <2>1, <1>3, <1>7, OperandFacts DEF Stored
    <3> QED BY <3>1, <3>2
  <2>2. CASE Home(v) # None
    <3>1. n.reg[Home(v)] = x
      BY <2>2, <1>2, <1>4, <1>7
    <3>2. Operand(n, v) = n.reg[Home(v)]
      BY <2>2, <1>3, <1>7, OperandFacts
    <3> QED BY <3>1, <3>2
  <2> QED BY <2>1, <2>2
<1>12. ASSUME NEW q \in Incoming \ {p}
       PROVE  Operand(n, ParamOf(q)) = Operand(m, ParamOf(q))
  <2> DEFINE w == ParamOf(q)
  <2>1. w \in Values(code) /\ w # v /\ Apart(ra, v, w) /\ ~ IsConst(w)
    BY ParamFacts
  <2>2. Home(w) # None => Home(w) \in Registers \ {SCR1, Home(v)}
    BY <2>1, HomeFacts DEF Apart, Home
  <2>3. Home(w) # None => n.reg[Home(w)] = m.reg[Home(w)]
    BY <2>2, <1>7, <1>9
  <2>4. Home(w) = None => n.spill[ra.slot[w]] = m.spill[ra.slot[w]]
    <3>1. ra.slot[v] = None \/ ra.slot[w] # ra.slot[v]
      BY <1>3, <2>1 DEF Contract, Allocated
    <3>2. Home(w) = None => ra.slot[w] \in ToSet(ra.slot) \ {None}
      BY <2>1, HomeFacts
    <3> QED BY <3>1, <3>2, <1>2, <1>4, <1>7
  <2> QED BY <2>1, <2>3, <2>4, <1>1, <1>7, SameOperand
<1> QED BY <1>3, <1>7, <1>8, <1>9, <1>10, <1>11, <1>12

LEMMA MoveParamKeeps ==
  ASSUME NEW live, Contract(live), WellFormed(code),
         StageOK(live, stage, run, mach, moves), MoveParam
  PROVE  StageOK(live, stage', run', mach', moves')
<1> DEFINE p == Min(FreeParams)
           x == mach.reg[Arrives(p)]
<1>1. /\ stage = "entering" /\ stage' = "entering" /\ run' = run /\ moves.first = None
      /\ Entering(run, mach, moves) /\ Typed(run, mach) /\ Kept(run, mach)
  BY DEF MoveParam, StageOK
<1>2. /\ moves.todo \subseteq ToMove /\ ToMove \subseteq Incoming
      /\ moves.src = [q \in Incoming |-> Arrives(q)] /\ EntryValues(run)
  BY <1>1 DEF Entering, ToMove
<1>3. p \in moves.todo /\ ~ ParamHeld(p) /\ p \in Incoming
  <2>1. FreeParams \subseteq Nat /\ FreeParams # {}
    BY <1>2, IncomingFinite DEF FreeParams, MoveParam
  <2>2. p \in FreeParams
    BY <2>1, MinFacts
  <2> QED BY <2>2, <1>2 DEF FreeParams
<1>4. \A q \in moves.todo \ {p} : Arrives(q) # ParamHome(p)
  <2> TAKE q \in moves.todo \ {p}
  <2>1. q \in Incoming /\ ParamHome(q) # Arrives(q)
    BY <1>2 DEF ToMove
  <2>2. moves.src[q] = Arrives(q)
    BY <2>1, <1>2
  <2>3. ~ (ParamHome(p) = moves.src[q] /\ ParamHome(q) # moves.src[q])
    BY <1>3 DEF ParamHeld
  <2> QED BY <2>1, <2>2, <2>3
<1>5. x = run.val[ParamOf(p)] /\ x \in Int
  <2>1. x = run.val[ParamOf(p)]
    BY <1>1, <1>3, ParamFacts DEF Entering, None
  <2> QED BY <2>1, <1>1, <1>3, ParamFacts DEF Typed, IRState
<1>6. /\ mach' = Placed(mach, p, x)
      /\ moves'.todo = moves.todo \ {p} /\ moves'.src = moves.src /\ moves'.first = moves.first
  <2>1. moves.src[p] = Arrives(p)
    BY <1>2, <1>3
  <2>2. mach' = PlaceParam(mach, p) /\ moves' = Done(p)
    BY DEF MoveParam
  <2> QED BY <2>1, <2>2, <1>2 DEF PlaceParam, Placed, Done
<1> HIDE DEF x, p
<1>7. /\ Typed(run, mach') /\ Kept(run, mach') /\ Operand(mach', ParamOf(p)) = x
      /\ \A q \in Incoming \ {p} : Operand(mach', ParamOf(q)) = Operand(mach, ParamOf(q))
      /\ \A y \in Registers \ {SCR1, ParamHome(p)} : mach'.reg[y] = mach.reg[y]
  BY <1>1, <1>3, <1>5, <1>6, PlacingKeeps
<1>8. ASSUME NEW q \in Incoming \ moves'.todo, ParamIsUsed(q)
      PROVE  Operand(mach', ParamOf(q)) = run.val[ParamOf(q)]
  <2>1. q = p \/ (q # p /\ q \notin moves.todo)
    BY <1>6, <1>8
  <2> QED BY <2>1, <1>1, <1>5, <1>7, <1>8 DEF Entering
<1>9. ASSUME NEW q \in moves'.todo PROVE mach'.reg[Arrives(q)] = run.val[ParamOf(q)]
  <2>1. q \in moves.todo \ {p} /\ q \in Incoming /\ q # None
    BY <1>2, <1>6, ParamFacts, RegisterFacts DEF None
  <2>2. Arrives(q) \in Registers \ {SCR1, ParamHome(p)}
    BY <2>1, <1>4, ParamFacts
  <2> QED BY <2>1, <2>2, <1>1, <1>7 DEF Entering
<1>10. Entering(run', mach', moves')
  BY <1>1, <1>2, <1>6, <1>8, <1>9 DEF Entering
<1>11. moves'.todo \subseteq Incoming \union 1 .. 8
  BY <1>2, <1>6
<1> QED BY <1>1, <1>7, <1>10, <1>11 DEF StageOK

(* When every move waits for another, what they read is what they write.   *)
LEMMA WaitingParams ==
  ASSUME NEW live, Contract(live), WellFormed(code), NEW T, T \subseteq Incoming,
         \A p \in T : \E q \in T : ParamHome(p) = Arrives(q)
  PROVE  Targets(T) = Sources(T)
<1> DEFINE f == [p \in T |-> CHOOSE q \in T : ParamHome(p) = Arrives(q)]
<1>1. \A p \in T : f[p] \in T /\ ParamHome(p) = Arrives(f[p])
  <2> TAKE p \in T
  <2>1. LET c == CHOOSE q \in T : ParamHome(p) = Arrives(q) IN c \in T /\ ParamHome(p) = Arrives(c)
    BY Zenon
  <2> QED BY <2>1
<1> HIDE DEF f
<1>2. \A p, q \in T : f[p] = f[q] => p = q
  <2> SUFFICES ASSUME NEW p \in T, NEW q \in T, f[p] = f[q], p # q PROVE FALSE
    OBVIOUS
  <2>1. ParamHome(p) = ParamHome(q) /\ ParamHome(p) # None
    <3>1. ParamHome(p) = ParamHome(q) /\ ParamHome(p) = Arrives(f[p]) /\ f[p] \in Incoming
      BY <1>1
    <3>2. Arrives(f[p]) # None
      BY <3>1, ParamFacts
    <3> QED BY <3>1, <3>2
  <2>2. Apart(ra, ParamOf(p), ParamOf(q))
    BY ParamFacts
  <2> QED BY <2>1, <2>2 DEF Apart, ParamHome, Home
<1>3. f \in [T -> T]
  BY <1>1 DEF f
<1>4. \A q \in T : \E p \in T : f[p] = q
  BY <1>2, <1>3, IncomingFinite, OneToOneIsOnto
<1>5. \A q \in T : \E p \in T : Arrives(q) = ParamHome(p)
  BY <1>1, <1>4
<1> QED BY <1>1, <1>5 DEF Targets, Sources

LEMMA BreakParamCycleKeeps ==
  ASSUME NEW live, Contract(live), WellFormed(code),
         StageOK(live, stage, run, mach, moves), BreakParamCycle
  PROVE  StageOK(live, stage', run', mach', moves')
<1> DEFINE p == Min({q \in moves.todo : ParamHome(q) # None})
           x == mach.reg[Arrives(p)]
           T == moves.todo
<1>1. /\ stage = "entering" /\ stage' = "entering" /\ run' = run /\ moves.first = None
      /\ Entering(run, mach, moves) /\ Typed(run, mach) /\ Kept(run, mach)
      /\ T # {} /\ FreeParams = {}
  BY DEF BreakParamCycle, StageOK
<1>2. /\ T \subseteq ToMove /\ T \subseteq Incoming
      /\ moves.src = [q \in Incoming |-> Arrives(q)] /\ EntryValues(run)
  BY <1>1 DEF Entering, ToMove
<1>3. ASSUME NEW q \in T PROVE \E k \in T : ParamHome(q) = Arrives(k)
  <2>1. PICK k \in T : ParamHome(q) = moves.src[k]
    BY <1>1 DEF FreeParams, ParamHeld
  <2> QED BY <2>1, <1>2
<1>4. Targets(T) = Sources(T)
  BY <1>2, <1>3, WaitingParams
<1>5. p \in T /\ p \in Incoming /\ p # None
  <2>1. {q \in T : ParamHome(q) # None} \subseteq Nat
    BY <1>2, IncomingFinite
  <2>2. \A q \in T : ParamHome(q) # None
    BY <1>2, <1>3, ParamFacts
  <2>3. {q \in T : ParamHome(q) # None} # {}
    BY <1>1, <2>2
  <2>4. p \in T
    BY <2>1, <2>3, MinFacts
  <2> QED BY <2>4, <1>2, ParamFacts DEF None
<1>6. x = run.val[ParamOf(p)] /\ x \in Int
  <2>1. x = run.val[ParamOf(p)]
    BY <1>1, <1>5 DEF Entering
  <2> QED BY <2>1, <1>1, <1>5, ParamFacts DEF Typed, IRState
<1>7. /\ mach' = [mach EXCEPT !.reg[SCR0] = x]
      /\ moves'.todo = T /\ moves'.src = moves.src /\ moves'.first = p /\ moves'.cur = Arrives(p)
  <2>1. moves.src[p] = Arrives(p)
    BY <1>2, <1>5
  <2> QED BY <2>1 DEF BreakParamCycle
<1> HIDE DEF x, p, T
<1>8. /\ mach' \in Machine /\ mach'.pc = mach.pc /\ mach'.mem = mach.mem
      /\ mach'.saved = mach.saved /\ mach'.spill = mach.spill /\ mach'.reg[SCR0] = x
      /\ \A y \in Registers \ {SCR0} : mach'.reg[y] = mach.reg[y]
  BY <1>1, <1>6, <1>7, RegisterFacts DEF Typed, Machine
<1>9. Typed(run, mach')
  BY <1>1, <1>8 DEF Typed
<1>10. Kept(run, mach')
  BY <1>1, <1>8, RegistersAssumption DEF Kept
<1>11. ASSUME NEW q \in Incoming
       PROVE  /\ Operand(mach', ParamOf(q)) = Operand(mach, ParamOf(q))
              /\ mach'.reg[Arrives(q)] = mach.reg[Arrives(q)]
  <2>1. ParamOf(q) \in Values(code) /\ Arrives(q) \in Registers \ {SCR0}
    BY ParamFacts
  <2>2. Home(ParamOf(q)) # None => Home(ParamOf(q)) \in Registers \ {SCR0}
    BY <2>1, HomeFacts
  <2>3. mach \in Machine
    BY <1>1 DEF Typed
  <2>4. Operand(mach', ParamOf(q)) = Operand(mach, ParamOf(q))
    BY <2>1, <2>2, <2>3, <1>8, SameOperand
  <2> QED BY <2>1, <2>4, <1>8
<1>12. InCycle(run, mach', moves')
  <2>1. Arrives(p) \in Registers /\ Arrives(p) \notin Sources(T \ {p})
    BY <1>2, <1>5, ParamFacts DEF Sources
  <2>2. Sources(T) = Sources(T \ {p}) \union {Arrives(p)}
    BY <1>5 DEF Sources
  <2> QED BY <2>1, <2>2, <1>4, <1>5, <1>6, <1>7, <1>8 DEF InCycle
<1>13. Entering(run', mach', moves')
  <2>1. \A q \in Incoming \ T : ParamIsUsed(q) => Operand(mach', ParamOf(q)) = run.val[ParamOf(q)]
    BY <1>1, <1>11 DEF Entering, T
  <2>2. \A q \in T : mach'.reg[Arrives(q)] = run.val[ParamOf(q)]
    <3> TAKE q \in T
    <3>1. q \in Incoming /\ q # None
      BY <1>2, ParamFacts DEF None
    <3> QED BY <3>1, <1>1, <1>11 DEF Entering, T
  <2> QED BY <2>1, <2>2, <1>1, <1>2, <1>7, <1>12 DEF Entering
<1>14. moves'.todo \subseteq Incoming \union 1 .. 8
  BY <1>2, <1>7
<1> QED BY <1>1, <1>9, <1>10, <1>13, <1>14 DEF StageOK

LEMMA EnteredKeeps ==
  ASSUME NEW live, Contract(live), WellFormed(code),
         StageOK(live, stage, run, mach, moves), Entered
  PROVE  StageOK(live, stage', run', mach', moves')
<1>1. /\ stage = "entering" /\ stage' = "running" /\ run' = run /\ mach' = mach
      /\ moves.todo = {} /\ moves' = Idle
      /\ Entering(run, mach, moves) /\ Typed(run, mach) /\ Kept(run, mach)
  BY DEF Entered, StageOK
<1>2. ASSUME NEW v \in Awaited(live, run.pc) PROVE Holds(run, mach, v)
  <2>1. v \in Read /\ v \in Values(code)
    BY ReadFacts DEF Awaited
  <2>2. CASE \E p \in Incoming : v = ParamOf(p)
    <3>1. PICK p \in Incoming : v = ParamOf(p)
      BY <2>2
    <3>2. PICK i \in DOMAIN code.insts : v \in ValueOperands(code.insts[i])
      BY <2>1 DEF Read
    <3>3. code.insts[i] \in ToSet(code.insts)
      BY <3>2 DEF ToSet
    <3>4. LET inst == code.insts[i]
          IN  /\ inst.op # "param"
              /\ \/ v \in {inst.a, inst.b}
                 \/ inst.op = "call" /\ v \in ToSet(inst.args)
      <4> DEFINE inst == code.insts[i]
      <4>1. CASE inst.op = "store"
        BY <4>1, <3>2 DEF ValueOperands
      <4>2. CASE inst.op = "call"
        BY <4>2, <3>2 DEF ValueOperands
      <4>3. CASE inst.op \in {"copy", "cbr", "table", "jmp_ptr", "return"}
        BY <4>3, <3>2 DEF ValueOperands
      <4>4. CASE inst.op \notin {"store", "call", "copy", "cbr", "table", "jmp_ptr", "return"}
        <5>1. ValueOperands(inst) = {}
          BY <4>4, Zenon DEF ValueOperands
        <5> QED BY <5>1, <3>2
      <4> QED BY <4>1, <4>2, <4>3, <4>4
    <3>5. ParamIsUsed(p)
      BY <3>1, <3>3, <3>4 DEF ParamIsUsed
    <3> QED BY <3>1, <3>5, <1>1 DEF Entering, Holds
  <2>3. CASE ~ \E p \in Incoming : v = ParamOf(p)
    BY <2>1, <2>3, <1>1 DEF Entering, EntryValues, Holds
  <2> QED BY <2>2, <2>3
<1>3. InStep(live, run', mach')
  BY <1>1, <1>2 DEF InStep
<1>4. moves'.todo = {}
  BY <1>1 DEF Idle
<1> QED BY <1>1, <1>3, <1>4 DEF StageOK

(* The move that fills the register read last: the first of the cycle is   *)
(* the last, and its value is in SCR0.                                     *)
LEMMA FollowParamCycleKeeps ==
  ASSUME NEW live, Contract(live), WellFormed(code),
         StageOK(live, stage, run, mach, moves), FollowParamCycle
  PROVE  StageOK(live, stage', run', mach', moves')
<1> DEFINE T == moves.todo
           f == moves.first
           c == moves.cur
           p == Min({q \in T : ParamHome(q) = c})
           x == IF p = f THEN mach.reg[SCR0] ELSE mach.reg[Arrives(p)]
<1>1. /\ stage = "entering" /\ stage' = "entering" /\ run' = run /\ f # None
      /\ Entering(run, mach, moves) /\ Typed(run, mach) /\ Kept(run, mach)
  BY DEF FollowParamCycle, StageOK
<1>2. /\ T \subseteq ToMove /\ T \subseteq Incoming
      /\ moves.src = [q \in Incoming |-> Arrives(q)] /\ EntryValues(run)
      /\ \A q \in T \ {f} : mach.reg[Arrives(q)] = run.val[ParamOf(q)]
      /\ \A q \in Incoming \ T : ParamIsUsed(q) => Operand(mach, ParamOf(q)) = run.val[ParamOf(q)]
  BY <1>1 DEF Entering, ToMove
<1>3. /\ f \in T /\ mach.reg[SCR0] = run.val[ParamOf(f)] /\ c \in Registers
      /\ c \notin Sources(T \ {f}) /\ Targets(T) = Sources(T \ {f}) \union {c}
  BY <1>1 DEF Entering, InCycle
<1>4. p \in T /\ ParamHome(p) = c /\ p \in Incoming
  <2>1. {q \in T : ParamHome(q) = c} \subseteq Nat
    BY <1>2, IncomingFinite
  <2>2. {q \in T : ParamHome(q) = c} # {}
    BY <1>3 DEF Targets
  <2>3. p \in {q \in T : ParamHome(q) = c}
    BY <2>1, <2>2, MinFacts
  <2> QED BY <2>3, <1>2
<1>5. x = run.val[ParamOf(p)] /\ x \in Int
  <2>1. x = run.val[ParamOf(p)]
    BY <1>2, <1>3, <1>4
  <2> QED BY <2>1, <1>1, <1>4, ParamFacts DEF Typed, IRState
<1>6. /\ c # None /\ ParamHome(p) # None /\ c # SCR0 /\ c # SCR1
  <2>1. c # None
    BY <1>3, RegisterFacts
  <2>2. ParamOf(p) \in Values(code) /\ Home(ParamOf(p)) = c
    BY <1>4, ParamFacts DEF ParamHome
  <2> QED BY <2>1, <2>2, <1>4, HomeFacts
<1>7. /\ mach' = Placed(mach, p, x)
      /\ moves'.todo = T \ {p} /\ moves'.src = moves.src
      /\ p = f => moves'.first = None
      /\ p # f => moves'.first = f /\ moves'.cur = Arrives(p)
  <2>1. moves.src[p] = Arrives(p)
    BY <1>2, <1>4
  <2>2. CASE p = f
    <3>1. /\ mach' = [mach EXCEPT !.reg[ParamHome(p)] = mach.reg[SCR0]]
          /\ moves' = [Done(p) EXCEPT !.first = None, !.cur = None]
      BY <2>2 DEF FollowParamCycle
    <3> QED BY <3>1, <2>2, <1>6 DEF Placed, Done
  <2>3. CASE p # f
    <3>1. mach' = PlaceParam(mach, p) /\ moves' = [Done(p) EXCEPT !.cur = moves.src[p]]
      BY <2>3 DEF FollowParamCycle
    <3> QED BY <3>1, <2>1, <2>3, <1>6 DEF Placed, PlaceParam, Done
  <2> QED BY <2>2, <2>3
<1> HIDE DEF x, p, T, f, c
<1>8. /\ Typed(run, mach') /\ Kept(run, mach') /\ Operand(mach', ParamOf(p)) = x
      /\ \A q \in Incoming \ {p} : Operand(mach', ParamOf(q)) = Operand(mach, ParamOf(q))
  BY <1>1, <1>4, <1>5, <1>7, PlacingKeeps
<1>9. \A y \in Registers \ {c} : mach'.reg[y] = mach.reg[y]
  <2>1. mach' = [mach EXCEPT !.reg[c] = x]
    BY <1>4, <1>6, <1>7 DEF Placed
  <2> QED BY <2>1, <1>1 DEF Typed, Machine
<1>10. ASSUME NEW q \in Incoming \ moves'.todo, ParamIsUsed(q)
       PROVE  Operand(mach', ParamOf(q)) = run.val[ParamOf(q)]
  <2>1. q = p \/ (q \in Incoming \ {p} /\ q \notin T)
    BY <1>7, <1>10
  <2> QED BY <2>1, <1>2, <1>5, <1>8, <1>10
<1>11. ASSUME NEW q \in T \ {f, p} PROVE mach'.reg[Arrives(q)] = run.val[ParamOf(q)]
  <2>1. Arrives(q) # c
    BY <1>3 DEF Sources
  <2>2. Arrives(q) \in Registers
    BY <1>2, ParamFacts
  <2> QED BY <2>1, <2>2, <1>2, <1>9
<1>12. ASSUME p # f PROVE InCycle(run, mach', moves')
  <2>1. f \in moves'.todo /\ moves'.first = f /\ moves'.cur = Arrives(p) /\ moves'.todo = T \ {p}
    BY <1>3, <1>7, <1>12
  <2>2. mach'.reg[SCR0] = run.val[ParamOf(f)]
    BY <1>3, <1>6, <1>9, RegisterFacts
  <2>3. Arrives(p) \in Registers /\ \A q \in T \ {p} : Arrives(q) # Arrives(p)
    BY <1>2, <1>4, ParamFacts
  <2>4. Arrives(p) \notin Sources((T \ {p}) \ {f})
    BY <2>3 DEF Sources
  <2>5. \A q \in T \ {p} : ParamHome(q) # c
    <3> SUFFICES ASSUME NEW q \in T \ {p} PROVE ParamHome(q) # c
      OBVIOUS
    <3>1. q \in Incoming /\ Apart(ra, ParamOf(p), ParamOf(q))
      BY <1>2, <1>4, ParamFacts
    <3> QED BY <3>1, <1>4, <1>6 DEF Apart, ParamHome, Home
  <2>6. Targets(T \ {p}) = Targets(T) \ {c}
    BY <2>5, <1>4 DEF Targets
  <2>7. Sources(T \ {f}) = Sources((T \ {p}) \ {f}) \union {Arrives(p)}
    BY <1>4, <1>12 DEF Sources
  <2>8. Targets(T \ {p}) = Sources((T \ {p}) \ {f}) \union {Arrives(p)}
    BY <2>6, <2>7, <1>3
  <2> QED BY <2>1, <2>2, <2>3, <2>4, <2>8 DEF InCycle
<1>13. \A q \in moves'.todo \ {moves'.first} : mach'.reg[Arrives(q)] = run.val[ParamOf(q)]
  BY <1>7, <1>11
<1>14. moves'.todo \subseteq ToMove /\ moves'.todo \subseteq Incoming
  BY <1>2, <1>7
<1>15. moves'.first # None => InCycle(run, mach', moves')
  BY <1>7, <1>12
<1>16. Entering(run', mach', moves')
  BY <1>1, <1>2, <1>7, <1>10, <1>13, <1>14, <1>15 DEF Entering
<1> QED BY <1>1, <1>8, <1>14, <1>16 DEF StageOK

-----------------------------------------------------------------------------
(* The code and the homes never change, nor does what is defined by them.  *)

LEMMA SameCode ==
  ASSUME code' = code, ra' = ra
  PROVE  /\ Incoming' = Incoming /\ Saved' = Saved /\ Read' = Read
         /\ IRState' = IRState /\ Machine' = Machine
         /\ \A v : /\ Home(v)' = Home(v) /\ (IsConst(v)' <=> IsConst(v))
                   /\ ConstOf(v)' = ConstOf(v)
         /\ \A m, v : Stored(m, v)' = Stored(m, v) /\ Operand(m, v)' = Operand(m, v)
         /\ \A p : /\ ParamOf(p)' = ParamOf(p) /\ ParamHome(p)' = ParamHome(p)
                   /\ Arrives(p)' = Arrives(p) /\ (ParamIsUsed(p)' <=> ParamIsUsed(p))
         /\ \A i : ArgsAt(i)' = ArgsAt(i)
<1>1. Incoming' = Incoming
  BY DEF Incoming
<1>2. Saved' = Saved
  BY DEF Saved
<1>3. Read' = Read
  BY DEF Read
<1>4. IRState' = IRState /\ Machine' = Machine
  BY <1>2 DEF IRState, Machine
<1>5. \A v : Home(v)' = Home(v)
  BY DEF Home
<1>6. \A v : (IsConst(v)' <=> IsConst(v)) /\ ConstOf(v)' = ConstOf(v)
  BY DEF IsConst, ConstOf
<1>7. \A m, v : Stored(m, v)' = Stored(m, v)
  BY <1>6 DEF Stored
<1>8. \A m, v : Operand(m, v)' = Operand(m, v)
  BY <1>5, <1>7 DEF Operand, LoadOp, RegOf
<1>9. \A p : /\ ParamOf(p)' = ParamOf(p) /\ ParamHome(p)' = ParamHome(p)
             /\ Arrives(p)' = Arrives(p)
  BY <1>5 DEF ParamOf, ParamHome, Arrives
<1>10. \A p : ParamIsUsed(p)' <=> ParamIsUsed(p)
  BY <1>9 DEF ParamIsUsed
<1>11. \A i : ArgsAt(i)' = ArgsAt(i)
  BY DEF ArgsAt
<1> QED BY <1>1, <1>2, <1>3, <1>4, <1>5, <1>6, <1>7, <1>8, <1>9, <1>10, <1>11

LEMMA SameStage ==
  ASSUME code' = code, ra' = ra, NEW live
  PROVE  /\ Contract(live) => Contract(live)'
         /\ StageOK(live, stage', run', mach', moves') => StageOK(live, stage, run, mach, moves)'
<1> DEFINE r == run'
           m == mach'
           mv == moves'
<1>1. Contract(live)' = Contract(live)
  BY DEF Contract
<1>2. Typed(run, mach)' <=> Typed(r, m)
  BY SameCode DEF Typed
<1>3. Kept(run, mach)' <=> Kept(r, m)
  BY SameCode DEF Kept
<1>4. \A v : Holds(run, mach, v)' <=> Holds(r, m, v)
  BY SameCode DEF Holds
<1>5. Awaited(live, run.pc)' = Awaited(live, r.pc) /\ Rest(live, run.pc)' = Rest(live, r.pc)
  BY SameCode DEF Awaited, Rest
<1>6. InStep(live, run, mach)' <=> InStep(live, r, m)
  BY <1>2, <1>3, <1>4, <1>5 DEF InStep
<1>7. RestHolds(live, run, mach)' <=> RestHolds(live, r, m)
  BY <1>4, <1>5 DEF RestHolds
<1>8. ToMove' = ToMove /\ Targets(moves.todo)' = Targets(mv.todo)
      /\ Sources(moves.todo \ {moves.first})' = Sources(mv.todo \ {mv.first})
  BY SameCode DEF ToMove, Targets, Sources
<1>9. EntryValues(run)' <=> EntryValues(r)
  BY SameCode DEF EntryValues
<1>10. InCycle(run, mach, moves)' <=> InCycle(r, m, mv)
  BY SameCode, <1>8 DEF InCycle
<1>11. Entering(run, mach, moves)' <=> Entering(r, m, mv)
  BY SameCode, <1>8, <1>9, <1>10 DEF Entering
<1>12. \A v, n : ArgFrom(mach, moves, v, n)' = ArgFrom(m, mv, v, n)
  BY SameCode DEF ArgFrom
<1>13. Passing(live, run, mach, moves)' <=> Passing(live, r, m, mv)
  BY SameCode, <1>7, <1>12 DEF Passing
<1>14. Returns(run, mach)' <=> Returns(r, m)
  BY DEF Returns
<1>15. Incoming' = Incoming
  BY SameCode
<1>16. StageOK(live, stage, run, mach, moves)' <=> StageOK(live, stage', r, m, mv)
  BY <1>2, <1>3, <1>6, <1>11, <1>13, <1>14, <1>15 DEF StageOK
<1> QED BY <1>1, <1>16

-----------------------------------------------------------------------------
(* The invariant holds to begin with and every step keeps it.              *)

LEMMA IInvStart ==
  ASSUME GenInit PROVE IInv
<1>1. PICK live : Liveness(code, live) /\ Allocated(code, live, ra)
  BY DEF GenInit
<1>2. Contract(live) /\ stage = "compiled"
  BY <1>1 DEF GenInit, Contract
<1>3. StageOK(live, stage, run, mach, moves)
  BY <1>2 DEF StageOK
<1> QED BY <1>2, <1>3 DEF IInv

LEMMA IInvStep ==
  ASSUME IInv, [Run]_vars PROVE IInv'
<1>1. PICK live : Contract(live) /\ StageOK(live, stage, run, mach, moves)
  BY DEF IInv
<1>2. WellFormed(code)
  BY <1>1 DEF Contract
<1>3. code' = code /\ ra' = ra
  BY DEF Run, Shuffle, Enter, MoveParam, BreakParamCycle, FollowParamCycle, Entered, Straight,
         BeginCall, PassArgument, ParkArgument, CallStep, BranchStep, JumpStep, ReturnStep, vars
<1>4. StageOK(live, stage', run', mach', moves')
  <2>1. CASE Enter
    BY <2>1, <1>1, <1>2, EnterKeeps
  <2>2. CASE MoveParam
    BY <2>2, <1>1, <1>2, MoveParamKeeps
  <2>3. CASE BreakParamCycle
    BY <2>3, <1>1, <1>2, BreakParamCycleKeeps
  <2>4. CASE FollowParamCycle
    BY <2>4, <1>1, <1>2, FollowParamCycleKeeps
  <2>5. CASE Entered
    BY <2>5, <1>1, <1>2, EnteredKeeps
  <2>6. CASE BeginCall
    BY <2>6, <1>1, <1>2, BeginCallKeeps
  <2>7. CASE PassArgument
    BY <2>7, <1>1, <1>2, PassArgumentKeeps
  <2>8. CASE ParkArgument
    BY <2>8, <1>1, <1>2, ParkArgumentKeeps
  <2>9. CASE CallStep
    BY <2>9, <1>1, <1>2, CallStepKeeps
  <2>10. CASE Straight \/ BranchStep \/ JumpStep \/ ReturnStep
    BY <2>10, <1>1, <1>2, RunningKeeps
  <2>11. CASE UNCHANGED vars
    BY <2>11, <1>1 DEF vars
  <2> QED
    BY <2>1, <2>2, <2>3, <2>4, <2>5, <2>6, <2>7, <2>8, <2>9, <2>10, <2>11 DEF Run, Shuffle
<1>5. Contract(live)' /\ StageOK(live, stage, run, mach, moves)'
  BY <1>1, <1>3, <1>4, SameStage
<1> QED BY <1>5 DEF IInv

(* The invariant of the code generator, with the liveness it relies on.    *)
THEOREM GenInvariant == GenSpec => []IInv
<1>1. GenInit => IInv
  BY IInvStart
<1>2. IInv /\ [Run]_vars => IInv'
  BY IInvStep
<1> QED BY <1>1, <1>2, PTL DEF GenSpec

(* What the invariant says of each stage.                                  *)
LEMMA InvariantMeans ==
  ASSUME IInv PROVE OperandsIntact /\ SamePath /\ CallsKept
<1>1. PICK live : Contract(live) /\ StageOK(live, stage, run, mach, moves)
  BY DEF IInv
<1>2. OperandsIntact
  <2> SUFFICES ASSUME stage = "running", OpAt(code, run) # "end", NEW v \in ValueOperands(Here)
               PROVE  run.val[v] \in {Undef, Operand(mach, v)}
    BY DEF OperandsIntact
  <2>1. InStep(live, run, mach) /\ WellFormed(code)
    BY <1>1 DEF StageOK, Contract
  <2>2. run.pc \in DOMAIN code.insts /\ v \in ValueOperands(code.insts[run.pc])
    BY HereFacts DEF Here
  <2>3. Holds(run, mach, v)
    BY <1>1, <2>1, <2>2, OperandsAwaited DEF InStep
  <2> QED BY <2>3 DEF Holds
<1>3. SamePath
  BY <1>1 DEF StageOK, Typed, SamePath
<1>4. CallsKept
  <2>1. ParametersArrive
    BY <1>1 DEF ParametersArrive, StageOK, Entering
  <2>2. ArgumentsArrive
    BY <1>1 DEF ArgumentsArrive, StageOK, Passing, Here, ArgsAt
  <2>3. CallerUndisturbed
    BY <1>1 DEF CallerUndisturbed, StageOK, Returns, Here
  <2> QED BY <2>1, <2>2, <2>3 DEF CallsKept
<1> QED BY <1>2, <1>3, <1>4

(* For every function, and every allocation that keeps what is needed at   *)
(* the same time apart, an operand is found where it is read from: no code *)
(* of cg64.c overwrites a value that is still to be used.                  *)
THEOREM OperandsAreIntact == GenSpec => []OperandsIntact
<1>1. IInv => OperandsIntact
  BY InvariantMeans
<1> QED BY <1>1, GenInvariant, PTL

(* Whatever the branches, the machine is always at the instruction the     *)
(* meaning of the IR is at: tests and jump tables select the same label.   *)
THEOREM TakesTheSamePath == GenSpec => []SamePath
<1>1. IInv => SamePath
  BY InvariantMeans
<1> QED BY <1>1, GenInvariant, PTL

(* Both sides of a call: parameters reach their homes and arguments their  *)
(* registers whatever cycles the homes make, and a caller finds the result *)
(* and its own registers as it left them.                                  *)
THEOREM CallsAreKept == GenSpec => []CallsKept
<1>1. IInv => CallsKept
  BY InvariantMeans
<1> QED BY <1>1, GenInvariant, PTL

-----------------------------------------------------------------------------
(* The colouring.                                                          *)

(* The state s of a colouring of graph g: values have one home at most, of *)
(* their own among their neighbours, and the values not yet to be coloured *)
(* have one.                                                               *)
Colourings ==
  [colour : [Values(code) -> Colours \union {None}], slot : [Values(code) -> Nat \union {None}],
   next : Nat, todo : Seq(Values(code))]

HomesSoFar(s) ==
  \A v \in Values(code) :
    IF v \in ToSet(s.todo) THEN s.colour[v] = None /\ s.slot[v] = None
                           ELSE s.colour[v] = None <=> s.slot[v] # None

SlotsApart(s) ==
  \A v \in Values(code) :
    s.slot[v] # None => /\ s.slot[v] < s.next
                        /\ \A w \in Values(code) \ {v} : s.slot[w] # s.slot[v]

ColoursApart(g, s) ==
  \A v \in Values(code) :
    s.colour[v] # None => /\ s.colour[v] \notin g.forbidden[v]
                          /\ \A w \in ToSet(g.adj[v]) : s.colour[w] # s.colour[v]

ColouringOK(g, s) ==
  /\ s \in Colourings /\ IsInjective(s.todo)
  /\ HomesSoFar(s) /\ SlotsApart(s) /\ ColoursApart(g, s)

(* What the steps need of the graph.                                       *)
GraphOK(g) ==
  /\ g.adj \in [Values(code) -> Seq(Values(code))]
  /\ \A v \in Values(code) : \A w \in ToSet(g.adj[v]) : w # v /\ v \in ToSet(g.adj[w])
  /\ g.forbidden \in [Values(code) -> SUBSET Colours] /\ g.cost \in [Values(code) -> Nat]
  /\ g.order \in Seq(Values(code)) /\ IsInjective(g.order) /\ ToSet(g.order) = Values(code)

LEMMA ColourFacts ==
  /\ Colours \subseteq Nat /\ None \notin Colours
  /\ \A c \in Colours : Palette[c] \in ToSet(Palette) /\ Palette[c] # None
  /\ \A c, d \in Colours : Palette[c] = Palette[d] => c = d
<1>1. Palette \in Seq(Registers) /\ IsInjective(Palette)
  BY RegistersAssumption
<1>2. Colours \subseteq Nat /\ None \notin Colours
  BY <1>1 DEF Colours, None
<1>3. \A c \in Colours : Palette[c] \in ToSet(Palette) /\ Palette[c] \in Registers
  BY <1>1 DEF Colours, ToSet
<1>4. \A c, d \in Colours : Palette[c] = Palette[d] => c = d
  BY <1>1 DEF Colours, IsInjective
<1> QED BY <1>2, <1>3, <1>4, RegisterFacts

(* Taking the first of a list without repetitions.                         *)
LEMMA TailFacts ==
  ASSUME NEW V, NEW s \in Seq(V), IsInjective(s), s # <<>>
  PROVE  /\ Head(s) \in ToSet(s) /\ Head(s) \in V
         /\ Tail(s) \in Seq(V) /\ IsInjective(Tail(s))
         /\ ToSet(Tail(s)) = ToSet(s) \ {Head(s)}
<1>1. Len(s) \in Nat /\ Len(s) >= 1 /\ DOMAIN s = 1 .. Len(s) /\ Head(s) = s[1]
  OBVIOUS
<1>2. /\ Tail(s) \in Seq(V) /\ DOMAIN Tail(s) = 1 .. Len(s) - 1
      /\ \A i \in 1 .. Len(s) - 1 : Tail(s)[i] = s[i + 1]
  BY <1>1
<1>3. \A i, j \in 1 .. Len(s) : s[i] = s[j] => i = j
  BY <1>1 DEF IsInjective
<1>4. IsInjective(Tail(s))
  <2> SUFFICES ASSUME NEW i \in 1 .. Len(s) - 1, NEW j \in 1 .. Len(s) - 1,
                      Tail(s)[i] = Tail(s)[j]
               PROVE  i = j
    BY <1>2 DEF IsInjective
  <2>1. s[i + 1] = s[j + 1] /\ i + 1 \in 1 .. Len(s) /\ j + 1 \in 1 .. Len(s)
    BY <1>1, <1>2
  <2> QED BY <2>1, <1>3
<1>5. ToSet(Tail(s)) \subseteq ToSet(s) \ {Head(s)}
  <2> SUFFICES ASSUME NEW i \in 1 .. Len(s) - 1 PROVE Tail(s)[i] \in ToSet(s) \ {Head(s)}
    BY <1>2 DEF ToSet
  <2>1. Tail(s)[i] = s[i + 1] /\ i + 1 \in 1 .. Len(s) /\ i + 1 # 1
    BY <1>1, <1>2
  <2> QED BY <2>1, <1>1, <1>3 DEF ToSet
<1>6. ToSet(s) \ {Head(s)} \subseteq ToSet(Tail(s))
  <2> SUFFICES ASSUME NEW i \in 1 .. Len(s), s[i] # s[1] PROVE s[i] \in ToSet(Tail(s))
    BY <1>1 DEF ToSet
  <2>1. i - 1 \in 1 .. Len(s) - 1 /\ (i - 1) + 1 = i
    BY <1>1
  <2>2. Tail(s)[i - 1] = s[i]
    BY <2>1, <1>2
  <2> QED BY <2>1, <2>2, <1>2 DEF ToSet
<1>7. Head(s) \in ToSet(s) /\ Head(s) \in V
  BY <1>1 DEF ToSet
<1> QED BY <1>2, <1>4, <1>5, <1>6, <1>7

(* The neighbour that is evicted is the only one with its colour, which    *)
(* the value may have.                                                     *)
LEMMA VictimFacts ==
  ASSUME code.next \in Nat, GraphOK(graph), colouring \in Colourings,
         NEW v \in Values(code), VictimPlaces(v) # {}
  PROVE  /\ Victim(v) \in Neighbours(v) /\ Victim(v) \in Values(code) /\ Victim(v) # v
         /\ colouring.colour[Victim(v)] # None
         /\ colouring.colour[Victim(v)] \notin graph.forbidden[v]
         /\ \A w \in Neighbours(v) :
              colouring.colour[w] = colouring.colour[Victim(v)] => w = Victim(v)
<1> DEFINE adj == graph.adj[v]
           S   == {n \in VictimPlaces(v) : \A k \in VictimPlaces(v) : CostAt(v, n) <= CostAt(v, k)}
<1>1. /\ adj \in Seq(Values(code)) /\ DOMAIN adj \subseteq Nat
      /\ \A n \in DOMAIN adj : adj[n] \in Values(code) /\ adj[n] \in Neighbours(v)
      /\ Neighbours(v) \subseteq Values(code) \ {v}
  <2>1. adj \in Seq(Values(code)) /\ \A w \in ToSet(adj) : w # v
    BY DEF GraphOK
  <2>2. DOMAIN adj \subseteq Nat /\ \A n \in DOMAIN adj : adj[n] \in Values(code)
    BY <2>1
  <2>3. /\ \A n \in DOMAIN adj : adj[n] \in Neighbours(v)
        /\ \A w \in Neighbours(v) : \E n \in DOMAIN adj : w = adj[n]
    BY Zenon DEF Neighbours, ToSet
  <2>4. Neighbours(v) = ToSet(adj)
    BY DEF Neighbours
  <2> QED BY <2>1, <2>2, <2>3, <2>4
<1>2. VictimPlaces(v) \subseteq DOMAIN adj
  BY DEF VictimPlaces
<1>3. \A n \in VictimPlaces(v) : CostAt(v, n) \in Nat
  BY <1>1, <1>2 DEF CostAt, GraphOK
<1>4. S # {}
  <2> DEFINE C == {CostAt(v, n) : n \in VictimPlaces(v)}
  <2>1. C \subseteq Nat /\ C # {}
    BY <1>3
  <2>2. PICK c \in C : \A d \in C : c <= d
    BY <2>1, HasLeast
  <2> QED BY <2>2
<1>5. S \subseteq Nat
  BY <1>1, <1>2
<1>6. Min(S) \in S
  BY <1>4, <1>5, MinFacts
<1>7. PICK n \in VictimPlaces(v) : Victim(v) = adj[n]
  BY <1>6, Zenon DEF Victim
<1> DEFINE x == Victim(v)
           c == colouring.colour[x]
<1>8. c # None /\ c \notin graph.forbidden[v] /\ Cardinality(Holders(v, c)) = 1
  BY <1>7 DEF VictimPlaces
<1>9. x \in Neighbours(v)
  BY <1>1, <1>2, <1>7
<1>10. IsFiniteSet(Holders(v, c))
  <2>1. IsFiniteSet(Values(code))
    <3>1. \A k \in Int : IsFiniteSet(0 .. k)
      BY FS_Interval
    <3>2. code.next - 1 \in Int
      OBVIOUS
    <3> QED BY <3>1, <3>2 DEF Values
  <2>2. Holders(v, c) \subseteq Values(code)
    BY <1>1 DEF Holders
  <2> QED BY <2>1, <2>2, FS_Subset
<1>11. PICK y : Holders(v, c) = {y}
  BY <1>8, <1>10, FS_Singleton
<1>12. \A w \in Neighbours(v) : colouring.colour[w] = c => w = x
  BY <1>9, <1>11 DEF Holders
<1> QED BY <1>1, <1>8, <1>9, <1>12

(* A value gets a colour that neither it nor a neighbour minds.            *)
LEMMA FreeKeeps ==
  ASSUME GraphOK(graph), NEW s, ColouringOK(graph, s), NEW v \in Values(code), NEW todo,
         v \in ToSet(s.todo), todo \in Seq(Values(code)), IsInjective(todo),
         ToSet(todo) = ToSet(s.todo) \ {v},
         NEW c \in Colours, c \notin graph.forbidden[v],
         \A w \in Neighbours(v) : s.colour[w] # c
  PROVE  ColouringOK(graph, [s EXCEPT !.todo = todo, !.colour[v] = c])
<1> DEFINE t == [s EXCEPT !.todo = todo, !.colour[v] = c]
<1>1. s \in Colourings
  BY DEF ColouringOK
<1>2. /\ t \in Colourings /\ t.todo = todo /\ t.slot = s.slot /\ t.next = s.next
      /\ \A w \in Values(code) : t.colour[w] = IF w = v THEN c ELSE s.colour[w]
  BY <1>1 DEF Colourings
<1> HIDE DEF t
<1>3. HomesSoFar(t)
  BY <1>2, ColourFacts DEF ColouringOK, HomesSoFar
<1>4. SlotsApart(t)
  BY <1>2 DEF ColouringOK, SlotsApart
<1>5. ColoursApart(graph, t)
  <2> SUFFICES ASSUME NEW x \in Values(code), t.colour[x] # None
               PROVE  /\ t.colour[x] \notin graph.forbidden[x]
                      /\ \A w \in ToSet(graph.adj[x]) : t.colour[w] # t.colour[x]
    BY DEF ColoursApart
  <2>1. ToSet(graph.adj[x]) \subseteq Values(code)
    BY DEF GraphOK, ToSet
  <2>2. CASE x = v
    BY <2>1, <2>2, <1>2 DEF Neighbours, GraphOK
  <2>3. CASE x # v
    <3>1. t.colour[x] \notin graph.forbidden[x] /\ \A w \in ToSet(graph.adj[x]) : s.colour[w] # t.colour[x]
      BY <2>3, <1>2 DEF ColouringOK, ColoursApart
    <3>2. v \in ToSet(graph.adj[x]) => t.colour[x] # c
      BY <2>3, <1>2 DEF GraphOK, Neighbours
    <3> QED BY <3>1, <3>2, <2>1, <1>2
  <2> QED BY <2>2, <2>3
<1>6. ColouringOK(graph, t)
  BY <1>2, <1>3, <1>4, <1>5 DEF ColouringOK
<1> QED BY <1>6 DEF t

LEMMA SpillFacts ==
  ASSUME NEW s \in Colourings, NEW v \in Values(code)
  PROVE  LET t == Spill(s, v)
         IN  /\ t \in Colourings /\ t.todo = s.todo /\ t.next = s.next + 1
             /\ \A w \in Values(code) :
                  /\ t.colour[w] = IF w = v THEN None ELSE s.colour[w]
                  /\ t.slot[w] = IF w = v THEN s.next ELSE s.slot[w]
<1> DEFINE f == [s.colour EXCEPT ![v] = None]
           g == [s.slot EXCEPT ![v] = s.next]
           p == [s EXCEPT !.colour = f]
           q == [p EXCEPT !.slot = g]
           t == [q EXCEPT !.next = s.next + 1]
<1>1. f \in [Values(code) -> Colours \union {None}] /\ g \in [Values(code) -> Nat \union {None}]
  BY DEF Colourings
<1>2. s.next + 1 \in Nat
  BY DEF Colourings
<1>3. \A w \in Values(code) : /\ f[w] = IF w = v THEN None ELSE s.colour[w]
                             /\ g[w] = IF w = v THEN s.next ELSE s.slot[w]
  BY DEF Colourings
<1>4. Spill(s, v) = t
  BY Zenon DEF Spill
<1> HIDE DEF f, g
<1>5. /\ p \in Colourings /\ p.colour = f /\ p.slot = s.slot
      /\ p.next = s.next /\ p.todo = s.todo
  BY <1>1 DEF Colourings
<1> HIDE DEF p
<1>6. /\ q \in Colourings /\ q.colour = f /\ q.slot = g
      /\ q.next = s.next /\ q.todo = s.todo
  BY <1>1, <1>5 DEF Colourings
<1> HIDE DEF q
<1>7. /\ t \in Colourings /\ t.colour = f /\ t.slot = g
      /\ t.next = s.next + 1 /\ t.todo = s.todo
  BY <1>2, <1>6 DEF Colourings
<1> HIDE DEF t
<1> QED BY <1>3, <1>4, <1>7

(* t is s after x, which had a colour, has lost it to v.                   *)
TakenOver(s, t, v, x) ==
  /\ t \in Colourings /\ t.todo = s.todo /\ t.next = s.next + 1
  /\ \A w \in Values(code) :
       /\ t.colour[w] = IF w = v THEN s.colour[x] ELSE IF w = x THEN None ELSE s.colour[w]
       /\ t.slot[w] = IF w = x THEN s.next ELSE s.slot[w]

LEMMA TakeOverFacts ==
  ASSUME NEW s \in Colourings, NEW v \in Values(code), NEW x \in Values(code), x # v
  PROVE  TakenOver(s, TakeOver(s, v, x), v, x)
<1> DEFINE u == Spill(s, x)
<1>1. /\ u \in Colourings /\ u.todo = s.todo /\ u.next = s.next + 1
      /\ \A w \in Values(code) : /\ u.colour[w] = IF w = x THEN None ELSE s.colour[w]
                                 /\ u.slot[w] = IF w = x THEN s.next ELSE s.slot[w]
  BY SpillFacts
<1>2. TakeOver(s, v, x) = [u EXCEPT !.colour[v] = s.colour[x]]
  BY DEF TakeOver
<1> HIDE DEF u
<1>3. s.colour[x] \in Colours \union {None}
  BY DEF Colourings
<1> DEFINE t == TakeOver(s, v, x)
<1>4. t \in Colourings /\ t.colour = [u.colour EXCEPT ![v] = s.colour[x]]
      /\ t.slot = u.slot /\ t.next = u.next /\ t.todo = u.todo
  <2> DEFINE f == [u.colour EXCEPT ![v] = s.colour[x]]
  <2>1. TakeOver(s, v, x) = [u EXCEPT !.colour = f]
    BY <1>1, <1>2 DEF Colourings
  <2>2. f \in [Values(code) -> Colours \union {None}]
    BY <1>1, <1>3 DEF Colourings
  <2> HIDE DEF f
  <2>3. LET w == [u EXCEPT !.colour = f]
        IN  /\ w \in Colourings /\ w.colour = f
            /\ w.slot = u.slot /\ w.next = u.next /\ w.todo = u.todo
    BY <1>1, <2>2 DEF Colourings
  <2> QED BY <2>1, <2>3 DEF f
<1> HIDE DEF t
<1>5. u.colour \in [Values(code) -> Colours \union {None}]
  BY <1>1 DEF Colourings
<1>6. \A w \in Values(code) :
        /\ t.colour[w] = IF w = v THEN s.colour[x] ELSE IF w = x THEN None ELSE s.colour[w]
        /\ t.slot[w] = IF w = x THEN s.next ELSE s.slot[w]
  BY <1>1, <1>4, <1>5
<1>7. TakenOver(s, t, v, x)
  BY <1>1, <1>4, <1>6 DEF TakenOver
<1> QED BY <1>7 DEF t

LEMMA TodoFacts ==
  ASSUME NEW s \in Colourings, NEW todo \in Seq(Values(code))
  PROVE  LET t == [s EXCEPT !.todo = todo]
         IN  /\ t \in Colourings /\ t.todo = todo /\ t.next = s.next
             /\ t.colour = s.colour /\ t.slot = s.slot
BY DEF Colourings

LEMMA SpillNextFacts ==
  ASSUME NEW s \in Colourings, NEW todo \in Seq(Values(code)), NEW v \in Values(code)
  PROVE  LET t == Spill([s EXCEPT !.todo = todo], v)
         IN  /\ t \in Colourings /\ t.todo = todo /\ t.next = s.next + 1
             /\ \A w \in Values(code) :
                  /\ t.colour[w] = IF w = v THEN None ELSE s.colour[w]
                  /\ t.slot[w] = IF w = v THEN s.next ELSE s.slot[w]
<1> DEFINE q == [s EXCEPT !.todo = todo]
<1>1. /\ q \in Colourings /\ q.todo = todo /\ q.next = s.next
      /\ q.colour = s.colour /\ q.slot = s.slot
  BY TodoFacts
<1> HIDE DEF q
<1>2. LET t == Spill(q, v)
      IN  /\ t \in Colourings /\ t.todo = q.todo /\ t.next = q.next + 1
          /\ \A w \in Values(code) :
               /\ t.colour[w] = IF w = v THEN None ELSE q.colour[w]
               /\ t.slot[w] = IF w = v THEN q.next ELSE q.slot[w]
  BY <1>1, SpillFacts
<1> QED BY <1>1, <1>2 DEF q

(* A value gets a slot of its own.                                         *)
LEMMA SpillKeeps ==
  ASSUME GraphOK(graph), NEW s, ColouringOK(graph, s), NEW v \in Values(code), NEW todo,
         v \in ToSet(s.todo), todo \in Seq(Values(code)), IsInjective(todo),
         ToSet(todo) = ToSet(s.todo) \ {v}
  PROVE  ColouringOK(graph, Spill([s EXCEPT !.todo = todo], v))
<1> DEFINE t == Spill([s EXCEPT !.todo = todo], v)
<1>1. s \in Colourings
  BY DEF ColouringOK
<1>2. /\ t \in Colourings /\ t.todo = todo /\ t.next = s.next + 1
      /\ \A w \in Values(code) : /\ t.colour[w] = IF w = v THEN None ELSE s.colour[w]
                                 /\ t.slot[w] = IF w = v THEN s.next ELSE s.slot[w]
  BY <1>1, SpillNextFacts
<1>3. s.next \in Nat /\ s.slot \in [Values(code) -> Nat \union {None}]
  BY <1>1 DEF Colourings
<1> HIDE DEF t
<1>4. HomesSoFar(t)
  BY <1>2, <1>3 DEF ColouringOK, HomesSoFar, None
<1>5. SlotsApart(t)
  <2>1. \A x \in Values(code) : s.slot[x] # None => s.slot[x] < s.next /\ s.slot[x] \in Nat
    BY <1>3 DEF ColouringOK, SlotsApart
  <2>2. \A x \in Values(code) : s.slot[x] # s.next
    BY <2>1, <1>3 DEF None
  <2> SUFFICES ASSUME NEW x \in Values(code), t.slot[x] # None
               PROVE  /\ t.slot[x] < t.next
                      /\ \A w \in Values(code) \ {x} : t.slot[w] # t.slot[x]
    BY DEF SlotsApart
  <2>3. CASE x = v
    BY <2>2, <2>3, <1>2, <1>3
  <2>4. CASE x # v
    <3>1. t.slot[x] = s.slot[x] /\ s.slot[x] < s.next /\ s.slot[x] \in Nat
      BY <2>1, <2>4, <1>2
    <3>2. \A w \in Values(code) \ {x} : s.slot[w] # s.slot[x]
      BY <3>1 DEF ColouringOK, SlotsApart, None
    <3> QED BY <3>1, <3>2, <2>2, <2>4, <1>2, <1>3
  <2> QED BY <2>3, <2>4
<1>6. ColoursApart(graph, t)
  <2> SUFFICES ASSUME NEW x \in Values(code), t.colour[x] # None
               PROVE  /\ t.colour[x] \notin graph.forbidden[x]
                      /\ \A w \in ToSet(graph.adj[x]) : t.colour[w] # t.colour[x]
    BY DEF ColoursApart
  <2>1. ToSet(graph.adj[x]) \subseteq Values(code)
    BY DEF GraphOK, ToSet
  <2>2. t.colour[x] = s.colour[x]
    BY <1>2
  <2>3. t.colour[x] \notin graph.forbidden[x] /\ \A w \in ToSet(graph.adj[x]) : s.colour[w] # t.colour[x]
    BY <2>2 DEF ColouringOK, ColoursApart
  <2> QED BY <2>1, <2>2, <2>3, <1>2
<1>7. ColouringOK(graph, t)
  BY <1>2, <1>4, <1>5, <1>6 DEF ColouringOK
<1> QED BY <1>7 DEF t

(* A value takes the colour of a neighbour, which gets a slot.             *)
LEMMA TakeOverKeeps ==
  ASSUME GraphOK(graph), NEW s, ColouringOK(graph, s), NEW v \in Values(code), NEW todo,
         v \in ToSet(s.todo), todo \in Seq(Values(code)), IsInjective(todo),
         ToSet(todo) = ToSet(s.todo) \ {v},
         NEW x \in Values(code), x # v, x \in Neighbours(v),
         s.colour[x] # None, s.colour[x] \notin graph.forbidden[v],
         \A w \in Neighbours(v) : s.colour[w] = s.colour[x] => w = x
  PROVE  ColouringOK(graph, TakeOver([s EXCEPT !.todo = todo], v, x))
<1> DEFINE t == TakeOver([s EXCEPT !.todo = todo], v, x)
           c == s.colour[x]
<1>1. s \in Colourings
  BY DEF ColouringOK
<1>2. /\ t \in Colourings /\ t.todo = todo /\ t.next = s.next + 1
      /\ \A w \in Values(code) :
           /\ t.colour[w] = IF w = v THEN c ELSE IF w = x THEN None ELSE s.colour[w]
           /\ t.slot[w] = IF w = x THEN s.next ELSE s.slot[w]
  <2> DEFINE q == [s EXCEPT !.todo = todo]
  <2>1. /\ q \in Colourings /\ q.todo = todo /\ q.next = s.next
        /\ q.colour = s.colour /\ q.slot = s.slot
    BY <1>1, TodoFacts
  <2> HIDE DEF q
  <2>2. TakenOver(q, TakeOver(q, v, x), v, x)
    BY <2>1, TakeOverFacts
  <2>3. TakenOver(q, t, v, x)
    BY <2>2 DEF q
  <2> HIDE DEF t
  <2> QED BY <2>1, <2>3 DEF TakenOver
<1>3. s.next \in Nat /\ s.slot \in [Values(code) -> Nat \union {None}]
  BY <1>1 DEF Colourings
<1>n. x \notin ToSet(s.todo) /\ s.slot[x] = None /\ s.slot[v] = None
  BY DEF ColouringOK, HomesSoFar
<1> HIDE DEF t
<1>4. HomesSoFar(t)
  BY <1>2, <1>3, <1>n DEF ColouringOK, HomesSoFar, None
<1>5. SlotsApart(t)
  <2>1. \A y \in Values(code) : s.slot[y] # None => s.slot[y] < s.next /\ s.slot[y] \in Nat
    BY <1>3 DEF ColouringOK, SlotsApart
  <2>2. \A y \in Values(code) : s.slot[y] # s.next
    BY <2>1, <1>3 DEF None
  <2> SUFFICES ASSUME NEW y \in Values(code), t.slot[y] # None
               PROVE  /\ t.slot[y] < t.next
                      /\ \A w \in Values(code) \ {y} : t.slot[w] # t.slot[y]
    BY DEF SlotsApart
  <2>3. CASE y = x
    BY <2>2, <2>3, <1>2, <1>3
  <2>4. CASE y # x
    <3>1. t.slot[y] = s.slot[y] /\ s.slot[y] < s.next /\ s.slot[y] \in Nat
      BY <2>1, <2>4, <1>2
    <3>2. \A w \in Values(code) \ {y} : s.slot[w] # s.slot[y]
      BY <3>1 DEF ColouringOK, SlotsApart, None
    <3> QED BY <3>1, <3>2, <2>2, <2>4, <1>2, <1>3
  <2> QED BY <2>3, <2>4
<1>6. ColoursApart(graph, t)
  <2> SUFFICES ASSUME NEW y \in Values(code), t.colour[y] # None
               PROVE  /\ t.colour[y] \notin graph.forbidden[y]
                      /\ \A w \in ToSet(graph.adj[y]) : t.colour[w] # t.colour[y]
    BY DEF ColoursApart
  <2>1. ToSet(graph.adj[y]) \subseteq Values(code)
    BY DEF GraphOK, ToSet
  <2>2. CASE y = v
    <3>1. \A w \in Neighbours(v) : w # v /\ (w # x => s.colour[w] # c)
      BY DEF GraphOK, Neighbours
    <3> QED BY <2>1, <2>2, <3>1, <1>2 DEF Neighbours
  <2>3. CASE y # v
    <3>1. y # x /\ t.colour[y] = s.colour[y]
      BY <2>3, <1>2
    <3>2. t.colour[y] \notin graph.forbidden[y] /\ \A w \in ToSet(graph.adj[y]) : s.colour[w] # t.colour[y]
      BY <3>1 DEF ColouringOK, ColoursApart
    <3>3. v \in ToSet(graph.adj[y]) => t.colour[y] # c
      BY <2>3, <3>1 DEF GraphOK, Neighbours
    <3> QED BY <3>1, <3>2, <3>3, <2>1, <1>2
  <2> QED BY <2>2, <2>3
<1>7. ColouringOK(graph, t)
  BY <1>2, <1>4, <1>5, <1>6 DEF ColouringOK
<1> QED BY <1>7 DEF t

LEMMA ColourKeeps ==
  ASSUME code.next \in Nat, GraphOK(graph), ColouringOK(graph, colouring), Colour
  PROVE  ColouringOK(graph, colouring')
<1> DEFINE v == Current
           todo == Tail(colouring.todo)
           s == [colouring EXCEPT !.todo = todo]
<1>1. colouring \in Colourings /\ colouring.todo \in Seq(Values(code)) /\ IsInjective(colouring.todo)
  BY DEF ColouringOK, Colourings
<1>2. colouring.todo # <<>>
  BY DEF Colour
<1>3. /\ v \in Values(code) /\ v \in ToSet(colouring.todo)
      /\ todo \in Seq(Values(code)) /\ IsInjective(todo)
      /\ ToSet(todo) = ToSet(colouring.todo) \ {v}
  BY <1>1, <1>2, TailFacts DEF Current
<1> HIDE DEF v, todo
<1>4. \/ Free(v) # {} /\ colouring' = [colouring EXCEPT !.todo = todo, !.colour[v] = Min(Free(v))]
      \/ Evicts(v) /\ colouring' = TakeOver(s, v, Victim(v))
      \/ colouring' = Spill(s, v)
  BY DEF Colour, v, todo
<1>5. CASE Free(v) # {} /\ colouring' = [colouring EXCEPT !.todo = todo, !.colour[v] = Min(Free(v))]
  <2>1. Free(v) \subseteq Nat
    BY ColourFacts DEF Free
  <2>2. Min(Free(v)) \in Free(v)
    BY <1>5, <2>1, MinFacts
  <2>3. /\ Min(Free(v)) \in Colours /\ Min(Free(v)) \notin graph.forbidden[v]
        /\ \A w \in Neighbours(v) : colouring.colour[w] # Min(Free(v))
    BY <2>2 DEF Free
  <2> QED BY <2>3, <1>3, <1>5, FreeKeeps, Zenon
<1>6. CASE Evicts(v) /\ colouring' = TakeOver(s, v, Victim(v))
  <2>1. VictimPlaces(v) # {}
    BY <1>6 DEF Evicts
  <2> DEFINE x == Victim(v)
  <2>2. /\ x \in Neighbours(v) /\ x \in Values(code) /\ x # v
        /\ colouring.colour[x] # None /\ colouring.colour[x] \notin graph.forbidden[v]
        /\ \A w \in Neighbours(v) : colouring.colour[w] = colouring.colour[x] => w = x
    BY <2>1, <1>1, <1>3, VictimFacts
  <2> HIDE DEF x
  <2>3. ColouringOK(graph, TakeOver(s, v, x))
    BY <2>2, <1>3, TakeOverKeeps
  <2> QED BY <2>3, <1>6 DEF x
<1>7. CASE colouring' = Spill(s, v)
  BY <1>3, <1>7, SpillKeeps
<1> QED BY <1>4, <1>5, <1>6, <1>7

(* A colouring that is complete gives every value the home that the code   *)
(* generator relies on.                                                    *)
LEMMA ColouredIsAllocated ==
  ASSUME WellFormed(code), NEW live, Liveness(code, live), Interferes(code, live, graph),
         ColouringOK(graph, colouring), Coloured
  PROVE  Allocated(code, live, ra')
<1>1. colouring \in Colourings /\ colouring.todo = <<>>
  BY DEF ColouringOK, Coloured
<1>2. /\ ra'.slot = colouring.slot
      /\ ra'.reg = [v \in Values(code) |-> IF colouring.colour[v] = None THEN None
                                           ELSE Palette[colouring.colour[v]]]
  BY DEF Coloured
<1>3. /\ colouring.colour \in [Values(code) -> Colours \union {None}]
      /\ colouring.slot \in [Values(code) -> Nat \union {None}]
  BY <1>1 DEF Colourings
<1>4. \A v \in Values(code) : /\ ra'.reg[v] \in ToSet(Palette) \union {None}
                              /\ ra'.reg[v] = None <=> colouring.colour[v] = None
  <2> SUFFICES ASSUME NEW v \in Values(code)
               PROVE  /\ ra'.reg[v] \in ToSet(Palette) \union {None}
                      /\ ra'.reg[v] = None <=> colouring.colour[v] = None
    OBVIOUS
  <2>1. colouring.colour[v] \in Colours \union {None}
    BY <1>3
  <2>2. ra'.reg[v] = IF colouring.colour[v] = None THEN None ELSE Palette[colouring.colour[v]]
    BY <1>2
  <2>3. colouring.colour[v] # None =>
          Palette[colouring.colour[v]] \in ToSet(Palette) /\ Palette[colouring.colour[v]] # None
    BY <2>1, ColourFacts
  <2> QED BY <2>2, <2>3
<1>5. /\ ra'.reg \in [Values(code) -> ToSet(Palette) \union {None}]
      /\ ra'.slot \in [Values(code) -> Nat \union {None}]
  BY <1>2, <1>3, <1>4
<1>6. ASSUME NEW v \in Values(code)
      PROVE  /\ ra'.reg[v] = None <=> ra'.slot[v] # None
             /\ \A w \in Values(code) \ {v} : ra'.slot[v] = None \/ ra'.slot[w] # ra'.slot[v]
  <2>1. v \notin ToSet(colouring.todo)
    BY <1>1 DEF ToSet
  <2>2. colouring.colour[v] = None <=> colouring.slot[v] # None
    BY <2>1 DEF ColouringOK, HomesSoFar
  <2>3. colouring.slot[v] # None => \A w \in Values(code) \ {v} : colouring.slot[w] # colouring.slot[v]
    BY DEF ColouringOK, SlotsApart
  <2> QED BY <1>2, <1>4, <2>2, <2>3
<1>7. ASSUME NEW v \in Values(code), NEW w \in ToSet(graph.adj[v])
      PROVE  Apart(ra', v, w) /\ Apart(ra', w, v)
  <2>1. w \in Values(code)
    BY DEF Interferes, ToSet
  <2>2. colouring.colour[v] # None => colouring.colour[w] # colouring.colour[v]
    BY DEF ColouringOK, ColoursApart
  <2>3. CASE ra'.reg[v] = None \/ ra'.reg[w] = None
    BY <2>3 DEF Apart
  <2>4. CASE ra'.reg[v] # None /\ ra'.reg[w] # None
    <3>1. /\ colouring.colour[v] \in Colours /\ colouring.colour[w] \in Colours
          /\ ra'.reg[v] = Palette[colouring.colour[v]] /\ ra'.reg[w] = Palette[colouring.colour[w]]
          /\ colouring.colour[v] # None
      BY <2>1, <2>4, <1>2, <1>3, <1>4
    <3>2. ra'.reg[v] # ra'.reg[w]
      BY <3>1, <2>2, ColourFacts
    <3> QED BY <3>2 DEF Apart
  <2> QED BY <2>3, <2>4
<1>8. ASSUME NEW v \in Values(code), CallerColours \subseteq graph.forbidden[v]
      PROVE  ra'.reg[v] \notin CallerSaved
  <2>1. CASE colouring.colour[v] = None
    BY <2>1, <1>4, RegistersAssumption, RegisterFacts
  <2>2. CASE colouring.colour[v] # None
    <3>1. colouring.colour[v] \in Colours /\ colouring.colour[v] \notin graph.forbidden[v]
      BY <2>2, <1>3 DEF ColouringOK, ColoursApart
    <3>2. colouring.colour[v] \notin CallerColours
      BY <3>1, <1>8
    <3>3. Palette[colouring.colour[v]] \notin CallerSaved
      BY <3>1, <3>2 DEF CallerColours
    <3>4. ra'.reg[v] = Palette[colouring.colour[v]]
      BY <2>2, <1>2
    <3> QED BY <3>3, <3>4
  <2> QED BY <2>1, <2>2
<1>9. ASSUME NEW i \in DOMAIN code.insts
      PROVE  LET inst == code.insts[i]
                 rest == live[i] \ ({inst.dst} \union FrameSlots(code))
             IN  /\ SetsValue(inst) => \A v \in rest : Apart(ra', v, inst.dst)
                 /\ inst.op = "call" => \A v \in rest : ra'.reg[v] \notin CallerSaved
                 /\ inst.op = "param" =>
                      \A j \in 1 .. i - 1 : Apart(ra', inst.dst, code.insts[j].dst)
  <2> DEFINE inst == code.insts[i]
             rest == live[i] \ ({inst.dst} \union FrameSlots(code))
  <2>1. live[i] \subseteq Values(code) /\ (SetsValue(inst) \/ inst.op = "param" => inst.dst \in Values(code))
    BY DEF Liveness, WellFormed
  <2>2. SetsValue(inst) => rest \subseteq ToSet(graph.adj[inst.dst])
    BY DEF Interferes
  <2>3. inst.op = "call" => \A v \in rest : CallerColours \subseteq graph.forbidden[v]
    BY DEF Interferes
  <2>4. inst.op = "param" => \A j \in 1 .. i - 1 : code.insts[j].dst \in ToSet(graph.adj[inst.dst])
    BY DEF Interferes
  <2> HIDE DEF inst
  <2>5. SetsValue(inst) => \A v \in rest : Apart(ra', v, inst.dst)
    BY <2>1, <2>2, <1>7
  <2>6. inst.op = "call" => \A v \in rest : ra'.reg[v] \notin CallerSaved
    BY <2>1, <2>3, <1>8
  <2>7. inst.op = "param" => \A j \in 1 .. i - 1 : Apart(ra', inst.dst, code.insts[j].dst)
    BY <2>1, <2>4, <1>7
  <2> QED BY <2>5, <2>6, <2>7 DEF inst
<1> QED BY <1>5, <1>6, <1>9 DEF Allocated

-----------------------------------------------------------------------------
(* Allocation and code generation together.                                *)

BeingColoured ==
  /\ stage = "colouring" /\ Unstarted /\ WellFormed(code)
  /\ \E live : Liveness(code, live) /\ Interferes(code, live, graph)
  /\ ColouringOK(graph, colouring)

(* Once the homes are made: they are as the contract says, and the code    *)
(* generator's invariant holds if the indexes of tables have registers.    *)
Generating == stage # "colouring" /\ (IndexesHeld(code, ra) => IInv)

AllocInv == BeingColoured \/ Generating

(* Before any value has a home.                                            *)
LEMMA ColouringStart ==
  ASSUME NEW live, Interferes(code, live, graph)
  PROVE  ColouringOK(graph, Uncoloured(graph))
<1> DEFINE s == Uncoloured(graph)
<1>1. GraphOK(graph)
  BY DEF Interferes, GraphOK
<1>2. DOMAIN graph.adj = Values(code)
  BY <1>1 DEF GraphOK
<1>3. /\ s.colour = [v \in Values(code) |-> None] /\ s.slot = [v \in Values(code) |-> None]
      /\ s.next = 0 /\ s.todo = graph.order /\ s \in Colourings
  BY <1>1, <1>2 DEF Uncoloured, Colourings, GraphOK
<1> HIDE DEF s
<1>4. HomesSoFar(s) /\ SlotsApart(s) /\ ColoursApart(graph, s)
  BY <1>1, <1>3 DEF HomesSoFar, SlotsApart, ColoursApart, GraphOK
<1>5. ColouringOK(graph, s)
  BY <1>1, <1>3, <1>4 DEF ColouringOK, GraphOK
<1> QED BY <1>5 DEF s

LEMMA AllocStart ==
  ASSUME AllocInit PROVE AllocInv
<1>1. PICK live : Liveness(code, live) /\ Interferes(code, live, graph)
  BY DEF AllocInit
<1>2. ColouringOK(graph, colouring)
  BY <1>1, ColouringStart DEF AllocInit
<1> QED BY <1>1, <1>2 DEF AllocInit, AllocInv, BeingColoured

LEMMA AllocStepKeeps ==
  ASSUME AllocInv, [AllocStep]_allVars PROVE AllocInv'
<1>1. CASE Colour
  <2>1. BeingColoured
    BY <1>1 DEF AllocInv, Generating, Colour
  <2>2. UNCHANGED <<stage, code, ra, run, mach, moves, graph>>
    BY <1>1 DEF Colour
  <2>3. PICK live : Liveness(code, live) /\ Interferes(code, live, graph)
    BY <2>1 DEF BeingColoured
  <2>4. code.next \in Nat /\ GraphOK(graph) /\ ColouringOK(graph, colouring)
    BY <2>1, <2>3 DEF BeingColoured, WellFormed, Interferes, GraphOK
  <2>5. ColouringOK(graph, colouring')
    BY <2>4, <1>1, ColourKeeps
  <2>6. ColouringOK(graph, colouring)'
    BY <2>2, <2>5 DEF ColouringOK, Colourings, HomesSoFar, SlotsApart, ColoursApart
  <2>7. WellFormed(code)' /\ Unstarted'
    BY <2>1, <2>2 DEF BeingColoured, Unstarted
  <2>8. (\E l : Liveness(code, l) /\ Interferes(code, l, graph))'
    BY <2>2, <2>3
  <2> QED BY <2>1, <2>2, <2>6, <2>7, <2>8 DEF BeingColoured, AllocInv
<1>2. CASE Coloured
  <2>1. BeingColoured
    BY <1>2 DEF AllocInv, Generating, Coloured
  <2>2. /\ UNCHANGED <<code, run, mach, moves, graph, colouring>> /\ stage' = "compiled"
    BY <1>2 DEF Coloured
  <2>3. PICK live : Liveness(code, live) /\ Interferes(code, live, graph)
    BY <2>1 DEF BeingColoured
  <2>4. Allocated(code, live, ra')
    BY <2>1, <2>3, <1>2, ColouredIsAllocated DEF BeingColoured
  <2>5. Unstarted' /\ WellFormed(code)' /\ Liveness(code, live)' /\ Allocated(code, live, ra)'
    BY <2>1, <2>2, <2>3, <2>4 DEF BeingColoured, Unstarted
  <2>6. IndexesHeld(code, ra)' => GenInit'
    BY <2>2, <2>5 DEF GenInit
  <2>7. (GenInit => IInv)'
    BY IInvStart, PTL
  <2> QED BY <2>2, <2>6, <2>7 DEF AllocInv, Generating
<1>3. CASE Run \/ UNCHANGED allVars
  <2>1. CASE BeingColoured
    <3>1. UNCHANGED allVars
      BY <1>3, <2>1 DEF BeingColoured, Run, Shuffle, Enter, MoveParam, BreakParamCycle,
         FollowParamCycle, Entered, Straight, BeginCall, PassArgument, ParkArgument, CallStep,
         BranchStep, JumpStep, ReturnStep, At
    <3> QED BY <2>1, <3>1 DEF AllocInv, BeingColoured, allVars, Unstarted, ColouringOK, Colourings,
         HomesSoFar, SlotsApart, ColoursApart
  <2>2. CASE Generating
    <3>1. [Run]_vars /\ code' = code /\ ra' = ra /\ stage' # "colouring"
      BY <1>3, <2>2 DEF Generating, Run, Shuffle, Enter, MoveParam, BreakParamCycle,
         FollowParamCycle, Entered, Straight, BeginCall, PassArgument, ParkArgument, CallStep,
         BranchStep, JumpStep, ReturnStep, vars, allVars
    <3>2. IndexesHeld(code, ra)' => IndexesHeld(code, ra)
      BY <3>1
    <3>3. IInv => IInv'
      BY <3>1, IInvStep
    <3> QED BY <2>2, <3>1, <3>2, <3>3 DEF Generating, AllocInv
  <2> QED BY <2>1, <2>2 DEF AllocInv
<1> QED BY <1>1, <1>2, <1>3 DEF AllocStep

(* The invariant of colouring and code generation together.                *)
THEOREM AllocInvariant == AllocSpec => []AllocInv
<1>1. AllocInit => AllocInv
  BY AllocStart
<1>2. AllocInv /\ [AllocStep]_allVars => AllocInv'
  BY AllocStepKeeps
<1> QED BY <1>1, <1>2, PTL DEF AllocSpec

LEMMA ColouringMeans ==
  ASSUME AllocInv PROVE NeighboursApart
<1> SUFFICES ASSUME stage = "colouring" PROVE NeighboursApart
  BY DEF NeighboursApart
<1>1. BeingColoured
  BY DEF AllocInv, Generating
<1>2. PICK live : Interferes(code, live, graph)
  BY <1>1 DEF BeingColoured
<1>3. /\ DOMAIN graph.adj = Values(code)
      /\ \A v \in Values(code) : graph.forbidden[v] \subseteq Colours
  BY <1>2 DEF Interferes
<1>4. \A v \in Values(code) : None \notin graph.forbidden[v]
  BY <1>3, ColourFacts
<1> SUFFICES ASSUME NEW v \in Values(code)
             PROVE  /\ colouring.colour[v] \notin graph.forbidden[v]
                    /\ colouring.colour[v] # None =>
                         \A w \in Neighbours(v) : colouring.colour[w] # colouring.colour[v]
                    /\ \/ v \in ToSet(colouring.todo)
                       \/ (colouring.colour[v] = None <=> colouring.slot[v] # None)
  BY <1>3 DEF NeighboursApart
<1>5. ColoursApart(graph, colouring) /\ HomesSoFar(colouring)
  BY <1>1 DEF BeingColoured, ColouringOK
<1>6. colouring.colour[v] \notin graph.forbidden[v]
  BY <1>4, <1>5 DEF ColoursApart
<1>7. colouring.colour[v] # None => \A w \in Neighbours(v) : colouring.colour[w] # colouring.colour[v]
  BY <1>5 DEF ColoursApart, Neighbours
<1>8. \/ v \in ToSet(colouring.todo)
      \/ (colouring.colour[v] = None <=> colouring.slot[v] # None)
  BY <1>5 DEF HomesSoFar
<1> QED BY <1>6, <1>7, <1>8

(* For every function, interference graph, order of colouring and spill    *)
(* costs, and whatever is evicted: neighbours never have one register, and *)
(* no value is without a home once it was coloured.                        *)
THEOREM NeighboursAreApart == AllocSpec => []NeighboursApart
BY AllocInvariant, ColouringMeans, PTL

(* As long as no table's index was spilled, no code overwrites a value     *)
(* that is still to be used, branches are those of the IR, and calls are   *)
(* kept.                                                                   *)
AllocationServes == IndexesHeld(code, ra) => OperandsIntact /\ SamePath /\ CallsKept

LEMMA ServesMeans ==
  ASSUME AllocInv PROVE AllocationServes
<1>1. CASE BeingColoured
  BY <1>1 DEF BeingColoured, AllocationServes, OperandsIntact, SamePath, CallsKept,
     ParametersArrive, ArgumentsArrive, CallerUndisturbed
<1>2. CASE Generating
  <2>1. IInv => OperandsIntact /\ SamePath /\ CallsKept
    BY InvariantMeans
  <2> QED BY <1>2, <2>1 DEF Generating, AllocationServes
<1> QED BY <1>1, <1>2 DEF AllocInv

(* The homes that greedy_color gives are as the code generator relies on,  *)
(* whatever is spilled and evicted.                                        *)
THEOREM AllocatorServesGenerator == AllocSpec => []AllocationServes
BY AllocInvariant, ServesMeans, PTL

-----------------------------------------------------------------------------
(* Sets in ascending order.                                                *)

LEMMA SmallerSubset ==
  ASSUME NEW T, IsFiniteSet(T), NEW S \in SUBSET T, NEW x \in T \ S
  PROVE  IsFiniteSet(S) /\ Cardinality(S) \in Nat /\ Cardinality(S) < Cardinality(T)
<1>1. IsFiniteSet(T \ {x}) /\ Cardinality(T \ {x}) = Cardinality(T) - 1
  BY FS_RemoveElement
<1>2. S \subseteq T \ {x}
  OBVIOUS
<1>3. IsFiniteSet(S) /\ Cardinality(S) <= Cardinality(T \ {x})
  BY <1>1, <1>2, FS_Subset
<1>4. Cardinality(S) \in Nat /\ Cardinality(T) \in Nat
  BY <1>3, FS_CardinalityType
<1> QED BY <1>1, <1>3, <1>4

LEMMA AscendingFacts ==
  ASSUME NEW S \in SUBSET Nat, IsFiniteSet(S)
  PROVE  /\ Ascending(S) \in Seq(S) /\ ToSet(Ascending(S)) = S
         /\ \A i, j \in DOMAIN Ascending(S) : i < j => Ascending(S)[i] < Ascending(S)[j]
<1> DEFINE Fewer(x) == {y \in S : y < x}
           n == Cardinality(S)
           rank == [x \in S |-> Cardinality(Fewer(x)) + 1]
<1>1. n \in Nat
  BY FS_CardinalityType
<1>2. ASSUME NEW x \in S
      PROVE  IsFiniteSet(Fewer(x)) /\ Cardinality(Fewer(x)) \in Nat /\ Cardinality(Fewer(x)) < n
  <2>1. Fewer(x) \in SUBSET S /\ x \in S \ Fewer(x)
    OBVIOUS
  <2> QED BY <2>1, SmallerSubset
<1>3. ASSUME NEW x \in S, NEW y \in S, x < y
      PROVE  Cardinality(Fewer(x)) < Cardinality(Fewer(y))
  <2>1. x \in Nat /\ y \in Nat /\ S \subseteq Nat
    OBVIOUS
  <2>n. \A z \in Nat : z < x => z < y
    BY <2>1, <1>3
  <2>m. ~ (x < x)
    BY <2>1
  <2>3. Fewer(x) \in SUBSET Fewer(y) /\ x \in Fewer(y) \ Fewer(x)
    BY <2>1, <2>n, <2>m, <1>3
  <2>2. IsFiniteSet(Fewer(y))
    BY <1>2
  <2> QED BY <2>3, <2>2, SmallerSubset
<1>4. rank \in [S -> 1 .. n]
  BY <1>1, <1>2
<1>5. \A x, y \in S : rank[x] = rank[y] => x = y
  <2> SUFFICES ASSUME NEW x \in S, NEW y \in S, x # y PROVE rank[x] # rank[y]
    OBVIOUS
  <2>1. x < y \/ y < x
    OBVIOUS
  <2>2. Cardinality(Fewer(x)) \in Nat /\ Cardinality(Fewer(y)) \in Nat
    BY <1>2
  <2>3. Cardinality(Fewer(x)) # Cardinality(Fewer(y))
    BY <2>1, <2>2, <1>3
  <2> QED BY <2>2, <2>3
<1>6. \A k \in 1 .. n : \E x \in S : rank[x] = k
  <2>1. IsFiniteSet(1 .. n) /\ Cardinality(1 .. n) = n
    BY <1>1, FS_Interval
  <2>2. rank \in Injection(S, 1 .. n)
    BY <1>4, <1>5 DEF Injection, IsInjective
  <2>3. rank \in Surjection(S, 1 .. n)
    BY <2>1, <2>2, FS_Injection
  <2> QED BY <2>3 DEF Surjection
<1>7. \A k \in 1 .. n : \E x \in S : Cardinality(Fewer(x)) = k - 1
  <2> SUFFICES ASSUME NEW k \in 1 .. n PROVE \E x \in S : Cardinality(Fewer(x)) = k - 1
    OBVIOUS
  <2>1. PICK x \in S : rank[x] = k
    BY <1>6
  <2>2. Cardinality(Fewer(x)) \in Nat /\ rank[x] = Cardinality(Fewer(x)) + 1
    BY <1>2
  <2> HIDE DEF rank, Fewer
  <2> QED BY <2>1, <2>2
<1>8. Ascending(S) = [k \in 1 .. n |-> CHOOSE x \in S : Cardinality(Fewer(x)) = k - 1]
  BY DEF Ascending
<1>9. \A k \in 1 .. n : /\ Ascending(S)[k] \in S
                        /\ Cardinality(Fewer(Ascending(S)[k])) = k - 1
  <2> SUFFICES ASSUME NEW k \in 1 .. n
               PROVE  /\ Ascending(S)[k] \in S /\ Cardinality(Fewer(Ascending(S)[k])) = k - 1
    OBVIOUS
  <2>1. Ascending(S)[k] = CHOOSE x \in S : Cardinality(Fewer(x)) = k - 1
    BY <1>8
  <2> QED BY <2>1, <1>7
<1>10. Ascending(S) \in Seq(S) /\ DOMAIN Ascending(S) = 1 .. n
  <2>1. Ascending(S) \in [1 .. n -> S]
    BY <1>8, <1>9
  <2> QED BY <2>1, <1>1
<1>11. ASSUME NEW x \in S PROVE \E k \in 1 .. n : Ascending(S)[k] = x
  <2> DEFINE k == rank[x]
  <2>1. k \in 1 .. n /\ Cardinality(Fewer(x)) \in Nat /\ Cardinality(Fewer(x)) = k - 1
    BY <1>4, <1>2
  <2>2. Ascending(S)[k] \in S /\ Cardinality(Fewer(Ascending(S)[k])) = Cardinality(Fewer(x))
    BY <2>1, <1>9
  <2>3. rank[Ascending(S)[k]] = rank[x]
    BY <2>2
  <2> QED BY <2>1, <2>2, <2>3, <1>5
<1>12. ToSet(Ascending(S)) = S
  BY <1>9, <1>10, <1>11 DEF ToSet
<1>13. ASSUME NEW i \in 1 .. n, NEW j \in 1 .. n, i < j
       PROVE  Ascending(S)[i] < Ascending(S)[j]
  <2> DEFINE x == Ascending(S)[i]
             y == Ascending(S)[j]
  <2>1. /\ x \in S /\ y \in S /\ x \in Nat /\ y \in Nat
        /\ Cardinality(Fewer(x)) = i - 1 /\ Cardinality(Fewer(y)) = j - 1
    BY <1>9
  <2> HIDE DEF x, y, Fewer
  <2>2. x # y
    BY <2>1, <1>13
  <2>3. ~ (y < x)
    <3> SUFFICES ASSUME y < x PROVE FALSE
      OBVIOUS
    <3>1. Cardinality(Fewer(y)) < Cardinality(Fewer(x))
      BY <2>1, <1>3
    <3> QED BY <3>1, <2>1, <1>13
  <2>4. x < y
    BY <2>1, <2>2, <2>3
  <2> QED BY <2>4 DEF x, y
<1> QED BY <1>10, <1>12, <1>13

-----------------------------------------------------------------------------
(* Edges.                                                                  *)

Edges(adj) ==
  /\ adj \in [Values(code) -> Seq(Values(code))]
  /\ \A v \in Values(code) : \A w \in ToSet(adj[v]) : w # v /\ v \in ToSet(adj[w])

LEMMA ValuesFacts ==
  ASSUME code.next \in Nat
  PROVE  Values(code) \subseteq Nat /\ IsFiniteSet(Values(code)) /\ None \notin Values(code)
<1>1. \A k \in Int : IsFiniteSet(0 .. k)
  BY FS_Interval
<1> QED BY <1>1 DEF Values, None

LEMMA LinkFacts ==
  ASSUME code.next \in Nat, NEW adj, Edges(adj), NEW v \in Values(code),
         NEW ws \in SUBSET Values(code)
  PROVE  /\ Edges(Link(adj, v, ws))
         /\ ws \ {v} \subseteq ToSet(Link(adj, v, ws)[v])
         /\ \A w \in Values(code) : ToSet(adj[w]) \subseteq ToSet(Link(adj, v, ws)[w])
<1> DEFINE new == ws \ ({v} \union ToSet(adj[v]))
           out == Link(adj, v, ws)
<1>1. /\ adj \in [Values(code) -> Seq(Values(code))]
      /\ \A x \in Values(code) : /\ adj[x] \in Seq(Values(code)) /\ ToSet(adj[x]) \subseteq Values(code)
                                 /\ x \notin ToSet(adj[x])
      /\ \A x, y \in Values(code) : x \in ToSet(adj[y]) => y \in ToSet(adj[x])
  <2>1. \A x \in Values(code) : adj[x] \in Seq(Values(code))
    BY DEF Edges
  <2>2. \A x \in Values(code) : ToSet(adj[x]) \subseteq Values(code)
    BY <2>1 DEF ToSet
  <2> QED BY <2>1, <2>2 DEF Edges
<1>2. new \subseteq Values(code) /\ new \in SUBSET Nat /\ IsFiniteSet(new)
  BY ValuesFacts, FS_Subset
<1>3. Ascending(new) \in Seq(new) /\ ToSet(Ascending(new)) = new
  BY <1>2, AscendingFacts
<1>4. Ascending(new) \in Seq(Values(code))
  BY <1>2, <1>3
<1>5. out = [w \in Values(code) |-> IF w = v THEN adj[v] \o Ascending(new)
                                    ELSE IF w \in new THEN Append(adj[w], v) ELSE adj[w]]
  BY <1>1 DEF Link
<1>6. \A s, t \in Seq(Values(code)) : s \o t \in Seq(Values(code)) /\ ToSet(s \o t) = ToSet(s) \union ToSet(t)
  <2> SUFFICES ASSUME NEW s \in Seq(Values(code)), NEW t \in Seq(Values(code))
               PROVE  s \o t \in Seq(Values(code)) /\ ToSet(s \o t) = ToSet(s) \union ToSet(t)
    OBVIOUS
  <2>1. /\ s \o t \in Seq(Values(code)) /\ Len(s) \in Nat /\ Len(t) \in Nat
        /\ DOMAIN s = 1 .. Len(s) /\ DOMAIN t = 1 .. Len(t) /\ DOMAIN (s \o t) = 1 .. Len(s) + Len(t)
        /\ \A k \in 1 .. Len(s) : (s \o t)[k] = s[k]
        /\ \A k \in Len(s) + 1 .. Len(s) + Len(t) : (s \o t)[k] = t[k - Len(s)]
    OBVIOUS
  <2>2. ToSet(s \o t) \subseteq ToSet(s) \union ToSet(t)
    <3> SUFFICES ASSUME NEW k \in 1 .. Len(s) + Len(t) PROVE (s \o t)[k] \in ToSet(s) \union ToSet(t)
      BY <2>1 DEF ToSet
    <3>1. CASE k <= Len(s)
      <4>1. k \in 1 .. Len(s)
        BY <2>1, <3>1
      <4> QED BY <4>1, <2>1 DEF ToSet
    <3>2. CASE ~ (k <= Len(s))
      <4>1. k \in Len(s) + 1 .. Len(s) + Len(t) /\ k - Len(s) \in 1 .. Len(t)
        BY <2>1, <3>2
      <4> QED BY <4>1, <2>1 DEF ToSet
    <3> QED BY <3>1, <3>2
  <2>3. ToSet(s) \subseteq ToSet(s \o t)
    <3> SUFFICES ASSUME NEW k \in 1 .. Len(s) PROVE s[k] \in ToSet(s \o t)
      BY <2>1 DEF ToSet
    <3>1. k \in 1 .. Len(s) + Len(t)
      BY <2>1
    <3> QED BY <3>1, <2>1 DEF ToSet
  <2>4. ToSet(t) \subseteq ToSet(s \o t)
    <3> SUFFICES ASSUME NEW k \in 1 .. Len(t) PROVE t[k] \in ToSet(s \o t)
      BY <2>1 DEF ToSet
    <3>1. k + Len(s) \in Len(s) + 1 .. Len(s) + Len(t) /\ (k + Len(s)) - Len(s) = k
          /\ k + Len(s) \in 1 .. Len(s) + Len(t)
      BY <2>1
    <3> QED BY <3>1, <2>1 DEF ToSet
  <2> QED BY <2>1, <2>2, <2>3, <2>4
<1>7. \A s \in Seq(Values(code)) : Append(s, v) \in Seq(Values(code)) /\ ToSet(Append(s, v)) = ToSet(s) \union {v}
  <2> SUFFICES ASSUME NEW s \in Seq(Values(code))
               PROVE  Append(s, v) \in Seq(Values(code)) /\ ToSet(Append(s, v)) = ToSet(s) \union {v}
    OBVIOUS
  <2>1. Append(s, v) = s \o <<v>> /\ <<v>> \in Seq(Values(code)) /\ ToSet(<<v>>) = {v}
    BY DEF ToSet
  <2> QED BY <2>1, <1>6
<1>8. /\ out[v] \in Seq(Values(code)) /\ ToSet(out[v]) = ToSet(adj[v]) \union new
  <2>1. v \in Values(code) /\ out[v] = adj[v] \o Ascending(new)
    BY <1>5
  <2> HIDE DEF out, new
  <2>2. adj[v] \in Seq(Values(code))
    BY <1>1
  <2> QED BY <2>1, <2>2, <1>3, <1>4, <1>6
<1>9. \A w \in new : w # v /\ out[w] \in Seq(Values(code)) /\ ToSet(out[w]) = ToSet(adj[w]) \union {v}
  BY <1>1, <1>2, <1>5, <1>7
<1>10. \A w \in Values(code) : w # v /\ w \notin new => out[w] = adj[w]
  BY <1>5
<1> HIDE DEF new
<1>11. out \in [Values(code) -> Seq(Values(code))]
  <2>1. DOMAIN out = Values(code)
    BY <1>5
  <2>2. \A w \in Values(code) : out[w] \in Seq(Values(code))
    BY <1>1, <1>8, <1>9, <1>10
  <2> QED BY <1>5, <2>1, <2>2
<1>12. \A x \in Values(code) : \A y \in ToSet(out[x]) : y # x /\ x \in ToSet(out[y])
  <2> SUFFICES ASSUME NEW x \in Values(code), NEW y \in ToSet(out[x])
               PROVE  y # x /\ x \in ToSet(out[y])
    OBVIOUS
  <2>1. v \notin new
    BY DEF new
  <2>2. CASE x = v
    <3>1. CASE y \in new
      <4>1. y # v /\ y \in Values(code) /\ ToSet(out[y]) = ToSet(adj[y]) \union {v}
        BY <3>1, <1>2, <1>9
      <4> QED BY <4>1, <2>2
    <3>2. CASE y \notin new
      <4>1. y \in ToSet(adj[v]) /\ y \in Values(code) /\ y # v /\ v \in ToSet(adj[y])
        <5>1. y \in ToSet(adj[v])
          BY <2>2, <3>2, <1>8
        <5> QED BY <5>1, <1>1
      <4> QED BY <4>1, <2>2, <3>2, <1>10
    <3> QED BY <3>1, <3>2
  <2>3. CASE x # v /\ x \in new
    <3>1. CASE y = v
      BY <2>3, <3>1, <1>8
    <3>2. CASE y # v
      <4>1. y \in ToSet(adj[x]) /\ y \in Values(code) /\ y # x /\ x \in ToSet(adj[y])
        <5>1. ToSet(out[x]) = ToSet(adj[x]) \union {v}
          BY <2>3, <1>9
        <5>2. y \in ToSet(adj[x])
          BY <3>2, <5>1
        <5> QED BY <5>2, <1>1
      <4>2. y \in new \/ y \notin new
        OBVIOUS
      <4> QED BY <4>1, <4>2, <3>2, <1>9, <1>10
    <3> QED BY <3>1, <3>2
  <2>4. CASE x # v /\ x \notin new
    <3>1. y \in ToSet(adj[x]) /\ y \in Values(code) /\ y # x /\ x \in ToSet(adj[y])
      BY <2>4, <1>1, <1>10
    <3>2. y = v \/ (y # v /\ y \in new) \/ (y # v /\ y \notin new)
      OBVIOUS
    <3> QED BY <3>1, <3>2, <1>8, <1>9, <1>10
  <2> QED BY <2>2, <2>3, <2>4
<1>13. ws \ {v} \subseteq ToSet(out[v])
  BY <1>8 DEF new
<1>14. ASSUME NEW w \in Values(code) PROVE ToSet(adj[w]) \subseteq ToSet(out[w])
  <2>1. w = v \/ (w # v /\ w \in new) \/ (w # v /\ w \notin new)
    OBVIOUS
  <2> QED BY <2>1, <1>8, <1>9, <1>10
<1> QED BY <1>11, <1>12, <1>13, <1>14 DEF Edges

-----------------------------------------------------------------------------
(* What lives.  The blocks of the code, and the block of an instruction.   *)

FlowBlocks == DOMAIN cfg.blocks

LEMMA BlockFacts ==
  ASSUME GraphOf(code, cfg), code.insts \in Seq(Instruction)
  PROVE  /\ Len(cfg.blocks) \in Nat /\ Len(cfg.blocks) >= 1 /\ FlowBlocks = 1 .. Len(cfg.blocks)
         /\ \A b \in FlowBlocks :
              /\ cfg.blocks[b].start \in Nat /\ cfg.blocks[b].end \in Nat
              /\ 1 <= cfg.blocks[b].start /\ cfg.blocks[b].start <= cfg.blocks[b].end
              /\ InBlock(b) = cfg.blocks[b].start .. cfg.blocks[b].end
              /\ InBlock(b) \subseteq DOMAIN code.insts
              /\ ToSet(cfg.succs[b]) \subseteq FlowBlocks
         /\ \A i \in DOMAIN code.insts : BlockOf(i) \in FlowBlocks /\ i \in InBlock(BlockOf(i))
         /\ \A b \in FlowBlocks : \A i \in InBlock(b) : BlockOf(i) = b
<1>1. /\ cfg.blocks \in Seq([start : Nat \ {0}, end : Nat]) /\ cfg.blocks # <<>>
      /\ cfg.succs \in [FlowBlocks -> Seq(FlowBlocks)]
  BY DEF GraphOf, FlowBlocks
<1>2. Len(cfg.blocks) \in Nat /\ Len(cfg.blocks) >= 1 /\ FlowBlocks = 1 .. Len(cfg.blocks)
  BY <1>1 DEF FlowBlocks
<1> DEFINE T == [start : Nat \ {0}, end : Nat]
<1>n. \A b \in FlowBlocks : cfg.blocks[b] \in T
  <2> HIDE DEF T
  <2>1. cfg.blocks \in Seq(T)
    BY <1>1 DEF T
  <2> QED BY <2>1, <1>2
<1>3. ASSUME NEW b \in FlowBlocks
      PROVE  /\ cfg.blocks[b].start \in Nat /\ cfg.blocks[b].end \in Nat
             /\ 1 <= cfg.blocks[b].start /\ cfg.blocks[b].start <= cfg.blocks[b].end
             /\ InBlock(b) = cfg.blocks[b].start .. cfg.blocks[b].end
             /\ InBlock(b) \subseteq DOMAIN code.insts
             /\ ToSet(cfg.succs[b]) \subseteq FlowBlocks
  <2>1. cfg.blocks[b] \in [start : Nat \ {0}, end : Nat]
    BY <1>n
  <2>2. cfg.blocks[b].start <= cfg.blocks[b].end
    BY DEF GraphOf, FlowBlocks
  <2>3. InBlock(b) \subseteq DOMAIN code.insts
    BY DEF GraphOf, FlowBlocks, InBlock
  <2>4. cfg.succs[b] \in Seq(FlowBlocks)
    BY <1>1
  <2>5. ToSet(cfg.succs[b]) \subseteq FlowBlocks
    BY <2>4 DEF ToSet
  <2> QED BY <2>1, <2>2, <2>3, <2>5 DEF InBlock
<1>4. ASSUME NEW i \in DOMAIN code.insts PROVE BlockOf(i) \in FlowBlocks /\ i \in InBlock(BlockOf(i))
  <2>1. \E b \in FlowBlocks : i \in InBlock(b)
    BY DEF GraphOf, FlowBlocks, InBlock
  <2> QED BY <2>1, Zenon DEF BlockOf, FlowBlocks
<1>5. ASSUME NEW b \in FlowBlocks, NEW i \in InBlock(b) PROVE BlockOf(i) = b
  <2>1. i \in DOMAIN code.insts
    BY <1>3
  <2>2. BlockOf(i) \in FlowBlocks /\ i \in InBlock(BlockOf(i))
    BY <2>1, <1>4
  <2>3. \A c \in FlowBlocks \ {b} : i \notin InBlock(c)
    BY DEF GraphOf, FlowBlocks, InBlock
  <2> QED BY <2>2, <2>3
<1> QED BY <1>2, <1>3, <1>4, <1>5

(* Where control comes in and leaves.                                      *)
LEMMA BlockFlow ==
  ASSUME GraphOf(code, cfg), NEW b \in FlowBlocks, NEW i \in InBlock(b)
  PROVE  /\ code.insts[i].op = "label" => i = cfg.blocks[b].start
         /\ i # cfg.blocks[b].end => code.insts[i].op \notin Terminators
         /\ i = cfg.blocks[b].end /\ code.insts[i].op # "jmp_ptr" =>
              \A j \in Goes(code, i) : \E s \in ToSet(cfg.succs[b]) : cfg.blocks[s].start = j
<1>1. \A c \in DOMAIN cfg.blocks : \A k \in cfg.blocks[c].start .. cfg.blocks[c].end :
         /\ k # cfg.blocks[c].start => code.insts[k].op # "label"
         /\ IF k # cfg.blocks[c].end THEN code.insts[k].op \notin Terminators
            ELSE code.insts[k].op = "jmp_ptr" \/
                 \A j \in Goes(code, k) : \E s \in ToSet(cfg.succs[c]) : cfg.blocks[s].start = j
  BY Zenon DEF GraphOf
<1>2. b \in DOMAIN cfg.blocks /\ i \in cfg.blocks[b].start .. cfg.blocks[b].end
  BY DEF FlowBlocks, InBlock
<1> QED BY <1>1, <1>2, Zenon

LEMMA ValueOperandsFacts ==
  ASSUME WellFormed(code), NEW i \in DOMAIN code.insts
  PROVE  /\ ValueOperands(code.insts[i]) \subseteq Reading(code.insts[i])
         /\ Reading(code.insts[i]) \subseteq Values(code)
<1> DEFINE inst == code.insts[i]
<1>1. ValueOperands(inst) \subseteq Values(code) /\ None \notin Values(code)
  BY ValuesFacts DEF WellFormed
<1> HIDE DEF inst
<1>2. ValueOperands(inst) \ {None} \subseteq Uses(inst)
  BY DEF ValueOperands, Uses, Observes
<1> QED BY <1>1, <1>2 DEF Reading, inst

(* One instruction back from i + 1, within a block.                        *)
LEMMA StepBack ==
  ASSUME NEW b, NEW i \in Nat, cfg.blocks[b].end \in Nat, i + 1 <= cfg.blocks[b].end
  PROVE  LiveAfter(b, i) =
           Reading(code.insts[i + 1]) \union (LiveAfter(b, i + 1) \ {code.insts[i + 1].dst})
<1> DEFINE e == cfg.blocks[b].end
           dst == code.insts[i + 1].dst
<1>1. ASSUME NEW k \in Nat, i + 1 <= k PROVE SetIn(i + 1, k) = {dst} \union SetIn(i + 2, k)
  <2>1. \A n : n \in i + 1 .. k <=> n = i + 1 \/ n \in i + 2 .. k
    BY <1>1
  <2> QED BY <2>1 DEF SetIn
<1>2. SetIn(i + 1, i) = {}
  BY DEF SetIn
<1>3. ReadIn(i + 1, e) = Reading(code.insts[i + 1]) \union (ReadIn(i + 2, e) \ {dst})
  <2>1. \A n : n \in i + 1 .. e <=> n = i + 1 \/ n \in i + 2 .. e
    OBVIOUS
  <2>2. \A n \in i + 2 .. e : SetIn(i + 1, n - 1) = {dst} \union SetIn(i + 2, n - 1)
    BY <1>1
  <2>3. SetIn(i + 1, (i + 1) - 1) = {}
    BY <1>2
  <2> HIDE DEF dst, e
  <2>4. \A v : v \in ReadIn(i + 1, e) <=>
          \E n \in i + 1 .. e : v \in Reading(code.insts[n]) /\ v \notin SetIn(i + 1, n - 1)
    BY DEF ReadIn
  <2>5. \A v : v \in ReadIn(i + 2, e) <=>
          \E n \in i + 2 .. e : v \in Reading(code.insts[n]) /\ v \notin SetIn(i + 2, n - 1)
    BY DEF ReadIn
  <2> QED BY <2>1, <2>2, <2>3, <2>4, <2>5
<1>4. SetIn(i + 1, e) = {dst} \union SetIn(i + 2, e)
  BY <1>1
<1>5. (i + 1) + 1 = i + 2
  OBVIOUS
<1> HIDE DEF dst, e
<1>6. LiveAfter(b, i) = ReadIn(i + 1, e) \union (LiveOut(b) \ SetIn(i + 1, e))
  BY DEF LiveAfter, e
<1>7. LiveAfter(b, i + 1) = ReadIn(i + 2, e) \union (LiveOut(b) \ SetIn(i + 2, e))
  BY <1>5 DEF LiveAfter, e
<1>8. LiveAfter(b, i) = Reading(code.insts[i + 1]) \union (LiveAfter(b, i + 1) \ {dst})
  BY <1>3, <1>4, <1>6, <1>7
<1> QED BY <1>8 DEF dst

LEMMA AtEnds ==
  ASSUME NEW b, cfg.blocks[b].end \in Nat, cfg.blocks[b].start \in Nat
  PROVE  /\ LiveAfter(b, cfg.blocks[b].end) = LiveOut(b)
         /\ LiveAfter(b, cfg.blocks[b].start - 1) = LiveIn(b)
<1> DEFINE e == cfg.blocks[b].end
           s == cfg.blocks[b].start
<1>1. SetIn(e + 1, e) = {} /\ ReadIn(e + 1, e) = {}
  BY DEF SetIn, ReadIn
<1>2. (s - 1) + 1 = s
  OBVIOUS
<1>3. LiveAfter(b, e) = LiveOut(b)
  BY <1>1 DEF LiveAfter
<1>4. LiveAfter(b, s - 1) = LiveIn(b)
  BY <1>2 DEF LiveAfter, LiveIn, Exposed
<1> QED BY <1>3, <1>4

(* What the blocks need is known when no block needs more than it says.    *)

Solved == \A b \in FlowBlocks : flow.in[b] = LiveIn(b)

Ins == [FlowBlocks -> SUBSET Values(code)]

(* Nobody needs what no block reads.                                       *)
Needed == UNION {Exposed(b) : b \in FlowBlocks}

LEMMA LiveSets ==
  ASSUME GraphOf(code, cfg), WellFormed(code), flow.in \in Ins
  PROVE  /\ \A b \in FlowBlocks : /\ LiveOut(b) \subseteq Values(code)
                              /\ Exposed(b) \subseteq Values(code)
                              /\ LiveIn(b) \subseteq Values(code)
         /\ \A i \in DOMAIN code.insts : Live[i] = LiveAfter(BlockOf(i), i)
         /\ Live \in [DOMAIN code.insts -> SUBSET Values(code)]
<1>0. code.insts \in Seq(Instruction)
  BY DEF WellFormed
<1>1. ASSUME NEW b \in FlowBlocks PROVE LiveOut(b) \subseteq Values(code)
  <2>1. ToSet(cfg.succs[b]) \subseteq FlowBlocks
    BY <1>0, BlockFacts
  <2> QED BY <2>1 DEF LiveOut, Ins
<1>2. \A i, j : ReadIn(i, j) \subseteq Values(code)
  BY DEF ReadIn, Reading
<1>3. \A i \in DOMAIN code.insts : Live[i] = LiveAfter(BlockOf(i), i)
  BY DEF Live
<1>4. ASSUME NEW i \in DOMAIN code.insts PROVE LiveAfter(BlockOf(i), i) \subseteq Values(code)
  <2>1. BlockOf(i) \in FlowBlocks
    BY <1>0, BlockFacts
  <2> QED BY <2>1, <1>1, <1>2 DEF LiveAfter
<1>5. Live \in [DOMAIN code.insts -> SUBSET Values(code)]
  BY <1>4 DEF Live
<1> QED BY <1>1, <1>2, <1>3, <1>5 DEF LiveIn, Exposed

(* What lives after an instruction that is not the last of its block.      *)
LEMMA LiveBack ==
  ASSUME GraphOf(code, cfg), WellFormed(code), NEW b \in FlowBlocks, NEW i \in InBlock(b),
         i # cfg.blocks[b].start
  PROVE  /\ i - 1 \in InBlock(b) /\ i - 1 \in DOMAIN code.insts
         /\ Live[i - 1] = Reading(code.insts[i]) \union (Live[i] \ {code.insts[i].dst})
<1>0. code.insts \in Seq(Instruction)
  BY DEF WellFormed
<1>1. /\ cfg.blocks[b].start \in Nat /\ cfg.blocks[b].end \in Nat /\ 1 <= cfg.blocks[b].start
      /\ InBlock(b) = cfg.blocks[b].start .. cfg.blocks[b].end
      /\ InBlock(b) \subseteq DOMAIN code.insts
      /\ \A j \in InBlock(b) : BlockOf(j) = b
  BY <1>0, BlockFacts
<1>2. /\ i \in Nat /\ i - 1 \in Nat /\ (i - 1) + 1 = i /\ i - 1 \in InBlock(b)
      /\ (i - 1) + 1 <= cfg.blocks[b].end
  BY <1>1
<1>3. /\ i \in DOMAIN code.insts /\ i - 1 \in DOMAIN code.insts
      /\ BlockOf(i) = b /\ BlockOf(i - 1) = b
  BY <1>1, <1>2
<1>4. Live[i - 1] = LiveAfter(b, i - 1) /\ Live[i] = LiveAfter(b, i)
  BY <1>3 DEF Live
<1>5. LiveAfter(b, i - 1) = Reading(code.insts[i]) \union (LiveAfter(b, i) \ {code.insts[i].dst})
  <2> DEFINE j == i - 1
  <2>1. j \in Nat /\ j + 1 = i /\ j + 1 <= cfg.blocks[b].end
    BY <1>2
  <2> HIDE DEF j
  <2>2. LiveAfter(b, j) = Reading(code.insts[j + 1]) \union (LiveAfter(b, j + 1) \ {code.insts[j + 1].dst})
    BY <1>1, <2>1, StepBack
  <2>3. LiveAfter(b, j) = Reading(code.insts[i]) \union (LiveAfter(b, i) \ {code.insts[i].dst})
    BY <2>1, <2>2
  <2> QED BY <2>3 DEF j
<1> QED BY <1>2, <1>3, <1>4, <1>5

(* What a block needs is what its first instruction needs.                 *)
LEMMA LiveEnds ==
  ASSUME GraphOf(code, cfg), WellFormed(code), NEW b \in FlowBlocks
  PROVE  LET s == cfg.blocks[b].start
             e == cfg.blocks[b].end
         IN  /\ Live[e] = LiveOut(b) /\ s \in DOMAIN code.insts /\ e \in DOMAIN code.insts
             /\ LiveIn(b) = Reading(code.insts[s]) \union (Live[s] \ {code.insts[s].dst})
<1>0. code.insts \in Seq(Instruction)
  BY DEF WellFormed
<1> DEFINE s == cfg.blocks[b].start
           e == cfg.blocks[b].end
<1>1. /\ s \in Nat /\ e \in Nat /\ 1 <= s /\ s <= e /\ InBlock(b) = s .. e
      /\ InBlock(b) \subseteq DOMAIN code.insts
      /\ \A j \in InBlock(b) : BlockOf(j) = b
  BY <1>0, BlockFacts
<1>2. s \in DOMAIN code.insts /\ e \in DOMAIN code.insts /\ BlockOf(s) = b /\ BlockOf(e) = b
  BY <1>1
<1>3. Live[s] = LiveAfter(b, s) /\ Live[e] = LiveAfter(b, e)
  BY <1>2 DEF Live
<1>4. LiveAfter(b, e) = LiveOut(b) /\ LiveAfter(b, s - 1) = LiveIn(b)
  BY <1>1, AtEnds
<1> DEFINE j == s - 1
<1>5. j \in Nat /\ j + 1 = s /\ j + 1 <= cfg.blocks[b].end
  BY <1>1
<1> HIDE DEF s, j
<1>6. LiveAfter(b, j) = Reading(code.insts[j + 1]) \union (LiveAfter(b, j + 1) \ {code.insts[j + 1].dst})
  BY <1>1, <1>5, StepBack
<1>7. LiveAfter(b, j) = Reading(code.insts[s]) \union (LiveAfter(b, s) \ {code.insts[s].dst})
  BY <1>5, <1>6
<1> QED BY <1>2, <1>3, <1>4, <1>7 DEF s, j

(* What the blocks need, solved, is what may be read from each instruction *)
(* on.                                                                     *)
LEMMA SolvedIsLiveness ==
  ASSUME Prepared, flow.in \in Ins, Solved, \A b \in FlowBlocks : flow.in[b] \subseteq Needed
  PROVE  Liveness(code, Live)
<1>0. WellFormed(code) /\ GraphOf(code, cfg) /\ code.insts \in Seq(Instruction)
  BY DEF Prepared, WellFormed
<1>1. Live \in [DOMAIN code.insts -> SUBSET Values(code)]
  BY <1>0, LiveSets
<1> SUFFICES ASSUME NEW i \in DOMAIN code.insts, NEW j \in Goes(code, i)
             PROVE  Needs(code, Live, j) \subseteq Live[i]
  BY <1>1 DEF Liveness
<1> DEFINE b == BlockOf(i)
<1>2. b \in FlowBlocks /\ i \in InBlock(b)
  BY <1>0, BlockFacts
<1> HIDE DEF b
<1>3. /\ cfg.blocks[b].start \in Nat /\ cfg.blocks[b].end \in Nat /\ 1 <= cfg.blocks[b].start
      /\ InBlock(b) = cfg.blocks[b].start .. cfg.blocks[b].end
      /\ ToSet(cfg.succs[b]) \subseteq FlowBlocks
      /\ DOMAIN code.insts \subseteq Nat
  BY <1>0, <1>2, BlockFacts
<1>4. ASSUME NEW k \in DOMAIN code.insts
      PROVE  Needs(code, Live, k) \subseteq
               (Reading(code.insts[k]) \union (Live[k] \ {code.insts[k].dst})) \ FrameSlots(code)
  BY <1>0, ValueOperandsFacts DEF Needs
<1>5. CASE i # cfg.blocks[b].end
  <2>1. code.insts[i].op \notin Terminators
    BY <1>0, <1>2, <1>5, BlockFlow
  <2>2. Goes(code, i) = {i + 1} \intersect DOMAIN code.insts
    BY <2>1 DEF Goes, Terminators
  <2>n. i \in Nat /\ j = i + 1 /\ j \in DOMAIN code.insts
    BY <2>2, <1>3
  <2>3. j \in InBlock(b) /\ j # cfg.blocks[b].start /\ j - 1 = i
    <3>1. i \in cfg.blocks[b].start .. cfg.blocks[b].end
      BY <1>2, <1>3
    <3>2. /\ j \in cfg.blocks[b].start .. cfg.blocks[b].end
          /\ j # cfg.blocks[b].start /\ j - 1 = i
      <4> HIDE <1>2
      <4> DEFINE s == cfg.blocks[b].start
                 e == cfg.blocks[b].end
      <4>1. s \in Nat /\ e \in Nat /\ i \in s .. e /\ i # e /\ j = i + 1
        BY <3>1, <2>n, <1>3, <1>5
      <4> HIDE DEF s, e
      <4>2. j \in s .. e /\ j # s /\ j - 1 = i
        BY <4>1
      <4> QED BY <4>2 DEF s, e
    <3> QED BY <3>2, <1>3
  <2>4. Live[j - 1] = Reading(code.insts[j]) \union (Live[j] \ {code.insts[j].dst})
    BY <1>0, <1>2, <2>3, LiveBack
  <2> QED BY <2>n, <2>3, <2>4, <1>4
<1>6. CASE i = cfg.blocks[b].end /\ code.insts[i].op # "jmp_ptr"
  <2>1. PICK s \in ToSet(cfg.succs[b]) : cfg.blocks[s].start = j
    BY <1>0, <1>2, <1>6, BlockFlow
  <2>2. s \in FlowBlocks /\ flow.in[s] = LiveIn(s) /\ flow.in[s] \subseteq LiveOut(b)
    BY <2>1, <1>3 DEF Solved, LiveOut
  <2>3. /\ j \in DOMAIN code.insts
        /\ LiveIn(s) = Reading(code.insts[j]) \union (Live[j] \ {code.insts[j].dst})
    BY <2>1, <2>2, <1>0, LiveEnds
  <2>4. Live[i] = LiveOut(b)
    BY <1>0, <1>2, <1>6, LiveEnds
  <2> QED BY <2>2, <2>3, <2>4, <1>4
<1>7. CASE i = cfg.blocks[b].end /\ code.insts[i].op = "jmp_ptr"
  <2>1. j \in DOMAIN code.insts /\ code.insts[j].op = "label"
    BY <1>7 DEF Goes, LabelPcs
  <2> DEFINE c == BlockOf(j)
  <2>2. c \in FlowBlocks /\ j \in InBlock(c)
    BY <2>1, <1>0, BlockFacts
  <2> HIDE DEF c
  <2>3. j = cfg.blocks[c].start
    BY <2>1, <2>2, <1>0, BlockFlow
  <2>4. LiveIn(c) = Reading(code.insts[j]) \union (Live[j] \ {code.insts[j].dst})
    BY <2>2, <2>3, <1>0, LiveEnds
  <2>5. \E k \in ToSet(code.insts) : k.op = "jmp_ptr"
    BY <1>7 DEF ToSet
  <2>6. Needed \subseteq FrameSlots(code)
    BY <2>5 DEF Prepared, JumpsCarryNothing, Needed, FlowBlocks
  <2>7. LiveIn(c) \subseteq FrameSlots(code)
    BY <2>2, <2>6 DEF Solved
  <2> QED BY <2>1, <2>4, <2>7, <1>4
<1> QED BY <1>5, <1>6, <1>7

(* What lives is read off the code, its blocks and what these need.        *)
LEMMA SameLive ==
  ASSUME code' = code, cfg' = cfg
  PROVE  /\ FlowBlocks' = FlowBlocks /\ Needed' = Needed /\ Ins' = Ins
         /\ Values(code)' = Values(code)
         /\ \A i : BlockOf(i)' = BlockOf(i)
         /\ \A b : InBlock(b)' = InBlock(b)
         /\ \A b : Exposed(b)' = Exposed(b)
         /\ \A inst : Reading(inst)' = Reading(inst)
         /\ Prepared' = Prepared
         /\ flow' = flow => Live' = Live /\ Solved' = Solved /\ \A b : LiveIn(b)' = LiveIn(b)
<1>1. /\ FlowBlocks' = FlowBlocks /\ Ins' = Ins /\ Values(code)' = Values(code)
      /\ \A i : BlockOf(i)' = BlockOf(i)
      /\ \A b : InBlock(b)' = InBlock(b)
  BY DEF FlowBlocks, Ins, Values, BlockOf, InBlock
<1>2. \A inst : Reading(inst)' = Reading(inst)
  BY DEF Reading
<1>3. \A i, j : SetIn(i, j)' = SetIn(i, j) /\ ReadIn(i, j)' = ReadIn(i, j)
  BY DEF SetIn, ReadIn, Reading
<1>4. \A b : Exposed(b)' = Exposed(b)
  BY <1>3 DEF Exposed
<1>5. Needed' = Needed
  BY <1>1, <1>4 DEF Needed
<1>6. Prepared' = Prepared
  BY DEF Prepared, JumpsCarryNothing, Exposed, ReadIn, SetIn, Reading
<1>7. ASSUME flow' = flow PROVE Live' = Live /\ Solved' = Solved /\ \A b : LiveIn(b)' = LiveIn(b)
  BY <1>7 DEF Live, LiveAfter, LiveOut, LiveIn, Exposed, ReadIn, SetIn, Reading, Solved, FlowBlocks,
     BlockOf, InBlock
<1> QED BY <1>1, <1>2, <1>4, <1>5, <1>6, <1>7

-----------------------------------------------------------------------------
(* A walk back over the blocks: what it has with it is at least what lives *)
(* after the instruction where it is.                                      *)

Walks == [block : Nat, at : Nat, live : SUBSET Values(code)]

WalkOK(w) ==
  /\ w \in Walks
  /\ w.at # 0 => w.block \in FlowBlocks /\ w.at \in InBlock(w.block) /\ Live[w.at] \subseteq w.live

Walked(w, i) == w.at = 0 \/ BlockOf(i) < w.block \/ (BlockOf(i) = w.block /\ i > w.at)

(* From the end of a block: what is before it was walked over.             *)
LEMMA EndOfFacts ==
  ASSUME Prepared, flow.in \in Ins, NEW b \in Nat \ {0}
  PROVE  /\ WalkOK(EndOf(b))
         /\ \A i \in DOMAIN code.insts : Walked(EndOf(b), i) => BlockOf(i) < b
<1>0. WellFormed(code) /\ GraphOf(code, cfg) /\ code.insts \in Seq(Instruction)
  BY DEF Prepared, WellFormed
<1>1. /\ Len(cfg.blocks) \in Nat /\ FlowBlocks = 1 .. Len(cfg.blocks)
      /\ \A i \in DOMAIN code.insts : BlockOf(i) \in FlowBlocks /\ i \in InBlock(BlockOf(i))
  BY <1>0, BlockFacts
<1>2. CASE b \in FlowBlocks
  <2> DEFINE e == cfg.blocks[b].end
  <2>1. EndOf(b) = [block |-> b, at |-> e, live |-> LiveOut(b)]
    BY <1>2 DEF EndOf, FlowBlocks
  <2>2. /\ e \in Nat /\ e # 0 /\ e \in InBlock(b) /\ Live[e] = LiveOut(b)
        /\ LiveOut(b) \subseteq Values(code)
    <3>1. e \in Nat /\ e # 0 /\ e \in InBlock(b)
      BY <1>0, <1>2, BlockFacts
    <3>2. Live[e] = LiveOut(b)
      BY <1>0, <1>2, LiveEnds
    <3>3. LiveOut(b) \subseteq Values(code)
      BY <1>0, <1>2, LiveSets
    <3> QED BY <3>1, <3>2, <3>3
  <2>3. \A i \in InBlock(b) : i <= e /\ i \in Nat
    BY <1>0, <1>2, BlockFacts
  <2> HIDE DEF e
  <2>4. WalkOK(EndOf(b))
    BY <1>2, <2>1, <2>2 DEF WalkOK, Walks
  <2>5. ASSUME NEW i \in DOMAIN code.insts, Walked(EndOf(b), i) PROVE BlockOf(i) < b
    <3>1. BlockOf(i) < b \/ (BlockOf(i) = b /\ i > e)
      BY <2>1, <2>2, <2>5 DEF Walked
    <3>2. BlockOf(i) = b => i <= e /\ i \in Nat
      BY <1>1, <2>3
    <3> QED BY <2>2, <3>1, <3>2
  <2> QED BY <2>4, <2>5
<1>3. CASE b \notin FlowBlocks
  <2>1. EndOf(b) = [block |-> 0, at |-> 0, live |-> {}]
    BY <1>3 DEF EndOf, FlowBlocks, Over
  <2>2. WalkOK(EndOf(b))
    BY <2>1 DEF WalkOK, Walks
  <2>3. \A c \in FlowBlocks : c < b
    BY <1>1, <1>3
  <2> QED BY <2>2, <2>3, <1>1
<1> QED BY <1>2, <1>3

LEMMA BeforeFacts ==
  ASSUME NEW inst, NEW live \in SUBSET Values(code)
  PROVE  /\ Before(inst, live) \subseteq Values(code)
         /\ \A L \in SUBSET live : Reading(inst) \union (L \ {inst.dst}) \subseteq Before(inst, live)
BY DEF Before, Defines, Reading

(* One instruction back: it is the only one more that was walked over.     *)
LEMMA BackFacts ==
  ASSUME Prepared, flow.in \in Ins, WalkOK(walk), walk.at # 0
  PROVE  /\ WalkOK(Back) /\ walk.at \in DOMAIN code.insts
         /\ walk.live \subseteq Values(code) /\ Live[walk.at] \subseteq walk.live
         /\ \A i \in DOMAIN code.insts : Walked(Back, i) => Walked(walk, i) \/ i = walk.at
<1>0. WellFormed(code) /\ GraphOf(code, cfg) /\ code.insts \in Seq(Instruction)
  BY DEF Prepared, WellFormed
<1> DEFINE b == walk.block
           at == walk.at
<1>1. walk \in Walks /\ b \in FlowBlocks /\ at \in InBlock(b) /\ Live[at] \subseteq walk.live
  BY DEF WalkOK
<1>2. /\ b \in Nat /\ at \in Nat /\ walk.live \subseteq Values(code)
      /\ walk = [block |-> b, at |-> at, live |-> walk.live]
  BY <1>1 DEF Walks
<1>3. /\ InBlock(b) = cfg.blocks[b].start .. cfg.blocks[b].end
      /\ cfg.blocks[b].start \in Nat /\ cfg.blocks[b].end \in Nat
      /\ InBlock(b) \subseteq DOMAIN code.insts
      /\ FlowBlocks \subseteq Nat \ {0}
      /\ \A i \in DOMAIN code.insts : BlockOf(i) \in Nat /\ i \in InBlock(BlockOf(i))
  BY <1>0, <1>1, BlockFacts
<1>4. at \in DOMAIN code.insts
  BY <1>1, <1>3
<1>5. CASE at = cfg.blocks[b].start
  <2>1. Back = EndOf(b + 1) /\ b + 1 \in Nat \ {0}
    BY <1>2, <1>5 DEF Back
  <2>2. WalkOK(Back) /\ \A i \in DOMAIN code.insts : Walked(Back, i) => BlockOf(i) < b + 1
    BY <2>1, EndOfFacts
  <2>3. ASSUME NEW i \in DOMAIN code.insts, Walked(Back, i) PROVE Walked(walk, i) \/ i = at
    <3>1. BlockOf(i) < b \/ BlockOf(i) = b
      BY <1>2, <1>3, <2>2, <2>3
    <3>2. BlockOf(i) = b => i >= at /\ i \in Nat
      BY <1>3, <1>5
    <3> QED BY <1>2, <3>1, <3>2 DEF Walked
  <2> QED BY <1>1, <1>2, <1>4, <2>2, <2>3
<1>6. CASE at # cfg.blocks[b].start
  <2> DEFINE w == [block |-> b, at |-> at - 1, live |-> Before(code.insts[at], walk.live)]
  <2>1. Back = w
    BY <1>2, <1>6 DEF Back, There
  <2>2. /\ at - 1 \in InBlock(b) /\ at - 1 \in Nat
        /\ Live[at - 1] = Reading(code.insts[at]) \union (Live[at] \ {code.insts[at].dst})
    <3>1. /\ at - 1 \in InBlock(b) /\ at - 1 \in DOMAIN code.insts
          /\ Live[at - 1] = Reading(code.insts[at]) \union (Live[at] \ {code.insts[at].dst})
      BY <1>0, <1>1, <1>6, LiveBack
    <3> QED BY <3>1, <1>0
  <2>3. /\ Before(code.insts[at], walk.live) \subseteq Values(code)
        /\ Live[at - 1] \subseteq Before(code.insts[at], walk.live)
    BY <1>1, <1>2, <2>2, BeforeFacts
  <2>4. WalkOK(w)
    BY <1>1, <1>2, <2>2, <2>3 DEF WalkOK, Walks
  <2>5. ASSUME NEW i \in DOMAIN code.insts, Walked(w, i) PROVE Walked(walk, i) \/ i = at
    <3>1. i \in Nat
      BY <1>0
    <3>2. at - 1 = 0 \/ BlockOf(i) < b \/ (BlockOf(i) = b /\ i > at - 1)
      BY <2>5 DEF Walked
    <3>3. at - 1 # 0
      BY <1>0, <2>2, <1>3, <1>1
    <3> QED BY <1>2, <3>1, <3>2, <3>3 DEF Walked
  <2> HIDE DEF w
  <2> QED BY <1>1, <1>2, <1>4, <2>1, <2>4, <2>5
<1> QED BY <1>5, <1>6

-----------------------------------------------------------------------------
(* The graph that is made: what it has of the values, and what its colours *)
(* and edges say of an instruction.                                        *)

Graphs ==
  [adj : [Values(code) -> Seq(Values(code))], forbidden : [Values(code) -> SUBSET Colours],
   cost : [Values(code) -> Nat], unused : SUBSET Values(code), order : Seq(Values(code))]

GraphTyped(g) == g \in Graphs /\ Edges(g.adj)

Bars(g, i) ==
  code.insts[i].op = "call" =>
    \A v \in Live[i] \ {code.insts[i].dst} : CallerColours \subseteq g.forbidden[v]

Links(g, i) ==
  code.insts[i].dst \in Values(code) =>
    Live[i] \ {code.insts[i].dst} \subseteq ToSet(g.adj[code.insts[i].dst])

LinkedParams(g, p, q) == ParamOf(q) \in ToSet(g.adj[ParamOf(p)])

(* Colours are barred and edges are added, and neither taken back.         *)
Grows(g, h) ==
  \A v \in Values(code) : /\ g.forbidden[v] \subseteq h.forbidden[v]
                          /\ ToSet(g.adj[v]) \subseteq ToSet(h.adj[v])

LEMMA GrowingKeeps ==
  ASSUME Live \in [DOMAIN code.insts -> SUBSET Values(code)], NEW g, NEW h, Grows(g, h),
         NEW i \in DOMAIN code.insts
  PROVE  (Bars(g, i) => Bars(h, i)) /\ (Links(g, i) => Links(h, i))
<1>1. Live[i] \subseteq Values(code)
  OBVIOUS
<1>2. Bars(g, i) => Bars(h, i)
  BY <1>1 DEF Bars, Grows
<1>3. Links(g, i) => Links(h, i)
  BY DEF Links, Grows
<1> QED BY <1>2, <1>3

LEMMA ForbiddenFacts ==
  ASSUME NEW g, GraphTyped(g), NEW f \in [Values(code) -> SUBSET Colours],
         \A v \in Values(code) : g.forbidden[v] \subseteq f[v]
  PROVE  LET h == [g EXCEPT !.forbidden = f]
         IN  GraphTyped(h) /\ Grows(g, h) /\ h.forbidden = f /\ h.adj = g.adj /\ h.order = g.order
<1> DEFINE h == [g EXCEPT !.forbidden = f]
<1>1. g \in Graphs /\ Edges(g.adj)
  BY DEF GraphTyped
<1>2. h \in Graphs /\ h.forbidden = f /\ h.adj = g.adj /\ h.order = g.order
  BY <1>1 DEF Graphs
<1> HIDE DEF h
<1>3. GraphTyped(h) /\ Grows(g, h)
  BY <1>1, <1>2 DEF GraphTyped, Grows
<1> QED BY <1>2, <1>3 DEF h

LEMMA AdjacentFacts ==
  ASSUME NEW g, GraphTyped(g), NEW adj, Edges(adj),
         \A v \in Values(code) : ToSet(g.adj[v]) \subseteq ToSet(adj[v])
  PROVE  LET h == [g EXCEPT !.adj = adj]
         IN  GraphTyped(h) /\ Grows(g, h) /\ h.adj = adj /\ h.order = g.order
<1> DEFINE h == [g EXCEPT !.adj = adj]
<1>1. g \in Graphs /\ Edges(g.adj) /\ adj \in [Values(code) -> Seq(Values(code))]
  BY DEF GraphTyped, Edges
<1>2. h \in Graphs /\ h.forbidden = g.forbidden /\ h.adj = adj /\ h.order = g.order
  BY <1>1 DEF Graphs
<1> HIDE DEF h
<1>3. GraphTyped(h) /\ Grows(g, h)
  BY <1>1, <1>2 DEF GraphTyped, Grows
<1> QED BY <1>2, <1>3 DEF h

(* Pass 1.                                                                 *)
LEMMA BarOverCallKeeps ==
  ASSUME Prepared, flow.in \in Ins, GraphTyped(graph), WalkOK(walk), BarOverCall,
         \A i \in DOMAIN code.insts : Walked(walk, i) => Bars(graph, i)
  PROVE  /\ GraphTyped(graph') /\ graph'.order = graph.order
         /\ WalkOK(walk')
         /\ \A i \in DOMAIN code.insts : Walked(walk', i) => Bars(graph', i)
<1> DEFINE at == walk.at
<1>1. /\ walk' = Back /\ at # 0
      /\ graph' = IF There.op = "call" THEN [graph EXCEPT !.forbidden = Bar(Across)] ELSE graph
  BY DEF BarOverCall
<1>2. /\ WalkOK(Back) /\ at \in DOMAIN code.insts
      /\ walk.live \subseteq Values(code) /\ Live[at] \subseteq walk.live
      /\ \A i \in DOMAIN code.insts : Walked(Back, i) => Walked(walk, i) \/ i = at
  BY <1>1, BackFacts
<1>3. Live \in [DOMAIN code.insts -> SUBSET Values(code)]
  BY LiveSets DEF Prepared
<1>4. graph.forbidden \in [Values(code) -> SUBSET Colours]
  BY DEF GraphTyped, Graphs
<1>5. /\ Bar(Across) \in [Values(code) -> SUBSET Colours]
      /\ \A v \in Values(code) :
           Bar(Across)[v] = graph.forbidden[v] \union (IF v \in Across THEN CallerColours ELSE {})
  BY <1>4 DEF Bar, CallerColours
<1>6. /\ GraphTyped(graph') /\ graph'.order = graph.order /\ Grows(graph, graph')
      /\ There.op = "call" => graph'.forbidden = Bar(Across)
  <2>1. CASE There.op = "call"
    BY <2>1, <1>1, <1>5, ForbiddenFacts
  <2>2. CASE There.op # "call"
    BY <2>2, <1>1 DEF Grows
  <2> QED BY <2>1, <2>2
<1>7. Bars(graph', at)
  <2> SUFFICES ASSUME There.op = "call", NEW v \in Live[at] \ {There.dst}
               PROVE  CallerColours \subseteq graph'.forbidden[v]
    BY DEF Bars, There
  <2>1. v \in Values(code) /\ v \in Across
    BY <1>2 DEF Across, Defines
  <2> QED BY <2>1, <1>5, <1>6
<1>8. ASSUME NEW i \in DOMAIN code.insts, Walked(walk', i) PROVE Bars(graph', i)
  <2>1. Bars(graph, i) \/ i = at
    BY <1>1, <1>2, <1>8
  <2>2. Bars(graph, i) => Bars(graph', i)
    BY <1>3, <1>6, GrowingKeeps
  <2> QED BY <2>1, <2>2, <1>7
<1> QED BY <1>1, <1>2, <1>6, <1>8

(* Pass 1b.                                                                *)
LEMMA SpreadKeeps ==
  ASSUME Prepared, flow.in \in Ins, GraphTyped(graph), Spread,
         walk \in [at : Nat \ {0}, changed : BOOLEAN],
         \A i \in DOMAIN code.insts : Bars(graph, i)
  PROVE  /\ GraphTyped(graph') /\ graph'.order = graph.order
         /\ walk' \in [at : Nat \ {0}, changed : BOOLEAN]
         /\ \A i \in DOMAIN code.insts : Bars(graph', i)
<1> DEFINE v == There.dst
           w == There.a
           both == graph.forbidden[v] \union graph.forbidden[w]
           f == [graph.forbidden EXCEPT ![v] = both, ![w] = both]
<1>1. Live \in [DOMAIN code.insts -> SUBSET Values(code)]
  BY LiveSets DEF Prepared
<1>2. graph.forbidden \in [Values(code) -> SUBSET Colours] /\ graph \in Graphs
  BY DEF GraphTyped, Graphs
<1>3. \/ /\ v \in Values(code) /\ w \in Values(code)
         /\ graph' = [graph EXCEPT !.forbidden[v] = both, !.forbidden[w] = both]
         /\ walk' = [at |-> walk.at + 1, changed |-> walk.changed \/ graph' # graph]
      \/ graph' = graph /\ walk' = [walk EXCEPT !.at = @ + 1]
  BY DEF Spread
<1>4. walk' \in [at : Nat \ {0}, changed : BOOLEAN]
  <2>1. walk.at + 1 \in Nat \ {0} /\ walk.changed \in BOOLEAN
    OBVIOUS
  <2>2. [at |-> walk.at + 1, changed |-> walk.changed \/ graph' # graph] \in
          [at : Nat \ {0}, changed : BOOLEAN]
    BY <2>1
  <2>3. [walk EXCEPT !.at = @ + 1] \in [at : Nat \ {0}, changed : BOOLEAN]
    BY <2>1
  <2> QED BY <2>2, <2>3, <1>3
<1>5. GraphTyped(graph') /\ graph'.order = graph.order /\ Grows(graph, graph')
  <2>1. CASE graph' = graph
    BY <2>1 DEF Grows
  <2>2. CASE /\ v \in Values(code) /\ w \in Values(code)
             /\ graph' = [graph EXCEPT !.forbidden[v] = both, !.forbidden[w] = both]
    <3>1. graph' = [graph EXCEPT !.forbidden = f]
      BY <2>2, <1>2 DEF Graphs
    <3>2. /\ f \in [Values(code) -> SUBSET Colours]
          /\ \A x \in Values(code) : graph.forbidden[x] \subseteq f[x]
      BY <2>2, <1>2
    <3> HIDE DEF f
    <3> QED BY <3>1, <3>2, ForbiddenFacts
  <2> QED BY <1>3, <2>1, <2>2
<1>6. \A i \in DOMAIN code.insts : Bars(graph', i)
  BY <1>1, <1>5, GrowingKeeps
<1> QED BY <1>4, <1>5, <1>6

(* Pass 2.                                                                 *)
LEMMA LinkLiveKeeps ==
  ASSUME Prepared, flow.in \in Ins, GraphTyped(graph), WalkOK(walk), LinkLive,
         \A i \in DOMAIN code.insts : Bars(graph, i),
         \A i \in DOMAIN code.insts : Walked(walk, i) => Links(graph, i)
  PROVE  /\ GraphTyped(graph') /\ graph'.order = graph.order
         /\ WalkOK(walk')
         /\ \A i \in DOMAIN code.insts : Bars(graph', i)
         /\ \A i \in DOMAIN code.insts : Walked(walk', i) => Links(graph', i)
<1> DEFINE at == walk.at
           adj == Link(graph.adj, There.dst, walk.live)
<1>1. /\ walk' = Back /\ at # 0
      /\ graph' = IF There.dst \in Values(code) THEN [graph EXCEPT !.adj = adj] ELSE graph
  <2>1. [graph EXCEPT !.adj = Link(@, There.dst, walk.live)] = [graph EXCEPT !.adj = adj]
    BY DEF GraphTyped, Graphs
  <2> HIDE DEF adj
  <2> QED BY <2>1 DEF LinkLive
<1>2. /\ WalkOK(Back) /\ at \in DOMAIN code.insts
      /\ walk.live \subseteq Values(code) /\ Live[at] \subseteq walk.live
      /\ \A i \in DOMAIN code.insts : Walked(Back, i) => Walked(walk, i) \/ i = at
  BY <1>1, BackFacts
<1>3. Live \in [DOMAIN code.insts -> SUBSET Values(code)] /\ code.next \in Nat
  BY LiveSets DEF Prepared, WellFormed
<1>4. There.dst \in Values(code) =>
        /\ Edges(adj) /\ walk.live \ {There.dst} \subseteq ToSet(adj[There.dst])
        /\ \A w \in Values(code) : ToSet(graph.adj[w]) \subseteq ToSet(adj[w])
  BY <1>2, <1>3, LinkFacts DEF GraphTyped
<1> HIDE DEF adj
<1>5. /\ GraphTyped(graph') /\ graph'.order = graph.order /\ Grows(graph, graph')
      /\ There.dst \in Values(code) => graph'.adj = adj
  <2>1. CASE There.dst \in Values(code)
    BY <2>1, <1>1, <1>4, AdjacentFacts
  <2>2. CASE There.dst \notin Values(code)
    BY <2>2, <1>1 DEF Grows
  <2> QED BY <2>1, <2>2
<1>6. Links(graph', at)
  BY <1>2, <1>4, <1>5 DEF Links, There
<1>7. ASSUME NEW i \in DOMAIN code.insts, Walked(walk', i) PROVE Links(graph', i)
  <2>1. Links(graph, i) \/ i = at
    BY <1>1, <1>2, <1>7
  <2>2. Links(graph, i) => Links(graph', i)
    BY <1>3, <1>5, GrowingKeeps
  <2> QED BY <2>1, <2>2, <1>6
<1>8. \A i \in DOMAIN code.insts : Bars(graph', i)
  BY <1>3, <1>5, GrowingKeeps
<1> QED BY <1>1, <1>2, <1>5, <1>7, <1>8

(* Pass 2b: the pairs of parameters before the one the loops are at.       *)
Pairs(w) ==
  {pq \in Incoming \X Incoming :
     pq[1] < pq[2] /\ (pq[1] < w.at \/ (pq[1] = w.at /\ pq[2] < w.other))}

PairsOK(g, w) ==
  /\ w \in [at : Nat \ {0}, other : Nat] /\ w.at < w.other
  /\ \A pq \in Pairs(w) : LinkedParams(g, pq[1], pq[2])

LEMMA LinkParamsKeeps ==
  ASSUME Prepared, flow.in \in Ins, GraphTyped(graph), PairsOK(graph, walk), LinkParams,
         \A i \in DOMAIN code.insts : Bars(graph, i) /\ Links(graph, i)
  PROVE  /\ GraphTyped(graph') /\ graph'.order = graph.order
         /\ PairsOK(graph', walk')
         /\ \A i \in DOMAIN code.insts : Bars(graph', i) /\ Links(graph', i)
<1> DEFINE p == walk.at
           q == walk.other
<1>0. WellFormed(code) /\ code.next \in Nat /\ Incoming \subseteq Nat
  <2>1. WellFormed(code)
    BY DEF Prepared
  <2>2. Incoming \subseteq DOMAIN code.insts
    BY DEF Incoming
  <2> QED BY <2>1, <2>2, CodeFacts
<1>1. /\ p \in Incoming /\ p \in Nat \ {0} /\ q \in Nat /\ p < q
      /\ walk = [at |-> p, other |-> q]
  <2>1. walk \in [at : Nat \ {0}, other : Nat] /\ p < q
    BY DEF PairsOK
  <2>2. p \in Incoming
    BY DEF LinkParams
  <2>3. \A r \in [at : Nat \ {0}, other : Nat] :
          r = [at |-> r.at, other |-> r.other] /\ r.at \in Nat \ {0} /\ r.other \in Nat
    OBVIOUS
  <2>4. p \in Nat \ {0} /\ q \in Nat
    BY <2>1
  <2>5. walk = [at |-> p, other |-> q]
    BY <2>1, <2>3, Zenon
  <2> QED BY <2>1, <2>2, <2>4, <2>5
<1>2. Live \in [DOMAIN code.insts -> SUBSET Values(code)]
  BY LiveSets DEF Prepared
<1>3. CASE q \in Incoming
  <2> DEFINE v == ParamOf(p)
             w == ParamOf(q)
             adj == Link(graph.adj, v, {w})
  <2>1. v \in Values(code) /\ w \in Values(code) /\ w # v
    <3>1. /\ p \in DOMAIN code.insts /\ code.insts[p].op = "param"
          /\ q \in DOMAIN code.insts /\ code.insts[q].op = "param"
      BY <1>1, <1>3 DEF Incoming
    <3>2. p \in 1 .. q - 1
      BY <1>1
    <3> QED BY <3>1, <3>2, <1>0 DEF WellFormed, ParamOf
  <2>2. graph' = [graph EXCEPT !.adj = adj] /\ walk' = [at |-> p, other |-> q + 1]
    <3>1. [graph EXCEPT !.adj = Link(@, v, {w})] = [graph EXCEPT !.adj = adj]
      BY DEF GraphTyped, Graphs
    <3>2. [walk EXCEPT !.other = @ + 1] = [at |-> p, other |-> q + 1]
      BY <1>1
    <3> HIDE DEF adj
    <3> QED BY <3>1, <3>2, <1>3 DEF LinkParams
  <2>3. /\ Edges(adj) /\ w \in ToSet(adj[v])
        /\ \A x \in Values(code) : ToSet(graph.adj[x]) \subseteq ToSet(adj[x])
    BY <1>0, <2>1, LinkFacts DEF GraphTyped
  <2> HIDE DEF adj
  <2>4. GraphTyped(graph') /\ graph'.order = graph.order /\ Grows(graph, graph') /\ graph'.adj = adj
    BY <2>2, <2>3, AdjacentFacts
  <2>5. \A i \in DOMAIN code.insts : Bars(graph', i) /\ Links(graph', i)
    BY <1>2, <2>4, GrowingKeeps
  <2>6. ASSUME NEW pq \in Pairs(walk') PROVE LinkedParams(graph', pq[1], pq[2])
    <3>1. pq[1] \in Incoming /\ pq[2] \in Incoming /\ pq[1] < pq[2]
          /\ (pq[1] < p \/ (pq[1] = p /\ pq[2] < q + 1))
      BY <2>2, <2>6 DEF Pairs
    <3>2. CASE pq[1] = p /\ pq[2] = q
      BY <3>2, <2>3, <2>4 DEF LinkedParams
    <3>3. CASE ~ (pq[1] = p /\ pq[2] = q)
      <4>1. pq \in Pairs(walk)
        BY <2>6, <3>1, <3>3, <1>0, <1>1 DEF Pairs
      <4>2. ParamOf(pq[1]) \in Values(code)
        BY <1>0, <3>1 DEF WellFormed, ParamOf, Incoming
      <4> QED BY <4>1, <4>2, <2>4 DEF PairsOK, LinkedParams, Grows
    <3> QED BY <3>2, <3>3
  <2>7. PairsOK(graph', walk')
    BY <1>1, <2>2, <2>6 DEF PairsOK
  <2> QED BY <2>4, <2>5, <2>7
<1>4. CASE q \notin Incoming
  <2>1. graph' = graph /\ walk' = [at |-> p + 1, other |-> p + 2]
    BY <1>4 DEF LinkParams
  <2>2. ASSUME NEW pq \in Pairs(walk') PROVE LinkedParams(graph, pq[1], pq[2])
    <3>1. pq[1] \in Incoming /\ pq[2] \in Incoming /\ pq[1] < pq[2]
          /\ (pq[1] < p + 1 \/ (pq[1] = p + 1 /\ pq[2] < p + 2))
      BY <2>1, <2>2 DEF Pairs
    <3>2. pq[1] < p \/ pq[1] = p
      BY <3>1, <1>0, <1>1
    <3>3. pq[2] < q
      <4> SUFFICES ASSUME q <= pq[2] PROVE FALSE
        BY <3>1, <1>0, <1>1
      <4>1. q \in DOMAIN code.insts /\ q <= pq[2]
        BY <3>1, <1>0, <1>1, CodeFacts DEF Incoming
      <4>2. q \in Incoming
        BY <4>1, <3>1, <1>0, IncomingFirst
      <4> QED BY <4>2, <1>4
    <3>4. pq \in Pairs(walk)
      BY <2>2, <3>1, <3>2, <3>3 DEF Pairs
    <3> QED BY <3>4 DEF PairsOK
  <2>3. PairsOK(graph', walk')
    BY <1>1, <2>1, <2>2 DEF PairsOK
  <2> QED BY <2>1, <2>3
<1> QED BY <1>3, <1>4

LEMMA AllParamsLinked ==
  ASSUME WellFormed(code), GraphTyped(graph), PairsOK(graph, walk), walk.at \notin Incoming,
         NEW i \in Incoming, NEW j \in 1 .. i - 1
  PROVE  code.insts[j].dst \in ToSet(graph.adj[code.insts[i].dst])
<1>1. i \in DOMAIN code.insts /\ i \in Nat /\ j \in Nat /\ j < i /\ walk.at \in Nat \ {0}
  BY CodeFacts DEF Incoming, PairsOK
<1>2. j \in DOMAIN code.insts
  BY <1>1, CodeFacts
<1>3. j \in Incoming
  BY <1>1, <1>2, IncomingFirst
<1>4. i < walk.at
  <2> SUFFICES ASSUME walk.at <= i PROVE FALSE
    BY <1>1
  <2>1. walk.at \in DOMAIN code.insts
    BY <1>1, CodeFacts
  <2>2. walk.at \in Incoming
    BY <1>1, <2>1, IncomingFirst
  <2> QED BY <2>2
<1>5. <<j, i>> \in Pairs(walk)
  BY <1>1, <1>3, <1>4 DEF Pairs
<1>6. code.insts[i].dst \in ToSet(graph.adj[code.insts[j].dst])
  BY <1>5 DEF PairsOK, LinkedParams, ParamOf
<1>7. code.insts[j].dst \in Values(code)
  BY <1>3 DEF WellFormed, Incoming
<1> QED BY <1>6, <1>7 DEF GraphTyped, Edges

-----------------------------------------------------------------------------
(* The order: every value gets into it once.                               *)

LEMMA PrependFacts ==
  ASSUME NEW V, NEW s \in Seq(V), NEW v \in V
  PROVE  /\ <<v>> \o s \in Seq(V) /\ Len(s) \in Nat /\ DOMAIN s = 1 .. Len(s)
         /\ DOMAIN (<<v>> \o s) = 1 .. Len(s) + 1 /\ (<<v>> \o s)[1] = v
         /\ \A k \in 1 .. Len(s) : (<<v>> \o s)[k + 1] = s[k]
         /\ \A k \in 1 .. Len(s) + 1 : k = 1 \/ (k - 1 \in 1 .. Len(s) /\ (<<v>> \o s)[k] = s[k - 1])
         /\ ToSet(<<v>> \o s) = {v} \union ToSet(s)
<1> DEFINE t == <<v>> \o s
<1>1. /\ t \in Seq(V) /\ Len(s) \in Nat /\ DOMAIN s = 1 .. Len(s) /\ DOMAIN t = 1 .. Len(s) + 1
      /\ t[1] = v /\ \A k \in 1 .. Len(s) : t[k + 1] = s[k]
  OBVIOUS
<1> HIDE DEF t
<1>2. \A k \in 1 .. Len(s) + 1 : k = 1 \/ (k - 1 \in 1 .. Len(s) /\ t[k] = s[k - 1])
  <2> SUFFICES ASSUME NEW k \in 1 .. Len(s) + 1, k # 1
               PROVE  k - 1 \in 1 .. Len(s) /\ t[k] = s[k - 1]
    OBVIOUS
  <2>1. k - 1 \in 1 .. Len(s) /\ (k - 1) + 1 = k
    BY <1>1
  <2> QED BY <2>1, <1>1
<1>3. \A k \in 1 .. Len(s) : s[k] \in ToSet(s)
  BY <1>1 DEF ToSet
<1>4. ToSet(t) = {v} \union ToSet(s)
  <2>1. ToSet(t) \subseteq {v} \union ToSet(s)
    <3> SUFFICES ASSUME NEW k \in 1 .. Len(s) + 1 PROVE t[k] \in {v} \union ToSet(s)
      BY <1>1 DEF ToSet
    <3> QED BY <1>1, <1>2, <1>3
  <2>2. v \in ToSet(t)
    <3>1. 1 \in 1 .. Len(s) + 1
      BY <1>1
    <3> QED BY <3>1, <1>1 DEF ToSet
  <2>3. ToSet(s) \subseteq ToSet(t)
    <3> SUFFICES ASSUME NEW k \in 1 .. Len(s) PROVE s[k] \in ToSet(t)
      BY <1>1 DEF ToSet
    <3>1. k + 1 \in 1 .. Len(s) + 1 /\ t[k + 1] = s[k]
      BY <1>1
    <3> QED BY <3>1, <1>1 DEF ToSet
  <2> QED BY <2>1, <2>2, <2>3
<1> QED BY <1>1, <1>2, <1>4 DEF t

LEMMA ConsFacts ==
  ASSUME NEW V, NEW s \in Seq(V), IsInjective(s), NEW v \in V \ ToSet(s)
  PROVE  /\ <<v>> \o s \in Seq(V) /\ IsInjective(<<v>> \o s)
         /\ ToSet(<<v>> \o s) = {v} \union ToSet(s)
<1> DEFINE t == <<v>> \o s
<1>1. /\ t \in Seq(V) /\ Len(s) \in Nat /\ DOMAIN s = 1 .. Len(s) /\ DOMAIN t = 1 .. Len(s) + 1
      /\ t[1] = v /\ ToSet(t) = {v} \union ToSet(s)
  BY PrependFacts
<1>2. \A k \in 1 .. Len(s) + 1 : k = 1 \/ (k - 1 \in 1 .. Len(s) /\ t[k] = s[k - 1])
  BY PrependFacts
<1>3. \A k \in 1 .. Len(s) : s[k] \in ToSet(s)
  BY <1>1 DEF ToSet
<1> HIDE DEF t
<1>4. IsInjective(t)
  <2> SUFFICES ASSUME NEW k \in 1 .. Len(s) + 1, NEW l \in 1 .. Len(s) + 1, t[k] = t[l]
               PROVE  k = l
    BY <1>1 DEF IsInjective
  <2>1. CASE k = 1 /\ l # 1
    BY <2>1, <1>1, <1>2, <1>3
  <2>2. CASE k # 1 /\ l = 1
    BY <2>2, <1>1, <1>2, <1>3
  <2>3. CASE k # 1 /\ l # 1
    <3>1. k - 1 \in 1 .. Len(s) /\ l - 1 \in 1 .. Len(s) /\ s[k - 1] = s[l - 1]
      BY <2>3, <1>2
    <3>2. k - 1 = l - 1
      BY <3>1, <1>1 DEF IsInjective
    <3> QED BY <3>2
  <2> QED BY <2>1, <2>2, <2>3
<1> QED BY <1>1, <1>4 DEF t

LEMMA PickFacts ==
  ASSUME GraphTyped(graph), IsInjective(graph.order), NEW v \in Unpicked, NEW s, Pick(s, v)
  PROVE  /\ GraphTyped(graph') /\ IsInjective(graph'.order)
         /\ graph'.adj = graph.adj /\ graph'.forbidden = graph.forbidden
<1> DEFINE order == <<v>> \o graph.order
<1>1. graph \in Graphs /\ Edges(graph.adj) /\ graph.order \in Seq(Values(code))
  BY DEF GraphTyped, Graphs
<1>2. order \in Seq(Values(code)) /\ IsInjective(order)
  BY <1>1, ConsFacts DEF Unpicked
<1>3. graph' = [graph EXCEPT !.order = order]
  <2>1. [graph EXCEPT !.order = <<v>> \o @] = [graph EXCEPT !.order = order]
    BY <1>1 DEF Graphs
  <2> HIDE DEF order
  <2> QED BY <2>1 DEF Pick
<1> HIDE DEF order
<1>4. /\ graph' \in Graphs /\ graph'.order = order
      /\ graph'.adj = graph.adj /\ graph'.forbidden = graph.forbidden
  BY <1>1, <1>2, <1>3 DEF Graphs
<1> QED BY <1>1, <1>2, <1>4 DEF GraphTyped

LEMMA PickNextKeeps ==
  ASSUME code.next \in Nat, GraphTyped(graph), IsInjective(graph.order), PickNext
  PROVE  /\ GraphTyped(graph') /\ IsInjective(graph'.order)
         /\ graph'.adj = graph.adj /\ graph'.forbidden = graph.forbidden
<1>1. Unpicked # {} /\ Unpicked \subseteq Values(code)
  BY DEF PickNext, Unpicked
<1>2. Min(Unpicked) \in Unpicked
  BY <1>1, MinFacts, ValuesFacts
<1>3. graph' = graph \/ \E v \in Unpicked : \E s : Pick(s, v)
  BY <1>2, Zenon DEF PickNext
<1> QED BY <1>3, PickFacts

(* When every value is in the order, the graph is as the colouring relies  *)
(* on.                                                                     *)
LEMMA OrderedInterferes ==
  ASSUME WellFormed(code), GraphTyped(graph), IsInjective(graph.order), Unpicked = {},
         Live \in [DOMAIN code.insts -> SUBSET Values(code)],
         \A i \in DOMAIN code.insts : Bars(graph, i) /\ Links(graph, i),
         \A i \in Incoming : \A j \in 1 .. i - 1 :
           code.insts[j].dst \in ToSet(graph.adj[code.insts[i].dst])
  PROVE  Interferes(code, Live, graph)
<1>1. /\ graph.adj \in [Values(code) -> Seq(Values(code))]
      /\ graph.forbidden \in [Values(code) -> SUBSET Colours] /\ graph.cost \in [Values(code) -> Nat]
      /\ graph.order \in Seq(Values(code)) /\ Edges(graph.adj)
  BY DEF GraphTyped, Graphs
<1>2. ToSet(graph.order) = Values(code)
  <2>1. ToSet(graph.order) \subseteq Values(code)
    BY <1>1 DEF ToSet
  <2> QED BY <2>1 DEF Unpicked
<1>3. ASSUME NEW i \in DOMAIN code.insts
      PROVE  LET inst == code.insts[i]
                 rest == Live[i] \ ({inst.dst} \union FrameSlots(code))
             IN  /\ SetsValue(inst) => rest \subseteq ToSet(graph.adj[inst.dst])
                 /\ inst.op = "call" => \A v \in rest : CallerColours \subseteq graph.forbidden[v]
                 /\ inst.op = "param" =>
                      \A j \in 1 .. i - 1 : code.insts[j].dst \in ToSet(graph.adj[inst.dst])
  <2> DEFINE inst == code.insts[i]
             rest == Live[i] \ ({inst.dst} \union FrameSlots(code))
  <2>1. rest \subseteq Live[i] \ {inst.dst}
    OBVIOUS
  <2>2. SetsValue(inst) => inst.dst \in Values(code)
    BY DEF WellFormed
  <2>3. SetsValue(inst) => rest \subseteq ToSet(graph.adj[inst.dst])
    BY <2>1, <2>2 DEF Links
  <2>4. inst.op = "call" => \A v \in rest : CallerColours \subseteq graph.forbidden[v]
    BY <2>1 DEF Bars
  <2>5. inst.op = "param" =>
          \A j \in 1 .. i - 1 : code.insts[j].dst \in ToSet(graph.adj[inst.dst])
    BY DEF Incoming
  <2> QED BY <2>3, <2>4, <2>5
<1> QED BY <1>1, <1>2, <1>3 DEF Interferes, Edges

-----------------------------------------------------------------------------
(* What the blocks need.                                                   *)

Flows == [in : Ins, at : 0 .. Len(cfg.blocks), changed : BOOLEAN]

FlowOK == flow \in Flows /\ \A b \in FlowBlocks : flow.in[b] \subseteq Needed

(* A pass that has changed nothing yet has found the blocks behind it to   *)
(* say what they need.                                                     *)
FlowSettled == ~ flow.changed => \A b \in FlowBlocks : b > flow.at => flow.in[b] = LiveIn(b)

LEMMA FlowThroughKeeps ==
  ASSUME Prepared, FlowOK, FlowSettled, FlowThrough
  PROVE  FlowOK' /\ FlowSettled'
<1> DEFINE at == flow.at
           needs == LiveIn(at)
<1>0. WellFormed(code) /\ GraphOf(code, cfg) /\ code.insts \in Seq(Instruction)
  BY DEF Prepared, WellFormed
<1>1. /\ Len(cfg.blocks) \in Nat /\ FlowBlocks = 1 .. Len(cfg.blocks)
      /\ \A b \in FlowBlocks : ToSet(cfg.succs[b]) \subseteq FlowBlocks
  BY <1>0, BlockFacts
<1>2. /\ flow.in \in Ins /\ at \in 0 .. Len(cfg.blocks) /\ flow.changed \in BOOLEAN
      /\ at # 0 /\ code' = code /\ cfg' = cfg
      /\ flow' = [in |-> [flow.in EXCEPT ![at] = needs], at |-> at - 1,
                  changed |-> flow.changed \/ needs # flow.in[at]]
  BY DEF FlowOK, Flows, FlowThrough, allVars
<1>3. at \in FlowBlocks /\ at \in Nat
  BY <1>1, <1>2
<1>4. needs \subseteq Values(code) /\ needs \subseteq Needed
  <2>1. needs \subseteq Values(code)
    BY <1>0, <1>2, <1>3, LiveSets
  <2>2. LiveOut(at) \subseteq Needed
    BY <1>1, <1>3 DEF LiveOut, FlowOK
  <2>3. Exposed(at) \subseteq Needed
    BY <1>3 DEF Needed
  <2> QED BY <2>1, <2>2, <2>3 DEF LiveIn
<1>5. /\ FlowBlocks' = FlowBlocks /\ Needed' = Needed /\ Ins' = Ins
      /\ \A b : Exposed(b)' = Exposed(b)
  BY <1>2, SameLive
<1> HIDE DEF needs
<1>6. /\ flow'.in = [flow.in EXCEPT ![at] = needs] /\ flow'.at = at - 1
      /\ flow'.changed = (flow.changed \/ needs # flow.in[at])
  BY <1>2
<1>7. flow'.in \in Ins /\ \A b \in FlowBlocks : flow'.in[b] \subseteq Needed
  BY <1>2, <1>3, <1>4, <1>6 DEF Ins, FlowOK
<1>8. FlowOK'
  <2>1. flow'.at \in 0 .. Len(cfg.blocks) /\ flow'.changed \in BOOLEAN
    BY <1>1, <1>2, <1>3, <1>6
  <2>2. flow' \in [in : Ins, at : 0 .. Len(cfg.blocks), changed : BOOLEAN]
    BY <1>2, <1>6, <1>7, <2>1
  <2> QED BY <1>2, <1>5, <1>7, <2>2 DEF FlowOK, Flows
<1>9. FlowSettled'
  <2> SUFFICES ASSUME ~ flow'.changed, NEW b \in FlowBlocks, b > at - 1 PROVE flow'.in[b] = LiveIn(b)'
    BY <1>5, <1>6 DEF FlowSettled
  <2>1. ~ flow.changed /\ needs = flow.in[at]
    BY <1>6
  <2>2. flow'.in = flow.in
    BY <1>2, <1>3, <1>6, <2>1 DEF Ins
  <2>3. LiveIn(b)' = LiveIn(b)
    BY <2>2, <1>2, <1>5 DEF LiveIn, LiveOut, SetIn
  <2>4. b = at \/ b > at
    BY <1>1, <1>3
  <2>5. flow.in[b] = LiveIn(b)
    BY <2>1, <2>4 DEF FlowSettled, needs
  <2> QED BY <2>2, <2>3, <2>5
<1> QED BY <1>8, <1>9

-----------------------------------------------------------------------------
(* The invariant.  While the function is analysed: each stage has found    *)
(* out what it is for, up to where it is.                                  *)

AllBars  == \A i \in DOMAIN code.insts : Bars(graph, i)
AllLinks == \A i \in DOMAIN code.insts : Links(graph, i)

ParamsApart ==
  \A i \in Incoming : \A j \in 1 .. i - 1 :
    code.insts[j].dst \in ToSet(graph.adj[code.insts[i].dst])

AnalysisStages == {"liveness", "barring", "spreading", "linking", "parameters", "ordering"}

Analysing ==
  /\ stage \in AnalysisStages /\ Unstarted /\ Prepared /\ FlowOK
  /\ GraphTyped(graph) /\ IsInjective(graph.order)
  /\ IF stage = "liveness" THEN FlowSettled ELSE Solved
  /\ stage = "barring" =>
       WalkOK(walk) /\ \A i \in DOMAIN code.insts : Walked(walk, i) => Bars(graph, i)
  /\ stage = "spreading" => walk \in [at : Nat \ {0}, changed : BOOLEAN]
  /\ stage = "linking" =>
       WalkOK(walk) /\ \A i \in DOMAIN code.insts : Walked(walk, i) => Links(graph, i)
  /\ stage = "parameters" => PairsOK(graph, walk)
  /\ stage = "ordering" => ParamsApart
  /\ stage \in {"spreading", "linking", "parameters", "ordering"} => AllBars
  /\ stage \in {"parameters", "ordering"} => AllLinks

(* Then: values are coloured as what lives demands, and the homes that     *)
(* they get are right.                                                     *)
Allocating ==
  /\ stage \notin AnalysisStages /\ AllocInv
  /\ stage = "colouring" => Prepared /\ Liveness(code, Live) /\ Interferes(code, Live, graph)
  /\ stage = "compiled" => Allocated(code, Live, ra)

RegAllocInv == Analysing \/ Allocating

(* What stays as it is while code, blocks and needs do.                    *)
LEMMA Carry ==
  ASSUME Prepared, FlowOK, code' = code, cfg' = cfg, flow' = flow
  PROVE  /\ Prepared' /\ FlowOK' /\ Live' = Live /\ (Solved => Solved')
         /\ DOMAIN code'.insts = DOMAIN code.insts /\ Values(code)' = Values(code)
         /\ GraphTyped(graph') => GraphTyped(graph)'
         /\ WalkOK(walk') => WalkOK(walk)'
         /\ \A i : Walked(walk', i) = Walked(walk, i)'
         /\ \A i : Bars(graph', i) = Bars(graph, i)'
         /\ \A i : Links(graph', i) = Links(graph, i)'
         /\ PairsOK(graph', walk') => PairsOK(graph, walk)'
<1>1. /\ FlowBlocks' = FlowBlocks /\ Needed' = Needed /\ Ins' = Ins
      /\ Values(code)' = Values(code)
      /\ \A i : BlockOf(i)' = BlockOf(i)
      /\ \A b : InBlock(b)' = InBlock(b)
      /\ Prepared' = Prepared /\ Live' = Live /\ Solved' = Solved
  BY SameLive
<1>2. FlowOK'
  BY <1>1 DEF FlowOK, Flows
<1>3. GraphTyped(graph') => GraphTyped(graph)'
  BY <1>1 DEF GraphTyped, Graphs, Edges
<1>4. WalkOK(walk') => WalkOK(walk)'
  BY <1>1 DEF WalkOK, Walks
<1>5. \A i : Walked(walk', i) = Walked(walk, i)'
  BY <1>1 DEF Walked
<1>6. \A i : Bars(graph', i) = Bars(graph, i)'
  BY <1>1 DEF Bars
<1>7. \A i : Links(graph', i) = Links(graph, i)'
  BY <1>1 DEF Links
<1>8. PairsOK(graph', walk') => PairsOK(graph, walk)'
  BY DEF PairsOK, Pairs, LinkedParams, ParamOf, Incoming
<1> QED BY <1>1, <1>2, <1>3, <1>4, <1>5, <1>6, <1>7, <1>8

LEMMA RegAllocStart ==
  ASSUME RegAllocInit PROVE RegAllocInv
<1>0. /\ stage = "liveness" /\ Unstarted /\ Prepared /\ WellFormed(code) /\ GraphOf(code, cfg)
      /\ code.insts \in Seq(Instruction) /\ code.next \in Nat
      /\ flow = Unexplored
  BY DEF RegAllocInit, Prepared, WellFormed
<1>1. Len(cfg.blocks) \in Nat /\ FlowBlocks = 1 .. Len(cfg.blocks)
  BY <1>0, BlockFacts
<1>2. flow.in = [b \in FlowBlocks |-> {}] /\ flow.at = Len(cfg.blocks)
  BY <1>0 DEF Unexplored, FlowBlocks
<1>c. flow.changed \in BOOLEAN /\ ~ flow.changed
  BY <1>0 DEF Unexplored
<1>r. flow = [in |-> flow.in, at |-> flow.at, changed |-> flow.changed]
  BY <1>0 DEF Unexplored
<1>3. flow.in \in Ins /\ \A b \in FlowBlocks : flow.in[b] \subseteq Needed
  BY <1>2 DEF Ins
<1>4. FlowOK
  <2>1. flow.at \in 0 .. Len(cfg.blocks)
    BY <1>1, <1>2
  <2>2. \A x, y, z : x \in Ins /\ y \in 0 .. Len(cfg.blocks) /\ z \in BOOLEAN =>
          [in |-> x, at |-> y, changed |-> z] \in Flows
    BY DEF Flows
  <2>3. flow \in Flows
    <3>1. [in |-> flow.in, at |-> flow.at, changed |-> flow.changed] \in Flows
      BY <1>3, <1>c, <2>1, <2>2
    <3> QED BY <3>1, <1>r, Zenon
  <2> QED BY <1>3, <2>3 DEF FlowOK
<1>5. FlowSettled
  BY <1>1, <1>2 DEF FlowSettled
<1>6. PICK cost \in [Values(code) -> Nat] : graph = Unlinked(code, cost)
  BY DEF RegAllocInit
<1> DEFINE adj == [v \in Values(code) |-> <<>>]
           forbidden == [v \in Values(code) |->
                           IF NamesFrame(code, v) THEN Colours \ CallerColours ELSE {}]
           unused == Values(code) \ UNION {Uses(i) \union {i.dst} : i \in ToSet(code.insts)}
<1>7. graph = [adj |-> adj, forbidden |-> forbidden, cost |-> cost, unused |-> unused, order |-> <<>>]
  BY <1>6 DEF Unlinked
<1>8. /\ adj \in [Values(code) -> Seq(Values(code))] /\ Edges(adj)
      /\ forbidden \in [Values(code) -> SUBSET Colours] /\ unused \subseteq Values(code)
  <2>1. \A v \in Values(code) : adj[v] = <<>> /\ ToSet(adj[v]) = {}
    BY DEF ToSet
  <2> QED BY <2>1 DEF Edges
<1> HIDE DEF adj, forbidden, unused
<1>9. GraphTyped(graph) /\ IsInjective(graph.order)
  BY <1>7, <1>8 DEF GraphTyped, Graphs, IsInjective
<1> QED BY <1>0, <1>4, <1>5, <1>9 DEF RegAllocInv, Analysing, AnalysisStages

(* A step of the analysis leaves the rest of the state alone.              *)
LEMMA AnalyseFrame ==
  ASSUME Analyse PROVE code' = code /\ cfg' = cfg /\ UNCHANGED <<ra, run, mach, moves>>
BY DEF Analyse, FlowThrough, FlowAgain, FlowDone, BarOverCall, Barred, Spread, SpreadAgain,
   SpreadDone, LinkLive, LiveLinked, LinkParams, ParamsLinked, PickNext, GainWeight, Ordered, allVars

LEMMA LivenessKeeps ==
  ASSUME Analysing, FlowThrough \/ FlowAgain \/ FlowDone PROVE Analysing'
<1>0. /\ stage = "liveness" /\ Unstarted /\ Prepared /\ FlowOK /\ FlowSettled
      /\ GraphTyped(graph) /\ IsInjective(graph.order)
  BY DEF Analysing, FlowThrough, FlowAgain, FlowDone
<1>1. /\ code' = code /\ cfg' = cfg /\ graph' = graph /\ UNCHANGED <<run, mach, moves>>
  BY DEF FlowThrough, FlowAgain, FlowDone, allVars
<1>2. Unstarted' /\ IsInjective(graph.order)'
  BY <1>0, <1>1 DEF Unstarted
<1>3. Prepared' /\ GraphTyped(graph)' /\ Values(code)' = Values(code)
  BY <1>0, <1>1, SameLive DEF GraphTyped, Graphs, Edges
<1>4. CASE FlowThrough
  <2>1. FlowOK' /\ FlowSettled' /\ stage' = stage
    BY <1>0, <1>4, FlowThroughKeeps DEF FlowThrough, allVars
  <2> QED BY <1>0, <1>2, <1>3, <2>1 DEF Analysing, AnalysisStages
<1>5. CASE FlowAgain
  <2>1. Len(cfg.blocks) \in Nat /\ FlowBlocks = 1 .. Len(cfg.blocks)
    BY <1>0, BlockFacts DEF Prepared, WellFormed
  <2>2. /\ flow' = [flow EXCEPT !.at = Len(cfg.blocks), !.changed = FALSE] /\ stage' = stage
        /\ flow \in Flows
    BY <1>0, <1>5 DEF FlowAgain, FlowOK, allVars
  <2>n. Len(cfg.blocks) \in 0 .. Len(cfg.blocks)
    BY <2>1
  <2>3. flow' \in Flows /\ flow'.in = flow.in /\ flow'.at = Len(cfg.blocks)
    <3> DEFINE all == 0 .. Len(cfg.blocks)
               last == Len(cfg.blocks)
    <3>1. last \in all
      BY <2>n
    <3>2. flow \in [in : Ins, at : all, changed : BOOLEAN]
      BY <2>2 DEF Flows
    <3>3. flow' = [flow EXCEPT !.at = last, !.changed = FALSE]
      BY <2>2
    <3> HIDE DEF all, last
    <3>4. flow' \in [in : Ins, at : all, changed : BOOLEAN] /\ flow'.in = flow.in /\ flow'.at = last
      BY <3>1, <3>2, <3>3
    <3> QED BY <3>4 DEF Flows, all, last
  <2>4. /\ FlowBlocks' = FlowBlocks /\ Needed' = Needed /\ Ins' = Ins
    BY <1>1, SameLive
  <2>5. FlowOK'
    BY <1>0, <1>1, <2>3, <2>4 DEF FlowOK, Flows
  <2>6. FlowSettled'
    BY <2>1, <2>3, <2>4 DEF FlowSettled
  <2> QED BY <1>0, <1>2, <1>3, <2>2, <2>5, <2>6 DEF Analysing, AnalysisStages
<1>6. CASE FlowDone
  <2>1. flow' = flow /\ stage' = "barring" /\ walk' = EndOf(1) /\ flow.at = 0 /\ ~ flow.changed
    BY <1>6 DEF FlowDone
  <2>2. /\ FlowBlocks \subseteq Nat \ {0}
        /\ \A i \in DOMAIN code.insts : BlockOf(i) \in Nat /\ BlockOf(i) >= 1
    BY <1>0, BlockFacts DEF Prepared, WellFormed
  <2>3. Solved
    <3>1. \A b \in FlowBlocks : b > 0
      BY <2>2
    <3> QED BY <1>0, <2>1, <3>1 DEF FlowSettled, Solved
  <2>4. flow.in \in Ins
    BY <1>0 DEF FlowOK, Flows
  <2>5. WalkOK(walk') /\ \A i \in DOMAIN code.insts : ~ Walked(walk', i)
    <3>1. WalkOK(EndOf(1)) /\ \A i \in DOMAIN code.insts : Walked(EndOf(1), i) => BlockOf(i) < 1
      BY <1>0, <2>4, EndOfFacts
    <3> QED BY <2>1, <2>2, <3>1
  <2>6. /\ FlowOK' /\ Solved' /\ WalkOK(walk)' /\ DOMAIN code'.insts = DOMAIN code.insts
        /\ \A i : Walked(walk', i) = Walked(walk, i)'
    BY <1>0, <1>1, <2>1, <2>3, <2>5, Carry
  <2>7. \A i \in DOMAIN code'.insts : ~ Walked(walk, i)'
    BY <2>5, <2>6
  <2> QED BY <1>2, <1>3, <2>1, <2>6, <2>7 DEF Analysing, AnalysisStages
<1> QED BY <1>4, <1>5, <1>6

LEMMA BarringKeeps ==
  ASSUME Analysing, BarOverCall \/ Barred PROVE Analysing'
<1>0. /\ stage = "barring" /\ Unstarted /\ Prepared /\ FlowOK /\ Solved
      /\ GraphTyped(graph) /\ IsInjective(graph.order)
      /\ WalkOK(walk) /\ \A i \in DOMAIN code.insts : Walked(walk, i) => Bars(graph, i)
  BY DEF Analysing, BarOverCall, Barred
<1>1. /\ code' = code /\ cfg' = cfg /\ flow' = flow /\ UNCHANGED <<run, mach, moves>>
  BY DEF BarOverCall, Barred
<1>2. Unstarted' /\ Prepared' /\ FlowOK' /\ Solved' /\ DOMAIN code'.insts = DOMAIN code.insts
  BY <1>0, <1>1, Carry DEF Unstarted
<1>3. flow.in \in Ins
  BY <1>0 DEF FlowOK, Flows
<1>4. CASE BarOverCall
  <2>1. /\ GraphTyped(graph') /\ graph'.order = graph.order /\ WalkOK(walk')
        /\ \A i \in DOMAIN code.insts : Walked(walk', i) => Bars(graph', i)
    BY <1>0, <1>3, <1>4, BarOverCallKeeps
  <2>2. /\ GraphTyped(graph)' /\ WalkOK(walk)'
        /\ \A i \in DOMAIN code'.insts : Walked(walk, i)' => Bars(graph, i)'
    BY <1>0, <1>1, <2>1, Carry
  <2>3. stage' = "barring" /\ IsInjective(graph.order)'
    BY <1>0, <1>4, <2>1 DEF BarOverCall
  <2> QED BY <1>2, <2>2, <2>3 DEF Analysing, AnalysisStages
<1>5. CASE Barred
  <2>1. stage' = "spreading" /\ graph' = graph /\ walk' = FromStart /\ walk.at = 0
    BY <1>5 DEF Barred
  <2>2. GraphTyped(graph)' /\ IsInjective(graph.order)'
    BY <1>0, <1>1, <2>1, Carry
  <2>3. \A i \in DOMAIN code.insts : Bars(graph, i)
    BY <1>0, <2>1 DEF Walked
  <2>4. AllBars'
    <3>1. \A i \in DOMAIN code'.insts : Bars(graph, i)'
      BY <1>0, <1>1, <2>1, <2>3, Carry
    <3> QED BY <3>1 DEF AllBars
  <2>5. walk' \in [at : Nat \ {0}, changed : BOOLEAN]
    BY <2>1 DEF FromStart
  <2> QED BY <1>2, <2>1, <2>2, <2>4, <2>5 DEF Analysing, AnalysisStages
<1> QED BY <1>4, <1>5

LEMMA SpreadingKeeps ==
  ASSUME Analysing, Spread \/ SpreadAgain \/ SpreadDone PROVE Analysing'
<1>0. /\ stage = "spreading" /\ Unstarted /\ Prepared /\ FlowOK /\ Solved
      /\ GraphTyped(graph) /\ IsInjective(graph.order)
      /\ walk \in [at : Nat \ {0}, changed : BOOLEAN]
      /\ \A i \in DOMAIN code.insts : Bars(graph, i)
  BY DEF Analysing, AllBars, Spread, SpreadAgain, SpreadDone
<1>1. /\ code' = code /\ cfg' = cfg /\ flow' = flow /\ UNCHANGED <<run, mach, moves>>
  BY DEF Spread, SpreadAgain, SpreadDone, allVars
<1>2. Unstarted' /\ Prepared' /\ FlowOK' /\ Solved' /\ DOMAIN code'.insts = DOMAIN code.insts
  BY <1>0, <1>1, Carry DEF Unstarted
<1>3. flow.in \in Ins
  BY <1>0 DEF FlowOK, Flows
<1>4. CASE Spread
  <2>1. /\ GraphTyped(graph') /\ graph'.order = graph.order
        /\ walk' \in [at : Nat \ {0}, changed : BOOLEAN]
        /\ \A i \in DOMAIN code.insts : Bars(graph', i)
    BY <1>0, <1>3, <1>4, SpreadKeeps
  <2>2. GraphTyped(graph)' /\ \A i \in DOMAIN code'.insts : Bars(graph, i)'
    BY <1>0, <1>1, <2>1, Carry
  <2>3. stage' = "spreading" /\ IsInjective(graph.order)'
    BY <1>0, <1>4, <2>1 DEF Spread
  <2> QED BY <1>2, <2>1, <2>2, <2>3 DEF Analysing, AnalysisStages, AllBars
<1>5. CASE SpreadAgain \/ SpreadDone
  <2>1. graph' = graph
    BY <1>5 DEF SpreadAgain, SpreadDone, allVars
  <2>2. /\ GraphTyped(graph)' /\ IsInjective(graph.order)'
        /\ \A i \in DOMAIN code'.insts : Bars(graph, i)'
    BY <1>0, <1>1, <2>1, Carry
  <2>3. CASE SpreadAgain
    <3>1. stage' = "spreading" /\ walk' = FromStart
      BY <1>0, <2>3 DEF SpreadAgain, allVars
    <3>2. walk' \in [at : Nat \ {0}, changed : BOOLEAN]
      BY <3>1 DEF FromStart
    <3> QED BY <1>2, <2>2, <3>1, <3>2 DEF Analysing, AnalysisStages, AllBars
  <2>4. CASE SpreadDone
    <3>1. stage' = "linking" /\ walk' = EndOf(1)
      BY <2>4 DEF SpreadDone
    <3>2. WalkOK(walk') /\ \A i \in DOMAIN code.insts : ~ Walked(walk', i)
      <4>1. WalkOK(EndOf(1)) /\ \A i \in DOMAIN code.insts : Walked(EndOf(1), i) => BlockOf(i) < 1
        BY <1>0, <1>3, EndOfFacts
      <4>2. \A i \in DOMAIN code.insts : BlockOf(i) \in Nat /\ BlockOf(i) >= 1
        BY <1>0, BlockFacts DEF Prepared, WellFormed
      <4> QED BY <3>1, <4>1, <4>2
    <3>3. WalkOK(walk)' /\ \A i \in DOMAIN code'.insts : ~ Walked(walk, i)'
      BY <1>0, <1>1, <3>2, Carry
    <3> QED BY <1>2, <2>2, <3>1, <3>3 DEF Analysing, AnalysisStages, AllBars
  <2> QED BY <1>5, <2>3, <2>4
<1> QED BY <1>4, <1>5

LEMMA LinkingKeeps ==
  ASSUME Analysing, LinkLive \/ LiveLinked PROVE Analysing'
<1>0. /\ stage = "linking" /\ Unstarted /\ Prepared /\ FlowOK /\ Solved
      /\ GraphTyped(graph) /\ IsInjective(graph.order)
      /\ WalkOK(walk) /\ \A i \in DOMAIN code.insts : Walked(walk, i) => Links(graph, i)
      /\ \A i \in DOMAIN code.insts : Bars(graph, i)
  BY DEF Analysing, AllBars, LinkLive, LiveLinked
<1>1. /\ code' = code /\ cfg' = cfg /\ flow' = flow /\ UNCHANGED <<run, mach, moves>>
  BY DEF LinkLive, LiveLinked
<1>2. Unstarted' /\ Prepared' /\ FlowOK' /\ Solved' /\ DOMAIN code'.insts = DOMAIN code.insts
  BY <1>0, <1>1, Carry DEF Unstarted
<1>3. flow.in \in Ins
  BY <1>0 DEF FlowOK, Flows
<1>4. CASE LinkLive
  <2>1. /\ GraphTyped(graph') /\ graph'.order = graph.order /\ WalkOK(walk')
        /\ \A i \in DOMAIN code.insts : Bars(graph', i)
        /\ \A i \in DOMAIN code.insts : Walked(walk', i) => Links(graph', i)
    BY <1>0, <1>3, <1>4, LinkLiveKeeps
  <2>2. /\ GraphTyped(graph)' /\ WalkOK(walk)'
        /\ \A i \in DOMAIN code'.insts : Bars(graph, i)'
        /\ \A i \in DOMAIN code'.insts : Walked(walk, i)' => Links(graph, i)'
    BY <1>0, <1>1, <2>1, Carry
  <2>3. stage' = "linking" /\ IsInjective(graph.order)'
    BY <1>0, <1>4, <2>1 DEF LinkLive
  <2> QED BY <1>2, <2>2, <2>3 DEF Analysing, AnalysisStages, AllBars
<1>5. CASE LiveLinked
  <2>1. stage' = "parameters" /\ graph' = graph /\ walk' = [at |-> 1, other |-> 2] /\ walk.at = 0
    BY <1>5 DEF LiveLinked
  <2>2. \A i \in DOMAIN code.insts : Links(graph, i)
    BY <1>0, <2>1 DEF Walked
  <2>3. PairsOK(graph, walk')
    <3>1. Incoming \subseteq Nat \ {0}
      <4>1. WellFormed(code) /\ Incoming \subseteq DOMAIN code.insts
        BY <1>0 DEF Incoming, Prepared
      <4>2. Len(code.insts) \in Nat /\ DOMAIN code.insts = 1 .. Len(code.insts)
        BY <4>1, CodeFacts
      <4> QED BY <4>1, <4>2
    <3>2. Pairs(walk') = {}
      <4> SUFFICES ASSUME NEW p \in Incoming, NEW q \in Incoming, p < q, p < 1 \/ (p = 1 /\ q < 2)
                   PROVE  FALSE
        BY <2>1 DEF Pairs
      <4>1. p \in Nat \ {0} /\ q \in Nat \ {0}
        BY <3>1
      <4> QED BY <4>1
    <3> QED BY <2>1, <3>2 DEF PairsOK
  <2>4. /\ GraphTyped(graph)' /\ IsInjective(graph.order)' /\ PairsOK(graph, walk)'
        /\ \A i \in DOMAIN code'.insts : Bars(graph, i)'
        /\ \A i \in DOMAIN code'.insts : Links(graph, i)'
    BY <1>0, <1>1, <2>1, <2>2, <2>3, Carry
  <2> QED BY <1>2, <2>1, <2>4 DEF Analysing, AnalysisStages, AllBars, AllLinks
<1> QED BY <1>4, <1>5

LEMMA ParametersKeep ==
  ASSUME Analysing, LinkParams \/ ParamsLinked PROVE Analysing'
<1>0. /\ stage = "parameters" /\ Unstarted /\ Prepared /\ FlowOK /\ Solved
      /\ GraphTyped(graph) /\ IsInjective(graph.order) /\ PairsOK(graph, walk)
      /\ \A i \in DOMAIN code.insts : Bars(graph, i) /\ Links(graph, i)
  BY DEF Analysing, AllBars, AllLinks, LinkParams, ParamsLinked
<1>1. /\ code' = code /\ cfg' = cfg /\ flow' = flow /\ UNCHANGED <<run, mach, moves>>
  BY DEF LinkParams, ParamsLinked
<1>2. Unstarted' /\ Prepared' /\ FlowOK' /\ Solved' /\ DOMAIN code'.insts = DOMAIN code.insts
  BY <1>0, <1>1, Carry DEF Unstarted
<1>3. flow.in \in Ins
  BY <1>0 DEF FlowOK, Flows
<1>4. CASE LinkParams
  <2>1. /\ GraphTyped(graph') /\ graph'.order = graph.order /\ PairsOK(graph', walk')
        /\ \A i \in DOMAIN code.insts : Bars(graph', i) /\ Links(graph', i)
    BY <1>0, <1>3, <1>4, LinkParamsKeeps
  <2>2. /\ GraphTyped(graph)' /\ PairsOK(graph, walk)'
        /\ \A i \in DOMAIN code'.insts : Bars(graph, i)' /\ Links(graph, i)'
    BY <1>0, <1>1, <2>1, Carry
  <2>3. stage' = "parameters" /\ IsInjective(graph.order)'
    BY <1>0, <1>4, <2>1 DEF LinkParams
  <2> QED BY <1>2, <2>2, <2>3 DEF Analysing, AnalysisStages, AllBars, AllLinks
<1>5. CASE ParamsLinked
  <2>1. stage' = "ordering" /\ graph' = graph /\ walk.at \notin Incoming
    BY <1>5 DEF ParamsLinked
  <2>2. /\ GraphTyped(graph)' /\ IsInjective(graph.order)'
        /\ \A i \in DOMAIN code'.insts : Bars(graph, i)' /\ Links(graph, i)'
    BY <1>0, <1>1, <2>1, Carry
  <2>3. ParamsApart
    BY <1>0, <2>1, AllParamsLinked DEF ParamsApart, Prepared
  <2>4. ParamsApart'
    BY <1>1, <2>1, <2>3 DEF ParamsApart, Incoming
  <2> QED BY <1>2, <2>1, <2>2, <2>4 DEF Analysing, AnalysisStages, AllBars, AllLinks
<1> QED BY <1>4, <1>5

LEMMA OrderingKeeps ==
  ASSUME Analysing, PickNext \/ GainWeight PROVE Analysing'
<1>0. /\ stage = "ordering" /\ Unstarted /\ Prepared /\ FlowOK /\ Solved
      /\ GraphTyped(graph) /\ IsInjective(graph.order) /\ ParamsApart
      /\ \A i \in DOMAIN code.insts : Bars(graph, i) /\ Links(graph, i)
  BY DEF Analysing, AllBars, AllLinks, PickNext, GainWeight
<1>1. /\ code' = code /\ cfg' = cfg /\ flow' = flow /\ stage' = stage
      /\ UNCHANGED <<run, mach, moves>>
  BY DEF PickNext, GainWeight, allVars
<1>2. Unstarted' /\ Prepared' /\ FlowOK' /\ Solved' /\ DOMAIN code'.insts = DOMAIN code.insts
  BY <1>0, <1>1, Carry DEF Unstarted
<1>3. /\ GraphTyped(graph') /\ IsInjective(graph'.order)
      /\ graph'.adj = graph.adj /\ graph'.forbidden = graph.forbidden
  <2>1. code.next \in Nat
    BY <1>0 DEF Prepared, WellFormed
  <2>2. CASE PickNext
    BY <1>0, <2>1, <2>2, PickNextKeeps
  <2>3. CASE GainWeight
    BY <1>0, <2>3 DEF GainWeight, allVars
  <2> QED BY <2>2, <2>3
<1>4. \A i \in DOMAIN code.insts : Bars(graph', i) /\ Links(graph', i)
  BY <1>0, <1>3 DEF Bars, Links
<1>5. GraphTyped(graph)' /\ \A i \in DOMAIN code'.insts : Bars(graph, i)' /\ Links(graph, i)'
  BY <1>0, <1>1, <1>3, <1>4, Carry
<1>6. ParamsApart'
  BY <1>0, <1>1, <1>3 DEF ParamsApart, Incoming
<1> QED BY <1>0, <1>1, <1>2, <1>3, <1>5, <1>6 DEF Analysing, AnalysisStages, AllBars, AllLinks

(* The colouring begins with what it relies on.                            *)
LEMMA OrderedKeeps ==
  ASSUME Analysing, Ordered PROVE Allocating'
<1>0. /\ stage = "ordering" /\ Unstarted /\ Prepared /\ FlowOK /\ Solved
      /\ GraphTyped(graph) /\ IsInjective(graph.order) /\ ParamsApart
      /\ \A i \in DOMAIN code.insts : Bars(graph, i) /\ Links(graph, i)
      /\ WellFormed(code) /\ flow.in \in Ins
  BY DEF Analysing, AllBars, AllLinks, Ordered, Prepared, FlowOK, Flows
<1>1. /\ code' = code /\ cfg' = cfg /\ flow' = flow /\ graph' = graph /\ stage' = "colouring"
      /\ UNCHANGED <<ra, run, mach, moves>> /\ colouring' = Uncoloured(graph) /\ Unpicked = {}
  BY DEF Ordered
<1>2. Prepared' /\ Live' = Live
  BY <1>0, <1>1, Carry
<1>3. Liveness(code, Live) /\ Live \in [DOMAIN code.insts -> SUBSET Values(code)]
  BY <1>0, SolvedIsLiveness, LiveSets DEF FlowOK, Prepared
<1>4. Interferes(code, Live, graph)
  BY <1>0, <1>1, <1>3, OrderedInterferes DEF ParamsApart
<1>5. Liveness(code', Live) /\ Interferes(code', Live, graph') /\ WellFormed(code')
  BY <1>0, <1>1, <1>3, <1>4
<1>6. Liveness(code, Live)' /\ Interferes(code, Live, graph)' /\ WellFormed(code)'
  BY <1>2, <1>5
<1>7. ColouringOK(graph, Uncoloured(graph))
  BY <1>4, ColouringStart
<1>8. ColouringOK(graph, colouring)'
  BY <1>1, <1>7 DEF ColouringOK, Colourings, HomesSoFar, SlotsApart, ColoursApart
<1>9. BeingColoured'
  BY <1>0, <1>1, <1>6, <1>8 DEF BeingColoured, Unstarted
<1> QED BY <1>1, <1>2, <1>6, <1>9 DEF Allocating, AnalysisStages, AllocInv

(* From then on it is the colouring and the code generator that take steps.*)
LEMMA AllocatingKeeps ==
  ASSUME Allocating, AllocStep \/ UNCHANGED allVars, UNCHANGED <<cfg, flow>> PROVE Allocating'
<1>1. AllocInv'
  BY AllocStepKeeps DEF Allocating
<1>2. CASE Colour
  <2>1. /\ stage = "colouring" /\ stage' = "colouring" /\ UNCHANGED <<code, graph>>
        /\ Prepared /\ Liveness(code, Live) /\ Interferes(code, Live, graph)
    BY <1>2 DEF Colour, Allocating
  <2>2. Prepared' /\ Live' = Live
    BY <2>1, SameLive
  <2>3. Liveness(code', Live) /\ Interferes(code', Live, graph')
    BY <2>1
  <2>4. Liveness(code, Live)' /\ Interferes(code, Live, graph)'
    BY <2>2, <2>3
  <2> QED BY <1>1, <2>1, <2>2, <2>4 DEF Allocating, AnalysisStages
<1>3. CASE Coloured
  <2>1. /\ stage = "colouring" /\ stage' = "compiled" /\ UNCHANGED <<code, graph>>
        /\ Liveness(code, Live) /\ Interferes(code, Live, graph)
    BY <1>3 DEF Coloured, Allocating
  <2>2. WellFormed(code) /\ ColouringOK(graph, colouring)
    BY <2>1 DEF Allocating, AllocInv, BeingColoured, Generating
  <2>3. Allocated(code, Live, ra')
    BY <1>3, <2>1, <2>2, ColouredIsAllocated
  <2>4. Live' = Live
    BY <2>1, SameLive
  <2>5. Allocated(code', Live, ra')
    BY <2>1, <2>3
  <2>6. Allocated(code, Live, ra)'
    BY <2>4, <2>5
  <2> QED BY <1>1, <2>1, <2>6 DEF Allocating, AnalysisStages
<1>4. CASE Run
  <2>1. stage' \in {"entering", "running", "passing", "returned"}
    BY <1>4 DEF Run, Shuffle, Enter, MoveParam, BreakParamCycle,
         FollowParamCycle, Entered, Straight, BeginCall, PassArgument, ParkArgument, CallStep,
         BranchStep, JumpStep, ReturnStep, At
  <2> QED BY <1>1, <2>1 DEF Allocating, AnalysisStages
<1>5. CASE UNCHANGED allVars
  <2>1. UNCHANGED <<stage, code, ra, graph>>
    BY <1>5 DEF allVars
  <2>2. Prepared' = Prepared /\ Live' = Live
    BY <2>1, SameLive
  <2>3. /\ Liveness(code, Live) => Liveness(code', Live)
        /\ Interferes(code, Live, graph) => Interferes(code', Live, graph')
        /\ Allocated(code, Live, ra) => Allocated(code', Live, ra')
    BY <2>1
  <2>4. /\ Liveness(code, Live) => Liveness(code, Live)'
        /\ Interferes(code, Live, graph) => Interferes(code, Live, graph)'
        /\ Allocated(code, Live, ra) => Allocated(code, Live, ra)'
    BY <2>2, <2>3
  <2> QED BY <1>1, <2>1, <2>2, <2>4 DEF Allocating
<1> QED BY <1>2, <1>3, <1>4, <1>5 DEF AllocStep

LEMMA RegAllocStepKeeps ==
  ASSUME RegAllocInv, [RegAllocStep]_regAllocVars PROVE RegAllocInv'
<1>1. CASE Analyse
  <2>1. Analysing
    BY <1>1 DEF RegAllocInv, Allocating, AnalysisStages, Analyse, FlowThrough, FlowAgain, FlowDone,
       BarOverCall, Barred, Spread, SpreadAgain, SpreadDone, LinkLive, LiveLinked, LinkParams,
       ParamsLinked, PickNext, GainWeight, Ordered
  <2> QED BY <1>1, <2>1, LivenessKeeps, BarringKeeps, SpreadingKeeps, LinkingKeeps,
          ParametersKeep, OrderingKeeps, OrderedKeeps DEF RegAllocInv, Analyse
<1>2. CASE AllocStep /\ UNCHANGED <<cfg, flow, walk, search>>
  <2>1. Allocating
    BY <1>2 DEF RegAllocInv, Analysing, AnalysisStages, AllocStep, Colour, Coloured, Run, Shuffle,
       Enter, MoveParam, BreakParamCycle, FollowParamCycle, Entered, Straight, BeginCall,
       PassArgument, ParkArgument, CallStep, BranchStep, JumpStep, ReturnStep, At
  <2> QED BY <1>2, <2>1, AllocatingKeeps DEF RegAllocInv
<1>3. CASE UNCHANGED regAllocVars
  <2>1. UNCHANGED allVars /\ UNCHANGED <<cfg, flow, walk, search>>
    BY <1>3 DEF regAllocVars
  <2>2. CASE Allocating
    BY <2>1, <2>2, AllocatingKeeps DEF RegAllocInv
  <2>3. CASE Analysing
    <3>1. UNCHANGED <<stage, code, ra, run, mach, moves, graph, cfg, flow, walk>>
      BY <2>1 DEF allVars
    <3>2. Prepared /\ FlowOK
      BY <2>3 DEF Analysing
    <3>3. /\ Prepared' /\ FlowOK' /\ (Solved => Solved')
          /\ DOMAIN code'.insts = DOMAIN code.insts
          /\ GraphTyped(graph) => GraphTyped(graph)'
          /\ WalkOK(walk) => WalkOK(walk)'
          /\ \A i : Walked(walk, i) = Walked(walk, i)'
          /\ \A i : Bars(graph, i) = Bars(graph, i)'
          /\ \A i : Links(graph, i) = Links(graph, i)'
          /\ PairsOK(graph, walk) => PairsOK(graph, walk)'
      BY <3>1, <3>2, Carry
    <3>4. FlowSettled = FlowSettled'
      BY <3>1, SameLive DEF FlowSettled
    <3>5. ParamsApart = ParamsApart' /\ Unstarted = Unstarted'
      BY <3>1 DEF ParamsApart, Incoming, Unstarted
    <3>6. AllBars = AllBars' /\ AllLinks = AllLinks'
      BY <3>3 DEF AllBars, AllLinks
    <3>7. Analysing'
      BY <2>3, <3>1, <3>3, <3>4, <3>5, <3>6 DEF Analysing
    <3> QED BY <3>7 DEF RegAllocInv
  <2> QED BY <2>2, <2>3 DEF RegAllocInv
<1> QED BY <1>1, <1>2, <1>3 DEF RegAllocStep

(* The invariant of the allocator, from liveness on, and of the code that  *)
(* is made with the homes it gives.                                        *)
THEOREM RegAllocInvariant == RegAllocSpec => []RegAllocInv
<1>1. RegAllocInit => RegAllocInv
  BY RegAllocStart
<1>2. RegAllocInv /\ [RegAllocStep]_regAllocVars => RegAllocInv'
  BY RegAllocStepKeeps
<1> QED BY <1>1, <1>2, PTL DEF RegAllocSpec

(* For every function, its blocks and what its values cost: the loops find *)
(* what may still be read, give it the edges and the bars it needs and put *)
(* every value in the order once; no two values that are needed at once    *)
(* get one register, and none is where a call overwrites it.               *)
THEOREM HomesAreRight == RegAllocSpec => []HomesRight
<1>1. RegAllocInv => HomesRight
  <2>1. CASE Analysing
    <3>1. graph.cost \in [Values(code) -> Nat]
      BY <2>1 DEF Analysing, GraphTyped, Graphs
    <3> QED BY <2>1, <3>1 DEF Analysing, AnalysisStages, HomesRight, NeighboursApart
  <2>2. CASE Allocating
    <3>1. NeighboursApart
      BY <2>2, ColouringMeans DEF Allocating
    <3> QED BY <2>2, <3>1 DEF Allocating, AnalysisStages, HomesRight
  <2> QED BY <2>1, <2>2 DEF RegAllocInv
<1> QED BY <1>1, RegAllocInvariant, PTL

(* The code made for a function whose tables' indexes were not spilled     *)
(* finds every operand, takes the branches of the IR and keeps its calls,  *)
(* with the homes that the whole of the allocator gives.                   *)
THEOREM AllocatorServes == RegAllocSpec => []AllocationServes
<1>1. RegAllocInv => AllocationServes
  <2>1. CASE Analysing
    BY <2>1 DEF Analysing, AnalysisStages, AllocationServes, OperandsIntact, SamePath, CallsKept,
       ParametersArrive, ArgumentsArrive, CallerUndisturbed
  <2>2. CASE Allocating
    BY <2>2, ServesMeans DEF Allocating
  <2> QED BY <2>1, <2>2 DEF RegAllocInv
<1> QED BY <1>1, RegAllocInvariant, PTL

-----------------------------------------------------------------------------
(* Graphs.                                                                 *)

LEMMA GraphFacts ==
  ASSUME NEW g, IsGraph(g)
  PROVE  /\ Nodes(g) = 1 .. Len(g.blocks) /\ Len(g.blocks) \in Nat /\ Entry \in Nodes(g)
         /\ \A b \in Nodes(g) : /\ g.succs[b] \in Seq(Nodes(g)) /\ g.preds[b] \in Seq(Nodes(g))
                                /\ ToSet(g.succs[b]) \subseteq Nodes(g)
                                /\ ToSet(g.preds[b]) \subseteq Nodes(g)
                                /\ IsInjective(g.preds[b])
         /\ \A a, b \in Nodes(g) : a \in ToSet(g.preds[b]) <=> b \in ToSet(g.succs[a])
<1>1. g.blocks \in Seq([start : Nat, end : Nat]) /\ g.blocks # <<>>
  BY DEF IsGraph
<1>2. Nodes(g) = 1 .. Len(g.blocks) /\ Len(g.blocks) \in Nat /\ Entry \in Nodes(g)
  BY <1>1 DEF Nodes, Entry
<1>3. ASSUME NEW b \in Nodes(g)
      PROVE  /\ g.succs[b] \in Seq(Nodes(g)) /\ g.preds[b] \in Seq(Nodes(g))
             /\ ToSet(g.succs[b]) \subseteq Nodes(g) /\ ToSet(g.preds[b]) \subseteq Nodes(g)
  <2>1. g.succs[b] \in Seq(Nodes(g)) /\ g.preds[b] \in Seq(Nodes(g))
    BY DEF IsGraph
  <2> QED BY <2>1 DEF ToSet
<1> QED BY <1>2, <1>3 DEF IsGraph

(* What can be reached is the least closed set.                            *)
LEMMA ReachFacts ==
  ASSUME NEW g, IsGraph(g), NEW w
  PROVE  /\ Reachable(g, w) \subseteq Nodes(g) \ w
         /\ Entry \notin w => Entry \in Reachable(g, w)
         /\ Entry \in w => Reachable(g, w) = {}
         /\ \A b \in Reachable(g, w) : ToSet(g.succs[b]) \ w \subseteq Reachable(g, w)
         /\ \A S \in SUBSET (Nodes(g) \ w) :
              {Entry} \ w \subseteq S /\ Closed(g, S, w) => Reachable(g, w) \subseteq S
<1>0. Entry \in Nodes(g) /\ \A b \in Nodes(g) : ToSet(g.succs[b]) \subseteq Nodes(g)
  BY GraphFacts
<1>1. Reachable(g, w) \subseteq Nodes(g) \ w
  BY DEF Reachable
<1>2. Entry \notin w => Entry \in Reachable(g, w)
  BY <1>0 DEF Reachable
<1>3. \A S \in SUBSET (Nodes(g) \ w) :
        {Entry} \ w \subseteq S /\ Closed(g, S, w) => Reachable(g, w) \subseteq S
  BY DEF Reachable
<1>4. ASSUME NEW b \in Reachable(g, w), NEW s \in ToSet(g.succs[b]) \ w
      PROVE  s \in Reachable(g, w)
  <2>1. b \in Nodes(g) /\ s \in Nodes(g) \ w
    BY <1>0, <1>1
  <2>2. ASSUME NEW S \in SUBSET (Nodes(g) \ w), {Entry} \ w \subseteq S, Closed(g, S, w)
        PROVE  s \in S
    <3>1. b \in S
      BY <2>2, <1>3
    <3> QED BY <3>1, <2>2 DEF Closed
  <2> QED BY <2>1, <2>2 DEF Reachable
<1>5. ASSUME Entry \in w PROVE Reachable(g, w) = {}
  <2>1. {} \in SUBSET (Nodes(g) \ w) /\ {Entry} \ w \subseteq {} /\ Closed(g, {}, w)
    BY <1>5 DEF Closed
  <2> QED BY <2>1, <1>3
<1> QED BY <1>1, <1>2, <1>3, <1>4, <1>5

(* What is reached other than the entry is reached from somewhere.         *)
LEMMA ReachedFrom ==
  ASSUME NEW g, IsGraph(g), NEW w, NEW b \in Reachable(g, w), b # Entry
  PROVE  \E p \in Reachable(g, w) : b \in ToSet(g.succs[p])
<1> SUFFICES ASSUME \A p \in Reachable(g, w) : b \notin ToSet(g.succs[p]) PROVE FALSE
  OBVIOUS
<1> DEFINE S == Reachable(g, w) \ {b}
<1>1. S \in SUBSET (Nodes(g) \ w) /\ {Entry} \ w \subseteq S
  BY ReachFacts
<1>2. Closed(g, S, w)
  BY ReachFacts DEF Closed
<1>3. Reachable(g, w) \subseteq S
  BY <1>1, <1>2, ReachFacts
<1> QED BY <1>3

LEMMA FewerReached ==
  ASSUME NEW g, IsGraph(g), NEW a
  PROVE  /\ Reachable(g, {a}) \subseteq Reachable(g, {})
         /\ a \notin Reachable(g, {}) => Reachable(g, {a}) = Reachable(g, {})
<1>1. Reachable(g, {a}) \subseteq Reachable(g, {})
  <2> DEFINE S == Reachable(g, {}) \ {a}
  <2>1. S \in SUBSET (Nodes(g) \ {a}) /\ {Entry} \ {a} \subseteq S
    BY ReachFacts
  <2>2. Closed(g, S, {a})
    BY ReachFacts DEF Closed
  <2>3. Reachable(g, {a}) \subseteq S
    BY <2>1, <2>2, ReachFacts
  <2> QED BY <2>3
<1>2. ASSUME a \notin Reachable(g, {}) PROVE Reachable(g, {}) \subseteq Reachable(g, {a})
  <2> DEFINE S == Reachable(g, {a})
  <2>1. Entry # a /\ S \in SUBSET (Nodes(g) \ {}) /\ {Entry} \ {} \subseteq S
    BY <1>2, ReachFacts
  <2>2. ASSUME NEW x \in S PROVE ToSet(g.succs[x]) \ {} \subseteq S
    <3>1. x \in Reachable(g, {})
      BY <1>1
    <3>2. ToSet(g.succs[x]) \ {} \subseteq Reachable(g, {})
      BY <3>1, ReachFacts
    <3>3. ToSet(g.succs[x]) \ {a} \subseteq S
      BY ReachFacts
    <3> QED BY <3>2, <3>3, <1>2
  <2>3. Closed(g, S, {})
    BY <2>2 DEF Closed
  <2>4. Reachable(g, {}) \subseteq S
    BY <2>1, <2>3, ReachFacts
  <2> QED BY <2>4
<1> QED BY <1>1, <1>2

-----------------------------------------------------------------------------
(* Dominance.                                                              *)

(* A strict dominator of what can be reached can be reached, and nothing   *)
(* dominates the entry.                                                    *)
LEMMA DominatorReached ==
  ASSUME NEW g, IsGraph(g), NEW a, NEW b \in Reachable(g, {}), Dominates(g, a, b)
  PROVE  a \in Reachable(g, {}) /\ (b = Entry => a = Entry)
<1>1. CASE a = b
  BY <1>1
<1>2. CASE a # b
  <2>1. b \notin Reachable(g, {a})
    BY <1>2 DEF Dominates, StrictlyDominates
  <2>2. a \in Reachable(g, {})
    BY <2>1, FewerReached
  <2>3. b # Entry
    BY <2>1, <1>2, ReachFacts
  <2> QED BY <2>2, <2>3
<1> QED BY <1>1, <1>2

(* What strictly dominates a block dominates its predecessors,             *)
LEMMA DominatesPreds ==
  ASSUME NEW g, IsGraph(g), NEW a, NEW p \in Reachable(g, {}), NEW b \in ToSet(g.succs[p]),
         StrictlyDominates(g, a, b)
  PROVE  Dominates(g, a, p)
<1> SUFFICES ASSUME p # a, p \in Reachable(g, {a}) PROVE FALSE
  BY DEF Dominates, StrictlyDominates
<1>1. b # a /\ b \notin Reachable(g, {a})
  BY DEF StrictlyDominates
<1> QED BY <1>1, ReachFacts

(* and what dominates all of them, the block.                              *)
LEMMA PredsDominate ==
  ASSUME NEW g, IsGraph(g), NEW a, NEW b \in Reachable(g, {}), b # Entry, a # b,
         \A p \in Reachable(g, {}) : b \in ToSet(g.succs[p]) => Dominates(g, a, p)
  PROVE  StrictlyDominates(g, a, b)
<1> SUFFICES ASSUME b \in Reachable(g, {a}) PROVE FALSE
  BY DEF StrictlyDominates
<1>1. PICK p \in Reachable(g, {a}) : b \in ToSet(g.succs[p])
  BY ReachedFrom
<1>2. p \in Reachable(g, {}) /\ p # a
  BY <1>1, FewerReached, ReachFacts
<1>3. Dominates(g, a, p)
  BY <1>1, <1>2
<1> QED BY <1>1, <1>2, <1>3 DEF Dominates, StrictlyDominates

LEMMA EntryDominates ==
  ASSUME NEW g, IsGraph(g), NEW b
  PROVE  Dominates(g, Entry, b)
BY ReachFacts DEF Dominates, StrictlyDominates

LEMMA StrictlyAntisymmetric ==
  ASSUME NEW g, IsGraph(g), NEW a \in Reachable(g, {}), NEW b \in Reachable(g, {}),
         StrictlyDominates(g, a, b)
  PROVE  ~ Dominates(g, b, a)
<1> SUFFICES ASSUME StrictlyDominates(g, b, a) PROVE FALSE
  BY DEF Dominates, StrictlyDominates
<1>1. a # b /\ b \notin Reachable(g, {a}) /\ a \notin Reachable(g, {b})
  BY DEF StrictlyDominates
<1>2. a # Entry /\ b # Entry
  BY <1>1, ReachFacts
<1> DEFINE S == Reachable(g, {a}) \intersect Reachable(g, {b})
<1>3. S \in SUBSET (Nodes(g) \ {}) /\ {Entry} \ {} \subseteq S
  BY <1>2, ReachFacts
<1>4. ASSUME NEW x \in S PROVE ToSet(g.succs[x]) \ {} \subseteq S
  <2>1. ToSet(g.succs[x]) \ {a} \subseteq Reachable(g, {a})
    BY ReachFacts
  <2>2. ToSet(g.succs[x]) \ {b} \subseteq Reachable(g, {b})
    BY ReachFacts
  <2> QED BY <2>1, <2>2, <1>1
<1>5. Closed(g, S, {})
  BY <1>4 DEF Closed
<1>6. Reachable(g, {}) \subseteq S
  BY <1>3, <1>5, ReachFacts
<1> QED BY <1>6, <1>1

LEMMA StrictlyTransitive ==
  ASSUME NEW g, IsGraph(g), NEW a \in Reachable(g, {}), NEW b \in Reachable(g, {}),
         NEW c \in Reachable(g, {}), StrictlyDominates(g, a, b), StrictlyDominates(g, b, c)
  PROVE  StrictlyDominates(g, a, c)
<1>1. a # b /\ b \notin Reachable(g, {a}) /\ b # c /\ c \notin Reachable(g, {b})
  BY DEF StrictlyDominates
<1>2. a # c
  BY StrictlyAntisymmetric DEF Dominates
<1>3. CASE a = Entry
  BY <1>2, <1>3, ReachFacts DEF StrictlyDominates
<1>4. CASE a # Entry
  <2>1. b # Entry
    BY <1>1, <1>4, ReachFacts
  <2> DEFINE S == Reachable(g, {a}) \intersect Reachable(g, {b})
  <2>a. Entry \in Reachable(g, {a}) /\ Reachable(g, {a}) \subseteq Nodes(g) \ {a}
    BY <1>4, ReachFacts
  <2>b. Entry \in Reachable(g, {b})
    BY <2>1, ReachFacts
  <2>2. S \in SUBSET (Nodes(g) \ {a}) /\ {Entry} \ {a} \subseteq S
    BY <2>a, <2>b
  <2>3. ASSUME NEW x \in S PROVE ToSet(g.succs[x]) \ {a} \subseteq S
    <3>1. ToSet(g.succs[x]) \ {a} \subseteq Reachable(g, {a})
      BY ReachFacts
    <3>2. ToSet(g.succs[x]) \ {b} \subseteq Reachable(g, {b})
      BY ReachFacts
    <3> QED BY <3>1, <3>2, <1>1
  <2>4. Closed(g, S, {a})
    BY <2>3 DEF Closed
  <2>5. Reachable(g, {a}) \subseteq S
    <3> HIDE DEF S
    <3> QED BY <2>2, <2>4, ReachFacts
  <2> QED BY <2>5, <1>1, <1>2 DEF StrictlyDominates
<1> QED BY <1>3, <1>4

LEMMA DominatesTransitive ==
  ASSUME NEW g, IsGraph(g), NEW a, NEW b, NEW c \in Reachable(g, {}),
         Dominates(g, a, b), Dominates(g, b, c)
  PROVE  /\ Dominates(g, a, c)
         /\ StrictlyDominates(g, a, b) \/ StrictlyDominates(g, b, c) => StrictlyDominates(g, a, c)
<1>1. b \in Reachable(g, {})
  BY DominatorReached
<1>2. a \in Reachable(g, {})
  BY <1>1, DominatorReached
<1> QED BY <1>1, <1>2, StrictlyTransitive DEF Dominates

-----------------------------------------------------------------------------
(* The search.  What was seen is on the stack, a path from the entry, or   *)
(* done; what is done leads to nothing unseen, and was come to from a      *)
(* block that was not done before it.                                      *)

Edge(g, a, b) == b \in ToSet(g.succs[a])

CameTo(g, d, i) ==
  \E p \in Nodes(g) : /\ Edge(g, p, d.post[i])
                      /\ p \in ToSet(d.stack) \/ \E j \in i + 1 .. Len(d.post) : d.post[j] = p

SearchOK(g, d) ==
  /\ d \in [seen : SUBSET Nodes(g), stack : Seq(Nodes(g)), post : Seq(Nodes(g))]
  /\ IsInjective(d.stack) /\ IsInjective(d.post)
  /\ d.seen = ToSet(d.stack) \union ToSet(d.post)
  /\ ToSet(d.stack) \intersect ToSet(d.post) = {}
  /\ Entry \in d.seen /\ d.seen \subseteq Reachable(g, {})
  /\ \A i \in 1 .. Len(d.stack) - 1 : Edge(g, d.stack[i], d.stack[i + 1])
  /\ \A i \in DOMAIN d.stack : d.stack[i] = Entry => i = 1
  /\ d.stack # <<>> => d.stack[1] = Entry
  /\ \A i \in DOMAIN d.post : ToSet(g.succs[d.post[i]]) \subseteq d.seen
  /\ \A i \in DOMAIN d.post : d.post[i] # Entry => CameTo(g, d, i)

LEMMA SearchStart ==
  ASSUME NEW g, IsGraph(g)
  PROVE  SearchOK(g, [seen |-> {Entry}, stack |-> <<Entry>>, post |-> <<>>])
<1> DEFINE d == [seen |-> {Entry}, stack |-> <<Entry>>, post |-> <<>>]
<1>1. Entry \in Nodes(g) /\ Entry \in Reachable(g, {})
  BY GraphFacts, ReachFacts
<1>2. d \in [seen : SUBSET Nodes(g), stack : Seq(Nodes(g)), post : Seq(Nodes(g))]
  BY <1>1
<1>3. ToSet(d.stack) = {Entry} /\ ToSet(d.post) = {}
  BY DEF ToSet
<1>4. IsInjective(d.stack) /\ IsInjective(d.post)
  BY DEF IsInjective
<1> QED BY <1>1, <1>2, <1>3, <1>4 DEF SearchOK

LEMMA AppendFacts ==
  ASSUME NEW T, NEW s \in Seq(T), NEW x \in T
  PROVE  /\ Append(s, x) \in Seq(T) /\ Len(Append(s, x)) = Len(s) + 1
         /\ \A i \in 1 .. Len(s) : Append(s, x)[i] = s[i]
         /\ Append(s, x)[Len(s) + 1] = x
         /\ ToSet(Append(s, x)) = ToSet(s) \union {x}
         /\ IsInjective(s) /\ x \notin ToSet(s) => IsInjective(Append(s, x))
<1>1. /\ Append(s, x) \in Seq(T) /\ Len(Append(s, x)) = Len(s) + 1 /\ Len(s) \in Nat
      /\ \A i \in 1 .. Len(s) : Append(s, x)[i] = s[i]
      /\ Append(s, x)[Len(s) + 1] = x
  OBVIOUS
<1>2. DOMAIN Append(s, x) = 1 .. Len(s) + 1 /\ DOMAIN s = 1 .. Len(s)
  OBVIOUS
<1> DEFINE a == Append(s, x)
<1> HIDE DEF a
<1>3. ToSet(a) = ToSet(s) \union {x}
  <2>1. ASSUME NEW y \in ToSet(a) PROVE y \in ToSet(s) \union {x}
    BY <1>1, <1>2 DEF ToSet, a
  <2>2. ASSUME NEW y \in ToSet(s) PROVE y \in ToSet(a)
    <3>1. PICK i \in 1 .. Len(s) : y = s[i]
      BY <1>2 DEF ToSet
    <3>2. i \in 1 .. Len(s) + 1 /\ a[i] = y
      BY <3>1, <1>1 DEF a
    <3> QED BY <3>2, <1>2 DEF ToSet, a
  <2>3. x \in ToSet(a)
    BY <1>1, <1>2 DEF ToSet, a
  <2> QED BY <2>1, <2>2, <2>3
<1>4. ASSUME IsInjective(s), x \notin ToSet(s), NEW i \in 1 .. Len(s) + 1,
             NEW j \in 1 .. Len(s) + 1, a[i] = a[j]
      PROVE  i = j
  <2>1. \A k \in 1 .. Len(s) : s[k] # x
    BY <1>4, <1>2 DEF ToSet
  <2>2. CASE i \in 1 .. Len(s) /\ j \in 1 .. Len(s)
    BY <2>2, <1>4, <1>1, <1>2 DEF IsInjective, a
  <2>3. CASE i = Len(s) + 1 /\ j = Len(s) + 1
    BY <2>3
  <2>4. CASE i \in 1 .. Len(s) /\ j = Len(s) + 1
    BY <2>4, <2>1, <1>4, <1>1 DEF a
  <2>5. CASE i = Len(s) + 1 /\ j \in 1 .. Len(s)
    BY <2>5, <2>1, <1>4, <1>1 DEF a
  <2> QED BY <2>2, <2>3, <2>4, <2>5, <1>1
<1>5. IsInjective(s) /\ x \notin ToSet(s) => IsInjective(a)
  BY <1>4, <1>2 DEF IsInjective, a
<1> QED BY <1>1, <1>3, <1>5 DEF a

LEMMA UpTo ==
  ASSUME NEW n \in Nat
  PROVE  \A i : i \in 1 .. n - 1 <=> i \in 1 .. n /\ i # n
OBVIOUS

LEMMA LastFacts ==
  ASSUME NEW T, NEW s \in Seq(T), s # <<>>
  PROVE  Last(s) = s[Len(s)] /\ Last(s) \in T /\ Last(s) \in ToSet(s) /\ Len(s) \in Nat \ {0}
BY DEF Last, ToSet

LEMMA FrontFacts ==
  ASSUME NEW T, NEW s \in Seq(T), s # <<>>
  PROVE  /\ Front(s) \in Seq(T) /\ Len(Front(s)) = Len(s) - 1 /\ Len(s) \in Nat \ {0}
         /\ \A i \in 1 .. Len(s) - 1 : Front(s)[i] = s[i]
         /\ Last(s) = s[Len(s)] /\ Last(s) \in T
         /\ ToSet(s) = ToSet(Front(s)) \union {Last(s)}
         /\ IsInjective(s) => IsInjective(Front(s)) /\ Last(s) \notin ToSet(Front(s))
<1>1. Len(s) \in Nat \ {0} /\ DOMAIN s = 1 .. Len(s)
  OBVIOUS
<1>2. /\ Front(s) \in Seq(T) /\ Len(Front(s)) = Len(s) - 1
      /\ \A i \in 1 .. Len(s) - 1 : Front(s)[i] = s[i]
  BY <1>1 DEF Front
<1>3. DOMAIN Front(s) = 1 .. Len(s) - 1
  BY <1>2
<1>4. Last(s) = s[Len(s)] /\ Last(s) \in T
  BY <1>1 DEF Last
<1> DEFINE f == Front(s)
<1> HIDE DEF f
<1>5. ToSet(s) = ToSet(f) \union {Last(s)}
  <2>1. ASSUME NEW y \in ToSet(s) PROVE y \in ToSet(f) \union {Last(s)}
    <3>1. PICK i \in 1 .. Len(s) : y = s[i]
      BY <1>1 DEF ToSet
    <3>2. CASE i = Len(s)
      BY <3>1, <3>2, <1>4
    <3>3. CASE i \in 1 .. Len(s) - 1
      BY <3>1, <3>3, <1>2, <1>3 DEF ToSet, f
    <3>4. i = Len(s) \/ i \in 1 .. Len(s) - 1
      BY <1>1, UpTo
    <3> QED BY <3>2, <3>3, <3>4
  <2>2. ASSUME NEW y \in ToSet(f) PROVE y \in ToSet(s)
    <3>1. PICK i \in 1 .. Len(s) - 1 : y = f[i]
      BY <1>3 DEF ToSet, f
    <3>2. i \in 1 .. Len(s) /\ s[i] = y
      BY <3>1, <1>1, <1>2 DEF f
    <3> QED BY <3>2, <1>1 DEF ToSet
  <2>3. Last(s) \in ToSet(s)
    BY <1>1, <1>4 DEF ToSet
  <2> QED BY <2>1, <2>2, <2>3
<1>6. ASSUME IsInjective(s) PROVE IsInjective(f) /\ Last(s) \notin ToSet(f)
  <2>1. \A i, j \in 1 .. Len(s) : s[i] = s[j] => i = j
    BY <1>6, <1>1 DEF IsInjective
  <2>2. ASSUME NEW i \in 1 .. Len(s) - 1 PROVE f[i] = s[i] /\ i \in 1 .. Len(s) /\ i # Len(s)
    <3>1. f[i] = s[i]
      BY <1>2 DEF f
    <3>2. i \in 1 .. Len(s) /\ i # Len(s)
      BY <1>1, UpTo
    <3> QED BY <3>1, <3>2
  <2>3. DOMAIN f = 1 .. Len(s) - 1
    BY <1>3 DEF f
  <2>4. Len(s) \in 1 .. Len(s)
    BY <1>1
  <2>5. ASSUME NEW i \in 1 .. Len(s) - 1 PROVE f[i] # Last(s)
    BY <2>1, <2>2, <2>4, <1>4
  <2>6. ASSUME NEW i \in 1 .. Len(s) - 1, NEW j \in 1 .. Len(s) - 1, f[i] = f[j] PROVE i = j
    BY <2>1, <2>2, <2>6
  <2>7. IsInjective(f)
    BY <2>3, <2>6 DEF IsInjective
  <2>8. Last(s) \notin ToSet(f)
    BY <2>3, <2>5 DEF ToSet
  <2> QED BY <2>7, <2>8
<1> QED BY <1>1, <1>2, <1>4, <1>5, <1>6 DEF f

(* The search goes into a block that it has not seen.                      *)
LEMMA PushKeeps ==
  ASSUME NEW g, IsGraph(g), NEW d, SearchOK(g, d), d.stack # <<>>,
         NEW s \in ToSet(g.succs[Last(d.stack)]), s \notin d.seen,
         NEW e, e = [seen |-> d.seen \union {s}, stack |-> Append(d.stack, s), post |-> d.post]
  PROVE  SearchOK(g, e)
<1> DEFINE st == d.stack
           n  == Len(st)
<1>1. /\ st \in Seq(Nodes(g)) /\ d.post \in Seq(Nodes(g)) /\ st # <<>> /\ d.seen \subseteq Nodes(g)
      /\ d = [seen |-> d.seen, stack |-> st, post |-> d.post]
  BY DEF SearchOK
<1> HIDE DEF st, n
<1>2. Last(st) \in Nodes(g) /\ Last(st) = st[n] /\ n \in Nat \ {0} /\ Last(st) \in ToSet(st)
  BY <1>1, LastFacts DEF n
<1>3. Last(st) \in Reachable(g, {})
  BY <1>2 DEF SearchOK, st
<1>4. s \in ToSet(g.succs[Last(st)])
  BY DEF st
<1>5. s \in Nodes(g) /\ s \in Reachable(g, {})
  BY <1>2, <1>3, <1>4, GraphFacts, ReachFacts
<1>6. e = [seen |-> d.seen \union {s}, stack |-> Append(st, s), post |-> d.post]
  BY DEF st
<1>7. e \in [seen : SUBSET Nodes(g), stack : Seq(Nodes(g)), post : Seq(Nodes(g))]
  BY <1>6, <1>5, <1>1, AppendFacts
<1>8. /\ Len(e.stack) = n + 1 /\ e.stack[n + 1] = s
      /\ \A i \in 1 .. n : e.stack[i] = st[i]
      /\ ToSet(e.stack) = ToSet(st) \union {s}
      /\ IsInjective(st) /\ s \notin ToSet(st) => IsInjective(e.stack)
  BY <1>6, <1>5, <1>1, AppendFacts DEF n
<1>9. s \notin ToSet(st) /\ s \notin ToSet(d.post) /\ s # Entry
  BY DEF SearchOK, st
<1>10. /\ IsInjective(e.stack) /\ IsInjective(e.post)
       /\ e.seen = ToSet(e.stack) \union ToSet(e.post)
       /\ ToSet(e.stack) \intersect ToSet(e.post) = {}
  BY <1>6, <1>8, <1>9 DEF SearchOK, st
<1>11. Entry \in e.seen /\ e.seen \subseteq Reachable(g, {})
  BY <1>6, <1>5 DEF SearchOK
<1>12. ASSUME NEW i \in 1 .. Len(e.stack) - 1 PROVE Edge(g, e.stack[i], e.stack[i + 1])
  <2>1. i \in 1 .. n
    BY <1>8, <1>2
  <2>2. CASE i = n
    BY <2>2, <1>8, <1>2, <1>4, <2>1 DEF Edge
  <2>3. CASE i # n
    <3>1. i \in 1 .. n - 1 /\ i + 1 \in 1 .. n
      BY <2>1, <2>3, <1>2
    <3>2. Edge(g, st[i], st[i + 1])
      BY <3>1 DEF SearchOK, st, n
    <3> QED BY <3>1, <3>2, <1>8, <2>1
  <2> QED BY <2>2, <2>3
<1>13. DOMAIN e.stack = 1 .. n + 1 /\ DOMAIN st = 1 .. n /\ 1 \in 1 .. n /\ e.stack # <<>>
  BY <1>7, <1>8, <1>1, <1>2 DEF n
<1>14. e.stack[1] = Entry
  BY <1>13, <1>8 DEF SearchOK, st
<1>15. ASSUME NEW i \in DOMAIN e.stack, e.stack[i] = Entry PROVE i = 1
  <2>1. i # n + 1
    BY <1>15, <1>8, <1>9
  <2>2. i \in 1 .. n
    BY <2>1, <1>13, <1>2
  <2>3. i \in DOMAIN st /\ st[i] = Entry
    BY <2>2, <1>13, <1>15, <1>8
  <2> QED BY <2>3 DEF SearchOK, st
<1>16. \A i \in DOMAIN e.post : ToSet(g.succs[e.post[i]]) \subseteq e.seen
  BY <1>6 DEF SearchOK
<1>17. ASSUME NEW i \in DOMAIN e.post, e.post[i] # Entry
       PROVE  CameTo(g, e, i)
  <2>1. e.post = d.post
    BY <1>6
  <2>2. PICK p \in Nodes(g) :
          /\ Edge(g, p, d.post[i])
          /\ p \in ToSet(d.stack) \/ \E j \in i + 1 .. Len(d.post) : d.post[j] = p
    BY <2>1, <1>17 DEF SearchOK, CameTo
  <2> QED BY <2>1, <2>2, <1>8 DEF st, CameTo
<1> QED BY <1>7, <1>10, <1>11, <1>12, <1>13, <1>14, <1>15, <1>16, <1>17 DEF SearchOK

(* The search is done with a block.                                        *)
LEMMA PopKeeps ==
  ASSUME NEW g, IsGraph(g), NEW d, SearchOK(g, d), d.stack # <<>>,
         ToSet(g.succs[Last(d.stack)]) \subseteq d.seen,
         NEW e, e = [seen |-> d.seen, stack |-> Front(d.stack), post |-> Append(d.post, Last(d.stack))]
  PROVE  SearchOK(g, e)
<1> DEFINE st == d.stack
           po == d.post
           n  == Len(st)
           m  == Len(po)
           b  == Last(st)
<1>1. /\ st \in Seq(Nodes(g)) /\ po \in Seq(Nodes(g)) /\ st # <<>> /\ d.seen \subseteq Nodes(g)
      /\ d = [seen |-> d.seen, stack |-> st, post |-> po]
  BY DEF SearchOK
<1> HIDE DEF st, po, n, m, b
<1>2. b \in Nodes(g) /\ b = st[n] /\ n \in Nat \ {0} /\ b \in ToSet(st)
  BY <1>1, LastFacts DEF n, b
<1>3. m \in Nat /\ DOMAIN po = 1 .. m /\ DOMAIN st = 1 .. n
  BY <1>1 DEF m, n
<1>4. e = [seen |-> d.seen, stack |-> Front(st), post |-> Append(po, b)]
  BY DEF st, po, b
<1>5. IsInjective(st) /\ IsInjective(po) /\ b \notin ToSet(po)
  BY <1>2 DEF SearchOK, st, po
<1>6. /\ e.stack \in Seq(Nodes(g)) /\ Len(e.stack) = n - 1
      /\ \A i \in 1 .. n - 1 : e.stack[i] = st[i]
      /\ ToSet(st) = ToSet(e.stack) \union {b} /\ b \notin ToSet(e.stack) /\ IsInjective(e.stack)
  <2>1. e.stack = Front(st)
    BY <1>4
  <2> HIDE DEF st
  <2>2. /\ Front(st) \in Seq(Nodes(g)) /\ Len(Front(st)) = n - 1
        /\ \A i \in 1 .. n - 1 : Front(st)[i] = st[i]
        /\ ToSet(st) = ToSet(Front(st)) \union {b}
        /\ b \notin ToSet(Front(st)) /\ IsInjective(Front(st))
    BY <1>1, <1>5, FrontFacts DEF b, n
  <2> QED BY <2>1, <2>2
<1>7. /\ e.post \in Seq(Nodes(g)) /\ Len(e.post) = m + 1 /\ e.post[m + 1] = b
      /\ \A i \in 1 .. m : e.post[i] = po[i]
      /\ ToSet(e.post) = ToSet(po) \union {b} /\ IsInjective(e.post)
  BY <1>4, <1>1, <1>2, <1>5, AppendFacts DEF m
<1>8. e \in [seen : SUBSET Nodes(g), stack : Seq(Nodes(g)), post : Seq(Nodes(g))]
  BY <1>4, <1>6, <1>7, <1>1
<1>9. /\ e.seen = ToSet(e.stack) \union ToSet(e.post)
      /\ ToSet(e.stack) \intersect ToSet(e.post) = {}
  BY <1>4, <1>5, <1>6, <1>7 DEF SearchOK, st, po
<1>10. Entry \in e.seen /\ e.seen \subseteq Reachable(g, {})
  BY <1>4 DEF SearchOK
<1>11. ASSUME NEW i \in 1 .. Len(e.stack) - 1 PROVE Edge(g, e.stack[i], e.stack[i + 1])
  <2>1. i \in 1 .. n - 1 /\ i + 1 \in 1 .. n - 1
    BY <1>6, <1>2
  <2>2. Edge(g, st[i], st[i + 1])
    BY <2>1 DEF SearchOK, st, n
  <2> QED BY <2>1, <2>2, <1>6
<1>12. DOMAIN e.stack = 1 .. n - 1 /\ DOMAIN e.post = 1 .. m + 1
  BY <1>6, <1>7
<1>13. ASSUME NEW i \in DOMAIN e.stack, e.stack[i] = Entry PROVE i = 1
  <2>1. i \in 1 .. n /\ i \in 1 .. n - 1
    BY <1>12, <1>2
  <2>2. i \in DOMAIN st /\ st[i] = Entry
    BY <2>1, <1>13, <1>3, <1>6
  <2> QED BY <2>2 DEF SearchOK, st
<1>14. ASSUME e.stack # <<>> PROVE e.stack[1] = Entry
  <2>1. Len(e.stack) # 0
    BY <1>14, <1>6
  <2>2. 1 \in 1 .. n - 1
    BY <2>1, <1>6, <1>2
  <2>3. st[1] = Entry
    BY <1>1 DEF SearchOK, st
  <2> QED BY <2>2, <2>3, <1>6
<1>15. ASSUME NEW i \in DOMAIN e.post PROVE ToSet(g.succs[e.post[i]]) \subseteq e.seen
  <2>1. CASE i = m + 1
    BY <2>1, <1>7, <1>4 DEF b, st
  <2>2. CASE i \in 1 .. m
    <3>1. ToSet(g.succs[po[i]]) \subseteq d.seen
      BY <2>2, <1>3 DEF SearchOK, po
    <3> QED BY <3>1, <2>2, <1>7, <1>4
  <2> QED BY <2>1, <2>2, <1>3, <1>12
<1>16. ASSUME NEW i \in DOMAIN e.post, e.post[i] # Entry
       PROVE  CameTo(g, e, i)
  <2>1. CASE i = m + 1
    <3>1. e.post[i] = b /\ b # Entry
      BY <2>1, <1>7, <1>16
    <3>2. n # 1
      <4>1. st[1] = Entry
        BY <1>1 DEF SearchOK, st
      <4> QED BY <4>1, <3>1, <1>2
    <3> DEFINE p == st[n - 1]
    <3>3. n - 1 \in 1 .. n - 1 /\ n - 1 + 1 = n
      BY <3>2, <1>2
    <3>4. Edge(g, st[n - 1], st[n - 1 + 1])
      BY <3>3 DEF SearchOK, st, n
    <3>5. Edge(g, p, b)
      BY <3>3, <3>4, <1>2
    <3>6. e.stack[n - 1] = p /\ n - 1 \in DOMAIN e.stack
      BY <3>3, <1>6, <1>12
    <3>7. p \in ToSet(e.stack)
      BY <3>6 DEF ToSet
    <3>8. p \in Nodes(g)
      BY <3>6, <1>6, <1>12
    <3> QED BY <3>1, <3>5, <3>7, <3>8 DEF CameTo
  <2>2. CASE i \in 1 .. m
    <3>1. e.post[i] = po[i] /\ i \in DOMAIN po
      BY <2>2, <1>7, <1>3
    <3>2. PICK p \in Nodes(g) : /\ Edge(g, p, po[i])
                                /\ p \in ToSet(st) \/ \E j \in i + 1 .. m : po[j] = p
      <4>1. i \in DOMAIN d.post /\ d.post[i] # Entry
        BY <3>1, <1>16 DEF po
      <4>2. CameTo(g, d, i)
        BY <4>1 DEF SearchOK
      <4> QED BY <4>2 DEF st, po, m, CameTo
    <3>3. CASE p \in ToSet(e.stack)
      BY <3>1, <3>2, <3>3 DEF CameTo
    <3>4. CASE p = b
      <4>1. m + 1 \in i + 1 .. Len(e.post)
        BY <2>2, <1>7, <1>3
      <4> QED BY <4>1, <3>4, <3>2, <3>1, <1>7 DEF CameTo
    <3>5. CASE \E j \in i + 1 .. m : po[j] = p
      <4>1. PICK j \in i + 1 .. m : po[j] = p
        BY <3>5
      <4>2. j \in i + 1 .. Len(e.post) /\ j \in 1 .. m
        BY <2>2, <1>7, <1>3
      <4> QED BY <4>1, <4>2, <3>2, <3>1, <1>7 DEF CameTo
    <3> QED BY <3>2, <3>3, <3>4, <3>5, <1>6
  <2> QED BY <2>1, <2>2, <1>3, <1>12
<1>17. IsInjective(e.post) /\ IsInjective(e.stack)
  BY <1>6, <1>7
<1> QED BY <1>8, <1>9, <1>10, <1>11, <1>13, <1>14, <1>15, <1>16, <1>17 DEF SearchOK

LEMMA VisitKeeps ==
  ASSUME IsGraph(flowGraph), SearchOK(flowGraph, dfs), Visit
  PROVE  SearchOK(flowGraph, dfs')
<1> DEFINE succs  == flowGraph.succs[Last(dfs.stack)]
           unseen == {n \in DOMAIN succs : succs[n] \notin dfs.seen}
           next   == succs[Min(unseen)]
<1>1. /\ dfs.stack # <<>>
      /\ dfs' = IF unseen # {}
                THEN [dfs EXCEPT !.seen = @ \union {next}, !.stack = Append(@, next)]
                ELSE [dfs EXCEPT !.stack = Front(@), !.post = Append(@, Last(dfs.stack))]
  BY DEF Visit
<1>2. dfs.stack \in Seq(Nodes(flowGraph))
  BY DEF SearchOK
<1>3. Last(dfs.stack) \in Nodes(flowGraph)
  BY <1>1, <1>2, LastFacts
<1>4. succs \in Seq(Nodes(flowGraph))
  BY <1>3, GraphFacts
<1>7. dfs = [seen |-> dfs.seen, stack |-> dfs.stack, post |-> dfs.post]
  BY DEF SearchOK
<1>5. CASE unseen # {}
  <2>1. unseen \subseteq Nat
    BY <1>4
  <2>2. Min(unseen) \in unseen
    <3> HIDE DEF unseen
    <3> QED BY <2>1, <1>5, MinFacts
  <2>3. next \in ToSet(succs) /\ next \notin dfs.seen
    BY <2>2 DEF ToSet
  <2> HIDE DEF unseen, next
  <2>4. dfs' = [seen |-> dfs.seen \union {next}, stack |-> Append(dfs.stack, next), post |-> dfs.post]
    BY <1>1, <1>5, <1>7
  <2> QED BY <1>1, <2>3, <2>4, PushKeeps
<1>6. CASE unseen = {}
  <2>1. ToSet(succs) \subseteq dfs.seen
    BY <1>6 DEF ToSet
  <2> HIDE DEF unseen, next
  <2>2. dfs' = [seen |-> dfs.seen, stack |-> Front(dfs.stack),
                post |-> Append(dfs.post, Last(dfs.stack))]
    BY <1>1, <1>6, <1>7
  <2> QED BY <1>1, <2>1, <2>2, PopKeeps
<1> QED BY <1>5, <1>6

-----------------------------------------------------------------------------
(* The numbers.  They are different, and a block has a greater one than a  *)
(* block before it, hence than what dominates it.                          *)

LEMMA SearchDone ==
  ASSUME NEW g, IsGraph(g), NEW d, SearchOK(g, d), d.stack = <<>>
  PROVE  ToSet(d.post) = Reachable(g, {})
<1>1. ToSet(d.stack) = {}
  BY DEF ToSet
<1>2. d.seen = ToSet(d.post) /\ Entry \in d.seen /\ d.seen \subseteq Reachable(g, {})
  BY <1>1 DEF SearchOK
<1>3. d.seen \in SUBSET (Nodes(g) \ {}) /\ {Entry} \ {} \subseteq d.seen
  BY <1>2, ReachFacts
<1>4. ASSUME NEW b \in d.seen PROVE ToSet(g.succs[b]) \ {} \subseteq d.seen
  <2>1. PICK i \in DOMAIN d.post : b = d.post[i]
    BY <1>2 DEF ToSet
  <2> QED BY <2>1 DEF SearchOK
<1>5. Closed(g, d.seen, {})
  BY <1>4 DEF Closed
<1>6. Reachable(g, {}) \subseteq d.seen
  BY <1>3, <1>5, ReachFacts
<1> QED BY <1>2, <1>6

LEMMA Numbers ==
  ASSUME IsGraph(flowGraph), SearchOK(flowGraph, dfs), dfs.stack = <<>>
  PROVE  /\ \A b \in Reachable(flowGraph, {}) : Rpo(b) \in Nat
         /\ \A a, b \in Reachable(flowGraph, {}) : Rpo(a) = Rpo(b) => a = b
         /\ \A b \in Reachable(flowGraph, {}) \ {Entry} :
              \E p \in Reachable(flowGraph, {}) : Edge(flowGraph, p, b) /\ Rpo(p) < Rpo(b)
<1> DEFINE R     == Reachable(flowGraph, {})
           n     == Len(dfs.post)
           at(b) == CHOOSE i \in DOMAIN dfs.post : dfs.post[i] = b
<1>1. ToSet(dfs.post) = R
  BY SearchDone
<1>2. dfs.post \in Seq(Nodes(flowGraph)) /\ IsInjective(dfs.post)
  BY DEF SearchOK
<1>3. n \in Nat /\ DOMAIN dfs.post = 1 .. n
  BY <1>2
<1>4. ASSUME NEW b \in R
      PROVE  Rpo(b) = n - at(b) /\ at(b) \in 1 .. n /\ dfs.post[at(b)] = b
  <2>1. Rpo(b) = n - at(b)
    BY <1>1 DEF Rpo
  <2>2. \E i \in DOMAIN dfs.post : dfs.post[i] = b
    BY <1>1 DEF ToSet
  <2>3. at(b) \in DOMAIN dfs.post /\ dfs.post[at(b)] = b
    BY <2>2, Zenon
  <2> QED BY <2>1, <2>3, <1>3
<1> HIDE DEF at, n
<1>5. ASSUME NEW i \in 1 .. n PROVE dfs.post[i] \in R /\ at(dfs.post[i]) = i
  <2>1. dfs.post[i] \in R
    BY <1>1, <1>3 DEF ToSet
  <2>2. at(dfs.post[i]) \in 1 .. n /\ dfs.post[at(dfs.post[i])] = dfs.post[i]
    BY <2>1, <1>4
  <2> QED BY <2>1, <2>2, <1>2, <1>3 DEF IsInjective
<1>6. \A b \in R : Rpo(b) \in Nat
  BY <1>3, <1>4
<1>7. ASSUME NEW a \in R, NEW b \in R, Rpo(a) = Rpo(b) PROVE a = b
  <2>1. /\ n - at(a) = n - at(b) /\ at(a) \in 1 .. n /\ at(b) \in 1 .. n
        /\ dfs.post[at(a)] = a /\ dfs.post[at(b)] = b
    BY <1>4, <1>7
  <2>2. at(a) = at(b)
    BY <2>1, <1>3
  <2> QED BY <2>1, <2>2
<1>8. ASSUME NEW b \in R \ {Entry}
      PROVE  \E p \in R : Edge(flowGraph, p, b) /\ Rpo(p) < Rpo(b)
  <2>1. at(b) \in 1 .. n /\ dfs.post[at(b)] = b /\ Rpo(b) = n - at(b)
    BY <1>4
  <2>2. CameTo(flowGraph, dfs, at(b))
    BY <2>1, <1>3 DEF SearchOK
  <2>3. ToSet(dfs.stack) = {}
    BY DEF ToSet
  <2>4. PICK p \in Nodes(flowGraph), j \in at(b) + 1 .. n : Edge(flowGraph, p, b) /\ dfs.post[j] = p
    BY <2>1, <2>2, <2>3 DEF CameTo, n
  <2>5. j \in 1 .. n /\ at(b) < j
    BY <2>1, <2>4, <1>3
  <2>6. p \in R /\ at(p) = j
    BY <2>4, <2>5, <1>5
  <2>7. Rpo(p) = n - j
    BY <2>6, <1>4
  <2>8. Rpo(p) < Rpo(b)
    BY <2>1, <2>5, <2>7, <1>3
  <2> QED BY <2>4, <2>6, <2>8
<1> QED BY <1>6, <1>7, <1>8

LEMMA DominatorsLower ==
  ASSUME IsGraph(flowGraph), SearchOK(flowGraph, dfs), dfs.stack = <<>>,
         NEW a, NEW b \in Reachable(flowGraph, {}), Dominates(flowGraph, a, b)
  PROVE  Rpo(a) <= Rpo(b)
<1> DEFINE g   == flowGraph
           R   == Reachable(g, {})
           Bad == {Rpo(x) : x \in {y \in R : StrictlyDominates(g, a, y) /\ Rpo(y) < Rpo(a)}}
<1>0. a \in R
  BY DominatorReached
<1>1. SUFFICES ASSUME Bad # {} PROVE FALSE
  <2>1. CASE a = b
    BY <2>1, Numbers
  <2>2. CASE StrictlyDominates(g, a, b)
    <3>1. ~ (Rpo(b) < Rpo(a))
      BY <1>1, <2>2
    <3> QED BY <3>1, <1>0, Numbers
  <2> QED BY <2>1, <2>2 DEF Dominates
<1>2. Bad \subseteq Nat
  BY Numbers
<1>3. PICK m \in Bad : \A h \in Bad : m <= h
  BY <1>1, <1>2, HasLeast
<1>4. PICK x \in R : StrictlyDominates(g, a, x) /\ Rpo(x) < Rpo(a) /\ m = Rpo(x)
  BY <1>3
<1>5. x # Entry
  BY <1>4, DominatorReached DEF Dominates, StrictlyDominates
<1>6. PICK p \in R : Edge(g, p, x) /\ Rpo(p) < Rpo(x)
  BY <1>4, <1>5, Numbers
<1>7. Dominates(g, a, p)
  BY <1>4, <1>6, DominatesPreds DEF Edge
<1>8. Rpo(p) \in Nat /\ Rpo(x) \in Nat /\ Rpo(a) \in Nat
  BY <1>0, <1>4, <1>6, Numbers
<1>9. StrictlyDominates(g, a, p)
  BY <1>4, <1>6, <1>7, <1>8 DEF Dominates
<1>10. Rpo(p) < Rpo(a)
  BY <1>4, <1>6, <1>8
<1>11. Rpo(p) \in Bad
  BY <1>9, <1>10
<1>12. m <= Rpo(p)
  BY <1>3, <1>11
<1> HIDE DEF Bad
<1> QED BY <1>4, <1>6, <1>8, <1>12

-----------------------------------------------------------------------------
(* The tree while the blocks meet.  idom is a guess: what strictly         *)
(* dominates a block dominates its guess.  The chain of a block is what    *)
(* going up from it comes to; a block is settled when its guess is on the  *)
(* chains of all its processed predecessors.                               *)

IdomTyped(g, idom) == idom \in [Nodes(g) -> Nodes(g) \union {None}]

Guessed(idom, b) == idom[b] # None

Upward(idom, S) == \A y \in S : Guessed(idom, y) => idom[y] \in S

Chain(g, idom, b) == {x \in Nodes(g) : \A S \in SUBSET Nodes(g) : b \in S /\ Upward(idom, S) => x \in S}

TreeUp(g, idom) ==
  /\ IdomTyped(g, idom)
  /\ idom[Entry] = Entry
  /\ \A b \in Nodes(g) : Guessed(idom, b) =>
       /\ b \in Reachable(g, {}) /\ Guessed(idom, idom[b])
       /\ \A d \in Nodes(g) : StrictlyDominates(g, d, b) => Dominates(g, d, idom[b])

SettledAt(g, idom, b) ==
  \A p \in ToSet(g.preds[b]) : Guessed(idom, p) => Guessed(idom, b) /\ idom[b] \in Chain(g, idom, p)

LEMMA NoneIsNoNode ==
  ASSUME NEW g, IsGraph(g)
  PROVE  None \notin Nodes(g) /\ Entry # None
BY GraphFacts DEF None, Entry

LEMMA ChainFacts ==
  ASSUME NEW g, IsGraph(g), NEW idom, IdomTyped(g, idom), NEW b \in Nodes(g)
  PROVE  /\ b \in Chain(g, idom, b) /\ Chain(g, idom, b) \subseteq Nodes(g)
         /\ Upward(idom, Chain(g, idom, b))
         /\ \A S \in SUBSET Nodes(g) : b \in S /\ Upward(idom, S) => Chain(g, idom, b) \subseteq S
         /\ \A x \in Chain(g, idom, b) : Chain(g, idom, x) \subseteq Chain(g, idom, b)
<1> DEFINE C(x) == Chain(g, idom, x)
<1>1. b \in C(b) /\ C(b) \subseteq Nodes(g)
  BY DEF Chain
<1>2. \A x : \A S \in SUBSET Nodes(g) : x \in S /\ Upward(idom, S) => C(x) \subseteq S
  BY DEF Chain
<1>3. Upward(idom, C(b))
  <2> SUFFICES ASSUME NEW y \in C(b), Guessed(idom, y) PROVE idom[y] \in C(b)
    BY DEF Upward
  <2>1. idom[y] \in Nodes(g)
    BY <1>1 DEF IdomTyped, Guessed
  <2>2. ASSUME NEW S \in SUBSET Nodes(g), b \in S, Upward(idom, S) PROVE idom[y] \in S
    <3>1. y \in S
      BY <2>2, <1>2
    <3> QED BY <3>1, <2>2 DEF Upward
  <2> QED BY <2>1, <2>2 DEF Chain
<1>4. \A x \in C(b) : C(x) \subseteq C(b)
  BY <1>1, <1>2, <1>3
<1> QED BY <1>1, <1>2, <1>3, <1>4

(* When every block is settled, everything reached has a guess, and what   *)
(* is on the chain of a block dominates it.                                *)
LEMMA AllGuessed ==
  ASSUME NEW g, IsGraph(g), NEW idom, TreeUp(g, idom),
         \A b \in Nodes(g) \ {Entry} : SettledAt(g, idom, b)
  PROVE  \A b \in Nodes(g) : Guessed(idom, b) <=> b \in Reachable(g, {})
<1> DEFINE S == {b \in Nodes(g) : Guessed(idom, b)}
<1>1. S \in SUBSET (Nodes(g) \ {}) /\ {Entry} \ {} \subseteq S
  BY GraphFacts, NoneIsNoNode DEF TreeUp, Guessed
<1>2. ASSUME NEW b \in S, NEW s \in ToSet(g.succs[b]) PROVE s \in S
  <2>1. s \in Nodes(g) /\ b \in ToSet(g.preds[s])
    BY GraphFacts
  <2>2. CASE s = Entry
    BY <2>2, <1>1
  <2>3. CASE s # Entry
    BY <2>1, <2>3 DEF SettledAt
  <2> QED BY <2>2, <2>3
<1>3. Closed(g, S, {})
  BY <1>2 DEF Closed
<1>4. Reachable(g, {}) \subseteq S
  <2> HIDE DEF S
  <2> QED BY <1>1, <1>3, ReachFacts
<1> QED BY <1>4 DEF TreeUp

LEMMA ChainDominates ==
  ASSUME NEW g, IsGraph(g), NEW idom, TreeUp(g, idom),
         \A b \in Nodes(g) \ {Entry} : SettledAt(g, idom, b),
         NEW b \in Reachable(g, {}), NEW a \in Chain(g, idom, b)
  PROVE  Dominates(g, a, b)
<1> SUFFICES ASSUME a # b PROVE b \notin Reachable(g, {a})
  BY DEF Dominates, StrictlyDominates
<1> DEFINE C(x) == Chain(g, idom, x)
           S    == {x \in Nodes(g) \ {a} : Guessed(idom, x) /\ a \notin C(x)}
<1>0. IdomTyped(g, idom) /\ Entry \in Nodes(g) /\ idom[Entry] = Entry /\ Guessed(idom, Entry)
  BY GraphFacts, NoneIsNoNode DEF TreeUp, Guessed
<1>1. a # Entry => a \notin C(Entry)
  <2>1. Upward(idom, {Entry})
    BY <1>0 DEF Upward
  <2>2. C(Entry) \subseteq {Entry}
    BY <2>1, <1>0, ChainFacts
  <2> QED BY <2>2
<1>2. S \in SUBSET (Nodes(g) \ {a}) /\ {Entry} \ {a} \subseteq S
  BY <1>0, <1>1
<1>3. ASSUME NEW x \in S, NEW s \in ToSet(g.succs[x]) \ {a} PROVE s \in S
  <2>1. s \in Nodes(g) /\ x \in ToSet(g.preds[s])
    BY GraphFacts
  <2>2. CASE s = Entry
    BY <2>2, <1>2
  <2>3. CASE s # Entry
    <3>1. Guessed(idom, s) /\ idom[s] \in C(x)
      BY <2>1, <2>3 DEF SettledAt
    <3>2. idom[s] \in Nodes(g)
      BY <2>1, <3>1, <1>0 DEF IdomTyped, Guessed
    <3>3. C(s) \subseteq {s} \union C(idom[s])
      <4>1. Upward(idom, C(idom[s])) /\ idom[s] \in C(idom[s]) /\ C(idom[s]) \subseteq Nodes(g)
        BY <3>2, <1>0, ChainFacts
      <4>2. Upward(idom, {s} \union C(idom[s]))
        BY <4>1 DEF Upward
      <4> QED BY <4>1, <4>2, <2>1, <1>0, ChainFacts
    <3>4. C(idom[s]) \subseteq C(x)
      BY <3>1, <1>0, ChainFacts
    <3>5. a \notin C(s)
      BY <3>3, <3>4
    <3> QED BY <2>1, <3>1, <3>5
  <2> QED BY <2>2, <2>3
<1>4. Closed(g, S, {a})
  BY <1>3 DEF Closed
<1>5. Reachable(g, {a}) \subseteq S
  <2> HIDE DEF S
  <2> QED BY <1>2, <1>4, ReachFacts
<1> QED BY <1>5

(* What the tree is when nothing changes any more: the parents are the     *)
(* immediate dominators.                                                   *)
IdomRight(g, idom) ==
  /\ IdomTyped(g, idom)
  /\ \A b \in Nodes(g) : IF b \in Reachable(g, {}) \ {Entry} THEN IsIdom(g, idom[b], b)
                                                            ELSE idom[b] = None

LEMMA SettledRight ==
  ASSUME IsGraph(flowGraph), SearchOK(flowGraph, dfs), dfs.stack = <<>>,
         NEW idom, TreeUp(flowGraph, idom),
         \A b \in Nodes(flowGraph) \ {Entry} : SettledAt(flowGraph, idom, b)
  PROVE  IdomRight(flowGraph, [idom EXCEPT ![Entry] = None])
<1> DEFINE g == flowGraph
           R == Reachable(g, {})
           h == [idom EXCEPT ![Entry] = None]
<1>1. IdomTyped(g, idom) /\ Entry \in Nodes(g) /\ R \subseteq Nodes(g)
  BY GraphFacts, ReachFacts DEF TreeUp
<1>2. IdomTyped(g, h) /\ h[Entry] = None /\ \A b \in Nodes(g) \ {Entry} : h[b] = idom[b]
  BY <1>1 DEF IdomTyped
<1>3. ASSUME NEW b \in R \ {Entry} PROVE IsIdom(g, idom[b], b)
  <2>1. Guessed(idom, b) /\ b \in Nodes(g)
    BY <1>1, AllGuessed
  <2>2. idom[b] \in Chain(g, idom, b)
    BY <2>1, <1>1, ChainFacts DEF Upward
  <2>3. Dominates(g, idom[b], b)
    BY <2>2, ChainDominates
  <2>4. idom[b] # b
    <3> SUFFICES ASSUME idom[b] = b PROVE FALSE
      OBVIOUS
    <3>1. PICK p \in R : Edge(g, p, b) /\ Rpo(p) < Rpo(b)
      BY Numbers
    <3>2. p \in Nodes(g) /\ p \in ToSet(g.preds[b]) /\ Guessed(idom, p)
      BY <3>1, <2>1, <1>1, AllGuessed, GraphFacts DEF Edge
    <3>3. b \in Chain(g, idom, p)
      BY <3>2, <2>1 DEF SettledAt
    <3>4. Dominates(g, b, p)
      BY <3>3, ChainDominates
    <3>5. Rpo(b) <= Rpo(p) /\ Rpo(b) \in Nat /\ Rpo(p) \in Nat
      BY <3>4, DominatorsLower, Numbers
    <3> QED BY <3>1, <3>5
  <2>5. \A c \in R : StrictlyDominates(g, c, b) => Dominates(g, c, idom[b])
    BY <2>1, <1>1 DEF TreeUp
  <2> QED BY <2>3, <2>4, <2>5 DEF IsIdom, Dominates
<1>4. ASSUME NEW b \in Nodes(g) \ R PROVE idom[b] = None
  BY <1>4, AllGuessed DEF Guessed
<1> QED BY <1>1, <1>2, <1>3, <1>4 DEF IdomRight

-----------------------------------------------------------------------------
(* The invariant.  While a block meets its predecessors, what strictly     *)
(* dominates it dominates both fingers, and a finger is on the chain of    *)
(* each predecessor met.                                                   *)

TurnTyped(g, t) ==
  t \in [phase : {"numbering", "meeting", "running", "built"}, at : Nat, met : Nat,
         new : Nodes(g) \union {None}, other : Nodes(g) \union {None}, changed : BOOLEAN]

TreeTyped(g, tr) ==
  tr \in [idom : [Nodes(g) -> Nodes(g) \union {None}], df : [Nodes(g) -> SUBSET Nodes(g)]]

Fresh(g, tr, t) ==
  /\ t = [AtEntry EXCEPT !.phase = "numbering"]
  /\ tr = [idom |-> [b \in Nodes(g) |-> IF b = Entry THEN Entry ELSE None],
           df   |-> [b \in Nodes(g) |-> {}]]

MetBy(g, idom, t, i) ==
  Guessed(idom, g.preds[t.at][i]) =>
    \/ t.new \in Chain(g, idom, g.preds[t.at][i])
    \/ i = t.met /\ t.other \in Chain(g, idom, g.preds[t.at][i])

Fingers(g, idom, t) ==
  /\ t.at \in Reachable(g, {}) \ {Entry} /\ t.met \in 0 .. Len(g.preds[t.at])
  /\ {t.new, t.other} \subseteq Nodes(g) /\ Guessed(idom, t.new) /\ Guessed(idom, t.other)
  /\ \A d \in Nodes(g) : StrictlyDominates(g, d, t.at) =>
       Dominates(g, d, t.new) /\ Dominates(g, d, t.other)
  /\ \A i \in 1 .. t.met : MetBy(g, idom, t, i)

Meeting(g, tr, t) ==
  /\ TreeUp(g, tr.idom)
  /\ t.at \in 1 .. Len(g.blocks) + 1
  /\ t.new = None => t.other = None /\ t.met = 0
  /\ t.new # None => Fingers(g, tr.idom, t)
  /\ ~ t.changed => \A b \in Nodes(g) \ {Entry} : b < t.at => SettledAt(g, tr.idom, b)
  /\ tr.df = [b \in Nodes(g) |-> {}]

LEMMA MeetingStarts ==
  ASSUME NEW g, IsGraph(g), NEW tr, NEW t, Fresh(g, tr, t)
  PROVE  TurnTyped(g, t) /\ TreeTyped(g, tr) /\ TreeUp(g, tr.idom)
<1>0. Entry \in Nodes(g) /\ Entry \in Reachable(g, {}) /\ Entry # None
  BY GraphFacts, ReachFacts, NoneIsNoNode
<1>1. TurnTyped(g, t)
  BY DEF Fresh, TurnTyped, AtEntry, Entry
<1>2. TreeTyped(g, tr) /\ IdomTyped(g, tr.idom) /\ tr.idom[Entry] = Entry
      /\ \A b \in Nodes(g) \ {Entry} : tr.idom[b] = None
  BY <1>0 DEF Fresh, TreeTyped, IdomTyped
<1>3. TreeUp(g, tr.idom)
  BY <1>0, <1>2 DEF TreeUp, Guessed, Dominates
<1> QED BY <1>1, <1>2, <1>3

LEMMA SkipKeeps ==
  ASSUME NEW g, IsGraph(g), NEW tr, TreeTyped(g, tr), NEW t, Meeting(g, tr, t),
         t.new = None, t.at \in Nodes(g),
         t.at = Entry \/ \A p \in ToSet(g.preds[t.at]) : ~ Guessed(tr.idom, p),
         NEW u, u.at = t.at + 1, u.met = 0, u.new = None, u.other = None, u.changed = t.changed
  PROVE  Meeting(g, tr, u)
<1>1. Nodes(g) = 1 .. Len(g.blocks) /\ Len(g.blocks) \in Nat
  BY GraphFacts
<1>2. u.at \in 1 .. Len(g.blocks) + 1
  BY <1>1
<1>3. ASSUME ~ u.changed, NEW b \in Nodes(g) \ {Entry}, b < u.at PROVE SettledAt(g, tr.idom, b)
  <2>1. CASE b = t.at
    BY <2>1, <1>3 DEF SettledAt
  <2>2. CASE b # t.at
    <3>1. b < t.at
      BY <2>2, <1>1, <1>3
    <3> QED BY <3>1, <1>3 DEF Meeting
  <2> QED BY <2>1, <2>2
<1> QED BY <1>2, <1>3 DEF Meeting

LEMMA FirstGuessKeeps ==
  ASSUME NEW g, IsGraph(g), NEW tr, TreeTyped(g, tr), NEW t, Meeting(g, tr, t),
         t.new = None, t.at \in Nodes(g) \ {Entry},
         NEW p \in ToSet(g.preds[t.at]), Guessed(tr.idom, p),
         NEW u, u.at = t.at, u.met = t.met, u.new = p, u.other = p, u.changed = t.changed
  PROVE  Meeting(g, tr, u)
<1>1. p \in Nodes(g) /\ t.at \in ToSet(g.succs[p]) /\ p # None
  BY GraphFacts, NoneIsNoNode
<1>2. p \in Reachable(g, {})
  BY <1>1 DEF Meeting, TreeUp
<1>3. t.at \in Reachable(g, {})
  BY <1>1, <1>2, ReachFacts
<1>4. u.met = 0 /\ 0 \in 0 .. Len(g.preds[t.at])
  <2>1. g.preds[t.at] \in Seq(Nodes(g))
    BY GraphFacts
  <2> QED BY <2>1 DEF Meeting
<1>5. Fingers(g, tr.idom, u)
  BY <1>1, <1>2, <1>3, <1>4, DominatesPreds DEF Fingers
<1> QED BY <1>1, <1>5 DEF Meeting

LEMMA MeetPredKeeps ==
  ASSUME NEW g, IsGraph(g), NEW tr, TreeTyped(g, tr), NEW t, Meeting(g, tr, t),
         t.new # None, t.new = t.other, t.met < Len(g.preds[t.at]),
         NEW p, p = g.preds[t.at][t.met + 1],
         NEW u, u.at = t.at, u.met = t.met + 1, u.new = t.new,
         u.other = (IF Guessed(tr.idom, p) THEN p ELSE t.other), u.changed = t.changed
  PROVE  Meeting(g, tr, u)
<1>1. Fingers(g, tr.idom, t) /\ IdomTyped(g, tr.idom)
  BY DEF Meeting, TreeUp
<1>2. t.at \in Reachable(g, {}) \ {Entry} /\ t.at \in Nodes(g) /\ t.met \in Nat
      /\ g.preds[t.at] \in Seq(Nodes(g))
  BY <1>1, ReachFacts, GraphFacts DEF Fingers
<1>3. t.met + 1 \in 1 .. Len(g.preds[t.at]) /\ u.met \in 0 .. Len(g.preds[t.at])
  BY <1>2
<1>4. p \in ToSet(g.preds[t.at]) /\ p \in Nodes(g) /\ t.at \in ToSet(g.succs[p])
  <2>1. p \in ToSet(g.preds[t.at])
    BY <1>2, <1>3 DEF ToSet
  <2> QED BY <2>1, <1>2, GraphFacts
<1>5. Guessed(tr.idom, p) => p \in Reachable(g, {})
  BY <1>4 DEF Meeting, TreeUp
<1>6. {u.new, u.other} \subseteq Nodes(g) /\ Guessed(tr.idom, u.new) /\ Guessed(tr.idom, u.other)
  BY <1>1, <1>4 DEF Fingers
<1>7. ASSUME NEW d \in Nodes(g), StrictlyDominates(g, d, u.at)
      PROVE  Dominates(g, d, u.new) /\ Dominates(g, d, u.other)
  <2>1. Dominates(g, d, t.new) /\ Dominates(g, d, t.other)
    BY <1>1, <1>7 DEF Fingers
  <2>2. Guessed(tr.idom, p) => Dominates(g, d, p)
    BY <1>4, <1>5, <1>7, DominatesPreds
  <2> QED BY <2>1, <2>2
<1>8. ASSUME NEW i \in 1 .. u.met PROVE MetBy(g, tr.idom, u, i)
  <2>1. CASE i = u.met
    <3>1. p \in Chain(g, tr.idom, p)
      BY <1>1, <1>4, ChainFacts
    <3> QED BY <3>1, <2>1 DEF MetBy
  <2>2. CASE i # u.met
    <3>1. i \in 1 .. t.met
      BY <2>2, <1>2
    <3>2. MetBy(g, tr.idom, t, i)
      BY <3>1, <1>1 DEF Fingers
    <3> QED BY <3>2 DEF MetBy
  <2> QED BY <2>1, <2>2
<1>9. Fingers(g, tr.idom, u)
  BY <1>2, <1>3, <1>6, <1>7, <1>8 DEF Fingers
<1> QED BY <1>9 DEF Meeting

(* A finger goes up only when it is not above the other, so what dominates *)
(* both dominates its parent.                                              *)
LEMMA GoesUp ==
  ASSUME IsGraph(flowGraph), SearchOK(flowGraph, dfs), dfs.stack = <<>>,
         NEW idom, TreeUp(flowGraph, idom),
         NEW f \in Nodes(flowGraph), Guessed(idom, f),
         NEW o \in Nodes(flowGraph), Guessed(idom, o), Below(f, o)
  PROVE  /\ idom[f] \in Nodes(flowGraph) /\ Guessed(idom, idom[f])
         /\ \A d \in Nodes(flowGraph) :
              Dominates(flowGraph, d, f) /\ Dominates(flowGraph, d, o) => Dominates(flowGraph, d, idom[f])
         /\ \A x \in Nodes(flowGraph) :
              f \in Chain(flowGraph, idom, x) => idom[f] \in Chain(flowGraph, idom, x)
<1> DEFINE g == flowGraph
<1>0. IdomTyped(g, idom)
  BY DEF TreeUp
<1>1. idom[f] \in Nodes(g) /\ Guessed(idom, idom[f])
  BY DEF TreeUp, IdomTyped, Guessed
<1>2. f \in Reachable(g, {}) /\ o \in Reachable(g, {})
  BY DEF TreeUp
<1>3. ASSUME NEW d \in Nodes(g), Dominates(g, d, f), Dominates(g, d, o)
      PROVE  Dominates(g, d, idom[f])
  <2>1. d # f
    <3>1. d = f => Rpo(f) <= Rpo(o)
      BY <1>2, <1>3, DominatorsLower
    <3>2. Rpo(f) \in Nat /\ Rpo(o) \in Nat
      BY <1>2, Numbers
    <3> QED BY <3>1, <3>2 DEF Below
  <2>2. StrictlyDominates(g, d, f)
    BY <2>1, <1>3 DEF Dominates
  <2> QED BY <2>2 DEF TreeUp
<1>4. ASSUME NEW x \in Nodes(g), f \in Chain(g, idom, x) PROVE idom[f] \in Chain(g, idom, x)
  BY <1>0, <1>4, ChainFacts DEF Upward
<1> QED BY <1>1, <1>3, <1>4

LEMMA ClimbKeeps ==
  ASSUME IsGraph(flowGraph), SearchOK(flowGraph, dfs), dfs.stack = <<>>,
         NEW t, Meeting(flowGraph, tree, t), t.new # None, t.new # t.other,
         NEW u, u.at = t.at, u.met = t.met, u.changed = t.changed,
         \/ Below(t.new, t.other) /\ u.new = tree.idom[t.new] /\ u.other = t.other
         \/ Below(t.other, t.new) /\ u.other = tree.idom[t.other] /\ u.new = t.new
  PROVE  Meeting(flowGraph, tree, u)
<1> DEFINE g    == flowGraph
           idom == tree.idom
<1>1. Fingers(g, idom, t) /\ TreeUp(g, idom)
  BY DEF Meeting
<1>2. t.new \in Nodes(g) /\ t.other \in Nodes(g) /\ Guessed(idom, t.new) /\ Guessed(idom, t.other)
  BY <1>1 DEF Fingers
<1>3. {u.new, u.other} \subseteq Nodes(g) /\ Guessed(idom, u.new) /\ Guessed(idom, u.other)
  BY <1>1, <1>2, GoesUp
<1>4. ASSUME NEW d \in Nodes(g), StrictlyDominates(g, d, u.at)
      PROVE  Dominates(g, d, u.new) /\ Dominates(g, d, u.other)
  <2>1. Dominates(g, d, t.new) /\ Dominates(g, d, t.other)
    BY <1>1, <1>4 DEF Fingers
  <2> QED BY <2>1, <1>1, <1>2, GoesUp
<1>5. ASSUME NEW i \in 1 .. u.met PROVE MetBy(g, idom, u, i)
  <2>1. MetBy(g, idom, t, i)
    BY <1>1, <1>5 DEF Fingers
  <2>2. g.preds[t.at] \in Seq(Nodes(g)) /\ t.met \in 0 .. Len(g.preds[t.at])
    BY <1>1, ReachFacts, GraphFacts DEF Fingers
  <2>3. g.preds[t.at][i] \in Nodes(g)
    BY <2>2
  <2>4. CASE Below(t.new, t.other) /\ u.new = idom[t.new] /\ u.other = t.other
    <3>1. t.new \in Chain(g, idom, g.preds[t.at][i]) => u.new \in Chain(g, idom, g.preds[t.at][i])
      BY <2>3, <2>4, <1>1, <1>2, GoesUp
    <3> QED BY <3>1, <2>1, <2>4 DEF MetBy
  <2>5. CASE Below(t.other, t.new) /\ u.other = idom[t.other] /\ u.new = t.new
    <3>1. t.other \in Chain(g, idom, g.preds[t.at][i]) => u.other \in Chain(g, idom, g.preds[t.at][i])
      BY <2>3, <2>5, <1>1, <1>2, GoesUp
    <3> QED BY <3>1, <2>1, <2>5 DEF MetBy
  <2> QED BY <2>4, <2>5
<1>6. Fingers(g, idom, u)
  BY <1>1, <1>3, <1>4, <1>5 DEF Fingers
<1>7. u.new # None
  BY <1>3, NoneIsNoNode
<1> QED BY <1>6, <1>7 DEF Meeting

LEMMA SetIdomKeeps ==
  ASSUME NEW g, IsGraph(g), NEW tr, TreeTyped(g, tr), NEW t, Meeting(g, tr, t),
         t.new # None, t.new = t.other, t.met = Len(g.preds[t.at]),
         NEW ts, ts = [tr EXCEPT !.idom[t.at] = t.new],
         NEW u, u.at = t.at + 1, u.met = 0, u.new = None, u.other = None,
         ~ u.changed => ~ t.changed /\ ts = tr
  PROVE  TreeTyped(g, ts) /\ Meeting(g, ts, u)
<1>1. Fingers(g, tr.idom, t) /\ TreeUp(g, tr.idom)
  BY DEF Meeting
<1>2. t.at \in Reachable(g, {}) \ {Entry} /\ t.at \in Nodes(g) /\ t.new \in Nodes(g)
      /\ Guessed(tr.idom, t.new) /\ t.new # None
  BY <1>1, ReachFacts DEF Fingers
<1>3. TreeTyped(g, ts) /\ ts.idom = [tr.idom EXCEPT ![t.at] = t.new] /\ ts.df = tr.df
  BY <1>2 DEF TreeTyped
<1>4. IdomTyped(g, ts.idom) /\ IdomTyped(g, tr.idom)
  BY <1>3 DEF TreeTyped, IdomTyped
<1>5. /\ ts.idom[t.at] = t.new
      /\ \A b \in Nodes(g) \ {t.at} : ts.idom[b] = tr.idom[b]
      /\ \A b \in Nodes(g) : Guessed(tr.idom, b) => Guessed(ts.idom, b)
  BY <1>2, <1>3, <1>4 DEF IdomTyped, Guessed
<1>6. TreeUp(g, ts.idom)
  <2>1. ts.idom[Entry] = Entry
    BY <1>1, <1>2, <1>5, GraphFacts DEF TreeUp
  <2>2. ASSUME NEW b \in Nodes(g), Guessed(ts.idom, b)
        PROVE  /\ b \in Reachable(g, {}) /\ Guessed(ts.idom, ts.idom[b])
               /\ \A d \in Nodes(g) : StrictlyDominates(g, d, b) => Dominates(g, d, ts.idom[b])
    <3>1. CASE b = t.at
      BY <3>1, <1>1, <1>2, <1>5 DEF Fingers
    <3>2. CASE b # t.at
      <4>1. Guessed(tr.idom, b) /\ ts.idom[b] = tr.idom[b] /\ tr.idom[b] \in Nodes(g)
        BY <3>2, <2>2, <1>4, <1>5 DEF Guessed, IdomTyped
      <4> QED BY <4>1, <1>1, <1>5 DEF TreeUp
    <3> QED BY <3>1, <3>2
  <2> QED BY <2>1, <2>2, <1>4 DEF TreeUp
<1>7. Nodes(g) = 1 .. Len(g.blocks) /\ Len(g.blocks) \in Nat
  BY GraphFacts
<1>8. ASSUME ~ u.changed, NEW b \in Nodes(g) \ {Entry}, b < u.at PROVE SettledAt(g, ts.idom, b)
  <2>1. ts = tr /\ tr.idom[t.at] = t.new
    BY <1>8, <1>5
  <2>2. CASE b = t.at
    <3>1. ASSUME NEW p \in ToSet(g.preds[b]), Guessed(tr.idom, p)
          PROVE  t.new \in Chain(g, tr.idom, p)
      <4>1. g.preds[b] \in Seq(Nodes(g))
        BY GraphFacts
      <4>2. PICK i \in 1 .. Len(g.preds[b]) : p = g.preds[b][i]
        BY <4>1 DEF ToSet
      <4>3. MetBy(g, tr.idom, t, i)
        BY <4>2, <2>2, <1>1 DEF Fingers
      <4> QED BY <4>2, <4>3, <2>2, <3>1 DEF MetBy
    <3> QED BY <3>1, <2>1, <2>2, <1>2 DEF SettledAt, Guessed
  <2>3. CASE b # t.at
    <3>1. b < t.at
      BY <2>3, <1>7, <1>8, <1>2
    <3> QED BY <3>1, <1>8, <2>1 DEF Meeting
  <2> QED BY <2>2, <2>3
<1>9. u.at \in 1 .. Len(g.blocks) + 1
  BY <1>2, <1>7
<1> QED BY <1>3, <1>6, <1>8, <1>9 DEF Meeting

-----------------------------------------------------------------------------
(* The frontiers.  A runner is at a dominator of the predecessor it was    *)
(* started from; of the dominators of the predecessors met, those that do  *)
(* not strictly dominate the block have it in their frontiers, or are      *)
(* still above the runner.                                                 *)

FrontierAt(g, df, b) ==
  \A x \in Reachable(g, {}) : b # Entry \/ Len(g.preds[b]) # 1 => (b \in df[x] <=> InFrontier(g, x, b))

RunBy(g, tr, t, i) ==
  g.preds[t.at][i] \in Reachable(g, {}) =>
    \A x \in Reachable(g, {}) :
      Dominates(g, x, g.preds[t.at][i]) /\ ~ StrictlyDominates(g, x, t.at) =>
        t.at \in tr.df[x] \/ (i = t.met /\ t.new # None /\ Dominates(g, x, t.new))

Runner(g, tr, t) ==
  /\ Len(g.preds[t.at]) < 2 => t.met = 0
  /\ t.met = 0 => t.new = None
  /\ \A x \in Reachable(g, {}) : t.at \in tr.df[x] => InFrontier(g, x, t.at)
  /\ \A i \in 1 .. t.met : RunBy(g, tr, t, i)
  /\ t.new \in Reachable(g, {}) =>
       /\ g.preds[t.at][t.met] \in Reachable(g, {}) /\ Dominates(g, t.new, g.preds[t.at][t.met])
       /\ t.at # Entry => Dominates(g, tr.idom[t.at], t.new)
  /\ t.new # None /\ g.preds[t.at][t.met] \in Reachable(g, {}) => t.new \in Reachable(g, {})

Running(g, tr, t) ==
  /\ IdomRight(g, tr.idom)
  /\ t.at \in 1 .. Len(g.blocks) + 1
  /\ \A b \in Reachable(g, {}) : b < t.at => FrontierAt(g, tr.df, b)
  /\ \A b, x \in Nodes(g) : b > t.at => b \notin tr.df[x]
  /\ t.at \in Nodes(g) => t.met \in 0 .. Len(g.preds[t.at])
  /\ t.at \in Reachable(g, {}) => Runner(g, tr, t)

(* The parents of what is reached.                                         *)
LEMMA IdomFacts ==
  ASSUME NEW g, IsGraph(g), NEW idom, IdomRight(g, idom), NEW b \in Nodes(g)
  PROVE  /\ idom[b] \in Reachable(g, {}) \union {None}
         /\ idom[b] = None <=> b \notin Reachable(g, {}) \ {Entry}
         /\ idom[b] # None =>
              /\ StrictlyDominates(g, idom[b], b)
              /\ \A c \in Reachable(g, {}) : StrictlyDominates(g, c, b) => Dominates(g, c, idom[b])
<1>1. CASE b \in Reachable(g, {}) \ {Entry}
  <2>1. IsIdom(g, idom[b], b)
    BY <1>1 DEF IdomRight
  <2>2. idom[b] \in Reachable(g, {})
    BY <2>1, <1>1, DominatorReached DEF IsIdom, Dominates
  <2>3. idom[b] # None
    BY <2>2, NoneIsNoNode, ReachFacts
  <2> QED BY <2>1, <2>2, <2>3, <1>1 DEF IsIdom
<1>2. CASE b \notin Reachable(g, {}) \ {Entry}
  BY <1>2 DEF IdomRight
<1> QED BY <1>1, <1>2

LEMMA RunningStarts ==
  ASSUME NEW g, IsGraph(g), NEW tr, tr.df = [b \in Nodes(g) |-> {}], IdomRight(g, tr.idom),
         NEW t, t.at = Entry, t.met = 0, t.new = None
  PROVE  Running(g, tr, t)
<1>1. Nodes(g) = 1 .. Len(g.blocks) /\ Len(g.blocks) \in Nat /\ Entry \in Nodes(g) /\ Entry = 1
      /\ g.preds[Entry] \in Seq(Nodes(g))
  BY GraphFacts DEF Entry
<1>2. Reachable(g, {}) \subseteq Nodes(g) /\ None \notin Reachable(g, {})
  BY ReachFacts, NoneIsNoNode
<1>3. t.at \in 1 .. Len(g.blocks) + 1 /\ t.met \in 0 .. Len(g.preds[t.at])
  BY <1>1
<1>4. \A b \in Reachable(g, {}) : ~ (b < t.at)
  BY <1>1, <1>2
<1>5. Runner(g, tr, t)
  BY <1>2 DEF Runner
<1> QED BY <1>3, <1>4, <1>5 DEF Running

(* What was met, and left behind by a runner that stopped, is in the       *)
(* frontiers.                                                              *)
LEMMA RunEnds ==
  ASSUME NEW g, IsGraph(g), NEW tr, NEW t, t.at \in Reachable(g, {}), IdomRight(g, tr.idom),
         Runner(g, tr, t), t.new \in {None, tr.idom[t.at]},
         NEW i \in 1 .. t.met, g.preds[t.at][i] \in Reachable(g, {}),
         NEW x \in Reachable(g, {}), Dominates(g, x, g.preds[t.at][i]), ~ StrictlyDominates(g, x, t.at)
  PROVE  t.at \in tr.df[x]
<1> SUFFICES ASSUME t.new # None, Dominates(g, x, t.new) PROVE FALSE
  <2>1. RunBy(g, tr, t, i)
    BY DEF Runner
  <2> QED BY <2>1 DEF RunBy
<1>1. t.at \in Nodes(g) /\ t.new = tr.idom[t.at]
  BY ReachFacts
<1>2. StrictlyDominates(g, t.new, t.at)
  BY <1>1, IdomFacts
<1> QED BY <1>2, DominatesTransitive DEF Dominates

LEMMA NextRunnerKeeps ==
  ASSUME NEW g, IsGraph(g), NEW tr, NEW t, Running(g, tr, t), t.at \in Nodes(g),
         Len(g.preds[t.at]) >= 2, t.new \in {None, tr.idom[t.at]}, t.met < Len(g.preds[t.at]),
         NEW u, u.at = t.at, u.met = t.met + 1, u.new = g.preds[t.at][t.met + 1]
  PROVE  Running(g, tr, u) /\ u.new \in Nodes(g)
<1> DEFINE p == g.preds[t.at][t.met + 1]
<1>1. t.met \in Nat /\ g.preds[t.at] \in Seq(Nodes(g)) /\ IdomRight(g, tr.idom)
      /\ Len(g.preds[t.at]) \in Nat
  BY GraphFacts DEF Running
<1>2. t.met + 1 \in 1 .. Len(g.preds[t.at]) /\ u.met \in 0 .. Len(g.preds[t.at]) /\ u.met # 0
  BY <1>1
<1>3. p \in ToSet(g.preds[t.at]) /\ p \in Nodes(g) /\ t.at \in ToSet(g.succs[p]) /\ p # None
  <2>1. p \in ToSet(g.preds[t.at]) /\ p \in Nodes(g)
    BY <1>1, <1>2 DEF ToSet
  <2> QED BY <2>1, GraphFacts, NoneIsNoNode
<1> HIDE DEF p
<1>4. u.new = p /\ g.preds[u.at][u.met] = p
  BY DEF p
<1>5. ASSUME t.at \in Reachable(g, {}) PROVE Runner(g, tr, u)
  <2>1. Runner(g, tr, t)
    BY <1>5 DEF Running
  <2>2. ASSUME NEW i \in 1 .. u.met PROVE RunBy(g, tr, u, i)
    <3>1. CASE i = u.met
      BY <3>1, <1>3, <1>4 DEF RunBy
    <3>2. CASE i # u.met
      <4>1. i \in 1 .. t.met
        BY <3>2, <1>1
      <4> QED BY <4>1, <2>1, <1>1, <1>5, RunEnds DEF RunBy
    <3> QED BY <3>1, <3>2
  <2>3. ASSUME p \in Reachable(g, {}), t.at # Entry PROVE Dominates(g, tr.idom[t.at], p)
    <3>1. StrictlyDominates(g, tr.idom[t.at], t.at)
      BY <1>1, <1>5, <2>3, IdomFacts
    <3> QED BY <3>1, <1>3, <2>3, DominatesPreds
  <2>4. Dominates(g, p, p)
    BY DEF Dominates
  <2>5. \A x \in Reachable(g, {}) : u.at \in tr.df[x] => InFrontier(g, x, u.at)
    BY <2>1 DEF Runner
  <2>6. ~ (Len(g.preds[u.at]) < 2)
    BY <1>1
  <2> QED BY <2>2, <2>3, <2>4, <2>5, <2>6, <1>2, <1>3, <1>4 DEF Runner
<1> QED BY <1>2, <1>3, <1>4, <1>5 DEF Running

LEMMA RunUpKeeps ==
  ASSUME NEW g, IsGraph(g), NEW tr, TreeTyped(g, tr), NEW t, Running(g, tr, t), t.at \in Nodes(g),
         t.new \in Nodes(g), t.new \notin {None, tr.idom[t.at]},
         NEW ts, ts = [tr EXCEPT !.df[t.new] = @ \union {t.at}],
         NEW u, u.at = t.at, u.met = t.met, u.new = tr.idom[t.new]
  PROVE  TreeTyped(g, ts) /\ Running(g, ts, u) /\ u.new \in Nodes(g) \union {None}
<1> DEFINE R == Reachable(g, {})
           w == t.new
           p == g.preds[t.at][t.met]
<1> USE DEF Dominates
<1>1. IdomRight(g, tr.idom) /\ R \subseteq Nodes(g) /\ None \notin R
  BY ReachFacts, NoneIsNoNode DEF Running
<1>2. /\ TreeTyped(g, ts) /\ ts.idom = tr.idom
      /\ ts.df[w] = tr.df[w] \union {t.at}
      /\ \A x \in Nodes(g) \ {w} : ts.df[x] = tr.df[x]
  BY DEF TreeTyped
<1>3. u.new \in Nodes(g) \union {None}
  BY <1>1, IdomFacts
<1> HIDE DEF w, p
<1>4. w \in Nodes(g) /\ w # None /\ w # tr.idom[t.at] /\ u.new = tr.idom[w] /\ t.new = w
      /\ g.preds[t.at][t.met] = p /\ g.preds[u.at][u.met] = p
  BY DEF w, p
<1>5. ASSUME t.at \in R PROVE Runner(g, ts, u)
  <2>1. Runner(g, tr, t)
    BY <1>5 DEF Running
  <2>2. t.met # 0
    BY <2>1, <1>4 DEF Runner
  <2>3. CASE w \notin R
    <3>1. p \notin R /\ u.new = None /\ u.new \notin R
      BY <2>1, <2>3, <1>1, <1>4, IdomFacts DEF Runner
    <3>2. \A x \in R : ts.df[x] = tr.df[x]
      BY <2>3, <1>1, <1>2
    <3>3. ASSUME NEW i \in 1 .. u.met PROVE RunBy(g, ts, u, i)
      <4>1. RunBy(g, tr, t, i)
        BY <2>1 DEF Runner
      <4>2. CASE i = t.met
        BY <4>2, <3>1, <1>4 DEF RunBy
      <4>3. CASE i # t.met
        BY <4>1, <4>3, <3>2 DEF RunBy
      <4> QED BY <4>2, <4>3
    <3> QED BY <2>1, <3>1, <3>2, <3>3 DEF Runner
  <2>4. CASE w \in R
    <3>1. p \in R /\ Dominates(g, w, p) /\ (t.at # Entry => Dominates(g, tr.idom[t.at], w))
      BY <2>1, <2>4, <1>4 DEF Runner
    <3>2. ~ StrictlyDominates(g, w, t.at)
      <4> SUFFICES ASSUME StrictlyDominates(g, w, t.at) PROVE FALSE
        OBVIOUS
      <4>1. t.at # Entry
        BY <1>5, DominatorReached DEF StrictlyDominates
      <4>2. tr.idom[t.at] \in R /\ Dominates(g, w, tr.idom[t.at])
        BY <4>1, <1>1, <1>5, <2>4, IdomFacts
      <4>3. StrictlyDominates(g, tr.idom[t.at], w)
        BY <4>1, <3>1, <1>4
      <4> QED BY <4>2, <4>3, <2>4, StrictlyAntisymmetric
    <3>3. InFrontier(g, w, t.at)
      <4>1. p \in ToSet(g.preds[t.at])
        <5>1. g.preds[t.at] \in Seq(Nodes(g)) /\ t.met \in 0 .. Len(g.preds[t.at])
          BY GraphFacts DEF Running
        <5>2. t.met \in DOMAIN g.preds[t.at]
          BY <5>1, <2>2
        <5> QED BY <5>2, <1>4 DEF ToSet
      <4> QED BY <4>1, <3>1, <3>2 DEF InFrontier
    <3>4. \A x \in R : u.at \in ts.df[x] => InFrontier(g, x, u.at)
      BY <3>3, <2>1, <1>1, <1>2 DEF Runner
    <3>5. ASSUME NEW x \in R, StrictlyDominates(g, x, w)
          PROVE  u.new # None /\ Dominates(g, x, u.new)
      <4>1. w # Entry
        BY <3>5, <2>4, DominatorReached DEF StrictlyDominates
      <4> QED BY <4>1, <3>5, <2>4, <1>1, <1>4, IdomFacts
    <3>6. ASSUME NEW i \in 1 .. u.met PROVE RunBy(g, ts, u, i)
      <4>1. RunBy(g, tr, t, i)
        BY <2>1 DEF Runner
      <4>2. \A x \in R : tr.df[x] \subseteq ts.df[x]
        BY <1>1, <1>2
      <4>3. t.at \in ts.df[w]
        BY <1>2
      <4> QED BY <4>1, <4>2, <4>3, <3>5, <1>4 DEF RunBy
    <3>7. ASSUME u.new \in R
          PROVE  Dominates(g, u.new, p) /\ (u.at # Entry => Dominates(g, ts.idom[u.at], u.new))
      <4>1. u.new # None /\ w # Entry /\ StrictlyDominates(g, u.new, w)
        BY <3>7, <1>1, <1>4, IdomFacts
      <4>2. Dominates(g, u.new, p)
        BY <4>1, <3>1, DominatesTransitive
      <4>3. ASSUME u.at # Entry PROVE Dominates(g, tr.idom[u.at], u.new)
        <5>1. StrictlyDominates(g, tr.idom[t.at], w) /\ tr.idom[t.at] \in R
          BY <4>3, <3>1, <1>4, <1>1, <1>5, IdomFacts
        <5> QED BY <5>1, <4>1, <1>1, <1>4, IdomFacts
      <4> QED BY <4>2, <4>3, <1>2
    <3>8. u.new # None => u.new \in R
      BY <1>1, <1>4, IdomFacts
    <3>9. (Len(g.preds[u.at]) < 2 => u.met = 0) /\ u.met # 0
      BY <2>1, <2>2 DEF Runner
    <3> QED BY <3>1, <3>4, <3>6, <3>7, <3>8, <3>9, <1>4 DEF Runner
  <2> QED BY <2>3, <2>4
<1>6. Nodes(g) \subseteq Nat
  BY GraphFacts
<1>7. ASSUME NEW b \in R, b < u.at PROVE FrontierAt(g, ts.df, b)
  <2>1. FrontierAt(g, tr.df, b) /\ b # t.at
    BY <1>1, <1>6, <1>7 DEF Running
  <2>2. \A x \in R : b \in ts.df[x] <=> b \in tr.df[x]
    BY <2>1, <1>1, <1>2
  <2> QED BY <2>1, <2>2 DEF FrontierAt
<1>8. ASSUME NEW b \in Nodes(g), NEW x \in Nodes(g), b > u.at PROVE b \notin ts.df[x]
  <2>1. b \notin tr.df[x] /\ b # t.at
    BY <1>6, <1>8 DEF Running
  <2> QED BY <2>1, <1>2
<1> QED BY <1>2, <1>3, <1>5, <1>7, <1>8 DEF Running

(* A block with one predecessor is in no frontier, unless it is the entry. *)
LEMMA OnePredecessor ==
  ASSUME IsGraph(flowGraph), SearchOK(flowGraph, dfs), dfs.stack = <<>>,
         NEW b \in Reachable(flowGraph, {}) \ {Entry}, Len(flowGraph.preds[b]) < 2,
         NEW x \in Reachable(flowGraph, {})
  PROVE  ~ InFrontier(flowGraph, x, b)
<1> DEFINE g == flowGraph
           R == Reachable(g, {})
<1> SUFFICES ASSUME InFrontier(g, x, b) PROVE FALSE
  OBVIOUS
<1>1. PICK p \in ToSet(g.preds[b]) \intersect R : Dominates(g, x, p)
  BY DEF InFrontier
<1>2. b \in Nodes(g) /\ g.preds[b] \in Seq(Nodes(g))
  BY ReachFacts, GraphFacts
<1>3. ToSet(g.preds[b]) = {p}
  <2>1. \A q \in ToSet(g.preds[b]) : q = g.preds[b][1]
    BY <1>2 DEF ToSet
  <2> QED BY <2>1, <1>1
<1>4. ASSUME NEW q \in R, b \in ToSet(g.succs[q]) PROVE q = p
  <2>1. q \in Nodes(g)
    BY ReachFacts
  <2> QED BY <2>1, <1>2, <1>3, <1>4, GraphFacts
<1>5. x = b
  <2> SUFFICES ASSUME x # b PROVE FALSE
    OBVIOUS
  <2>1. StrictlyDominates(g, x, b)
    BY <1>1, <1>4, PredsDominate
  <2> QED BY <2>1 DEF InFrontier
<1>6. PICK q \in R : Edge(g, q, b) /\ Rpo(q) < Rpo(b)
  BY Numbers
<1>7. q = p
  BY <1>4, <1>6 DEF Edge
<1>8. Rpo(b) <= Rpo(p) /\ Rpo(b) \in Nat /\ Rpo(p) \in Nat
  BY <1>1, <1>5, DominatorsLower, Numbers
<1> QED BY <1>6, <1>7, <1>8

LEMMA NotBelowTwo ==
  ASSUME NEW n \in Nat, n # 0, n # 1
  PROVE  ~ (n < 2)
OBVIOUS

LEMMA RunOverKeeps ==
  ASSUME IsGraph(flowGraph), SearchOK(flowGraph, dfs), dfs.stack = <<>>,
         NEW t, Running(flowGraph, tree, t), t.at \in Nodes(flowGraph),
         \/ Len(flowGraph.preds[t.at]) < 2
         \/ t.new \in {None, tree.idom[t.at]} /\ t.met = Len(flowGraph.preds[t.at]),
         NEW u, u.at = t.at + 1, u.met = 0, u.new = None
  PROVE  Running(flowGraph, tree, u)
<1> DEFINE g == flowGraph
           R == Reachable(g, {})
<1>1. Nodes(g) = 1 .. Len(g.blocks) /\ Len(g.blocks) \in Nat /\ R \subseteq Nodes(g)
      /\ None \notin R /\ IdomRight(g, tree.idom)
  BY GraphFacts, ReachFacts, NoneIsNoNode DEF Running
<1>2. u.at \in 1 .. Len(g.blocks) + 1
  BY <1>1
<1>3. ASSUME t.at \in R PROVE FrontierAt(g, tree.df, t.at)
  <2>1. Runner(g, tree, t) /\ g.preds[t.at] \in Seq(Nodes(g))
    BY <1>3, GraphFacts DEF Running
  <2> SUFFICES ASSUME NEW x \in R, t.at # Entry \/ Len(g.preds[t.at]) # 1,
                      InFrontier(g, x, t.at)
               PROVE  t.at \in tree.df[x]
    BY <2>1 DEF FrontierAt, Runner
  <2>2. PICK p \in ToSet(g.preds[t.at]) \intersect R : Dominates(g, x, p)
    BY DEF InFrontier
  <2>3. ~ StrictlyDominates(g, x, t.at)
    BY DEF InFrontier
  <2>4. PICK i \in 1 .. Len(g.preds[t.at]) : p = g.preds[t.at][i]
    BY <2>1, <2>2 DEF ToSet
  <2>5. ~ (Len(g.preds[t.at]) < 2)
    <3>1. CASE t.at = Entry
      <4>1. Len(g.preds[t.at]) \in Nat /\ Len(g.preds[t.at]) # 0
        BY <2>1, <2>4
      <4>2. Len(g.preds[t.at]) # 1
        BY <3>1
      <4> QED BY <4>1, <4>2, NotBelowTwo
    <3>2. CASE t.at # Entry
      BY <3>2, <1>3, OnePredecessor
    <3> QED BY <3>1, <3>2
  <2> QED BY <2>1, <2>2, <2>3, <2>4, <2>5, <1>1, <1>3, RunEnds
<1>4. ASSUME NEW b \in R, b < u.at PROVE FrontierAt(g, tree.df, b)
  <2>1. CASE b = t.at
    BY <2>1, <1>3
  <2>2. CASE b # t.at
    <3>1. b < t.at
      BY <2>2, <1>1, <1>4
    <3> QED BY <3>1 DEF Running
  <2> QED BY <2>1, <2>2
<1>5. ASSUME NEW b \in Nodes(g), NEW x \in Nodes(g), b >= u.at PROVE b \notin tree.df[x]
  <2>1. b > t.at
    BY <1>1, <1>5
  <2> QED BY <2>1 DEF Running
<1>6. ASSUME u.at \in R PROVE Runner(g, tree, u)
  <2>1. \A x \in R : u.at \notin tree.df[x]
    BY <1>1, <1>5, <1>6
  <2> QED BY <2>1, <1>1 DEF Runner
<1>7. u.at \in Nodes(g) => u.met \in 0 .. Len(g.preds[u.at])
  <2>1. u.at \in Nodes(g) => g.preds[u.at] \in Seq(Nodes(g))
    BY GraphFacts
  <2> QED BY <2>1
<1>8. \A b, x \in Nodes(g) : b > u.at => b \notin tree.df[x]
  BY <1>1, <1>5
<1> QED BY <1>1, <1>2, <1>4, <1>6, <1>7, <1>8 DEF Running

-----------------------------------------------------------------------------
DomInv ==
  /\ IsGraph(flowGraph) /\ SearchOK(flowGraph, dfs)
  /\ TurnTyped(flowGraph, turn) /\ TreeTyped(flowGraph, tree)
  /\ Phase("numbering") => Fresh(flowGraph, tree, turn)
  /\ Phase("meeting") => dfs.stack = <<>> /\ Meeting(flowGraph, tree, turn)
  /\ turn.phase \in {"running", "built"} => dfs.stack = <<>> /\ Running(flowGraph, tree, turn)
  /\ Phase("built") => turn.at = Len(flowGraph.blocks) + 1

LEMMA MeetingNext ==
  ASSUME DomInv, UNCHANGED <<flowGraph, dfs>>, dfs.stack = <<>>, turn'.phase = "meeting",
         TurnTyped(flowGraph, turn'), TreeTyped(flowGraph, tree'), Meeting(flowGraph, tree', turn')
  PROVE  DomInv'
BY DEF DomInv, Phase

LEMMA RunningNext ==
  ASSUME DomInv, UNCHANGED <<flowGraph, dfs>>, dfs.stack = <<>>, turn'.phase = "running",
         TurnTyped(flowGraph, turn'), TreeTyped(flowGraph, tree'), Running(flowGraph, tree', turn')
  PROVE  DomInv'
BY DEF DomInv, Phase

LEMMA NextBlockIs ==
  ASSUME TurnTyped(flowGraph, turn)
  PROVE  /\ NextBlock = [phase |-> turn.phase, at |-> turn.at + 1, met |-> 0, new |-> None,
                         other |-> None, changed |-> turn.changed]
         /\ TurnTyped(flowGraph, NextBlock)
<1>1. NextBlock = [phase |-> turn.phase, at |-> turn.at + 1, met |-> 0, new |-> None,
                   other |-> None, changed |-> turn.changed]
  <2>1. PICK p, a, m, n, o, c :
          turn = [phase |-> p, at |-> a, met |-> m, new |-> n, other |-> o, changed |-> c]
    BY DEF TurnTyped
  <2>2. NextBlock = [[phase |-> p, at |-> a, met |-> m, new |-> n, other |-> o, changed |-> c]
                     EXCEPT !.at = @ + 1, !.met = 0, !.new = None, !.other = None]
    BY <2>1, Zenon DEF NextBlock
  <2>3. NextBlock = [phase |-> p, at |-> a + 1, met |-> 0, new |-> None, other |-> None, changed |-> c]
    BY <2>2
  <2>4. turn.phase = p /\ turn.at = a /\ turn.changed = c
    BY <2>1
  <2> QED BY <2>3, <2>4
<1>2. turn.at + 1 \in Nat
  BY DEF TurnTyped
<1> QED BY <1>1, <1>2 DEF TurnTyped

LEMMA DomStep ==
  ASSUME DomInv, BuildStep
  PROVE  DomInv'
<1> DEFINE g == flowGraph
<1>1. IsGraph(g) /\ SearchOK(g, dfs) /\ TurnTyped(g, turn) /\ TreeTyped(g, tree)
  BY DEF DomInv
<1>2. Nodes(g) = 1 .. Len(g.blocks) /\ Len(g.blocks) \in Nat /\ None \notin Nodes(g)
  BY <1>1, GraphFacts, NoneIsNoNode
<1>3. Phase("meeting") => dfs.stack = <<>> /\ Meeting(g, tree, turn)
  BY DEF DomInv
<1>4. Phase("running") => dfs.stack = <<>> /\ Running(g, tree, turn)
  BY DEF DomInv, Phase
<1>5. turn.at \in Nodes(g) => g.preds[turn.at] \in Seq(Nodes(g)) /\ PredsAt \in Seq(Nodes(g))
                             /\ PredsAt = g.preds[turn.at]
  BY <1>1, GraphFacts DEF PredsAt
<1>6. CASE Visit
  <2>1. UNCHANGED <<flowGraph, tree, turn>> /\ Phase("numbering")
    BY <1>6 DEF Visit
  <2>2. SearchOK(g, dfs')
    BY <1>1, <1>6, VisitKeeps
  <2> QED BY <2>1, <2>2 DEF DomInv, Phase
<1>7. CASE Numbered
  <2>1. UNCHANGED <<flowGraph, dfs, tree>> /\ dfs.stack = <<>> /\ Fresh(g, tree, turn)
        /\ turn' = [turn EXCEPT !.phase = "meeting"]
    BY <1>7 DEF Numbered, DomInv
  <2>2. TurnTyped(g, turn') /\ turn'.phase = "meeting"
    BY <2>1, <1>1 DEF TurnTyped
  <2>3. turn'.at = 1 /\ turn'.new = None /\ turn'.other = None /\ turn'.met = 0 /\ ~ turn'.changed
    BY <2>1 DEF Fresh, AtEntry, Entry
  <2>4. Meeting(g, tree, turn')
    <3>1. TreeUp(g, tree.idom) /\ tree.df = [b \in Nodes(g) |-> {}]
      BY <1>1, <2>1, MeetingStarts DEF Fresh
    <3>2. \A b \in Nodes(g) : ~ (b < 1)
      BY <1>2
    <3>3. 1 \in 1 .. Len(g.blocks) + 1
      BY <1>2
    <3> QED BY <2>3, <3>1, <3>2, <3>3 DEF Meeting
  <2> QED BY <1>1, <2>1, <2>2, <2>4, MeetingNext
<1>8. CASE Skip
  <2>1. /\ UNCHANGED <<flowGraph, dfs, tree>> /\ Phase("meeting") /\ turn.at \in Nodes(g)
        /\ turn.new = None /\ (turn.at = Entry \/ Ready = {}) /\ turn' = NextBlock
    BY <1>8 DEF Skip, InPass
  <2>2. /\ turn'.at = turn.at + 1 /\ turn'.met = 0 /\ turn'.new = None /\ turn'.other = None
        /\ turn'.changed = turn.changed /\ turn'.phase = "meeting" /\ TurnTyped(g, turn')
    BY <1>1, <2>1, NextBlockIs DEF Phase
  <2>3. turn.at = Entry \/ \A p \in ToSet(g.preds[turn.at]) : ~ Guessed(tree.idom, p)
    BY <1>5, <2>1 DEF Ready, ToSet, Processed, Guessed
  <2>4. Meeting(g, tree, turn')
    BY <1>1, <1>3, <2>1, <2>2, <2>3, SkipKeeps
  <2> QED BY <1>1, <1>3, <2>1, <2>2, <2>4, MeetingNext
<1>9. CASE FirstGuess
  <2> DEFINE p == PredsAt[Min(Ready)]
  <2>1. /\ UNCHANGED <<flowGraph, dfs, tree>> /\ Phase("meeting") /\ turn.at \in Nodes(g) \ {Entry}
        /\ turn.new = None /\ Ready # {} /\ turn' = [turn EXCEPT !.new = p, !.other = p]
    BY <1>9 DEF FirstGuess, InPass
  <2>2. Ready \subseteq Nat
    BY <1>5, <2>1 DEF Ready
  <2>3. Min(Ready) \in Ready
    BY <2>1, <2>2, MinFacts
  <2> HIDE DEF p
  <2>n. PICK n \in Ready : p = PredsAt[n]
    BY <2>3 DEF p
  <2>4. p \in ToSet(g.preds[turn.at]) /\ Guessed(tree.idom, p) /\ p \in Nodes(g)
    <3>1. n \in DOMAIN PredsAt /\ Guessed(tree.idom, p)
      BY <2>n DEF Ready, Processed, Guessed
    <3> QED BY <3>1, <2>n, <2>1, <1>5 DEF ToSet
  <2>5. /\ turn'.at = turn.at /\ turn'.met = turn.met /\ turn'.new = p /\ turn'.other = p
        /\ turn'.changed = turn.changed /\ turn'.phase = "meeting" /\ TurnTyped(g, turn')
    BY <1>1, <2>1, <2>4 DEF TurnTyped, Phase
  <2>6. Meeting(g, tree, turn')
    BY <1>1, <1>3, <2>1, <2>4, <2>5, FirstGuessKeeps
  <2> QED BY <1>1, <1>3, <2>1, <2>5, <2>6, MeetingNext
<1>10. CASE MeetPred
  <2> DEFINE p == PredsAt[turn.met + 1]
             o == IF Guessed(tree.idom, p) THEN p ELSE turn.other
  <2>1. /\ UNCHANGED <<flowGraph, dfs, tree>> /\ Phase("meeting") /\ turn.at \in Nodes(g)
        /\ turn.new # None /\ turn.new = turn.other /\ turn.met < Len(PredsAt)
        /\ turn' = [turn EXCEPT !.met = @ + 1, !.other = o]
    BY <1>10 DEF MeetPred, Met, InPass, Processed, Guessed
  <2>2. turn.met + 1 \in 1 .. Len(PredsAt) /\ turn.met + 1 \in Nat
    BY <1>1, <1>5, <2>1 DEF TurnTyped
  <2>3. p \in Nodes(g) /\ p = g.preds[turn.at][turn.met + 1]
    BY <1>5, <2>1, <2>2
  <2>4. o \in Nodes(g) \union {None}
    BY <1>1, <2>3 DEF TurnTyped
  <2> HIDE DEF p, o
  <2>5. /\ turn'.at = turn.at /\ turn'.met = turn.met + 1 /\ turn'.new = turn.new /\ turn'.other = o
        /\ turn'.changed = turn.changed /\ turn'.phase = "meeting" /\ TurnTyped(g, turn')
    BY <1>1, <2>1, <2>2, <2>4 DEF TurnTyped, Phase
  <2>6. turn.met < Len(g.preds[turn.at])
    BY <1>5, <2>1
  <2>7. Meeting(g, tree, turn')
    <3>1. turn'.other = (IF Guessed(tree.idom, p) THEN p ELSE turn.other)
      BY <2>5 DEF o
    <3> QED BY <1>1, <1>3, <2>1, <2>3, <2>5, <2>6, <3>1, MeetPredKeeps
  <2> QED BY <1>1, <1>3, <2>1, <2>5, <2>7, MeetingNext
<1>11. CASE Climb
  <2>1. /\ UNCHANGED <<flowGraph, dfs, tree>> /\ Phase("meeting") /\ turn.at \in Nodes(g)
        /\ turn.new # turn.other
        /\ \/ Below(turn.new, turn.other) /\ turn' = [turn EXCEPT !.new = tree.idom[turn.new]]
           \/ Below(turn.other, turn.new) /\ turn' = [turn EXCEPT !.other = tree.idom[turn.other]]
    BY <1>11 DEF Climb, InPass
  <2>2. turn.new # None
    BY <1>3, <2>1 DEF Meeting
  <2>3. Fingers(g, tree.idom, turn) /\ TreeUp(g, tree.idom)
    BY <1>3, <2>1, <2>2 DEF Meeting
  <2>4. tree.idom[turn.new] \in Nodes(g) /\ tree.idom[turn.other] \in Nodes(g)
    BY <2>3 DEF Fingers, TreeUp, IdomTyped, Guessed
  <2>5. /\ turn'.at = turn.at /\ turn'.met = turn.met /\ turn'.changed = turn.changed
        /\ turn'.phase = "meeting" /\ TurnTyped(g, turn')
        /\ \/ Below(turn.new, turn.other) /\ turn'.new = tree.idom[turn.new] /\ turn'.other = turn.other
           \/ Below(turn.other, turn.new) /\ turn'.other = tree.idom[turn.other] /\ turn'.new = turn.new
    <3>1. CASE Below(turn.new, turn.other) /\ turn' = [turn EXCEPT !.new = tree.idom[turn.new]]
      BY <1>1, <2>1, <2>4, <3>1 DEF TurnTyped, Phase
    <3>2. CASE Below(turn.other, turn.new) /\ turn' = [turn EXCEPT !.other = tree.idom[turn.other]]
      BY <1>1, <2>1, <2>4, <3>2 DEF TurnTyped, Phase
    <3> QED BY <2>1, <3>1, <3>2
  <2>6. Meeting(g, tree, turn')
    BY <1>1, <1>3, <2>1, <2>2, <2>5, ClimbKeeps
  <2> QED BY <1>1, <1>3, <2>1, <2>5, <2>6, MeetingNext
<1>12. CASE SetIdom
  <2>1. /\ UNCHANGED <<flowGraph, dfs>> /\ Phase("meeting") /\ turn.at \in Nodes(g)
        /\ turn.new # None /\ turn.new = turn.other /\ turn.met = Len(PredsAt)
        /\ tree' = [tree EXCEPT !.idom[turn.at] = turn.new]
        /\ turn' = [NextBlock EXCEPT !.changed = NextBlock.changed \/ tree' # tree]
    BY <1>12 DEF SetIdom, Met, InPass
  <2>2. /\ NextBlock = [phase |-> "meeting", at |-> turn.at + 1, met |-> 0, new |-> None,
                        other |-> None, changed |-> turn.changed]
        /\ TurnTyped(g, NextBlock)
    BY <1>1, <2>1, NextBlockIs DEF Phase
  <2>3. /\ turn'.at = turn.at + 1 /\ turn'.met = 0 /\ turn'.new = None /\ turn'.other = None
        /\ turn'.phase = "meeting" /\ turn'.changed = (turn.changed \/ tree' # tree)
    BY <2>1, <2>2
  <2>4. TurnTyped(g, turn')
    <3>1. turn' = [NextBlock EXCEPT !.changed = turn.changed \/ tree' # tree]
      BY <2>1, <2>2
    <3>2. (turn.changed \/ tree' # tree) \in BOOLEAN
      BY <1>1 DEF TurnTyped
    <3> QED BY <2>2, <3>1, <3>2 DEF TurnTyped
  <2>5. TreeTyped(g, tree') /\ Meeting(g, tree', turn')
    <3>1. turn.met = Len(g.preds[turn.at])
      BY <2>1, <1>5
    <3>2. ~ turn'.changed => ~ turn.changed /\ tree' = tree
      BY <2>3
    <3> QED BY <1>1, <1>3, <2>1, <2>3, <3>1, <3>2, SetIdomKeeps
  <2> QED BY <1>1, <1>3, <2>1, <2>3, <2>4, <2>5, MeetingNext
<1>13. CASE PassAgain
  <2>1. UNCHANGED <<flowGraph, dfs, tree>> /\ Phase("meeting") /\ turn' = [AtEntry EXCEPT !.phase = "meeting"]
    BY <1>13 DEF PassAgain, PassOver
  <2>2. /\ turn'.at = 1 /\ turn'.met = 0 /\ turn'.new = None /\ turn'.other = None
        /\ turn'.phase = "meeting" /\ TurnTyped(g, turn')
    BY <2>1 DEF AtEntry, Entry, TurnTyped
  <2>3. Meeting(g, tree, turn')
    <3>1. \A b \in Nodes(g) : ~ (b < 1)
      BY <1>2
    <3>2. 1 \in 1 .. Len(g.blocks) + 1
      BY <1>2
    <3> QED BY <1>3, <2>1, <2>2, <3>1, <3>2 DEF Meeting
  <2> QED BY <1>1, <1>3, <2>1, <2>2, <2>3, MeetingNext
<1>14. CASE Settled
  <2>1. /\ UNCHANGED <<flowGraph, dfs>> /\ Phase("meeting") /\ turn.at \notin Nodes(g) /\ ~ turn.changed
        /\ tree' = [tree EXCEPT !.idom[Entry] = None] /\ turn' = [AtEntry EXCEPT !.phase = "running"]
    BY <1>14 DEF Settled, PassOver
  <2>2. TreeTyped(g, tree') /\ tree'.idom = [tree.idom EXCEPT ![Entry] = None] /\ tree'.df = tree.df
    BY <1>1, <2>1 DEF TreeTyped
  <2>3. /\ turn'.at = Entry /\ turn'.met = 0 /\ turn'.new = None /\ turn'.phase = "running"
        /\ TurnTyped(g, turn')
    BY <2>1 DEF AtEntry, Entry, TurnTyped
  <2>4. TreeUp(g, tree.idom) /\ \A b \in Nodes(g) \ {Entry} : SettledAt(g, tree.idom, b)
    <3>1. turn.at \in 1 .. Len(g.blocks) + 1 /\ Meeting(g, tree, turn)
      BY <1>3, <2>1 DEF Meeting
    <3>2. \A b \in Nodes(g) : b < turn.at
      BY <1>2, <2>1, <3>1
    <3> QED BY <2>1, <3>1, <3>2 DEF Meeting
  <2>5. IdomRight(g, tree'.idom)
    BY <1>1, <1>3, <2>1, <2>2, <2>4, SettledRight
  <2>6. tree'.df = [b \in Nodes(g) |-> {}]
    BY <1>3, <2>1, <2>2 DEF Meeting
  <2>7. Running(g, tree', turn')
    BY <1>1, <2>3, <2>5, <2>6, RunningStarts
  <2> QED BY <1>1, <1>3, <2>1, <2>2, <2>3, <2>7, RunningNext
<1>15. CASE NextRunner
  <2> DEFINE p == PredsAt[turn.met + 1]
  <2>1. /\ UNCHANGED <<flowGraph, dfs, tree>> /\ Phase("running") /\ turn.at \in Nodes(g)
        /\ Len(PredsAt) >= 2 /\ turn.new \in {None, tree.idom[turn.at]} /\ turn.met < Len(PredsAt)
        /\ turn' = [turn EXCEPT !.met = @ + 1, !.new = p]
    BY <1>15 DEF NextRunner, InPass, Stopping
  <2> HIDE DEF p
  <2>2. turn'.at = turn.at /\ turn'.met = turn.met + 1 /\ turn'.new = p /\ turn'.phase = "running"
    BY <1>1, <2>1 DEF TurnTyped, Phase
  <2>3. Running(g, tree, turn') /\ turn'.new \in Nodes(g)
    <3>1. p = g.preds[turn.at][turn.met + 1] /\ Len(g.preds[turn.at]) >= 2 /\ turn.met < Len(g.preds[turn.at])
      BY <1>5, <2>1 DEF p
    <3> QED BY <1>1, <1>4, <2>1, <2>2, <3>1, NextRunnerKeeps
  <2>4. TurnTyped(g, turn')
    <3>1. p \in Nodes(g) /\ turn.met + 1 \in Nat
      BY <1>1, <2>2, <2>3 DEF TurnTyped
    <3> QED BY <1>1, <2>1, <3>1 DEF TurnTyped
  <2> QED BY <1>1, <1>4, <2>1, <2>2, <2>3, <2>4, RunningNext
<1>16. CASE RunUp
  <2>1. /\ UNCHANGED <<flowGraph, dfs>> /\ Phase("running") /\ turn.at \in Nodes(g)
        /\ turn.new \notin {None, tree.idom[turn.at]}
        /\ tree' = [tree EXCEPT !.df[turn.new] = @ \union {turn.at}]
        /\ turn' = [turn EXCEPT !.new = tree.idom[turn.new]]
    BY <1>16 DEF RunUp, InPass, Stopping, Above
  <2>2. turn'.at = turn.at /\ turn'.met = turn.met /\ turn'.new = tree.idom[turn.new] /\ turn'.phase = "running"
    BY <1>1, <2>1 DEF TurnTyped, Phase
  <2>3. turn.new \in Nodes(g)
    BY <1>1, <2>1 DEF TurnTyped
  <2>4. TreeTyped(g, tree') /\ Running(g, tree', turn') /\ turn'.new \in Nodes(g) \union {None}
    BY <1>1, <1>4, <2>1, <2>2, <2>3, RunUpKeeps
  <2>5. TurnTyped(g, turn')
    BY <1>1, <2>1, <2>2, <2>4 DEF TurnTyped, Phase
  <2> QED BY <1>1, <1>4, <2>1, <2>2, <2>4, <2>5, RunningNext
<1>17. CASE RunOver
  <2>1. /\ UNCHANGED <<flowGraph, dfs, tree>> /\ Phase("running") /\ turn.at \in Nodes(g)
        /\ \/ Len(PredsAt) < 2
           \/ turn.new \in {None, tree.idom[turn.at]} /\ turn.met = Len(PredsAt)
        /\ turn' = NextBlock
    BY <1>17 DEF RunOver, InPass, Stopping
  <2>2. /\ turn'.at = turn.at + 1 /\ turn'.met = 0 /\ turn'.new = None /\ turn'.phase = "running"
        /\ TurnTyped(g, turn')
    BY <1>1, <2>1, NextBlockIs DEF Phase
  <2>3. Running(g, tree, turn')
    <3>1. \/ Len(g.preds[turn.at]) < 2
          \/ turn.new \in {None, tree.idom[turn.at]} /\ turn.met = Len(g.preds[turn.at])
      BY <1>5, <2>1
    <3> QED BY <1>1, <1>4, <2>1, <2>2, <3>1, RunOverKeeps
  <2> QED BY <1>1, <1>4, <2>1, <2>2, <2>3, RunningNext
<1>18. CASE Built
  <2>1. /\ UNCHANGED <<flowGraph, dfs, tree>> /\ Phase("running") /\ turn.at \notin Nodes(g)
        /\ turn' = [turn EXCEPT !.phase = "built"]
    BY <1>18 DEF Built, PassOver
  <2>2. /\ turn'.at = turn.at /\ turn'.met = turn.met /\ turn'.new = turn.new /\ turn'.phase = "built"
        /\ TurnTyped(g, turn')
    BY <1>1, <2>1 DEF TurnTyped
  <2>3. turn.at = Len(g.blocks) + 1
    <3>1. turn.at \in 1 .. Len(g.blocks) + 1
      BY <1>4, <2>1 DEF Running
    <3> QED BY <3>1, <2>1, <1>2
  <2>4. turn.at \notin Reachable(g, {})
    BY <1>1, <2>1, ReachFacts
  <2>5. Running(g, tree, turn')
    BY <1>4, <2>1, <2>2, <2>4 DEF Running
  <2> QED BY <1>1, <1>4, <2>1, <2>2, <2>3, <2>5 DEF DomInv, Phase
<1> QED
  BY <1>6, <1>7, <1>8, <1>9, <1>10, <1>11, <1>12, <1>13, <1>14, <1>15, <1>16, <1>17, <1>18
  DEF BuildStep

LEMMA InvRight ==
  ASSUME DomInv
  PROVE  DominatorsRight
<1> SUFFICES ASSUME Phase("built")
    PROVE  LET g == flowGraph
               reach == Reachable(g, {})
           IN  /\ \A b \in Nodes(g) : IF b \in reach \ {Entry} THEN IsIdom(g, tree.idom[b], b)
                                                        ELSE tree.idom[b] = None
               /\ \A x, b \in reach : b # Entry \/ Len(g.preds[b]) # 1 =>
                    (b \in tree.df[x] <=> InFrontier(g, x, b))
  BY DEF DominatorsRight, Phase
<1>1. IsGraph(flowGraph) /\ Running(flowGraph, tree, turn) /\ turn.at = Len(flowGraph.blocks) + 1
  BY DEF DomInv, Phase
<1>2. \A b \in Reachable(flowGraph, {}) : b < turn.at
  BY <1>1, GraphFacts, ReachFacts
<1>3. \A b \in Reachable(flowGraph, {}) : FrontierAt(flowGraph, tree.df, b)
  BY <1>1, <1>2 DEF Running
<1> QED BY <1>1, <1>3 DEF Running, IdomRight, FrontierAt

LEMMA DomStarts ==
  ASSUME DomInit
  PROVE  DomInv
<1>1. IsGraph(flowGraph) /\ Fresh(flowGraph, tree, turn)
  BY DEF DomInit, Fresh
<1>2. SearchOK(flowGraph, dfs)
  BY <1>1, SearchStart DEF DomInit
<1>3. TurnTyped(flowGraph, turn) /\ TreeTyped(flowGraph, tree)
  BY <1>1, MeetingStarts
<1>4. turn.phase = "numbering"
  BY <1>1 DEF Fresh, AtEntry
<1> QED BY <1>1, <1>2, <1>3, <1>4 DEF DomInv, Phase

(* The search numbers what it has left behind, and the tree is built as    *)
(* far as the loops have come.                                             *)
THEOREM DomInvariant == DomSpec => []DomInv
<1>1. DomInit => DomInv
  BY DomStarts
<1>2. DomInv /\ [BuildStep]_domVars => DomInv'
  <2> SUFFICES ASSUME DomInv, [BuildStep]_domVars PROVE DomInv'
    OBVIOUS
  <2>1. CASE BuildStep
    BY <2>1, DomStep
  <2>2. CASE UNCHANGED domVars
    BY <2>2 DEF domVars, DomInv, Phase
  <2> QED BY <2>1, <2>2
<1> QED BY <1>1, <1>2, PTL DEF DomSpec

(* For every graph, irreducible ones and ones with unreachable blocks too: *)
(* the parents are the immediate dominators, and the frontiers are those   *)
(* of the textbook (domtree.c:34-112).                                     *)
THEOREM DominatorsAreRight == DomSpec => []DominatorsRight
<1>1. DomInv => DominatorsRight
  BY InvRight
<1> QED BY <1>1, DomInvariant, PTL

-----------------------------------------------------------------------------
(* The blocks whose frontiers have yet to be looked at, for slot s.        *)
Awaiting(p, s) ==
  IF p.phase = "spreading" /\ s = p.slots[p.turn] THEN ToSet(p.work) ELSE {}

(* A block that has a phi for a slot, and one that stores to a slot whose  *)
(* turn has come, have phis in all of their frontier, or are in the        *)
(* worklist.                                                               *)
Spreads(df, p, s, x) == x \in Awaiting(p, s) \/ df[x] \subseteq p.phis[s]

PlacementTyped(g, p) ==
  /\ p \in [phase : {"seeding", "spreading", "placed"}, slots : Seq(Int),
            stores : [ToSet(p.slots) -> SUBSET Nodes(g)], turn : Nat \ {0}, work : Seq(Nodes(g)),
            defs : SUBSET Nodes(g), phis : [ToSet(p.slots) -> SUBSET Nodes(g)]]
  /\ p.phase = "spreading" => p.turn \in DOMAIN p.slots
  /\ p.phase = "placed" => p.turn \notin DOMAIN p.slots

Closing(df, p) ==
  /\ \A s \in ToSet(p.slots) : \A x \in p.phis[s] : Spreads(df, p, s, x)
  /\ \A m \in DOMAIN p.slots : m < p.turn \/ (p.phase = "spreading" /\ m = p.turn) =>
       \A x \in p.stores[p.slots[m]] : Spreads(df, p, p.slots[m], x)
  /\ p.phase = "spreading" =>
       p.defs \subseteq p.stores[p.slots[p.turn]] \union p.phis[p.slots[p.turn]]

PhiInv ==
  /\ DomInv
  /\ placement = Unplaced \/
       /\ Phase("built") /\ PlacementTyped(flowGraph, placement) /\ Closing(tree.df, placement)

LEMMA ConcatFacts ==
  ASSUME NEW T, NEW s \in Seq(T), NEW t \in Seq(T)
  PROVE  s \o t \in Seq(T) /\ ToSet(s \o t) = ToSet(s) \union ToSet(t)
<1>1. /\ s \o t \in Seq(T) /\ Len(s) \in Nat /\ Len(t) \in Nat
      /\ DOMAIN s = 1 .. Len(s) /\ DOMAIN t = 1 .. Len(t)
      /\ DOMAIN (s \o t) = 1 .. Len(s) + Len(t)
      /\ \A i \in 1 .. Len(s) + Len(t) : (s \o t)[i] = IF i <= Len(s) THEN s[i] ELSE t[i - Len(s)]
  OBVIOUS
<1> DEFINE u == s \o t
<1>2. ASSUME NEW i \in DOMAIN u PROVE u[i] \in ToSet(s) \union ToSet(t)
  <2>1. CASE i <= Len(s)
    BY <2>1, <1>1 DEF ToSet
  <2>2. CASE ~ (i <= Len(s))
    <3>1. i - Len(s) \in 1 .. Len(t) /\ u[i] = t[i - Len(s)]
      BY <2>2, <1>1
    <3> QED BY <3>1, <1>1 DEF ToSet
  <2> QED BY <2>1, <2>2
<1>3. ASSUME NEW i \in DOMAIN s PROVE s[i] \in ToSet(u)
  <2>1. i \in 1 .. Len(s) + Len(t) /\ u[i] = s[i]
    BY <1>1
  <2> QED BY <2>1, <1>1 DEF ToSet
<1>4. ASSUME NEW i \in DOMAIN t PROVE t[i] \in ToSet(u)
  <2>1. i + Len(s) \in 1 .. Len(s) + Len(t) /\ u[i + Len(s)] = t[i]
    BY <1>1
  <2> QED BY <2>1, <1>1 DEF ToSet
<1> HIDE DEF u
<1>5. ToSet(u) = ToSet(s) \union ToSet(t)
  BY <1>2, <1>3, <1>4 DEF ToSet
<1> QED BY <1>1, <1>5 DEF u

(* A sequence of the blocks in a set.                                      *)
LEMMA BlocksInOrder ==
  ASSUME NEW g, IsGraph(g), NEW S \in SUBSET Nodes(g)
  PROVE  Ascending(S) \in Seq(Nodes(g)) /\ ToSet(Ascending(S)) = S
<1>1. Nodes(g) = 1 .. Len(g.blocks) /\ Len(g.blocks) \in Nat
  BY GraphFacts
<1>2. IsFiniteSet(1 .. Len(g.blocks)) /\ S \in SUBSET (1 .. Len(g.blocks))
  BY <1>1, FS_Interval
<1>3. IsFiniteSet(S) /\ S \in SUBSET Nat
  <2>1. IsFiniteSet(S)
    BY <1>2, FS_Subset
  <2>2. S \subseteq Nat
    BY <1>1
  <2> QED BY <2>1, <2>2
<1> DEFINE a == Ascending(S)
<1>4. a \in Seq(S) /\ ToSet(a) = S
  BY <1>3, AscendingFacts
<1> HIDE DEF a
<1>5. a \in Seq(Nodes(g))
  BY <1>4
<1> QED BY <1>4, <1>5 DEF a

(* One turn of the worklist, for the slot s: what it takes up is x.        *)
LEMMA FrontierKeeps ==
  ASSUME NEW g, IsGraph(g), NEW df \in [Nodes(g) -> SUBSET Nodes(g)],
         NEW p, PlacementTyped(g, p), Closing(df, p), p.phase = "spreading", p.work # <<>>,
         NEW s, s = p.slots[p.turn], NEW x, x = Last(p.work),
         NEW new, new = df[x] \ p.phis[s],
         NEW q, q = [p EXCEPT !.phis[s] = @ \union new, !.defs = @ \union new,
                              !.work = Front(p.work) \o Ascending(new \ p.defs)]
  PROVE  PlacementTyped(g, q) /\ Closing(df, q)
<1> DEFINE N == Nodes(g)
<1>1. /\ p.slots \in Seq(Int) /\ p.work \in Seq(N) /\ p.defs \in SUBSET N /\ p.turn \in DOMAIN p.slots
      /\ p.phis \in [ToSet(p.slots) -> SUBSET N] /\ p.stores \in [ToSet(p.slots) -> SUBSET N]
  BY DEF PlacementTyped
<1>2. s \in ToSet(p.slots)
  BY <1>1 DEF ToSet
<1>3. x \in N /\ Front(p.work) \in Seq(N) /\ ToSet(p.work) = ToSet(Front(p.work)) \union {x}
  <2> HIDE DEF N
  <2> QED BY <1>1, FrontFacts
<1>4. new \in SUBSET N /\ new \ p.defs \in SUBSET N
  BY <1>3
<1>5. Ascending(new \ p.defs) \in Seq(N) /\ ToSet(Ascending(new \ p.defs)) = new \ p.defs
  BY <1>4, BlocksInOrder
<1> DEFINE w == Front(p.work) \o Ascending(new \ p.defs)
<1>6. w \in Seq(N) /\ ToSet(w) = ToSet(Front(p.work)) \union (new \ p.defs)
  <2>1. \A t, u \in Seq(N) : t \o u \in Seq(N) /\ ToSet(t \o u) = ToSet(t) \union ToSet(u)
    BY ConcatFacts
  <2> DEFINE t == Front(p.work)
             u == Ascending(new \ p.defs)
  <2>2. t \in Seq(N) /\ u \in Seq(N) /\ ToSet(u) = new \ p.defs
    BY <1>3, <1>5
  <2> HIDE DEF N, t, u
  <2>3. t \o u \in Seq(N) /\ ToSet(t \o u) = ToSet(t) \union ToSet(u)
    BY ONLY <2>1, <2>2
  <2> QED BY <2>2, <2>3, Zenon DEF t, u
<1>7. p = [phase |-> p.phase, slots |-> p.slots, stores |-> p.stores, turn |-> p.turn,
           work |-> p.work, defs |-> p.defs, phis |-> p.phis]
  BY DEF PlacementTyped
<1> DEFINE phis == [p.phis EXCEPT ![s] = @ \union new]
<1>8. /\ q.phase = p.phase /\ q.slots = p.slots /\ q.stores = p.stores /\ q.turn = p.turn
      /\ q.work = w /\ q.defs = p.defs \union new /\ q.phis = phis
      /\ q = [phase |-> p.phase, slots |-> p.slots, stores |-> p.stores, turn |-> p.turn,
              work |-> w, defs |-> p.defs \union new, phis |-> phis]
  <2>1. q = [p EXCEPT !.phis[s] = @ \union new, !.defs = @ \union new, !.work = w]
    OBVIOUS
  <2> HIDE DEF w
  <2>2. q = [phase |-> p.phase, slots |-> p.slots, stores |-> p.stores, turn |-> p.turn,
             work |-> w, defs |-> p.defs \union new, phis |-> phis]
    BY ONLY <1>7, <2>1
  <2> HIDE DEF phis
  <2> QED BY ONLY <2>2
<1> HIDE DEF w
<1>9. /\ phis \in [ToSet(p.slots) -> SUBSET N] /\ phis[s] = p.phis[s] \union new
      /\ \A r \in ToSet(p.slots) \ {s} : phis[r] = p.phis[r]
  BY <1>1, <1>2, <1>4
<1> HIDE DEF phis
<1>10. PlacementTyped(g, q)
  <2>1. q.defs \in SUBSET N
    BY <1>1, <1>4, <1>8
  <2> QED BY <2>1, <1>1, <1>6, <1>8, <1>9 DEF PlacementTyped
<1>11. ASSUME NEW r \in ToSet(p.slots) \ {s}, NEW y, Spreads(df, p, r, y)
       PROVE  Spreads(df, q, r, y)
  BY <1>8, <1>9, <1>11 DEF Spreads, Awaiting
<1>12. ASSUME NEW y, Spreads(df, p, s, y)
       PROVE  Spreads(df, q, s, y)
  <2>1. CASE y = x
    <3>1. df[x] \subseteq phis[s]
      BY <1>9
    <3> QED BY <2>1, <3>1, <1>8 DEF Spreads
  <2>2. CASE y # x /\ y \in ToSet(p.work)
    BY <2>2, <1>3, <1>6, <1>8 DEF Spreads, Awaiting
  <2>3. CASE y \notin ToSet(p.work)
    <3>1. df[y] \subseteq p.phis[s]
      BY <2>3, <1>12 DEF Spreads, Awaiting
    <3> QED BY <3>1, <1>8, <1>9 DEF Spreads
  <2> QED BY <2>1, <2>2, <2>3
<1>13. ASSUME NEW y \in p.stores[s] PROVE Spreads(df, q, s, y)
  <2>1. Spreads(df, p, s, y)
    BY <1>1 DEF Closing
  <2> QED BY <2>1, <1>12
<1>14. ASSUME NEW y \in phis[s] PROVE Spreads(df, q, s, y)
  <2>1. CASE y \in p.phis[s]
    <3>1. Spreads(df, p, s, y)
      BY <2>1, <1>2 DEF Closing
    <3> QED BY <3>1, <1>12
  <2>2. CASE y \in new \ p.phis[s] /\ y \in p.defs
    <3>1. y \in p.stores[s]
      BY <2>2 DEF Closing
    <3> QED BY <3>1, <1>13
  <2>3. CASE y \in new /\ y \notin p.defs
    BY <2>3, <1>6, <1>8 DEF Spreads, Awaiting
  <2> QED BY <2>1, <2>2, <2>3, <1>9
<1>15. \A r \in ToSet(q.slots) : \A y \in q.phis[r] : Spreads(df, q, r, y)
  <2> SUFFICES ASSUME NEW r \in ToSet(p.slots), NEW y \in phis[r] PROVE Spreads(df, q, r, y)
    BY <1>8
  <2>1. CASE r = s
    BY <2>1, <1>14
  <2>2. CASE r # s
    <3>1. Spreads(df, p, r, y)
      BY <2>2, <1>9 DEF Closing
    <3> QED BY <2>2, <3>1, <1>11
  <2> QED BY <2>1, <2>2
<1>16. ASSUME NEW m \in DOMAIN q.slots, m < q.turn \/ (q.phase = "spreading" /\ m = q.turn),
              NEW y \in q.stores[q.slots[m]]
       PROVE  Spreads(df, q, q.slots[m], y)
  <2>1. m \in DOMAIN p.slots /\ y \in p.stores[p.slots[m]] /\ q.slots[m] = p.slots[m]
        /\ Spreads(df, p, p.slots[m], y) /\ p.slots[m] \in ToSet(p.slots)
    BY <1>8, <1>16 DEF Closing, ToSet
  <2>2. CASE p.slots[m] = s
    BY <2>1, <2>2, <1>12
  <2>3. CASE p.slots[m] # s
    BY <2>1, <2>3, <1>11
  <2> QED BY <2>2, <2>3
<1>17. q.defs \subseteq q.stores[q.slots[q.turn]] \union q.phis[q.slots[q.turn]]
  <2>1. p.defs \subseteq p.stores[s] \union p.phis[s]
    BY DEF Closing
  <2> QED BY <2>1, <1>8, <1>9
<1>18. Closing(df, q)
  BY <1>15, <1>16, <1>17 DEF Closing
<1> QED BY <1>10, <1>18

LEMMA PlaceKeeps ==
  ASSUME PhiInv, PlaceStep, UNCHANGED domVars
  PROVE  PhiInv'
<1> DEFINE g  == flowGraph
           df == tree.df
           p  == placement
<1>1. /\ DomInv' /\ flowGraph' = g /\ tree' = tree /\ (Phase("built") => Phase("built")')
  BY DEF PhiInv, domVars, DomInv, Phase
<1>2. IsGraph(g) /\ df \in [Nodes(g) -> SUBSET Nodes(g)]
  BY DEF PhiInv, DomInv, TreeTyped
<1>3. Phase("built") /\ PlacementTyped(g, p) /\ Closing(df, p)
  <2>1. ~ Placing("idle")
    BY DEF PlaceStep, Seed, PlaceInFrontier, NextSlot, AllPlaced, Placing
  <2> QED BY <2>1 DEF PhiInv, Unplaced, Placing
<1>4. SUFFICES PlacementTyped(g, placement') /\ Closing(df, placement')
  BY <1>1, <1>3 DEF PhiInv
<1>5. p = [phase |-> p.phase, slots |-> p.slots, stores |-> p.stores, turn |-> p.turn,
           work |-> p.work, defs |-> p.defs, phis |-> p.phis]
  BY <1>3 DEF PlacementTyped
<1>6. /\ p.slots \in Seq(Int) /\ p.work \in Seq(Nodes(g)) /\ p.defs \in SUBSET Nodes(g)
      /\ p.phis \in [ToSet(p.slots) -> SUBSET Nodes(g)] /\ p.turn \in Nat \ {0}
      /\ p.stores \in [ToSet(p.slots) -> SUBSET Nodes(g)]
  BY <1>3 DEF PlacementTyped
<1>7. CASE Seed
  <2> DEFINE s == p.slots[p.turn]
             d == p.stores[s]
             w == Ascending(d)
  <2>1. p.phase = "seeding" /\ p.turn \in DOMAIN p.slots /\ s \in ToSet(p.slots)
    BY <1>7 DEF Seed, Placing, ToSet
  <2>2. d \in SUBSET Nodes(g)
    BY <2>1, <1>6
  <2>3. w \in Seq(Nodes(g)) /\ ToSet(w) = d
    BY <2>2, <1>2, BlocksInOrder
  <2>4. placement' = [p EXCEPT !.phase = "spreading", !.defs = d, !.work = w]
    BY <1>7 DEF Seed, Slot
  <2> HIDE DEF w, d
  <2>5. placement' = [phase |-> "spreading", slots |-> p.slots, stores |-> p.stores, turn |-> p.turn,
                      work |-> w, defs |-> d, phis |-> p.phis]
    BY <2>4, <1>5
  <2> DEFINE q == placement'
  <2>6. /\ q.phase = "spreading" /\ q.slots = p.slots /\ q.stores = p.stores /\ q.turn = p.turn
        /\ q.work = w /\ q.defs = d /\ q.phis = p.phis
    BY <2>5
  <2>7. PlacementTyped(g, q)
    BY <2>1, <2>2, <2>3, <2>5, <2>6, <1>6 DEF PlacementTyped
  <2> HIDE DEF q
  <2>8. ASSUME NEW r, NEW y, Spreads(df, p, r, y) PROVE Spreads(df, q, r, y)
    BY <2>1, <2>6, <2>8 DEF Spreads, Awaiting
  <2>9. ASSUME NEW m \in DOMAIN q.slots, m < q.turn \/ m = q.turn, NEW y \in q.stores[q.slots[m]]
        PROVE  Spreads(df, q, q.slots[m], y)
    <3>1. CASE m < q.turn
      <4>1. Spreads(df, p, p.slots[m], y)
        BY <3>1, <2>6, <1>3 DEF Closing
      <4> QED BY <4>1, <2>6, <2>8
    <3>2. CASE m = q.turn
      BY <3>2, <2>3, <2>6 DEF Spreads, Awaiting, d
    <3> QED BY <2>9, <3>1, <3>2
  <2>10. \A r \in ToSet(q.slots) : \A y \in q.phis[r] : Spreads(df, q, r, y)
    BY <2>6, <2>8, <1>3 DEF Closing
  <2>11. q.defs \subseteq q.stores[q.slots[q.turn]] \union q.phis[q.slots[q.turn]]
    BY <2>6 DEF d
  <2>12. Closing(df, q)
    BY <2>9, <2>10, <2>11 DEF Closing
  <2> QED BY <2>7, <2>12 DEF q
<1>8. CASE PlaceInFrontier
  <2>1. p.phase = "spreading" /\ p.work # <<>>
    BY <1>8 DEF PlaceInFrontier, Placing
  <2> DEFINE s == p.slots[p.turn]
             x == Last(p.work)
             new == df[x] \ p.phis[s]
  <2>2. placement' = [p EXCEPT !.phis[s] = @ \union new, !.defs = @ \union new,
                               !.work = Front(p.work) \o Ascending(new \ p.defs)]
    BY <1>8 DEF PlaceInFrontier, Slot, NewWork
  <2> HIDE DEF s, x, new
  <2>3. s = p.slots[p.turn] /\ x = Last(p.work) /\ new = df[x] \ p.phis[s]
    BY DEF s, x, new
  <2> HIDE DEF g, df, p
  <2> QED BY <2>1, <2>2, <2>3, <1>2, <1>3, FrontierKeeps
<1>9. CASE NextSlot
  <2>1. p.phase = "spreading" /\ p.work = <<>> /\ p.turn \in DOMAIN p.slots
    BY <1>9, <1>3 DEF NextSlot, Placing, PlacementTyped
  <2>2. placement' = [p EXCEPT !.phase = "seeding", !.turn = @ + 1]
    BY <1>9 DEF NextSlot
  <2> DEFINE q == placement'
  <2>3. q = [phase |-> "seeding", slots |-> p.slots, stores |-> p.stores, turn |-> p.turn + 1,
             work |-> p.work, defs |-> p.defs, phis |-> p.phis]
    BY <2>2, <1>5
  <2>4. /\ q.phase = "seeding" /\ q.slots = p.slots /\ q.stores = p.stores /\ q.turn = p.turn + 1
        /\ q.work = p.work /\ q.defs = p.defs /\ q.phis = p.phis
    BY <2>3
  <2>5. PlacementTyped(g, q)
    BY <2>3, <2>4, <1>6 DEF PlacementTyped
  <2> HIDE DEF q
  <2>6. ASSUME NEW r, NEW y, Spreads(df, p, r, y) PROVE Spreads(df, q, r, y)
    <3>1. y \notin Awaiting(p, r)
      BY <2>1 DEF Awaiting, ToSet
    <3> QED BY <3>1, <2>4, <2>6 DEF Spreads
  <2>7. ASSUME NEW m \in DOMAIN q.slots, m < q.turn, NEW y \in q.stores[q.slots[m]]
        PROVE  Spreads(df, q, q.slots[m], y)
    <3>1. m \in DOMAIN p.slots /\ m \in Nat /\ (m < p.turn \/ m = p.turn)
      BY <2>4, <2>7, <1>6
    <3>2. Spreads(df, p, p.slots[m], y)
      BY <3>1, <2>1, <2>4, <1>3 DEF Closing
    <3> QED BY <3>2, <2>4, <2>6
  <2>8. Closing(df, q)
    BY <2>4, <2>6, <2>7, <1>3 DEF Closing
  <2> QED BY <2>5, <2>8 DEF q
<1>10. CASE AllPlaced
  <2>1. p.phase = "seeding" /\ p.turn \notin DOMAIN p.slots
    BY <1>10 DEF AllPlaced, Placing
  <2>2. placement' = [p EXCEPT !.phase = "placed"]
    BY <1>10 DEF AllPlaced
  <2> DEFINE q == placement'
  <2>3. q = [phase |-> "placed", slots |-> p.slots, stores |-> p.stores, turn |-> p.turn,
             work |-> p.work, defs |-> p.defs, phis |-> p.phis]
    BY <2>2, <1>5
  <2>4. /\ q.phase = "placed" /\ q.slots = p.slots /\ q.stores = p.stores /\ q.turn = p.turn
        /\ q.work = p.work /\ q.defs = p.defs /\ q.phis = p.phis
    BY <2>3
  <2>5. PlacementTyped(g, q)
    BY <2>1, <2>3, <2>4, <1>6 DEF PlacementTyped
  <2> HIDE DEF q
  <2>6. ASSUME NEW r, NEW y, Spreads(df, p, r, y) PROVE Spreads(df, q, r, y)
    BY <2>1, <2>4, <2>6 DEF Spreads, Awaiting
  <2>7. Closing(df, q)
    BY <2>4, <2>6, <1>3 DEF Closing
  <2> QED BY <2>5, <2>7 DEF q
<1> QED BY <1>7, <1>8, <1>9, <1>10 DEF PlaceStep

(* The placement begins with no phis.                                      *)
LEMMA PlacingStarts ==
  ASSUME PhiInv, NEW slots \in Seq(Int), NEW stores \in [ToSet(slots) -> SUBSET Nodes(flowGraph)],
         PlacePhis(slots, stores), UNCHANGED domVars
  PROVE  PhiInv'
<1> DEFINE q == placement'
<1>1. /\ DomInv' /\ flowGraph' = flowGraph /\ tree' = tree /\ Phase("built")'
  BY DEF PhiInv, PlacePhis, domVars, DomInv, Phase
<1>2. q = [phase |-> "seeding", slots |-> slots, stores |-> stores, turn |-> 1, work |-> <<>>,
           defs |-> {}, phis |-> [s \in ToSet(slots) |-> {}]]
  BY DEF PlacePhis, Unplaced
<1>3. /\ q.phase = "seeding" /\ q.slots = slots /\ q.stores = stores /\ q.turn = 1
      /\ q.phis = [s \in ToSet(slots) |-> {}]
  BY <1>2
<1>4. PlacementTyped(flowGraph, q)
  <2>1. <<>> \in Seq(Nodes(flowGraph))
    OBVIOUS
  <2>2. [s \in ToSet(slots) |-> {}] \in [ToSet(slots) -> SUBSET Nodes(flowGraph)]
    OBVIOUS
  <2> QED BY <2>1, <2>2, <1>2, <1>3 DEF PlacementTyped
<1> HIDE DEF q
<1>5. Closing(tree.df, q)
  <2>1. \A m \in DOMAIN slots : ~ (m < 1)
    OBVIOUS
  <2> QED BY <2>1, <1>3 DEF Closing
<1> QED BY <1>1, <1>4, <1>5 DEF PhiInv, q

(* Once all slots have had their turn there is a phi wherever a value may  *)
(* arrive from a block that does not dominate the place.                   *)
LEMMA PhisRight ==
  ASSUME PhiInv
  PROVE  PhisWhereNeeded
<1> DEFINE g == flowGraph
           N == Nodes(g)
           R == Reachable(g, {})
<1> SUFFICES ASSUME placement.phase = "placed", Len(g.preds[Entry]) # 1,
                    NEW s \in ToSet(placement.slots),
                    NEW defs, defs = placement.stores[s] \union placement.phis[s],
                    NEW x \in defs \intersect R,
                    NEW c \in Onward(g, x, defs), NEW b \in ToSet(g.succs[c])
             PROVE  b \in placement.phis[s] \/ StrictlyDominates(g, x, b)
  BY DEF PhisWhereNeeded, Placing
<1>1. /\ IsGraph(g) /\ Phase("built") /\ PlacementTyped(g, placement) /\ Closing(tree.df, placement)
  BY DEF PhiInv, DomInv, Unplaced
<1>2. DominatorsRight
  BY InvRight DEF PhiInv
<1>3. tree.df[x] \subseteq placement.phis[s]
  <2>1. PICK m \in DOMAIN placement.slots : placement.slots[m] = s
    BY DEF ToSet
  <2>2. m < placement.turn
    <3>1. placement.turn \in Nat \ {0} /\ placement.turn \notin DOMAIN placement.slots
          /\ placement.slots \in Seq(Int)
      BY <1>1 DEF PlacementTyped
    <3> QED BY <3>1
  <2>3. Spreads(tree.df, placement, s, x)
    BY <2>1, <2>2, <1>1 DEF Closing
  <2> QED BY <2>3 DEF Spreads, Awaiting
<1>4. ASSUME NEW d \in R, Dominates(g, x, d), NEW e \in ToSet(g.succs[d]), e \notin placement.phis[s]
      PROVE  StrictlyDominates(g, x, e)
  <2>1. d \in N /\ e \in N /\ d \in ToSet(g.preds[e]) /\ e \in R
    <3>1. R \subseteq N /\ ToSet(g.succs[d]) \ {} \subseteq R
      BY <1>1, ReachFacts
    <3> QED BY <3>1, <1>1, GraphFacts
  <2>2. e \notin tree.df[x]
    BY <1>3, <1>4
  <2>3. e # Entry \/ Len(g.preds[e]) # 1
    OBVIOUS
  <2>4. ~ InFrontier(g, x, e)
    BY <2>1, <2>2, <2>3, <1>1, <1>2 DEF DominatorsRight, Phase
  <2> QED BY <2>1, <2>4, <1>4 DEF InFrontier
<1>5. ASSUME NEW d \in Onward(g, x, defs) PROVE d \in R /\ Dominates(g, x, d)
  <2> DEFINE S == {e \in R : Dominates(g, x, e)}
  <2>1. R \subseteq N
    BY <1>1, ReachFacts
  <2>2. S \in SUBSET N /\ x \in S
    BY <2>1 DEF Dominates
  <2>3. ASSUME NEW d1 \in S, NEW e \in ToSet(g.succs[d1]) \ defs PROVE e \in S
    <3>1. e \in R
      <4>1. ToSet(g.succs[d1]) \ {} \subseteq R
        BY <1>1, ReachFacts
      <4> QED BY <4>1
    <3>2. StrictlyDominates(g, x, e)
      BY <1>4
    <3> QED BY <3>1, <3>2 DEF Dominates
  <2>4. Closed(g, S, defs)
    BY <2>3 DEF Closed
  <2>5. d \in S
    BY <2>2, <2>4 DEF Onward
  <2> QED BY <2>5
<1> QED BY <1>4, <1>5

(* The placement of phis keeps to the tree that domtree_build leaves, and  *)
(* the worklist holds whatever still has a frontier to look at.            *)
THEOREM PhiInvariant == PhiSpec => []PhiInv
<1>1. PhiInit => PhiInv
  <2>1. DomInit => DomInv
    BY DomStarts
  <2> QED BY <2>1 DEF PhiInit, PhiInv
<1>2. PhiInv /\ [PhiStep]_promotionVars => PhiInv'
  <2> SUFFICES ASSUME PhiInv, [PhiStep]_promotionVars PROVE PhiInv'
    OBVIOUS
  <2>1. CASE BuildStep /\ UNCHANGED placement
    <3>1. ~ Phase("built")
      BY <2>1 DEF BuildStep, Visit, Numbered, Skip, FirstGuess, MeetPred, Climb, SetIdom, PassAgain,
                  Settled, NextRunner, RunUp, RunOver, Built, InPass, PassOver, Met, Phase
    <3>2. placement = Unplaced
      BY <3>1 DEF PhiInv
    <3>3. DomInv'
      BY <2>1, DomStep DEF PhiInv
    <3>4. placement' = Unplaced
      BY <2>1, <3>2
    <3> QED BY <3>3, <3>4 DEF PhiInv, Unplaced
  <2>2. CASE PlaceStep /\ UNCHANGED domVars
    BY <2>2, PlaceKeeps
  <2>3. ASSUME NEW slots \in Seq(Int), NEW stores \in [ToSet(slots) -> SUBSET Nodes(flowGraph)],
               PlacePhis(slots, stores), UNCHANGED domVars
        PROVE  PhiInv'
    BY <2>3, PlacingStarts
  <2>4. CASE UNCHANGED promotionVars
    BY <2>4 DEF promotionVars, domVars, PhiInv, DomInv, Phase, Unplaced
  <2> QED BY <2>1, <2>2, <2>3, <2>4 DEF PhiStep
<1> QED BY <1>1, <1>2, PTL DEF PhiSpec

(* What the renaming relies on, for every graph, every set of variables    *)
(* and wherever they are stored to: the tree and the frontiers are right,  *)
(* and where a value arrives from a block that does not dominate the place *)
(* there is a phi (mem2reg.c:43-114).                                      *)
THEOREM PromotionIsPrepared == PhiSpec => []ReadyToRename
<1>1. PhiInv => ReadyToRename
  BY InvRight, PhisRight DEF PhiInv, ReadyToRename
<1> QED BY <1>1, PhiInvariant, PTL

-----------------------------------------------------------------------------
(* The blocks of a function, as the sets of instructions between two       *)
(* starts, and the graph that cfg_build makes of them.                     *)

StartOf(f, k) == Ascending(Starts(f.insts))[k]

LEMMA StartsFacts ==
  ASSUME NEW f, f.insts \in Seq(Instruction), f.insts # <<>>
  PROVE  \E K \in Nat \ {0} :
           /\ DOMAIN Blocks(f.insts) = 1 .. K /\ Len(Blocks(f.insts)) = K
           /\ Blocks(f.insts) \in Seq([start : Nat \ {0}, end : Nat])
           /\ \A k \in 1 .. K :
                /\ Blocks(f.insts)[k].start = StartOf(f, k) /\ StartOf(f, k) \in Starts(f.insts)
                /\ StartOf(f, k) \in 1 .. Len(f.insts)
                /\ Blocks(f.insts)[k].end = IF k = K THEN Len(f.insts) ELSE StartOf(f, k + 1) - 1
                /\ \A m \in 1 .. K : k < m => StartOf(f, k) < StartOf(f, m)
           /\ \A i \in Starts(f.insts) : \E k \in 1 .. K : StartOf(f, k) = i
<1> DEFINE n == Len(f.insts)
           S == Starts(f.insts)
           s == Ascending(S)
           K == Len(s)
<1>1. n \in Nat \ {0}
  OBVIOUS
<1>2. S \subseteq 1 .. n /\ 1 \in S
  BY <1>1 DEF Starts
<1>3. S \in SUBSET Nat /\ IsFiniteSet(S)
  <2>1. IsFiniteSet(1 .. n)
    BY <1>1, FS_Interval
  <2>2. S \in SUBSET (1 .. n) /\ S \in SUBSET Nat
    BY <1>1, <1>2
  <2> HIDE DEF S, n
  <2> QED BY <2>1, <2>2, FS_Subset
<1> HIDE DEF S, n
<1>4. /\ s \in Seq(S) /\ ToSet(s) = S
      /\ \A i, j \in DOMAIN s : i < j => s[i] < s[j]
  BY <1>3, AscendingFacts
<1> HIDE DEF s
<1>5. K \in Nat \ {0} /\ DOMAIN s = 1 .. K
  <2>1. K \in Nat /\ DOMAIN s = 1 .. K
    BY <1>4
  <2>2. DOMAIN s # {}
    BY <1>2, <1>4 DEF ToSet
  <2> QED BY <2>1, <2>2
<1>6. \A k \in 1 .. K : StartOf(f, k) = s[k] /\ s[k] \in S /\ s[k] \in 1 .. n
  BY <1>2, <1>4, <1>5 DEF StartOf, s, S
<1> HIDE DEF K
<1>7. Blocks(f.insts) = [k \in 1 .. K |->
        [start |-> s[k], end |-> IF k = K THEN n ELSE s[k + 1] - 1]]
  BY <1>5 DEF Blocks, s, S, n, K
<1>8. ASSUME NEW k \in 1 .. K
      PROVE  /\ s[k] \in Nat \ {0}
             /\ (IF k = K THEN n ELSE s[k + 1] - 1) \in Nat
  <2>1. CASE k = K
    BY <2>1, <1>1, <1>6
  <2>2. CASE k # K
    <3>1. k + 1 \in 1 .. K
      BY <2>2, <1>5
    <3>2. s[k + 1] \in 1 .. n /\ s[k] \in 1 .. n
      BY <3>1, <1>6
    <3> QED BY <2>2, <3>2, <1>1
  <2> QED BY <2>1, <2>2
<1>9. Blocks(f.insts) \in Seq([start : Nat \ {0}, end : Nat])
  <2> DEFINE T == [start : Nat \ {0}, end : Nat]
  <2>1. Blocks(f.insts) \in [1 .. K -> T]
    BY <1>7, <1>8
  <2>2. K \in Nat
    BY <1>5
  <2> HIDE DEF T
  <2>3. Blocks(f.insts) \in Seq(T)
    BY <2>1, <2>2
  <2> QED BY <2>3 DEF T
<1>10. DOMAIN Blocks(f.insts) = 1 .. K /\ Len(Blocks(f.insts)) = K
  BY <1>7, <1>9, <1>5
<1>11. ASSUME NEW k \in 1 .. K
       PROVE  /\ Blocks(f.insts)[k].start = StartOf(f, k)
              /\ Blocks(f.insts)[k].end = IF k = K THEN n ELSE StartOf(f, k + 1) - 1
  <2>1. k # K => k + 1 \in 1 .. K
    BY <1>5
  <2> QED BY <2>1, <1>6, <1>7
<1>12. \A i \in S : \E k \in 1 .. K : StartOf(f, k) = i
  BY <1>4, <1>5, <1>6 DEF ToSet
<1>13. \A k \in 1 .. K : \A m \in 1 .. K : k < m => StartOf(f, k) < StartOf(f, m)
  BY <1>4, <1>5, <1>6
<1>14. \A k \in 1 .. K :
         /\ Blocks(f.insts)[k].start = StartOf(f, k) /\ StartOf(f, k) \in S
         /\ StartOf(f, k) \in 1 .. n
         /\ Blocks(f.insts)[k].end = IF k = K THEN n ELSE StartOf(f, k + 1) - 1
         /\ \A m \in 1 .. K : k < m => StartOf(f, k) < StartOf(f, m)
  BY <1>6, <1>11, <1>13
<1> QED BY <1>5, <1>9, <1>10, <1>12, <1>14 DEF n, S

(* Every instruction is in one block; a label is the first of its block,   *)
(* and a terminator the last.                                              *)
Divided(f, bl) ==
  /\ bl \in Seq([start : Nat \ {0}, end : Nat]) /\ bl # <<>> /\ DOMAIN bl = 1 .. Len(bl)
  /\ \A i \in DOMAIN f.insts : \E b \in DOMAIN bl : i \in bl[b].start .. bl[b].end
  /\ \A b \in DOMAIN bl :
       /\ bl[b].start <= bl[b].end /\ bl[b].end \in DOMAIN f.insts
       /\ b + 1 \in DOMAIN bl => bl[b + 1].start = bl[b].end + 1
       /\ b + 1 \notin DOMAIN bl => bl[b].end = Len(f.insts)
       /\ \A i \in bl[b].start .. bl[b].end :
            /\ i \in DOMAIN f.insts
            /\ \A c \in DOMAIN bl \ {b} : i \notin bl[c].start .. bl[c].end
            /\ i # bl[b].start => f.insts[i].op # "label"
            /\ i # bl[b].end => f.insts[i].op \notin Terminators

LEMMA BlocksFacts ==
  ASSUME NEW f, f.insts \in Seq(Instruction), f.insts # <<>>,
         NEW bl, bl = Blocks(f.insts)
  PROVE  Divided(f, bl)
<1> DEFINE n == Len(f.insts)
           S == Starts(f.insts)
           s(k) == StartOf(f, k)
<1>1. PICK K \in Nat \ {0} :
        /\ DOMAIN bl = 1 .. K /\ Len(bl) = K /\ bl \in Seq([start : Nat \ {0}, end : Nat])
        /\ \A k \in 1 .. K :
             /\ bl[k].start = s(k) /\ s(k) \in S /\ s(k) \in 1 .. n
             /\ bl[k].end = IF k = K THEN n ELSE s(k + 1) - 1
             /\ \A m \in 1 .. K : k < m => s(k) < s(m)
        /\ \A i \in S : \E k \in 1 .. K : s(k) = i
  BY StartsFacts
<1>2. n \in Nat \ {0} /\ DOMAIN f.insts = 1 .. n
  OBVIOUS
<1>3. 1 \in S /\ \A i \in 2 .. n : i \notin S => f.insts[i].op # "label" /\ f.insts[i - 1].op \notin Terminators
  BY DEF Starts
<1> HIDE DEF n, S, s
<1>4. ASSUME NEW k \in 1 .. K
      PROVE  /\ s(k) \in 1 .. n /\ bl[k].start = s(k) /\ bl[k].end \in 1 .. n /\ s(k) <= bl[k].end
             /\ k = K => bl[k].end = n
             /\ k # K => k + 1 \in 1 .. K /\ s(k + 1) = bl[k].end + 1
  <2>1. CASE k = K
    <3>1. s(k) \in 1 .. n /\ bl[k].start = s(k) /\ bl[k].end = n
      BY <1>1, <2>1
    <3> QED BY <3>1, <2>1, <1>2
  <2>2. CASE k # K
    <3>1. k + 1 \in 1 .. K /\ k < k + 1
      BY <2>2, <1>1
    <3>2. /\ s(k) \in 1 .. n /\ bl[k].start = s(k) /\ bl[k].end = s(k + 1) - 1
          /\ s(k + 1) \in 1 .. n /\ s(k) < s(k + 1)
      BY <3>1, <2>2, <1>1
    <3> QED BY <3>1, <3>2, <2>2, <1>2
  <2> QED BY <2>1, <2>2
<1>5. ASSUME NEW k \in 1 .. K, NEW m \in 1 .. K, k < m PROVE bl[k].end < s(m)
  <2>1. k # K /\ k + 1 \in 1 .. K /\ (k + 1 = m \/ k + 1 < m)
    BY <1>5, <1>1
  <2>2. s(k + 1) = bl[k].end + 1 /\ bl[k].end \in 1 .. n /\ s(m) \in 1 .. n
    BY <2>1, <1>4
  <2>3. s(k + 1) = s(m) \/ s(k + 1) < s(m)
    BY <2>1, <1>1
  <2> QED BY <2>2, <2>3
<1>6. ASSUME NEW b \in 1 .. K, NEW c \in 1 .. K, NEW i \in 1 .. n,
             i \in s(b) .. bl[b].end, i \in s(c) .. bl[c].end
      PROVE  b = c
  <2>1. ~ (b < c)
    <3> SUFFICES ASSUME b < c PROVE FALSE
      OBVIOUS
    <3>1. bl[b].end < s(c) /\ bl[b].end \in 1 .. n /\ s(c) \in 1 .. n
      BY <1>4, <1>5
    <3> QED BY <3>1, <1>6
  <2>2. ~ (c < b)
    <3> SUFFICES ASSUME c < b PROVE FALSE
      OBVIOUS
    <3>1. bl[c].end < s(b) /\ bl[c].end \in 1 .. n /\ s(b) \in 1 .. n
      BY <1>4, <1>5
    <3> QED BY <3>1, <1>6
  <2> QED BY <2>1, <2>2
<1>7. ASSUME NEW b \in 1 .. K, NEW i \in s(b) .. bl[b].end
      PROVE  i \in 1 .. n
  <2>1. s(b) \in 1 .. n /\ bl[b].end \in 1 .. n
    BY <1>4
  <2> QED BY <2>1, <1>2
<1>8. ASSUME NEW i \in 1 .. n PROVE \E b \in 1 .. K : i \in s(b) .. bl[b].end
  <2> DEFINE T == {k \in 1 .. K : i <= bl[k].end}
  <2>1. K \in T
    BY <1>1, <1>2, <1>4
  <2>2. PICK b \in T : \A h \in T : b <= h
    <3>1. T \subseteq Nat /\ T # {}
      BY <2>1
    <3> HIDE DEF T
    <3> QED BY <3>1, HasLeast
  <2>3. b \in 1 .. K /\ i <= bl[b].end
    OBVIOUS
  <2>4. s(b) <= i
    <3>1. CASE b = 1
      <4>1. PICK k \in 1 .. K : s(k) = 1
        BY <1>1, <1>3
      <4>2. k = 1 \/ 1 < k
        OBVIOUS
      <4>3. 1 < k => s(1) < 1
        BY <4>1, <2>3, <3>1, <1>1
      <4>4. s(1) \in 1 .. n
        BY <2>3, <3>1, <1>4
      <4> QED BY <4>1, <4>2, <4>3, <4>4, <3>1
    <3>2. CASE b # 1
      <4>1. b - 1 \in 1 .. K /\ b - 1 # K /\ b - 1 + 1 = b
        BY <2>3, <3>2
      <4>2. ~ (b <= b - 1)
        BY <2>3
      <4>3. b - 1 \notin T
        BY <2>2, <4>2
      <4>4. ~ (i <= bl[b - 1].end)
        BY <4>1, <4>3
      <4>5. s(b) = bl[b - 1].end + 1 /\ bl[b - 1].end \in 1 .. n
        BY <4>1, <1>4
      <4> HIDE DEF T
      <4> QED BY <4>4, <4>5
    <3> QED BY <3>1, <3>2
  <2>5. s(b) \in 1 .. n /\ bl[b].end \in 1 .. n
    BY <2>3, <1>4
  <2>6. i \in s(b) .. bl[b].end
    BY <2>3, <2>4, <2>5
  <2> QED BY <2>3, <2>6
<1>9. ASSUME NEW b \in 1 .. K, NEW i \in s(b) .. bl[b].end, i # s(b)
      PROVE  i \in 2 .. n /\ i \notin S
  <2>1. i \in 1 .. n /\ s(b) \in 1 .. n
    BY <1>4, <1>7
  <2>2. i \in 2 .. n
    BY <2>1, <1>9, <1>2
  <2>3. ASSUME i \in S PROVE FALSE
    <3>1. PICK k \in 1 .. K : s(k) = i
      BY <2>3, <1>1
    <3>2. i \in s(k) .. bl[k].end
      BY <3>1, <2>1, <1>4
    <3>3. k = b
      BY <3>2, <2>1, <1>6
    <3> QED BY <3>1, <3>3, <1>9
  <2> QED BY <2>2, <2>3
<1>10. ASSUME NEW b \in 1 .. K, NEW i \in s(b) .. bl[b].end
       PROVE  /\ i # s(b) => f.insts[i].op # "label"
              /\ i # bl[b].end => f.insts[i].op \notin Terminators
  <2>1. i # s(b) => f.insts[i].op # "label"
    BY <1>3, <1>9
  <2>2. ASSUME i # bl[b].end PROVE f.insts[i].op \notin Terminators
    <3>1. s(b) \in 1 .. n /\ bl[b].end \in 1 .. n /\ i \in 1 .. n
      BY <1>4, <1>7
    <3>2. i + 1 \in s(b) .. bl[b].end /\ i + 1 # s(b) /\ i + 1 - 1 = i
      BY <3>1, <2>2
    <3>3. f.insts[i + 1 - 1].op \notin Terminators
      BY <3>2, <1>3, <1>9
    <3> QED BY <3>2, <3>3
  <2> QED BY <2>1, <2>2
<1>11. ASSUME NEW b \in DOMAIN bl
       PROVE  /\ bl[b].start <= bl[b].end /\ bl[b].end \in DOMAIN f.insts
              /\ b + 1 \in DOMAIN bl => bl[b + 1].start = bl[b].end + 1
              /\ b + 1 \notin DOMAIN bl => bl[b].end = n
  <2>1. b \in 1 .. K
    BY <1>1
  <2>2. b = K <=> b + 1 \notin 1 .. K
    <3>1. K \in Nat
      BY <1>1
    <3> QED BY <2>1, <3>1
  <2>3. b + 1 \in 1 .. K => bl[b + 1].start = s(b + 1)
    BY <1>4
  <2> QED BY <2>1, <2>2, <2>3, <1>1, <1>2, <1>4
<1>12. ASSUME NEW b \in DOMAIN bl, NEW i \in bl[b].start .. bl[b].end
       PROVE  /\ i \in DOMAIN f.insts
              /\ \A c \in DOMAIN bl \ {b} : i \notin bl[c].start .. bl[c].end
              /\ i # bl[b].start => f.insts[i].op # "label"
              /\ i # bl[b].end => f.insts[i].op \notin Terminators
  <2>1. b \in 1 .. K /\ i \in s(b) .. bl[b].end /\ i \in 1 .. n
    BY <1>1, <1>4, <1>7
  <2>2. ASSUME NEW c \in DOMAIN bl \ {b} PROVE i \notin bl[c].start .. bl[c].end
    BY <2>1, <1>1, <1>4, <1>6
  <2> QED BY <2>1, <2>2, <1>1, <1>2, <1>4, <1>10
<1>13. bl # <<>>
  BY <1>1
<1>14. \A i \in DOMAIN f.insts : \E b \in DOMAIN bl : i \in bl[b].start .. bl[b].end
  BY <1>1, <1>2, <1>4, <1>8
<1> QED BY <1>1, <1>11, <1>12, <1>13, <1>14 DEF n, Divided

(* The labels of a function are numbered, and each is in one place: ir.c   *)
(* counts them.                                                            *)
LabelsNumbered(f) ==
  /\ \A i \in LabelPcs(f) : f.insts[i].imm \in Nat
  /\ \A i, j \in LabelPcs(f) : f.insts[i].imm = f.insts[j].imm => i = j

LEMMA TargetFacts ==
  ASSUME NEW inst \in Instruction
  PROVE  /\ inst.op \in {"br", "cbr", "table"} =>
              TargetLabels(inst) \in Seq(Int) /\ ToSet(TargetLabels(inst)) = LabelsOf(inst)
         /\ inst.op \notin {"br", "cbr", "table"} => TargetLabels(inst) = <<>>
<1>1. CASE inst.op = "cbr"
  <2>1. TargetLabels(inst) = <<inst.imm, inst.b>> /\ LabelsOf(inst) = {inst.imm, inst.b}
    BY <1>1 DEF TargetLabels, LabelsOf
  <2> QED BY <2>1, <1>1 DEF ToSet, Instruction
<1>2. CASE inst.op = "table"
  <2>1. inst.args \in Seq(Int) /\ inst.imm \in Int
    BY DEF Instruction
  <2>2. TargetLabels(inst) = <<inst.imm>> \o inst.args
    BY <1>2 DEF TargetLabels
  <2>3. <<inst.imm>> \o inst.args \in Seq(Int)
        /\ ToSet(<<inst.imm>> \o inst.args) = {inst.imm} \union ToSet(inst.args)
    BY <2>1, PrependFacts
  <2> QED BY <2>2, <2>3, <1>2 DEF LabelsOf
<1>4. CASE inst.op = "br"
  <2>1. TargetLabels(inst) = <<inst.imm>> /\ LabelsOf(inst) = {inst.imm}
    BY <1>4 DEF TargetLabels, LabelsOf
  <2> QED BY <2>1, <1>4 DEF ToSet, Instruction
<1>3. CASE inst.op \notin {"br", "cbr", "table"}
  BY <1>3 DEF TargetLabels
<1> QED BY <1>1, <1>2, <1>3, <1>4


LEMMA DividedFacts ==
  ASSUME NEW f, NEW bl, Divided(f, bl), f.insts \in Seq(Instruction), NEW k \in DOMAIN bl
  PROVE  /\ k \in Nat /\ bl[k].start \in Nat \ {0} /\ bl[k].end \in Nat
         /\ bl[k].start <= bl[k].end /\ bl[k].start \in DOMAIN f.insts /\ bl[k].end \in DOMAIN f.insts
         /\ bl[k].start \in bl[k].start .. bl[k].end
         /\ k + 1 \in DOMAIN bl => bl[k + 1].start = bl[k].end + 1
         /\ k + 1 \notin DOMAIN bl => bl[k].end = Len(f.insts)
<1>1. bl \in Seq([start : Nat \ {0}, end : Nat]) /\ DOMAIN bl = 1 .. Len(bl)
  BY DEF Divided
<1>2. bl[k] \in [start : Nat \ {0}, end : Nat] /\ k \in Nat
  <2> DEFINE T == [start : Nat \ {0}, end : Nat]
  <2>1. bl \in Seq(T) /\ DOMAIN bl = 1 .. Len(bl)
    BY <1>1
  <2> HIDE DEF T
  <2>2. bl[k] \in T /\ k \in Nat
    BY <2>1
  <2> QED BY <2>2 DEF T
<1>3. /\ bl[k].start <= bl[k].end /\ bl[k].end \in DOMAIN f.insts
      /\ k + 1 \in DOMAIN bl => bl[k + 1].start = bl[k].end + 1
      /\ k + 1 \notin DOMAIN bl => bl[k].end = Len(f.insts)
  BY DEF Divided
<1>4. DOMAIN f.insts = 1 .. Len(f.insts) /\ Len(f.insts) \in Nat
  OBVIOUS
<1>5. bl[k].start \in DOMAIN f.insts
  BY <1>2, <1>3, <1>4
<1>6. bl[k].start \in bl[k].start .. bl[k].end
  BY <1>2, <1>3
<1>7. bl[k].start \in Nat \ {0} /\ bl[k].end \in Nat /\ k \in Nat
  BY <1>2
<1> QED
  BY <1>3, <1>5, <1>6, <1>7

LEMMA PlaceFacts ==
  ASSUME NEW f, NEW bl, Divided(f, bl), NEW k \in DOMAIN bl,
         NEW i \in bl[k].start .. bl[k].end
  PROVE  /\ i \in DOMAIN f.insts
         /\ f.insts[i].op = "label" => i = bl[k].start
         /\ f.insts[i].op \in Terminators => i = bl[k].end
         /\ \A c \in DOMAIN bl : i \in bl[c].start .. bl[c].end => c = k
BY Zenon DEF Divided

(* A block goes to the blocks that its last instruction names, or else to  *)
(* the next.                                                               *)
Serves(f, bl, k, su) ==
  /\ su \in Seq(DOMAIN bl)
  /\ f.insts[bl[k].end].op # "jmp_ptr" =>
       \A j \in Goes(f, bl[k].end) : \E s \in ToSet(su) : bl[s].start = j

LEMMA SuccessorFacts ==
  ASSUME NEW f, WellFormed(f), f.insts # <<>>, LabelsNumbered(f),
         NEW k \in DOMAIN Blocks(f.insts)
  PROVE  Serves(f, Blocks(f.insts), k, Successors(f.insts, Blocks(f.insts), k))
<1> SUFFICES ASSUME NEW bl, bl = Blocks(f.insts), k \in DOMAIN bl,
                    NEW su, su = Successors(f.insts, bl, k)
             PROVE  /\ su \in Seq(DOMAIN bl)
                    /\ f.insts[bl[k].end].op # "jmp_ptr" =>
                         \A j \in Goes(f, bl[k].end) : \E s \in ToSet(su) : bl[s].start = j
  BY Zenon DEF Serves
<1> DEFINE insts  == f.insts
           last   == insts[bl[k].end]
           labels == TargetLabels(last)
           Places(n)  == FindLabel(insts, bl, labels[n])
           Told   == {n \in DOMAIN labels : Places(n) # {} /\ \A m \in 1 .. n - 1 : Places(m) # Places(n)}
           linked == Ascending(Told)
<1>1. insts \in Seq(Instruction)
  BY DEF WellFormed
<1>0. Divided(f, bl)
  BY <1>1, BlocksFacts
<1>2. /\ k \in Nat /\ DOMAIN bl \subseteq Nat
      /\ bl[k].start <= bl[k].end /\ bl[k].end \in DOMAIN insts
      /\ k + 1 \in DOMAIN bl => bl[k + 1].start = bl[k].end + 1
      /\ k + 1 \notin DOMAIN bl => bl[k].end = Len(insts)
  <2>1. DOMAIN bl \subseteq Nat
    BY <1>0, <1>1, DividedFacts
  <2> QED BY <2>1, <1>0, <1>1, DividedFacts, Zenon
<1>3. last \in Instruction
  BY <1>1, <1>2
<1>4. su = IF last.op \in Terminators
           THEN [n \in DOMAIN linked |-> Min(Places(linked[n]))]
           ELSE IF k + 1 \in DOMAIN bl THEN <<k + 1>> ELSE <<>>
  BY DEF Successors
<1>5. CASE last.op \notin Terminators
  <2>1. su = IF k + 1 \in DOMAIN bl THEN <<k + 1>> ELSE <<>>
    BY <1>4, <1>5
  <2>4. su \in Seq(DOMAIN bl) /\ (k + 1 \in DOMAIN bl => k + 1 \in ToSet(su))
    <3>1. CASE k + 1 \in DOMAIN bl
      <4>1. su = <<k + 1>>
        BY <2>1, <3>1
      <4>2. su \in Seq(DOMAIN bl)
        BY <4>1, <3>1
      <4>3. 1 \in DOMAIN su /\ su[1] = k + 1
        BY <4>1
      <4> QED BY <4>2, <4>3 DEF ToSet
    <3>2. CASE k + 1 \notin DOMAIN bl
      <4>1. su = <<>>
        BY <2>1, <3>2
      <4> QED BY <4>1, <3>2
    <3> QED BY <3>1, <3>2
  <2>2. Goes(f, bl[k].end) = {bl[k].end + 1} \intersect DOMAIN insts
    BY <1>5 DEF Goes, Terminators
  <2>3. \A j \in Goes(f, bl[k].end) : \E s \in ToSet(su) : bl[s].start = j
    BY <1>1, <1>2, <2>2, <2>4
  <2> QED BY <2>3, <2>4
<1>6. CASE last.op \in Terminators
  <2>1. labels \in Seq(Int) /\ DOMAIN labels = 1 .. Len(labels) /\ Len(labels) \in Nat
    <3>1. labels \in Seq(Int)
      <4>1. CASE last.op \in {"br", "cbr", "table"}
        BY <4>1, <1>3, TargetFacts
      <4>2. CASE last.op \notin {"br", "cbr", "table"}
        <5>1. labels = <<>>
          BY <4>2, <1>3, TargetFacts
        <5> QED BY <5>1
      <4> QED BY <4>1, <4>2
    <3> HIDE DEF labels
    <3> QED BY <3>1
  <2>2. Told \in SUBSET Nat /\ IsFiniteSet(Told) /\ Told \subseteq DOMAIN labels
    <3>1. IsFiniteSet(1 .. Len(labels))
      BY <2>1, FS_Interval
    <3>2. Told \in SUBSET (1 .. Len(labels))
      BY <2>1
    <3> HIDE DEF Told, labels
    <3>3. IsFiniteSet(Told)
      BY <3>1, <3>2, FS_Subset
    <3> QED BY <2>1, <3>2, <3>3
  <2>3. linked \in Seq(Told) /\ ToSet(linked) = Told
    <3> HIDE DEF Told
    <3> QED BY <2>2, AscendingFacts
  <2>4. ASSUME NEW n \in Told PROVE Places(n) \subseteq DOMAIN bl /\ Places(n) # {} /\ Min(Places(n)) \in Places(n)
    <3>1. Places(n) \subseteq DOMAIN bl /\ Places(n) # {}
      BY DEF FindLabel
    <3>2. Places(n) \subseteq Nat
      BY <3>1, <1>2
    <3> HIDE DEF Places
    <3> QED BY <3>1, <3>2, MinFacts
  <2> HIDE DEF Told, Places, linked
  <2>5. su = [n \in DOMAIN linked |-> Min(Places(linked[n]))]
    BY <1>4, <1>6
  <2>6. Len(linked) \in Nat /\ DOMAIN linked = 1 .. Len(linked)
        /\ \A n \in 1 .. Len(linked) : linked[n] \in Told
    BY <2>3
  <2>7. su \in Seq(DOMAIN bl)
    <3>1. su \in [1 .. Len(linked) -> DOMAIN bl]
      BY <2>4, <2>5, <2>6
    <3> QED BY <3>1, <2>6
  <2>8. ASSUME last.op # "jmp_ptr", NEW j \in Goes(f, bl[k].end)
        PROVE  \E s \in ToSet(su) : bl[s].start = j
    <3>1. last.op \in {"br", "cbr", "table"}
      BY <2>8, <1>6 DEF Goes, Terminators
    <3>2. PICK l \in LabelsOf(last) : j = LabelPc(f, l)
      BY <2>8, <3>1 DEF Goes
    <3>3. \E i \in DOMAIN insts : insts[i].op = "label" /\ insts[i].imm = l
      <4>1. \E i \in LabelPcs(f) : f.insts[i].imm = l
        BY <3>2, <1>2, Zenon DEF WellFormed
      <4> QED BY <4>1 DEF LabelPcs
    <3>4. j \in DOMAIN insts /\ insts[j].op = "label" /\ insts[j].imm = l /\ j \in LabelPcs(f) /\ l \in Nat
      <4>1. j \in DOMAIN insts /\ insts[j].op = "label" /\ insts[j].imm = l
        BY <3>2, <3>3, Zenon DEF LabelPc
      <4> QED BY <4>1 DEF LabelsNumbered, LabelPcs
    <3>5. PICK s \in DOMAIN bl : j \in bl[s].start .. bl[s].end
      BY <3>4, <1>0 DEF Divided
    <3>6. bl[s].start = j
      BY <3>4, <3>5, <1>0, PlaceFacts
    <3>7. LabelOf(insts, bl[s]) = l
      BY <3>4, <3>6 DEF LabelOf
    <3>8. ASSUME NEW c \in DOMAIN bl, LabelOf(insts, bl[c]) = l PROVE c = s
      <4>1. insts[bl[c].start].op = "label" /\ insts[bl[c].start].imm = l
        BY <3>4, <3>8 DEF LabelOf, None
      <4>2. bl[c].start \in bl[c].start .. bl[c].end /\ bl[c].start \in DOMAIN insts
        BY <1>0, <1>1, DividedFacts, Zenon
      <4>3. bl[c].start = j
        BY <4>1, <4>2, <3>4 DEF LabelsNumbered, LabelPcs
      <4>4. j \in bl[c].start .. bl[c].end
        BY <4>2, <4>3
      <4> QED BY <4>4, <3>5, <1>0, PlaceFacts
    <3>9. PICK n \in DOMAIN labels : labels[n] = l
      BY <3>1, <3>2, <1>3, TargetFacts DEF ToSet
    <3>10. Places(n) = {s}
      BY <3>7, <3>8, <3>9 DEF Places, FindLabel
    <3> DEFINE T == {m \in DOMAIN labels : Places(m) = {s}}
    <3>11. T \subseteq Nat /\ T # {}
      BY <3>9, <3>10, <2>1
    <3>12. PICK m \in T : \A h \in T : m <= h
      <4> HIDE DEF T
      <4> QED BY <3>11, HasLeast
    <3>13. m \in Told
      <4>1. m \in DOMAIN labels /\ Places(m) = {s}
        OBVIOUS
      <4>2. ASSUME NEW h \in 1 .. m - 1 PROVE Places(h) # Places(m)
        <5>1. h \in DOMAIN labels /\ ~ (m <= h)
          BY <4>1, <2>1
        <5>2. h \notin T
          BY <5>1, <3>12
        <5> QED BY <5>1, <5>2, <4>1
      <4> HIDE DEF T, labels
      <4> QED BY <4>1, <4>2 DEF Told
    <3>14. PICK q \in DOMAIN linked : linked[q] = m
      BY <3>13, <2>3 DEF ToSet
    <3>15. Min({s}) = s
      <4>1. Min({s}) \in {s}
        <5>1. {s} \subseteq Nat /\ {s} # {}
          BY <1>2
        <5> QED BY <5>1, MinFacts
      <4> QED BY <4>1
    <3>16. su[q] = s /\ q \in DOMAIN su
      BY <3>14, <3>15, <2>5
    <3> QED BY <3>16, <3>6 DEF ToSet
  <2> QED BY <2>7, <2>8
<1> QED BY <1>5, <1>6

(* The graph that cfg_build makes of a function is as domtree_build and    *)
(* regalloc_run rely on: succs and preds are the same edges, no edge is    *)
(* there twice, and a block whose last instruction does not jump through a *)
(* pointer has an edge to wherever that instruction can go.                *)
THEOREM GraphServes ==
  ASSUME NEW f, WellFormed(f), f.insts # <<>>, LabelsNumbered(f)
  PROVE  IsGraph(Graph(f.insts)) /\ GraphOf(f, Graph(f.insts))
<1> SUFFICES ASSUME NEW bl, bl = Blocks(f.insts),
                    NEW su, su = [k \in DOMAIN bl |-> Successors(f.insts, bl, k)],
                    NEW g, g = [blocks |-> bl, succs |-> su,
                                preds |-> [k \in DOMAIN bl |->
                                            Ascending({p \in DOMAIN bl : k \in ToSet(su[p])})]]
             PROVE  IsGraph(g) /\ GraphOf(f, g)
  BY Zenon DEF Graph
<1> DEFINE N == DOMAIN bl
           Into(k) == {p \in N : k \in ToSet(su[p])}
<1>1. f.insts \in Seq(Instruction)
  BY DEF WellFormed
<1>2. g = [blocks |-> bl, succs |-> su, preds |-> [k \in N |-> Ascending(Into(k))]]
  OBVIOUS
<1>0. Divided(f, bl)
  BY <1>1, BlocksFacts
<1>3. bl \in Seq([start : Nat \ {0}, end : Nat]) /\ bl # <<>> /\ N = 1 .. Len(bl) /\ Len(bl) \in Nat
  BY <1>0 DEF Divided
<1>4. ASSUME NEW k \in N
      PROVE  /\ su[k] \in Seq(N)
             /\ f.insts[bl[k].end].op # "jmp_ptr" =>
                  \A j \in Goes(f, bl[k].end) : \E s \in ToSet(su[k]) : bl[s].start = j
  <2>1. k \in DOMAIN bl /\ su[k] = Successors(f.insts, bl, k)
    OBVIOUS
  <2>2. Serves(f, bl, k, su[k])
    BY <2>1, SuccessorFacts
  <2> QED BY <2>2 DEF Serves
<1>5. ASSUME NEW k \in N
      PROVE  /\ Ascending(Into(k)) \in Seq(N) /\ ToSet(Ascending(Into(k))) = Into(k)
             /\ IsInjective(Ascending(Into(k)))
  <2> DEFINE s == Ascending(Into(k))
  <2>1. IsFiniteSet(1 .. Len(bl)) /\ Into(k) \in SUBSET (1 .. Len(bl))
    BY <1>3, FS_Interval
  <2> HIDE DEF Into
  <2>2. IsFiniteSet(Into(k)) /\ Into(k) \in SUBSET Nat
    BY <2>1, <1>3, FS_Subset
  <2>3. s \in Seq(Into(k)) /\ ToSet(s) = Into(k) /\ \A i, j \in DOMAIN s : i < j => s[i] < s[j]
    BY <2>2, AscendingFacts
  <2> HIDE DEF s
  <2>4. Len(s) \in Nat /\ DOMAIN s = 1 .. Len(s) /\ \A i \in 1 .. Len(s) : s[i] \in Into(k) /\ s[i] \in Nat
    BY <2>2, <2>3
  <2>5. s \in Seq(N)
    <3>1. s \in [1 .. Len(s) -> N]
      BY <2>1, <2>3, <2>4, <1>3
    <3> QED BY <3>1, <2>4
  <2>6. IsInjective(s)
    <3> SUFFICES ASSUME NEW i \in 1 .. Len(s), NEW j \in 1 .. Len(s), s[i] = s[j] PROVE i = j
      BY <2>4 DEF IsInjective
    <3>1. ~ (i < j) /\ ~ (j < i)
      BY <2>3, <2>4
    <3> QED BY <3>1
  <2> QED BY <2>3, <2>5, <2>6 DEF s
<1>6. IsGraph(g)
  <2>1. Nodes(g) = N
    BY <1>2 DEF Nodes
  <2>2. g.blocks \in Seq([start : Nat, end : Nat]) /\ g.blocks # <<>>
    <3> DEFINE T == [start : Nat, end : Nat]
    <3> DEFINE U == [start : Nat \ {0}, end : Nat]
    <3>1. U \subseteq T
      OBVIOUS
    <3>5. bl \in Seq(U)
      BY <1>3
    <3> HIDE DEF T, U, N
    <3>2. bl \in [1 .. Len(bl) -> T]
      BY <1>3, <3>1, <3>5
    <3>3. bl \in Seq(T)
      BY <1>3, <3>2
    <3>4. g.blocks = bl
      BY <1>2
    <3> QED BY <1>3, <3>3, <3>4 DEF T
  <2> HIDE DEF N
  <2>3. g.succs \in [N -> Seq(N)] /\ g.preds \in [N -> Seq(N)] /\ g.succs = su
        /\ \A b \in N : g.preds[b] = Ascending(Into(b))
    <3>1. su \in [N -> Seq(N)]
      <4>1. su = [k \in N |-> su[k]]
        BY DEF N
      <4> HIDE DEF N
      <4> QED BY <4>1, <1>4
    <3>2. g.succs = su /\ g.preds = [k \in N |-> Ascending(Into(k))]
      <4> DEFINE pr == [k \in N |-> Ascending(Into(k))]
      <4>1. g = [blocks |-> bl, succs |-> su, preds |-> pr]
        BY <1>2
      <4> HIDE DEF pr
      <4>2. g.succs = su /\ g.preds = pr
        BY ONLY <4>1
      <4> QED BY <4>2 DEF pr
    <3> HIDE DEF Into
    <3>3. \A b \in N : g.preds[b] = Ascending(Into(b)) /\ g.preds[b] \in Seq(N)
      BY <3>2, <1>5
    <3> QED BY <3>1, <3>2, <3>3
  <2>4. \A a, b \in N : a \in ToSet(g.preds[b]) <=> b \in ToSet(g.succs[a])
    BY <2>3, <1>5
  <2>5. \A b \in N : IsInjective(g.preds[b])
    BY <2>3, <1>5
  <2> QED BY <2>1, <2>2, <2>3, <2>4, <2>5 DEF IsGraph
<1>7. GraphOf(f, g)
  <2>1. g.blocks = bl /\ g.succs = su
    BY <1>2
  <2>2. \A i \in DOMAIN f.insts : \E b \in N : i \in bl[b].start .. bl[b].end
    BY <1>0 DEF Divided
  <2>3. ASSUME NEW b \in N
        PROVE  /\ bl[b].start <= bl[b].end
               /\ \A i \in bl[b].start .. bl[b].end :
                    /\ i \in DOMAIN f.insts
                    /\ \A c \in N \ {b} : i \notin bl[c].start .. bl[c].end
                    /\ i # bl[b].start => f.insts[i].op # "label"
                    /\ i # bl[b].end => f.insts[i].op \notin Terminators
    BY <1>0, Zenon DEF Divided
  <2>4. su \in [N -> Seq(N)]
    BY <1>4
  <2>5. ASSUME NEW b \in N, NEW i \in bl[b].start .. bl[b].end
        PROVE  IF i # bl[b].end THEN f.insts[i].op \notin Terminators
               ELSE f.insts[i].op = "jmp_ptr" \/
                    \A j \in Goes(f, i) : \E s \in ToSet(su[b]) : bl[s].start = j
    <3>1. CASE i # bl[b].end
      BY <3>1, <2>3
    <3>2. CASE i = bl[b].end
      BY <3>2, <1>4
    <3> QED BY <3>1, <3>2
  <2>6. bl \in Seq([start : Nat \ {0}, end : Nat]) /\ bl # <<>>
    BY <1>3
  <2>7. ASSUME NEW b \in DOMAIN bl
        PROVE  /\ bl[b].start <= bl[b].end
               /\ \A i \in bl[b].start .. bl[b].end :
                    /\ i \in DOMAIN f.insts
                    /\ \A c \in DOMAIN bl \ {b} : i \notin bl[c].start .. bl[c].end
                    /\ i # bl[b].start => f.insts[i].op # "label"
                    /\ IF i # bl[b].end THEN f.insts[i].op \notin Terminators
                       ELSE f.insts[i].op = "jmp_ptr" \/
                            \A j \in Goes(f, i) : \E s \in ToSet(su[b]) : bl[s].start = j
    <3>1. b \in N
      OBVIOUS
    <3> HIDE DEF N
    <3>2. \A i \in bl[b].start .. bl[b].end :
            IF i # bl[b].end THEN f.insts[i].op \notin Terminators
            ELSE f.insts[i].op = "jmp_ptr" \/
                 \A j \in Goes(f, i) : \E s \in ToSet(su[b]) : bl[s].start = j
      BY <3>1, <2>5
    <3> QED BY <3>1, <3>2, <2>3, Zenon DEF N
  <2>8. su \in [DOMAIN bl -> Seq(DOMAIN bl)]
    BY <2>4
  <2>9. \A i \in DOMAIN f.insts : \E b \in DOMAIN bl : i \in bl[b].start .. bl[b].end
    BY <2>2
  <2> HIDE DEF N
  <2>10. g.blocks \in Seq([start : Nat \ {0}, end : Nat]) /\ g.blocks # <<>>
    BY ONLY <2>1, <2>6
  <2>11. g.succs \in [DOMAIN g.blocks -> Seq(DOMAIN g.blocks)]
    BY ONLY <2>1, <2>8
  <2>12. \A i \in DOMAIN f.insts : \E b \in DOMAIN g.blocks :
            i \in g.blocks[b].start .. g.blocks[b].end
    BY ONLY <2>1, <2>9
  <2>13. ASSUME NEW b \in DOMAIN g.blocks
         PROVE  /\ g.blocks[b].start <= g.blocks[b].end
                /\ \A i \in g.blocks[b].start .. g.blocks[b].end :
                     /\ i \in DOMAIN f.insts
                     /\ \A c \in DOMAIN g.blocks \ {b} :
                          i \notin g.blocks[c].start .. g.blocks[c].end
                     /\ i # g.blocks[b].start => f.insts[i].op # "label"
                     /\ IF i # g.blocks[b].end THEN f.insts[i].op \notin Terminators
                        ELSE f.insts[i].op = "jmp_ptr" \/
                             \A j \in Goes(f, i) : \E s \in ToSet(g.succs[b]) : g.blocks[s].start = j
    BY ONLY <2>1, <2>7, b \in DOMAIN g.blocks
  <2> QED BY ONLY <2>10, <2>11, <2>12, <2>13, Zenon DEF GraphOf
<1> QED BY <1>6, <1>7
=============================================================================
