---------------------------- MODULE LinkerProofs ----------------------------
(***************************************************************************)
(* The linker binds names as they are meant, for any number of modules,    *)
(* symbols and references: every phase leaves its lists as a function of   *)
(* the program (the invariant), and what those functions give a reference, *)
(* case by case, is what C and ELF say of its name, outside the five known *)
(* situations.                                                             *)
(***************************************************************************)
EXTENDS Linker, WellFoundedInduction, TLAPS

-----------------------------------------------------------------------------
(* The first of a set of symbols.                                          *)

Below == {ss \in Nat \X Nat : ss[1] < ss[2]}

LEMMA BelowWellFounded == IsWellFoundedOn(Below, Nat)
<1>1. OpToRel(<, Nat) = Below
  BY Zenon DEF OpToRel, Below
<1> QED BY <1>1, NatLessThanWellFounded, Zenon

LEMMA HasLeast ==
  ASSUME NEW S, S \subseteq Nat, S # {}
  PROVE  \E g \in S : \A h \in S : g <= h
<1>1. \A x, y \in Nat : x < y => <<x, y>> \in Below
  BY DEF Below
<1>2. PICK g \in S : \A h \in S : ~(<<h, g>> \in Below)
  BY BelowWellFounded, WFMin, Zenon
<1>3. \A h \in S : ~(h < g)
  BY <1>1, <1>2
<1>4. \A h \in S : g <= h
  BY <1>3
<1> QED BY <1>2, <1>4

LEMMA FirstFacts ==
  ASSUME NEW S, S \subseteq Nat, S # {}
  PROVE  First(S) \in S /\ \A h \in S : First(S) <= h
BY HasLeast, Zenon DEF First

-----------------------------------------------------------------------------
(* What the assumption on programs says of the symbols and references.     *)

Shape ==
  /\ program.shared \in BOOLEAN
  /\ Symbols \subseteq Nat \ {0}
  /\ \A g \in Symbols :
       /\ Bind(g) \in {"local", "global", "weak"} /\ Section(g) \in Sections
       /\ Section(g) = "common" => Bind(g) # "local"
       /\ \A h \in Symbols :
            /\ Name(g) = Name(h) /\ Bind(g) = "global" /\ Bind(h) = "global"
            /\ Section(g) \notin {"undef", "common"} /\ Section(h) \notin {"undef", "common"}
            => g = h
  /\ \A r \in Refs :
       /\ r.sym \in Symbols /\ r.kind \in RefKinds
       /\ r.kind = "got" => Bind(r.sym) # "local"
       /\ r.kind = "call" \/ Type(r.sym) = "func" => program.libs[Name(r.sym)] # "object"
       /\ r.kind \in {"ie", "le"} =>
            /\ Type(r.sym) = "tls" /\ program.libs[Name(r.sym)] \in {"none", "tls"}
            /\ \A h \in Named(Name(r.sym)) : Section(h) \in {"undef", "tls"}
       /\ r.kind \notin {"ie", "le"} =>
            Type(r.sym) # "tls" /\ program.libs[Name(r.sym)] \in {"none", "func", "object"}

LEMMA ProgramShape ==
  ASSUME program \in Programs
  PROVE  Shape
<1>1. WellFormed(program)
  BY LinkerAssumption
<1>2. program.shared \in BOOLEAN /\ Symbols \subseteq Nat \ {0}
  BY <1>1 DEF WellFormed, Symbols
<1>3. ASSUME NEW g \in Symbols
      PROVE  /\ Bind(g) \in {"local", "global", "weak"} /\ Section(g) \in Sections
             /\ Section(g) = "common" => Bind(g) # "local"
             /\ \A h \in Symbols :
                  /\ Name(g) = Name(h) /\ Bind(g) = "global" /\ Bind(h) = "global"
                  /\ Section(g) \notin {"undef", "common"} /\ Section(h) \notin {"undef", "common"}
                  => g = h
  BY <1>1 DEF WellFormed, Symbols, Bind, Section, Name, StrongIn
<1>4. ASSUME NEW r \in Refs
      PROVE  /\ r.sym \in Symbols /\ r.kind \in RefKinds
             /\ r.kind = "got" => Bind(r.sym) # "local"
             /\ r.kind = "call" \/ Type(r.sym) = "func" => program.libs[Name(r.sym)] # "object"
             /\ r.kind \in {"ie", "le"} =>
                  /\ Type(r.sym) = "tls" /\ program.libs[Name(r.sym)] \in {"none", "tls"}
                  /\ \A h \in Named(Name(r.sym)) : Section(h) \in {"undef", "tls"}
             /\ r.kind \notin {"ie", "le"} =>
                  Type(r.sym) # "tls" /\ program.libs[Name(r.sym)] \in {"none", "func", "object"}
  BY <1>1 DEF WellFormed, Symbols, Refs, Bind, Section, Name, Type, Named
<1> QED BY <1>2, <1>3, <1>4 DEF Shape

-----------------------------------------------------------------------------
(* find_export_gsi finds a definition if there is one, and the one that    *)
(* prevails unless weak and tentative definitions are all there are.       *)

Strengths(nm) == {Strength(g) : g \in Candidates(nm)}

LEMMA ExportFacts ==
  ASSUME Shape, NEW nm
  PROVE  /\ Exported(nm) <=> Candidates(nm) # {}
         /\ Exported(nm) => FindExport(nm) \in Candidates(nm)
         /\ Exported(nm) /\ Strengths(nm) # {2, 3} =>
              Prevails(FindExport(nm)) /\ Winner(nm) = FindExport(nm)
<1> DEFINE G == Exporting(nm, "global")
           W == Exporting(nm, "weak")
           C == Tentative(nm)
           F == FindExport(nm)
<1>1. G \subseteq Symbols /\ W \subseteq Symbols /\ C \subseteq Symbols /\ Symbols \subseteq Nat /\ 0 \notin Symbols
  BY DEF Exporting, Tentative, Named, Shape
<1>2. /\ G # {} => First(G) \in G /\ \A h \in G : First(G) <= h
      /\ W # {} => First(W) \in W /\ \A h \in W : First(W) <= h
      /\ C # {} => First(C) \in C /\ \A h \in C : First(C) <= h
  BY <1>1, FirstFacts
<1>3. /\ G # {} => F = First(G)
      /\ G = {} /\ W # {} => F = First(W)
      /\ G = {} /\ W = {} /\ C # {} => F = First(C)
      /\ G = {} /\ W = {} /\ C = {} => F = None
  BY DEF FindExport
<1>4. Candidates(nm) = G \cup W \cup C
  BY DEF Candidates, Exporting, Tentative, Named, Defined, Shape, Sections
<1>5. Exported(nm) <=> Candidates(nm) # {}
  BY <1>1, <1>2, <1>3, <1>4 DEF Exported, None
<1>6. Exported(nm) => F \in Candidates(nm)
  BY <1>2, <1>3, <1>4, <1>5
<1>7. /\ \A h \in G : Strength(h) = 1
      /\ \A h \in W : Strength(h) = 3
      /\ \A h \in C : Strength(h) = 2
  BY DEF Strength, Exporting, Tentative
<1>8. G = {} /\ W # {} /\ C # {} => Strengths(nm) = {2, 3}
  BY <1>4, <1>7 DEF Strengths
<1>9. ASSUME Exported(nm), Strengths(nm) # {2, 3}
      PROVE  \A h \in Candidates(nm) : Strength(F) < Strength(h) \/ (Strength(F) = Strength(h) /\ F <= h)
  <2>1. CASE G # {}
    BY <2>1, <1>1, <1>2, <1>3, <1>4, <1>7
  <2>2. CASE G = {} /\ W # {}
    BY <2>2, <1>1, <1>2, <1>3, <1>4, <1>7, <1>8, <1>9
  <2>3. CASE G = {} /\ W = {}
    BY <2>3, <1>1, <1>2, <1>3, <1>4, <1>5, <1>7, <1>9
  <2> QED BY <2>1, <2>2, <2>3
<1>10. ASSUME Exported(nm), Strengths(nm) # {2, 3}
       PROVE  Prevails(F) /\ Winner(nm) = F
  <2>1. \A g \in Candidates(nm) : Name(g) = nm /\ g \in Nat /\ Strength(g) \in Nat
    BY <1>1, <1>4 DEF Candidates, Named, Strength
  <2>2. Prevails(F)
    BY <1>6, <1>9, <1>10, <2>1 DEF Prevails
  <2>3. \A g \in Candidates(nm) : Prevails(g) => g = F
    BY <1>6, <1>9, <1>10, <2>1 DEF Prevails
  <2>4. Winner(nm) \in Candidates(nm) /\ Prevails(Winner(nm))
    BY <1>6, <1>10, <2>2, Zenon DEF Winner
  <2> QED BY <2>2, <2>3, <2>4
<1> QED BY <1>5, <1>6, <1>10

-----------------------------------------------------------------------------
(* The invariant: what each phase leaves, as a function of the program.    *)

PltFirst == TextPlt \cup DataPlt
CopiedFirst ==
  IF program.shared THEN {}
  ELSE SymbolsOf({r \in OfKind({"pc", "abs"}) :
         /\ External(r.sym) /\ r.sym \notin PltFirst
         /\ IF r.kind = "pc" THEN MaybeObject(r.sym) ELSE Type(r.sym) = "object"})
Objects == {g \in CopiedFirst : program.libs[Name(g)] = "object"}
PltLast == PltFirst \cup (CopiedFirst \ Objects)
GotNames == {Name(g) : g \in SymbolsOf(OfKind({"got"}))}
TlsSymbols == SymbolsOf(OfKind({"ie"}))
CommonNames == {Name(g) : g \in {h \in Symbols : Section(h) = "common"
                                              /\ Section(FindExport(Name(h))) = "common"}}
Imports == \/ program.shared \/ PltFirst # {} \/ {nm \in GotNames : ~Exported(nm)} # {}
           \/ CopiedFirst # {} \/ {g \in TlsSymbols : TlsHome(TlsSlotOf(g)) = None} # {}

Phases == {"commons", "plt", "got", "tls", "copies", "dynamic", "lookup", "place", "text", "data",
           "entry", "linked", "failed"}
Placed == {"text", "data", "entry", "linked", "failed"}
LookedUp == {"place"} \cup Placed
Slotted == {"copies", "dynamic", "lookup"} \cup LookedUp

PltInv ==
  /\ phase \in {"commons", "plt"} => plt = {}
  /\ phase \in {"got", "tls", "copies", "dynamic", "lookup"} => plt = PltFirst
  /\ phase \in LookedUp => plt = PltLast
CopiedInv ==
  /\ phase \in {"commons", "plt", "got", "tls", "copies"} => copied = {}
  /\ phase \in {"dynamic", "lookup"} => copied = CopiedFirst
  /\ phase \in LookedUp => copied = Objects
GotInv == IF phase \in {"commons", "plt", "got"} THEN got = {} ELSE got = GotNames
TlsInv == IF phase \in Slotted THEN tlsSlot = [g \in TlsSymbols |-> TlsSlotOf(g)] ELSE tlsSlot = <<>>
CommonInv == IF phase = "commons" THEN commons = {} ELSE commons = CommonNames
DynamicInv == IF phase \in {"lookup"} \cup LookedUp THEN dynamic = Imports ELSE dynamic = FALSE
PlaceInv == phase \in Placed => place = [g \in Symbols |-> Storage(g)]
BoundInv ==
  /\ phase \notin {"data", "entry", "linked", "failed"} => bound = <<>>
  /\ phase \in {"data", "entry", "linked", "failed"} =>
       DOMAIN bound \subseteq Refs /\ \A r \in DOMAIN bound : bound[r] = ApplyOne(r)
  /\ phase = "data" => DOMAIN bound = TextRefs
  /\ phase \in {"data", "entry", "linked"} => \A r \in LocalExec : ApplyOne(r) # Missing
  /\ phase \in {"entry", "linked"} => DOMAIN bound = Refs /\ \A r \in OfKind({"abs"}) : ApplyOne(r) # Missing
FailureInv ==
  /\ phase # "failed" <=> failure = ""
  /\ failure \in {"", "local-exec in a shared object", "undefined thread-local", "no slot", "no main"}
  /\ failure = "no slot" => \E r \in OfKind({"abs"}) : ApplyOne(r) = Missing
  /\ failure = "undefined thread-local" => \E r \in LocalExec : ApplyOne(r) = Missing
  /\ failure = "local-exec in a shared object" => program.shared /\ LocalExec # {}
  /\ failure = "no main" => ~program.shared /\ Main = {}

IInv ==
  /\ program \in Programs /\ phase \in Phases
  /\ PltInv /\ CopiedInv /\ GotInv /\ TlsInv /\ CommonInv /\ DynamicInv
  /\ PlaceInv /\ BoundInv /\ FailureInv

-----------------------------------------------------------------------------
(* What depends on the program alone does not change.                      *)

LEMMA Frozen ==
  ASSUME program' = program
  PROVE  /\ Symbols' = Symbols /\ Refs' = Refs
         /\ \A g : Name(g)' = Name(g) /\ Bind(g)' = Bind(g) /\ Section(g)' = Section(g) /\ Type(g)' = Type(g)
BY DEF Symbols, Refs, Name, Bind, Section, Type

LEMMA FrozenExports ==
  ASSUME program' = program
  PROVE  /\ \A nm : Named(nm)' = Named(nm) /\ FindExport(nm)' = FindExport(nm)
                   /\ Exported(nm)' = Exported(nm)
         /\ \A g : Defined(g)' = Defined(g) /\ External(g)' = External(g) /\ Static(g)' = Static(g)
                  /\ MaybeObject(g)' = MaybeObject(g) /\ TlsHome(g)' = TlsHome(g) /\ Storage(g)' = Storage(g)
<1>1. \A g : Defined(g)' = Defined(g) /\ Static(g)' = Static(g) /\ MaybeObject(g)' = MaybeObject(g)
  BY Frozen DEF Defined, Static, MaybeObject
<1>2. \A nm : Named(nm)' = Named(nm)
  BY Frozen DEF Named
<1>3. \A nm, b : Exporting(nm, b)' = Exporting(nm, b)
  BY Frozen, <1>2 DEF Exporting
<1>4. \A nm : Tentative(nm)' = Tentative(nm)
  BY Frozen, <1>2 DEF Tentative
<1>5. \A nm : FindExport(nm)' = FindExport(nm) /\ Exported(nm)' = Exported(nm)
  BY <1>3, <1>4 DEF FindExport, Exported
<1>6. \A g : External(g)' = External(g)
  BY <1>1, <1>5, Frozen DEF External
<1>7. \A g : TlsHome(g)' = TlsHome(g) /\ Storage(g)' = Storage(g)
  BY <1>5, Frozen DEF TlsHome, InTls, Storage
<1> QED BY <1>1, <1>2, <1>5, <1>6, <1>7

LEMMA FrozenLists ==
  ASSUME program' = program
  PROVE  /\ \A ks : OfKind(ks)' = OfKind(ks)
         /\ TextRefs' = TextRefs /\ LocalExec' = LocalExec /\ Main' = Main
         /\ PltFirst' = PltFirst /\ CopiedFirst' = CopiedFirst /\ Objects' = Objects /\ PltLast' = PltLast
         /\ GotNames' = GotNames /\ TlsSymbols' = TlsSymbols /\ CommonNames' = CommonNames
         /\ Imports' = Imports /\ \A g : TlsSlotOf(g)' = TlsSlotOf(g)
<1> USE Frozen, FrozenExports
<1>1. \A ks : OfKind(ks)' = OfKind(ks)
  BY DEF OfKind
<1>2. TextRefs' = TextRefs /\ LocalExec' = LocalExec /\ TlsSymbols' = TlsSymbols /\ GotNames' = GotNames
  BY <1>1 DEF TextRefs, LocalExec, TlsSymbols, GotNames
<1>3. PltFirst' = PltFirst
  BY <1>1 DEF PltFirst, TextPlt, DataPlt
<1>4. CopiedFirst' = CopiedFirst
  BY <1>1, <1>3 DEF CopiedFirst
<1>5. Objects' = Objects /\ PltLast' = PltLast
  BY <1>3, <1>4 DEF Objects, PltLast
<1>6. CommonNames' = CommonNames
  BY DEF CommonNames
<1>7. \A g : TlsSlotOf(g)' = TlsSlotOf(g)
  BY <1>1 DEF TlsSlotOf, SharedSlot
<1>8. Imports' = Imports
  BY <1>2, <1>3, <1>4, <1>7 DEF Imports
<1>9. Main' = Main
  BY DEF Main
<1> QED BY <1>1, <1>2, <1>3, <1>4, <1>5, <1>6, <1>7, <1>8, <1>9

LEMMA FrozenPlaces ==
  ASSUME UNCHANGED <<program, plt, copied, tlsSlot, place>>
  PROVE  \A r : ApplyOne(r)' = ApplyOne(r)
<1> USE Frozen, FrozenExports, FrozenLists
<1>1. \A g, k, o : Direct(g, k, o)' = Direct(g, k, o)
  BY DEF Direct
<1>2. \A nm : ThroughGot(nm)' = ThroughGot(nm)
  BY DEF ThroughGot
<1>3. \A g : ThroughTlsSlot(g)' = ThroughTlsSlot(g) /\ TextKeeps(g)' = TextKeeps(g) /\ DataKeeps(g)' = DataKeeps(g)
  BY DEF ThroughTlsSlot, TextKeeps, DataKeeps
<1> QED BY <1>1, <1>2, <1>3 DEF ApplyOne

-----------------------------------------------------------------------------
(* The invariant holds.                                                    *)

LEMMA InitIInv == Init => IInv
BY DEF Init, IInv, Phases, Slotted, LookedUp, Placed, PltInv, CopiedInv, GotInv, TlsInv, CommonInv, DynamicInv,
       PlaceInv, BoundInv, FailureInv

LEMMA StepIInv == IInv /\ [Next]_vars => IInv'
<1> SUFFICES ASSUME IInv, [Next]_vars PROVE IInv'
  OBVIOUS
<1> USE DEF Phases, Slotted, LookedUp, Placed
<1>0. program' = program
  BY DEF Next, vars, MergeCommons, AssignPlt, AssignGot, AssignTls, AssignCopies, NeedDynamic, LookUpCopies,
         PlaceSymbols, ApplyText, ApplyData, FindMain
<1>p. program \in Programs /\ phase \in Phases
  BY DEF IInv
<1>q. /\ PltInv /\ CopiedInv /\ GotInv /\ TlsInv /\ CommonInv /\ DynamicInv /\ PlaceInv /\ BoundInv /\ FailureInv
  BY DEF IInv
<1>s. Shape
  BY <1>p, ProgramShape
<1>1. CASE MergeCommons
  <2> USE <1>1, <1>0, <1>q, <1>p, Frozen, FrozenExports, FrozenLists DEF MergeCommons
  <2>1. phase' = "plt" /\ commons' = CommonNames
    BY DEF CommonNames
  <2>2. PltInv' /\ CopiedInv' /\ GotInv' /\ TlsInv'
    BY <2>1 DEF PltInv, CopiedInv, GotInv, TlsInv
  <2>3. CommonInv' /\ DynamicInv' /\ PlaceInv'
    BY <2>1 DEF CommonInv, DynamicInv, PlaceInv
  <2>4. BoundInv' /\ FailureInv'
    BY <2>1 DEF BoundInv, FailureInv
  <2> QED BY <2>1, <2>2, <2>3, <2>4 DEF IInv
<1>2. CASE AssignPlt
  <2> USE <1>2, <1>0, <1>q, <1>p, Frozen, FrozenExports, FrozenLists DEF AssignPlt
  <2>1. phase' = "got" /\ plt' = PltFirst
    BY DEF PltFirst
  <2>2. PltInv' /\ CopiedInv' /\ GotInv' /\ TlsInv'
    BY <2>1 DEF PltInv, CopiedInv, GotInv, TlsInv
  <2>3. CommonInv' /\ DynamicInv' /\ PlaceInv'
    BY <2>1 DEF CommonInv, DynamicInv, PlaceInv
  <2>4. BoundInv' /\ FailureInv'
    BY <2>1 DEF BoundInv, FailureInv
  <2> QED BY <2>1, <2>2, <2>3, <2>4 DEF IInv
<1>3. CASE AssignGot
  <2> USE <1>3, <1>0, <1>q, <1>p, Frozen, FrozenExports, FrozenLists DEF AssignGot
  <2>1. phase' = "tls" /\ got' = GotNames
    BY DEF GotNames
  <2>2. PltInv' /\ CopiedInv' /\ GotInv' /\ TlsInv'
    BY <2>1 DEF PltInv, CopiedInv, GotInv, TlsInv
  <2>3. CommonInv' /\ DynamicInv' /\ PlaceInv'
    BY <2>1 DEF CommonInv, DynamicInv, PlaceInv
  <2>4. BoundInv' /\ FailureInv'
    BY <2>1 DEF BoundInv, FailureInv
  <2> QED BY <2>1, <2>2, <2>3, <2>4 DEF IInv
<1>4. CASE AssignTls
  <2> USE <1>4, <1>0, <1>q, <1>p, Frozen, FrozenExports, FrozenLists DEF AssignTls
  <2>1. phase' = "copies" /\ tlsSlot' = [g \in TlsSymbols |-> TlsSlotOf(g)]
    BY DEF TlsSymbols
  <2>2. PltInv' /\ CopiedInv' /\ GotInv'
    BY <2>1 DEF PltInv, CopiedInv, GotInv
  <2>3. TlsInv'
    BY <2>1 DEF TlsInv
  <2>4. CommonInv' /\ DynamicInv' /\ PlaceInv'
    BY <2>1 DEF CommonInv, DynamicInv, PlaceInv
  <2>5. BoundInv' /\ FailureInv'
    BY <2>1 DEF BoundInv, FailureInv
  <2> QED BY <2>1, <2>2, <2>3, <2>4, <2>5 DEF IInv
<1>5. CASE AssignCopies
  <2> USE <1>5, <1>0, <1>q, <1>p, Frozen, FrozenExports, FrozenLists DEF AssignCopies
  <2>0. plt = PltFirst
    BY DEF PltInv
  <2>1. phase' = "dynamic" /\ copied' = CopiedFirst
    BY <2>0 DEF CopiedFirst
  <2>2. PltInv' /\ CopiedInv' /\ GotInv' /\ TlsInv'
    BY <2>1 DEF PltInv, CopiedInv, GotInv, TlsInv
  <2>3. CommonInv' /\ DynamicInv' /\ PlaceInv'
    BY <2>1 DEF CommonInv, DynamicInv, PlaceInv
  <2>4. BoundInv' /\ FailureInv'
    BY <2>1 DEF BoundInv, FailureInv
  <2> QED BY <2>1, <2>2, <2>3, <2>4 DEF IInv
<1>6. CASE NeedDynamic
  <2> USE <1>6, <1>0, <1>q, <1>p, Frozen, FrozenExports, FrozenLists DEF NeedDynamic
  <2>0. plt = PltFirst /\ copied = CopiedFirst /\ got = GotNames /\ tlsSlot = [g \in TlsSymbols |-> TlsSlotOf(g)]
    BY DEF PltInv, CopiedInv, GotInv, TlsInv
  <2>1. phase' = "lookup" /\ dynamic' = Imports
    BY <2>0 DEF Imports, GotImported, TlsImported
  <2>2. PltInv' /\ CopiedInv' /\ GotInv' /\ TlsInv'
    BY <2>1 DEF PltInv, CopiedInv, GotInv, TlsInv
  <2>3. CommonInv' /\ DynamicInv' /\ PlaceInv'
    BY <2>1 DEF CommonInv, DynamicInv, PlaceInv
  <2>4. BoundInv' /\ FailureInv'
    BY <2>1 DEF BoundInv, FailureInv
  <2> QED BY <2>1, <2>2, <2>3, <2>4 DEF IInv
<1>7. CASE LookUpCopies
  <2> USE <1>7, <1>0, <1>q, <1>p, Frozen, FrozenExports, FrozenLists DEF LookUpCopies
  <2>0. plt = PltFirst /\ copied = CopiedFirst
    BY DEF PltInv, CopiedInv
  <2>1. phase' = "place" /\ copied' = Objects /\ plt' = PltLast
    BY <2>0 DEF Objects, PltLast, ReallyObjects
  <2>2. PltInv' /\ CopiedInv' /\ GotInv' /\ TlsInv'
    BY <2>1 DEF PltInv, CopiedInv, GotInv, TlsInv
  <2>3. CommonInv' /\ DynamicInv' /\ PlaceInv'
    BY <2>1 DEF CommonInv, DynamicInv, PlaceInv
  <2>4. BoundInv' /\ FailureInv'
    BY <2>1 DEF BoundInv, FailureInv
  <2> QED BY <2>1, <2>2, <2>3, <2>4 DEF IInv
<1>8. CASE PlaceSymbols
  <2> USE <1>8, <1>0, <1>q, <1>p, Frozen, FrozenExports, FrozenLists DEF PlaceSymbols
  <2>1. phase' = "text"
    OBVIOUS
  <2>2. PltInv' /\ CopiedInv' /\ GotInv' /\ TlsInv'
    BY <2>1 DEF PltInv, CopiedInv, GotInv, TlsInv
  <2>3. CommonInv' /\ DynamicInv'
    BY <2>1 DEF CommonInv, DynamicInv
  <2>4. PlaceInv'
    BY <2>1 DEF PlaceInv
  <2>5. BoundInv' /\ FailureInv'
    BY <2>1 DEF BoundInv, FailureInv
  <2> QED BY <2>1, <2>2, <2>3, <2>4, <2>5 DEF IInv
<1>9. CASE ApplyText
  <2> USE <1>9, <1>0, <1>q, <1>p, Frozen, FrozenExports, FrozenLists, FrozenPlaces
  <2>1. phase = "text" /\ phase' \in {"data", "failed"} /\ (phase' = "data" <=> failure' = "")
        /\ UNCHANGED <<program, commons, plt, got, tlsSlot, copied, dynamic, place>>
        /\ bound' = [r \in TextRefs |-> ApplyOne(r)]
        /\ failure' = CASE program.shared /\ LocalExec # {} -> "local-exec in a shared object"
                         [] ~program.shared /\ \E r \in LocalExec : ApplyOne(r) = Missing -> "undefined thread-local"
                         [] OTHER -> ""
    BY DEF ApplyText
  <2>2. PltInv' /\ CopiedInv' /\ GotInv' /\ TlsInv'
    BY <2>1 DEF PltInv, CopiedInv, GotInv, TlsInv
  <2>3. CommonInv' /\ DynamicInv' /\ PlaceInv'
    BY <2>1 DEF CommonInv, DynamicInv, PlaceInv
  <2>4. TextRefs \subseteq Refs
    BY DEF TextRefs, OfKind
  <2>c. failure' = "" => \A r \in LocalExec : ApplyOne(r) # Missing
    BY <1>s, <2>1 DEF Shape
  <2>5. BoundInv'
    BY <2>1, <2>4, <2>c DEF BoundInv
  <2>6. FailureInv'
    BY <2>1 DEF FailureInv
  <2> QED BY <2>1, <2>2, <2>3, <2>5, <2>6 DEF IInv
<1>10. CASE ApplyData
  <2> USE <1>10, <1>0, <1>q, <1>p, Frozen, FrozenExports, FrozenLists, FrozenPlaces
  <2>1. phase = "data" /\ phase' \in {"entry", "failed"} /\ (phase' = "entry" <=> failure' = "")
        /\ UNCHANGED <<program, commons, plt, got, tlsSlot, copied, dynamic, place>>
        /\ bound' = [r \in TextRefs \cup OfKind({"abs"}) |-> IF r.kind = "abs" THEN ApplyOne(r) ELSE bound[r]]
        /\ failure' = IF \E r \in OfKind({"abs"}) : ApplyOne(r) = Missing THEN "no slot" ELSE ""
    BY DEF ApplyData
  <2>2. PltInv' /\ CopiedInv' /\ GotInv' /\ TlsInv'
    BY <2>1 DEF PltInv, CopiedInv, GotInv, TlsInv
  <2>3. CommonInv' /\ DynamicInv' /\ PlaceInv'
    BY <2>1 DEF CommonInv, DynamicInv, PlaceInv
  <2>4. TextRefs \cup OfKind({"abs"}) = Refs
    BY <1>s DEF TextRefs, OfKind, Shape, RefKinds
  <2>5. \A r \in OfKind({"abs"}) : r.kind = "abs"
    BY DEF OfKind
  <2>6. \A r \in TextRefs : bound[r] = ApplyOne(r)
    BY <2>1 DEF BoundInv
  <2>7. \A r \in Refs : bound'[r] = ApplyOne(r)
    BY <2>1, <2>4, <2>5, <2>6
  <2>8. BoundInv'
    BY <2>1, <2>4, <2>7 DEF BoundInv
  <2>9. FailureInv'
    BY <2>1 DEF FailureInv
  <2> QED BY <2>1, <2>2, <2>3, <2>8, <2>9 DEF IInv
<1>11. CASE FindMain
  <2> USE <1>11, <1>0, <1>q, <1>p, Frozen, FrozenExports, FrozenLists, FrozenPlaces
  <2>1. phase = "entry" /\ phase' \in {"linked", "failed"} /\ (phase' = "linked" <=> failure' = "")
        /\ UNCHANGED <<program, commons, plt, got, tlsSlot, copied, dynamic, place, bound>>
        /\ failure' = IF ~program.shared /\ Main = {} THEN "no main" ELSE ""
    BY DEF FindMain
  <2>2. PltInv' /\ CopiedInv' /\ GotInv' /\ TlsInv'
    BY <2>1 DEF PltInv, CopiedInv, GotInv, TlsInv
  <2>3. CommonInv' /\ DynamicInv' /\ PlaceInv'
    BY <2>1 DEF CommonInv, DynamicInv, PlaceInv
  <2>4. BoundInv'
    BY <2>1 DEF BoundInv
  <2>5. FailureInv'
    BY <2>1 DEF FailureInv
  <2> QED BY <2>1, <2>2, <2>3, <2>4, <2>5 DEF IInv
<1>12. CASE UNCHANGED vars
  <2> USE <1>12, <1>0, <1>q, <1>p, Frozen, FrozenExports, FrozenLists, FrozenPlaces DEF vars
  <2>1. PltInv' /\ CopiedInv' /\ GotInv' /\ TlsInv'
    BY DEF PltInv, CopiedInv, GotInv, TlsInv
  <2>2. CommonInv' /\ DynamicInv' /\ PlaceInv'
    BY DEF CommonInv, DynamicInv, PlaceInv
  <2>3. BoundInv' /\ FailureInv'
    BY DEF BoundInv, FailureInv
  <2> QED BY <2>1, <2>2, <2>3 DEF IInv
<1> QED BY <1>1, <1>2, <1>3, <1>4, <1>5, <1>6, <1>7, <1>8, <1>9, <1>10, <1>11, <1>12 DEF Next

-----------------------------------------------------------------------------
(* What a reference is bound to in a linked program.                       *)

\* The storage of the definition that prevails is the one the name means.
LEMMA PlaceOfExport ==
  ASSUME Shape, PlaceInv, phase \in Placed, NEW nm, Exported(nm),
         Strengths(nm) # {2, 3}
  PROVE  /\ FindExport(nm) \in Candidates(nm)
         /\ place[FindExport(nm)] = IF Section(Winner(nm)) = "common" THEN <<"common", nm>> ELSE <<"symbol", Winner(nm)>>
<1>1. FindExport(nm) \in Candidates(nm) /\ Winner(nm) = FindExport(nm)
  BY ExportFacts
<1>2. FindExport(nm) \in Symbols /\ Name(FindExport(nm)) = nm /\ Defined(FindExport(nm))
  BY <1>1 DEF Candidates, Named
<1>3. place[FindExport(nm)] = Storage(FindExport(nm))
  BY <1>2 DEF PlaceInv
<1> QED BY <1>1, <1>2, <1>3 DEF Storage, Defined

\* A strong definition is the one that prevails; so is any candidate without a weak rival.
LEMMA StrongPrevails ==
  ASSUME Shape, NEW g \in Symbols, Bind(g) = "global", Section(g) \notin {"undef", "common"}
  PROVE  Exported(Name(g)) /\ FindExport(Name(g)) = g
<1>1. g \in Candidates(Name(g)) /\ Strength(g) = 1
  BY DEF Candidates, Named, Defined, Strength
<1>2. Strengths(Name(g)) # {2, 3}
  BY <1>1 DEF Strengths
<1>3. Exported(Name(g)) /\ FindExport(Name(g)) \in Candidates(Name(g)) /\ Prevails(FindExport(Name(g)))
  BY <1>1, <1>2, ExportFacts
<1>4. Strength(FindExport(Name(g))) = 1 /\ FindExport(Name(g)) \in Symbols /\ Name(FindExport(Name(g))) = Name(g)
  BY <1>1, <1>3 DEF Prevails, Candidates, Named, Strength
<1>5. /\ Bind(FindExport(Name(g))) = "global" /\ Section(FindExport(Name(g))) \notin {"undef", "common"}
  BY <1>3, <1>4 DEF Strength, Candidates, Defined, Shape
<1> QED BY <1>3, <1>4, <1>5 DEF Shape

LEMMA AloneThreadLocal ==
  ASSUME Shape, NEW r \in Refs, r.kind \in {"ie", "le"}, ~WeakTls(r), NEW g \in Candidates(Name(r.sym))
  PROVE  Exported(Name(r.sym)) /\ FindExport(Name(r.sym)) = g
<1>1. Exported(Name(r.sym)) /\ FindExport(Name(r.sym)) \in Candidates(Name(r.sym))
  BY ExportFacts
<1>2. g \in Symbols /\ Name(g) = Name(r.sym) /\ Section(g) = "tls" /\ Bind(g) # "local"
  BY DEF Candidates, Named, Defined, Shape
<1>3. CASE Bind(g) = "global"
  BY <1>2, <1>3, StrongPrevails
<1>4. CASE Bind(g) = "weak"
  BY <1>1, <1>4 DEF WeakTls
<1> QED BY <1>2, <1>3, <1>4 DEF Shape

\* Every symbol External has no definition to mean but the library's.
LEMMA ExternalMeansLibrary ==
  ASSUME Shape, NEW r \in Refs, ~Static(r.sym), ~Exported(Name(r.sym))
  PROVE  External(r.sym) /\ Meant(r) = <<"library", Name(r.sym)>>
<1>1. Candidates(Name(r.sym)) = {}
  BY ExportFacts
<1>2. r.sym \in Symbols
  BY DEF Shape
<1>3. ~Defined(r.sym)
  BY <1>1, <1>2 DEF Candidates, Named, Static
<1> QED BY <1>1, <1>3 DEF External, Meant

LEMMA ExportedMeans ==
  ASSUME Shape, PlaceInv, phase \in Placed, NEW r \in Refs, ~Static(r.sym), Exported(Name(r.sym)),
         ~Known(r)
  PROVE  /\ place[FindExport(Name(r.sym))] = Meant(r)
         /\ Denotes(Meant(r)) = Meant(r)
<1> DEFINE nm == Name(r.sym)
<1>0. Strengths(nm) # {2, 3}
  BY DEF Known, WeakOverCommon, Strengths
<1>1. place[FindExport(nm)] = Meant(r)
  BY <1>0, PlaceOfExport, ExportFacts DEF Meant
<1>2. Meant(r) = <<"common", nm>> \/ Meant(r) = <<"symbol", Winner(nm)>>
  BY ExportFacts DEF Meant
<1>3. Meant(r)[1] \in {"common", "symbol"}
  BY <1>2
<1>4. Denotes(Meant(r)) = Meant(r)
  BY <1>3 DEF Denotes
<1> QED BY <1>1, <1>4

\* An external symbol has a copy of the object it is, or a stub for the function it is.
LEMMA SlotMeansLibrary ==
  ASSUME Shape, PltInv, CopiedInv, phase \in Placed,
         NEW r \in Refs, r.kind \in {"call", "pc", "abs"}, External(r.sym), Provided(r), ~Known(r)
  PROVE  /\ r.sym \in copied \/ r.sym \in plt \/ r.kind = "abs"
         /\ r.sym \notin copied /\ r.sym \in plt => program.libs[Name(r.sym)] = "func"
<1> DEFINE nm == Name(r.sym)
<1>1. /\ r.sym \in Symbols /\ ~Static(r.sym) /\ Candidates(nm) = {} /\ program.libs[nm] \in {"func", "object"}
      /\ Type(r.sym) # "tls" /\ (r.kind = "call" \/ Type(r.sym) = "func" => program.libs[nm] # "object")
  BY ExportFacts DEF Shape, External, Static, Provided
<1>2. plt = PltFirst \cup (CopiedFirst \ Objects) /\ copied = Objects
  BY DEF PltInv, CopiedInv, PltLast, Placed, LookedUp
<1>3. r.kind = "call" => r.sym \in PltFirst
  BY DEF PltFirst, TextPlt, SymbolsOf, OfKind
<1>4. r.kind = "pc" => r.sym \in PltFirst \/ r.sym \in CopiedFirst
  <2> SUFFICES ASSUME r.kind = "pc", r.sym \notin PltFirst PROVE r.sym \in CopiedFirst
    OBVIOUS
  <2>1. MaybeObject(r.sym)
    BY DEF PltFirst, TextPlt, SymbolsOf, OfKind
  <2>2. ~program.shared
    <3>1. CopiedFirst # {} => ~program.shared
      BY DEF CopiedFirst
    <3>2. program.shared => r.sym \notin plt
      BY <1>2, <3>1
    <3> QED BY <3>2 DEF Known, LooseAddress
  <2> QED BY <2>1, <2>2 DEF CopiedFirst, SymbolsOf, OfKind
<1>5. r.sym \in PltFirst /\ program.libs[nm] = "object" => FALSE
  <2> SUFFICES ASSUME r.sym \in PltFirst, program.libs[nm] = "object" PROVE FALSE
    OBVIOUS
  <2>1. r.sym \notin DataPlt
    BY DEF Known, StubForObject
  <2>2. PICK q \in OfKind({"call", "pc", "le"}) :
          q.sym = r.sym /\ ~(q.kind = "pc" /\ MaybeObject(q.sym))
    BY <2>1 DEF PltFirst, TextPlt, SymbolsOf
  <2>3. q \in Refs /\ q.kind \in {"call", "pc", "le"}
    BY <2>2 DEF OfKind
  <2>4. CASE q.kind = "call"
    BY <2>2, <2>3, <2>4 DEF Shape
  <2>5. CASE q.kind = "pc"
    BY <1>1, <2>2, <2>3, <2>5 DEF Shape, MaybeObject
  <2>6. CASE q.kind = "le"
    BY <1>1, <2>2, <2>3, <2>6 DEF Shape
  <2> QED BY <2>3, <2>4, <2>5, <2>6
<1>6. r.sym \in CopiedFirst \ Objects => program.libs[nm] # "object"
  BY DEF Objects
<1> QED BY <1>1, <1>2, <1>3, <1>4, <1>5, <1>6

LEMMA DirectFacts ==
  ASSUME NEW g, NEW keep \in BOOLEAN, keep => Defined(g), NEW otherwise
  PROVE  /\ keep => Direct(g, keep, otherwise) = place[g]
         /\ ~keep /\ Exported(Name(g)) => Direct(g, keep, otherwise) = place[FindExport(Name(g))]
         /\ ~keep /\ ~Exported(Name(g)) /\ Defined(g) => Direct(g, keep, otherwise) = place[g]
         /\ ~keep /\ External(g) /\ g \in copied => Direct(g, keep, otherwise) = <<"copy", Name(g)>>
         /\ ~keep /\ External(g) /\ g \notin copied /\ g \in plt =>
              Direct(g, keep, otherwise) = <<"plt", Name(g)>>
         /\ ~keep /\ External(g) /\ g \notin copied /\ g \notin plt =>
              Direct(g, keep, otherwise) = otherwise
<1>1. Defined(g) \in BOOLEAN /\ Exported(Name(g)) \in BOOLEAN
  BY DEF Defined, Exported
<1>2. CASE keep
  BY <1>2 DEF Direct, External
<1>3. CASE ~keep /\ Exported(Name(g))
  BY <1>3 DEF Direct, External
<1>4. CASE ~keep /\ ~Exported(Name(g)) /\ Defined(g)
  BY <1>4 DEF Direct, External
<1>5. CASE ~keep /\ External(g)
  BY <1>5 DEF Direct, External
<1> QED BY <1>1, <1>2, <1>3, <1>4, <1>5 DEF External

LEMMA ApplyFacts ==
  ASSUME NEW r
  PROVE  /\ r.kind \in {"call", "pc"} =>
              /\ TextKeeps(r.sym) => ApplyOne(r) = place[r.sym]
              /\ ~TextKeeps(r.sym) /\ Exported(Name(r.sym)) => ApplyOne(r) = place[FindExport(Name(r.sym))]
              /\ ~TextKeeps(r.sym) /\ ~Exported(Name(r.sym)) /\ Defined(r.sym) => ApplyOne(r) = place[r.sym]
              /\ External(r.sym) /\ r.sym \in copied => ApplyOne(r) = <<"copy", Name(r.sym)>>
              /\ External(r.sym) /\ r.sym \notin copied /\ r.sym \in plt => ApplyOne(r) = <<"plt", Name(r.sym)>>
         /\ r.kind = "abs" =>
              /\ DataKeeps(r.sym) => ApplyOne(r) = place[r.sym]
              /\ ~DataKeeps(r.sym) /\ Exported(Name(r.sym)) => ApplyOne(r) = place[FindExport(Name(r.sym))]
              /\ ~DataKeeps(r.sym) /\ ~Exported(Name(r.sym)) /\ Defined(r.sym) => ApplyOne(r) = place[r.sym]
              /\ External(r.sym) /\ r.sym \in copied => ApplyOne(r) = <<"copy", Name(r.sym)>>
              /\ External(r.sym) /\ r.sym \notin copied /\ r.sym \in plt => ApplyOne(r) = <<"plt", Name(r.sym)>>
              /\ External(r.sym) /\ r.sym \notin copied /\ r.sym \notin plt => ApplyOne(r) = Missing
<1>1. /\ TextKeeps(r.sym) \in BOOLEAN /\ DataKeeps(r.sym) \in BOOLEAN
      /\ TextKeeps(r.sym) \/ DataKeeps(r.sym) => Defined(r.sym)
  BY DEF TextKeeps, DataKeeps
<1>2. External(r.sym) => ~TextKeeps(r.sym) /\ ~DataKeeps(r.sym)
  BY DEF External, TextKeeps, DataKeeps
<1>3. r.kind \in {"call", "pc"} => ApplyOne(r) = Direct(r.sym, TextKeeps(r.sym), <<"plt0", 0>>)
  BY DEF ApplyOne
<1>4. r.kind = "abs" => ApplyOne(r) = Direct(r.sym, DataKeeps(r.sym), Missing)
  BY DEF ApplyOne
<1>5. r.kind \in {"call", "pc"} =>
              /\ TextKeeps(r.sym) => ApplyOne(r) = place[r.sym]
              /\ ~TextKeeps(r.sym) /\ Exported(Name(r.sym)) => ApplyOne(r) = place[FindExport(Name(r.sym))]
              /\ ~TextKeeps(r.sym) /\ ~Exported(Name(r.sym)) /\ Defined(r.sym) => ApplyOne(r) = place[r.sym]
              /\ External(r.sym) /\ r.sym \in copied => ApplyOne(r) = <<"copy", Name(r.sym)>>
              /\ External(r.sym) /\ r.sym \notin copied /\ r.sym \in plt => ApplyOne(r) = <<"plt", Name(r.sym)>>
  BY <1>1, <1>2, <1>3, DirectFacts
<1>6. r.kind = "abs" =>
              /\ DataKeeps(r.sym) => ApplyOne(r) = place[r.sym]
              /\ ~DataKeeps(r.sym) /\ Exported(Name(r.sym)) => ApplyOne(r) = place[FindExport(Name(r.sym))]
              /\ ~DataKeeps(r.sym) /\ ~Exported(Name(r.sym)) /\ Defined(r.sym) => ApplyOne(r) = place[r.sym]
              /\ External(r.sym) /\ r.sym \in copied => ApplyOne(r) = <<"copy", Name(r.sym)>>
              /\ External(r.sym) /\ r.sym \notin copied /\ r.sym \in plt => ApplyOne(r) = <<"plt", Name(r.sym)>>
              /\ External(r.sym) /\ r.sym \notin copied /\ r.sym \notin plt => ApplyOne(r) = Missing
  BY <1>1, <1>2, <1>4, DirectFacts
<1> QED BY <1>5, <1>6

LEMMA CodeMeans ==
  ASSUME Shape, PltInv, CopiedInv, PlaceInv, phase \in Placed,
         NEW r \in Refs, r.kind \in {"call", "pc"}, Provided(r), ~Known(r)
  PROVE  Denotes(ApplyOne(r)) = Meant(r)
<1> DEFINE nm == Name(r.sym)
<1>1. r.sym \in Symbols
  BY DEF Shape
<1>2. CASE TextKeeps(r.sym)
  <2>1. Exported(nm) /\ FindExport(nm) = r.sym /\ ~Static(r.sym)
    BY <1>1, <1>2, StrongPrevails DEF TextKeeps, Defined, Static
  <2>2. ApplyOne(r) = Meant(r)
    BY <1>1, <1>2, <2>1, ExportedMeans, ApplyFacts
  <2> QED BY <2>1, <2>2, ExportedMeans
<1>3. CASE ~TextKeeps(r.sym) /\ Exported(nm)
  <2>1. ~Static(r.sym)
    BY <1>3 DEF Known, StaticHidden
  <2>2. ApplyOne(r) = Meant(r)
    BY <1>1, <1>3, <2>1, ExportedMeans, ApplyFacts
  <2> QED BY <1>3, <2>1, <2>2, ExportedMeans
<1>4. CASE ~TextKeeps(r.sym) /\ ~Exported(nm) /\ Static(r.sym)
  <2>1. Section(r.sym) # "undef" /\ Section(r.sym) # "common"
    BY <1>1, <1>4 DEF Static, Defined, Shape
  <2>2. place[r.sym] = <<"symbol", r.sym>>
    BY <1>1, <2>1 DEF PlaceInv, Storage
  <2>3. ApplyOne(r) = <<"symbol", r.sym>>
    BY <1>1, <1>4, <2>2, ApplyFacts DEF Static
  <2> QED BY <1>4, <2>3 DEF Denotes, Meant
<1>5. CASE ~TextKeeps(r.sym) /\ ~Exported(nm) /\ ~Static(r.sym)
  <2>1. External(r.sym) /\ Meant(r) = <<"library", nm>> /\ ~Defined(r.sym)
    BY <1>5, ExternalMeansLibrary DEF External
  <2>2. r.sym \in copied \/ (r.sym \notin copied /\ r.sym \in plt /\ program.libs[nm] = "func")
    BY <2>1, SlotMeansLibrary
  <2>3. ApplyOne(r) = IF r.sym \in copied THEN <<"copy", nm>> ELSE <<"plt", nm>>
    BY <1>1, <1>5, <2>1, <2>2, ApplyFacts
  <2> QED BY <2>1, <2>2, <2>3 DEF Denotes
<1> QED BY <1>2, <1>3, <1>4, <1>5

LEMMA PointerMeans ==
  ASSUME Shape, PltInv, CopiedInv, PlaceInv, phase \in Placed,
         NEW r \in Refs, r.kind = "abs", Provided(r), ~Known(r), ApplyOne(r) # Missing
  PROVE  Denotes(ApplyOne(r)) = Meant(r)
<1> DEFINE nm == Name(r.sym)
<1>1. r.sym \in Symbols
  BY DEF Shape
<1>2. CASE Static(r.sym)
  <2>1. Section(r.sym) # "undef" /\ Section(r.sym) # "common"
    BY <1>1, <1>2 DEF Static, Defined, Shape
  <2>2. place[r.sym] = <<"symbol", r.sym>>
    BY <1>1, <2>1 DEF PlaceInv, Storage
  <2>3. ApplyOne(r) = <<"symbol", r.sym>>
    BY <1>1, <1>2, <2>1, <2>2, ApplyFacts DEF Static, DataKeeps
  <2> QED BY <1>2, <2>3 DEF Denotes, Meant
<1>3. CASE ~Static(r.sym) /\ Exported(nm)
  <2>1. CASE DataKeeps(r.sym)
    <3>1. Bind(r.sym) = "global"
      BY <1>1, <1>3, <2>1 DEF DataKeeps, Static, Shape
    <3>2. FindExport(nm) = r.sym
      BY <1>1, <2>1, <3>1, StrongPrevails DEF DataKeeps, Defined
    <3>3. ApplyOne(r) = Meant(r)
      BY <1>1, <1>3, <2>1, <3>2, ExportedMeans, ApplyFacts
    <3> QED BY <1>3, <3>3, ExportedMeans
  <2>2. CASE ~DataKeeps(r.sym)
    <3>1. ApplyOne(r) = Meant(r)
      BY <1>1, <1>3, <2>2, ExportedMeans, ApplyFacts
    <3> QED BY <1>3, <3>1, ExportedMeans
  <2> QED BY <2>1, <2>2
<1>4. CASE ~Static(r.sym) /\ ~Exported(nm)
  <2>1. External(r.sym) /\ Meant(r) = <<"library", nm>> /\ ~Defined(r.sym) /\ ~DataKeeps(r.sym)
    BY <1>4, ExternalMeansLibrary DEF External, DataKeeps
  <2>2. r.sym \in copied \/ r.sym \in plt
    BY <1>1, <1>4, <2>1, ApplyFacts
  <2>3. r.sym \notin copied => program.libs[nm] = "func"
    BY <2>1, <2>2, SlotMeansLibrary
  <2>4. ApplyOne(r) = IF r.sym \in copied THEN <<"copy", nm>> ELSE <<"plt", nm>>
    BY <1>1, <1>4, <2>1, <2>2, ApplyFacts
  <2> QED BY <2>1, <2>2, <2>3, <2>4 DEF Denotes
<1> QED BY <1>2, <1>3, <1>4

LEMMA GotMeans ==
  ASSUME Shape, PlaceInv, phase \in Placed, NEW r \in Refs, r.kind = "got", ~Known(r)
  PROVE  Denotes(ApplyOne(r)) = Meant(r)
<1>1. ApplyOne(r) = ThroughGot(Name(r.sym)) /\ ~Static(r.sym)
  BY DEF ApplyOne, Static, Shape
<1>2. CASE Exported(Name(r.sym))
  BY <1>1, <1>2, ExportedMeans DEF ThroughGot
<1>3. CASE ~Exported(Name(r.sym))
  BY <1>1, <1>3, ExternalMeansLibrary DEF ThroughGot, Denotes
<1> QED BY <1>2, <1>3

\* Storage found for a symbol of that name is the storage of the definition that prevails.
LEMMA HomeMeans ==
  ASSUME Shape, PlaceInv, phase \in Placed, NEW r \in Refs, r.kind \in {"ie", "le"}, Provided(r), ~Known(r),
         NEW g \in Symbols, Name(g) = Name(r.sym), ~Static(g), ~Static(r.sym)
  PROVE  /\ TlsHome(g) = None => ~Exported(Name(r.sym)) /\ Meant(r) = <<"library", Name(r.sym)>>
         /\ TlsHome(g) # None => place[TlsHome(g)] = Meant(r) /\ Denotes(Meant(r)) = Meant(r)
<1> DEFINE nm == Name(r.sym)
<1>1. Section(g) \in {"undef", "tls"} /\ g # 0 /\ None = 0
  BY DEF Shape, Named, None
<1>2. Exported(nm) => /\ FindExport(nm) \in Symbols /\ Section(FindExport(nm)) = "tls"
                      /\ FindExport(nm) # 0 /\ InTls(FindExport(nm))
  BY ExportFacts DEF Candidates, Named, Defined, Shape, InTls, None
<1>3. ~Exported(nm) => ~InTls(FindExport(nm))
  BY DEF Exported, InTls
<1>4. CASE Section(g) = "tls"
  <2>1. g \in Candidates(nm) /\ InTls(g)
    BY <1>1, <1>4 DEF Candidates, Named, Defined, Static, InTls
  <2>2. Exported(nm) /\ FindExport(nm) = g
    BY <2>1, AloneThreadLocal DEF Known
  <2>3. TlsHome(g) = g
    BY <2>1 DEF TlsHome
  <2> QED BY <1>1, <2>2, <2>3, ExportedMeans
<1>5. CASE Section(g) = "undef" /\ Exported(nm)
  <2>1. TlsHome(g) = FindExport(nm)
    BY <1>2, <1>5 DEF TlsHome, InTls
  <2> QED BY <1>1, <1>2, <1>5, <2>1, ExportedMeans
<1>6. CASE Section(g) = "undef" /\ ~Exported(nm)
  <2>1. TlsHome(g) = None
    BY <1>3, <1>6 DEF TlsHome, InTls
  <2> QED BY <1>6, <2>1, ExternalMeansLibrary
<1> QED BY <1>1, <1>4, <1>5, <1>6

LEMMA OwnThreadLocal ==
  ASSUME Shape, PlaceInv, phase \in Placed, NEW r \in Refs, r.kind \in {"ie", "le"}, Static(r.sym)
  PROVE  /\ TlsHome(r.sym) # None /\ place[TlsHome(r.sym)] = Meant(r) /\ Denotes(Meant(r)) = Meant(r)
<1>1. r.sym \in Symbols /\ r.sym # 0 /\ Section(r.sym) = "tls"
  BY DEF Shape, Static, Defined, Named
<1>2. TlsHome(r.sym) = r.sym
  BY <1>1 DEF TlsHome, InTls, None
<1>3. place[r.sym] = <<"symbol", r.sym>>
  BY <1>1 DEF PlaceInv, Storage
<1> QED BY <1>1, <1>2, <1>3 DEF Meant, Denotes, None

LEMMA SlotSymbol ==
  ASSUME Shape, NEW r \in Refs, r.kind = "ie"
  PROVE  /\ r.sym \in TlsSymbols
         /\ Static(r.sym) => TlsSlotOf(r.sym) = r.sym
         /\ ~Static(r.sym) => /\ TlsSlotOf(r.sym) \in Symbols
                               /\ Name(TlsSlotOf(r.sym)) = Name(r.sym) /\ ~Static(TlsSlotOf(r.sym))
<1> DEFINE S == {h \in SymbolsOf(OfKind({"ie"})) : Name(h) = Name(r.sym) /\ ~Static(h)}
<1>1. r.sym \in TlsSymbols /\ TlsSymbols \subseteq Symbols
  BY DEF TlsSymbols, SymbolsOf, OfKind, Shape
<1>2. Static(r.sym) => TlsSlotOf(r.sym) = r.sym
  BY DEF TlsSlotOf
<1>3. ASSUME ~Static(r.sym)
      PROVE  TlsSlotOf(r.sym) \in S
  <2>1. S # {} /\ S \subseteq Nat
    BY <1>1, <1>3 DEF TlsSymbols, Shape
  <2>2. TlsSlotOf(r.sym) = First(S)
    BY <1>3 DEF TlsSlotOf, SharedSlot
  <2> QED BY <2>1, <2>2, FirstFacts
<1> QED BY <1>1, <1>2, <1>3 DEF TlsSymbols

LEMMA ThreadLocalMeans ==
  ASSUME Shape, TlsInv, PlaceInv, phase \in Placed,
         NEW r \in Refs, r.kind \in {"ie", "le"}, Provided(r), ~Known(r), r.kind = "le" => ApplyOne(r) # Missing
  PROVE  Denotes(ApplyOne(r)) = Meant(r)
<1> DEFINE nm == Name(r.sym)
<1>1. r.sym \in Symbols
  BY DEF Shape
<1>2. CASE r.kind = "le"
  <2>1. TlsHome(r.sym) # None /\ ApplyOne(r) = place[TlsHome(r.sym)]
    BY <1>2 DEF ApplyOne
  <2> QED BY <1>1, <2>1, HomeMeans, OwnThreadLocal
<1>3. CASE r.kind = "ie"
  <2>1. tlsSlot[r.sym] = TlsSlotOf(r.sym)
    BY <1>3, SlotSymbol DEF TlsInv, Placed, LookedUp, Slotted
  <2>2. ApplyOne(r) = ThroughTlsSlot(TlsSlotOf(r.sym))
    BY <1>3, <2>1 DEF ApplyOne
  <2>3. CASE Static(r.sym)
    BY <1>3, <2>2, <2>3, SlotSymbol, OwnThreadLocal DEF ThroughTlsSlot
  <2>4. CASE ~Static(r.sym) /\ TlsHome(TlsSlotOf(r.sym)) = None
    <3>1. ApplyOne(r) = <<"dynamic", nm>> /\ Meant(r) = <<"library", nm>>
      BY <1>3, <2>2, <2>4, SlotSymbol, HomeMeans DEF ThroughTlsSlot
    <3> QED BY <3>1 DEF Denotes
  <2>5. CASE ~Static(r.sym) /\ TlsHome(TlsSlotOf(r.sym)) # None
    BY <1>3, <2>2, <2>5, SlotSymbol, HomeMeans DEF ThroughTlsSlot
  <2> QED BY <2>3, <2>4, <2>5
<1> QED BY <1>2, <1>3

\* What a reference can be bound to.
LEMMA PlaceKinds ==
  ASSUME Shape, TlsInv, PlaceInv, phase \in Placed, NEW r \in Refs
  PROVE  ApplyOne(r)[1] \in Places
<1> USE DEF Places
<1>1. r.sym \in Symbols /\ r.kind \in RefKinds
  BY DEF Shape
<1>2. \A g \in Symbols : place[g][1] \in Places
  <2>1. \A g \in Symbols : place[g] = Storage(g)
    BY DEF PlaceInv
  <2>2. \A g \in Symbols : Storage(g)[1] \in Places
    BY DEF Storage
  <2> QED BY <2>1, <2>2
<1>3. \A nm : Exported(nm) => FindExport(nm) \in Symbols
  BY ExportFacts DEF Candidates, Named
<1>4. \A g \in Symbols : TlsHome(g) # None => TlsHome(g) \in Symbols
  BY <1>3 DEF TlsHome, InTls, Exported
<1>5. CASE r.kind \in {"call", "pc"}
  <2>1. CASE TextKeeps(r.sym) \/ Exported(Name(r.sym)) \/ Defined(r.sym)
    BY <1>1, <1>2, <1>3, <1>5, <2>1, ApplyFacts
  <2>2. CASE External(r.sym) /\ (r.sym \in copied \/ r.sym \in plt)
    BY <1>5, <2>2, ApplyFacts
  <2>3. CASE External(r.sym) /\ r.sym \notin copied /\ r.sym \notin plt
    <3>1. ApplyOne(r) = Direct(r.sym, TextKeeps(r.sym), <<"plt0", 0>>) /\ TextKeeps(r.sym) = FALSE
      BY <1>5, <2>3 DEF ApplyOne, TextKeeps, External
    <3>2. ApplyOne(r) = <<"plt0", 0>>
      BY <2>3, <3>1, DirectFacts
    <3> QED BY <3>2
  <2> QED BY <2>1, <2>2, <2>3 DEF External
<1>6. CASE r.kind = "abs"
  <2>1. CASE DataKeeps(r.sym) \/ Exported(Name(r.sym)) \/ Defined(r.sym)
    BY <1>1, <1>2, <1>3, <1>6, <2>1, ApplyFacts
  <2>2. CASE External(r.sym)
    <3>1. ApplyOne(r) \in {<<"copy", Name(r.sym)>>, <<"plt", Name(r.sym)>>, Missing}
      BY <1>6, <2>2, ApplyFacts
    <3> QED BY <3>1 DEF Missing
  <2> QED BY <2>1, <2>2 DEF External
<1>7. CASE r.kind = "got"
  BY <1>2, <1>3, <1>7 DEF ApplyOne, ThroughGot
<1>8. CASE r.kind = "le"
  BY <1>1, <1>2, <1>4, <1>8 DEF ApplyOne, Missing
<1>9. CASE r.kind = "ie"
  <2>1. tlsSlot[r.sym] = TlsSlotOf(r.sym) /\ TlsSlotOf(r.sym) \in Symbols
    BY <1>1, <1>9, SlotSymbol DEF TlsInv, Placed, LookedUp, Slotted
  <2>2. ApplyOne(r) = ThroughTlsSlot(TlsSlotOf(r.sym))
    BY <1>9, <2>1 DEF ApplyOne
  <2> QED BY <1>2, <1>4, <2>1, <2>2 DEF ThroughTlsSlot
<1> QED BY <1>1, <1>5, <1>6, <1>7, <1>8, <1>9 DEF RefKinds

-----------------------------------------------------------------------------
(* The theorems.                                                           *)

LEMMA InvariantIInv == Spec => []IInv
<1>1. Init => IInv
  BY InitIInv
<1>2. IInv /\ [Next]_vars => IInv'
  BY StepIInv
<1> QED BY <1>1, <1>2, PTL DEF Spec

\* The lists of slots hold symbols and names of the program, every symbol has a place when
\* relocations are applied, and a linked program leaves no reference out (emit_link).
THEOREM LinkTypeCorrect == Spec => []LinkTypeOK
<1>1. IInv => LinkTypeOK
  <2> SUFFICES ASSUME IInv PROVE LinkTypeOK
    OBVIOUS
  <2> USE DEF Phases, Slotted, LookedUp, Placed
  <2>0. Shape
    BY ProgramShape DEF IInv
  <2>1. phase \in Phases /\ DOMAIN <<>> = {}
    BY DEF IInv
  <2>2. /\ TextPlt \subseteq Symbols /\ DataPlt \subseteq Symbols /\ CopiedFirst \subseteq Symbols
        /\ TlsSymbols \subseteq Symbols /\ GotNames \subseteq {Name(g) : g \in Symbols}
        /\ CommonNames \subseteq {Name(g) : g \in Symbols}
    BY <2>0 DEF TextPlt, DataPlt, CopiedFirst, TlsSymbols, GotNames, CommonNames, SymbolsOf, OfKind, Shape
  <2>3. plt \subseteq Symbols /\ copied \subseteq Symbols
    BY <2>1, <2>2 DEF IInv, PltInv, CopiedInv, PltFirst, PltLast, Objects
  <2>4. commons \subseteq {Name(g) : g \in Symbols} /\ got \subseteq {Name(g) : g \in Symbols} /\ dynamic \in BOOLEAN
    BY <2>1, <2>2 DEF IInv, CommonInv, GotInv, DynamicInv, Imports
  <2>5. \A g \in TlsSymbols : TlsSlotOf(g) \in Symbols
    <3>1. \A g \in TlsSymbols : \E r \in Refs : r.kind = "ie" /\ r.sym = g
      BY DEF TlsSymbols, SymbolsOf, OfKind
    <3> QED BY <2>0, <2>2, <3>1, SlotSymbol
  <2>6. DOMAIN tlsSlot \subseteq Symbols /\ \A g \in DOMAIN tlsSlot : tlsSlot[g] \in Symbols
    BY <2>1, <2>2, <2>5 DEF IInv, TlsInv
  <2>7. phase \in {"text", "data", "entry", "linked"} => DOMAIN place = Symbols
    BY DEF IInv, PlaceInv
  <2>8. DOMAIN bound \subseteq Refs /\ (phase \in {"entry", "linked"} => DOMAIN bound = Refs)
    BY <2>1 DEF IInv, BoundInv
  <2>9. \A r \in DOMAIN bound : bound[r][1] \in Places
    <3>1. CASE phase \in {"data", "entry", "linked", "failed"}
      BY <2>0, <3>1, PlaceKinds DEF IInv, BoundInv
    <3>2. CASE phase \notin {"data", "entry", "linked", "failed"}
      BY <2>1, <3>2 DEF IInv, BoundInv
    <3> QED BY <3>1, <3>2
  <2>10. /\ failure \in {"", "local-exec in a shared object", "undefined thread-local", "no slot", "no main"}
         /\ (failure # "") <=> (phase = "failed")
    BY DEF IInv, FailureInv
  <2> QED BY <2>1, <2>3, <2>4, <2>6, <2>7, <2>8, <2>9, <2>10 DEF LinkTypeOK
<1> QED BY <1>1, InvariantIInv, PTL

\* Whatever the program, its modules and their order, every reference of a linked program is
\* bound to the object or function that C and ELF give its name, but for the five known
\* situations (the relocation loops of emit_link).
THEOREM LinkedAsMeant == Spec => []BindsAsMeant
<1>1. IInv => BindsAsMeant
  <2> SUFFICES ASSUME IInv, phase = "linked", NEW r \in Refs, ~Known(r), Provided(r)
               PROVE  Denotes(bound[r]) = Meant(r)
    BY DEF BindsAsMeant, Misbound
  <2>0. Shape /\ phase \in Placed
    BY ProgramShape DEF IInv, Placed
  <2>1. bound[r] = ApplyOne(r)
    BY DEF IInv, BoundInv
  <2>2. r.kind \in {"abs", "le"} => ApplyOne(r) # Missing
    BY DEF IInv, BoundInv, OfKind, LocalExec
  <2>4. CASE r.kind \in {"call", "pc"}
    BY <2>0, <2>1, <2>4, CodeMeans DEF IInv
  <2>5. CASE r.kind = "abs"
    BY <2>0, <2>1, <2>2, <2>5, PointerMeans DEF IInv
  <2>6. CASE r.kind = "got"
    BY <2>0, <2>1, <2>6, GotMeans DEF IInv
  <2>7. CASE r.kind \in {"ie", "le"}
    BY <2>0, <2>1, <2>2, <2>7, ThreadLocalMeans DEF IInv
  <2> QED BY <2>0, <2>4, <2>5, <2>6, <2>7 DEF Shape, RefKinds
<1> QED BY <1>1, InvariantIInv, PTL

\* A program that defines all it refers to needs no dynamic linker (the lists that need_dynamic
\* counts are empty).
THEOREM StandsAlone == Spec => []StaticImage
<1>1. IInv => StaticImage
  <2> SUFFICES ASSUME IInv, ~program.shared, \A r \in Refs : Static(r.sym) \/ Candidates(Name(r.sym)) # {}
               PROVE  ~dynamic
    BY DEF StaticImage
  <2>0. Shape
    BY ProgramShape DEF IInv
  <2>1. \A r \in Refs : ~External(r.sym) /\ (Defined(r.sym) \/ Exported(Name(r.sym)))
    BY <2>0, ExportFacts DEF External, Static
  <2>2. PltFirst = {}
    <3>1. TextPlt = {}
      BY <2>1 DEF TextPlt, SymbolsOf, OfKind
    <3>2. ASSUME NEW g \in DataPlt PROVE FALSE
      <4>1. PICK r \in Refs : r.sym = g /\ ~Defined(g) /\ \A h \in Named(Name(g)) : ~Defined(h)
        BY <3>2 DEF DataPlt, SymbolsOf, OfKind
      <4>2. FindExport(Name(g)) \in Candidates(Name(g))
        BY <2>0, <2>1, <4>1, ExportFacts
      <4> QED BY <4>1, <4>2 DEF Candidates
    <3> QED BY <3>1, <3>2 DEF PltFirst
  <2>3. CopiedFirst = {}
    BY <2>1 DEF CopiedFirst, SymbolsOf, OfKind
  <2>4. ASSUME NEW nm \in GotNames PROVE Exported(nm)
    <3>1. PICK r \in Refs : r.kind = "got" /\ Name(r.sym) = nm
      BY <2>4 DEF GotNames, SymbolsOf, OfKind
    <3>2. ~Static(r.sym)
      BY <2>0, <3>1 DEF Shape, Static
    <3> QED BY <2>0, <3>1, <3>2, ExportFacts
  <2>5. ASSUME NEW g \in TlsSymbols PROVE TlsHome(TlsSlotOf(g)) # None
    <3>1. PICK r \in Refs : r.kind = "ie" /\ r.sym = g
      BY <2>5 DEF TlsSymbols, SymbolsOf, OfKind
    <3>2. CASE Static(g)
      <4>1. g \in Symbols /\ g # 0 /\ Section(g) = "tls"
        BY <2>0, <3>1, <3>2 DEF Shape, Static, Defined, Named
      <4> QED BY <2>0, <3>1, <3>2, <4>1, SlotSymbol DEF TlsHome, InTls, None
    <3>3. CASE ~Static(g)
      <4>1. Exported(Name(g)) /\ FindExport(Name(g)) \in Candidates(Name(g))
        BY <2>0, <3>1, <3>3, ExportFacts
      <4>2. InTls(FindExport(Name(g)))
        BY <2>0, <3>1, <4>1 DEF InTls, Candidates, Named, Defined, Shape, None
      <4>3. Name(TlsSlotOf(g)) = Name(g)
        BY <2>0, <3>1, <3>3, SlotSymbol
      <4> QED BY <4>2, <4>3 DEF TlsHome, InTls
    <3> QED BY <3>2, <3>3
  <2>6. ~Imports
    BY <2>2, <2>3, <2>4, <2>5 DEF Imports
  <2> QED BY <2>6 DEF IInv, DynamicInv
<1> QED BY <1>1, InvariantIInv, PTL

\* The linker gives up on a pointer in data only where a static of another module hides that
\* the name is undefined, and otherwise on local-exec references or on an executable that has
\* no strong main (its calls of exit).
THEOREM GivesUpForCause == Spec => []FailsForCause
<1>1. IInv => FailsForCause
  <2> SUFFICES ASSUME IInv PROVE FailsForCause
    OBVIOUS
  <2>0. Shape
    BY ProgramShape DEF IInv
  <2>1. phase = "failed" <=> failure # ""
    BY DEF IInv, FailureInv
  <2>2. ASSUME failure = "no slot"
        PROVE  \E r \in OfKind({"abs"}) : External(r.sym) /\ HiddenByStatic(r)
    <3>1. PICK r \in OfKind({"abs"}) : ApplyOne(r) = Missing
      BY <2>2 DEF IInv, FailureInv
    <3>2. r \in Refs /\ r.kind = "abs" /\ r.sym \in Symbols /\ phase \in Placed
      BY <2>0, <2>1, <2>2, <3>1 DEF OfKind, Shape, Placed
    <3>3. External(r.sym)
      <4>1. \A g \in Symbols : place[g] # Missing
        <5>1. \A g \in Symbols : place[g] = Storage(g)
          BY <3>2 DEF IInv, PlaceInv
        <5>2. \A g \in Symbols : Storage(g) # Missing
          BY DEF Storage, Missing
        <5> QED BY <5>1, <5>2
      <4>2. Exported(Name(r.sym)) => FindExport(Name(r.sym)) \in Symbols
        BY <2>0, ExportFacts DEF Candidates, Named
      <4> QED BY <3>1, <3>2, <4>1, <4>2, ApplyFacts DEF External
    <3>4. r.sym \notin plt
      BY <3>1, <3>2, <3>3, ApplyFacts DEF Missing
    <3>5. r.sym \notin DataPlt
      BY <3>2, <3>4 DEF IInv, PltInv, PltFirst, PltLast, LookedUp
    <3>6. PICK h \in Named(Name(r.sym)) : Defined(h)
      BY <3>1, <3>3, <3>5 DEF DataPlt, SymbolsOf, OfKind, External
    <3>7. Candidates(Name(r.sym)) = {}
      BY <2>0, <3>3, ExportFacts DEF External
    <3>8. Static(h)
      BY <3>6, <3>7 DEF Candidates, Static
    <3> QED BY <3>1, <3>3, <3>6, <3>8 DEF HiddenByStatic, External
  <2>3. ASSUME failure = "undefined thread-local"
        PROVE  \E r \in LocalExec : External(r.sym)
    <3>1. PICK r \in LocalExec : ApplyOne(r) = Missing
      BY <2>3 DEF IInv, FailureInv
    <3>2. r \in Refs /\ r.kind = "le" /\ r.sym \in Symbols /\ r.sym # 0 /\ phase \in Placed
      BY <2>0, <2>1, <2>3, <3>1 DEF LocalExec, OfKind, Shape, Placed
    <3>3. \A g \in Symbols : place[g] # Missing
      <4>1. \A g \in Symbols : place[g] = Storage(g)
        BY <3>2 DEF IInv, PlaceInv
      <4>2. \A g \in Symbols : Storage(g) # Missing
        BY DEF Storage, Missing
      <4> QED BY <4>1, <4>2
    <3>4. Exported(Name(r.sym)) => FindExport(Name(r.sym)) \in Symbols /\ InTls(FindExport(Name(r.sym)))
      BY <2>0, <3>2, ExportFacts DEF Candidates, Named, Defined, Shape, InTls, None
    <3>5. TlsHome(r.sym) # None => TlsHome(r.sym) \in Symbols
      BY <3>2, <3>4 DEF TlsHome, InTls, Exported
    <3>6. TlsHome(r.sym) = None
      BY <3>1, <3>2, <3>3, <3>5 DEF ApplyOne
    <3>7. ~InTls(r.sym) /\ ~InTls(FindExport(Name(r.sym)))
      BY <3>2, <3>6 DEF TlsHome, InTls, None
    <3>8. Section(r.sym) = "undef"
      BY <2>0, <3>2, <3>7 DEF Shape, Named, InTls, None
    <3> QED BY <3>1, <3>4, <3>7, <3>8 DEF External, Defined
  <2>4. failure = "local-exec in a shared object" => program.shared /\ LocalExec # {}
    BY DEF IInv, FailureInv
  <2>5. ASSUME failure = "no main"
        PROVE  ~program.shared /\ ~\E g \in Candidates("main") : Section(g) = "text" /\ Strength(g) = 1
    <3>1. ~program.shared /\ Main = {}
      BY <2>5 DEF IInv, FailureInv
    <3>2. ASSUME NEW g \in Candidates("main"), Section(g) = "text", Strength(g) = 1 PROVE g \in Main
      BY <2>0, <3>2 DEF Main, Candidates, Named, Strength, Shape
    <3> QED BY <3>1, <3>2
  <2> QED BY <2>2, <2>3, <2>4, <2>5 DEF FailsForCause
<1> QED BY <1>1, InvariantIInv, PTL
=============================================================================
