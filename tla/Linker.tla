------------------------------- MODULE Linker -------------------------------
(***************************************************************************)
(* How the ELF linker (src/link.c, emit_link) binds references to symbols. *)
(* The symbols of all modules are numbered through, as mod_sym_base does,  *)
(* so that "the first definition" is the one with the smallest number; a   *)
(* program says for each its name, binding, section and type, which        *)
(* references (relocations) there are, what the needed shared libraries    *)
(* define, and whether the output is itself a shared object.               *)
(*                                                                         *)
(* emit_link is one pass in phases and each phase is an action.  A slot    *)
(* (of the PLT, of the GOT, of the copied objects) is found by name in the *)
(* code's lists, so it is its name here; addresses are places: storage of  *)
(* a symbol, of a tentative definition, of a copy, a PLT stub, or a GOT    *)
(* slot that ld.so fills.  Byte layout, IFUNC symbols, the unnamed symbols *)
(* of sections and the local-dynamic TLS model are left out.               *)
(***************************************************************************)
EXTENDS Naturals, Sequences

CONSTANT Programs

\* What compiled C gives the linker: no name has two strong definitions, thread-locals are
\* referred to as thread-locals and functions as functions, and a static is never reached
\* through the GOT.
Sections == {"undef", "text", "data", "tls", "common"}
RefKinds == {"call", "pc", "got", "ie", "le", "abs"}

StrongIn(s) == s.bind = "global" /\ s.section \notin {"undef", "common"}

WellFormed(p) ==
  /\ p.shared \in BOOLEAN
  /\ DOMAIN p.symbols \subseteq Nat \ {0}
  /\ \A g \in DOMAIN p.symbols :
       LET s == p.symbols[g] IN
         /\ s.bind \in {"local", "global", "weak"} /\ s.section \in Sections
         /\ s.section = "common" => s.bind # "local"
         /\ \A h \in DOMAIN p.symbols :
              s.name = p.symbols[h].name /\ StrongIn(s) /\ StrongIn(p.symbols[h]) => g = h
  /\ \A r \in p.refs :
       /\ r.sym \in DOMAIN p.symbols /\ r.kind \in RefKinds
       /\ LET s == p.symbols[r.sym] IN
            /\ r.kind = "got" => s.bind # "local"
            /\ r.kind = "call" \/ s.type = "func" => p.libs[s.name] # "object"
            /\ IF r.kind \in {"ie", "le"}
               THEN /\ s.type = "tls" /\ p.libs[s.name] \in {"none", "tls"}
                    /\ \A h \in DOMAIN p.symbols :
                         p.symbols[h].name = s.name => p.symbols[h].section \in {"undef", "tls"}
               ELSE s.type # "tls" /\ p.libs[s.name] \in {"none", "func", "object"}

ASSUME LinkerAssumption == \A p \in Programs : WellFormed(p)

VARIABLES
  program,   \* what is linked
  phase,     \* the phase of emit_link that is next
  commons,   \* names with a slot in .bss for a tentative definition (commons)
  plt,       \* symbols with a PLT slot (reloc_ext_idx >= 0)
  got,       \* names with a slot in the data GOT (data_ext_list)
  tlsSlot,   \* the symbol whose offset a TLS reference's GOT slot holds (tls_ie_gsi)
  copied,    \* symbols whose library object is copied (reloc_copy_idx >= 0)
  dynamic,   \* need_dynamic
  place,     \* sym_addr
  bound,     \* the place each applied reference was given (S)
  failure    \* why the linker gave up, or ""

vars == <<program, phase, commons, plt, got, tlsSlot, copied, dynamic, place, bound, failure>>

----------------------------------------------------------------------------
(* Symbols.                                                                *)

Symbols == DOMAIN program.symbols
Name(g) == program.symbols[g].name
Bind(g) == program.symbols[g].bind
Section(g) == program.symbols[g].section
Type(g) == program.symbols[g].type

Defined(g) == Section(g) # "undef"
Named(nm) == {g \in Symbols : Name(g) = nm}
First(S) == CHOOSE g \in S : \A h \in S : g <= h
None == 0

Exporting(nm, bind) == {g \in Named(nm) : Section(g) \notin {"undef", "common"} /\ Bind(g) = bind}
Tentative(nm) == {g \in Named(nm) : Section(g) = "common"}

\* (mutant) the first definition of any strength
FindExportAny(nm) ==
  LET S == Exporting(nm, "global") \cup Exporting(nm, "weak") \cup Tentative(nm)
  IN  IF S = {} THEN None ELSE First(S)

\* Strong before weak before tentative, and the first of its kind.
FindExport(nm) ==
  CASE Exporting(nm, "global") # {} -> First(Exporting(nm, "global"))
    [] Exporting(nm, "global") = {} /\ Exporting(nm, "weak") # {} -> First(Exporting(nm, "weak"))
    [] Exporting(nm, "global") = {} /\ Exporting(nm, "weak") = {} /\ Tentative(nm) # {} -> First(Tentative(nm))
    [] OTHER -> None

Exported(nm) == FindExport(nm) # None

\* (mutant) what the module itself does not define
ExternalHere(g) == ~Defined(g)

External(g) == ~Defined(g) /\ ~Exported(Name(g))

\* References: kind "call" is PLT32, "pc" a direct address (PC32, 32, 32S, 64), "got"
\* GOTPCREL, "ie" GOTTPOFF or TLSGD, "le" TPOFF32, all in .text; "abs" is a pointer in data.
Refs == program.refs
OfKind(kinds) == {r \in Refs : r.kind \in kinds}
SymbolsOf(refs) == {r.sym : r \in refs}

----------------------------------------------------------------------------
(* The phases.                                                             *)

Init ==
  /\ program \in Programs
  /\ phase = "commons"
  /\ commons = {} /\ plt = {} /\ got = {} /\ copied = {}
  /\ tlsSlot = <<>> /\ place = <<>> /\ bound = <<>>
  /\ dynamic = FALSE
  /\ failure = ""

MergeCommons ==
  /\ phase = "commons"
  /\ commons' = {Name(g) : g \in {h \in Symbols : Section(h) = "common"
                                                  /\ Section(FindExport(Name(h))) = "common"}}
  /\ phase' = "plt"
  /\ UNCHANGED <<program, plt, got, tlsSlot, copied, dynamic, place, bound, failure>>

\* A direct address of a symbol that may be data is left to the copies.
MaybeObject(g) == Type(g) \notin {"func", "tls"}
TextPlt == SymbolsOf({r \in OfKind({"call", "pc", "le"}) :
                        External(r.sym) /\ ~(r.kind = "pc" /\ MaybeObject(r.sym))})

\* (mutant) pointers in data are not scanned
DataPltNone == {}

\* A pointer in data counts as resolved by any definition of the name, a static one too.
DataPlt == SymbolsOf({r \in OfKind({"abs"}) :
                        ~Defined(r.sym) /\ \A h \in Named(Name(r.sym)) : ~Defined(h)})

AssignPlt ==
  /\ phase = "plt"
  /\ plt' = TextPlt \cup DataPlt
  /\ phase' = "got"
  /\ UNCHANGED <<program, commons, got, tlsSlot, copied, dynamic, place, bound, failure>>

AssignGot ==
  /\ phase = "got"
  /\ got' = {Name(g) : g \in SymbolsOf(OfKind({"got"}))}
  /\ phase' = "tls"
  /\ UNCHANGED <<program, commons, plt, tlsSlot, copied, dynamic, place, bound, failure>>

\* A static thread-local keeps a slot of its own; the others share one by name.
Static(g) == Defined(g) /\ Bind(g) = "local"
SharedSlot(g) == First({h \in SymbolsOf(OfKind({"ie"})) : Name(h) = Name(g) /\ ~Static(h)})
TlsSlotOf(g) == IF Static(g) THEN g ELSE SharedSlot(g)

AssignTls ==
  /\ phase = "tls"
  /\ tlsSlot' = [g \in SymbolsOf(OfKind({"ie"})) |-> TlsSlotOf(g)]
  /\ phase' = "copies"
  /\ UNCHANGED <<program, commons, plt, got, copied, dynamic, place, bound, failure>>

AssignCopies ==
  /\ phase = "copies"
  /\ copied' = IF program.shared THEN {}
               ELSE SymbolsOf({r \in OfKind({"pc", "abs"}) :
                      /\ External(r.sym) /\ r.sym \notin plt
                      /\ IF r.kind = "pc" THEN MaybeObject(r.sym) ELSE Type(r.sym) = "object"})
  /\ phase' = "dynamic"
  /\ UNCHANGED <<program, commons, plt, got, tlsSlot, dynamic, place, bound, failure>>

\* The thread-local storage a TLS slot is filled from, or None.
InTls(g) == g # None /\ Section(g) = "tls"
TlsHome(g) == CASE InTls(g) -> g
                [] ~InTls(g) /\ InTls(FindExport(Name(g))) -> FindExport(Name(g))
                [] OTHER -> None

TlsImported == {g \in DOMAIN tlsSlot : TlsHome(tlsSlot[g]) = None}
GotImported == {nm \in got : ~Exported(nm)}

NeedDynamic ==
  /\ phase = "dynamic"
  /\ dynamic' = (program.shared \/ plt # {} \/ GotImported # {} \/ copied # {} \/ TlsImported # {})
  /\ phase' = "lookup"
  /\ UNCHANGED <<program, commons, plt, got, tlsSlot, copied, place, bound, failure>>

\* so_symbol_lookup: what is not an object in the libraries is a function, or missing.
ReallyObjects == {g \in copied : program.libs[Name(g)] = "object"}

LookUpCopies ==
  /\ phase = "lookup"
  /\ copied' = ReallyObjects
  /\ plt' = plt \cup (copied \ ReallyObjects)
  /\ phase' = "place"
  /\ UNCHANGED <<program, commons, got, tlsSlot, dynamic, place, bound, failure>>

Storage(g) ==
  CASE Section(g) = "undef" -> <<"none", 0>>
    [] Section(g) = "common" /\ Section(FindExport(Name(g))) = "common" -> <<"common", Name(g)>>
    [] Section(g) = "common" /\ Section(FindExport(Name(g))) # "common" -> <<"symbol", FindExport(Name(g))>>
    [] OTHER -> <<"symbol", g>>

PlaceSymbols ==
  /\ phase = "place"
  /\ place' = [g \in Symbols |-> Storage(g)]
  /\ phase' = "text"
  /\ UNCHANGED <<program, commons, plt, got, tlsSlot, copied, dynamic, bound, failure>>

----------------------------------------------------------------------------
(* Relocations.  keep says that a defined symbol is taken from its own     *)
(* module; only what is kept is not looked up by name.                     *)

TextKeeps(g) == Defined(g) /\ Bind(g) = "global" /\ Section(g) # "common"
DataKeeps(g) == Defined(g) /\ Bind(g) # "weak" /\ Section(g) # "common"

Missing == <<"missing", 0>>

Direct(g, keep, otherwise) ==
  CASE keep -> place[g]
    [] ~keep /\ Exported(Name(g)) -> place[FindExport(Name(g))]
    [] ~keep /\ ~Exported(Name(g)) /\ Defined(g) -> place[g]
    [] External(g) /\ g \in copied -> <<"copy", Name(g)>>
    [] External(g) /\ g \notin copied /\ g \in plt -> <<"plt", Name(g)>>
    [] OTHER -> otherwise

ThroughGot(nm) == IF Exported(nm) THEN place[FindExport(nm)] ELSE <<"dynamic", nm>>

ThroughTlsSlot(g) == IF TlsHome(g) # None THEN place[TlsHome(g)] ELSE <<"dynamic", Name(g)>>

\* An address with neither slot nor definition becomes that of the first stub, plt0_off.
ApplyOne(r) ==
  CASE r.kind \in {"call", "pc"} -> Direct(r.sym, TextKeeps(r.sym), <<"plt0", 0>>)
    [] r.kind = "got" -> ThroughGot(Name(r.sym))
    [] r.kind = "ie" -> ThroughTlsSlot(tlsSlot[r.sym])
    [] r.kind = "le" -> IF TlsHome(r.sym) # None THEN place[TlsHome(r.sym)] ELSE Missing
    [] r.kind = "abs" -> Direct(r.sym, DataKeeps(r.sym), Missing)

LocalExec == OfKind({"le"})

\* (mutant) references through the GOT are forgotten
TextRefsDirect == OfKind({"call", "pc", "ie", "le"})

TextRefs == OfKind({"call", "pc", "got", "ie", "le"})

ApplyText ==
  /\ phase = "text"
  /\ failure' = CASE program.shared /\ LocalExec # {} -> "local-exec in a shared object"
                  [] ~program.shared /\ \E r \in LocalExec : ApplyOne(r) = Missing -> "undefined thread-local"
                  [] OTHER -> ""
  /\ bound' = [r \in TextRefs |-> ApplyOne(r)]
  /\ phase' = IF failure' = "" THEN "data" ELSE "failed"
  /\ UNCHANGED <<program, commons, plt, got, tlsSlot, copied, dynamic, place>>

ApplyData ==
  /\ phase = "data"
  /\ failure' = IF \E r \in OfKind({"abs"}) : ApplyOne(r) = Missing THEN "no slot" ELSE ""
  /\ bound' = [r \in TextRefs \cup OfKind({"abs"}) |-> IF r.kind = "abs" THEN ApplyOne(r) ELSE bound[r]]
  /\ phase' = IF failure' = "" THEN "entry" ELSE "failed"
  /\ UNCHANGED <<program, commons, plt, got, tlsSlot, copied, dynamic, place>>

\* The entry stub of an executable calls main.
Main == {g \in Named("main") : Section(g) = "text" /\ Bind(g) = "global"}

FindMain ==
  /\ phase = "entry"
  /\ failure' = IF ~program.shared /\ Main = {} THEN "no main" ELSE ""
  /\ phase' = IF failure' = "" THEN "linked" ELSE "failed"
  /\ UNCHANGED <<program, commons, plt, got, tlsSlot, copied, dynamic, place, bound>>

Next == \/ MergeCommons \/ AssignPlt \/ AssignGot \/ AssignTls \/ AssignCopies
        \/ NeedDynamic \/ LookUpCopies \/ PlaceSymbols \/ ApplyText \/ ApplyData \/ FindMain

Spec == Init /\ [][Next]_vars

----------------------------------------------------------------------------
(* What C and ELF promise.  A static name means the definition of its own  *)
(* module.  Any other name means the one strong definition, else the       *)
(* storage that tentative definitions share (a common definition is        *)
(* honoured and the weak ones ignored), else the first weak one, else what *)
(* the libraries define.                                                   *)

Strength(g) == CASE Section(g) = "common" -> 2
                 [] Section(g) # "common" /\ Bind(g) = "weak" -> 3
                 [] OTHER -> 1
Candidates(nm) == {g \in Named(nm) : Defined(g) /\ Bind(g) # "local"}
Prevails(g) == \A h \in Candidates(Name(g)) : Strength(g) < Strength(h) \/ (Strength(g) = Strength(h) /\ g <= h)
Winner(nm) == CHOOSE g \in Candidates(nm) : Prevails(g)

Provided(r) == Static(r.sym) \/ Candidates(Name(r.sym)) # {} \/ program.libs[Name(r.sym)] # "none"

Meant(r) ==
  LET nm == Name(r.sym) IN
    CASE Static(r.sym) -> <<"symbol", r.sym>>
      [] ~Static(r.sym) /\ Candidates(nm) # {} ->
           IF Section(Winner(nm)) = "common" THEN <<"common", nm>> ELSE <<"symbol", Winner(nm)>>
      [] OTHER -> <<"library", nm>>

\* What a place holds when the program runs; a PLT stub stands for a function only.
Denotes(p) ==
  CASE p[1] \in {"copy", "dynamic"} -> <<"library", p[2]>>
    [] p[1] = "plt" /\ program.libs[p[2]] = "func" -> <<"library", p[2]>>
    [] OTHER -> p

Misbound(r) == Provided(r) /\ Denotes(bound[r]) # Meant(r)

\* Where emit_link is known to do something else.  Code reaches a static by name:
StaticHidden(r) == Static(r.sym) /\ r.kind \in {"call", "pc"} /\ Exported(Name(r.sym))
\* a shared object takes the address of a library symbol that it does not call:
LooseAddress(r) == program.shared /\ r.kind = "pc" /\ External(r.sym) /\ r.sym \notin plt
\* a pointer in data, to a library object that the module does not know to be one:
StubForObject(r) == External(r.sym) /\ r.sym \in DataPlt /\ program.libs[Name(r.sym)] = "object"
\* a module keeps its own weak thread-local, or shares the first module's:
WeakTls(r) == r.kind \in {"ie", "le"} /\ \E g, h \in Candidates(Name(r.sym)) : g # h /\ Bind(g) = "weak"
\* a weak definition is taken before tentative ones:
WeakOverCommon(r) == ~Static(r.sym) /\ {Strength(g) : g \in Candidates(Name(r.sym))} = {2, 3}

Known(r) == StaticHidden(r) \/ LooseAddress(r) \/ StubForObject(r) \/ WeakTls(r) \/ WeakOverCommon(r)

----------------------------------------------------------------------------
(* Properties.                                                             *)

Places == {"none", "symbol", "common", "copy", "plt", "plt0", "dynamic", "missing"}

\* The lists of slots hold symbols and names of the program, every symbol has a place when
\* relocations are applied, and no reference is left out of a linked program.
LinkTypeOK ==
  /\ phase \in {"commons", "plt", "got", "tls", "copies", "dynamic", "lookup", "place", "text", "data",
               "entry", "linked", "failed"}
  /\ commons \subseteq {Name(g) : g \in Symbols} /\ got \subseteq {Name(g) : g \in Symbols}
  /\ plt \subseteq Symbols /\ copied \subseteq Symbols
  /\ dynamic \in BOOLEAN
  /\ DOMAIN tlsSlot \subseteq Symbols /\ \A g \in DOMAIN tlsSlot : tlsSlot[g] \in Symbols
  /\ phase \in {"text", "data", "entry", "linked"} => DOMAIN place = Symbols
  /\ DOMAIN bound \subseteq Refs
  /\ phase \in {"entry", "linked"} => DOMAIN bound = Refs
  /\ \A r \in DOMAIN bound : bound[r][1] \in Places
  /\ failure \in {"", "local-exec in a shared object", "undefined thread-local", "no slot", "no main"}
  /\ (failure # "") <=> (phase = "failed")

\* In a linked program every reference, from code or data, direct or through a slot, means the
\* same object or function, the one the rules of C and ELF give its name, whatever the order of
\* the modules (apart from the five known situations).  A static never reaches another module.
BindsAsMeant == phase = "linked" => \A r \in Refs : ~Known(r) => ~Misbound(r)

\* A program that defines all it refers to is linked without the dynamic linker.
StaticImage ==
  (~program.shared /\ \A r \in Refs : Static(r.sym) \/ Candidates(Name(r.sym)) # {}) => ~dynamic

\* The linker gives up on a pointer in data only where a static definition in another module
\* hides that the name is undefined, and otherwise on local-exec references or on an executable
\* that has no strong main.
HiddenByStatic(r) == ~Defined(r.sym) /\ \E h \in Named(Name(r.sym)) : Static(h)
FailsForCause ==
  /\ failure = "no slot" => \E r \in OfKind({"abs"}) : External(r.sym) /\ HiddenByStatic(r)
  /\ failure = "undefined thread-local" => \E r \in LocalExec : External(r.sym)
  /\ failure = "local-exec in a shared object" => program.shared /\ LocalExec # {}
  /\ failure = "no main" =>
       ~program.shared /\ ~\E g \in Candidates("main") : Section(g) = "text" /\ Strength(g) = 1

\* (test/e2e/run_multi_e2e.sh:114) "Static symbols with same name in different files do not
\* collide."
StaticsDoNotCollide ==
  phase = "linked" => \A r \in Refs : Static(r.sym) => bound[r] = <<"symbol", r.sym>>
=============================================================================
