------------------------------ MODULE PkgLoader ------------------------------
(***************************************************************************)
(* src/pkg.c and the parser's import loop: how the driver loads the        *)
(* packages a program imports, depth first, and what happens to the error  *)
(* flag of src/common.c on the way.                                        *)
(*                                                                         *)
(* The C recursion pkg_load -> parse_in_pkg -> pkg_load is the sequence    *)
(* frames: one entry for each file being parsed, the deepest last.  A      *)
(* source file is what the loader can tell about it: the package it        *)
(* declares, its imports in order, and whether it lexes and parses.        *)
(***************************************************************************)
EXTENDS Naturals, Sequences, SequencesExt

CONSTANTS
  Packages,  \* names of packages
  Runtime,   \* the package the driver preloads
  Inputs,    \* stands for the files named on the command line
  NoName,    \* the declaration of a file that has none
  Programs   \* the programs to compile: records [std, inputs, dirs]

ASSUME PackagesAssumption ==
  Runtime \in Packages /\ Inputs \notin Packages /\ NoName \notin Packages

SourceFile ==
  [decl : Packages \union {NoName}, imports : Seq(Packages),
   lexes : BOOLEAN, parses : BOOLEAN]

(* std: link the runtime.  dirs: the files of each package's directory,    *)
(* sorted, and none when no search path has it; main stops early when the  *)
(* runtime is wanted and has none.                                         *)
ASSUME ProgramsAssumption ==
  \A q \in Programs :
    /\ q.std \in BOOLEAN
    /\ q.inputs \in Seq(SourceFile) /\ q.inputs # <<>>
    /\ q.dirs \in [Packages -> Seq(SourceFile)]
    /\ q.std => q.dirs[Runtime] # <<>>

VARIABLES
  program,   \* the program being compiled
  status,    \* the phase of main
  err,       \* g_err_code # FAKECC_OK
  reported,  \* some die_at has printed a message
  abandoned, \* some pkg_load has returned without loading_pop
  loading,   \* ctx->loading
  pkgs,      \* the names in ctx->pkgs
  owned,     \* those with owns_files: loaded from a directory
  exported,  \* those whose exports are built, in that order
  frames     \* the files being parsed

vars == <<program, status, err, reported, abandoned, loading, pkgs, owned, exported, frames>>

Files(p) == IF p = Inputs THEN program.inputs ELSE program.dirs[p]

(* next = 0: the file is not opened yet; next = k: its k-th import is due. *)
Opening(p, n) == [pkg |-> p, file |-> n, next |-> 0]

Top    == Last(frames)
Source == Files(Top.pkg)[Top.file]
WithTop(frame) == Append(Front(frames), frame)
PastImport     == WithTop([Top EXCEPT !.next = @ + 1])
NextFile       == WithTop(Opening(Top.pkg, Top.file + 1))

Parsing == status \in {"runtime", "inputs"} /\ frames # <<>>

die_at == err' = TRUE /\ reported' = TRUE

-----------------------------------------------------------------------------
(* pkg_load(name), returning to the frames in rest.                        *)

(* Comes before the look into the cache, where name is already.            *)
LoadCycle(name, rest) ==
  /\ name \in ToSet(loading)
  /\ die_at
  /\ frames' = rest
  /\ UNCHANGED <<abandoned, loading, pkgs, owned, exported>>

(* Mutant of LoadCached: the cache is looked into first.                   *)
LoadCachedFirst(name, rest) ==
  /\ name \in ToSet(pkgs)
  /\ frames' = rest
  /\ UNCHANGED <<err, reported, abandoned, loading, pkgs, owned, exported>>

(* Mutant of LoadCached: the import is not consumed.                       *)
LoadCachedAgain(name, rest) ==
  /\ name \notin ToSet(loading) /\ name \in ToSet(pkgs)
  /\ UNCHANGED <<err, reported, abandoned, loading, pkgs, owned, exported, frames>>

LoadCached(name, rest) ==
  /\ name \notin ToSet(loading) /\ name \in ToSet(pkgs)
  /\ frames' = rest
  /\ UNCHANGED <<err, reported, abandoned, loading, pkgs, owned, exported>>

(* Mutant of LoadMissing: NULL is returned without a message.              *)
LoadMissingQuiet(name, rest) ==
  /\ name \notin ToSet(loading) \union ToSet(pkgs)
  /\ program.dirs[name] = <<>>
  /\ frames' = rest
  /\ UNCHANGED <<err, reported, abandoned, loading, pkgs, owned, exported>>

LoadMissing(name, rest) ==
  /\ name \notin ToSet(loading) \union ToSet(pkgs)
  /\ program.dirs[name] = <<>>
  /\ die_at
  /\ frames' = rest
  /\ UNCHANGED <<abandoned, loading, pkgs, owned, exported>>

(* Mutant of LoadStarts: the first file is number 0.                       *)
LoadStartsAtZero(name, rest) ==
  /\ name \notin ToSet(loading) \union ToSet(pkgs)
  /\ program.dirs[name] # <<>>
  /\ loading' = Append(loading, name)
  /\ pkgs' = Append(pkgs, name)
  /\ owned' = owned \union {name}
  /\ frames' = Append(rest, Opening(name, 0))
  /\ UNCHANGED <<err, reported, abandoned, exported>>

(* The shell is registered and every file of the directory lexed before    *)
(* the first is parsed.  Each lex() clears the error of the one before.    *)
LoadStarts(name, rest) ==
  /\ name \notin ToSet(loading) \union ToSet(pkgs)
  /\ program.dirs[name] # <<>>
  /\ loading' = Append(loading, name)
  /\ pkgs' = Append(pkgs, name)
  /\ owned' = owned \union {name}
  /\ err' = ~Last(program.dirs[name]).lexes
  /\ reported' = (reported \/ \E f \in ToSet(program.dirs[name]) : ~f.lexes)
  /\ frames' = Append(rest, Opening(name, 1))
  /\ UNCHANGED <<abandoned, exported>>

pkg_load(name, rest) ==
  /\ ~err
  /\ \/ LoadCycle(name, rest)   \/ LoadCached(name, rest)
     \/ LoadMissing(name, rest) \/ LoadStarts(name, rest)

-----------------------------------------------------------------------------
(* parse_in_pkg on the file at the top of frames.                          *)

(* The error flag is cleared, then the package declaration read.           *)
OpenFile ==
  /\ Parsing /\ Top.next = 0
  /\ err' = (Source.decl = NoName)
  /\ reported' = (reported \/ Source.decl = NoName)
  /\ frames' = PastImport
  /\ UNCHANGED <<program, status, abandoned, loading, pkgs, owned, exported>>

ImportDue == Parsing /\ ~err /\ Top.next \in 1 .. Len(Source.imports)
Imported  == Source.imports[Top.next]
Repeated  == \E k \in 1 .. Top.next - 1 : Source.imports[k] = Imported

ImportTwice ==
  /\ ImportDue /\ Repeated
  /\ die_at
  /\ frames' = PastImport
  /\ UNCHANGED <<program, status, abandoned, loading, pkgs, owned, exported>>

Import ==
  /\ ImportDue /\ ~Repeated
  /\ pkg_load(Imported, PastImport)
  /\ UNCHANGED <<program, status>>

(* parse_in_pkg returns FAKECC_ERR when failed.  After an error the rest   *)
(* of the file is skipped; the tokens of a file that did not lex lack the  *)
(* end-of-file token, so it cannot parse.                                  *)
FileEnds(failed) ==
  /\ Parsing /\ Top.next > 0
  /\ \/ err /\ failed
     \/ ~err /\ Top.next > Len(Source.imports) /\ failed = ~(Source.lexes /\ Source.parses)

(* Without an end-of-file token and without an error, the loop over the    *)
(* declarations may also see the last token again and again.               *)
Spin ==
  /\ Parsing /\ Top.next > Len(Source.imports) /\ ~err /\ ~Source.lexes
  /\ status' = "spinning"
  /\ UNCHANGED <<program, err, reported, abandoned, loading, pkgs, owned, exported, frames>>

-----------------------------------------------------------------------------
(* pkg_load's loop over its files, after parse_in_pkg whose result it does *)
(* not look at.                                                            *)

PkgFileEnds(failed) == FileEnds(failed) /\ Top.pkg # Inputs

(* The name does not match the directory: NULL is returned at once.        *)
Misnamed(failed) ==
  /\ PkgFileEnds(failed) /\ Source.decl # Top.pkg
  /\ die_at
  /\ abandoned' = TRUE
  /\ frames' = Front(frames)
  /\ UNCHANGED <<program, status, loading, pkgs, owned, exported>>

PkgFileDone(failed) ==
  /\ PkgFileEnds(failed) /\ Source.decl = Top.pkg
  /\ Top.file < Len(Files(Top.pkg))
  /\ err' = failed
  /\ reported' = (reported \/ failed)
  /\ frames' = NextFile
  /\ UNCHANGED <<program, status, abandoned, loading, pkgs, owned, exported>>

LastFileEnds(failed) ==
  /\ PkgFileEnds(failed) /\ Source.decl = Top.pkg
  /\ Top.file = Len(Files(Top.pkg))
  /\ err' = failed
  /\ reported' = (reported \/ failed)
  /\ frames' = Front(frames)

(* Mutant of PkgDone: no exports after an error.                           *)
PkgDoneUnexported(failed) ==
  /\ LastFileEnds(failed)
  /\ exported' = IF failed THEN exported ELSE Append(exported, Top.pkg)
  /\ loading' = Front(loading)
  /\ UNCHANGED <<program, status, abandoned, pkgs, owned>>

(* build_exports and loading_pop, which pops whatever is on top.           *)
PkgDone(failed) ==
  /\ LastFileEnds(failed)
  /\ exported' = Append(exported, Top.pkg)
  /\ loading' = Front(loading)
  /\ UNCHANGED <<program, status, abandoned, pkgs, owned>>

-----------------------------------------------------------------------------
(* main.                                                                   *)

(* The runtime's own errors are not looked at.                             *)
Preload ==
  /\ status = "start"
  /\ status' = "runtime"
  /\ IF program.std THEN pkg_load(Runtime, frames)
     ELSE UNCHANGED <<err, reported, abandoned, loading, pkgs, owned, exported, frames>>
  /\ UNCHANGED program

(* Every input is lexed, which clears what the runtime left, then parsed.  *)
LexInputs ==
  /\ status = "runtime" /\ frames = <<>>
  /\ IF \E f \in ToSet(program.inputs) : ~f.lexes
     THEN die_at /\ status' = "failed" /\ frames' = frames
     ELSE /\ err' = FALSE /\ status' = "inputs" /\ frames' = <<Opening(Inputs, 1)>>
          /\ UNCHANGED reported
  /\ UNCHANGED <<program, abandoned, loading, pkgs, owned, exported>>

InputFails ==
  /\ FileEnds(TRUE) /\ Top.pkg = Inputs
  /\ die_at
  /\ status' = "failed" /\ frames' = <<>>
  /\ UNCHANGED <<program, abandoned, loading, pkgs, owned, exported>>

(* pkg_register_tus: nothing without a name; a package of that name is     *)
(* joined, or a new one made, exports and all.                             *)
Register(name) ==
  IF name \in ToSet(pkgs) \union {NoName} THEN UNCHANGED <<pkgs, exported>>
  ELSE pkgs' = Append(pkgs, name) /\ exported' = Append(exported, name)

AfterInput ==
  IF Top.file < Len(program.inputs)
  THEN frames' = NextFile /\ UNCHANGED status
  ELSE frames' = <<>> /\ status' = "ok"

InputDone ==
  /\ FileEnds(FALSE) /\ Top.pkg = Inputs
  /\ Register(Source.decl)
  /\ AfterInput
  /\ UNCHANGED <<program, err, reported, abandoned, loading, owned>>

-----------------------------------------------------------------------------
Init ==
  /\ program \in Programs
  /\ status = "start"
  /\ err = FALSE /\ reported = FALSE /\ abandoned = FALSE
  /\ loading = <<>> /\ pkgs = <<>> /\ owned = {} /\ exported = <<>>
  /\ frames = <<>>

Next ==
  \/ Preload \/ LexInputs \/ InputFails \/ InputDone
  \/ OpenFile \/ ImportTwice \/ Import \/ Spin
  \/ \E failed \in BOOLEAN : Misnamed(failed) \/ PkgFileDone(failed) \/ PkgDone(failed)

Spec     == Init /\ [][Next]_vars
FairSpec == Spec /\ WF_vars(Next)

-----------------------------------------------------------------------------
Frame == [pkg : Packages \union {Inputs}, file : Nat \ {0}, next : Nat]

TypeOK ==
  /\ status \in {"start", "runtime", "inputs", "spinning", "ok", "failed"}
  /\ err \in BOOLEAN /\ reported \in BOOLEAN /\ abandoned \in BOOLEAN
  /\ loading \in Seq(Packages) /\ pkgs \in Seq(Packages) /\ exported \in Seq(Packages)
  /\ owned \in SUBSET Packages
  /\ frames \in Seq(Frame)
  /\ \A i \in DOMAIN frames : frames[i].file <= Len(Files(frames[i].pkg))

(* The frame of the inputs, if any, lies below those of packages.          *)
Base == IF frames # <<>> /\ frames[1].pkg = Inputs THEN 1 ELSE 0

(* While every pkg_load has returned through loading_pop, ctx->loading is  *)
(* the C call stack, so the cycle check sees exactly the packages under    *)
(* way.                                                                    *)
LoadingIsFrames ==
  ~abandoned =>
    /\ Len(frames) = Len(loading) + Base
    /\ \A i \in DOMAIN loading : loading[i] = frames[i + Base].pkg

(* A package found in the cache by pkg_load has its exports (comment at    *)
(* pkg.c:618), while every pkg_load has returned through loading_pop.      *)
Incomplete == ToSet(pkgs) \ ToSet(exported)
CachedIsComplete == ~abandoned => Incomplete \subseteq ToSet(loading)

(* Between them the cycle check and the cache tell pkg_load all it has to  *)
(* know of a package: under way, complete, or new.                         *)
LoadingSound == LoadingIsFrames /\ CachedIsComplete

ImportsOf(p) == UNION {ToSet(f.imports) : f \in ToSet(Files(p))}

(* Until something is reported, a package's exports are built after those  *)
(* of everything it imports: no cycle among loaded packages goes unseen.   *)
DependenciesFirst ==
  ~reported =>
    \A i \in DOMAIN exported :
      exported[i] \in owned =>
        ImportsOf(exported[i]) \subseteq {exported[j] : j \in 1 .. i - 1}

(* A clean compile has loaded what the inputs and the loaded packages      *)
(* import, and nothing that nobody imports: what is linked is what is used.*)
Clean     == status = "ok" /\ ~reported
Importers == owned \union {Inputs}
AllImportsLoaded ==
  Clean => \A p \in Importers : ImportsOf(p) \subseteq ToSet(exported)
NothingElseLoaded ==
  Clean => \A p \in owned :
             \/ p = Runtime /\ program.std
             \/ \E q \in Importers \ {p} : p \in ImportsOf(q)

(* An error in an input file fails the compile.                            *)
InputErrorsFatal ==
  status = "ok" =>
    \A f \in ToSet(program.inputs) : f.lexes /\ f.parses /\ f.decl # NoName

(* What a compile that ends well has loaded, and has seen to be right.     *)
OutcomeSound == AllImportsLoaded /\ NothingElseLoaded /\ InputErrorsFatal

(* pkg_load comes to an end whatever the import graph, cycles included,    *)
(* when every file lexes.                                                  *)
AllLex == \A p \in Packages \union {Inputs} : \A f \in ToSet(Files(p)) : f.lexes
LexedTerminates == AllLex ~> (status \in {"ok", "failed"})
=============================================================================
