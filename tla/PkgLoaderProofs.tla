--------------------------- MODULE PkgLoaderProofs ---------------------------
(***************************************************************************)
(* The package loader for any set of programs: any number of packages, any *)
(* files, any import graph.                                                *)
(*                                                                         *)
(* The invariant ties the three records of progress together: the C call   *)
(* stack (frames), ctx->loading and the packages whose exports are built.  *)
(* As long as nothing was reported, what the files on the stack have       *)
(* imported so far is exported or further up the stack.                    *)
(*                                                                         *)
(* For the end of a compile a second invariant is added: a package is      *)
(* loaded for a file that imports it, and an input without a name stops at *)
(* its first error.                                                        *)
(***************************************************************************)
EXTENDS PkgLoader, TLAPS

-----------------------------------------------------------------------------
(* Sequences as stacks.                                                    *)

LEMMA FrontFacts ==
  ASSUME NEW S, NEW s \in Seq(S), s # <<>>
  PROVE  /\ Len(s) \in Nat \ {0}
         /\ Front(s) \in Seq(S)
         /\ Len(Front(s)) = Len(s) - 1
         /\ \A i \in 1 .. Len(s) - 1 : Front(s)[i] = s[i]
         /\ Last(s) = s[Len(s)] /\ Last(s) \in S
<1>1. Len(s) \in Nat \ {0}
  OBVIOUS
<1>2. Front(s) = [i \in 1 .. Len(s) - 1 |-> s[i]]
  BY <1>1 DEF Front
<1>3. \A i \in 1 .. Len(s) - 1 : s[i] \in S
  OBVIOUS
<1>4. Front(s) \in Seq(S) /\ Len(Front(s)) = Len(s) - 1
  BY <1>1, <1>2, <1>3
<1> QED BY <1>1, <1>2, <1>4 DEF Last

LEMMA AppendFacts ==
  ASSUME NEW S, NEW s \in Seq(S), NEW x \in S
  PROVE  /\ Append(s, x) \in Seq(S)
         /\ Len(Append(s, x)) = Len(s) + 1
         /\ \A i \in 1 .. Len(s) : Append(s, x)[i] = s[i]
         /\ Append(s, x)[Len(s) + 1] = x
         /\ ToSet(Append(s, x)) = ToSet(s) \union {x}
BY DEF ToSet

(* s with its last element changed to x.                                   *)
LEMMA ReplaceFacts ==
  ASSUME NEW S, NEW s \in Seq(S), s # <<>>, NEW x \in S
  PROVE  /\ Append(Front(s), x) \in Seq(S)
         /\ Len(Append(Front(s), x)) = Len(s)
         /\ \A i \in 1 .. Len(s) - 1 : Append(Front(s), x)[i] = s[i]
         /\ Append(Front(s), x)[Len(s)] = x
<1>1. /\ Front(s) \in Seq(S) /\ Len(Front(s)) = Len(s) - 1 /\ Len(s) \in Nat \ {0}
      /\ \A i \in 1 .. Len(s) - 1 : Front(s)[i] = s[i]
  BY FrontFacts
<1> QED BY <1>1

-----------------------------------------------------------------------------
(* The invariant.                                                          *)

KnownProgram == program \in Programs

ErrReported == (err \/ abandoned => reported) /\ (status = "start" => frames = <<>>)

InputsLowest == \A i \in DOMAIN frames : frames[i].pkg = Inputs => i = 1

CacheHolds ==
  /\ ToSet(exported) \subseteq ToSet(pkgs) /\ owned \subseteq ToSet(pkgs)
  /\ \A i \in DOMAIN frames : frames[i].pkg \in ToSet(pkgs) \union {Inputs}

(* Frame i's imports so far are in the set S.                              *)
Handled(fr, S) ==
  /\ \A f \in 1 .. fr.file - 1 : ToSet(Files(fr.pkg)[f].imports) \subseteq S
  /\ \A k \in 1 .. fr.next - 1 :
       k <= Len(Files(fr.pkg)[fr.file].imports) => Files(fr.pkg)[fr.file].imports[k] \in S

Above(i) == {frames[j].pkg : j \in i + 1 .. Len(frames)}

ImportsHandled ==
  ~reported => \A i \in DOMAIN frames : Handled(frames[i], ToSet(exported) \union Above(i))

IInv == /\ TypeOK /\ KnownProgram /\ ErrReported /\ InputsLowest /\ LoadingIsFrames
        /\ CacheHolds /\ CachedIsComplete /\ DependenciesFirst /\ ImportsHandled

-----------------------------------------------------------------------------
(* The files of a program.                                                 *)

LEMMA FilesTyped ==
  ASSUME KnownProgram, NEW p \in Packages \union {Inputs}
  PROVE  Files(p) \in Seq(SourceFile)
BY ProgramsAssumption DEF KnownProgram, Files

LEMMA ImportsTyped ==
  ASSUME KnownProgram, NEW p \in Packages \union {Inputs}, NEW f \in 1 .. Len(Files(p))
  PROVE  /\ Files(p)[f] \in SourceFile
         /\ Files(p)[f].imports \in Seq(Packages)
         /\ Files(p)[f].decl \in Packages \union {NoName}
<1>1. Files(p)[f] \in SourceFile
  BY FilesTyped
<1> QED BY <1>1 DEF SourceFile

(* The frame at the top.                                                   *)
LEMMA TopTyped ==
  ASSUME TypeOK, KnownProgram, frames # <<>>
  PROVE  /\ Len(frames) \in Nat \ {0}
         /\ Top = frames[Len(frames)] /\ Top \in Frame
         /\ Top.pkg \in Packages \union {Inputs}
         /\ Top.file \in 1 .. Len(Files(Top.pkg)) /\ Top.next \in Nat
         /\ Source \in SourceFile /\ Source.imports \in Seq(Packages)
         /\ Source.decl \in Packages \union {NoName}
<1>1. /\ Len(frames) \in Nat \ {0} /\ Top = frames[Len(frames)] /\ Top \in Frame
  BY FrontFacts DEF TypeOK, Top
<1>2. Top.pkg \in Packages \union {Inputs} /\ Top.file \in Nat \ {0} /\ Top.next \in Nat
  BY <1>1 DEF Frame
<1>3. Len(Files(Top.pkg)) \in Nat
  BY <1>2, FilesTyped
<1>4. Top.file \in 1 .. Len(Files(Top.pkg))
  BY <1>1, <1>2, <1>3 DEF TypeOK
<1> QED BY <1>1, <1>2, <1>4, ImportsTyped DEF Source

(* The stack after the top frame has moved on.                             *)
Moved(rest) ==
  /\ rest \in Seq(Frame) /\ Len(rest) = Len(frames)
  /\ \A i \in 1 .. Len(frames) - 1 : rest[i] = frames[i]
  /\ rest[Len(frames)].pkg = Top.pkg

LEMMA PastImportMoves ==
  ASSUME TypeOK, KnownProgram, frames # <<>>
  PROVE  /\ Moved(PastImport)
         /\ PastImport[Len(frames)] = [pkg |-> Top.pkg, file |-> Top.file, next |-> Top.next + 1]
<1> DEFINE x == [pkg |-> Top.pkg, file |-> Top.file, next |-> Top.next + 1]
<1>1. Top \in Frame /\ x \in Frame /\ [Top EXCEPT !.next = @ + 1] = x
  BY TopTyped DEF Frame
<1>2. PastImport = Append(Front(frames), x)
  BY <1>1 DEF PastImport, WithTop
<1>3. x.pkg = Top.pkg /\ frames \in Seq(Frame)
  BY DEF TypeOK
<1> HIDE DEF x
<1>4. Moved(PastImport) /\ PastImport[Len(frames)] = x
  BY <1>1, <1>2, <1>3, ReplaceFacts DEF Moved
<1> QED BY <1>4 DEF x

LEMMA NextFileMoves ==
  ASSUME TypeOK, KnownProgram, frames # <<>>
  PROVE  /\ Moved(NextFile)
         /\ NextFile[Len(frames)] = [pkg |-> Top.pkg, file |-> Top.file + 1, next |-> 0]
<1> DEFINE x == [pkg |-> Top.pkg, file |-> Top.file + 1, next |-> 0]
<1>1. x \in Frame /\ x.pkg = Top.pkg /\ frames \in Seq(Frame)
  BY TopTyped DEF Frame, TypeOK
<1>2. NextFile = Append(Front(frames), x)
  BY DEF NextFile, WithTop, Opening
<1> HIDE DEF x
<1>3. Moved(NextFile) /\ NextFile[Len(frames)] = x
  BY <1>1, <1>2, ReplaceFacts DEF Moved
<1> QED BY <1>3 DEF x

-----------------------------------------------------------------------------
(* How the parts of the invariant follow the stack.                        *)

(* A stack with the packages of frames, and files that exist.              *)
Stays(rest) ==
  /\ rest \in Seq(Frame) /\ Len(rest) = Len(frames)
  /\ \A i \in DOMAIN frames : /\ rest[i].pkg = frames[i].pkg
                              /\ rest[i].file <= Len(Files(rest[i].pkg))

LEMMA MovedStays ==
  ASSUME TypeOK, KnownProgram, frames # <<>>, NEW rest, Moved(rest),
         rest[Len(frames)].file <= Len(Files(Top.pkg))
  PROVE  Stays(rest)
<1>1. Len(frames) \in Nat \ {0} /\ Top = frames[Len(frames)]
  BY TopTyped
<1>2. DOMAIN frames = 1 .. Len(frames) /\ rest \in Seq(Frame) /\ Len(rest) = Len(frames)
  BY DEF Moved, TypeOK
<1>3. ASSUME NEW i \in DOMAIN frames
      PROVE  rest[i].pkg = frames[i].pkg /\ rest[i].file <= Len(Files(rest[i].pkg))
  <2>1. CASE i = Len(frames)
    BY <1>1, <2>1 DEF Moved
  <2>2. CASE i # Len(frames)
    <3>1. i \in 1 .. Len(frames) - 1
      BY <1>1, <1>2, <2>2
    <3>2. rest[i] = frames[i]
      BY <3>1 DEF Moved
    <3> QED BY <3>2 DEF TypeOK
  <2> QED BY <2>1, <2>2
<1> QED BY <1>2, <1>3 DEF Stays

LEMMA StaysLoading ==
  ASSUME TypeOK, InputsLowest, LoadingIsFrames, Stays(frames'),
         loading' = loading, abandoned' = abandoned
  PROVE  /\ InputsLowest' /\ LoadingIsFrames'
         /\ frames' \in Seq(Frame)
         /\ Base' = Base
<1>1. DOMAIN frames = 1 .. Len(frames) /\ Len(frames) \in Nat
      /\ DOMAIN frames' = DOMAIN frames /\ Len(frames') = Len(frames)
  BY DEF TypeOK, Stays
<1>2. InputsLowest'
  BY <1>1 DEF InputsLowest, Stays
<1>3. Base' = Base
  BY <1>1 DEF Base, Stays
<1>4. LoadingIsFrames'
  <2> SUFFICES ASSUME ~abandoned
               PROVE  /\ Len(frames') = Len(loading) + Base
                      /\ \A i \in DOMAIN loading : loading[i] = frames'[i + Base].pkg
    BY <1>3 DEF LoadingIsFrames
  <2>1. Len(frames) = Len(loading) + Base /\ Base \in {0, 1} /\ Len(loading) \in Nat
    BY DEF LoadingIsFrames, TypeOK, Base
  <2>2. \A i \in DOMAIN loading : i + Base \in DOMAIN frames
    BY <1>1, <2>1 DEF TypeOK
  <2> QED BY <1>1, <2>1, <2>2 DEF LoadingIsFrames, Stays
<1> QED BY <1>2, <1>3, <1>4 DEF Stays

LEMMA PushLoading ==
  ASSUME TypeOK, InputsLowest, LoadingIsFrames, NEW rest, Stays(rest), NEW name \in Packages,
         frames' = Append(rest, Opening(name, 1)), loading' = Append(loading, name),
         abandoned' = abandoned
  PROVE  InputsLowest' /\ LoadingIsFrames' /\ frames' \in Seq(Frame) /\ loading' \in Seq(Packages)
<1> DEFINE x == Opening(name, 1)
<1>1. x \in Frame /\ x.pkg = name /\ name # Inputs
  BY PackagesAssumption DEF Opening, Frame
<1> HIDE DEF x
<1>2. /\ frames' \in Seq(Frame) /\ Len(frames') = Len(frames) + 1 /\ Len(frames) \in Nat
      /\ \A i \in 1 .. Len(frames) : frames'[i] = rest[i]
      /\ frames'[Len(frames) + 1] = x
      /\ DOMAIN frames = 1 .. Len(frames) /\ DOMAIN frames' = 1 .. Len(frames) + 1
  BY <1>1, AppendFacts DEF Stays, TypeOK, x
<1>3. /\ loading' \in Seq(Packages) /\ Len(loading') = Len(loading) + 1 /\ Len(loading) \in Nat
      /\ \A i \in 1 .. Len(loading) : loading'[i] = loading[i]
      /\ loading'[Len(loading) + 1] = name
      /\ DOMAIN loading = 1 .. Len(loading) /\ DOMAIN loading' = 1 .. Len(loading) + 1
  BY AppendFacts DEF TypeOK
<1>4. \A i \in 1 .. Len(frames) : frames'[i].pkg = frames[i].pkg
  BY <1>2 DEF Stays
<1>5. InputsLowest'
  BY <1>1, <1>2, <1>4 DEF InputsLowest
<1>6. Base' = Base /\ Base \in {0, 1}
  BY <1>1, <1>2, <1>4 DEF Base
<1>7. LoadingIsFrames'
  <2> SUFFICES ASSUME ~abandoned
               PROVE  /\ Len(frames') = Len(loading') + Base
                      /\ \A i \in DOMAIN loading' : loading'[i] = frames'[i + Base].pkg
    BY <1>6 DEF LoadingIsFrames
  <2>1. /\ Len(frames) = Len(loading) + Base
        /\ \A i \in DOMAIN loading : loading[i] = frames[i + Base].pkg
    BY DEF LoadingIsFrames
  <2>2. Len(frames') = Len(loading') + Base
    BY <1>2, <1>3, <1>6, <2>1
  <2>3. ASSUME NEW i \in 1 .. Len(loading) PROVE loading'[i] = frames'[i + Base].pkg
    <3>1. i + Base \in 1 .. Len(frames)
      BY <1>2, <1>3, <1>6, <2>1
    <3> QED BY <1>3, <1>4, <2>1, <3>1
  <2>4. loading'[Len(loading) + 1] = frames'[Len(loading) + 1 + Base].pkg
    BY <1>1, <1>2, <1>3, <1>6, <2>1
  <2>5. \A i \in DOMAIN loading' : i \in 1 .. Len(loading) \/ i = Len(loading) + 1
    BY <1>3
  <2> QED BY <2>2, <2>3, <2>4, <2>5
<1> QED BY <1>2, <1>3, <1>5, <1>7

LEMMA PopLoading ==
  ASSUME TypeOK, KnownProgram, InputsLowest, LoadingIsFrames, frames # <<>>, Top.pkg # Inputs,
         frames' = Front(frames), loading' = Front(loading), abandoned' = abandoned
  PROVE  /\ InputsLowest' /\ LoadingIsFrames'
         /\ ~abandoned => loading # <<>> /\ Last(loading) = Top.pkg
<1>1. /\ frames' \in Seq(Frame) /\ Len(frames') = Len(frames) - 1 /\ Len(frames) \in Nat \ {0}
      /\ \A i \in 1 .. Len(frames) - 1 : frames'[i] = frames[i]
      /\ Top = frames[Len(frames)]
      /\ DOMAIN frames = 1 .. Len(frames) /\ DOMAIN frames' = 1 .. Len(frames) - 1
  <2>1. Top = frames[Len(frames)]
    BY TopTyped
  <2>2. frames \in Seq(Frame)
    BY DEF TypeOK
  <2> QED BY <2>1, <2>2, FrontFacts
<1>2. InputsLowest'
  BY <1>1 DEF InputsLowest
<1>3. Base' = Base /\ Base \in {0, 1}
  BY <1>1 DEF Base
<1>4. ASSUME ~abandoned
      PROVE  /\ Len(frames) = Len(loading) + Base /\ loading # <<>>
             /\ loading \in Seq(Packages) /\ Len(loading) \in Nat
             /\ \A i \in DOMAIN loading : loading[i] = frames[i + Base].pkg
  <2>1. /\ Len(frames) = Len(loading) + Base
        /\ \A i \in DOMAIN loading : loading[i] = frames[i + Base].pkg
        /\ loading \in Seq(Packages)
    BY <1>4 DEF LoadingIsFrames, TypeOK
  <2>2. Len(loading) # 0
    BY <1>1, <2>1 DEF Base
  <2> QED BY <2>1, <2>2
<1>5. ASSUME ~abandoned
      PROVE  /\ Last(loading) = Top.pkg
             /\ Len(frames') = Len(loading') + Base
             /\ \A i \in DOMAIN loading' : loading'[i] = frames'[i + Base].pkg
  <2>1. /\ loading' \in Seq(Packages) /\ Len(loading') = Len(loading) - 1
        /\ \A i \in 1 .. Len(loading) - 1 : loading'[i] = loading[i]
        /\ Last(loading) = loading[Len(loading)]
        /\ DOMAIN loading' = 1 .. Len(loading) - 1 /\ DOMAIN loading = 1 .. Len(loading)
        /\ Len(loading) \in Nat \ {0}
    BY <1>4, <1>5, FrontFacts
  <2>2. Last(loading) = Top.pkg
    BY <1>1, <1>3, <1>4, <1>5, <2>1
  <2>3. ASSUME NEW i \in DOMAIN loading' PROVE loading'[i] = frames'[i + Base].pkg
    <3>1. i + Base \in 1 .. Len(frames) - 1 /\ i \in DOMAIN loading
      BY <1>3, <1>4, <1>5, <2>1
    <3> QED BY <1>1, <1>4, <1>5, <2>1, <3>1
  <2> QED BY <1>1, <1>3, <1>4, <1>5, <2>1, <2>2, <2>3
<1>6. LoadingIsFrames'
  BY <1>3, <1>5 DEF LoadingIsFrames
<1> QED BY <1>2, <1>4, <1>5, <1>6

(* Handled only asks for more imports to be in a smaller set.              *)
LEMMA HandledMonotone ==
  ASSUME NEW fr, NEW S, NEW T, S \subseteq T, Handled(fr, S)
  PROVE  Handled(fr, T)
BY DEF Handled

(* What pkg_load is called with: a stack that has gone past the import of  *)
(* name, whose imports so far include name.                                *)
Calls(name, rest) ==
  /\ name \in Packages /\ Stays(rest)
  /\ ~reported => \A i \in DOMAIN rest :
       Handled(rest[i], ToSet(exported) \union Above(i) \union {name})

Statuses == {"runtime", "inputs", "spinning", "ok", "failed"}

(* A step that moves the stack on and builds no exports.                   *)
LEMMA StackMoves ==
  ASSUME IInv, Stays(frames'),
         UNCHANGED <<program, abandoned, loading, pkgs, owned, exported>>,
         err' \in BOOLEAN, reported' \in BOOLEAN, err' \/ abandoned => reported',
         reported => reported', status' \in Statuses,
         ~reported' => \A i \in DOMAIN frames :
                          Handled(frames'[i], ToSet(exported) \union Above(i))
  PROVE  IInv'
<1> USE DEF IInv
<1>1. InputsLowest' /\ LoadingIsFrames' /\ frames' \in Seq(Frame)
  BY StaysLoading
<1>2. /\ Len(frames') = Len(frames) /\ Len(frames) \in Nat
      /\ DOMAIN frames = 1 .. Len(frames) /\ DOMAIN frames' = DOMAIN frames
  BY <1>1 DEF Stays, TypeOK
<1>3. TypeOK'
  <2>1. \A i \in DOMAIN frames' : frames'[i].file <= Len(Files(frames'[i].pkg))
    BY <1>2 DEF Stays
  <2>2. /\ loading' \in Seq(Packages) /\ pkgs' \in Seq(Packages) /\ exported' \in Seq(Packages)
        /\ owned' \in SUBSET Packages /\ abandoned' \in BOOLEAN
    BY DEF TypeOK
  <2> QED BY <1>1, <2>1, <2>2 DEF TypeOK, Files, Statuses
<1>4. KnownProgram' /\ ErrReported' /\ CacheHolds' /\ CachedIsComplete'
  <2>1. \A i \in DOMAIN frames' : frames'[i].pkg \in ToSet(pkgs) \union {Inputs}
    BY <1>2 DEF CacheHolds, Stays
  <2> QED BY <2>1 DEF KnownProgram, ErrReported, CacheHolds, CachedIsComplete, Incomplete, Statuses
<1>5. DependenciesFirst'
  BY DEF DependenciesFirst, ImportsOf, Files
<1>6. ImportsHandled'
  <2> SUFFICES ASSUME ~reported', NEW i \in DOMAIN frames'
               PROVE  Handled(frames'[i], ToSet(exported) \union Above(i)')
    BY DEF ImportsHandled, Handled, Files
  <2>1. Above(i)' = Above(i)
    <3>1. \A j \in i + 1 .. Len(frames) : frames'[j].pkg = frames[j].pkg
      BY <1>2 DEF Stays
    <3> QED BY <1>2, <3>1 DEF Above
  <2> QED BY <1>2, <2>1
<1> QED BY <1>1, <1>3, <1>4, <1>5, <1>6

(* The stack of the caller, once pkg_load(name) has returned.              *)
LEMMA ReturnsToCaller ==
  ASSUME IInv, NEW name, NEW rest, Calls(name, rest), frames' = rest,
         UNCHANGED <<program, abandoned, loading, pkgs, owned, exported>>,
         err' \in BOOLEAN, reported' \in BOOLEAN, err' \/ abandoned => reported',
         reported => reported', ~reported' => name \in ToSet(exported),
         status' \in {"runtime", "inputs"}
  PROVE  IInv'
<1>1. Stays(frames') /\ status' \in Statuses
  BY DEF Calls, Statuses
<1>2. ASSUME ~reported', NEW i \in DOMAIN frames
      PROVE  Handled(frames'[i], ToSet(exported) \union Above(i))
  <2>1. i \in DOMAIN rest
    BY DEF Calls, Stays, IInv, TypeOK
  <2>2. Handled(rest[i], ToSet(exported) \union Above(i) \union {name})
    BY <1>2, <2>1 DEF Calls
  <2> QED BY <1>2, <2>2, HandledMonotone
<1> QED BY <1>1, <1>2, StackMoves

LEMMA LoadStartsKeeps ==
  ASSUME IInv, NEW name, NEW rest, Calls(name, rest), LoadStarts(name, rest),
         program' = program, status' \in {"runtime", "inputs"}
  PROVE  IInv'
<1> USE DEF IInv
<1> DEFINE x == Opening(name, 1)
<1>1. /\ name \in Packages /\ Stays(rest) /\ frames' = Append(rest, x)
      /\ program.dirs[name] # <<>> /\ name # Inputs
  BY PackagesAssumption DEF Calls, LoadStarts
<1>2. x \in Frame /\ x.pkg = name /\ x.file = 1 /\ x.next = 0
  BY <1>1 DEF Opening, Frame
<1>3. InputsLowest' /\ LoadingIsFrames' /\ frames' \in Seq(Frame) /\ loading' \in Seq(Packages)
  <2>1. frames' = Append(rest, Opening(name, 1)) /\ loading' = Append(loading, name)
        /\ abandoned' = abandoned
    BY <1>1 DEF LoadStarts
  <2> QED BY <1>1, <2>1, PushLoading
<1> HIDE DEF x
<1>4. /\ Len(frames') = Len(frames) + 1 /\ Len(frames) \in Nat /\ Len(rest) = Len(frames)
      /\ \A i \in 1 .. Len(frames) : frames'[i] = rest[i]
      /\ frames'[Len(frames) + 1] = x
      /\ DOMAIN frames' = 1 .. Len(frames) + 1
      /\ DOMAIN frames = 1 .. Len(frames) /\ DOMAIN rest = 1 .. Len(frames)
  BY <1>1, <1>2, AppendFacts DEF Stays, TypeOK
<1>5. ToSet(pkgs') = ToSet(pkgs) \union {name} /\ ToSet(loading') = ToSet(loading) \union {name}
      /\ pkgs' \in Seq(Packages)
  BY <1>1, AppendFacts DEF LoadStarts, TypeOK
<1>6. Files(name) = program.dirs[name] /\ Files(name) \in Seq(SourceFile)
  BY <1>1, FilesTyped DEF Files
<1>7. TypeOK'
  <2>1. ASSUME NEW i \in DOMAIN frames' PROVE frames'[i].file <= Len(Files(frames'[i].pkg))
    <3>1. CASE i = Len(frames) + 1
      <4>1. Len(Files(name)) >= 1
        BY <1>1, <1>6
      <4> QED BY <1>2, <1>4, <3>1, <4>1
    <3>2. CASE i # Len(frames) + 1
      <4>1. i \in DOMAIN frames /\ frames'[i] = rest[i]
        BY <1>4, <3>2
      <4> QED BY <1>1, <4>1 DEF Stays
    <3> QED BY <3>1, <3>2
  <2>2. err' \in BOOLEAN
    <3>1. Files(name) # <<>>
      BY <1>1, <1>6
    <3>2. Last(Files(name)) \in SourceFile
      BY ONLY <1>6, <3>1, FrontFacts
    <3> QED BY <1>6, <3>2 DEF LoadStarts, SourceFile
  <2>3. reported' \in BOOLEAN /\ abandoned' \in BOOLEAN /\ exported' \in Seq(Packages)
        /\ owned' \in SUBSET Packages
    BY <1>1 DEF LoadStarts, TypeOK
  <2>4. status' \in {"start", "runtime", "inputs", "spinning", "ok", "failed"}
    OBVIOUS
  <2> QED BY <1>3, <1>5, <2>1, <2>2, <2>3, <2>4 DEF TypeOK, Files
<1>8. err' => reported'
  <2>1. Files(name) # <<>>
    BY <1>1, <1>6
  <2>2. Last(Files(name)) = Files(name)[Len(Files(name))] /\ Len(Files(name)) \in Nat \ {0}
    BY ONLY <1>6, <2>1, FrontFacts
  <2>3. Last(Files(name)) \in ToSet(Files(name))
    BY <1>6, <2>2 DEF ToSet
  <2> QED BY <1>6, <2>3 DEF LoadStarts
<1>9. KnownProgram' /\ ErrReported'
  BY <1>8 DEF KnownProgram, ErrReported, LoadStarts
<1>10. CacheHolds' /\ CachedIsComplete'
  <2>1. ASSUME NEW i \in DOMAIN frames' PROVE frames'[i].pkg \in ToSet(pkgs') \union {Inputs}
    <3>1. CASE i = Len(frames) + 1
      BY <1>2, <1>4, <1>5, <3>1
    <3>2. CASE i # Len(frames) + 1
      BY <1>1, <1>4, <1>5, <3>2 DEF CacheHolds, Stays
    <3> QED BY <3>1, <3>2
  <2> QED BY <1>5, <2>1 DEF CacheHolds, CachedIsComplete, Incomplete, LoadStarts
<1>11. DependenciesFirst'
  <2>0. exported' = exported /\ (\A q : ImportsOf(q)' = ImportsOf(q))
    BY DEF LoadStarts, ImportsOf, Files
  <2> SUFFICES ASSUME ~reported', NEW i \in DOMAIN exported, exported[i] \in owned'
               PROVE  ImportsOf(exported[i]) \subseteq {exported[j] : j \in 1 .. i - 1}
    BY <2>0 DEF DependenciesFirst
  <2>1. exported[i] \in ToSet(pkgs) /\ name \notin ToSet(pkgs)
    BY DEF CacheHolds, ToSet, LoadStarts
  <2>2. exported[i] \in owned /\ ~reported
    BY <2>1 DEF LoadStarts
  <2> QED BY <2>2 DEF DependenciesFirst
<1>12. ImportsHandled'
  <2> SUFFICES ASSUME ~reported', NEW i \in DOMAIN frames'
               PROVE  Handled(frames'[i], ToSet(exported) \union Above(i)')
    BY DEF ImportsHandled, LoadStarts, Handled, Files
  <2>1. ~reported
    BY DEF LoadStarts
  <2>2. CASE i = Len(frames) + 1
    BY <1>2, <1>4, <2>2 DEF Handled
  <2>3. CASE i \in 1 .. Len(frames)
    <3>1. Handled(rest[i], ToSet(exported) \union Above(i) \union {name})
      BY <1>4, <2>1, <2>3 DEF Calls
    <3>2. \A j \in 1 .. Len(frames) : frames'[j].pkg = frames[j].pkg
      BY <1>1, <1>4 DEF Stays
    <3>3. Above(i) \subseteq Above(i)'
      BY <1>4, <3>2, <2>3 DEF Above
    <3>4. name \in Above(i)'
      <4>1. Len(frames) + 1 \in i + 1 .. Len(frames')
        BY <1>4, <2>3
      <4> QED BY <1>2, <1>4, <4>1 DEF Above
    <3>5. Handled(rest[i], ToSet(exported) \union Above(i)')
      BY <3>1, <3>3, <3>4, HandledMonotone
    <3>6. frames'[i] = rest[i]
      BY <1>4, <2>3
    <3> QED BY <3>5, <3>6
  <2> QED BY <1>4, <2>2, <2>3
<1> QED BY <1>3, <1>7, <1>9, <1>10, <1>11, <1>12

LEMMA PkgLoadKeeps ==
  ASSUME IInv, NEW name, NEW rest, Calls(name, rest), pkg_load(name, rest),
         program' = program, status' \in {"runtime", "inputs"}
  PROVE  IInv'
<1>1. CASE LoadCycle(name, rest)
  BY <1>1, ReturnsToCaller DEF LoadCycle, die_at
<1>2. CASE LoadMissing(name, rest)
  BY <1>2, ReturnsToCaller DEF LoadMissing, die_at
<1>3. CASE LoadCached(name, rest)
  <2>1. ~reported => name \in ToSet(exported)
    BY <1>3 DEF LoadCached, IInv, ErrReported, CachedIsComplete, Incomplete
  <2>2. err \in BOOLEAN /\ reported \in BOOLEAN /\ (err \/ abandoned => reported)
    BY DEF IInv, TypeOK, ErrReported
  <2> QED BY <1>3, <2>1, <2>2, ReturnsToCaller DEF LoadCached
<1>4. CASE LoadStarts(name, rest)
  BY <1>4, LoadStartsKeeps
<1> QED BY <1>1, <1>2, <1>3, <1>4 DEF pkg_load

-----------------------------------------------------------------------------
(* The steps of a file.                                                    *)

LEMMA OpenFileKeeps ==
  ASSUME IInv, OpenFile
  PROVE  IInv'
<1>1. TypeOK /\ KnownProgram /\ ImportsHandled /\ ErrReported /\ frames # <<>>
  BY DEF IInv, OpenFile, Parsing
<1>2. /\ Moved(PastImport) /\ PastImport = frames'
      /\ frames'[Len(frames)] = [pkg |-> Top.pkg, file |-> Top.file, next |-> Top.next + 1]
      /\ Top.next = 0
  BY <1>1, PastImportMoves DEF OpenFile
<1>3. /\ Top = frames[Len(frames)] /\ Len(frames) \in DOMAIN frames
      /\ Top.file \in 1 .. Len(Files(Top.pkg))
      /\ Len(frames) \in Nat \ {0} /\ DOMAIN frames = 1 .. Len(frames)
  BY <1>1, TopTyped DEF TypeOK
<1>4. Stays(frames')
  BY <1>1, <1>2, <1>3, MovedStays
<1>5. ASSUME ~reported', NEW i \in DOMAIN frames
      PROVE  Handled(frames'[i], ToSet(exported) \union Above(i))
  <2>1. Handled(frames[i], ToSet(exported) \union Above(i))
    BY <1>1, <1>5 DEF ImportsHandled, OpenFile
  <2>2. CASE i = Len(frames)
    BY <1>2, <1>3, <2>1, <2>2 DEF Handled
  <2>3. CASE i \in 1 .. Len(frames) - 1
    BY <1>2, <2>1, <2>3 DEF Moved
  <2> QED BY <1>3, <2>2, <2>3
<1>6. /\ err' \in BOOLEAN /\ reported' \in BOOLEAN
      /\ (err' \/ abandoned => reported') /\ (reported => reported')
      /\ status' \in Statuses
      /\ UNCHANGED <<program, abandoned, loading, pkgs, owned, exported>>
  BY <1>1 DEF OpenFile, Parsing, TypeOK, ErrReported, Statuses
<1> QED BY <1>4, <1>5, <1>6, StackMoves

LEMMA ImportTwiceKeeps ==
  ASSUME IInv, ImportTwice
  PROVE  IInv'
<1>1. TypeOK /\ KnownProgram /\ frames # <<>> /\ frames' = PastImport /\ reported' /\ err'
  BY DEF IInv, ImportTwice, ImportDue, Parsing, die_at
<1>2. Stays(frames')
  BY <1>1, PastImportMoves, MovedStays, TopTyped
<1>3. /\ err' \in BOOLEAN /\ reported' \in BOOLEAN
      /\ status' \in Statuses
      /\ UNCHANGED <<program, abandoned, loading, pkgs, owned, exported>>
  BY DEF ImportTwice, ImportDue, Parsing, Statuses, die_at
<1> QED BY <1>1, <1>2, <1>3, StackMoves

LEMMA ImportKeeps ==
  ASSUME IInv, Import
  PROVE  IInv'
<1>1. /\ TypeOK /\ KnownProgram /\ ImportsHandled /\ frames # <<>>
      /\ Top.next \in 1 .. Len(Source.imports)
      /\ pkg_load(Imported, PastImport)
      /\ program' = program /\ status' \in {"runtime", "inputs"}
  BY DEF IInv, Import, ImportDue, Parsing
<1>2. /\ Moved(PastImport)
      /\ PastImport[Len(frames)] = [pkg |-> Top.pkg, file |-> Top.file, next |-> Top.next + 1]
  BY <1>1, PastImportMoves
<1>3. /\ Top = frames[Len(frames)] /\ Len(frames) \in DOMAIN frames
      /\ Top.file \in 1 .. Len(Files(Top.pkg))
      /\ Len(frames) \in Nat \ {0} /\ DOMAIN frames = 1 .. Len(frames)
      /\ Source.imports \in Seq(Packages)
  BY <1>1, TopTyped DEF TypeOK
<1>4. Stays(PastImport)
  BY <1>1, <1>2, <1>3, MovedStays
<1>5. Imported \in Packages
  BY <1>1, <1>3 DEF Imported
<1>6. ASSUME ~reported, NEW i \in DOMAIN PastImport
      PROVE  Handled(PastImport[i], ToSet(exported) \union Above(i) \union {Imported})
  <2>1. i \in DOMAIN frames
    BY <1>2, <1>3 DEF Moved
  <2>2. Handled(frames[i], ToSet(exported) \union Above(i))
    BY <1>1, <1>6, <2>1 DEF ImportsHandled
  <2>3. CASE i = Len(frames)
    <3> DEFINE S == ToSet(exported) \union Above(i)
    <3>1. Handled(Top, S) /\ Source = Files(Top.pkg)[Top.file]
      BY <1>3, <2>2, <2>3 DEF Source
    <3>2. \A k \in 1 .. Top.next : k \in 1 .. Top.next - 1 \/ k = Top.next
      BY <1>1, <1>3
    <3>3. \A k \in 1 .. Top.next :
            k <= Len(Source.imports) => Source.imports[k] \in S \union {Imported}
      BY <3>1, <3>2 DEF Handled, Imported
    <3>4. Top.next \in Nat
      BY <1>1
    <3> DEFINE x == PastImport[i]
    <3>5. x.pkg = Top.pkg /\ x.file = Top.file /\ x.next = Top.next + 1
      BY <1>2, <2>3
    <3> HIDE DEF S, x
    <3>6. /\ \A f \in 1 .. x.file - 1 : ToSet(Files(x.pkg)[f].imports) \subseteq S \union {Imported}
          /\ \A k \in 1 .. x.next - 1 :
               k <= Len(Files(x.pkg)[x.file].imports)
                 => Files(x.pkg)[x.file].imports[k] \in S \union {Imported}
      <4>1. Top.file - 1 = x.file - 1 /\ x.next - 1 = Top.next /\ Source = Files(x.pkg)[x.file]
        <5>1. x.next - 1 = Top.next
          BY ONLY <3>4, <3>5
        <5> QED BY <3>1, <3>5, <5>1
      <4>2. \A f \in 1 .. Top.file - 1 : ToSet(Files(Top.pkg)[f].imports) \subseteq S
        BY <3>1 DEF Handled
      <4> QED BY <3>3, <3>5, <4>1, <4>2
    <3>7. Handled(x, S \union {Imported})
      BY <3>6 DEF Handled
    <3> QED BY <3>7 DEF S, x
  <2>4. CASE i \in 1 .. Len(frames) - 1
    <3>1. PastImport[i] = frames[i]
      BY <1>2, <2>4 DEF Moved
    <3> QED BY <2>2, <3>1, HandledMonotone
  <2> QED BY <1>3, <2>1, <2>3, <2>4
<1>7. Calls(Imported, PastImport)
  BY <1>4, <1>5, <1>6 DEF Calls
<1> QED BY <1>1, <1>7, PkgLoadKeeps

LEMMA SpinKeeps ==
  ASSUME IInv, Spin
  PROVE  IInv'
<1>1. /\ frames \in Seq(Frame) /\ frames' = frames
      /\ \A i \in DOMAIN frames : frames[i].file <= Len(Files(frames[i].pkg))
  BY DEF IInv, TypeOK, Spin
<1>2. Stays(frames')
  BY <1>1 DEF Stays
<1>3. ~reported' => \A i \in DOMAIN frames : Handled(frames'[i], ToSet(exported) \union Above(i))
  BY <1>1 DEF IInv, ImportsHandled, Spin
<1>4. /\ err' \in BOOLEAN /\ reported' \in BOOLEAN
      /\ (err' \/ abandoned => reported') /\ (reported => reported')
      /\ status' \in Statuses
      /\ UNCHANGED <<program, abandoned, loading, pkgs, owned, exported>>
  BY DEF Spin, IInv, TypeOK, ErrReported, Statuses
<1> QED BY <1>2, <1>3, <1>4, StackMoves

-----------------------------------------------------------------------------
(* The end of a file.                                                      *)

(* A file that ends well has had all its imports handled.                  *)
LEMMA FileHandled ==
  ASSUME TypeOK, KnownProgram, FileEnds(FALSE), NEW S, Handled(Top, S)
  PROVE  \A f \in 1 .. Top.file : ToSet(Files(Top.pkg)[f].imports) \subseteq S
<1>1. /\ Top.next > Len(Source.imports) /\ frames # <<>>
  BY DEF FileEnds, Parsing
<1>2. /\ Top.file \in 1 .. Len(Files(Top.pkg)) /\ Top.next \in Nat
      /\ Source.imports \in Seq(Packages) /\ Source = Files(Top.pkg)[Top.file]
  BY <1>1, TopTyped DEF Source
<1>3. ASSUME NEW k \in DOMAIN Source.imports PROVE Source.imports[k] \in S
  <2>1. k \in 1 .. Top.next - 1 /\ k <= Len(Source.imports)
    BY <1>1, <1>2
  <2> QED BY <1>2, <2>1 DEF Handled
<1>4. ToSet(Source.imports) \subseteq S
  BY <1>3 DEF ToSet
<1>5. ASSUME NEW f \in 1 .. Top.file PROVE f \in 1 .. Top.file - 1 \/ f = Top.file
  BY <1>2
<1> QED BY <1>2, <1>4, <1>5 DEF Handled

LEMMA PkgFileDoneKeeps ==
  ASSUME IInv, NEW failed \in BOOLEAN, PkgFileDone(failed)
  PROVE  IInv'
<1>1. /\ TypeOK /\ KnownProgram /\ ImportsHandled /\ ErrReported /\ frames # <<>>
      /\ FileEnds(failed) /\ Top.file < Len(Files(Top.pkg))
      /\ frames' = NextFile
  BY DEF IInv, PkgFileDone, PkgFileEnds, FileEnds, Parsing
<1>2. /\ Moved(frames')
      /\ frames'[Len(frames)] = [pkg |-> Top.pkg, file |-> Top.file + 1, next |-> 0]
  BY <1>1, NextFileMoves
<1>3. /\ Top = frames[Len(frames)] /\ Len(frames) \in DOMAIN frames
      /\ Top.file \in 1 .. Len(Files(Top.pkg))
      /\ Len(frames) \in Nat \ {0} /\ DOMAIN frames = 1 .. Len(frames)
  BY <1>1, TopTyped DEF TypeOK
<1>4. Len(Files(Top.pkg)) \in Nat
  BY <1>1, TopTyped, FilesTyped
<1>5. Stays(frames')
  BY <1>1, <1>2, <1>3, <1>4, MovedStays
<1>6. ASSUME ~reported', NEW i \in DOMAIN frames
      PROVE  Handled(frames'[i], ToSet(exported) \union Above(i))
  <2>1. Handled(frames[i], ToSet(exported) \union Above(i)) /\ FileEnds(FALSE)
    BY <1>1, <1>6 DEF ImportsHandled, PkgFileDone
  <2>2. CASE i = Len(frames)
    <3> DEFINE S == ToSet(exported) \union Above(i)
               x == frames'[i]
    <3>1. \A f \in 1 .. Top.file : ToSet(Files(Top.pkg)[f].imports) \subseteq S
      BY <1>1, <1>3, <2>1, <2>2, FileHandled
    <3>2. x.pkg = Top.pkg /\ x.file - 1 = Top.file /\ x.next - 1 = -1
      BY <1>2, <1>3, <2>2
    <3> HIDE DEF S, x
    <3>3. Handled(x, S)
      BY <3>1, <3>2 DEF Handled
    <3> QED BY <3>3 DEF S, x
  <2>3. CASE i \in 1 .. Len(frames) - 1
    BY <1>2, <2>1, <2>3 DEF Moved
  <2> QED BY <1>3, <2>2, <2>3
<1>7. /\ err' \in BOOLEAN /\ reported' \in BOOLEAN
      /\ (err' \/ abandoned => reported') /\ (reported => reported')
      /\ status' \in Statuses
      /\ UNCHANGED <<program, abandoned, loading, pkgs, owned, exported>>
  BY <1>1 DEF PkgFileDone, PkgFileEnds, FileEnds, Parsing, TypeOK, ErrReported, Statuses
<1> QED BY <1>5, <1>6, <1>7, StackMoves

LEMMA MisnamedKeeps ==
  ASSUME IInv, NEW failed \in BOOLEAN, Misnamed(failed)
  PROVE  IInv'
<1>1. /\ TypeOK /\ KnownProgram /\ frames # <<>> /\ frames' = Front(frames)
      /\ err' /\ reported' /\ abandoned' /\ status' \in Statuses
      /\ UNCHANGED <<program, loading, pkgs, owned, exported>>
  BY DEF IInv, Misnamed, PkgFileEnds, FileEnds, Parsing, die_at, Statuses
<1>2. /\ frames' \in Seq(Frame) /\ Len(frames') = Len(frames) - 1 /\ Len(frames) \in Nat
      /\ \A i \in 1 .. Len(frames) - 1 : frames'[i] = frames[i]
      /\ DOMAIN frames = 1 .. Len(frames) /\ DOMAIN frames' = 1 .. Len(frames) - 1
  <2>1. frames \in Seq(Frame)
    BY <1>1 DEF TypeOK
  <2> QED BY <1>1, <2>1, FrontFacts
<1>3. \A i \in DOMAIN frames' : i \in DOMAIN frames /\ frames'[i] = frames[i]
  BY <1>2
<1>4. InputsLowest'
  BY <1>3 DEF IInv, InputsLowest
<1>5. /\ loading' \in Seq(Packages) /\ pkgs' \in Seq(Packages) /\ exported' \in Seq(Packages)
      /\ owned' \in SUBSET Packages /\ err' \in BOOLEAN /\ reported' \in BOOLEAN
      /\ abandoned' \in BOOLEAN
  <2>1. err' \in BOOLEAN /\ reported' \in BOOLEAN /\ abandoned' \in BOOLEAN
    BY DEF Misnamed, die_at
  <2> QED BY <1>1, <2>1 DEF TypeOK
<1>6. \A i \in DOMAIN frames' : frames'[i].file <= Len(Files(frames'[i].pkg))
  BY <1>3 DEF IInv, TypeOK
<1>7. TypeOK'
  BY <1>1, <1>2, <1>5, <1>6 DEF TypeOK, Files, Statuses
<1>8. KnownProgram' /\ ErrReported' /\ CacheHolds'
  BY <1>1, <1>3 DEF IInv, KnownProgram, ErrReported, CacheHolds, Statuses
<1>9. LoadingIsFrames' /\ CachedIsComplete' /\ DependenciesFirst' /\ ImportsHandled'
  BY <1>1 DEF LoadingIsFrames, CachedIsComplete, DependenciesFirst, ImportsHandled
<1> QED BY <1>4, <1>7, <1>8, <1>9 DEF IInv

LEMMA PkgDoneKeeps ==
  ASSUME IInv, NEW failed \in BOOLEAN, PkgDone(failed)
  PROVE  IInv'
<1>1. /\ TypeOK /\ KnownProgram /\ ErrReported /\ InputsLowest /\ LoadingIsFrames
      /\ CacheHolds /\ CachedIsComplete /\ DependenciesFirst /\ ImportsHandled
      /\ FileEnds(failed) /\ frames # <<>> /\ Top.pkg # Inputs
      /\ Top.file = Len(Files(Top.pkg))
      /\ err' = failed /\ reported' = (reported \/ failed)
      /\ frames' = Front(frames) /\ loading' = Front(loading)
      /\ exported' = Append(exported, Top.pkg)
      /\ status' = status /\ status \in Statuses
      /\ UNCHANGED <<program, abandoned, pkgs, owned>>
  BY DEF IInv, PkgDone, LastFileEnds, PkgFileEnds, FileEnds, Parsing, Statuses
<1>2. /\ Top = frames[Len(frames)] /\ Top.pkg \in Packages
      /\ Top.file \in 1 .. Len(Files(Top.pkg))
  BY <1>1, TopTyped
<1>3. /\ frames' \in Seq(Frame) /\ Len(frames') = Len(frames) - 1 /\ Len(frames) \in Nat \ {0}
      /\ \A i \in 1 .. Len(frames) - 1 : frames'[i] = frames[i]
      /\ DOMAIN frames = 1 .. Len(frames) /\ DOMAIN frames' = 1 .. Len(frames) - 1
  <2>1. frames \in Seq(Frame)
    BY <1>1 DEF TypeOK
  <2> QED BY SMTT(20), <1>1, <2>1, FrontFacts
<1>4. \A i \in DOMAIN frames' : i \in DOMAIN frames /\ frames'[i] = frames[i]
  BY <1>3
<1>5. /\ InputsLowest' /\ LoadingIsFrames'
      /\ ~abandoned => loading # <<>> /\ Last(loading) = Top.pkg
  BY <1>1, PopLoading
<1>6. /\ exported' \in Seq(Packages) /\ ToSet(exported') = ToSet(exported) \union {Top.pkg}
      /\ Len(exported') = Len(exported) + 1 /\ Len(exported) \in Nat
      /\ \A i \in 1 .. Len(exported) : exported'[i] = exported[i]
      /\ exported'[Len(exported) + 1] = Top.pkg
      /\ DOMAIN exported' = 1 .. Len(exported) + 1 /\ DOMAIN exported = 1 .. Len(exported)
  <2>1. exported \in Seq(Packages)
    BY <1>1 DEF TypeOK
  <2> QED BY <1>1, <1>2, <2>1, AppendFacts
<1>7. TypeOK'
  <2>1. loading' \in Seq(Packages)
    BY <1>1 DEF TypeOK, Front
  <2>2. \A i \in DOMAIN frames' : frames'[i].file <= Len(Files(frames'[i].pkg))
    BY <1>1, <1>4 DEF TypeOK
  <2>3. err' \in BOOLEAN /\ reported' \in BOOLEAN
    BY <1>1 DEF TypeOK
  <2> QED BY <1>1, <1>3, <1>6, <2>1, <2>2, <2>3 DEF TypeOK, Files
<1>8. KnownProgram' /\ ErrReported' /\ CacheHolds'
  <2>1. Top.pkg \in ToSet(pkgs)
    BY <1>1, <1>2, <1>3 DEF CacheHolds
  <2> QED BY <1>1, <1>4, <1>6, <2>1 DEF KnownProgram, ErrReported, CacheHolds, Statuses
<1>9. CachedIsComplete'
  <2> SUFFICES ASSUME ~abandoned, NEW p \in ToSet(pkgs), p \notin ToSet(exported), p # Top.pkg
               PROVE  p \in ToSet(loading')
    BY <1>1, <1>6 DEF CachedIsComplete, Incomplete
  <2>1. p \in ToSet(loading)
    BY <1>1 DEF CachedIsComplete, Incomplete
  <2>2. PICK i \in DOMAIN loading : loading[i] = p
    BY <2>1 DEF ToSet
  <2>3. /\ loading \in Seq(Packages) /\ loading # <<>> /\ Last(loading) = Top.pkg
    BY <1>1, <1>5 DEF TypeOK
  <2>4. /\ loading' \in Seq(Packages) /\ Len(loading') = Len(loading) - 1
        /\ \A k \in 1 .. Len(loading) - 1 : loading'[k] = loading[k]
        /\ Last(loading) = loading[Len(loading)] /\ Len(loading) \in Nat \ {0}
    BY <1>1, <2>3, FrontFacts
  <2>5. i \in 1 .. Len(loading) - 1
    BY <2>2, <2>3, <2>4
  <2>6. loading'[i] = p /\ i \in DOMAIN loading'
    BY <2>2, <2>4, <2>5
  <2> QED BY <2>6 DEF ToSet
<1>10. ASSUME ~reported' PROVE ImportsOf(Top.pkg) \subseteq ToSet(exported)
  <2>1. FileEnds(FALSE) /\ ~reported
    BY <1>1, <1>10
  <2>2. Above(Len(frames)) = {}
    BY <1>3 DEF Above
  <2>3. Handled(Top, ToSet(exported) \union Above(Len(frames)))
    <3>1. Len(frames) \in DOMAIN frames
      BY <1>3
    <3>2. \A i \in DOMAIN frames : Handled(frames[i], ToSet(exported) \union Above(i))
      BY <1>1, <2>1 DEF ImportsHandled
    <3>3. Handled(frames[Len(frames)], ToSet(exported) \union Above(Len(frames)))
      BY ONLY <3>1, <3>2
    <3> QED BY <1>2, <3>3
  <2>4. Handled(Top, ToSet(exported))
    BY <2>2, <2>3
  <2>5. \A f \in 1 .. Top.file : ToSet(Files(Top.pkg)[f].imports) \subseteq ToSet(exported)
    BY <1>1, <2>1, <2>4, FileHandled
  <2>6. Files(Top.pkg) \in Seq(SourceFile)
    BY <1>1, <1>2, FilesTyped
  <2>7. \A f \in ToSet(Files(Top.pkg)) : ToSet(f.imports) \subseteq ToSet(exported)
    <3> TAKE f \in ToSet(Files(Top.pkg))
    <3>1. PICK k \in DOMAIN Files(Top.pkg) : f = Files(Top.pkg)[k]
      BY DEF ToSet
    <3>2. k \in 1 .. Top.file
      BY <1>1, <2>6
    <3> QED BY <2>5, <3>1, <3>2
  <2> QED BY <2>7 DEF ImportsOf
<1>11. DependenciesFirst'
  <2>0. \A q : ImportsOf(q)' = ImportsOf(q)
    BY <1>1 DEF ImportsOf, Files
  <2> SUFFICES ASSUME ~reported', NEW i \in DOMAIN exported', exported'[i] \in owned
               PROVE  ImportsOf(exported'[i]) \subseteq {exported'[j] : j \in 1 .. i - 1}
    BY <1>1, <2>0 DEF DependenciesFirst, ImportsOf, Files
  <2>1. CASE i = Len(exported) + 1
    <3>1. ToSet(exported) \subseteq {exported'[j] : j \in 1 .. i - 1}
      BY <1>6, <2>1 DEF ToSet
    <3> QED BY <1>6, <1>10, <2>1, <3>1
  <2>2. CASE i \in 1 .. Len(exported)
    <3>1. exported'[i] = exported[i] /\ i \in DOMAIN exported /\ ~reported
      BY <1>1, <1>6, <2>2
    <3>2. ImportsOf(exported[i]) \subseteq {exported[j] : j \in 1 .. i - 1}
      BY <1>1, <3>1 DEF DependenciesFirst
    <3>3. {exported[j] : j \in 1 .. i - 1} \subseteq {exported'[j] : j \in 1 .. i - 1}
      BY <1>6, <2>2
    <3> QED BY <3>1, <3>2, <3>3
  <2> QED BY <1>6, <2>1, <2>2
<1>12. ImportsHandled'
  <2> SUFFICES ASSUME ~reported', NEW i \in DOMAIN frames'
               PROVE  Handled(frames[i], ToSet(exported') \union Above(i)')
    BY <1>1, <1>4 DEF ImportsHandled, Handled, Files
  <2>1. Handled(frames[i], ToSet(exported) \union Above(i))
    BY <1>1, <1>4 DEF ImportsHandled
  <2>2. ASSUME NEW q \in Above(i) PROVE q \in ToSet(exported') \union Above(i)'
    <3>1. PICK j \in i + 1 .. Len(frames) : q = frames[j].pkg
      BY DEF Above
    <3>2. CASE j = Len(frames)
      BY <1>2, <1>6, <3>1, <3>2
    <3>3. CASE j # Len(frames)
      <4>1. j \in i + 1 .. Len(frames') /\ frames'[j] = frames[j]
        BY <1>3, <3>1, <3>3
      <4> QED BY <3>1, <4>1 DEF Above
    <3> QED BY <3>2, <3>3
  <2>3. ToSet(exported) \union Above(i) \subseteq ToSet(exported') \union Above(i)'
    BY <1>6, <2>2
  <2> QED BY <2>1, <2>3, HandledMonotone
<1> QED BY <1>5, <1>7, <1>8, <1>9, <1>11, <1>12 DEF IInv

-----------------------------------------------------------------------------
(* The driver.                                                             *)

LEMMA PreloadKeeps ==
  ASSUME IInv, Preload
  PROVE  IInv'
<1>1. frames = <<>> /\ program' = program /\ status' = "runtime" /\ KnownProgram
  BY DEF IInv, ErrReported, Preload
<1>2. Stays(frames)
  BY <1>1 DEF Stays
<1>3. CASE program.std
  <2>1. Calls(Runtime, frames)
    BY <1>1, <1>2, PackagesAssumption DEF Calls
  <2>2. pkg_load(Runtime, frames)
    BY <1>3 DEF Preload
  <2> QED BY <1>1, <2>1, <2>2, PkgLoadKeeps
<1>4. CASE ~program.std
  <2>1. UNCHANGED <<err, reported, abandoned, loading, pkgs, owned, exported, frames>>
    BY <1>4 DEF Preload
  <2>2. /\ err' \in BOOLEAN /\ reported' \in BOOLEAN /\ (err' \/ abandoned => reported')
        /\ reported => reported'
    BY <2>1 DEF IInv, TypeOK, ErrReported
  <2>3. status' \in Statuses /\ Stays(frames')
    BY <1>1, <1>2, <2>1 DEF Statuses
  <2>4. \A i \in DOMAIN frames : Handled(frames'[i], ToSet(exported) \union Above(i))
    BY <1>1
  <2> QED BY <1>1, <2>1, <2>2, <2>3, <2>4, StackMoves
<1> QED BY <1>3, <1>4

(* With the stack of packages empty, nothing is being loaded.              *)
LEMMA NothingLoading ==
  ASSUME IInv, frames = <<>> \/ Top.pkg = Inputs
  PROVE  ~abandoned => loading = <<>>
<1> SUFFICES ASSUME ~abandoned PROVE loading = <<>>
  OBVIOUS
<1>1. loading \in Seq(Packages) /\ Len(frames) = Len(loading) + Base
  BY DEF IInv, TypeOK, LoadingIsFrames
<1>2. CASE frames = <<>>
  BY <1>1, <1>2 DEF Base
<1>3. CASE frames # <<>>
  <2>1. Top = frames[Len(frames)] /\ Len(frames) \in Nat \ {0} /\ Len(frames) \in DOMAIN frames
    BY <1>3, TopTyped DEF IInv, TypeOK
  <2>2. Len(frames) = 1 /\ Top.pkg = Inputs
    BY <1>3, <2>1 DEF IInv, InputsLowest
  <2>3. Base = 1
    BY <1>3, <2>1, <2>2 DEF Base
  <2>4. Len(loading) = 0
    <3>1. Len(loading) \in Nat
      BY <1>1
    <3>2. 1 = Len(loading) + 1
      BY <1>1, <2>2, <2>3
    <3> QED BY ONLY <3>1, <3>2
  <2> QED BY <1>1, <2>4
<1> QED BY <1>2, <1>3

(* A step of main: the stack holds at most a file of the inputs before and *)
(* after, and some of the packages become known and exported.              *)
LEMMA MainKeeps ==
  ASSUME IInv, frames = <<>> \/ Top.pkg = Inputs,
         UNCHANGED <<program, abandoned, loading, owned>>,
         err' \in BOOLEAN, reported' \in BOOLEAN, err' \/ abandoned => reported',
         reported => reported', status' \in Statuses,
         pkgs' \in Seq(Packages), exported' \in Seq(Packages),
         \/ pkgs' = pkgs /\ exported' = exported
         \/ \E name \in Packages \ ToSet(pkgs) :
              pkgs' = Append(pkgs, name) /\ exported' = Append(exported, name),
         \/ frames' = <<>>
         \/ \E n \in 1 .. Len(program.inputs) :
              /\ frames' = <<Opening(Inputs, n)>>
              /\ ~reported' => \A f \in 1 .. n - 1 :
                                 ToSet(program.inputs[f].imports) \subseteq ToSet(exported)
  PROVE  IInv'
<1> USE DEF IInv
<1>1. ~abandoned => loading = <<>>
  BY NothingLoading
<1>2. /\ ToSet(pkgs) \subseteq ToSet(pkgs') /\ ToSet(exported) \subseteq ToSet(exported')
      /\ ToSet(exported') \subseteq ToSet(pkgs')
      /\ ToSet(pkgs') \ ToSet(exported') \subseteq ToSet(pkgs) \ ToSet(exported)
  <2>1. CASE pkgs' = pkgs /\ exported' = exported
    BY <2>1 DEF CacheHolds
  <2>2. ASSUME NEW name \in Packages \ ToSet(pkgs),
               pkgs' = Append(pkgs, name), exported' = Append(exported, name)
        PROVE  <1>2
    <3>1. pkgs \in Seq(Packages) /\ exported \in Seq(Packages)
      BY DEF TypeOK
    <3>2. ToSet(pkgs') = ToSet(pkgs) \union {name} /\ ToSet(exported') = ToSet(exported) \union {name}
      BY <2>2, <3>1, AppendFacts
    <3> QED BY <3>2 DEF CacheHolds
  <2> QED BY <2>1, <2>2
<1>3. /\ frames' \in Seq(Frame)
      /\ \A i \in DOMAIN frames' :
           /\ i = 1 /\ Len(frames') = 1 /\ frames'[i].pkg = Inputs /\ frames'[i].next = 0
           /\ frames'[i].file \in 1 .. Len(program.inputs)
           /\ ~reported' => \A f \in 1 .. frames'[i].file - 1 :
                              ToSet(program.inputs[f].imports) \subseteq ToSet(exported)
      /\ frames' # <<>> => Len(frames') = 1 /\ frames'[1].pkg = Inputs
      /\ Len(frames') \in {0, 1}
  <2>1. CASE frames' = <<>>
    BY <2>1
  <2>2. ASSUME NEW n \in 1 .. Len(program.inputs), frames' = <<Opening(Inputs, n)>>,
               ~reported' => \A f \in 1 .. n - 1 :
                               ToSet(program.inputs[f].imports) \subseteq ToSet(exported)
        PROVE  <1>3
    <3> DEFINE x == Opening(Inputs, n)
    <3>1. x \in Frame /\ x.pkg = Inputs /\ x.next = 0 /\ x.file = n
      BY DEF Opening, Frame
    <3> HIDE DEF x
    <3>2. frames' = <<x>>
      BY <2>2 DEF x
    <3> QED BY <2>2, <3>1, <3>2
  <2> QED BY <2>1, <2>2
<1>4. TypeOK'
  <2>1. \A i \in DOMAIN frames' : frames'[i].file <= Len(Files(frames'[i].pkg))
    BY <1>3 DEF Files
  <2> QED BY <1>3, <2>1 DEF TypeOK, Files, Statuses
<1>5. InputsLowest' /\ KnownProgram' /\ ErrReported'
  BY <1>3 DEF InputsLowest, KnownProgram, ErrReported, Statuses
<1>6. LoadingIsFrames'
  BY <1>1, <1>3 DEF LoadingIsFrames, Base
<1>7. CacheHolds' /\ CachedIsComplete'
  BY <1>2, <1>3 DEF CacheHolds, CachedIsComplete, Incomplete
<1>8. DependenciesFirst'
  <2>0. \A q : ImportsOf(q)' = ImportsOf(q)
    BY DEF ImportsOf, Files
  <2> SUFFICES ASSUME ~reported', NEW i \in DOMAIN exported', exported'[i] \in owned
               PROVE  ImportsOf(exported'[i]) \subseteq {exported'[j] : j \in 1 .. i - 1}
    BY <2>0 DEF DependenciesFirst
  <2>1. CASE exported' = exported
    BY <2>1 DEF DependenciesFirst
  <2>2. ASSUME NEW name \in Packages \ ToSet(pkgs), exported' = Append(exported, name)
        PROVE  ImportsOf(exported'[i]) \subseteq {exported'[j] : j \in 1 .. i - 1}
    <3>1. /\ exported \in Seq(Packages) /\ Len(exported') = Len(exported) + 1
          /\ Len(exported) \in Nat /\ exported'[Len(exported) + 1] = name
          /\ \A k \in 1 .. Len(exported) : exported'[k] = exported[k]
          /\ DOMAIN exported' = 1 .. Len(exported) + 1 /\ DOMAIN exported = 1 .. Len(exported)
      BY <2>2, AppendFacts DEF TypeOK
    <3>2. name \notin owned
      BY <2>2 DEF CacheHolds
    <3>3. i \in DOMAIN exported /\ exported'[i] = exported[i]
      BY <3>1, <3>2
    <3>4. ImportsOf(exported[i]) \subseteq {exported[j] : j \in 1 .. i - 1}
      BY <3>3 DEF DependenciesFirst
    <3>5. {exported[j] : j \in 1 .. i - 1} \subseteq {exported'[j] : j \in 1 .. i - 1}
      BY <3>1, <3>3
    <3> QED BY <3>3, <3>4, <3>5
  <2> QED BY <2>1, <2>2
<1>9. ImportsHandled'
  <2> SUFFICES ASSUME ~reported', NEW i \in DOMAIN frames'
               PROVE  Handled(frames'[i], ToSet(exported') \union Above(i)')
    BY DEF ImportsHandled, Handled, Files
  <2>1. Files(frames'[i].pkg) = program.inputs
    BY <1>3 DEF Files
  <2>2. Handled(frames'[i], ToSet(exported))
    BY <1>3, <2>1 DEF Handled
  <2>3. ToSet(exported) \subseteq ToSet(exported') \union Above(i)'
    BY <1>2
  <2> QED BY <2>2, <2>3, HandledMonotone
<1> QED BY <1>4, <1>5, <1>6, <1>7, <1>8, <1>9

LEMMA LexInputsKeeps ==
  ASSUME IInv, LexInputs
  PROVE  IInv'
<1>1. /\ frames = <<>> /\ UNCHANGED <<program, abandoned, loading, pkgs, owned, exported>>
      /\ err \in BOOLEAN /\ reported \in BOOLEAN /\ (err \/ abandoned => reported)
      /\ pkgs \in Seq(Packages) /\ exported \in Seq(Packages)
  BY DEF IInv, TypeOK, ErrReported, LexInputs
<1>2. /\ err' \in BOOLEAN /\ reported' \in BOOLEAN /\ (err' \/ abandoned => reported')
      /\ (reported => reported') /\ status' \in Statuses
  BY <1>1 DEF LexInputs, die_at, Statuses
<1>3. \/ frames' = <<>>
      \/ \E n \in 1 .. Len(program.inputs) :
           /\ frames' = <<Opening(Inputs, n)>>
           /\ ~reported' => \A f \in 1 .. n - 1 :
                              ToSet(program.inputs[f].imports) \subseteq ToSet(exported)
  <2>1. Len(program.inputs) \in Nat \ {0}
    BY ProgramsAssumption DEF IInv, KnownProgram
  <2>2. CASE frames' = <<Opening(Inputs, 1)>>
    <3>1. 1 \in 1 .. Len(program.inputs) /\ 1 .. 1 - 1 = {}
      BY <2>1
    <3> QED BY <2>2, <3>1
  <2> QED BY <1>1, <2>2 DEF LexInputs
<1> QED BY <1>1, <1>2, <1>3, MainKeeps

LEMMA InputFailsKeeps ==
  ASSUME IInv, InputFails
  PROVE  IInv'
<1>1. /\ Top.pkg = Inputs /\ UNCHANGED <<program, abandoned, loading, pkgs, owned, exported>>
      /\ pkgs \in Seq(Packages) /\ exported \in Seq(Packages)
      /\ frames' = <<>> /\ err' /\ reported' /\ err' \in BOOLEAN /\ reported' \in BOOLEAN
      /\ status' \in Statuses
  BY DEF IInv, TypeOK, InputFails, die_at, Statuses
<1> QED BY <1>1, MainKeeps

LEMMA InputDoneKeeps ==
  ASSUME IInv, InputDone
  PROVE  IInv'
<1>1. /\ TypeOK /\ KnownProgram /\ InputsLowest /\ ImportsHandled /\ ErrReported
      /\ FileEnds(FALSE) /\ frames # <<>> /\ Top.pkg = Inputs /\ status \in {"runtime", "inputs"}
      /\ UNCHANGED <<program, err, reported, abandoned, loading, owned>>
      /\ Register(Source.decl) /\ AfterInput
  BY DEF IInv, InputDone, FileEnds, Parsing
<1>2. /\ Top = frames[Len(frames)] /\ Len(frames) \in Nat \ {0} /\ Top \in Frame
      /\ Top.file \in 1 .. Len(Files(Top.pkg)) /\ Source.decl \in Packages \union {NoName}
  BY <1>1, TopTyped
<1>3. frames \in Seq(Frame) /\ Len(frames) \in DOMAIN frames
  BY <1>1, <1>2 DEF TypeOK
<1>4. Len(frames) = 1 /\ DOMAIN frames = {1} /\ Files(Top.pkg) = program.inputs
  <2>1. Len(frames) = 1
    BY <1>1, <1>2, <1>3 DEF InputsLowest
  <2> QED BY <1>1, <1>3, <2>1 DEF Files
<1>5. /\ err' \in BOOLEAN /\ reported' \in BOOLEAN /\ (err' \/ abandoned => reported')
      /\ (reported => reported') /\ status' \in Statuses
  BY <1>1 DEF TypeOK, ErrReported, AfterInput, Statuses
<1>6. /\ pkgs \in Seq(Packages) /\ exported \in Seq(Packages)
      /\ \/ pkgs' = pkgs /\ exported' = exported
         \/ \E name \in Packages \ ToSet(pkgs) :
              pkgs' = Append(pkgs, name) /\ exported' = Append(exported, name)
  BY <1>1, <1>2 DEF TypeOK, Register
<1>7. pkgs' \in Seq(Packages) /\ exported' \in Seq(Packages)
  <2>1. CASE pkgs' = pkgs /\ exported' = exported
    BY <1>6, <2>1
  <2>2. ASSUME NEW name \in Packages, pkgs' = Append(pkgs, name), exported' = Append(exported, name)
        PROVE  <1>7
    BY <1>6, <2>2
  <2> QED BY <1>6, <2>1, <2>2
<1>8. ASSUME ~reported
      PROVE  \A f \in 1 .. Top.file : ToSet(program.inputs[f].imports) \subseteq ToSet(exported)
  <2>1. Handled(frames[1], ToSet(exported) \union Above(1))
    BY <1>1, <1>4, <1>8 DEF ImportsHandled
  <2>2. Above(1) = {}
    BY <1>4 DEF Above
  <2>3. Handled(Top, ToSet(exported))
    BY <1>2, <1>4, <2>1, <2>2
  <2> QED BY <1>1, <1>4, <2>3, FileHandled
<1>9. CASE frames' = <<>>
  BY <1>1, <1>5, <1>6, <1>7, <1>9, MainKeeps
<1>10. CASE Top.file < Len(program.inputs) /\ frames' = NextFile
  <2>1. Front(frames) = <<>>
    BY <1>3, <1>4 DEF Front
  <2>2. frames' = <<Opening(Inputs, Top.file + 1)>>
    BY <1>1, <1>10, <2>1 DEF NextFile, WithTop
  <2>3. Top.file + 1 \in 1 .. Len(program.inputs) /\ 1 .. (Top.file + 1) - 1 = 1 .. Top.file
    <3>1. Len(program.inputs) \in Nat
      BY <1>1, ProgramsAssumption DEF KnownProgram
    <3> QED BY <1>2, <1>4, <1>10, <3>1
  <2> QED BY <1>1, <1>5, <1>6, <1>7, <1>8, <2>2, <2>3, MainKeeps
<1> QED BY <1>1, <1>9, <1>10 DEF AfterInput

-----------------------------------------------------------------------------
LEMMA Initially == ASSUME Init PROVE IInv
<1>1. TypeOK /\ KnownProgram
  <2>1. \A S : <<>> \in Seq(S) /\ DOMAIN <<>> = {}
    OBVIOUS
  <2> QED BY <2>1 DEF Init, TypeOK, KnownProgram
<1>2. ErrReported /\ InputsLowest /\ CacheHolds
  BY DEF Init, ErrReported, InputsLowest, CacheHolds, ToSet
<1>3. LoadingIsFrames
  BY DEF Init, LoadingIsFrames, Base
<1>4. CachedIsComplete /\ DependenciesFirst /\ ImportsHandled
  BY DEF Init, CachedIsComplete, Incomplete, DependenciesFirst, ImportsHandled, ToSet
<1> QED BY <1>1, <1>2, <1>3, <1>4 DEF IInv

LEMMA NextKeeps == ASSUME IInv, Next PROVE IInv'
<1>1. ASSUME NEW failed \in BOOLEAN, Misnamed(failed) \/ PkgFileDone(failed) \/ PkgDone(failed)
      PROVE  IInv'
  BY <1>1, MisnamedKeeps, PkgFileDoneKeeps, PkgDoneKeeps
<1> QED BY <1>1, PreloadKeeps, LexInputsKeeps, InputFailsKeeps, InputDoneKeeps, OpenFileKeeps,
           ImportTwiceKeeps, ImportKeeps, SpinKeeps DEF Next

LEMMA StutterKeeps == ASSUME IInv, UNCHANGED vars PROVE IInv'
<1>1. TypeOK' /\ KnownProgram' /\ ErrReported' /\ InputsLowest' /\ LoadingIsFrames'
  BY DEF IInv, vars, TypeOK, KnownProgram, ErrReported, InputsLowest, LoadingIsFrames, Base, Files
<1>2. CacheHolds' /\ CachedIsComplete' /\ DependenciesFirst'
  BY DEF IInv, vars, CacheHolds, CachedIsComplete, Incomplete, DependenciesFirst, ImportsOf, Files
<1>3. ImportsHandled'
  <2>1. UNCHANGED <<program, reported, exported, frames>> /\ ImportsHandled
    BY DEF vars, IInv
  <2>2. \A i : Above(i)' = Above(i)
    BY <2>1 DEF Above
  <2>3. \A fr, X : Handled(fr, X) => Handled(fr, X)'
    BY <2>1 DEF Handled, Files
  <2> QED BY <2>1, <2>2, <2>3 DEF ImportsHandled
<1> QED BY <1>1, <1>2, <1>3 DEF IInv

(* Whatever the import graph and whatever is wrong with the files, the     *)
(* state of the loader is well formed and its three records agree.         *)
THEOREM Invariance == Spec => []IInv
<1>1. IInv /\ [Next]_vars => IInv'
  BY NextKeeps, StutterKeeps
<1> QED BY <1>1, Initially, PTL DEF Spec

(* The stacks and lists of the loader are well typed, and no file is read  *)
(* past the last of its directory.                                         *)
THEOREM TypeCorrect == Spec => []TypeOK
<1>1. IInv => TypeOK
  BY DEF IInv
<1> QED BY <1>1, Invariance, PTL

(* The check for an import cycle at pkg.c:621 sees exactly the packages    *)
(* whose pkg_load has been entered and not left, until a misnamed package  *)
(* leaves by the early return.                                             *)
THEOREM CycleCheckSound == Spec => []LoadingIsFrames
<1>1. IInv => LoadingIsFrames
  BY DEF IInv
<1> QED BY <1>1, Invariance, PTL

(* A package that pkg_load finds in the cache, past the check for a cycle, *)
(* has its exports built, under the same condition.                        *)
THEOREM CacheSound == Spec => []CachedIsComplete
<1>1. IInv => CachedIsComplete
  BY DEF IInv
<1> QED BY <1>1, Invariance, PTL

(* Until an error is reported, exports are built after those of the        *)
(* imported packages: an import cycle is never loaded in silence.          *)
THEOREM DependencyOrder == Spec => []DependenciesFirst
<1>1. IInv => DependenciesFirst
  BY DEF IInv
<1> QED BY <1>1, Invariance, PTL

(* The three lists of the loader tell the recursion all it needs to know   *)
(* of a package: under way, complete, or new.                              *)
THEOREM LoaderKnows == Spec => []LoadingSound
BY CycleCheckSound, CacheSound, PTL DEF LoadingSound

-----------------------------------------------------------------------------
(* The end of a compile.                                                   *)

(* Only importers are on the stack, and what they load is imported.        *)
FramesImport == \A i \in DOMAIN frames : frames[i].pkg \in Importers

Wanted(p) ==
  \/ p = Runtime /\ program.std
  \/ \E q \in Importers \ {p} : p \in ImportsOf(q)

EachWanted == \A p \in owned : Wanted(p)

RuntimeFirst ==
  status \in {"start", "runtime"} => \A i \in DOMAIN frames : frames[i].pkg # Inputs

(* An input without a name stops at its first error: no import of it can   *)
(* clear the flag.                                                         *)
Right(f)     == f.parses /\ f.decl # NoName
Stopped(i)   ==
  frames[i].next > 0 /\ program.inputs[frames[i].file].decl = NoName
    => err /\ i = Len(frames)

InputsChecked ==
  status = "inputs" =>
    /\ \A f \in ToSet(program.inputs) : f.lexes
    /\ \A i \in DOMAIN frames :
         frames[i].pkg = Inputs =>
           /\ \A f \in 1 .. frames[i].file - 1 : Right(program.inputs[f])
           /\ Stopped(i)

EndsRight ==
  status = "ok" =>
    /\ frames = <<>>
    /\ \A f \in ToSet(program.inputs) : f.lexes /\ Right(f)
    /\ ~reported => ImportsOf(Inputs) \subseteq ToSet(exported)

OInv == FramesImport /\ EachWanted /\ RuntimeFirst /\ InputsChecked /\ EndsRight

LEMMA ElementOf ==
  ASSUME NEW S, NEW s \in Seq(S), NEW i \in 1 .. Len(s)
  PROVE  s[i] \in ToSet(s)
BY DEF ToSet

LEMMA PlaceOf ==
  ASSUME NEW S, NEW s \in Seq(S), NEW x \in ToSet(s)
  PROVE  \E i \in 1 .. Len(s) : s[i] = x
BY DEF ToSet

LEMMA ImportsKept ==
  ASSUME program' = program
  PROVE  \A p : ImportsOf(p)' = ImportsOf(p) /\ Files(p)' = Files(p)
BY DEF ImportsOf, Files

(* A step at the top of the stack: the files below stay, and a package     *)
(* that gets on top of an importer is one that it imports.                 *)
LEMMA StackOutcome ==
  ASSUME IInv, OInv, frames # <<>>, status \in {"runtime", "inputs"},
         status' = status, program' = program,
         owned \subseteq owned', owned' \subseteq Packages,
         \A p \in owned' \ owned : \E q \in Importers \ {p} : p \in ImportsOf(q),
         frames' \in Seq(Frame), Len(frames') >= Len(frames) - 1,
         \A i \in 1 .. Len(frames) - 1 : frames'[i] = frames[i],
         \A i \in DOMAIN frames' : i >= Len(frames) =>
           \/ frames'[i].pkg \in owned'
           \/ /\ i = Len(frames)
              /\ frames'[i].pkg = Top.pkg
              /\ Top.pkg = Inputs => /\ frames'[i].file = Top.file
                                     /\ Stopped(i)'
  PROVE  OInv'
<1>1. /\ Len(frames) \in Nat \ {0} /\ DOMAIN frames = 1 .. Len(frames)
      /\ Top = frames[Len(frames)] /\ Len(frames) \in DOMAIN frames
      /\ frames \in Seq(Frame)
  BY TopTyped DEF IInv, TypeOK
<1>2. DOMAIN frames' = 1 .. Len(frames') /\ Len(frames') \in Nat
  OBVIOUS
<1>3. Inputs \notin owned'
  BY PackagesAssumption
<1>4. FramesImport'
  <2> SUFFICES ASSUME NEW i \in DOMAIN frames' PROVE frames'[i].pkg \in Importers'
    BY DEF FramesImport
  <2>1. CASE i >= Len(frames)
    BY <1>1, <2>1 DEF FramesImport, OInv, Importers
  <2>2. CASE i < Len(frames)
    BY <1>1, <1>2, <2>2 DEF FramesImport, OInv, Importers
  <2> QED
    BY <1>1, <1>2, <2>1, <2>2
<1>5. EachWanted'
  <2> SUFFICES ASSUME NEW p \in owned' PROVE Wanted(p)'
    BY DEF EachWanted
  <2>1. CASE p \in owned
    BY <2>1, ImportsKept DEF OInv, EachWanted, Wanted, Importers
  <2>2. CASE p \notin owned
    BY <2>2, ImportsKept DEF Wanted, Importers
  <2> QED
    BY <2>1, <2>2
<1>6. RuntimeFirst'
  <2> SUFFICES ASSUME status = "runtime", NEW i \in DOMAIN frames'
               PROVE  frames'[i].pkg # Inputs
    BY DEF RuntimeFirst
  <2>1. CASE i >= Len(frames)
    BY <1>1, <1>3, <2>1 DEF OInv, RuntimeFirst
  <2>2. CASE i < Len(frames)
    BY <1>1, <1>2, <2>2 DEF OInv, RuntimeFirst
  <2> QED
    BY <1>1, <1>2, <2>1, <2>2
<1>7. InputsChecked'
  <2> SUFFICES ASSUME status = "inputs", NEW i \in DOMAIN frames', frames'[i].pkg = Inputs
               PROVE  /\ \A f \in 1 .. frames'[i].file - 1 : Right(program.inputs[f])
                      /\ Stopped(i)'
    BY DEF InputsChecked, OInv, Right
  <2>1. CASE i >= Len(frames)
    BY <1>1, <1>3, <2>1 DEF OInv, InputsChecked
  <2>2. CASE i < Len(frames)
    <3>1. i \in DOMAIN frames /\ frames'[i] = frames[i] /\ i # Len(frames)
      BY <1>1, <1>2, <2>2
    <3> QED
      BY <3>1 DEF OInv, InputsChecked, Stopped
  <2> QED
    BY <1>1, <1>2, <2>1, <2>2
<1>8. EndsRight'
  BY DEF EndsRight
<1> QED
  BY <1>4, <1>5, <1>6, <1>7, <1>8 DEF OInv

(* Steps of the top file that leave the packages as they are.              *)
LEMMA SameDepthOutcome ==
  ASSUME IInv, OInv, frames # <<>>, status \in {"runtime", "inputs"},
         status' = status, program' = program, owned' = owned,
         \/ frames' = PastImport /\ (Top.next = 0 => err' = (Source.decl = NoName))
                                /\ (Top.next > 0 => ~err)
         \/ Top.pkg # Inputs /\ Top.file < Len(Files(Top.pkg)) /\ frames' = NextFile
         \/ Top.pkg # Inputs /\ frames' = Front(frames)
  PROVE  OInv'
<1>1. /\ Len(frames) \in Nat \ {0} /\ DOMAIN frames = 1 .. Len(frames)
      /\ Top = frames[Len(frames)] /\ Len(frames) \in DOMAIN frames
      /\ frames \in Seq(Frame) /\ Top.next \in Nat
      /\ TypeOK /\ KnownProgram /\ owned \subseteq Packages
  BY TopTyped DEF IInv, TypeOK
<1>2. ASSUME frames' = PastImport, Top.next = 0 => err' = (Source.decl = NoName),
             Top.next > 0 => ~err
      PROVE  OInv'
  <2>1. /\ Moved(frames')
        /\ frames'[Len(frames)] = [pkg |-> Top.pkg, file |-> Top.file, next |-> Top.next + 1]
    BY <1>1, <1>2, PastImportMoves
  <2>2. ASSUME Top.pkg = Inputs, status = "inputs", NEW i, i = Len(frames)
        PROVE  Stopped(i)'
    <3>1. /\ Stopped(i) /\ Source = program.inputs[Top.file]
          /\ Len(frames') = i /\ frames[i] = Top
          /\ frames'[i].file = Top.file /\ frames'[i].next = Top.next + 1
      BY <1>1, <2>1, <2>2 DEF OInv, InputsChecked, Source, Files, Moved
    <3>2. CASE Top.next = 0
      BY <1>2, <3>1, <3>2 DEF Stopped
    <3>3. CASE Top.next > 0
      BY <1>2, <3>1, <3>3 DEF Stopped
    <3> QED
      BY <1>1, <3>2, <3>3
  <2>3. Top.pkg = Inputs => status = "inputs"
    BY <1>1 DEF OInv, RuntimeFirst
  <2>4. /\ frames' \in Seq(Frame) /\ Len(frames') = Len(frames)
        /\ \A i \in 1 .. Len(frames) - 1 : frames'[i] = frames[i]
        /\ DOMAIN frames' = 1 .. Len(frames)
    BY <2>1 DEF Moved
  <2>5. ASSUME NEW i \in DOMAIN frames', i >= Len(frames)
        PROVE  i = Len(frames)
    BY <1>1, <2>4, <2>5
  <2>6. frames'[Len(frames)].pkg = Top.pkg /\ frames'[Len(frames)].file = Top.file
    BY <2>1
  <2> QED
    BY <1>1, <2>2, <2>3, <2>4, <2>5, <2>6, StackOutcome
<1>3. CASE Top.pkg # Inputs /\ frames' = NextFile
  <2>1. /\ Moved(frames')
        /\ frames'[Len(frames)] = [pkg |-> Top.pkg, file |-> Top.file + 1, next |-> 0]
    BY <1>1, <1>3, NextFileMoves
  <2>2. /\ frames' \in Seq(Frame) /\ Len(frames') = Len(frames)
        /\ \A i \in 1 .. Len(frames) - 1 : frames'[i] = frames[i]
        /\ DOMAIN frames' = 1 .. Len(frames)
    BY <2>1 DEF Moved
  <2>3. ASSUME NEW i \in DOMAIN frames', i >= Len(frames)
        PROVE  i = Len(frames) /\ frames'[i].pkg = Top.pkg
    BY <1>1, <2>1, <2>2, <2>3
  <2> QED
    BY <1>1, <1>3, <2>2, <2>3, StackOutcome
<1>4. CASE Top.pkg # Inputs /\ frames' = Front(frames)
  <2>1. /\ frames' \in Seq(Frame) /\ Len(frames') = Len(frames) - 1
        /\ \A i \in 1 .. Len(frames) - 1 : frames'[i] = frames[i]
    BY <1>1, <1>4, FrontFacts
  <2>2. \A i \in DOMAIN frames' : ~ (i >= Len(frames))
    BY <1>1, <2>1
  <2> QED
    BY <1>1, <1>4, <2>1, <2>2, StackOutcome
<1> QED
  BY <1>2, <1>3, <1>4

LEMMA OpenFileOutcome == ASSUME IInv, OInv, OpenFile PROVE OInv'
BY SameDepthOutcome DEF OpenFile, Parsing

LEMMA ImportTwiceOutcome == ASSUME IInv, OInv, ImportTwice PROVE OInv'
<1>1. Top.next > 0 /\ ~err /\ frames # <<>> /\ status \in {"runtime", "inputs"}
  BY TopTyped DEF ImportTwice, ImportDue, Parsing, IInv
<1>2. frames' = PastImport /\ UNCHANGED <<program, status, owned>>
  BY DEF ImportTwice
<1> QED
  BY <1>1, <1>2, SameDepthOutcome

LEMMA ImportOutcome == ASSUME IInv, OInv, Import PROVE OInv'
<1>1. /\ frames # <<>> /\ status \in {"runtime", "inputs"} /\ ~err
      /\ Top.next \in 1 .. Len(Source.imports)
      /\ pkg_load(Imported, PastImport)
      /\ program' = program /\ status' = status
      /\ TypeOK /\ KnownProgram
  BY DEF Import, ImportDue, Parsing, IInv
<1>2. /\ Len(frames) \in Nat \ {0} /\ Top = frames[Len(frames)]
      /\ DOMAIN frames = 1 .. Len(frames) /\ Len(frames) \in DOMAIN frames
      /\ Top.file \in 1 .. Len(Files(Top.pkg))
      /\ Source.imports \in Seq(Packages) /\ Top.next \in Nat /\ Top.next > 0
      /\ Top.pkg \in Packages \union {Inputs} /\ owned \subseteq Packages
  BY <1>1, TopTyped DEF TypeOK
<1>3. CASE frames' = PastImport /\ owned' = owned
  BY <1>1, <1>2, <1>3, SameDepthOutcome
<1>4. CASE LoadStarts(Imported, PastImport)
  <2> DEFINE name == Imported
             x    == Opening(name, 1)
  <2>1. /\ name \in Packages /\ name \notin ToSet(pkgs)
        /\ owned' = owned \union {name} /\ frames' = Append(PastImport, x)
    <3>1. name \in Packages
      BY <1>1, <1>2 DEF Imported
    <3>2. name \notin ToSet(loading) \union ToSet(pkgs)
      BY <1>4 DEF LoadStarts
    <3>3. owned' = owned \union {name} /\ frames' = Append(PastImport, x)
      BY <1>4 DEF LoadStarts
    <3> QED
      BY <3>1, <3>2, <3>3
  <2>2. Moved(PastImport)
        /\ PastImport[Len(frames)] = [pkg |-> Top.pkg, file |-> Top.file, next |-> Top.next + 1]
    BY <1>1, PastImportMoves
  <2>3. x \in Frame /\ x.pkg = name
    BY <2>1 DEF Opening, Frame
  <2>4. name \in ImportsOf(Top.pkg)
    <3>1. Source \in ToSet(Files(Top.pkg))
      <4>1. Files(Top.pkg) \in Seq(SourceFile)
        BY <1>1, <1>2, FilesTyped
      <4> QED
        BY <1>2, <4>1, ElementOf DEF Source
    <3>2. name \in ToSet(Source.imports)
      BY <1>1, <1>2 DEF Imported, ToSet
    <3> QED
      BY <3>1, <3>2 DEF ImportsOf
  <2>5. Top.pkg \in Importers /\ Top.pkg # name
    BY <1>2, <2>1, PackagesAssumption DEF OInv, FramesImport, IInv, CacheHolds
  <2> HIDE DEF name, x
  <2>6. /\ frames' \in Seq(Frame) /\ Len(frames') = Len(frames) + 1
        /\ DOMAIN frames' = 1 .. Len(frames) + 1
        /\ \A i \in 1 .. Len(frames) : frames'[i] = PastImport[i]
        /\ frames'[Len(frames) + 1] = x
    BY <1>2, <2>1, <2>2, <2>3, AppendFacts DEF Moved
  <2>7. \A i \in 1 .. Len(frames) - 1 : frames'[i] = frames[i]
    BY SMTT(30), <1>2, <2>2, <2>6 DEF Moved
  <2>8. ASSUME NEW i \in DOMAIN frames', i >= Len(frames)
        PROVE  \/ frames'[i].pkg \in owned'
               \/ /\ i = Len(frames)
                  /\ frames'[i].pkg = Top.pkg
                  /\ Top.pkg = Inputs => /\ frames'[i].file = Top.file
                                         /\ Stopped(i)'
    <3>1. CASE i = Len(frames) + 1
      BY <2>1, <2>3, <2>6, <3>1
    <3>2. CASE i = Len(frames)
      <4>1. /\ frames'[i].pkg = Top.pkg /\ frames'[i].file = Top.file
        BY <1>2, <2>2, <2>6, <3>2
      <4>2. ASSUME Top.pkg = Inputs PROVE Source.decl # NoName /\ Source = program.inputs[Top.file]
        <5>1. status = "inputs" /\ frames[i] = Top /\ i \in DOMAIN frames
          BY <1>1, <1>2, <3>2, <4>2 DEF OInv, RuntimeFirst
        <5> QED
          BY <1>1, <1>2, <3>2, <4>2, <5>1 DEF OInv, InputsChecked, Stopped, Source, Files
      <4> QED
        BY <1>1, <3>2, <4>1, <4>2 DEF Stopped
    <3> QED
      BY <1>2, <2>6, <2>8, <3>1, <3>2
  <2> QED
    BY <1>1, <1>2, <2>1, <2>4, <2>5, <2>6, <2>7, <2>8, StackOutcome
<1> QED
  BY <1>1, <1>3, <1>4 DEF pkg_load, LoadCycle, LoadCached, LoadMissing

LEMMA SpinOutcome == ASSUME IInv, OInv, Spin PROVE OInv'
<1>1. status' = "spinning" /\ UNCHANGED <<program, owned, frames>>
  BY DEF Spin
<1> QED
  BY <1>1, ImportsKept DEF OInv, FramesImport, EachWanted, Wanted, Importers,
     RuntimeFirst, InputsChecked, EndsRight

LEMMA PkgFileOutcome ==
  ASSUME IInv, OInv, NEW failed, Misnamed(failed) \/ PkgFileDone(failed) \/ PkgDone(failed)
  PROVE  OInv'
BY SameDepthOutcome DEF Misnamed, PkgFileDone, PkgDone, LastFileEnds, PkgFileEnds, FileEnds,
   Parsing

LEMMA PreloadOutcome == ASSUME IInv, OInv, Preload PROVE OInv'
<1>1. /\ frames = <<>> /\ status = "start" /\ status' = "runtime" /\ program' = program
      /\ Runtime \in Packages /\ Runtime # Inputs /\ frames \in Seq(Frame)
  BY PackagesAssumption DEF Preload, IInv, ErrReported, TypeOK
<1>2. CASE frames' = frames /\ owned' = owned
  BY <1>1, <1>2, ImportsKept DEF OInv, FramesImport, EachWanted, Wanted, Importers,
     RuntimeFirst, InputsChecked, EndsRight
<1>3. CASE program.std /\ LoadStarts(Runtime, frames)
  <2>1. owned' = owned \union {Runtime} /\ frames' = Append(frames, Opening(Runtime, 1))
    BY <1>3 DEF LoadStarts
  <2>2. frames' = <<Opening(Runtime, 1)>> /\ Opening(Runtime, 1).pkg = Runtime
    BY <1>1, <2>1 DEF Opening
  <2>3. \A i \in DOMAIN frames' : frames'[i].pkg = Runtime
    BY <2>2
  <2>4. FramesImport' /\ RuntimeFirst'
    BY <1>1, <2>1, <2>3 DEF FramesImport, RuntimeFirst, Importers
  <2>5. EachWanted'
    BY <1>1, <1>3, <2>1, ImportsKept DEF OInv, EachWanted, Wanted, Importers
  <2>6. InputsChecked' /\ EndsRight'
    BY <1>1 DEF InputsChecked, EndsRight
  <2> QED
    BY <2>4, <2>5, <2>6 DEF OInv
<1> QED
  BY <1>1, <1>2, <1>3 DEF Preload, pkg_load, LoadCycle, LoadCached, LoadMissing

(* A step of main after which no package is on the stack.                  *)
LEMMA MainOutcome ==
  ASSUME IInv, OInv, program' = program, owned' = owned,
         \A i \in DOMAIN frames' : frames'[i].pkg = Inputs,
         status' \in {"inputs", "failed", "ok"},
         InputsChecked', EndsRight'
  PROVE  OInv'
<1>1. FramesImport' /\ RuntimeFirst'
  BY DEF FramesImport, RuntimeFirst, Importers
<1>2. EachWanted'
  BY ImportsKept DEF OInv, EachWanted, Wanted, Importers
<1> QED
  BY <1>1, <1>2 DEF OInv

LEMMA LexInputsOutcome == ASSUME IInv, OInv, LexInputs PROVE OInv'
<1>1. frames = <<>> /\ UNCHANGED <<program, owned>>
  BY DEF LexInputs
<1>2. CASE \E f \in ToSet(program.inputs) : ~ f.lexes
  BY <1>1, <1>2, MainOutcome DEF LexInputs, InputsChecked, EndsRight
<1>3. CASE \A f \in ToSet(program.inputs) : f.lexes
  <2>1. status' = "inputs" /\ frames' = <<Opening(Inputs, 1)>>
    BY <1>3 DEF LexInputs
  <2>2. \A i \in DOMAIN frames' :
          frames'[i].pkg = Inputs /\ frames'[i].file = 1 /\ frames'[i].next = 0
    BY <2>1 DEF Opening
  <2>3. InputsChecked' /\ EndsRight'
    BY <1>1, <1>3, <2>1, <2>2 DEF InputsChecked, EndsRight, Stopped
  <2> QED
    BY <1>1, <2>1, <2>2, <2>3, MainOutcome
<1> QED
  BY <1>2, <1>3

LEMMA InputFailsOutcome == ASSUME IInv, OInv, InputFails PROVE OInv'
BY MainOutcome DEF InputFails, InputsChecked, EndsRight

LEMMA InputDoneOutcome == ASSUME IInv, OInv, InputDone PROVE OInv'
<1>1. /\ TypeOK /\ KnownProgram /\ InputsLowest /\ ImportsHandled
      /\ FileEnds(FALSE) /\ frames # <<>> /\ Top.pkg = Inputs
      /\ status \in {"runtime", "inputs"}
      /\ UNCHANGED <<program, err, reported, owned>>
      /\ Register(Source.decl) /\ AfterInput /\ status' \in {status, "ok"}
  BY DEF IInv, InputDone, FileEnds, Parsing, AfterInput
<1>2. /\ Top = frames[Len(frames)] /\ Len(frames) \in Nat \ {0} /\ Top \in Frame
      /\ Top.file \in 1 .. Len(Files(Top.pkg)) /\ Top.next \in Nat
      /\ Source.decl \in Packages \union {NoName}
      /\ frames \in Seq(Frame) /\ DOMAIN frames = 1 .. Len(frames)
  BY <1>1, TopTyped DEF TypeOK
<1>3. Len(frames) = 1 /\ frames[1] = Top /\ Files(Top.pkg) = program.inputs
  <2>1. Len(frames) \in DOMAIN frames
    BY <1>2
  <2>2. Len(frames) = 1
    BY <1>1, <1>2, <2>1 DEF InputsLowest
  <2> QED
    BY <1>1, <1>2, <2>2 DEF Files
<1>4. 1 \in DOMAIN frames /\ status = "inputs"
  <2>1. 1 \in DOMAIN frames
    BY <1>2, <1>3
  <2>2. frames[1].pkg = Inputs
    BY <1>1, <1>3
  <2> QED
    BY <1>1, <2>1, <2>2 DEF OInv, RuntimeFirst
<1>5. /\ \A f \in ToSet(program.inputs) : f.lexes
      /\ \A f \in 1 .. Top.file - 1 : Right(program.inputs[f])
      /\ Stopped(1)
  BY <1>1, <1>3, <1>4 DEF OInv, InputsChecked
<1>6. Right(program.inputs[Top.file])
  BY <1>1, <1>3, <1>5 DEF FileEnds, Stopped, Right, Source
<1>7. \A f \in 1 .. Top.file : Right(program.inputs[f])
  <2>1. \A f \in 1 .. Top.file : f \in 1 .. Top.file - 1 \/ f = Top.file
    BY <1>2
  <2> QED
    BY <1>5, <1>6, <2>1
<1>8. CASE Top.file < Len(program.inputs) /\ frames' = NextFile /\ status' = status
  <2>1. Front(frames) = <<>>
    BY <1>2, <1>3 DEF Front
  <2>2. frames' = <<Opening(Inputs, Top.file + 1)>>
    BY <1>1, <1>8, <2>1 DEF NextFile, WithTop
  <2>3. \A i \in DOMAIN frames' :
          frames'[i].pkg = Inputs /\ frames'[i].file = Top.file + 1 /\ frames'[i].next = 0
    BY <2>2 DEF Opening
  <2>4. (Top.file + 1) - 1 = Top.file
    BY <1>2
  <2>5. InputsChecked' /\ EndsRight'
    BY <1>1, <1>4, <1>5, <1>7, <1>8, <2>3, <2>4 DEF InputsChecked, EndsRight, Stopped, Right
  <2> QED
    BY <1>1, <1>4, <1>8, <2>3, <2>5, MainOutcome
<1>9. CASE ~ (Top.file < Len(program.inputs)) /\ frames' = <<>> /\ status' = "ok"
  <2>1. Len(program.inputs) \in Nat /\ program.inputs \in Seq(SourceFile)
    BY <1>1, ProgramsAssumption DEF KnownProgram
  <2>2. Top.file = Len(program.inputs)
    BY <1>2, <1>3, <1>9, <2>1
  <2>3. \A f \in ToSet(program.inputs) : f.lexes /\ Right(f)
    BY <1>5, <1>7, <2>1, <2>2 DEF ToSet
  <2>4. ToSet(exported) \subseteq ToSet(exported')
    <3>1. CASE exported' = exported
      BY <3>1
    <3>2. CASE exported' = Append(exported, Source.decl) /\ Source.decl \in Packages
      <4>1. exported \in Seq(Packages)
        BY <1>1 DEF TypeOK
      <4>2. ToSet(exported') = ToSet(exported) \union {Source.decl}
        BY <3>2, <4>1, AppendFacts
      <4> QED
        BY <4>2
    <3> QED
      BY <1>1, <1>2, <3>1, <3>2 DEF Register
  <2>5. ASSUME ~ reported PROVE ImportsOf(Inputs) \subseteq ToSet(exported)
    <3>1. Handled(frames[1], ToSet(exported) \union Above(1))
      BY <1>1, <1>4, <2>5 DEF ImportsHandled
    <3>2. Above(1) = {}
      BY <1>3 DEF Above
    <3>3. Handled(Top, ToSet(exported))
      BY <1>3, <3>1, <3>2
    <3>4. \A f \in 1 .. Top.file : ToSet(program.inputs[f].imports) \subseteq ToSet(exported)
      BY <1>1, <1>3, <3>3, FileHandled
    <3>5. ASSUME NEW f \in ToSet(program.inputs)
          PROVE  ToSet(f.imports) \subseteq ToSet(exported)
      <4>1. PICK i \in 1 .. Len(program.inputs) : program.inputs[i] = f
        BY <2>1, PlaceOf
      <4> QED
        BY <2>2, <3>4, <4>1
    <3> QED
      BY <1>1, <1>3, <3>5 DEF ImportsOf
  <2>6. InputsChecked'
    BY <1>9 DEF InputsChecked
  <2>7. EndsRight'
    BY <1>1, <1>9, <2>3, <2>4, <2>5, ImportsKept DEF EndsRight, Right
  <2> QED
    BY <1>1, <1>9, <2>6, <2>7, MainOutcome
<1> QED
  BY <1>1, <1>8, <1>9 DEF AfterInput

LEMMA OutcomeKept == ASSUME IInv, OInv, [Next]_vars PROVE OInv'
<1>1. CASE Next
  BY <1>1, PreloadOutcome, LexInputsOutcome, InputFailsOutcome, InputDoneOutcome,
     OpenFileOutcome, ImportTwiceOutcome, ImportOutcome, SpinOutcome, PkgFileOutcome
  DEF Next
<1>2. CASE UNCHANGED vars
  BY <1>2, ImportsKept DEF vars, OInv, FramesImport, EachWanted, Wanted, Importers,
     RuntimeFirst, InputsChecked, EndsRight, Stopped
<1> QED
  BY <1>1, <1>2

(* What a compile that ends well means, for any programs: without a report *)
(* it has loaded what its inputs and packages import and nothing else, and *)
(* whatever was reported, none of its own inputs was wrong.                *)
THEOREM OutcomeIsSound == Spec => []OutcomeSound
<1>1. Init => OInv
  BY DEF Init, OInv, FramesImport, EachWanted, RuntimeFirst, InputsChecked, EndsRight
<1>2. IInv /\ OInv /\ [Next]_vars => OInv'
  BY OutcomeKept
<1>3. IInv /\ OInv => AllImportsLoaded
  <2> SUFFICES ASSUME IInv, OInv, Clean, NEW p \in Importers
               PROVE  ImportsOf(p) \subseteq ToSet(exported)
    BY DEF AllImportsLoaded
  <2>1. CASE p = Inputs
    BY <2>1 DEF OInv, EndsRight, Clean
  <2>2. CASE p \in owned
    <3>1. loading = <<>>
      BY NothingLoading DEF OInv, EndsRight, Clean, IInv, ErrReported
    <3>2. p \in ToSet(exported)
      BY <2>2, <3>1 DEF IInv, CacheHolds, CachedIsComplete, Incomplete, ErrReported, Clean, ToSet
    <3>3. PICK i \in DOMAIN exported : exported[i] = p
      BY <3>2 DEF ToSet
    <3>4. ImportsOf(p) \subseteq {exported[j] : j \in 1 .. i - 1}
      BY <2>2, <3>3 DEF IInv, DependenciesFirst, Clean
    <3>5. 1 .. i - 1 \subseteq DOMAIN exported
      BY <3>3 DEF IInv, TypeOK
    <3> QED
      BY <3>4, <3>5 DEF ToSet
  <2> QED
    BY <2>1, <2>2 DEF Importers
<1>4. OInv => NothingElseLoaded
  BY DEF OInv, EachWanted, Wanted, NothingElseLoaded
<1>5. OInv => InputErrorsFatal
  BY DEF OInv, EndsRight, InputErrorsFatal, Right
<1> QED
  BY <1>1, <1>2, <1>3, <1>4, <1>5, Invariance, PTL DEF Spec, OutcomeSound
=============================================================================
