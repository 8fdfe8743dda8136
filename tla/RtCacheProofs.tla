---------------------------- MODULE RtCacheProofs ----------------------------
(***************************************************************************)
(* The compile cache for any number of compiles, modules and versions, and *)
(* what it takes for it not to show: that inputs are not edited while a    *)
(* compile reads them, that FAKECC_PKG holds no runtime, that the disk     *)
(* does not fill and that the directory can be written.  Each part of the  *)
(* invariant holds under the conditions it needs and no others.            *)
(***************************************************************************)
EXTENDS RtCache, TLAPS

LEMMA AppendFacts ==
  ASSUME NEW S, NEW s \in Seq(S), NEW x \in S
  PROVE  /\ Append(s, x) \in Seq(S)
         /\ Len(Append(s, x)) = Len(s) + 1 /\ Len(s) \in Nat
         /\ \A j \in 1 .. Len(s) : Append(s, x)[j] = s[j]
         /\ Append(s, x)[Len(s) + 1] = x
         /\ DOMAIN s = 1 .. Len(s) /\ DOMAIN Append(s, x) = 1 .. Len(s) + 1
OBVIOUS

LEMMA NoKeyNotEmpty == <<>> # NoKey
<1>1. <<>> \in Seq(Contents)
  OBVIOUS
<1> QED BY <1>1, RtCacheAssumption

-----------------------------------------------------------------------------
(* The invariant.                                                          *)

Writing(c) == step[c] \in {"write"} \union Cuts

(* How far compile c has come.                                             *)
Stage(c) ==
  /\ phase[c] = "parse" => /\ Len(captured[c]) \in 1 .. NModules
                           /\ linked[c] = <<>> /\ key[c] = <<>>
  /\ phase[c] = "compile" => Len(captured[c]) = NModules + 1
  /\ step[c] = "hash" => key[c] # NoKey /\ Len(key[c]) <= NModules /\ linked[c] = <<>>
  /\ step[c] = "module" /\ key[c] # NoKey => Len(key[c]) = NModules + 1
  /\ Writing(c) => key[c] # NoKey /\ Len(key[c]) = NModules + 1 /\ Len(linked[c]) < NModules
  /\ phase[c] = "done" => Len(linked[c]) = NModules

(* The key names what was parsed.                                          *)
Alone == Quiet /\ Own = {}

Fresh(c) ==
  Alone =>
    /\ found[c] = Builtin
    /\ Reading(c) => \A j \in 1 .. Len(captured[c]) : captured[c][j] = disk[j - 1]
    /\ step[c] = "hash" => \A j \in 1 .. Len(key[c]) : key[c][j] = disk[j - 1]
    /\ (step[c] = "module" \/ Writing(c)) /\ key[c] # NoKey => key[c] = captured[c]

(* What is linked so far is what this compile would lower.                 *)
Faithful(c) ==
  Alone /\ phase[c] \in {"compile", "done"} =>
    \A f \in DOMAIN linked[c] :
      linked[c][f] = Object(f, captured[c], flags[c], linked[c][f].cut)

Whole(c) ==
  ~DiskMayFill =>
    /\ step[c] \notin {"cut", "stub"}
    /\ \A f \in DOMAIN linked[c] : linked[c][f].cut = "whole"

Good(c) == Stage(c) /\ Fresh(c) /\ Faithful(c) /\ Whole(c)

CacheGood ==
  /\ Alone => KeyCoversInputs
  /\ ~DiskMayFill => \A e \in cache : e.object.cut = "whole"

IInv == /\ CacheTypeOK /\ CacheGood
        /\ \A c \in Compilers : Good(c)

-----------------------------------------------------------------------------
(* What a step of compile c leaves alone.                                  *)

Same(d) ==
  /\ phase'[d] = phase[d] /\ step'[d] = step[d] /\ flags'[d] = flags[d] /\ found'[d] = found[d]
  /\ captured'[d] = captured[d] /\ linked'[d] = linked[d] /\ key'[d] = key[d]

LEMMA SameGood ==
  ASSUME NEW d \in Compilers, Good(d), Same(d), Reading(d) /\ Alone => disk' = disk
  PROVE  Good(d)'
<1>1. Stage(d)'
  BY DEF Good, Same, Stage, Writing
<1>2. Fresh(d)'
  BY DEF Good, Same, Fresh, Reading, Writing, Alone
<1>3. Faithful(d)'
  BY DEF Good, Same, Faithful, Alone
<1>4. Whole(d)'
  BY DEF Good, Same, Whole
<1> QED BY <1>1, <1>2, <1>3, <1>4 DEF Good

(* A step of compile c.                                                    *)
LEMMA CompileKeeps ==
  ASSUME IInv, NEW c \in Compilers, disk' = disk, \A d \in Compilers \ {c} : Same(d),
         CacheTypeOK', Good(c)', CacheGood'
  PROVE  IInv'
<1>1. ASSUME NEW d \in Compilers PROVE Good(d)'
  <2>1. CASE d = c
    BY <2>1
  <2>2. CASE d # c
    BY <2>2, SameGood DEF IInv
  <2> QED BY <2>1, <2>2
<1> QED BY <1>1 DEF IInv

LEMMA EditKeeps ==
  ASSUME IInv, EditInput
  PROVE  IInv'
<1>1. UNCHANGED <<found, phase, flags, captured, linked, cache, key, step>>
  BY DEF EditInput, Edit
<1>2. CacheTypeOK'
  <2>1. disk' \in [Inputs -> Contents]
    BY DEF IInv, CacheTypeOK, EditInput, Edit, Contents
  <2> QED BY <1>1, <2>1 DEF IInv, CacheTypeOK
<1>3. \A c \in Compilers : Good(c)'
  <2> TAKE c \in Compilers
  <2>1. Same(c) /\ Good(c)
    BY <1>1 DEF Same, IInv
  <2>2. ~(Reading(c) /\ Alone)
    BY DEF EditInput, Alone
  <2> QED BY <2>1, <2>2, SameGood
<1>4. CacheGood'
  BY <1>1 DEF IInv, CacheGood, Alone, KeyCoversInputs
<1> QED BY <1>2, <1>3, <1>4 DEF IInv

(* The cache is untouched by most steps.                                   *)
LEMMA SameCache ==
  ASSUME IInv, cache' = cache
  PROVE  CacheGood'
BY DEF IInv, CacheGood, Alone, KeyCoversInputs

LEMMA StartKeeps ==
  ASSUME IInv, NEW c \in Compilers, StartCompile(c)
  PROVE  IInv'
<1> USE DEF IInv
<1>1. CacheTypeOK /\ disk' = disk /\ cache' = cache /\ step' = step
  BY DEF StartCompile, Start
<1>2. PICK fl \in Flags : flags' = [flags EXCEPT ![c] = fl]
  BY DEF StartCompile, Start
<1>3. PICK o \in Own \union {Builtin} : found' = [found EXCEPT ![c] = o]
  BY DEF StartCompile, Start
<1>4. /\ captured' = [captured EXCEPT ![c] = <<disk[0]>>]
      /\ linked' = [linked EXCEPT ![c] = <<>>]
      /\ phase' = [phase EXCEPT ![c] = "parse"]
      /\ key' = [key EXCEPT ![c] = <<>>]
      /\ phase[c] # "compile"
  BY DEF StartCompile, Start
<1>5. NModules \in Nat \ {0} /\ 0 \in Inputs
  BY RtCompileAssumption DEF Inputs
<1>6. step[c] = "none" /\ <<disk[0]>> \in Seq(Contents) /\ <<>> \in Seq(Contents)
      /\ <<>> \in Seq(Objects)
  BY <1>1, <1>4, <1>5 DEF CacheTypeOK
<1>7. CacheTypeOK'
  <2>1. \A d \in Compilers : step'[d] # "none" <=> phase'[d] = "compile"
    BY <1>1, <1>4, <1>6 DEF CacheTypeOK
  <2>2. \A d \in Compilers : Len(linked'[d]) <= NModules
    BY <1>1, <1>4, <1>5 DEF CacheTypeOK
  <2> QED BY <1>1, <1>2, <1>3, <1>4, <1>6, <2>1, <2>2 DEF CacheTypeOK
<1>8. /\ phase'[c] = "parse" /\ step'[c] = "none" /\ captured'[c] = <<disk[0]>>
      /\ linked'[c] = <<>> /\ key'[c] = <<>> /\ found'[c] = o
  BY <1>1, <1>3, <1>4, <1>6 DEF CacheTypeOK
<1>9. Good(c)'
  <2>1. Stage(c)'
    BY <1>5, <1>8 DEF Stage, Writing, Cuts
  <2>2. Fresh(c)'
    BY <1>1, <1>3, <1>8 DEF Fresh, Alone, Reading, Writing, Cuts
  <2>3. Faithful(c)' /\ Whole(c)'
    BY <1>8 DEF Faithful, Whole
  <2> QED BY <2>1, <2>2, <2>3 DEF Good
<1>10. \A d \in Compilers \ {c} : Same(d)
  BY <1>1, <1>2, <1>3, <1>4 DEF CacheTypeOK, Same
<1> QED BY <1>1, <1>7, <1>8, <1>9, <1>10, SameCache, CompileKeeps

LEMMA ParseKeeps ==
  ASSUME IInv, NEW c \in Compilers, Parse(c)
  PROVE  IInv'
<1> USE DEF IInv
<1>1. /\ CacheTypeOK /\ disk' = disk /\ cache' = cache /\ found' = found /\ flags' = flags
      /\ linked' = linked /\ key' = key /\ phase[c] = "parse" /\ Good(c)
      /\ step' = [step EXCEPT ![c] = IF phase'[c] = "compile" THEN "hash" ELSE "none"]
  BY DEF Parse, Read
<1>2. NModules \in Nat \ {0}
  BY RtCompileAssumption
<1>3. /\ Len(captured[c]) \in 1 .. NModules /\ linked[c] = <<>> /\ key[c] = <<>>
      /\ captured[c] \in Seq(Contents) /\ step[c] = "none"
  BY <1>1 DEF Good, Stage, CacheTypeOK
<1>4. CASE Source(c) = Unreadable
  <2>1. phase' = [phase EXCEPT ![c] = "failed"] /\ captured' = captured
    BY <1>4 DEF Parse, Read
  <2>2. phase'[c] = "failed" /\ step'[c] = "none"
    BY <1>1, <2>1 DEF CacheTypeOK
  <2>3. CacheTypeOK'
    BY <1>1, <2>1, <2>2 DEF CacheTypeOK
  <2>4. Good(c)'
    BY <1>1, <1>3, <2>1, <2>2 DEF Good, Stage, Fresh, Faithful, Whole, Reading, Writing, Cuts, Alone
  <2>5. \A d \in Compilers \ {c} : Same(d)
    BY <1>1, <2>1 DEF CacheTypeOK, Same
  <2> QED BY <1>1, <1>3, <2>1, <2>3, <2>4, <2>5, SameCache, CompileKeeps
<1>5. CASE Source(c) # Unreadable
  <2> DEFINE p == IF Len(captured[c]) = NModules THEN "compile" ELSE "parse"
             x == Source(c)
  <2>1. phase' = [phase EXCEPT ![c] = p] /\ captured' = [captured EXCEPT ![c] = Append(@, x)]
    BY <1>5 DEF Parse, Read
  <2>2. x \in Contents
    <3>1. Len(captured[c]) \in Inputs /\ Len(captured[c]) \in 1 .. NModules
      BY <1>2, <1>3 DEF Inputs
    <3>2. CASE found[c] = Builtin
      BY <1>1, <3>1, <3>2 DEF Source, CacheTypeOK
    <3>3. CASE found[c] # Builtin
      <4>1. found[c] \in [1 .. NModules -> Contents]
        BY <1>1, <3>3, RtCompileAssumption DEF CacheTypeOK, Contents, Inputs
      <4> QED BY <3>1, <3>3, <4>1 DEF Source
    <3> QED BY <3>2, <3>3
  <2>3. Alone => x = disk[Len(captured[c])] /\ found[c] = Builtin
    BY <1>1 DEF Good, Fresh, Source
  <2> HIDE DEF x
  <2>4. /\ phase'[c] = p /\ step'[c] = (IF p = "compile" THEN "hash" ELSE "none")
        /\ captured'[c] = Append(captured[c], x) /\ linked'[c] = <<>> /\ key'[c] = <<>>
        /\ found'[c] = found[c]
    BY <1>1, <1>3, <2>1 DEF CacheTypeOK
  <2>5. /\ captured'[c] \in Seq(Contents) /\ Len(captured'[c]) = Len(captured[c]) + 1
        /\ \A j \in 1 .. Len(captured[c]) : captured'[c][j] = captured[c][j]
        /\ captured'[c][Len(captured[c]) + 1] = x
    BY <1>3, <2>2, <2>4, AppendFacts
  <2>6. CacheTypeOK'
    <3>1. captured' \in [Compilers -> Seq(Contents)]
      BY <1>1, <2>1, <2>4, <2>5 DEF CacheTypeOK
    <3>2. \A d \in Compilers : step'[d] # "none" <=> phase'[d] = "compile"
      BY <1>1, <2>1, <2>4 DEF CacheTypeOK
    <3> QED BY <1>1, <2>1, <3>1, <3>2 DEF CacheTypeOK
  <2>7. Stage(c)'
    BY <1>2, <1>3, <2>4, <2>5, NoKeyNotEmpty DEF Stage, Writing, Cuts
  <2>8. Fresh(c)'
    <3> SUFFICES ASSUME Alone, NEW j \in 1 .. Len(captured'[c])
                 PROVE  captured'[c][j] = disk[j - 1]
      BY <1>1, <2>3, <2>4 DEF Fresh, Alone, Reading, Writing, Cuts
    <3>1. CASE j = Len(captured[c]) + 1
      <4>1. j - 1 = Len(captured[c])
        BY <1>3, <3>1
      <4> QED BY <2>3, <2>5, <3>1, <4>1
    <3>2. CASE j \in 1 .. Len(captured[c])
      BY <1>1, <2>5, <3>2 DEF Good, Fresh, Reading
    <3> QED BY <1>3, <2>5, <3>1, <3>2
  <2>9. Faithful(c)' /\ Whole(c)'
    BY <2>4 DEF Faithful, Whole
  <2>10. \A d \in Compilers \ {c} : Same(d)
    BY <1>1, <2>1 DEF CacheTypeOK, Same
  <2> QED BY <1>1, <2>4, <2>6, <2>7, <2>8, <2>9, <2>10, SameCache, CompileKeeps DEF Good
<1> QED BY <1>4, <1>5

LEMMA HashKeeps ==
  ASSUME IInv, NEW c \in Compilers, Hash(c)
  PROVE  IInv'
<1> USE DEF IInv
<1> DEFINE s == IF Len(key[c]) = NModules THEN "module" ELSE "hash"
           x == disk[Len(key[c])]
<1>1. /\ CacheTypeOK /\ UNCHANGED <<disk, found, phase, flags, captured, linked, cache>>
      /\ step[c] = "hash" /\ Good(c)
      /\ key' = [key EXCEPT ![c] = Append(key[c], x)] /\ step' = [step EXCEPT ![c] = s]
  BY DEF Hash, Goes, CacheTypeOK
<1>2. NModules \in Nat \ {0}
  BY RtCompileAssumption
<1>3. /\ key[c] \in Seq(Contents) /\ Len(key[c]) \in 0 .. NModules /\ linked[c] = <<>>
      /\ phase[c] = "compile" /\ Len(captured[c]) = NModules + 1 /\ captured[c] \in Seq(Contents)
  BY <1>1 DEF Good, Stage, CacheTypeOK
<1>4. x \in Contents
  BY <1>1, <1>3 DEF CacheTypeOK, Inputs
<1>5. /\ key'[c] = Append(key[c], x) /\ step'[c] = s /\ phase'[c] = "compile"
      /\ captured'[c] = captured[c] /\ linked'[c] = <<>> /\ found'[c] = found[c]
  BY <1>1, <1>3 DEF CacheTypeOK
<1> HIDE DEF x
<1>6. /\ key'[c] \in Seq(Contents) /\ Len(key'[c]) = Len(key[c]) + 1
      /\ \A j \in 1 .. Len(key[c]) : key'[c][j] = key[c][j]
      /\ key'[c][Len(key[c]) + 1] = x
      /\ key'[c] # NoKey
  <2>1. /\ key'[c] \in Seq(Contents) /\ Len(key'[c]) = Len(key[c]) + 1
        /\ \A j \in 1 .. Len(key[c]) : key'[c][j] = key[c][j]
        /\ key'[c][Len(key[c]) + 1] = x
    BY ONLY <1>3, <1>4, <1>5, AppendFacts
  <2>2. key'[c] # NoKey
    BY ONLY <2>1, RtCacheAssumption
  <2> QED BY <2>1, <2>2
<1>7. CacheTypeOK'
  <2>1. key' \in [Compilers -> Seq(Contents) \union {NoKey}]
    BY <1>1, <1>5, <1>6 DEF CacheTypeOK
  <2>2. \A d \in Compilers : step'[d] # "none" <=> phase'[d] = "compile"
    BY <1>1, <1>5 DEF CacheTypeOK
  <2>3. step' \in [Compilers -> {"none", "hash", "module", "write"} \union Cuts]
    BY <1>1 DEF CacheTypeOK
  <2> QED BY <1>1, <2>1, <2>2, <2>3 DEF CacheTypeOK
<1>8. Stage(c)'
  BY <1>2, <1>3, <1>5, <1>6 DEF Stage, Writing, Cuts
<1>9. Alone => /\ found'[c] = Builtin /\ \A j \in 1 .. NModules + 1 : captured[c][j] = disk[j - 1]
               /\ \A j \in 1 .. Len(key'[c]) : key'[c][j] = disk[j - 1]
  <2> SUFFICES ASSUME Alone
               PROVE /\ found[c] = Builtin /\ \A j \in 1 .. NModules + 1 : captured[c][j] = disk[j - 1]
                     /\ \A j \in 1 .. Len(key'[c]) : key'[c][j] = disk[j - 1]
    BY <1>5
  <2>1. /\ found[c] = Builtin /\ \A j \in 1 .. NModules + 1 : captured[c][j] = disk[j - 1]
        /\ \A j \in 1 .. Len(key[c]) : key[c][j] = disk[j - 1]
    BY <1>1, <1>3 DEF Good, Fresh, Reading
  <2>2. \A j \in 1 .. Len(key'[c]) : j \in 1 .. Len(key[c]) \/ j = Len(key[c]) + 1
    BY <1>3, <1>6
  <2>3. (Len(key[c]) + 1) - 1 = Len(key[c])
    BY <1>3
  <2> QED BY <1>6, <2>1, <2>2, <2>3 DEF x
<1>10. Fresh(c)'
  <2>1. CASE s = "hash"
    BY <1>1, <1>3, <1>5, <1>9, <2>1 DEF Fresh, Alone, Reading, Writing, Cuts
  <2>2. CASE s = "module"
    <3>1. Len(key'[c]) = NModules + 1
      BY <1>2, <1>3, <1>6, <2>2
    <3>2. ASSUME Alone PROVE key'[c] = captured[c]
      <4>1. \A j \in 1 .. NModules + 1 : key'[c][j] = captured[c][j]
        BY ONLY <1>9, <3>1, <3>2
      <4> QED BY ONLY <1>3, <1>6, <3>1, <4>1
    <3> QED BY <1>5, <1>9, <2>2, <3>2 DEF Fresh, Alone, Reading, Writing, Cuts
  <2> QED BY <2>1, <2>2
<1>11. Faithful(c)' /\ Whole(c)'
  BY <1>5 DEF Faithful, Whole
<1>12. \A d \in Compilers \ {c} : Same(d)
  BY <1>1 DEF CacheTypeOK, Same
<1> QED BY <1>1, <1>5, <1>7, <1>8, <1>10, <1>11, <1>12, SameCache, CompileKeeps DEF Good

LEMMA CacheOffKeeps ==
  ASSUME IInv, NEW c \in Compilers, CacheOff(c)
  PROVE  IInv'
<1> USE DEF IInv
<1>1. /\ CacheTypeOK /\ UNCHANGED <<disk, found, phase, flags, captured, linked, cache>>
      /\ step[c] = "hash" /\ Good(c)
      /\ key' = [key EXCEPT ![c] = NoKey] /\ step' = [step EXCEPT ![c] = "module"]
  BY DEF CacheOff, Goes
<1>2. phase[c] = "compile" /\ linked[c] = <<>>
  BY <1>1 DEF Good, Stage, CacheTypeOK
<1>3. key'[c] = NoKey /\ step'[c] = "module" /\ phase'[c] = "compile"
  BY <1>1, <1>2 DEF CacheTypeOK
<1>4. CacheTypeOK'
  <2>1. \A d \in Compilers : step'[d] # "none" <=> phase'[d] = "compile"
    BY <1>1, <1>2 DEF CacheTypeOK
  <2> QED BY <1>1, <2>1 DEF CacheTypeOK
<1>5. Good(c)'
  BY <1>1, <1>2, <1>3 DEF Good, Stage, Fresh, Faithful, Whole, Reading, Writing, Cuts, Alone
<1>6. \A d \in Compilers \ {c} : Same(d)
  BY <1>1 DEF CacheTypeOK, Same
<1> QED BY <1>1, <1>3, <1>4, <1>5, <1>6, SameCache, CompileKeeps

-----------------------------------------------------------------------------
(* A module is linked.                                                     *)

LEMMA LinkKeeps ==
  ASSUME IInv, NEW c \in Compilers, NEW o \in Objects, Due(c) \in Modules,
         phase[c] = "compile", step[c] # "hash",
         Alone => o = Object(Due(c), captured[c], flags[c], o.cut),
         ~DiskMayFill => o.cut = "whole",
         linked' = [linked EXCEPT ![c] = Append(linked[c], o)],
         step' = [step EXCEPT ![c] = "module"],
         UNCHANGED <<disk, found, phase, flags, captured, key>>,
         cache' \in SUBSET Entries, CacheGood'
  PROVE  IInv'
<1> USE DEF IInv
<1>1. CacheTypeOK /\ Good(c)
  OBVIOUS
<1>2. NModules \in Nat \ {0} /\ linked[c] \in Seq(Objects)
  BY <1>1, RtCompileAssumption DEF CacheTypeOK
<1>3. /\ linked'[c] = Append(linked[c], o) /\ linked'[c] \in Seq(Objects)
      /\ Len(linked'[c]) = Len(linked[c]) + 1 /\ Len(linked[c]) \in Nat
      /\ \A f \in 1 .. Len(linked[c]) : linked'[c][f] = linked[c][f]
      /\ linked'[c][Len(linked[c]) + 1] = o
      /\ DOMAIN linked[c] = 1 .. Len(linked[c])
      /\ DOMAIN linked'[c] = 1 .. Len(linked[c]) + 1
  <2>1. linked'[c] = Append(linked[c], o)
    BY <1>1 DEF CacheTypeOK
  <2> QED BY <1>2, <2>1, AppendFacts
<1>4. Due(c) = Len(linked[c]) + 1 /\ Len(linked[c]) < NModules
  BY <1>2, <1>3 DEF Due, Modules
<1>5. step'[c] = "module" /\ phase'[c] = "compile" /\ key'[c] = key[c] /\ captured'[c] = captured[c]
      /\ flags'[c] = flags[c]
  BY <1>1 DEF CacheTypeOK
<1>6. CacheTypeOK'
  <2>1. linked' \in [Compilers -> Seq(Objects)]
    BY <1>1, <1>3 DEF CacheTypeOK
  <2>2. \A d \in Compilers : Len(linked'[d]) <= NModules
    BY <1>1, <1>2, <1>3, <1>4 DEF CacheTypeOK
  <2>3. \A d \in Compilers : step'[d] # "none" <=> phase'[d] = "compile"
    BY <1>1 DEF CacheTypeOK
  <2> QED BY <1>1, <2>1, <2>2, <2>3 DEF CacheTypeOK
<1>7. step[c] = "module" \/ Writing(c)
  BY <1>1 DEF CacheTypeOK, Writing
<1>8. Stage(c)'
  BY <1>1, <1>5, <1>7 DEF Good, Stage, Writing, Cuts
<1>9. Fresh(c)'
  BY <1>1, <1>5, <1>7 DEF Good, Fresh, Reading, Alone, Writing, Cuts
<1>10. Faithful(c)'
  <2> SUFFICES ASSUME Alone, NEW f \in DOMAIN linked'[c]
               PROVE  linked'[c][f] = Object(f, captured[c], flags[c], linked'[c][f].cut)
    BY <1>5 DEF Faithful, Alone
  <2>1. CASE f \in DOMAIN linked[c]
    BY <1>1, <1>3, <2>1 DEF Good, Faithful
  <2>2. CASE f = Len(linked[c]) + 1
    BY <1>3, <1>4, <2>2
  <2> QED BY <1>3, <2>1, <2>2
<1>11. Whole(c)'
  BY <1>1, <1>3, <1>5 DEF Good, Whole
<1>12. \A d \in Compilers \ {c} : Same(d)
  BY <1>1 DEF CacheTypeOK, Same
<1> QED BY <1>5, <1>6, <1>8, <1>9, <1>10, <1>11, <1>12, CompileKeeps DEF Good

(* What compile c lowers is its own.                                       *)
LEMMA MineTyped ==
  ASSUME IInv, NEW c \in Compilers, NEW w \in Cuts, Due(c) \in Modules
  PROVE  /\ Object(Due(c), captured[c], flags[c], w) \in Objects
         /\ Object(Due(c), captured[c], flags[c], w).cut = w
         /\ Mine(c) = Object(Due(c), captured[c], flags[c], "whole")
BY DEF IInv, CacheTypeOK, Object, Objects, Mine, Lowered

LEMMA HitKeeps ==
  ASSUME IInv, NEW c \in Compilers, Hit(c)
  PROVE  IInv'
<1>1. /\ CacheTypeOK /\ CacheGood /\ Good(c) /\ cache' = cache
      /\ step[c] = "module" /\ Due(c) \in Modules
      /\ UNCHANGED <<disk, found, phase, flags, captured, key, step>>
  BY DEF IInv, Hit, ModuleDue
<1>2. PICK o \in Readable(c) : linked' = [linked EXCEPT ![c] = Append(linked[c], o)]
  <2>1. linked \in [Compilers -> Seq(Objects)]
    BY <1>1 DEF CacheTypeOK
  <2> QED BY <2>1 DEF Hit
<1>3. PICK e \in cache : e.place = Place(c) /\ e.object = o
  BY DEF Readable
<1>4. e \in Entries /\ o \in Objects /\ e.place.key \in Seq(Contents)
  <2>1. e \in Entries
    BY <1>1 DEF CacheTypeOK
  <2> QED BY <1>3, <2>1 DEF Entries
<1>5. e.place.key = key[c] /\ e.place.flags = flags[c] /\ e.place.module = Due(c)
  BY <1>3 DEF Place
<1>6. key[c] # NoKey
  BY <1>4, <1>5, RtCacheAssumption
<1>7. Alone => o = Object(Due(c), captured[c], flags[c], o.cut)
  <2>1. Alone => key[c] = captured[c]
    BY <1>1, <1>6 DEF Good, Fresh
  <2> QED BY <1>1, <1>3, <1>5, <2>1 DEF CacheGood, KeyCoversInputs
<1>8. ~DiskMayFill => o.cut = "whole"
  BY <1>1, <1>3 DEF CacheGood
<1>9. phase[c] = "compile" /\ step' = [step EXCEPT ![c] = "module"] /\ cache' \in SUBSET Entries
  BY <1>1 DEF CacheTypeOK
<1> QED BY <1>1, <1>2, <1>4, <1>7, <1>8, <1>9, LinkKeeps, SameCache

LEMMA MissKeeps ==
  ASSUME IInv, NEW c \in Compilers, Miss(c)
  PROVE  IInv'
<1>1. /\ CacheTypeOK /\ CacheGood /\ Good(c) /\ cache' = cache
      /\ step[c] = "module" /\ Due(c) \in Modules /\ phase[c] = "compile"
      /\ UNCHANGED <<disk, found, phase, flags, captured, key>>
  BY DEF IInv, Miss, ModuleDue, CacheTypeOK
<1>2. CASE key[c] = NoKey
  <2>1. linked' = [linked EXCEPT ![c] = Append(linked[c], Mine(c))] /\ step' = step
    <3>1. linked \in [Compilers -> Seq(Objects)]
      BY <1>1 DEF CacheTypeOK
    <3> QED BY <1>2, <3>1 DEF Miss
  <2>2. step' = [step EXCEPT ![c] = "module"] /\ cache' \in SUBSET Entries
    BY <1>1, <2>1 DEF CacheTypeOK
  <2>3. /\ Mine(c) \in Objects /\ Mine(c).cut = "whole"
        /\ Mine(c) = Object(Due(c), captured[c], flags[c], "whole")
    BY <1>1, MineTyped DEF Cuts
  <2> QED BY <1>1, <2>1, <2>2, <2>3, LinkKeeps, SameCache
<1>3. CASE key[c] # NoKey
  <2>1. linked' = linked /\ step' = [step EXCEPT ![c] = "write"]
    BY <1>3 DEF Miss, Goes
  <2>2. step'[c] = "write"
    BY <1>1, <2>1 DEF CacheTypeOK
  <2>3. CacheTypeOK'
    <3>1. \A d \in Compilers : step'[d] # "none" <=> phase'[d] = "compile"
      BY <1>1, <2>1 DEF CacheTypeOK
    <3> QED BY <1>1, <2>1, <3>1 DEF CacheTypeOK
  <2>4. Len(linked[c]) < NModules
    <3>1. Len(linked[c]) \in Nat /\ NModules \in Nat
      BY <1>1, RtCompileAssumption DEF CacheTypeOK
    <3> QED BY <1>1, <3>1 DEF Due, Modules
  <2>5. Stage(c)'
    BY <1>1, <1>3, <2>1, <2>2, <2>4 DEF Good, Stage, Writing, Cuts
  <2>6. Fresh(c)' /\ Faithful(c)' /\ Whole(c)'
    BY <1>1, <2>1, <2>2 DEF Good, Fresh, Faithful, Whole, Alone, Reading, Writing, Cuts
  <2>7. \A d \in Compilers \ {c} : Same(d)
    BY <1>1, <2>1 DEF CacheTypeOK, Same
  <2> QED BY <1>1, <2>3, <2>5, <2>6, <2>7, SameCache, CompileKeeps DEF Good
<1> QED BY <1>2, <1>3

LEMMA WriteKeeps ==
  ASSUME IInv, NEW c \in Compilers, Write(c)
  PROVE  IInv'
<1>1. /\ CacheTypeOK /\ CacheGood /\ Good(c) /\ cache' = cache
      /\ step[c] = "write" /\ phase[c] = "compile"
      /\ UNCHANGED <<disk, found, flags, captured, linked, key>>
  BY DEF IInv, Write, CacheTypeOK
<1>2. CASE Writable
  <2>1. PICK w \in Cuts : /\ step' = [step EXCEPT ![c] = w] /\ phase' = phase
                          /\ ~DiskMayFill => w = "whole"
    BY <1>2 DEF Write, Goes, Cuts
  <2>2. step'[c] = w /\ w # "none" /\ w # "hash" /\ w # "module" /\ w # "write"
    BY <1>1, <2>1 DEF CacheTypeOK, Cuts
  <2>3. CacheTypeOK'
    <3>1. \A d \in Compilers : step'[d] # "none" <=> phase'[d] = "compile"
      BY <1>1, <2>1, <2>2 DEF CacheTypeOK
    <3> QED BY <1>1, <2>1, <3>1 DEF CacheTypeOK
  <2>4. Stage(c)' /\ Fresh(c)'
    BY <1>1, <2>1, <2>2 DEF Good, Stage, Fresh, Alone, Reading, Writing
  <2>5. Faithful(c)' /\ Whole(c)'
    BY <1>1, <2>1, <2>2 DEF Good, Faithful, Whole, Alone
  <2>6. \A d \in Compilers \ {c} : Same(d)
    BY <1>1, <2>1 DEF CacheTypeOK, Same
  <2> QED BY <1>1, <2>1, <2>3, <2>4, <2>5, <2>6, SameCache, CompileKeeps DEF Good
<1>3. CASE ~Writable
  <2>1. step' = [step EXCEPT ![c] = "none"] /\ phase' = [phase EXCEPT ![c] = "failed"]
    BY <1>3 DEF Write, Ends, Goes
  <2>2. step'[c] = "none" /\ phase'[c] = "failed"
    BY <1>1, <2>1 DEF CacheTypeOK
  <2>3. CacheTypeOK'
    <3>1. \A d \in Compilers : step'[d] # "none" <=> phase'[d] = "compile"
      BY <1>1, <2>1, <2>2 DEF CacheTypeOK
    <3> QED BY <1>1, <2>1, <3>1 DEF CacheTypeOK
  <2>4. Good(c)'
    BY <1>1, <2>2 DEF Good, Stage, Fresh, Faithful, Whole, Alone, Reading, Writing, Cuts
  <2>5. \A d \in Compilers \ {c} : Same(d)
    BY <1>1, <2>1 DEF CacheTypeOK, Same
  <2> QED BY <1>1, <1>3, <2>3, <2>4, <2>5, SameCache, CompileKeeps
<1> QED BY <1>2, <1>3

LEMMA PublishKeeps ==
  ASSUME IInv, NEW c \in Compilers, Publish(c)
  PROVE  IInv'
<1>1. /\ CacheTypeOK /\ CacheGood /\ Good(c) /\ step[c] \in Cuts /\ phase[c] = "compile"
      /\ step' = [step EXCEPT ![c] = "module"]
      /\ UNCHANGED <<disk, found, phase, flags, captured, key>>
      /\ cache' = Stored(c, step[c]) \/ cache' = cache
  BY DEF IInv, Publish, Goes, CacheTypeOK, Cuts
<1>2. linked' = [linked EXCEPT ![c] = Append(linked[c], Mine(c))]
  <2>1. linked \in [Compilers -> Seq(Objects)]
    BY <1>1 DEF CacheTypeOK
  <2> QED BY <2>1 DEF Publish
<1>3. /\ key[c] # NoKey /\ key[c] \in Seq(Contents) /\ Due(c) \in Modules
      /\ Alone => key[c] = captured[c]
      /\ ~DiskMayFill => step[c] = "whole"
  <2>1. key[c] # NoKey /\ Len(linked[c]) < NModules
    BY <1>1 DEF Good, Stage, Writing
  <2>2. Len(linked[c]) \in Nat /\ NModules \in Nat
    BY <1>1, RtCompileAssumption DEF CacheTypeOK
  <2>3. Due(c) \in Modules
    BY <2>1, <2>2 DEF Due, Modules
  <2>4. Alone => key[c] = captured[c]
    BY <1>1, <2>1 DEF Good, Fresh, Writing
  <2>5. ~DiskMayFill => step[c] = "whole"
    BY <1>1 DEF Good, Whole, Cuts
  <2> QED BY <1>1, <2>1, <2>3, <2>4, <2>5 DEF CacheTypeOK
<1>4. /\ Object(Due(c), captured[c], flags[c], step[c]) \in Objects
      /\ Object(Due(c), captured[c], flags[c], step[c]).cut = step[c]
      /\ Mine(c) = Object(Due(c), captured[c], flags[c], "whole")
  BY <1>1, <1>3, MineTyped
<1>5. Mine(c) \in Objects /\ Mine(c).cut = "whole"
  BY <1>3, <1>4, MineTyped DEF Cuts
<1> DEFINE new == [place |-> Place(c), object |-> Object(Due(c), captured[c], flags[c], step[c])]
<1>6. cache' \subseteq cache \union {new}
  BY <1>1 DEF Stored
<1>7. new \in Entries
  BY <1>1, <1>3, <1>4 DEF Entries, Place, CacheTypeOK
<1>8. cache' \in SUBSET Entries
  BY <1>1, <1>6, <1>7 DEF CacheTypeOK
<1>9. CacheGood'
  <2>1. Alone => new.object = Object(new.place.module, new.place.key, new.place.flags, new.object.cut)
    BY <1>3, <1>4 DEF Place
  <2>2. ~DiskMayFill => new.object.cut = "whole"
    BY <1>3, <1>4
  <2> HIDE DEF new
  <2> QED BY <1>1, <1>6, <2>1, <2>2 DEF CacheGood, KeyCoversInputs, Alone
<1>10. step[c] # "hash" /\ (Alone => Mine(c) = Object(Due(c), captured[c], flags[c], Mine(c).cut))
  BY <1>1, <1>4, <1>5 DEF Cuts
<1> QED BY <1>1, <1>2, <1>3, <1>5, <1>8, <1>9, <1>10, LinkKeeps

LEMMA FinishKeeps ==
  ASSUME IInv, NEW c \in Compilers, Finish(c)
  PROVE  IInv'
<1>1. /\ CacheTypeOK /\ CacheGood /\ Good(c) /\ cache' = cache
      /\ step[c] = "module" /\ phase[c] = "compile" /\ Len(linked[c]) = NModules
      /\ step' = [step EXCEPT ![c] = "none"] /\ phase' = [phase EXCEPT ![c] = "done"]
      /\ UNCHANGED <<disk, found, flags, captured, linked, key>>
  BY DEF IInv, Finish, Ends, Goes, CacheTypeOK
<1>2. step'[c] = "none" /\ phase'[c] = "done"
  BY <1>1 DEF CacheTypeOK
<1>3. CacheTypeOK'
  <2>1. \A d \in Compilers : step'[d] # "none" <=> phase'[d] = "compile"
    BY <1>1, <1>2 DEF CacheTypeOK
  <2> QED BY <1>1, <2>1 DEF CacheTypeOK
<1>4. Good(c)'
  BY <1>1, <1>2 DEF Good, Stage, Fresh, Faithful, Whole, Alone, Reading, Writing, Cuts
<1>5. \A d \in Compilers \ {c} : Same(d)
  BY <1>1 DEF CacheTypeOK, Same
<1> QED BY <1>1, <1>2, <1>3, <1>4, <1>5, SameCache, CompileKeeps

LEMMA KilledKeeps ==
  ASSUME IInv, NEW c \in Compilers, Killed(c)
  PROVE  IInv'
<1>1. /\ CacheTypeOK /\ CacheGood /\ Good(c) /\ cache' = cache
      /\ UNCHANGED <<disk, found, flags>>
      /\ step' = [step EXCEPT ![c] = "none"] /\ phase' = [phase EXCEPT ![c] = "idle"]
      /\ captured' = [captured EXCEPT ![c] = <<>>] /\ linked' = [linked EXCEPT ![c] = <<>>]
      /\ key' = [key EXCEPT ![c] = <<>>]
  BY DEF IInv, Killed, Ends, Goes
<1>2. /\ step'[c] = "none" /\ phase'[c] = "idle" /\ linked'[c] = <<>> /\ found'[c] = found[c]
      /\ key'[c] = <<>>
  BY <1>1 DEF CacheTypeOK
<1>3. CacheTypeOK'
  <2>1. <<>> \in Seq(Contents) /\ <<>> \in Seq(Objects) /\ NModules \in Nat
    BY RtCompileAssumption
  <2>2. \A d \in Compilers : step'[d] # "none" <=> phase'[d] = "compile"
    BY <1>1, <1>2 DEF CacheTypeOK
  <2>3. \A d \in Compilers : Len(linked'[d]) <= NModules
    BY <1>1, <2>1 DEF CacheTypeOK
  <2> QED BY <1>1, <2>1, <2>2, <2>3 DEF CacheTypeOK
<1>4. Good(c)'
  <2>1. Fresh(c)
    BY <1>1 DEF Good
  <2>2. Fresh(c)'
    BY <1>2, <2>1 DEF Fresh, Alone, Reading, Writing, Cuts
  <2>3. Stage(c)' /\ Faithful(c)' /\ Whole(c)'
    BY <1>2 DEF Stage, Faithful, Whole, Alone, Writing, Cuts
  <2> QED BY <2>2, <2>3 DEF Good
<1>5. \A d \in Compilers \ {c} : Same(d)
  BY <1>1 DEF CacheTypeOK, Same
<1> QED BY <1>1, <1>2, <1>3, <1>4, <1>5, SameCache, CompileKeeps

-----------------------------------------------------------------------------
(* The invariant holds.                                                    *)

LEMMA Initially == CacheInit => IInv
<1> SUFFICES ASSUME CacheInit PROVE IInv
  OBVIOUS
<1>1. NModules \in Nat /\ <<>> \in Seq(Contents) /\ <<>> \in Seq(Objects)
  BY RtCompileAssumption
<1>2. CacheTypeOK
  BY <1>1 DEF CacheInit, Init, CacheTypeOK
<1>3. CacheGood
  BY DEF CacheInit, Init, CacheGood, KeyCoversInputs
<1>4. ASSUME NEW c \in Compilers PROVE Good(c)
  BY DEF CacheInit, Init, Good, Stage, Fresh, Faithful, Whole, Reading, Writing, Cuts
<1> QED BY <1>2, <1>3, <1>4 DEF IInv

LEMMA NextKeeps == IInv /\ [CacheNext]_allvars => IInv'
<1> SUFFICES ASSUME IInv, [CacheNext]_allvars PROVE IInv'
  OBVIOUS
<1>1. CASE EditInput
  BY <1>1, EditKeeps
<1>2. ASSUME NEW c \in Compilers, Compile(c) PROVE IInv'
  <2>1. CASE StartCompile(c) \/ Parse(c) \/ Hash(c) \/ CacheOff(c)
    BY <2>1, StartKeeps, ParseKeeps, HashKeeps, CacheOffKeeps
  <2>2. CASE Hit(c) \/ Miss(c) \/ Write(c) \/ Publish(c)
    BY <2>2, HitKeeps, MissKeeps, WriteKeeps, PublishKeeps
  <2>3. CASE Finish(c) \/ Killed(c)
    BY <2>3, FinishKeeps, KilledKeeps
  <2> QED BY <1>2, <2>1, <2>2, <2>3 DEF Compile
<1>3. CASE UNCHANGED allvars
  <2>1. /\ UNCHANGED <<disk, found, phase, flags, captured, linked>>
        /\ UNCHANGED <<cache, key, step>>
    BY <1>3 DEF allvars
  <2>2. CacheTypeOK'
    BY <2>1 DEF IInv, CacheTypeOK
  <2>3. \A c \in Compilers : Good(c)'
    BY <2>1, SameGood DEF IInv, Same
  <2> QED BY <2>1, <2>2, <2>3, SameCache DEF IInv
<1> QED BY <1>1, <1>2, <1>3 DEF CacheNext

LEMMA Invariance == CacheSpec => []IInv
BY Initially, NextKeeps, PTL DEF CacheSpec

(* Type correctness of the cache and of the compiles that use it           *)
(* (main.c:1183), under all conditions.                                    *)
THEOREM CacheTyped == CacheSpec => []CacheTypeOK
<1>1. IInv => CacheTypeOK
  BY DEF IInv
<1> QED BY <1>1, Invariance, PTL

(* The key of rt_cache_key (main.c:562) covers what the cached object was  *)
(* made of, for any number of compiles, killed or not, provided no input   *)
(* is edited under a compile and no other runtime is on the search path.   *)
THEOREM KeySound ==
  ASSUME Quiet, Own = {}
  PROVE  CacheSpec => []KeyCoversInputs
<1>1. IInv => KeyCoversInputs
  BY DEF IInv, CacheGood, Alone
<1> QED BY <1>1, Invariance, PTL

(* An object that is written to a scratch file and renamed (main.c:1258)   *)
(* is never read half-written, wherever writers are killed and whatever    *)
(* is edited, provided writes are not cut short.                           *)
THEOREM PublishAtomic ==
  ASSUME ~DiskMayFill
  PROVE  CacheSpec => []NothingHalfWritten
<1>1. IInv => NothingHalfWritten
  BY DEF IInv, Good, Whole, NothingHalfWritten
<1> QED BY <1>1, Invariance, PTL

-----------------------------------------------------------------------------
(* The refinement: a step of compile c is one of the compile without cache.*)

Shown == [c \in Compilers |-> IF phase[c] = "done" THEN linked[c] ELSE <<>>]

LEMMA EditShows == EditInput => Promise!Edit
BY DEF EditInput, Edit, Promise!Edit, Promise!Inputs, Inputs

LEMMA StartShows ==
  ASSUME IInv, NEW c \in Compilers, StartCompile(c)
  PROVE  Promise!Start(c)
<1>1. phase' = [phase EXCEPT ![c] = "parse"] /\ linked' = [linked EXCEPT ![c] = <<>>]
      /\ CacheTypeOK
  BY DEF StartCompile, Start, IInv
<1>2. Shown' = [Shown EXCEPT ![c] = <<>>]
  BY <1>1 DEF Shown, CacheTypeOK
<1> QED BY <1>2 DEF Shown, StartCompile, Start, Promise!Start, Promise!Builtin, Builtin

LEMMA ParseShows ==
  ASSUME IInv, NEW c \in Compilers, Parse(c)
  PROVE  Promise!Read(c)
<1>1. /\ CacheTypeOK /\ Read(c) /\ phase[c] = "parse" /\ linked' = linked
      /\ \A p : phase' = [phase EXCEPT ![c] = p] => phase'[c] = p
  BY DEF Parse, Read, IInv, CacheTypeOK
<1>2. PICK p \in {"failed", "parse", "compile"} : phase' = [phase EXCEPT ![c] = p]
  BY <1>1 DEF Read
<1>3. Shown' = Shown
  BY <1>1, <1>2 DEF Shown, CacheTypeOK
<1> QED BY <1>1, <1>3 DEF Shown, Read, Source, Promise!Read, Promise!Source, Promise!Builtin, Builtin

(* The steps of the cache do not show.                                     *)
LEMMA CacheHidden ==
  ASSUME IInv, NEW c \in Compilers, step[c] # "none", Writable,
         Hash(c) \/ CacheOff(c) \/ Hit(c) \/ Miss(c) \/ Write(c) \/ Publish(c)
  PROVE  UNCHANGED Promise!vars
<1>1. CacheTypeOK /\ phase[c] = "compile"
  BY DEF IInv, CacheTypeOK
<1>2. UNCHANGED <<disk, found, phase, flags, captured>>
  BY DEF Hash, CacheOff, Hit, Miss, Write, Publish
<1>3. \A d \in Compilers \ {c} : linked'[d] = linked[d]
  BY <1>1 DEF CacheTypeOK, Hash, CacheOff, Hit, Miss, Write, Publish
<1>4. Shown' = Shown
  BY <1>1, <1>2, <1>3 DEF Shown
<1> QED BY <1>2, <1>4 DEF Promise!vars, Shown

(* When all modules are there, they are what this compile would lower.     *)
LEMMA FinishShows ==
  ASSUME IInv, NEW c \in Compilers, Finish(c), Alone, ~DiskMayFill
  PROVE  Promise!Link(c)
<1>1. /\ CacheTypeOK /\ Good(c) /\ phase[c] = "compile" /\ Len(linked[c]) = NModules
      /\ phase' = [phase EXCEPT ![c] = "done"]
      /\ UNCHANGED <<disk, found, flags, captured, linked>>
  BY DEF IInv, CacheTypeOK, Finish, Ends, Goes
<1> DEFINE all == [f \in Modules |-> Object(f, captured[c], flags[c], "whole")]
<1>2. linked[c] = all
  <2>1. linked[c] \in Seq(Objects) /\ NModules \in Nat
    BY <1>1, RtCompileAssumption DEF CacheTypeOK
  <2>2. DOMAIN linked[c] = Modules /\ linked[c] = [f \in Modules |-> linked[c][f]]
    BY <1>1, <2>1 DEF Modules
  <2>3. \A f \in Modules : linked[c][f] = Object(f, captured[c], flags[c], "whole")
    BY <1>1, <2>2 DEF Good, Faithful, Whole
  <2> QED BY <2>2, <2>3
<1>3. Shown' = [Shown EXCEPT ![c] = all]
  BY <1>1, <1>2 DEF Shown, CacheTypeOK
<1> QED BY <1>1, <1>3 DEF Shown, Promise!Link, Promise!Modules, Modules, Promise!Lowered,
                          Promise!Object, Object

LEMMA KilledShows ==
  ASSUME IInv, NEW c \in Compilers, Killed(c)
  PROVE  Promise!Kill(c)
<1>1. /\ CacheTypeOK /\ phase' = [phase EXCEPT ![c] = "idle"]
      /\ linked' = [linked EXCEPT ![c] = <<>>] /\ phase[c] # "done"
  BY DEF IInv, Killed, Ends
<1>2. Shown' = Shown
  BY <1>1 DEF Shown, CacheTypeOK
<1> QED BY <1>2 DEF Shown, Killed, Ends, Promise!Kill

LEMMA StepShows ==
  ASSUME IInv, [CacheNext]_allvars, Alone, ~DiskMayFill, Writable
  PROVE  [Promise!Next]_Promise!vars
<1>1. CASE EditInput
  BY <1>1, EditShows DEF Promise!Next
<1>2. ASSUME NEW c \in Compilers, Compile(c) PROVE [Promise!Next]_Promise!vars
  <2>1. CASE StartCompile(c) \/ Parse(c) \/ Finish(c) \/ Killed(c)
    BY <2>1, StartShows, ParseShows, FinishShows, KilledShows DEF Promise!Next
  <2>2. CASE Hash(c) \/ CacheOff(c) \/ Hit(c) \/ Miss(c) \/ Write(c) \/ Publish(c)
    <3>1. step[c] # "none"
      BY <2>2 DEF Hash, CacheOff, Hit, Miss, ModuleDue, Write, Publish, Cuts
    <3> QED BY <2>2, <3>1, CacheHidden
  <2> QED BY <1>2, <2>1, <2>2 DEF Compile
<1>3. CASE UNCHANGED allvars
  BY <1>3 DEF allvars, Promise!vars
<1> QED BY <1>1, <1>2, <1>3 DEF CacheNext

(* The cache does not show (main.c:411): every compile links what it would *)
(* have lowered itself, and fails only where it would have failed, for any *)
(* number of compiles, modules and contents, under the four conditions     *)
(* together; the runs show that none of them can be left out.              *)
THEOREM Transparent ==
  ASSUME Quiet, Own = {}, ~DiskMayFill, Writable
  PROVE  CacheSpec => CacheTransparent
<1>1. CacheInit => Promise!Init
  <2> SUFFICES ASSUME CacheInit PROVE Promise!Init
    OBVIOUS
  <2>1. Shown = [c \in Compilers |-> <<>>]
    BY DEF CacheInit, Init, Shown
  <2> QED BY <2>1 DEF CacheInit, Init, Shown, Promise!Init, Promise!Inputs, Inputs, Promise!Contents,
                      Contents, Promise!Builtin, Builtin
<1>2. IInv /\ [CacheNext]_allvars => [Promise!Next]_Promise!vars
  BY StepShows DEF Alone
<1> QED BY <1>1, <1>2, Invariance, PTL DEF CacheSpec, CacheTransparent, Promise!Spec
=============================================================================
