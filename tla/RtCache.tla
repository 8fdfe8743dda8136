------------------------------- MODULE RtCache -------------------------------
(***************************************************************************)
(* The compile cache of src/main.c for the builtin runtime, with emit_obj  *)
(* and emit_obj_read of src/emit.c as far as they matter to it.            *)
(*                                                                         *)
(* Each compile reads the runtime's sources, compiles the user's modules,  *)
(* then reads compiler and sources again for the key of a cache directory, *)
(* and then for every runtime module takes the object file it finds there  *)
(* or lowers the module and publishes it.  Compiles of any number of       *)
(* processes interleave with each other, with edits of the inputs and with *)
(* being killed.  tmpnam gives every process scratch names of its own      *)
(* (one machine), so a scratch file is seen by its writer only.            *)
(***************************************************************************)
EXTENDS RtCompile

CONSTANTS
  NoKey,        \* the cache is off for this compile
  Quiet,        \* inputs are not edited while some compile reads them
  DiskMayFill,  \* a write may be cut short
  Writable      \* the cache directory can be made and written

ASSUME RtCacheAssumption ==
  /\ Quiet \in BOOLEAN /\ DiskMayFill \in BOOLEAN /\ Writable \in BOOLEAN
  /\ NoKey \notin Seq(Contents)

VARIABLES
  cache,  \* the objects published, each with its place: flags and key name the
          \* directory, the module's number the file
  key,    \* key[c]: the inputs hashed so far
  step    \* step[c]: what phase "compile" is at

allvars == <<disk, found, phase, flags, captured, linked, cache, key, step>>

(* How much of an object was written.  emit_obj_read refuses a stub, with  *)
(* less than an ELF header; one cut further on it takes, whatever follows. *)
Cuts    == {"whole", "cut", "stub"}
Objects == [module : Modules, from : Seq(Contents), flags : Flags, cut : Cuts]
Entries == [place : [flags : Flags, key : Seq(Contents), module : Modules], object : Objects]

Due(c)   == Len(linked[c]) + 1
Place(c) == [flags |-> flags[c], key |-> key[c], module |-> Due(c)]
Mine(c)  == Lowered(Due(c), captured[c], flags[c])

(* cache with the due module of c published, as much of it as w says.      *)
Stored(c, w) ==
  {e \in cache : e.place # Place(c)}
    \union {[place |-> Place(c), object |-> Object(Due(c), captured[c], flags[c], w)]}

Goes(c, s) == step' = [step EXCEPT ![c] = s]
Ends(c, p) == phase' = [phase EXCEPT ![c] = p] /\ Goes(c, "none")

-----------------------------------------------------------------------------
Reading(c) == phase[c] = "parse" \/ step[c] = "hash"

EditInput ==
  /\ Quiet => \A c \in Compilers : ~Reading(c)
  /\ Edit
  /\ UNCHANGED <<cache, key, step>>

StartCompile(c) ==
  /\ Start(c)
  /\ key' = [key EXCEPT ![c] = <<>>]
  /\ UNCHANGED <<cache, step>>

(* list_c_files and lex of the preloaded package.                          *)
Parse(c) ==
  /\ Read(c)
  /\ step' = [step EXCEPT ![c] = IF phase'[c] = "compile" THEN "hash" ELSE "none"]
  /\ UNCHANGED <<cache, key>>

(* Mutant of Hash: the names of the sources are hashed, not their contents.*)
HashNames(c) ==
  /\ step[c] = "hash"
  /\ key' = [key EXCEPT ![c] = [i \in 1 .. NModules + 1 |-> Unreadable]]
  /\ Goes(c, "module")
  /\ UNCHANGED <<disk, found, phase, flags, captured, linked, cache>>

(* rt_cache_key hashes the sources in rt_dir, whichever were parsed;       *)
(* rt_hash_file of one that cannot be opened just adds nothing.            *)
Hash(c) ==
  /\ step[c] = "hash" /\ (key[c] = <<>> => disk[0] # Unreadable)
  /\ key' = [key EXCEPT ![c] = Append(@, disk[Len(@)])]
  /\ Goes(c, IF Len(key[c]) = NModules THEN "module" ELSE "hash")
  /\ UNCHANGED <<disk, found, phase, flags, captured, linked, cache>>

(* FAKECC_RTCACHE=0, no HOME, or argv[0] does not lead to the binary.      *)
CacheOff(c) ==
  /\ step[c] = "hash" /\ key[c] = <<>>
  /\ key' = [key EXCEPT ![c] = NoKey]
  /\ Goes(c, "module")
  /\ UNCHANGED <<disk, found, phase, flags, captured, linked, cache>>

(* Mutant of ModuleDue: the loop over the modules goes one too far.        *)
ModuleDueOneMore(c) == step[c] = "module" /\ Due(c) <= NModules + 1

ModuleDue(c) == step[c] = "module" /\ Due(c) \in Modules

(* Mutant of Readable: the options are no part of the key.                 *)
ReadableAnyFlags(c) ==
  {e.object : e \in {x \in cache : /\ x.place.key = key[c] /\ x.place.module = Due(c)
                                   /\ x.object.cut # "stub"}}

Readable(c) ==
  {e.object : e \in {x \in cache : x.place = Place(c) /\ x.object.cut # "stub"}}

Hit(c) ==
  /\ ModuleDue(c)
  /\ \E o \in Readable(c) : linked' = [linked EXCEPT ![c] = Append(@, o)]
  /\ UNCHANGED <<disk, found, phase, flags, captured, cache, key, step>>

(* lower_tu; what is linked is the module in memory.                       *)
Miss(c) ==
  /\ ModuleDue(c) /\ Readable(c) = {}
  /\ IF key[c] = NoKey
     THEN linked' = [linked EXCEPT ![c] = Append(@, Mine(c))] /\ UNCHANGED step
     ELSE Goes(c, "write") /\ UNCHANGED linked
  /\ UNCHANGED <<disk, found, phase, flags, captured, cache, key>>

(* Mutant of Write: no scratch file, the object is written in place.       *)
WriteInPlace(c) ==
  /\ step[c] = "write"
  /\ cache' = Stored(c, "cut")
  /\ Goes(c, "whole")
  /\ UNCHANGED <<disk, found, phase, flags, captured, linked, key>>

(* emit_obj to the scratch file: exit(1) when it cannot be opened, fwrite  *)
(* and fclose unchecked.  step is the length that was written.             *)
Write(c) ==
  /\ step[c] = "write"
  /\ IF Writable
     THEN /\ \E w \in IF DiskMayFill THEN Cuts ELSE {"whole"} : Goes(c, w)
          /\ UNCHANGED phase
     ELSE Ends(c, "failed")
  /\ UNCHANGED <<disk, found, flags, captured, linked, cache, key>>

(* rename, or remove when it fails.                                        *)
Publish(c) ==
  /\ step[c] \in Cuts
  /\ \/ cache' = Stored(c, step[c])
     \/ UNCHANGED cache
  /\ linked' = [linked EXCEPT ![c] = Append(@, Mine(c))]
  /\ Goes(c, "module")
  /\ UNCHANGED <<disk, found, phase, flags, captured, key>>

Finish(c) ==
  /\ step[c] = "module" /\ Len(linked[c]) = NModules
  /\ Ends(c, "done")
  /\ UNCHANGED <<disk, found, flags, captured, linked, cache, key>>

(* A compile may be killed anywhere; what it has published stays.          *)
Killed(c) ==
  /\ phase[c] \in {"parse", "compile"}
  /\ Ends(c, "idle")
  /\ captured' = [captured EXCEPT ![c] = <<>>]
  /\ linked' = [linked EXCEPT ![c] = <<>>]
  /\ key' = [key EXCEPT ![c] = <<>>]
  /\ UNCHANGED <<disk, found, flags, cache>>

-----------------------------------------------------------------------------
CacheInit ==
  /\ Init
  /\ cache = {}
  /\ key = [c \in Compilers |-> <<>>]
  /\ step = [c \in Compilers |-> "none"]

Compile(c) ==
  \/ StartCompile(c) \/ Parse(c) \/ Hash(c) \/ CacheOff(c) \/ Hit(c) \/ Miss(c)
  \/ Write(c) \/ Publish(c) \/ Finish(c) \/ Killed(c)

CacheNext == EditInput \/ \E c \in Compilers : Compile(c)

CacheSpec == CacheInit /\ [][CacheNext]_allvars

-----------------------------------------------------------------------------
CacheTypeOK ==
  /\ disk \in [Inputs -> Contents]
  /\ found \in [Compilers -> Own \union {Builtin}]
  /\ phase \in [Compilers -> {"idle", "parse", "compile", "done", "failed"}]
  /\ step \in [Compilers -> {"none", "hash", "module", "write"} \union Cuts]
  /\ \A c \in Compilers : step[c] # "none" <=> phase[c] = "compile"
  /\ flags \in [Compilers -> Flags]
  /\ captured \in [Compilers -> Seq(Contents)]
  /\ key \in [Compilers -> Seq(Contents) \union {NoKey}]
  /\ linked \in [Compilers -> Seq(Objects)]
  /\ \A c \in Compilers : Len(linked[c]) <= NModules
  /\ cache \in SUBSET Entries

(* main.c:418: the key covers all that can change the bytes: an object in  *)
(* the cache was lowered from the inputs, by the compiler and with the     *)
(* options that its directory's key names.                                 *)
KeyCoversInputs ==
  \A e \in cache :
    e.object = Object(e.place.module, e.place.key, e.place.flags, e.object.cut)

(* main.c:1258: no compile reads back an object that is half written.      *)
NothingHalfWritten ==
  \A c \in Compilers : \A f \in DOMAIN linked[c] : linked[c][f].cut = "whole"

(* The cache does not show: the compiles link what they would without it.  *)
Promise ==
  INSTANCE RtCompile WITH
    linked <- [c \in Compilers |-> IF phase[c] = "done" THEN linked[c] ELSE <<>>]
CacheTransparent == Promise!Spec
=============================================================================
