------------------------------ MODULE RtCompile ------------------------------
(***************************************************************************)
(* What src/main.c promises of the runtime that is linked into a program,  *)
(* compile cache or not: the modules lowered, with the flags of this       *)
(* compile, from the inputs it read: input 0 is the compiler's own binary, *)
(* input f the source of runtime module f, in the first directory runtime  *)
(* on the package search path.  Nothing but an input that cannot be read   *)
(* makes a compile fail.                                                   *)
(***************************************************************************)
EXTENDS Naturals, Sequences

CONSTANTS
  Compilers,   \* the processes of the compiler
  NModules,    \* how many modules the runtime has
  Versions,    \* Versions[i]: what input i may hold in the course of time
  Unreadable,  \* what it holds when it cannot be opened
  Flags,       \* the options of a compile
  Own          \* runtimes found in FAKECC_PKG, before the builtin one

ASSUME RtCompileAssumption ==
  /\ NModules \in Nat \ {0} /\ DOMAIN Versions = 0 .. NModules
  /\ Own \subseteq [1 .. NModules -> UNION {Versions[i] : i \in 0 .. NModules}]

VARIABLES
  disk,      \* disk[i]: what input i holds now, in rt_dir when i > 0
  found,     \* found[c]: the runtime package that compile c parses
  phase,     \* phase[c]: of compile c
  flags,     \* flags[c]: its options
  captured,  \* captured[c]: the inputs it has read, in order
  linked     \* linked[c]: the runtime modules it links

vars == <<disk, found, phase, flags, captured, linked>>

Inputs   == 0 .. NModules
Modules  == 1 .. NModules
Contents == UNION {Versions[i] : i \in Inputs}
Builtin  == <<>>

(* The object file that a compile of these inputs makes of module f, with  *)
(* how much of it was written.                                             *)
Object(f, inputs, fl, w) == [module |-> f, from |-> inputs, flags |-> fl, cut |-> w]
Lowered(f, inputs, fl)   == Object(f, inputs, fl, "whole")

Edit ==
  /\ \E i \in Inputs : \E v \in Versions[i] : disk' = [disk EXCEPT ![i] = v]
  /\ UNCHANGED <<found, phase, flags, captured, linked>>

Start(c) ==
  /\ phase[c] \notin {"parse", "compile"} /\ disk[0] # Unreadable
  /\ \E fl \in Flags : flags' = [flags EXCEPT ![c] = fl]
  /\ \E o \in Own \union {Builtin} : found' = [found EXCEPT ![c] = o]
  /\ captured' = [captured EXCEPT ![c] = <<disk[0]>>]
  /\ linked' = [linked EXCEPT ![c] = <<>>]
  /\ phase' = [phase EXCEPT ![c] = "parse"]
  /\ UNCHANGED disk

(* The next module's source, when Len(captured[c]) inputs have been read.  *)
Source(c) == IF found[c] = Builtin THEN disk[Len(captured[c])]
             ELSE found[c][Len(captured[c])]

Read(c) ==
  /\ phase[c] = "parse"
  /\ IF Source(c) = Unreadable
     THEN phase' = [phase EXCEPT ![c] = "failed"] /\ UNCHANGED captured
     ELSE /\ captured' = [captured EXCEPT ![c] = Append(@, Source(c))]
          /\ phase' = [phase EXCEPT ![c] = IF Len(captured[c]) = NModules
                                          THEN "compile" ELSE "parse"]
  /\ UNCHANGED <<disk, found, flags, linked>>

Link(c) ==
  /\ phase[c] = "compile"
  /\ linked' = [linked EXCEPT ![c] = [f \in Modules |-> Lowered(f, captured[c], flags[c])]]
  /\ phase' = [phase EXCEPT ![c] = "done"]
  /\ UNCHANGED <<disk, found, flags, captured>>

Kill(c) ==
  /\ phase[c] \in {"parse", "compile"}
  /\ phase' = [phase EXCEPT ![c] = "idle"]
  /\ captured' = [captured EXCEPT ![c] = <<>>]
  /\ UNCHANGED <<disk, found, flags, linked>>

Init ==
  /\ disk \in [Inputs -> Contents]
  /\ found = [c \in Compilers |-> Builtin]
  /\ \A i \in Inputs : disk[i] \in Versions[i]
  /\ phase = [c \in Compilers |-> "idle"]
  /\ flags \in [Compilers -> Flags]
  /\ captured = [c \in Compilers |-> <<>>]
  /\ linked = [c \in Compilers |-> <<>>]

Next == Edit \/ \E c \in Compilers : Start(c) \/ Read(c) \/ Link(c) \/ Kill(c)

Spec == Init /\ [][Next]_vars
=============================================================================
