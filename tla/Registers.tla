------------------------------ MODULE Registers ------------------------------
(***************************************************************************)
(* The integer registers of arm64, src/reg_arm64.c: those that values can  *)
(* live in, those that a call does not preserve, and two scratch registers *)
(* that are no value's home.                                               *)
(***************************************************************************)
EXTENDS Integers, SequencesExt

CONSTANTS
  Palette,     \* the registers of the class, in the order of their colours
  CallerSaved  \* the registers that a call does not preserve

Registers == 0 .. 28
X0   == 0      \* the first argument, and the result
SCR0 == 16
SCR1 == 17

(* A colour is a place in Palette.                                         *)
Colours == DOMAIN Palette
CallerColours == {c \in Colours : Palette[c] \in CallerSaved}

(* The scratch registers and those of the arguments, x0 to x7, are the     *)
(* callee's to use.                                                        *)
ASSUME RegistersAssumption ==
  /\ Palette \in Seq(Registers \ {SCR0, SCR1}) /\ IsInjective(Palette)
  /\ CallerSaved \subseteq Registers
  /\ X0 .. X0 + 7 \subseteq CallerSaved /\ SCR0 \in CallerSaved /\ SCR1 \in CallerSaved
=============================================================================
