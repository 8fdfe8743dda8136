---------------------------- MODULE MCThreadsLinux ----------------------------
(* Two stack addresses, three creations: at least one address is used twice. *)
EXTENDS ThreadsLinux

CONSTANTS main, s1, s2, v1

MCSlots   == {s1, s2}
MCMayJoin == {<<main, s1>>, <<main, s2>>, <<s1, s2>>}
=============================================================================
