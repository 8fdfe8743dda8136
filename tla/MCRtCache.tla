------------------------------ MODULE MCRtCache ------------------------------
(* The first of two runtime modules is edited back and forth and may be     *)
(* unreadable for a while.                                                  *)
EXTENDS RtCache, TLC

CONSTANTS old, new, c1, c2

MCVersions == <<{old, new, Unreadable}, {old}>> @@ (0 :> {old})
MCOwn      == {<<new, new>>}
MCSymmetry == Permutations({c1, c2})
=============================================================================
