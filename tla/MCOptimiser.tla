----------------------------- MODULE MCOptimiser -----------------------------
(***************************************************************************)
(* Functions for the optimiser: P is pinned by its size and Q because its  *)
(* address is taken.                                                       *)
(***************************************************************************)
EXTENDS Optimiser, Programs

Scalars == <<Alloca(X, 0), Alloca(Y, 0)>>

Jumps == {<<>>, <<Ret(X)>>, <<If(1, 2)>>, <<If(2, 3)>>, <<If(3, 1)>>, <<Goto(2)>>, <<Goto(3)>>}
Lasts == {<<Ret(X)>>, <<If(1, 2)>>, <<Goto(1)>>, <<Goto(2)>>}
Ends  == {t \in [1 .. 3 -> Jumps \union Lasts] : t[1] \in Jumps /\ t[2] \in Jumps /\ t[3] \in Lasts}

(* One variable, set to begin with, and the control flows of three blocks  *)
(* that Jumps and Lasts make, entered at the first.                        *)
OneVariable ==
  {Blocks3(Scalars, <<Set(X)>>, body, term) :
     body \in [1 .. 3 -> {<<>>, <<Use(X), Set(X)>>}], term \in Ends}

Uninitialised ==
  {Blocks3(Scalars, <<>>, body, term) :
     body \in [1 .. 3 -> {<<>>, <<Set(X)>>}], term \in {t \in Ends : t[3] = <<Ret(X)>>}}

(* Entered at the second or the third block, so that loops have two heads. *)
Irreducible ==
  {Blocks3(Scalars, <<Set(X), enter>>, body, term) :
     enter \in {If(2, 3), <<"switch", 3, 2>>},
     body \in [1 .. 3 -> {<<>>, <<Use(X), Set(X)>>}],
     term \in {t \in Ends : t[1] = <<Ret(X)>>}}

(* A variable and a temporary that trade values around a loop.             *)
TwoVariables ==
  {Blocks3(Scalars, <<Set(X), Set(Y)>>, body, <<<<If(2, 3)>>, <<latch>>, <<Use(Y), Ret(X)>>>>) :
     body \in [1 .. 3 -> {<<>>, <<<<"swap", X, Y>>>>, <<Use(Y), Move(X, Y)>>,
                         <<Set(X), <<"unused", Y, Y>>>>}],
     latch \in {Goto(1), <<"while", 1, 2>>, <<"while", 2, 3>>, Goto(3)}}

(* Slots that stay in memory: an array-like one among promoted ones, one   *)
(* whose address is taken, and all of them under a computed goto.          *)
Pinning ==
  {Blocks3(<<Alloca(X, 0), Alloca(P, 8), Alloca(Q, 0)>>,
           <<Set(X), <<"addr", Q, Q>>, Set(P), Set(Q)>>,
           body, <<<<If(2, 3)>>, <<Goto(1)>>, <<Use(Q), Use(X), Ret(P)>>>>) :
     body \in [1 .. 3 -> {<<>>, <<<<"swap", P, X>>>>, <<Move(Q, X), Set(Q)>>}]}
  \union
  {Blocks3(<<Alloca(X, 8)>>, <<Set(X)>>, body,
           <<<<<<"jump", X, X>>>>, <<<<"jump", X, X>>>>, <<Ret(X)>>>>) :
     body \in [1 .. 3 -> {<<>>, <<Use(X), Set(X)>>}]}

MCFunctions == OneVariable \union Uninitialised \union Irreducible
               \union TwoVariables \union Pinning
=============================================================================
