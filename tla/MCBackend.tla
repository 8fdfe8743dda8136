------------------------------ MODULE MCBackend ------------------------------
(***************************************************************************)
(* Functions for the back end, and a palette so small that values must be  *)
(* spilled: four registers that a call does not preserve and one that it   *)
(* does.                                                                   *)
(***************************************************************************)
EXTENDS Backend, Programs

MCPalette     == <<2, 3, 4, 5, 19>>
MCCallerSaved == 0 .. 18

(* The last k of the four variables are kept in memory.                    *)
Slots(k) == [n \in 1 .. 4 |-> Alloca(n - 1, IF n > 4 - k THEN 8 ELSE 0)]

Init4(order) == [n \in 1 .. 4 |-> <<"init", n - 1, order[n]>>]

Steps == {Permuted(<<X, Y, P, Q>>), Permuted(<<Q, P, Y, X>>), CallWith(<<X, Y, P, Q>>), Use(P),
          Move(X, P), <<"swap", X, Y>>, Assign(X, <<P, Q>>), <<"twice", Q, Q>>}

(* Six parameters, of which four are used, and two steps, among them calls *)
(* with the variables in different orders.                                 *)
Orders == {<<1, 2, 3, 4>>, <<4, 3, 2, 1>>, <<3, 4, 5, 6>>}

Calls ==
  {FnOf(6, Slots(k), Init4(order) \o <<first, second, Set(X), Ret(X)>>) :
     order \in Orders, k \in 0 .. 4, first \in Steps, second \in Steps}

(* Values that live around a loop and over calls.                          *)
Loops ==
  {Blocks3Of(2, Slots(0),
     <<<<"init", X, 1>>, <<"init", Y, 2>>, Set(P), Set(Q)>>, body,
     <<<<If(2, 3)>>, <<latch>>, <<Use(Y), Use(P), Ret(X)>>>>) :
     body \in [1 .. 3 -> {<<Set(X), Use(Q)>>, <<CallWith(<<X, Y, P, Q>>)>>,
                          <<<<"swap", X, P>>>>, <<Assign(Y, <<P, Q>>)>>}],
     latch \in {Goto(1), <<"while", 1, 3>>}}

(* A switch, and a computed goto, around pinned variables.  *)
Branches ==
  {Blocks3Of(2, Slots(4), <<Set(X), <<"init", Y, 2>>, branch>>, body,
     <<<<Goto(3)>>, <<If(2, 3)>>, <<Ret(X)>>>>) :
     branch \in {<<"select", 3, <<1, 2>>>>, <<"select", 1, <<2>>>>, <<"jump", X, X>>},
     body \in [1 .. 3 -> {<<>>, <<Use(X)>>, <<Set(X), Use(Y)>>}]}

(* switch (X) in a function that also needs Y, more often, over the calls. *)
TableFunctions ==
  {Blocks3(Slots(0), <<Set(X), Set(Y), Use(Y), <<"select", 3, <<1, 2>>>>>>,
           <<<<Use(Y)>>, <<Use(Y), Use(Y)>>, <<>>>>, <<<<Goto(3)>>, <<Goto(3)>>, <<Ret(Y)>>>>)}

MCFunctions == Calls \union Loops \union Branches
=============================================================================
