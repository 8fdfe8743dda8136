------------------------------ MODULE Programs -------------------------------
(***************************************************************************)
(* Functions for the models of the compiler, assembled the way ir.c lays   *)
(* them out: the parameters, the slots, then the blocks, each with its     *)
(* label.  X is a variable of the source, Y a temporary of the compiler,   *)
(* P and Q are more of them, or are pinned.                                *)
(***************************************************************************)
EXTENDS IR

X == 0
Y == 1
P == 2
Q == 3

FirstParam == 4    \* the ids of the parameters' values
FirstValue == 12   \* of the values that the statements compute, 5 each
Literal    == -1   \* an argument that is a constant

Argument(slot, v) == IF slot = Literal THEN Const(v, 1) ELSE Load(v, slot)

Apply(slots, s, v) ==
  LET args == [n \in DOMAIN slots |-> v + n - 1]
  IN  [n \in DOMAIN slots |-> Argument(slots[n], v + n - 1)]
      \o (IF s = None THEN <<Call(None, args)>> ELSE <<Call(v + 4, args), Store(s, v + 4)>>)

(* A call with two constants before the variables.                         *)
Permute(slots, v) ==
  [n \in DOMAIN slots |-> Load(v + n - 1, slots[n])]
  \o <<Const(v + 4, 1), Call(None, <<v + 4, v + 4>> \o [n \in DOMAIN slots |-> v + n - 1])>>

(* Statements; v to v + 4 are fresh values.                                *)
Code(stmt, v) ==
  LET s == stmt[2]
      t == stmt[3]
  IN  CASE stmt[1] = "set"    -> <<Call(v, <<>>), Store(s, v)>>
        [] stmt[1] = "init"   -> <<Store(s, FirstParam + t - 1)>>
        [] stmt[1] = "use"    -> <<Load(v, s), Call(None, <<v>>)>>
        [] stmt[1] = "apply"  -> Apply(t, s, v)
        [] stmt[1] = "permute" -> Permute(t, v)
        [] stmt[1] = "unused" -> <<Load(v, s)>>
        [] stmt[1] = "move"   -> <<Load(v, s), Store(t, v)>>
        [] stmt[1] = "swap"   -> <<Load(v, s), Load(v + 1, t), Store(s, v + 1), Store(t, v)>>
        [] stmt[1] = "addr"   -> <<Addr(v, s), Call(None, <<v>>)>>
        [] stmt[1] = "twice"  -> <<Addr(v, s), Call(None, <<v>>), Call(None, <<v>>)>>
        [] stmt[1] = "label"  -> <<Label(s)>>
        [] stmt[1] = "ret"    -> <<Load(v, s), Return(v)>>
        [] stmt[1] = "goto"   -> <<Br(s)>>
        [] stmt[1] = "if"     -> <<Call(v, <<>>), Cbr(v, s, t)>>
        [] stmt[1] = "while"  -> <<Load(v, X), Cbr(v, s, t)>>
        [] stmt[1] = "switch" -> <<Call(v, <<>>), Table(v, s, <<t>>)>>
        [] stmt[1] = "select" -> <<Load(v, X), Table(v, s, t)>>
        [] stmt[1] = "jump"   -> <<Call(v, <<>>), JmpPtr(v)>>

Use(s)     == <<"use", s, s>>
Set(s)     == <<"set", s, s>>
Move(s, t) == <<"move", s, t>>
Ret(s)     == <<"ret", s, s>>
Goto(l)    == <<"goto", l, l>>
If(l, m)   == <<"if", l, m>>
CallWith(slots)  == <<"apply", None, slots>>
Permuted(slots)  == <<"permute", None, slots>>
Assign(s, slots) == <<"apply", s, slots>>

Params(n) == [k \in 1 .. n |-> Param(FirstParam + k - 1, k)]

FnOf(n, slots, stmts) ==
  [insts |-> Params(n) \o slots
             \o FlattenSeq([k \in DOMAIN stmts |-> Code(stmts[k], FirstValue + 5 * (k - 1))]),
   next  |-> FirstValue + 5 * Len(stmts),
   vars  |-> <<X>>]

Fn(slots, stmts) == FnOf(0, slots, stmts)

(* Blocks 1, 2, 3 with their labels, after a prologue.                     *)
Blocks3Of(n, slots, prologue, body, term) ==
  FnOf(n, slots, prologue \o FlattenSeq(
    [k \in 1 .. 3 |-> <<<<"label", k, k>>>> \o body[k] \o term[k]]))

Blocks3(slots, prologue, body, term) == Blocks3Of(0, slots, prologue, body, term)
=============================================================================
