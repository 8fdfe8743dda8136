------------------------------ MODULE MCLinker ------------------------------
(* Three modules that define or refer to a name x, beside a name y that     *)
(* the first module defines, so that what is found by name can be the wrong *)
(* one.  Objects, functions and thread-locals are not mixed.  The last      *)
(* module defines main; where only the first module has references, main    *)
(* is also left out, weak or undefined.                                     *)
EXTENDS Linker, FiniteSets

Sym(nm, bind, section, type) == [name |-> nm, bind |-> bind, section |-> section, type |-> type]

Defs(category) ==
  CASE category = "func" -> {Sym("x", b, "text", "func") : b \in {"local", "global", "weak"}}
                            \cup {Sym("x", "global", "undef", t) : t \in {"none", "func"}}
    [] category = "object" -> {Sym("x", b, "data", "object") : b \in {"local", "global", "weak"}}
                            \cup {Sym("x", "global", "common", "object")}
                            \cup {Sym("x", "global", "undef", t) : t \in {"none", "object"}}
    [] category = "tls" -> {Sym("x", b, "tls", "tls") : b \in {"local", "global", "weak"}}
                            \cup {Sym("x", "global", "undef", "tls")}

Kinds(category, s) ==
  CASE category = "func" -> {"call", "pc", "abs"} \cup (IF s.bind = "local" THEN {} ELSE {"got"})
    [] category = "object" -> {"pc", "abs"} \cup (IF s.bind = "local" THEN {} ELSE {"got"})
    [] category = "tls" -> {"ie", "le"}

Other(category) ==
  CASE category = "func" -> Sym("y", "global", "text", "func")
    [] category = "object" -> Sym("y", "global", "data", "object")
    [] category = "tls" -> Sym("y", "global", "tls", "tls")

Categories == {"func", "object", "tls"}

\* What a module says of x, and how it refers to it: at most n ways.
Uses(c, n) == {u \in Defs(c) \X SUBSET {"call", "pc", "got", "abs", "ie", "le"} :
                 u[2] \subseteq Kinds(c, u[1]) /\ Cardinality(u[2]) <= n}
AllUses(n) == UNION {{<<c, u[1], u[2]>> : u \in Uses(c, n)} : c \in Categories}

Strong(s) == s.section \notin {"undef", "common"} /\ s.bind = "global"

Triples == {t \in AllUses(2) \X AllUses(1) \X AllUses(1) :
              /\ t[1][1] = t[2][1] /\ t[2][1] = t[3][1]
              /\ Cardinality({i \in 1..3 : Strong(t[i][2])}) <= 1}

MainSym(bind, section) == Sym("main", bind, section, "func")
Mains == {<<MainSym("global", "text")>>, <<>>, <<MainSym("weak", "text")>>, <<MainSym("global", "undef")>>}
HasMain(m) == m # <<>> /\ Strong(m[1])

\* The references to y are those to x, so that the two names compete for slots.
Shape(sh, lib, t, m) ==
  [shared |-> sh,
   symbols |-> <<Other(t[1][1]), t[1][2], t[2][2], t[3][2]>> \o m,
   refs |-> {[sym |-> g, kind |-> k] : g \in {1, 2}, k \in t[1][3]} \cup {[sym |-> 3, kind |-> k] : k \in t[2][3]}
           \cup {[sym |-> 4, kind |-> k] : k \in t[3][3]},
   libs |-> [x |-> IF lib THEN t[1][1] ELSE "none", y |-> "none", main |-> "none"]]

Modules == {u \in Triples \X Mains : HasMain(u[2]) \/ u[1][2][3] \cup u[1][3][3] = {}}

MCPrograms == {Shape(sh, lib, u[1], u[2]) : sh \in BOOLEAN, lib \in BOOLEAN, u \in Modules}
=============================================================================
