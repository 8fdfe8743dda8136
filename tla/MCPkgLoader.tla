----------------------------- MODULE MCPkgLoader -----------------------------
(* Two packages p and q, r the runtime.  Programs with flawed files:        *)
(* directories of up to two files, any of which may be misnamed, fail to    *)
(* lex or fail to parse.  Sound programs: three packages, all import lists  *)
(* of up to two distinct packages, so all import graphs among them.         *)
EXTENDS PkgLoader

CONSTANTS p, q, r

Sound(d, is) == [decl |-> d, imports |-> is, lexes |-> TRUE, parses |-> TRUE]

Flawed(d, o) ==
  {[Sound(d, <<>>) EXCEPT !.lexes = FALSE], [Sound(d, <<o>>) EXCEPT !.parses = FALSE],
   Sound(o, <<>>), Sound(NoName, <<>>)}

UpToTwo(S) == {<<>>} \union {<<a>> : a \in S} \union {<<a, b>> : a, b \in S}

PkgDirs(d, o) ==
  UpToTwo({Sound(d, <<>>), Sound(d, <<o>>)} \union Flawed(d, o))

MCFlawed ==
  {[std |-> FALSE, inputs |-> ins, dirs |-> (p :> dp @@ q :> dq @@ r :> <<>>)] :
     ins \in {<<Sound(p, <<q>>)>>, <<Sound(r, <<p>>), Sound(r, <<q>>)>>,
              <<[Sound(r, <<q, p>>) EXCEPT !.parses = FALSE]>>},
     dp \in PkgDirs(p, q), dq \in PkgDirs(q, p)}

Lists == {<<>>, <<p>>, <<q>>, <<r>>, <<p, q>>, <<q, r>>, <<r, p>>, <<p, p>>}

RuntimeDirs == {<<Sound(r, <<>>)>>, <<Sound(r, <<p>>)>>, <<Sound(r, <<q>>), Sound(r, <<p>>)>>}

MCSound ==
  {[std |-> sd[1], inputs |-> <<Sound(r, i)>>,
    dirs |-> (p :> <<Sound(p, a)>> @@ q :> <<Sound(q, b)>> @@ r :> sd[2])] :
     sd \in ({TRUE} \X RuntimeDirs) \union ({FALSE} \X {<<>>, <<Sound(r, <<p>>)>>}),
     i \in Lists, a \in Lists, b \in Lists}

MCPrograms == MCFlawed \union MCSound
=============================================================================
