------------------------------ MODULE MCStreams ------------------------------
(* Two FILEs, a table of one entry, buffers of two bytes: the second file  *)
(* opened is not in the table, and a flush can fail with one byte written. *)
(* Standard output can be closed or sent to a file.                        *)
EXTENDS Streams

CONSTANTS f1, f2

MCFiles    == {f1, f2}
MCPaths    == {"out", "err", "p", "q"}
MCInitial  == [p \in MCPaths |-> IF p = "p" THEN <<"b">> ELSE <<>>]
MCMaxLen   == [p \in MCPaths |-> IF p = "p" THEN 3 ELSE 1]
MCMayClose == {f1, Stdout}
MCMayPut   == {<<Stdout, "n">>, <<Stdout, "a">>, <<f1, "a">>, <<f2, "a">>}

Opens(s, p, r, w, t, a) ==
  [stream |-> s, path |-> p, mode |-> [read |-> r, write |-> w, trunc |-> t, append |-> a]]

MCMayOpen ==
  {Opens(f1, "p", TRUE, TRUE, FALSE, FALSE), Opens(f1, "p", TRUE, TRUE, TRUE, FALSE),
   Opens(f2, "q", FALSE, TRUE, FALSE, TRUE), Opens(Stdout, "q", FALSE, TRUE, FALSE, TRUE)}

(* What the next call does does not depend on what the last one returned.  *)
NoResult == <<file, closed, tracked, kernel, damaged, exited, errors>>
==============================================================================
