--------------------------- MODULE MCThreadsWindows ---------------------------
(* Three descriptors and a table of two entries: main and a thread it has  *)
(* started can search the table at the same time, and it can be full.      *)
EXTENDS ThreadsWindows

CONSTANTS main, s1, s2, s3, v1

MCSlots     == {s1, s2, s3}
MCMayCreate == {<<main, s1>>, <<main, s2>>, <<s1, s3>>}
MCMayJoin   == {<<main, s1>>, <<main, s2>>, <<s1, s2>>}
=============================================================================
