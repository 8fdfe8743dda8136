---------------------------- MODULE ThreadsWindows ----------------------------
(***************************************************************************)
(* runtime/thread_windows.c: pthread_create, pthread_join, pthread_exit,   *)
(* the trampoline and the table of live threads, over CreateThread,        *)
(* WaitForSingleObject, CloseHandle and VirtualAlloc.                      *)
(*                                                                         *)
(* The table, `joined` and `handle` are plain words that several threads   *)
(* read and write.  Four uses of the interface run into that, and the      *)
(* variable `windows` remembers which of them has happened:                *)
(*   overlap    two creations searched the table at the same time          *)
(*   early      a thread was joined, by the handle pthread_self gave it,   *)
(*              before its creator had stored the kernel's handle          *)
(*   contended  two threads joined one thread at the same time             *)
(*   stale      an old handle was still being joined when a creation got   *)
(*              its address again                                          *)
(*                                                                         *)
(* A slot is an address VirtualAlloc may return for a descriptor.  It is   *)
(* reused once it is free, the thread that had it has ended and its kernel *)
(* handle is closed.                                                       *)
(***************************************************************************)
EXTENDS Naturals, FiniteSets

CONSTANTS
  Slots,      \* the addresses of descriptors
  Main,       \* the thread the process starts with
  Values,     \* what a thread may return
  NoValue,    \* t->retval before the thread returns
  Entries,    \* the length of __fakecc_threads (4096 in the code)
  MayCreate,  \* where a creation may be placed, as pairs <<creator, slot>>
  MayJoin,    \* the joins the program may make, as pairs <<joiner, joined>>
  MaxCreates  \* bound on the number of threads started

ASSUME WinThreadsAssumption ==
  /\ Slots # {}
  /\ Main \notin Slots
  /\ NoValue \notin Values
  /\ Entries \in Nat
  /\ MayCreate \subseteq ({Main} \union Slots) \X Slots
  /\ MayJoin \subseteq ({Main} \union Slots) \X Slots
  /\ MaxCreates \in Nat

Actors == {Main} \union Slots
Index  == 1 .. Entries

VARIABLES
  pc,        \* where each actor is
  target,    \* the descriptor an actor creates or joins
  at,        \* the entry of the table an actor has reached
  table,     \* __fakecc_threads, by entry: the descriptors in it, one or none
  mapped,    \* the descriptors VirtualAlloc has handed out
  joined,    \* the descriptors' fields, by slot
  handle,    \* t->handle is not 0
  retval,
  open,      \* the threads whose kernel handle is open
  known,     \* the threads whose handle the program has
  returned,  \* what the thread of each slot returned
  got,       \* what the last join of each slot delivered
  windows,   \* the races that have been run into
  created    \* how many times CreateThread succeeded

desc    == <<joined, handle, retval>>
history == <<returned, got, windows, created>>
vars    == <<pc, target, at, table, mapped, desc, open, known, history>>

CreateOps == {"search", "claim", "start", "store", "drop", "unclaim", "discard"}
JoinOps   == {"tracked", "check", "mark", "handle", "wait", "close", "collect",
              "untrack", "erase", "free"}
ThreadOps == {"trampoline", "run", "returning", "exiting"}

(* Actor a is creating or joining the thread of slot t.                    *)
Operates(a, t) == target[a] = t /\ pc[a] \in CreateOps \union JoinOps

(* Actor a uses the descriptor of its target in its next step.             *)
Touches(a) == pc[a] \in {"start", "store", "check", "mark", "handle", "wait", "close",
                         "collect", "free", "discard"}

-----------------------------------------------------------------------------
(* pthread_create.                                                         *)

(* VirtualAlloc and the descriptor's fields.                               *)
Alloc(a, t) ==
  /\ pc[a] = "run"
  /\ <<a, t>> \in MayCreate
  /\ t \notin mapped /\ pc[t] = "none" /\ t \notin open
  /\ created < MaxCreates
  /\ mapped' = mapped \union {t}
  /\ joined' = [joined EXCEPT ![t] = FALSE]
  /\ handle' = [handle EXCEPT ![t] = FALSE]
  /\ retval' = [retval EXCEPT ![t] = NoValue]
  /\ target' = [target EXCEPT ![a] = t]
  /\ at' = [at EXCEPT ![a] = 1]
  /\ pc' = [pc EXCEPT ![a] = "search"]
  /\ known' = known \ {t}
  /\ windows' = windows
       \union (IF \E b \in Actors : pc[b] \in {"search", "claim"} THEN {"overlap"} ELSE {})
       \union (IF \E b \in Actors : Operates(b, t) THEN {"stale"} ELSE {})
  /\ UNCHANGED <<table, open, returned, got, created>>

(* Mutant of Search: i <= 4096, and what is behind the table is not 0.     *)
SearchPast(a) ==
  /\ pc[a] = "search"
  /\ IF at[a] > Entries + 1
     THEN pc' = [pc EXCEPT ![a] = "discard"] /\ UNCHANGED at
     ELSE IF at[a] <= Entries /\ table[at[a]] = {}
     THEN pc' = [pc EXCEPT ![a] = "claim"] /\ UNCHANGED at
     ELSE at' = [at EXCEPT ![a] = @ + 1] /\ UNCHANGED pc
  /\ UNCHANGED <<target, table, mapped, desc, open, known, history>>

(* Mutant of Search: a full table loses its last entry.                    *)
SearchWrong(a) ==
  /\ pc[a] = "search"
  /\ IF at[a] > Entries
     THEN pc' = [pc EXCEPT ![a] = "discard"] /\ UNCHANGED at
     ELSE IF table[at[a]] = {} \/ at[a] = Entries
     THEN pc' = [pc EXCEPT ![a] = "claim"] /\ UNCHANGED at
     ELSE at' = [at EXCEPT ![a] = @ + 1] /\ UNCHANGED pc
  /\ UNCHANGED <<target, table, mapped, desc, open, known, history>>

(* __fakecc_track_thread reads one entry: an empty one is taken next, and  *)
(* after the last one creation fails.                                      *)
Search(a) ==
  /\ pc[a] = "search"
  /\ IF at[a] > Entries
     THEN pc' = [pc EXCEPT ![a] = "discard"] /\ UNCHANGED at
     ELSE IF table[at[a]] = {}
     THEN pc' = [pc EXCEPT ![a] = "claim"] /\ UNCHANGED at
     ELSE at' = [at EXCEPT ![a] = @ + 1] /\ UNCHANGED pc
  /\ UNCHANGED <<target, table, mapped, desc, open, known, history>>

Claim(a) ==
  /\ pc[a] = "claim"
  /\ table' = [table EXCEPT ![at[a]] = {target[a]}]
  /\ pc' = [pc EXCEPT ![a] = "start"]
  /\ UNCHANGED <<target, at, mapped, desc, open, known, history>>

(* CreateThread.  The child can hand out its own handle, from              *)
(* pthread_self, before the creator goes on.                               *)
StartThread(a) ==
  /\ pc[a] = "start"
  /\ created < MaxCreates
  /\ LET t == target[a]
     IN /\ pc' = [pc EXCEPT ![a] = "store", ![t] = "trampoline"]
        /\ open' = open \union {t}
        /\ known' = known \union {t}
        /\ returned' = [returned EXCEPT ![t] = NoValue]
        /\ got' = [got EXCEPT ![t] = NoValue]
  /\ created' = created + 1
  /\ UNCHANGED <<target, at, table, mapped, desc, windows>>

(* Mutant of StartFails: the entry stays in the table.                     *)
StartFailsTracked(a) ==
  /\ pc[a] = "start"
  /\ pc' = [pc EXCEPT ![a] = "discard"]
  /\ UNCHANGED <<target, at, table, mapped, desc, open, known, history>>

StartFails(a) ==
  /\ pc[a] = "start"
  /\ pc' = [pc EXCEPT ![a] = "drop"]
  /\ UNCHANGED <<target, at, table, mapped, desc, open, known, history>>

(* t->handle = h, and the handle is the caller's.                          *)
Store(a) ==
  /\ pc[a] = "store"
  /\ handle' = [handle EXCEPT ![target[a]] = TRUE]
  /\ pc' = [pc EXCEPT ![a] = "run"]
  /\ UNCHANGED <<target, at, table, mapped, joined, retval, open, known, history>>

(* VirtualFree on a path that returns -1.                                  *)
Discard(a) ==
  /\ pc[a] = "discard"
  /\ mapped' = mapped \ {target[a]}
  /\ pc' = [pc EXCEPT ![a] = "run"]
  /\ UNCHANGED <<target, at, table, desc, open, known, history>>

-----------------------------------------------------------------------------
(* __fakecc_untrack_thread, from pthread_create and from pthread_join: the *)
(* entry is found by one read and cleared by a later write.                *)

Found(t) == {i \in Index : t \in table[i]}

FindEntry(a, from, found, missing) ==
  /\ pc[a] = from
  /\ IF Found(target[a]) = {}
     THEN pc' = [pc EXCEPT ![a] = missing] /\ UNCHANGED at
     ELSE /\ pc' = [pc EXCEPT ![a] = found]
          /\ at' = [at EXCEPT ![a] = CHOOSE i \in Found(target[a]) : TRUE]
  /\ UNCHANGED <<target, table, mapped, desc, open, known, history>>

ClearEntry(a, from, to) ==
  /\ pc[a] = from
  /\ table' = [table EXCEPT ![at[a]] = {}]
  /\ pc' = [pc EXCEPT ![a] = to]
  /\ UNCHANGED <<target, at, mapped, desc, open, known, history>>

-----------------------------------------------------------------------------
(* The thread.                                                             *)

(* The trampoline sets the thread's own pointer and calls the routine.     *)
Trampoline(t) ==
  /\ pc[t] = "trampoline"
  /\ pc' = [pc EXCEPT ![t] = "run"]
  /\ UNCHANGED <<target, at, table, mapped, desc, open, known, history>>

(* The routine returns v or calls pthread_exit(v).                         *)
Return(t, v) ==
  /\ pc[t] = "run"
  /\ returned' = [returned EXCEPT ![t] = v]
  /\ pc' = [pc EXCEPT ![t] = "returning"]
  /\ UNCHANGED <<target, at, table, mapped, desc, open, known, got, windows, created>>

(* t->retval = res; t->done = 1, which nobody reads.                       *)
SetRetval(t) ==
  /\ pc[t] = "returning"
  /\ retval' = [retval EXCEPT ![t] = returned[t]]
  /\ pc' = [pc EXCEPT ![t] = "exiting"]
  /\ UNCHANGED <<target, at, table, mapped, joined, handle, open, known, history>>

(* ExitThread: the kernel's object is signalled.                           *)
Exit(t) ==
  /\ pc[t] = "exiting"
  /\ pc' = [pc EXCEPT ![t] = "none"]
  /\ UNCHANGED <<target, at, table, mapped, desc, open, known, history>>

MainExit ==
  /\ pc[Main] = "run"
  /\ pc' = [pc EXCEPT ![Main] = "none"]
  /\ UNCHANGED <<target, at, table, mapped, desc, open, known, history>>

-----------------------------------------------------------------------------
(* pthread_join.                                                           *)

(* A handle may be joined again after the thread is gone; joining oneself  *)
(* is refused at once.                                                     *)
Join(a, t) ==
  /\ pc[a] = "run"
  /\ <<a, t>> \in MayJoin
  /\ t \in known /\ t # a
  /\ target' = [target EXCEPT ![a] = t]
  /\ pc' = [pc EXCEPT ![a] = "tracked"]
  /\ windows' = IF \E b \in Actors : target[b] = t /\ pc[b] \in JoinOps
                THEN windows \union {"contended"} ELSE windows
  /\ UNCHANGED <<at, table, mapped, desc, open, known, returned, got, created>>

(* __fakecc_is_tracked_thread: an unknown handle is refused.               *)
Tracked(a) ==
  /\ pc[a] = "tracked"
  /\ pc' = [pc EXCEPT ![a] = IF Found(target[a]) = {} THEN "run" ELSE "check"]
  /\ UNCHANGED <<target, at, table, mapped, desc, open, known, history>>

(* Mutant of Check: wait for the other join instead of returning -1.       *)
CheckWaits(a) ==
  /\ pc[a] = "check"
  /\ ~joined[target[a]]
  /\ pc' = [pc EXCEPT ![a] = "mark"]
  /\ UNCHANGED <<target, at, table, mapped, desc, open, known, history>>

(* if (t->joined) return -1;                                               *)
Check(a) ==
  /\ pc[a] = "check"
  /\ pc' = [pc EXCEPT ![a] = IF joined[target[a]] THEN "run" ELSE "mark"]
  /\ UNCHANGED <<target, at, table, mapped, desc, open, known, history>>

Mark(a) ==
  /\ pc[a] = "mark"
  /\ joined' = [joined EXCEPT ![target[a]] = TRUE]
  /\ pc' = [pc EXCEPT ![a] = "handle"]
  /\ UNCHANGED <<target, at, table, mapped, handle, retval, open, known, history>>

(* if (t->handle): without one there is nothing to wait for.               *)
ReadHandle(a) ==
  /\ pc[a] = "handle"
  /\ pc' = [pc EXCEPT ![a] = IF handle[target[a]] THEN "wait" ELSE "collect"]
  /\ windows' = IF \E b \in Actors : pc[b] = "store" /\ target[b] = target[a]
                THEN windows \union {"early"} ELSE windows
  /\ UNCHANGED <<target, at, table, mapped, desc, open, known, returned, got, created>>

(* Mutant of Wait: a wait that times out counts as one that succeeded.     *)
WaitTimesOut(a) ==
  /\ pc[a] = "wait"
  /\ pc' = [pc EXCEPT ![a] = "close"]
  /\ UNCHANGED <<target, at, table, mapped, desc, open, known, history>>

(* WaitForSingleObject on an open handle, for ever.                        *)
Wait(a) ==
  /\ pc[a] = "wait"
  /\ pc[target[a]] = "none" \/ target[a] \notin open
  /\ pc' = [pc EXCEPT ![a] = "close"]
  /\ UNCHANGED <<target, at, table, mapped, desc, open, known, history>>

Close(a) ==
  /\ pc[a] = "close"
  /\ open' = open \ {target[a]}
  /\ handle' = [handle EXCEPT ![target[a]] = FALSE]
  /\ pc' = [pc EXCEPT ![a] = "collect"]
  /\ UNCHANGED <<target, at, table, mapped, joined, retval, known, history>>

Collect(a) ==
  /\ pc[a] = "collect"
  /\ got' = [got EXCEPT ![target[a]] = retval[target[a]]]
  /\ pc' = [pc EXCEPT ![a] = "untrack"]
  /\ UNCHANGED <<target, at, table, mapped, desc, open, known, returned, windows, created>>

(* t->magic = 0 and VirtualFree.                                           *)
Free(a) ==
  /\ pc[a] = "free"
  /\ mapped' = mapped \ {target[a]}
  /\ pc' = [pc EXCEPT ![a] = "run"]
  /\ UNCHANGED <<target, at, table, desc, open, known, history>>

-----------------------------------------------------------------------------
Init ==
  /\ pc = [a \in Actors |-> IF a = Main THEN "run" ELSE "none"]
  /\ target = [a \in Actors |-> CHOOSE t \in Slots : TRUE]
  /\ at = [a \in Actors |-> 1]
  /\ table = [i \in Index |-> {}]
  /\ mapped = {} /\ open = {} /\ known = {}
  /\ joined = [t \in Slots |-> FALSE]
  /\ handle = [t \in Slots |-> FALSE]
  /\ retval = [t \in Slots |-> NoValue]
  /\ returned = [t \in Slots |-> NoValue]
  /\ got = [t \in Slots |-> NoValue]
  /\ windows = {}
  /\ created = 0

Creating(a) ==
  \/ Search(a) \/ Claim(a) \/ StartThread(a) \/ StartFails(a) \/ Store(a) \/ Discard(a)
  \/ FindEntry(a, "drop", "unclaim", "discard") \/ ClearEntry(a, "unclaim", "discard")

Joining(a) ==
  \/ Tracked(a) \/ Check(a) \/ Mark(a) \/ ReadHandle(a) \/ Wait(a) \/ Close(a) \/ Collect(a)
  \/ FindEntry(a, "untrack", "erase", "free") \/ ClearEntry(a, "erase", "free") \/ Free(a)

Ending(t) == Trampoline(t) \/ SetRetval(t) \/ Exit(t)

Next ==
  \/ \E a \in Actors, t \in Slots : Alloc(a, t) \/ Join(a, t)
  \/ \E a \in Actors : Creating(a) \/ Joining(a)
  \/ \E t \in Slots : Ending(t) \/ \E v \in Values : Return(t, v)
  \/ MainExit

Spec == Init /\ [][Next]_vars

(* Threads that can run do run, and a start routine ends, though it may    *)
(* create and join before it does.                                         *)
Fairness ==
  /\ \A a \in Actors : WF_vars(Creating(a)) /\ WF_vars(Joining(a))
  /\ \A t \in Slots : WF_vars(Ending(t)) /\ SF_vars(\E v \in Values : Return(t, v))

FairSpec == Spec /\ Fairness

-----------------------------------------------------------------------------
TypeOK ==
  /\ pc \in [Actors -> {"none"} \union ThreadOps \union CreateOps \union JoinOps]
  /\ target \in [Actors -> Slots]
  /\ at \in [Actors -> 1 .. Entries + 1]
  /\ table \in [Index -> SUBSET Slots] /\ \A i \in Index : Cardinality(table[i]) <= 1
  /\ mapped \subseteq Slots /\ open \subseteq Slots /\ known \subseteq Slots
  /\ joined \in [Slots -> BOOLEAN]
  /\ handle \in [Slots -> BOOLEAN]
  /\ retval \in [Slots -> Values \union {NoValue}]
  /\ returned \in [Slots -> Values \union {NoValue}]
  /\ got \in [Slots -> Values \union {NoValue}]
  /\ windows \subseteq {"overlap", "early", "contended", "stale"}
  /\ created \in 0 .. MaxCreates

(* The table never keeps an entry for a descriptor that has been freed,    *)
(* even when creations or joins race with each other: a handle that passes *)
(* __fakecc_is_tracked_thread may be read.                                 *)
NoDanglingEntry ==
  "stale" \notin windows => \A i \in Index : table[i] \subseteq mapped

(* A thread can be joined from the moment it exists until a join has       *)
(* waited for it: each creation has one entry, its own, as long as no two  *)
(* search the table at once and no second join clears what it found there. *)
EveryThreadTracked ==
  windows = {} =>
    \A t \in open : Cardinality(Found(t)) = 1

(* A descriptor is mapped while its thread, its creator or a joiner uses   *)
(* it; a join that did not wait, or a second join, is the only way out.    *)
DescriptorMapped ==
  windows \intersect {"early", "contended", "stale"} = {} =>
    /\ \A t \in Slots : pc[t] # "none" => t \in mapped
    /\ \A a \in Actors : Touches(a) => target[a] \in mapped

(* A join that goes through delivers what the thread returned.             *)
JoinDelivers ==
  windows \intersect {"early", "stale"} = {} =>
    \A a \in Actors :
      pc[a] \in {"untrack", "erase", "free"} =>
        /\ returned[target[a]] \in Values
        /\ got[target[a]] = returned[target[a]]

(* Without a race, a descriptor or a kernel handle that still exists       *)
(* belongs to an operation in progress or to a thread that can be joined.  *)
NothingLeaks ==
  windows = {} =>
    \A t \in mapped \union open :
      \/ \E a \in Actors : Operates(a, t)
      \/ t \in known /\ Found(t) # {} /\ ~joined[t]

(* What the table names and what a thread, a creator or a joiner uses has  *)
(* not been freed, but for the races that the two parts name.              *)
MemoryHeld == NoDanglingEntry /\ DescriptorMapped

(* Without a race every thread is accounted for, once, in the table, and   *)
(* nothing else is.                                                        *)
Accounted == EveryThreadTracked /\ NothingLeaks

(* A join returns once its thread has: the wait is on the kernel's object, *)
(* which stays signalled.                                                  *)
JoinReturns ==
  \A a \in Actors : (pc[a] = "tracked") ~> (pc[a] \notin JoinOps)
=============================================================================
