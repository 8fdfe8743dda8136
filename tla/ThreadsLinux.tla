----------------------------- MODULE ThreadsLinux -----------------------------
(***************************************************************************)
(* runtime/thread_linux.c: pthread_create, pthread_join, pthread_exit and  *)
(* the trampoline a thread starts in, with the parts of the kernel they    *)
(* lean on: mmap, clone with PARENT_SETTID and CHILD_CLEARTID, the futex   *)
(* on t->tid, and thread exit.                                             *)
(*                                                                         *)
(* A slot is an address at which pthread_create may place a stack; the     *)
(* thread's descriptor lives at the bottom of it.  The kernel may hand the *)
(* same address out again once it is unmapped, so a slot is reused.  The   *)
(* TLS block a thread got is counted with its slot, and a slot is reused   *)
(* when both are gone: between the two munmaps of pthread_join nothing of  *)
(* the slot is read.                                                       *)
(***************************************************************************)
EXTENDS Naturals, FiniteSets

CONSTANTS
  Slots,      \* the addresses of stacks
  Main,       \* the thread the process starts with
  Values,     \* what a thread may return
  NoValue,    \* t->retval before the thread returns
  MayJoin,    \* the joins the program may make, as pairs <<joiner, joined>>
  MaxCreates  \* bound on the number of threads started

ASSUME ThreadsAssumption ==
  /\ Slots # {}
  /\ Main \notin Slots
  /\ NoValue \notin Values
  /\ MayJoin \subseteq ({Main} \union Slots) \X Slots
  /\ MaxCreates \in Nat

Actors == {Main} \union Slots

(* The values of t->tid: cleared, the 1 stored before clone, a thread id.  *)
Cleared == 0
Pending == 1
Tid     == 2

VARIABLES
  pc,        \* where each actor is
  target,    \* the slot an actor creates or joins
  loaded,    \* the value of t->tid an actor passes to FUTEX_WAIT
  magic,     \* the descriptors' fields, by slot
  tid,
  retval,
  done,
  stacks,    \* the slots whose stack is mapped
  blocks,    \* the slots whose TLS block is mapped
  handles,   \* the threads the program may join
  wakes,     \* thread exits that have cleared tid and not yet woken a waiter
  returned,  \* what the thread of each slot returned
  got,       \* what the last join of each slot delivered
  created    \* how many times clone succeeded

desc   == <<magic, tid, retval, done>>
mapped == <<stacks, blocks>>
vars   == <<pc, target, loaded, desc, mapped, handles, wakes, returned, got, created>>

(* Inside pthread_create, inside pthread_join, and in other user code.     *)
CreateOps == {"alloc_tls", "clone"}
JoinOps   == {"check", "load", "wait", "asleep", "collect", "unmap_stack", "unmap_tls"}
UserMode  == {"trampoline", "run", "returning", "exiting"} \union CreateOps \union JoinOps

(* Actor a is creating or joining the thread of slot t.                    *)
Operates(a, t) == target[a] = t /\ pc[a] \in CreateOps \union JoinOps

(* A slot holds no thread.                                                 *)
Idle == {"none", "gone"}

-----------------------------------------------------------------------------
(* pthread_create.                                                         *)

(* mmap of the stack.  A failure returns -1 with nothing changed.          *)
MapStack(a, t) ==
  /\ pc[a] = "run"
  /\ pc[t] \in Idle /\ t \notin stacks \union blocks
  /\ created < MaxCreates
  /\ stacks' = stacks \union {t}
  /\ pc' = [pc EXCEPT ![a] = "alloc_tls", ![t] = "none"]
  /\ target' = [target EXCEPT ![a] = t]
  /\ UNCHANGED <<loaded, desc, blocks, handles, wakes, returned, got, created>>

(* mmap of the TLS block, and the descriptor's fields.                     *)
MapTls(a) ==
  /\ pc[a] = "alloc_tls"
  /\ LET t == target[a]
     IN /\ blocks' = blocks \union {t}
        /\ magic' = [magic EXCEPT ![t] = TRUE]
        /\ retval' = [retval EXCEPT ![t] = NoValue]
        /\ done' = [done EXCEPT ![t] = FALSE]
        /\ tid' = [tid EXCEPT ![t] = Pending]
  /\ pc' = [pc EXCEPT ![a] = "clone"]
  /\ UNCHANGED <<target, loaded, stacks, handles, wakes, returned, got, created>>

(* The mmap fails: the stack is unmapped and -1 returned.                  *)
MapTlsFails(a) ==
  /\ pc[a] = "alloc_tls"
  /\ stacks' = stacks \ {target[a]}
  /\ pc' = [pc EXCEPT ![a] = "run"]
  /\ UNCHANGED <<target, loaded, desc, blocks, handles, wakes, returned, got, created>>

(* The kernel stores the thread id through PARENT_SETTID before the child  *)
(* runs; from here on the creator knows the handle, from its result, and   *)
(* the child does, from pthread_self.                                      *)
Clone(a) ==
  /\ pc[a] = "clone"
  /\ created < MaxCreates
  /\ LET t == target[a]
     IN /\ tid' = [tid EXCEPT ![t] = Tid]
        /\ pc' = [pc EXCEPT ![a] = "run", ![t] = "trampoline"]
        /\ handles' = handles \union {t}
        /\ returned' = [returned EXCEPT ![t] = NoValue]
        /\ got' = [got EXCEPT ![t] = NoValue]
  /\ created' = created + 1
  /\ UNCHANGED <<target, loaded, magic, retval, done, mapped, wakes>>

CloneFails(a) ==
  /\ pc[a] = "clone"
  /\ stacks' = stacks \ {target[a]}
  /\ blocks' = blocks \ {target[a]}
  /\ pc' = [pc EXCEPT ![a] = "run"]
  /\ UNCHANGED <<target, loaded, desc, handles, wakes, returned, got, created>>

-----------------------------------------------------------------------------
(* The thread.                                                             *)

(* Mutant of Trampoline: the thread clears its own tid.                    *)
TrampolineClears(t) ==
  /\ pc[t] = "trampoline"
  /\ tid' = [tid EXCEPT ![t] = Cleared]
  /\ pc' = [pc EXCEPT ![t] = "run"]
  /\ UNCHANGED <<target, loaded, magic, retval, done, mapped, handles, wakes, returned, got, created>>

(* Mutant of Trampoline: getpid() for gettid().                            *)
TrampolinePid(t) ==
  /\ pc[t] = "trampoline"
  /\ tid' = [tid EXCEPT ![t] = Tid + 1]
  /\ pc' = [pc EXCEPT ![t] = "run"]
  /\ UNCHANGED <<target, loaded, magic, retval, done, mapped, handles, wakes, returned, got, created>>

(* t->tid = gettid(), then the start routine.                              *)
Trampoline(t) ==
  /\ pc[t] = "trampoline"
  /\ tid' = [tid EXCEPT ![t] = Tid]
  /\ pc' = [pc EXCEPT ![t] = "run"]
  /\ UNCHANGED <<target, loaded, magic, retval, done, mapped, handles, wakes, returned, got, created>>

(* The start routine returns v, or calls pthread_exit(v): t->retval = v.   *)
(* pthread_exit finds t by the magic at the bottom of its stack.           *)
Return(t, v) ==
  /\ pc[t] = "run"
  /\ returned' = [returned EXCEPT ![t] = v]
  /\ retval' = IF magic[t] THEN [retval EXCEPT ![t] = v] ELSE retval
  /\ pc' = [pc EXCEPT ![t] = "returning"]
  /\ UNCHANGED <<target, loaded, magic, tid, done, mapped, handles, wakes, got, created>>

(* t->done = 1, and a wake on it that nobody waits for.                    *)
Done(t) ==
  /\ pc[t] = "returning"
  /\ done' = [done EXCEPT ![t] = TRUE]
  /\ pc' = [pc EXCEPT ![t] = "exiting"]
  /\ UNCHANGED <<target, loaded, magic, tid, retval, mapped, handles, wakes, returned, got, created>>

(* The exit system call: the thread never touches user memory again,       *)
(* except through the kernel, which clears tid and then wakes a waiter.    *)
Exit(t) ==
  /\ pc[t] = "exiting"
  /\ pc' = [pc EXCEPT ![t] = "dying"]
  /\ UNCHANGED <<target, loaded, desc, mapped, handles, wakes, returned, got, created>>

ClearTid(t) ==
  /\ pc[t] = "dying"
  /\ tid' = [tid EXCEPT ![t] = Cleared]
  /\ wakes' = [wakes EXCEPT ![t] = @ + 1]
  /\ pc' = [pc EXCEPT ![t] = "gone"]
  /\ UNCHANGED <<target, loaded, magic, retval, done, mapped, handles, returned, got, created>>

(* Mutant of WakeJoiner: the waiter sleeps on.                             *)
WakeNobody(t) ==
  /\ wakes[t] > 0
  /\ wakes' = [wakes EXCEPT ![t] = @ - 1]
  /\ UNCHANGED <<pc, target, loaded, desc, mapped, handles, returned, got, created>>

(* FUTEX_WAKE at the address of tid: one waiter, if there is any, even one *)
(* for a later thread at the same address.                                 *)
WakeJoiner(t) ==
  /\ wakes[t] > 0
  /\ wakes' = [wakes EXCEPT ![t] = @ - 1]
  /\ LET sleepers == {a \in Actors : pc[a] = "asleep" /\ target[a] = t}
     IN IF sleepers = {} THEN UNCHANGED pc
        ELSE \E a \in sleepers : pc' = [pc EXCEPT ![a] = "check"]
  /\ UNCHANGED <<target, loaded, desc, mapped, handles, returned, got, created>>

(* pthread_exit in the initial thread ends that thread alone.              *)
MainExit ==
  /\ pc[Main] = "run"
  /\ pc' = [pc EXCEPT ![Main] = "gone"]
  /\ UNCHANGED <<target, loaded, desc, mapped, handles, wakes, returned, got, created>>

-----------------------------------------------------------------------------
(* pthread_join.                                                           *)

(* A thread is joined once: the join takes the handle.                     *)
Join(a, t) ==
  /\ pc[a] = "run"
  /\ <<a, t>> \in MayJoin
  /\ t \in handles /\ t # a
  /\ handles' = handles \ {t}
  /\ target' = [target EXCEPT ![a] = t]
  /\ pc' = [pc EXCEPT ![a] = "check"]
  /\ UNCHANGED <<loaded, desc, mapped, wakes, returned, got, created>>

(* Mutant of Check: wait for done instead of tid.                          *)
CheckDone(a) ==
  /\ pc[a] = "check"
  /\ pc' = [pc EXCEPT ![a] = IF done[target[a]] THEN "collect" ELSE "load"]
  /\ UNCHANGED <<target, loaded, desc, mapped, handles, wakes, returned, got, created>>

(* while (t->tid != 0)                                                     *)
Check(a) ==
  /\ pc[a] = "check"
  /\ pc' = [pc EXCEPT ![a] = IF tid[target[a]] = Cleared THEN "collect" ELSE "load"]
  /\ UNCHANGED <<target, loaded, desc, mapped, handles, wakes, returned, got, created>>

(* The third argument of the futex call reads t->tid again.                *)
Load(a) ==
  /\ pc[a] = "load"
  /\ loaded' = [loaded EXCEPT ![a] = tid[target[a]]]
  /\ pc' = [pc EXCEPT ![a] = "wait"]
  /\ UNCHANGED <<target, desc, mapped, handles, wakes, returned, got, created>>

(* Mutant of Wait: sleep whatever tid is.                                  *)
WaitUnchecked(a) ==
  /\ pc[a] = "wait"
  /\ pc' = [pc EXCEPT ![a] = "asleep"]
  /\ UNCHANGED <<target, loaded, desc, mapped, handles, wakes, returned, got, created>>

(* FUTEX_WAIT sleeps when tid still has the value passed.                  *)
Wait(a) ==
  /\ pc[a] = "wait"
  /\ pc' = [pc EXCEPT ![a] = IF tid[target[a]] = loaded[a] THEN "asleep" ELSE "check"]
  /\ UNCHANGED <<target, loaded, desc, mapped, handles, wakes, returned, got, created>>

(* A signal ends the wait.                                                 *)
Interrupt(a) ==
  /\ pc[a] = "asleep"
  /\ pc' = [pc EXCEPT ![a] = "check"]
  /\ UNCHANGED <<target, loaded, desc, mapped, handles, wakes, returned, got, created>>

(* The result is stored, then joined and magic; the sizes are read before  *)
(* the stack that holds them is unmapped.                                  *)
Collect(a) ==
  /\ pc[a] = "collect"
  /\ got' = [got EXCEPT ![target[a]] = retval[target[a]]]
  /\ magic' = [magic EXCEPT ![target[a]] = FALSE]
  /\ pc' = [pc EXCEPT ![a] = "unmap_stack"]
  /\ UNCHANGED <<target, loaded, tid, retval, done, mapped, handles, wakes, returned, created>>

UnmapStack(a) ==
  /\ pc[a] = "unmap_stack"
  /\ stacks' = stacks \ {target[a]}
  /\ pc' = [pc EXCEPT ![a] = "unmap_tls"]
  /\ UNCHANGED <<target, loaded, desc, blocks, handles, wakes, returned, got, created>>

UnmapTls(a) ==
  /\ pc[a] = "unmap_tls"
  /\ blocks' = blocks \ {target[a]}
  /\ pc' = [pc EXCEPT ![a] = "run"]
  /\ UNCHANGED <<target, loaded, desc, stacks, handles, wakes, returned, got, created>>

-----------------------------------------------------------------------------
Init ==
  /\ pc = [a \in Actors |-> IF a = Main THEN "run" ELSE "none"]
  /\ target = [a \in Actors |-> CHOOSE t \in Slots : TRUE]
  /\ loaded = [a \in Actors |-> Cleared]
  /\ magic = [t \in Slots |-> FALSE]
  /\ tid = [t \in Slots |-> Cleared]
  /\ retval = [t \in Slots |-> NoValue]
  /\ done = [t \in Slots |-> FALSE]
  /\ stacks = {} /\ blocks = {}
  /\ handles = {}
  /\ wakes = [t \in Slots |-> 0]
  /\ returned = [t \in Slots |-> NoValue]
  /\ got = [t \in Slots |-> NoValue]
  /\ created = 0

Creating(a) == MapTls(a) \/ MapTlsFails(a) \/ Clone(a) \/ CloneFails(a)
Joining(a)  == Check(a) \/ Load(a) \/ Wait(a) \/ Collect(a) \/ UnmapStack(a) \/ UnmapTls(a)
Ending(t)   == Trampoline(t) \/ Done(t) \/ Exit(t) \/ ClearTid(t)

Next ==
  \/ \E a \in Actors, t \in Slots : MapStack(a, t) \/ Join(a, t)
  \/ \E a \in Actors : Creating(a) \/ Joining(a) \/ Interrupt(a)
  \/ \E t \in Slots : Ending(t) \/ WakeJoiner(t) \/ \E v \in Values : Return(t, v)
  \/ MainExit

Spec == Init /\ [][Next]_vars

(* Threads that can run do run, the kernel finishes exits and delivers     *)
(* wakes, and a start routine does not run for ever.  Nothing obliges a    *)
(* program to create or to join, and no signal need come.                  *)
Fairness ==
  /\ \A a \in Actors : WF_vars(Creating(a)) /\ WF_vars(Joining(a))
  /\ \A t \in Slots : /\ WF_vars(Ending(t)) /\ WF_vars(WakeJoiner(t))
                     /\ WF_vars(\E v \in Values : Return(t, v))

FairSpec == Spec /\ Fairness

-----------------------------------------------------------------------------
TypeOK ==
  /\ pc \in [Actors -> UserMode \union Idle \union {"dying"}]
  /\ target \in [Actors -> Slots]
  /\ loaded \in [Actors -> {Cleared, Pending, Tid}]
  /\ magic \in [Slots -> BOOLEAN]
  /\ tid \in [Slots -> {Cleared, Pending, Tid}]
  /\ retval \in [Slots -> Values \union {NoValue}]
  /\ done \in [Slots -> BOOLEAN]
  /\ stacks \subseteq Slots /\ blocks \subseteq Slots
  /\ handles \subseteq Slots
  /\ wakes \in [Slots -> Nat]
  /\ returned \in [Slots -> Values \union {NoValue}]
  /\ got \in [Slots -> Values \union {NoValue}]
  /\ created \in 0 .. MaxCreates

(* A thread's stack and TLS block stay mapped until it has entered the     *)
(* kernel for the last time, and the word the kernel will clear until it   *)
(* has been cleared.                                                       *)
MemoryWhileRunning ==
  \A t \in Slots :
    pc[t] \in UserMode \union {"dying"} => t \in stacks \intersect blocks

(* Nobody reads or writes a descriptor after the stack holding it is       *)
(* unmapped: neither the creator nor the joiner.                           *)
DescriptorMapped ==
  \A a \in Actors :
    pc[a] \in (CreateOps \union JoinOps) \ {"unmap_stack", "unmap_tls"}
      => target[a] \in stacks

(* A join delivers what the thread returned, from its start routine or     *)
(* through pthread_exit.                                                   *)
JoinDelivers ==
  \A a \in Actors :
    pc[a] \in {"unmap_stack", "unmap_tls"} =>
      /\ returned[target[a]] \in Values
      /\ got[target[a]] = returned[target[a]]

(* What is mapped is in use: by a create or a join in progress, or by a    *)
(* thread that nobody has joined.  Failed creates and joins leave nothing. *)
NothingLeaks ==
  \A t \in stacks \union blocks :
    t \in handles \/ \E a \in Actors : Operates(a, t)

(* Stacks, TLS blocks and the descriptors on the stacks are there exactly  *)
(* as long as a thread, the kernel, a create or a join needs them.         *)
MemoryExact == MemoryWhileRunning /\ DescriptorMapped /\ NothingLeaks

(* A joiner asleep on the id of a thread whose tid has been cleared has a  *)
(* wake coming: FUTEX_WAIT's comparison leaves no gap for it to fall in,   *)
(* and a wake left over from an older thread at the address takes nothing. *)
WakeOnItsWay ==
  \A a \in Actors :
    /\ pc[a] = "asleep"
    /\ loaded[a] # Cleared
    /\ tid[target[a]] = Cleared
    => wakes[target[a]] > 0

(* Such a joiner does wake up.                                             *)
SleeperWakes ==
  \A a \in Actors :
    (pc[a] = "asleep" /\ loaded[a] # Cleared /\ tid[target[a]] = Cleared)
      ~> (pc[a] # "asleep")

(* thread_many.c joins 150 threads and returns 0: pthread_join returns.    *)
JoinReturns ==
  \A a \in Actors : (pc[a] = "check") ~> (pc[a] = "run")
=============================================================================
