------------------------- MODULE ThreadsWindowsProofs -------------------------
(***************************************************************************)
(* What runtime/thread_windows.c keeps, for any number of threads, any     *)
(* length of the table and any pattern of creations and joins.             *)
(*                                                                         *)
(* The argument: the invariant has four parts, each under the races it     *)
(* does without, as in the properties.  While no descriptor is reused      *)
(* under an old handle, a creation has its descriptor for itself and the   *)
(* table has a descriptor in at most one entry (TableCore).  Without an    *)
(* early join, who is past the wait has waited for a thread that ended     *)
(* (DeliveryCore).  Without two joins of one thread, whoever works on a    *)
(* descriptor finds it mapped (MemoryCore).  Without overlapping searches  *)
(* as well, a started thread keeps its entry until its join has waited     *)
(* (AccountCore).  A step never makes `windows` smaller, so that a part    *)
(* needed after the step was there before it.                              *)
(***************************************************************************)
EXTENDS ThreadsWindows, FiniteSetTheorems, TLAPS

(* The places of a creation whose thread does not run, and of a join.      *)
Unborn  == CreateOps \ {"store"}
Waited  == {"close", "collect", "untrack", "erase", "free"}
Closed  == Waited \ {"close"}
Past    == {"check", "mark", "handle", "wait"}

(* t has returned and its value is where a join reads it.                  *)
Ended(t) == pc[t] = "none" /\ returned[t] \in Values /\ retval[t] = returned[t]

(* The creator of t is about to store its handle.                          *)
Storing(t) == \E b \in Actors : pc[b] = "store" /\ target[b] = t

-----------------------------------------------------------------------------
(* The table, unless an old handle met a new descriptor.                   *)

(* A descriptor is created by one thread.                                  *)
OneCreator ==
  \A a, b \in Actors :
    pc[a] \in CreateOps /\ pc[b] \in CreateOps /\ target[a] = target[b] => a = b

(* Nobody but its creator knows a descriptor whose thread does not run.    *)
UnbornPrivate ==
  \A a \in Actors : pc[a] \in Unborn =>
    /\ target[a] \in mapped /\ target[a] \notin known /\ target[a] \notin open
    /\ pc[target[a]] = "none"

(* Only what was created is joined.                                        *)
JoinsKnown ==
  \A a \in Actors : pc[a] \in JoinOps => target[a] \in known

(* No descriptor has two entries.                                          *)
OneEntry ==
  \A i, j \in Index : \A t \in Slots : t \in table[i] /\ t \in table[j] => i = j

(* A creation that has not entered its descriptor, or has dropped it, has  *)
(* none in the table; one that drops it holds the right entry.             *)
Entered ==
  \A a \in Actors : \A i \in Index :
    target[a] \in table[i] =>
      /\ pc[a] \notin {"search", "claim", "free", "discard"}
      /\ pc[a] \in {"erase", "unclaim"} => i = at[a]

(* No entry is dangling.                                                   *)
EntriesMapped == \A i \in Index : table[i] \subseteq mapped

(* Walks stop inside the table, and an entry holds one descriptor.         *)
Placed ==
  /\ \A a \in Actors : pc[a] \in {"claim", "unclaim", "erase"} => at[a] \in Index
  /\ \A i \in Index : \A t, u \in table[i] : t = u

(* Types.                                                                  *)
Typed ==
  /\ pc \in [Actors -> {"none"} \union ThreadOps \union CreateOps \union JoinOps]
  /\ target \in [Actors -> Slots]
  /\ at \in [Actors -> 1 .. Entries + 1]
  /\ table \in [Index -> SUBSET Slots]
  /\ mapped \subseteq Slots /\ open \subseteq Slots /\ known \subseteq Slots
  /\ joined \in [Slots -> BOOLEAN]
  /\ handle \in [Slots -> BOOLEAN]
  /\ retval \in [Slots -> Values \union {NoValue}]
  /\ returned \in [Slots -> Values \union {NoValue}]
  /\ got \in [Slots -> Values \union {NoValue}]
  /\ windows \subseteq {"overlap", "early", "contended", "stale"}
  /\ created \in 0 .. MaxCreates

TableCore ==
  OneCreator /\ UnbornPrivate /\ JoinsKnown /\ OneEntry /\ Entered /\ EntriesMapped

-----------------------------------------------------------------------------
(* What a join delivers, unless a thread was joined too early.             *)

(* Nobody waits for a thread whose handle is still to be stored.           *)
StoringAlone ==
  \A a \in Actors : pc[a] = "store" =>
    /\ target[a] \in known /\ target[a] \in open
    /\ \A b \in Actors : pc[b] \in {"wait"} \union Waited => target[b] # target[a]

(* A thread that is through with its trampoline has left its value.        *)
ReturnedKept ==
  \A t \in Slots :
    /\ pc[t] \in {"returning", "exiting"} => returned[t] \in Values
    /\ pc[t] = "exiting" \/ (pc[t] = "none" /\ t \in known)
         => returned[t] \in Values /\ retval[t] = returned[t]

(* A descriptor without a handle is being stored to, or its thread ended.  *)
HandleTells ==
  \A t \in known : (t \in open /\ handle[t]) \/ Storing(t) \/ Ended(t)

(* Who has waited has waited for the end.                                  *)
WaitedEnded ==
  \A a \in Actors : pc[a] \in Waited => Ended(target[a])

(* What was collected is what was returned.                                *)
GotRight ==
  \A a \in Actors : pc[a] \in {"untrack", "erase", "free"} =>
    got[target[a]] = returned[target[a]]

DeliveryCore ==
    StoringAlone /\ ReturnedKept /\ HandleTells /\ WaitedEnded /\ GotRight

-----------------------------------------------------------------------------
(* Memory, unless two threads joined one.                                  *)

(* A thread is joined by one.                                              *)
OneJoiner ==
  \A a, b \in Actors :
    pc[a] \in JoinOps /\ pc[b] \in JoinOps /\ target[a] = target[b] => a = b

(* Who runs has its descriptor, and so has the creator that stores to it.  *)
LivingMapped ==
  \A t \in Slots : pc[t] # "none" => t \in mapped

StoringMapped ==
  \A a \in Actors : pc[a] = "store" => target[a] \in mapped

(* A join of t would wait for it.                                          *)
Joinable(t) == t \in mapped /\ t \in open /\ (handle[t] \/ Storing(t))

(* What a join works on is mapped, and joinable until it has waited.       *)
JoinersHold ==
  \A a \in Actors :
    /\ pc[a] \in Past => Joinable(target[a])
    /\ pc[a] \in Waited => target[a] \in mapped

(* What the table lists is joinable, or its join is about to unlist it.    *)
TrackedJoinable ==
  \A t \in known : \A i \in Index : t \in table[i] =>
    Joinable(t) \/ \E b \in Actors : pc[b] \in Closed /\ target[b] = t

MemoryCore ==
    OneJoiner /\ LivingMapped /\ StoringMapped /\ JoinersHold /\ TrackedJoinable

-----------------------------------------------------------------------------
(* Accounting, unless a race was run into.                                 *)
HasEntry(t)  == \E i \in Index : t \in table[i]
JoinedNow(t) ==
  \E a \in Actors : target[a] = t /\ pc[a] \in {"handle", "wait"} \union Waited
WorkedOn(t)  ==
  \E a \in Actors : target[a] = t /\ pc[a] \in Unborn \union Closed

(* One creation searches the table at a time, so that the entry it found   *)
(* empty is empty when it fills it.                                        *)
OneSearch ==
  \A a, b \in Actors :
    pc[a] \in {"search", "claim"} /\ pc[b] \in {"search", "claim"} => a = b

ClaimsEmpty ==
  \A a \in Actors : pc[a] = "claim" => table[at[a]] = {}

(* Who is started is in the table, and stays there while its handle is     *)
(* open.                                                                   *)
StartsEntered ==
  \A a \in Actors : pc[a] = "start" => HasEntry(target[a])

OpenEntered == \A t \in open : t \in known /\ HasEntry(t)

(* An entry is cleared by the thread whose descriptor it holds.            *)
ErasesOwn ==
  \A a \in Actors : pc[a] \in {"erase", "unclaim"} => table[at[a]] = {target[a]}

(* After CloseHandle the handle is not open.                               *)
ClosedShut ==
  \A a \in Actors : pc[a] \in Closed => target[a] \notin open

(* `joined` is set while a join runs, and not after it.                    *)
JoinedByOne == \A t \in mapped : joined[t] => JoinedNow(t)

(* A descriptor without an open handle is being created or given back.     *)
MappedAccounted == \A t \in mapped : t \in open \/ WorkedOn(t)

AccountCore ==
    /\ OneSearch /\ ClaimsEmpty /\ StartsEntered /\ OpenEntered /\ ErasesOwn
    /\ ClosedShut /\ JoinedByOne /\ MappedAccounted

USE DEF Actors, Index, CreateOps, JoinOps, Unborn, Waited, Closed, Past, desc, history

(* What __fakecc_untrack_thread's walk finds.                              *)
Finds(a, from, found, missing) ==
  /\ pc[a] = from
  /\ \/ /\ \A i \in Index : target[a] \notin table[i]
        /\ pc' = [pc EXCEPT ![a] = missing] /\ at' = at
     \/ \E i \in Index : /\ target[a] \in table[i]
                         /\ pc' = [pc EXCEPT ![a] = found]
                         /\ at' = [at EXCEPT ![a] = i]
  /\ UNCHANGED <<target, table, mapped, desc, open, known, history>>

LEMMA EntryFound ==
  ASSUME NEW a \in Actors, NEW from, NEW found, NEW missing,
         FindEntry(a, from, found, missing)
  PROVE  Finds(a, from, found, missing)
<1>1. CASE Found(target[a]) = {}
  BY <1>1 DEF FindEntry, Found, Finds
<1>2. CASE Found(target[a]) # {}
  <2> DEFINE i == CHOOSE j \in Found(target[a]) : TRUE
  <2>1. i \in Found(target[a])
    BY <1>2
  <2>2. i \in Index /\ target[a] \in table[i]
    BY <2>1 DEF Found
  <2>3. at' = [at EXCEPT ![a] = i] /\ pc' = [pc EXCEPT ![a] = found]
    BY <1>2 DEF FindEntry
  <2> HIDE DEF i
  <2> QED
    BY <2>2, <2>3 DEF FindEntry, Finds
<1> QED
  BY <1>1, <1>2

(* The races that have been run into are not forgotten.                    *)
LEMMA WindowsGrow == Next => windows \subseteq windows'
BY DEF Next, Creating, Joining, Ending, Alloc, Search, Claim, StartThread, StartFails,
       Store, Discard, FindEntry, ClearEntry, Trampoline, Return, SetRetval, Exit,
       MainExit, Join, Tracked, Check, Mark, ReadHandle, Wait, Close, Collect, Free

-----------------------------------------------------------------------------
(* Types.                                                                  *)
LEMMA TypedKept ==
  ASSUME Typed, Next
  PROVE  Typed'
<1> USE DEF Typed, ThreadOps
<1>1. ASSUME NEW a \in Actors, NEW s \in Slots, Alloc(a, s) PROVE Typed'
  BY <1>1, WinThreadsAssumption DEF Alloc
<1>2. ASSUME NEW a \in Actors, NEW s \in Slots, Join(a, s) PROVE Typed'
  BY <1>2, WinThreadsAssumption DEF Join
<1>3. ASSUME NEW a \in Actors, Search(a) PROVE Typed'
  <2>1. Typed'
    <3>1. at' \in [Actors -> 1 .. Entries + 1]
      <4>1. at[a] \in 1 .. Entries + 1 /\ Entries \in Nat
        BY WinThreadsAssumption
      <4>2. at[a] <= Entries => at[a] + 1 \in 1 .. Entries + 1
        BY <4>1
      <4>3. at' = at \/ (at[a] <= Entries /\ at' = [at EXCEPT ![a] = at[a] + 1])
        BY <1>3, <4>1 DEF Search
      <4> QED
        BY <4>2, <4>3
    <3> QED
      BY <1>3, <3>1 DEF Search
  <2> QED
    BY <2>1
<1>4. ASSUME NEW a \in Actors, Claim(a) PROVE Typed'
  BY <1>4, WinThreadsAssumption DEF Claim
<1>5. ASSUME NEW a \in Actors, StartThread(a) PROVE Typed'
  BY SMTT(30), <1>5, WinThreadsAssumption DEF StartThread
<1>6. ASSUME NEW a \in Actors, StartFails(a) PROVE Typed'
  BY <1>6, WinThreadsAssumption DEF StartFails
<1>7. ASSUME NEW a \in Actors, Store(a) PROVE Typed'
  BY <1>7, WinThreadsAssumption DEF Store
<1>8. ASSUME NEW a \in Actors, Discard(a) PROVE Typed'
  BY <1>8, WinThreadsAssumption DEF Discard
<1>9. ASSUME NEW a \in Actors, FindEntry(a, "drop", "unclaim", "discard") PROVE Typed'
  <2>1. Finds(a, "drop", "unclaim", "discard")
    BY <1>9, EntryFound, Zenon
  <2>2. Typed'
    <3>1. at' \in [Actors -> 1 .. Entries + 1]
      <4>1. \A i \in Index : i \in 1 .. Entries + 1
        BY WinThreadsAssumption
      <4>2. at' = at \/ \E i \in Index : at' = [at EXCEPT ![a] = i]
        BY <2>1 DEF Finds
      <4> HIDE DEF Index
      <4> QED
        BY <4>1, <4>2
    <3>2. /\ UNCHANGED <<target, table, mapped, desc, open, known, history>>
          /\ \E y \in CreateOps \union JoinOps : pc' = [pc EXCEPT ![a] = y]
      BY <2>1 DEF Finds
    <3> QED
      BY <3>1, <3>2
  <2> QED
    BY <2>2
<1>10. ASSUME NEW a \in Actors, ClearEntry(a, "unclaim", "discard") PROVE Typed'
  BY <1>10, WinThreadsAssumption DEF ClearEntry
<1>11. ASSUME NEW a \in Actors, Tracked(a) PROVE Typed'
  BY <1>11, WinThreadsAssumption DEF Tracked, Found
<1>12. ASSUME NEW a \in Actors, Check(a) PROVE Typed'
  BY <1>12, WinThreadsAssumption DEF Check
<1>13. ASSUME NEW a \in Actors, Mark(a) PROVE Typed'
  BY <1>13, WinThreadsAssumption DEF Mark
<1>14. ASSUME NEW a \in Actors, ReadHandle(a) PROVE Typed'
  BY <1>14, WinThreadsAssumption DEF ReadHandle
<1>15. ASSUME NEW a \in Actors, Wait(a) PROVE Typed'
  BY <1>15, WinThreadsAssumption DEF Wait
<1>16. ASSUME NEW a \in Actors, Close(a) PROVE Typed'
  BY <1>16, WinThreadsAssumption DEF Close
<1>17. ASSUME NEW a \in Actors, Collect(a) PROVE Typed'
  BY <1>17, WinThreadsAssumption DEF Collect
<1>18. ASSUME NEW a \in Actors, FindEntry(a, "untrack", "erase", "free") PROVE Typed'
  <2>1. Finds(a, "untrack", "erase", "free")
    BY <1>18, EntryFound, Zenon
  <2>2. Typed'
    <3>1. at' \in [Actors -> 1 .. Entries + 1]
      <4>1. \A i \in Index : i \in 1 .. Entries + 1
        BY WinThreadsAssumption
      <4>2. at' = at \/ \E i \in Index : at' = [at EXCEPT ![a] = i]
        BY <2>1 DEF Finds
      <4> HIDE DEF Index
      <4> QED
        BY <4>1, <4>2
    <3>2. /\ UNCHANGED <<target, table, mapped, desc, open, known, history>>
          /\ \E y \in CreateOps \union JoinOps : pc' = [pc EXCEPT ![a] = y]
      BY <2>1 DEF Finds
    <3> QED
      BY <3>1, <3>2
  <2> QED
    BY <2>2
<1>19. ASSUME NEW a \in Actors, ClearEntry(a, "erase", "free") PROVE Typed'
  BY <1>19, WinThreadsAssumption DEF ClearEntry
<1>20. ASSUME NEW a \in Actors, Free(a) PROVE Typed'
  BY <1>20, WinThreadsAssumption DEF Free
<1>21. ASSUME NEW s \in Slots, Trampoline(s) PROVE Typed'
  BY <1>21, WinThreadsAssumption DEF Trampoline
<1>22. ASSUME NEW s \in Slots, NEW v \in Values, Return(s, v) PROVE Typed'
  BY <1>22, WinThreadsAssumption DEF Return
<1>23. ASSUME NEW s \in Slots, SetRetval(s) PROVE Typed'
  BY <1>23, WinThreadsAssumption DEF SetRetval
<1>24. ASSUME NEW s \in Slots, Exit(s) PROVE Typed'
  BY <1>24, WinThreadsAssumption DEF Exit
<1>25. ASSUME MainExit PROVE Typed'
  BY <1>25, WinThreadsAssumption DEF MainExit
<1> QED
  BY <1>1, <1>2, <1>3, <1>4, <1>5, <1>6, <1>7, <1>8, <1>9, <1>10, <1>11, <1>12, <1>13,
     <1>14, <1>15, <1>16, <1>17, <1>18, <1>19, <1>20, <1>21, <1>22, <1>23, <1>24, <1>25
  DEF Next, Creating, Joining, Ending

LEMMA PlacedKept ==
  ASSUME Typed, Placed, Next
  PROVE  Placed'
<1> USE DEF Typed, Placed
<1>1. ASSUME NEW a \in Actors, NEW s \in Slots, Alloc(a, s) PROVE Placed'
  BY <1>1, WinThreadsAssumption DEF Alloc
<1>2. ASSUME NEW a \in Actors, NEW s \in Slots, Join(a, s) PROVE Placed'
  BY <1>2, WinThreadsAssumption DEF Join
<1>3. ASSUME NEW a \in Actors, Search(a) PROVE Placed'
  BY <1>3, WinThreadsAssumption DEF Search
<1>4. ASSUME NEW a \in Actors, Claim(a) PROVE Placed'
  BY <1>4, WinThreadsAssumption DEF Claim
<1>5. ASSUME NEW a \in Actors, StartThread(a) PROVE Placed'
  BY <1>5, WinThreadsAssumption DEF StartThread
<1>6. ASSUME NEW a \in Actors, StartFails(a) PROVE Placed'
  BY <1>6, WinThreadsAssumption DEF StartFails
<1>7. ASSUME NEW a \in Actors, Store(a) PROVE Placed'
  BY <1>7, WinThreadsAssumption DEF Store
<1>8. ASSUME NEW a \in Actors, Discard(a) PROVE Placed'
  BY <1>8, WinThreadsAssumption DEF Discard
<1>9. ASSUME NEW a \in Actors, FindEntry(a, "drop", "unclaim", "discard") PROVE Placed'
  <2>1. Finds(a, "drop", "unclaim", "discard")
    BY <1>9, EntryFound, Zenon
  <2>2. Placed'
    BY <2>1, WinThreadsAssumption DEF Finds
  <2> QED
    BY <2>2
<1>10. ASSUME NEW a \in Actors, ClearEntry(a, "unclaim", "discard") PROVE Placed'
  BY <1>10, WinThreadsAssumption DEF ClearEntry
<1>11. ASSUME NEW a \in Actors, Tracked(a) PROVE Placed'
  BY <1>11, WinThreadsAssumption DEF Tracked, Found
<1>12. ASSUME NEW a \in Actors, Check(a) PROVE Placed'
  BY <1>12, WinThreadsAssumption DEF Check
<1>13. ASSUME NEW a \in Actors, Mark(a) PROVE Placed'
  BY <1>13, WinThreadsAssumption DEF Mark
<1>14. ASSUME NEW a \in Actors, ReadHandle(a) PROVE Placed'
  BY <1>14, WinThreadsAssumption DEF ReadHandle
<1>15. ASSUME NEW a \in Actors, Wait(a) PROVE Placed'
  BY <1>15, WinThreadsAssumption DEF Wait
<1>16. ASSUME NEW a \in Actors, Close(a) PROVE Placed'
  BY <1>16, WinThreadsAssumption DEF Close
<1>17. ASSUME NEW a \in Actors, Collect(a) PROVE Placed'
  BY <1>17, WinThreadsAssumption DEF Collect
<1>18. ASSUME NEW a \in Actors, FindEntry(a, "untrack", "erase", "free") PROVE Placed'
  <2>1. Finds(a, "untrack", "erase", "free")
    BY <1>18, EntryFound, Zenon
  <2>2. Placed'
    BY <2>1, WinThreadsAssumption DEF Finds
  <2> QED
    BY <2>2
<1>19. ASSUME NEW a \in Actors, ClearEntry(a, "erase", "free") PROVE Placed'
  BY <1>19, WinThreadsAssumption DEF ClearEntry
<1>20. ASSUME NEW a \in Actors, Free(a) PROVE Placed'
  BY <1>20, WinThreadsAssumption DEF Free
<1>21. ASSUME NEW s \in Slots, Trampoline(s) PROVE Placed'
  BY <1>21, WinThreadsAssumption DEF Trampoline
<1>22. ASSUME NEW s \in Slots, NEW v \in Values, Return(s, v) PROVE Placed'
  BY <1>22, WinThreadsAssumption DEF Return
<1>23. ASSUME NEW s \in Slots, SetRetval(s) PROVE Placed'
  BY <1>23, WinThreadsAssumption DEF SetRetval
<1>24. ASSUME NEW s \in Slots, Exit(s) PROVE Placed'
  BY <1>24, WinThreadsAssumption DEF Exit
<1>25. ASSUME MainExit PROVE Placed'
  BY <1>25, WinThreadsAssumption DEF MainExit
<1> QED
  BY <1>1, <1>2, <1>3, <1>4, <1>5, <1>6, <1>7, <1>8, <1>9, <1>10, <1>11, <1>12, <1>13,
     <1>14, <1>15, <1>16, <1>17, <1>18, <1>19, <1>20, <1>21, <1>22, <1>23, <1>24, <1>25
  DEF Next, Creating, Joining, Ending

-----------------------------------------------------------------------------
(* The table.                                                              *)
LEMMA TableKept ==
  ASSUME Typed, Placed, TableCore, Next, "stale" \notin windows'
  PROVE  TableCore'
<1> USE DEF Typed, Placed, TableCore, OneCreator, UnbornPrivate, JoinsKnown,
          OneEntry, Entered, EntriesMapped, Operates
<1>1. ASSUME NEW a \in Actors, NEW s \in Slots, Alloc(a, s) PROVE TableCore'
  BY <1>1 DEF Alloc
<1>2. ASSUME NEW a \in Actors, NEW s \in Slots, Join(a, s) PROVE TableCore'
  BY <1>2 DEF Join
<1>3. ASSUME NEW a \in Actors, Search(a) PROVE TableCore'
  BY <1>3 DEF Search
<1>4. ASSUME NEW a \in Actors, Claim(a) PROVE TableCore'
  BY <1>4 DEF Claim
<1>5. ASSUME NEW a \in Actors, StartThread(a) PROVE TableCore'
  <2>1. OneCreator'
    BY <1>5 DEF StartThread
  <2>2. UnbornPrivate'
    BY <1>5 DEF StartThread
  <2>3. JoinsKnown'
    BY <1>5 DEF StartThread
  <2>4. OneEntry'
    BY <1>5 DEF StartThread
  <2>5. Entered'
    BY <1>5 DEF StartThread
  <2>6. EntriesMapped'
    BY <1>5 DEF StartThread
  <2> QED
    BY <2>1, <2>2, <2>3, <2>4, <2>5, <2>6
<1>6. ASSUME NEW a \in Actors, StartFails(a) PROVE TableCore'
  BY <1>6 DEF StartFails
<1>7. ASSUME NEW a \in Actors, Store(a) PROVE TableCore'
  BY <1>7 DEF Store
<1>8. ASSUME NEW a \in Actors, Discard(a) PROVE TableCore'
  BY <1>8 DEF Discard
<1>9. ASSUME NEW a \in Actors, FindEntry(a, "drop", "unclaim", "discard") PROVE TableCore'
  <2>1. Finds(a, "drop", "unclaim", "discard")
    BY <1>9, EntryFound, Zenon
  <2>2. OneCreator'
    BY <2>1 DEF Finds
  <2>3. UnbornPrivate'
    BY <2>1 DEF Finds
  <2>4. JoinsKnown'
    BY <2>1 DEF Finds
  <2>5. OneEntry'
    BY <2>1 DEF Finds
  <2>6. Entered'
    BY <2>1 DEF Finds
  <2>7. EntriesMapped'
    BY <2>1 DEF Finds
  <2> QED
    BY <2>2, <2>3, <2>4, <2>5, <2>6, <2>7
<1>10. ASSUME NEW a \in Actors, ClearEntry(a, "unclaim", "discard") PROVE TableCore'
  BY <1>10 DEF ClearEntry
<1>11. ASSUME NEW a \in Actors, Tracked(a) PROVE TableCore'
  BY <1>11 DEF Tracked, Found
<1>12. ASSUME NEW a \in Actors, Check(a) PROVE TableCore'
  BY <1>12 DEF Check
<1>13. ASSUME NEW a \in Actors, Mark(a) PROVE TableCore'
  BY <1>13 DEF Mark
<1>14. ASSUME NEW a \in Actors, ReadHandle(a) PROVE TableCore'
  BY <1>14 DEF ReadHandle
<1>15. ASSUME NEW a \in Actors, Wait(a) PROVE TableCore'
  BY <1>15 DEF Wait
<1>16. ASSUME NEW a \in Actors, Close(a) PROVE TableCore'
  BY <1>16 DEF Close
<1>17. ASSUME NEW a \in Actors, Collect(a) PROVE TableCore'
  BY <1>17 DEF Collect
<1>18. ASSUME NEW a \in Actors, FindEntry(a, "untrack", "erase", "free") PROVE TableCore'
  <2>1. Finds(a, "untrack", "erase", "free")
    BY <1>18, EntryFound, Zenon
  <2>2. OneCreator'
    BY <2>1 DEF Finds
  <2>3. UnbornPrivate'
    BY <2>1 DEF Finds
  <2>4. JoinsKnown'
    BY <2>1 DEF Finds
  <2>5. OneEntry'
    BY <2>1 DEF Finds
  <2>6. Entered'
    BY <2>1 DEF Finds
  <2>7. EntriesMapped'
    BY <2>1 DEF Finds
  <2> QED
    BY <2>2, <2>3, <2>4, <2>5, <2>6, <2>7
<1>19. ASSUME NEW a \in Actors, ClearEntry(a, "erase", "free") PROVE TableCore'
  BY <1>19 DEF ClearEntry
<1>20. ASSUME NEW a \in Actors, Free(a) PROVE TableCore'
  BY <1>20 DEF Free
<1>21. ASSUME NEW s \in Slots, Trampoline(s) PROVE TableCore'
  BY <1>21 DEF Trampoline
<1>22. ASSUME NEW s \in Slots, NEW v \in Values, Return(s, v) PROVE TableCore'
  BY <1>22 DEF Return
<1>23. ASSUME NEW s \in Slots, SetRetval(s) PROVE TableCore'
  BY <1>23 DEF SetRetval
<1>24. ASSUME NEW s \in Slots, Exit(s) PROVE TableCore'
  BY <1>24 DEF Exit
<1>25. ASSUME MainExit PROVE TableCore'
  BY <1>25 DEF MainExit
<1> QED
  BY <1>1, <1>2, <1>3, <1>4, <1>5, <1>6, <1>7, <1>8, <1>9, <1>10, <1>11, <1>12, <1>13,
     <1>14, <1>15, <1>16, <1>17, <1>18, <1>19, <1>20, <1>21, <1>22, <1>23, <1>24, <1>25
  DEF Next, Creating, Joining, Ending

-----------------------------------------------------------------------------
(* Joins.                                                                  *)
LEMMA DeliveryKept ==
  ASSUME Typed, TableCore, DeliveryCore, Next,
         windows' \intersect {"early", "stale"} = {}
  PROVE  DeliveryCore'
<1> USE DEF Typed, TableCore, OneCreator, UnbornPrivate, JoinsKnown,
          DeliveryCore, StoringAlone, ReturnedKept, HandleTells, WaitedEnded, GotRight,
          Storing, Ended
<1>1. ASSUME NEW a \in Actors, NEW s \in Slots, Alloc(a, s) PROVE DeliveryCore'
  <2>1. StoringAlone'
    BY <1>1 DEF Alloc, Operates
  <2>2. ReturnedKept'
    BY <1>1 DEF Alloc, Operates
  <2>3. HandleTells'
    <3> SUFFICES ASSUME NEW t \in known'
                 PROVE  (t \in open /\ handle[t])' \/ Storing(t)' \/ Ended(t)'
      BY DEF HandleTells
    <3>1. t \in known /\ t # s
      BY <1>1 DEF Alloc
    <3>2. /\ open' = open /\ handle'[t] = handle[t]
          /\ retval'[t] = retval[t] /\ returned' = returned
          /\ pc'[t] = pc[t] \/ t = a
          /\ \A b \in Actors : b # a => pc'[b] = pc[b] /\ target'[b] = target[b]
          /\ pc[a] = "run"
      BY <1>1, <3>1 DEF Alloc
    <3>3. Storing(t) => Storing(t)'
      BY <3>2
    <3>4. Ended(t) => Ended(t)'
      BY <3>2
    <3> HIDE DEF Storing, Ended
    <3> QED
      BY <3>1, <3>2, <3>3, <3>4
  <2>4. WaitedEnded'
    BY ZenonT(40), <1>1 DEF Alloc, Operates
  <2>5. GotRight'
    BY <1>1 DEF Alloc, Operates
  <2> QED
    BY <2>1, <2>2, <2>3, <2>4, <2>5
<1>2. ASSUME NEW a \in Actors, NEW s \in Slots, Join(a, s) PROVE DeliveryCore'
  BY <1>2 DEF Join
<1>3. ASSUME NEW a \in Actors, Search(a) PROVE DeliveryCore'
  BY <1>3 DEF Search
<1>4. ASSUME NEW a \in Actors, Claim(a) PROVE DeliveryCore'
  BY <1>4 DEF Claim
<1>5. ASSUME NEW a \in Actors, StartThread(a) PROVE DeliveryCore'
  <2>1. StoringAlone'
    BY <1>5 DEF StartThread
  <2>2. ReturnedKept'
    BY <1>5 DEF StartThread
  <2>3. HandleTells'
    BY ZenonT(40), <1>5 DEF StartThread
  <2>4. WaitedEnded'
    BY <1>5 DEF StartThread
  <2>5. GotRight'
    BY <1>5 DEF StartThread
  <2> QED
    BY <2>1, <2>2, <2>3, <2>4, <2>5
<1>6. ASSUME NEW a \in Actors, StartFails(a) PROVE DeliveryCore'
  BY <1>6 DEF StartFails
<1>7. ASSUME NEW a \in Actors, Store(a) PROVE DeliveryCore'
  <2>1. StoringAlone'
    BY <1>7, WinThreadsAssumption DEF Store
  <2>2. ReturnedKept'
    BY <1>7, WinThreadsAssumption DEF Store
  <2>3. HandleTells'
    <3> SUFFICES ASSUME NEW t \in known'
                 PROVE  (t \in open /\ handle[t])' \/ Storing(t)' \/ Ended(t)'
      BY DEF HandleTells
    <3>1. CASE t = target[a]
      BY <1>7, <3>1 DEF Store
    <3>2. CASE t # target[a]
      <4>1. /\ open' = open /\ handle'[t] = handle[t]
            /\ retval' = retval /\ returned' = returned
            /\ \A b \in Actors : b # a => pc'[b] = pc[b] /\ target'[b] = target[b]
            /\ pc[a] = "store"
        BY <1>7, <3>2 DEF Store
      <4>2. Ended(t) => Ended(t)'
        BY <1>7, <3>2 DEF Store
      <4>3. Storing(t) => Storing(t)'
        BY <3>2, <4>1
      <4> QED
        BY <1>7, <4>1, <4>2, <4>3 DEF Store
    <3> QED
      BY <3>1, <3>2
  <2>4. WaitedEnded'
    BY <1>7, WinThreadsAssumption DEF Store
  <2>5. GotRight'
    BY <1>7, WinThreadsAssumption DEF Store
  <2> QED
    BY <2>1, <2>2, <2>3, <2>4, <2>5
<1>8. ASSUME NEW a \in Actors, Discard(a) PROVE DeliveryCore'
  BY <1>8 DEF Discard
<1>9. ASSUME NEW a \in Actors, FindEntry(a, "drop", "unclaim", "discard")
      PROVE  DeliveryCore'
  <2>1. Finds(a, "drop", "unclaim", "discard")
    BY <1>9, EntryFound, Zenon
  <2>2. StoringAlone'
    BY <2>1 DEF Finds
  <2>3. ReturnedKept'
    BY <2>1 DEF Finds
  <2>4. HandleTells'
    BY <2>1 DEF Finds
  <2>5. WaitedEnded'
    BY <2>1 DEF Finds
  <2>6. GotRight'
    BY <2>1 DEF Finds
  <2> QED
    BY <2>2, <2>3, <2>4, <2>5, <2>6
<1>10. ASSUME NEW a \in Actors, ClearEntry(a, "unclaim", "discard") PROVE DeliveryCore'
  BY <1>10 DEF ClearEntry
<1>11. ASSUME NEW a \in Actors, Tracked(a) PROVE DeliveryCore'
  BY <1>11 DEF Tracked, Found
<1>12. ASSUME NEW a \in Actors, Check(a) PROVE DeliveryCore'
  BY <1>12 DEF Check
<1>13. ASSUME NEW a \in Actors, Mark(a) PROVE DeliveryCore'
  <2>1. StoringAlone'
    BY <1>13 DEF Mark
  <2>2. ReturnedKept'
    BY <1>13 DEF Mark
  <2>3. HandleTells'
    BY <1>13 DEF Mark
  <2>4. WaitedEnded'
    BY <1>13 DEF Mark
  <2>5. GotRight'
    BY <1>13 DEF Mark
  <2> QED
    BY <2>1, <2>2, <2>3, <2>4, <2>5
<1>14. ASSUME NEW a \in Actors, ReadHandle(a) PROVE DeliveryCore'
  BY <1>14 DEF ReadHandle
<1>15. ASSUME NEW a \in Actors, Wait(a) PROVE DeliveryCore'
  <2>1. StoringAlone'
    BY <1>15, WinThreadsAssumption DEF Wait
  <2>2. ReturnedKept'
    BY <1>15, WinThreadsAssumption DEF Wait
  <2>3. HandleTells'
    BY <1>15, WinThreadsAssumption DEF Wait
  <2>4. WaitedEnded'
    <3>1. Ended(target[a])
      <4>1. target[a] \in known /\ ~ Storing(target[a])
        BY <1>15 DEF Wait
      <4> QED
        BY <1>15, <4>1 DEF Wait
    <3> QED
      BY <1>15, <3>1 DEF Wait
  <2>5. GotRight'
    BY <1>15, WinThreadsAssumption DEF Wait
  <2> QED
    BY <2>1, <2>2, <2>3, <2>4, <2>5
<1>16. ASSUME NEW a \in Actors, Close(a) PROVE DeliveryCore'
  <2>1. StoringAlone'
    BY <1>16 DEF Close
  <2>2. ReturnedKept'
    BY <1>16 DEF Close
  <2>3. HandleTells'
    <3>1. \A t \in Slots : Storing(t) => Storing(t)'
      BY <1>16 DEF Close
    <3>2. \A t \in Slots : Ended(t) => Ended(t)'
      BY <1>16 DEF Close
    <3>3. Ended(target[a])
      BY <1>16 DEF Close
    <3> HIDE DEF Storing, Ended
    <3> QED
      BY <1>16, <3>1, <3>2, <3>3 DEF Close
  <2>4. WaitedEnded'
    BY <1>16 DEF Close
  <2>5. GotRight'
    BY <1>16 DEF Close
  <2> QED
    BY <2>1, <2>2, <2>3, <2>4, <2>5
<1>17. ASSUME NEW a \in Actors, Collect(a) PROVE DeliveryCore'
  BY <1>17 DEF Collect
<1>18. ASSUME NEW a \in Actors, FindEntry(a, "untrack", "erase", "free") PROVE DeliveryCore'
  <2>1. Finds(a, "untrack", "erase", "free")
    BY <1>18, EntryFound, Zenon
  <2>2. StoringAlone'
    BY <2>1 DEF Finds
  <2>3. ReturnedKept'
    BY <2>1 DEF Finds
  <2>4. HandleTells'
    BY <2>1 DEF Finds
  <2>5. WaitedEnded'
    BY <2>1 DEF Finds
  <2>6. GotRight'
    BY <2>1 DEF Finds
  <2> QED
    BY <2>2, <2>3, <2>4, <2>5, <2>6
<1>19. ASSUME NEW a \in Actors, ClearEntry(a, "erase", "free") PROVE DeliveryCore'
  BY <1>19 DEF ClearEntry
<1>20. ASSUME NEW a \in Actors, Free(a) PROVE DeliveryCore'
  BY <1>20 DEF Free
<1>21. ASSUME NEW s \in Slots, Trampoline(s) PROVE DeliveryCore'
  BY <1>21 DEF Trampoline
<1>22. ASSUME NEW s \in Slots, NEW v \in Values, Return(s, v) PROVE DeliveryCore'
  <2>1. StoringAlone'
    BY <1>22 DEF Return
  <2>2. ReturnedKept'
    BY <1>22 DEF Return
  <2>3. HandleTells'
    BY <1>22 DEF Return
  <2>4. WaitedEnded'
    BY <1>22 DEF Return
  <2>5. GotRight'
    BY <1>22 DEF Return
  <2> QED
    BY <2>1, <2>2, <2>3, <2>4, <2>5
<1>23. ASSUME NEW s \in Slots, SetRetval(s) PROVE DeliveryCore'
  <2>1. StoringAlone'
    BY <1>23 DEF SetRetval
  <2>2. ReturnedKept'
    BY <1>23 DEF SetRetval
  <2>3. HandleTells'
    BY <1>23 DEF SetRetval
  <2>4. WaitedEnded'
    BY <1>23 DEF SetRetval
  <2>5. GotRight'
    BY <1>23 DEF SetRetval
  <2> QED
    BY <2>1, <2>2, <2>3, <2>4, <2>5
<1>24. ASSUME NEW s \in Slots, Exit(s) PROVE DeliveryCore'
  BY <1>24 DEF Exit
<1>25. ASSUME MainExit PROVE DeliveryCore'
  <2>1. StoringAlone'
    BY <1>25, WinThreadsAssumption DEF MainExit
  <2>2. ReturnedKept'
    BY <1>25, WinThreadsAssumption DEF MainExit
  <2>3. HandleTells'
    BY <1>25, WinThreadsAssumption DEF MainExit
  <2>4. WaitedEnded'
    BY <1>25, WinThreadsAssumption DEF MainExit
  <2>5. GotRight'
    BY <1>25, WinThreadsAssumption DEF MainExit
  <2> QED
    BY <2>1, <2>2, <2>3, <2>4, <2>5
<1> QED
  BY <1>1, <1>2, <1>3, <1>4, <1>5, <1>6, <1>7, <1>8, <1>9, <1>10, <1>11, <1>12, <1>13,
     <1>14, <1>15, <1>16, <1>17, <1>18, <1>19, <1>20, <1>21, <1>22, <1>23, <1>24, <1>25
  DEF Next, Creating, Joining, Ending

-----------------------------------------------------------------------------
(* Memory.                                                                 *)

LEMMA MemoryKept ==
  ASSUME Typed, TableCore, DeliveryCore, MemoryCore, Next,
         windows' \intersect {"early", "contended", "stale"} = {}
  PROVE  MemoryCore'
<1> USE DEF Typed, TableCore, OneCreator, UnbornPrivate, JoinsKnown, Entered, EntriesMapped,
          DeliveryCore, StoringAlone, HandleTells, WaitedEnded, ReturnedKept, Ended,
          MemoryCore, OneJoiner, LivingMapped, StoringMapped,
          JoinersHold, TrackedJoinable, Joinable, Storing
<1>1. ASSUME NEW a \in Actors, NEW s \in Slots, Alloc(a, s) PROVE MemoryCore'
  <2>1. \A t \in Slots : Joinable(t) => Joinable(t)'
    BY <1>1 DEF Alloc, Operates
  <2>2. OneJoiner'
    BY <1>1 DEF Alloc, Operates
  <2>3. LivingMapped'
    BY <1>1 DEF Alloc, Operates
  <2>4. StoringMapped'
    BY <1>1 DEF Alloc, Operates
  <2>5. JoinersHold'
    <3> HIDE DEF Joinable
    <3> QED
      BY <1>1, <2>1 DEF Alloc, Operates
  <2>6. TrackedJoinable'
    <3> HIDE DEF Joinable
    <3> QED
      BY <1>1, <2>1 DEF Alloc, Operates
  <2> QED
    BY <2>2, <2>3, <2>4, <2>5, <2>6
<1>2. ASSUME NEW a \in Actors, NEW s \in Slots, Join(a, s) PROVE MemoryCore'
  <2>1. \A t \in Slots : Joinable(t) => Joinable(t)'
    BY <1>2 DEF Join
  <2>2. OneJoiner'
    BY <1>2 DEF Join
  <2>3. LivingMapped'
    BY <1>2 DEF Join
  <2>4. StoringMapped'
    BY <1>2 DEF Join
  <2>5. JoinersHold'
    <3> HIDE DEF Joinable
    <3> QED
      BY <1>2, <2>1 DEF Join
  <2>6. TrackedJoinable'
    <3> HIDE DEF Joinable
    <3> QED
      BY <1>2, <2>1 DEF Join
  <2> QED
    BY <2>2, <2>3, <2>4, <2>5, <2>6
<1>3. ASSUME NEW a \in Actors, Search(a) PROVE MemoryCore'
  <2>1. \A t \in Slots : Joinable(t) => Joinable(t)'
    BY <1>3 DEF Search
  <2>2. OneJoiner'
    BY <1>3 DEF Search
  <2>3. LivingMapped'
    BY <1>3 DEF Search
  <2>4. StoringMapped'
    BY <1>3 DEF Search
  <2>5. JoinersHold'
    <3> HIDE DEF Joinable
    <3> QED
      BY <1>3, <2>1 DEF Search
  <2>6. TrackedJoinable'
    <3> HIDE DEF Joinable
    <3> QED
      BY <1>3, <2>1 DEF Search
  <2> QED
    BY <2>2, <2>3, <2>4, <2>5, <2>6
<1>4. ASSUME NEW a \in Actors, Claim(a) PROVE MemoryCore'
  BY <1>4 DEF Claim
<1>5. ASSUME NEW a \in Actors, StartThread(a) PROVE MemoryCore'
  <2>1. \A t \in Slots : Joinable(t) => Joinable(t)'
    BY ZenonT(40), <1>5 DEF StartThread
  <2>2. OneJoiner'
    BY <1>5 DEF StartThread
  <2>3. LivingMapped'
    BY <1>5 DEF StartThread
  <2>4. StoringMapped'
    BY <1>5 DEF StartThread
  <2>5. JoinersHold'
    <3> HIDE DEF Joinable
    <3> QED
      BY <1>5, <2>1 DEF StartThread
  <2>6. TrackedJoinable'
    <3>1. Joinable(target[a])'
      BY <1>5 DEF StartThread
    <3> HIDE DEF Joinable
    <3> QED
      BY <1>5, <2>1, <3>1 DEF StartThread
  <2> QED
    BY <2>2, <2>3, <2>4, <2>5, <2>6
<1>6. ASSUME NEW a \in Actors, StartFails(a) PROVE MemoryCore'
  BY <1>6 DEF StartFails
<1>7. ASSUME NEW a \in Actors, Store(a) PROVE MemoryCore'
  <2>1. \A t \in Slots : Joinable(t) => Joinable(t)'
    BY <1>7 DEF Store
  <2>2. OneJoiner'
    BY <1>7 DEF Store
  <2>3. LivingMapped'
    BY <1>7 DEF Store
  <2>4. StoringMapped'
    BY <1>7 DEF Store
  <2>5. JoinersHold'
    <3> HIDE DEF Joinable
    <3> QED
      BY <1>7, <2>1 DEF Store
  <2>6. TrackedJoinable'
    <3> HIDE DEF Joinable
    <3> QED
      BY <1>7, <2>1 DEF Store
  <2> QED
    BY <2>2, <2>3, <2>4, <2>5, <2>6
<1>8. ASSUME NEW a \in Actors, Discard(a) PROVE MemoryCore'
  BY <1>8 DEF Discard
<1>9. ASSUME NEW a \in Actors, FindEntry(a, "drop", "unclaim", "discard") PROVE MemoryCore'
  <2>0. Finds(a, "drop", "unclaim", "discard")
    BY <1>9, EntryFound, Zenon
  <2>1. \A t \in Slots : Joinable(t) => Joinable(t)'
    BY <2>0 DEF Finds
  <2>2. OneJoiner'
    BY <2>0 DEF Finds
  <2>3. LivingMapped'
    BY <2>0 DEF Finds
  <2>4. StoringMapped'
    BY <2>0 DEF Finds
  <2>5. JoinersHold'
    <3> HIDE DEF Joinable
    <3> QED
      BY <2>0, <2>1 DEF Finds
  <2>6. TrackedJoinable'
    <3> HIDE DEF Joinable
    <3> QED
      BY <2>0, <2>1 DEF Finds
  <2> QED
    BY <2>2, <2>3, <2>4, <2>5, <2>6
<1>10. ASSUME NEW a \in Actors, ClearEntry(a, "unclaim", "discard") PROVE MemoryCore'
  BY <1>10 DEF ClearEntry
<1>11. ASSUME NEW a \in Actors, Tracked(a) PROVE MemoryCore'
  <2>1. \A t \in Slots : Joinable(t) => Joinable(t)'
    BY <1>11 DEF Tracked
  <2>2. OneJoiner'
    BY <1>11 DEF Tracked
  <2>3. LivingMapped'
    BY <1>11 DEF Tracked
  <2>4. StoringMapped'
    BY <1>11 DEF Tracked
  <2>5. JoinersHold'
    <3>1. ASSUME Found(target[a]) # {}
          PROVE  Joinable(target[a])
      <4>1. PICK i \in Index : target[a] \in table[i]
        BY <3>1 DEF Found
      <4>2. target[a] \in known /\ pc[a] = "tracked"
        BY <1>11 DEF Tracked
      <4>3. ~ \E b \in Actors : pc[b] \in Closed /\ target[b] = target[a]
        BY <4>2
      <4> HIDE DEF Joinable
      <4> QED
        BY <4>1, <4>2, <4>3
    <3> HIDE DEF Joinable
    <3> QED
      BY <1>11, <2>1, <3>1 DEF Tracked
  <2>6. TrackedJoinable'
    <3> HIDE DEF Joinable
    <3> QED
      BY <1>11, <2>1 DEF Tracked
  <2> QED
    BY <2>2, <2>3, <2>4, <2>5, <2>6
<1>12. ASSUME NEW a \in Actors, Check(a) PROVE MemoryCore'
  BY <1>12 DEF Check
<1>13. ASSUME NEW a \in Actors, Mark(a) PROVE MemoryCore'
  <2>1. \A t \in Slots : Joinable(t) => Joinable(t)'
    BY <1>13 DEF Mark
  <2>2. OneJoiner'
    BY <1>13 DEF Mark
  <2>3. LivingMapped'
    BY <1>13 DEF Mark
  <2>4. StoringMapped'
    BY <1>13 DEF Mark
  <2>5. JoinersHold'
    <3> HIDE DEF Joinable
    <3> QED
      BY <1>13, <2>1 DEF Mark
  <2>6. TrackedJoinable'
    <3> HIDE DEF Joinable
    <3> QED
      BY <1>13, <2>1 DEF Mark
  <2> QED
    BY <2>2, <2>3, <2>4, <2>5, <2>6
<1>14. ASSUME NEW a \in Actors, ReadHandle(a) PROVE MemoryCore'
  BY <1>14 DEF ReadHandle
<1>15. ASSUME NEW a \in Actors, Wait(a) PROVE MemoryCore'
  BY <1>15 DEF Wait
<1>16. ASSUME NEW a \in Actors, Close(a) PROVE MemoryCore'
  <2>1. \A t \in Slots : t # target[a] /\ Joinable(t) => Joinable(t)'
    BY <1>16 DEF Close
  <2>2. OneJoiner'
    BY <1>16 DEF Close
  <2>3. LivingMapped'
    BY <1>16 DEF Close
  <2>4. StoringMapped'
    BY <1>16 DEF Close
  <2>5. JoinersHold'
    <3> HIDE DEF Joinable
    <3> QED
      BY <1>16, <2>1 DEF Close
  <2>6. TrackedJoinable'
    <3> HIDE DEF Joinable
    <3> QED
      BY <1>16, <2>1 DEF Close
  <2> QED
    BY <2>2, <2>3, <2>4, <2>5, <2>6
<1>17. ASSUME NEW a \in Actors, Collect(a) PROVE MemoryCore'
  BY <1>17 DEF Collect
<1>18. ASSUME NEW a \in Actors, FindEntry(a, "untrack", "erase", "free") PROVE MemoryCore'
  <2>0. Finds(a, "untrack", "erase", "free")
    BY <1>18, EntryFound, Zenon
  <2>1. \A t \in Slots : Joinable(t) => Joinable(t)'
    BY <2>0 DEF Finds
  <2>2. OneJoiner'
    BY <2>0 DEF Finds
  <2>3. LivingMapped'
    BY <2>0 DEF Finds
  <2>4. StoringMapped'
    BY <2>0 DEF Finds
  <2>5. JoinersHold'
    <3> HIDE DEF Joinable
    <3> QED
      BY <2>0, <2>1 DEF Finds
  <2>6. TrackedJoinable'
    <3>1. \A t \in Slots : (\E b \in Actors : pc[b] \in Closed /\ target[b] = t)
                         => (\E b \in Actors : pc[b] \in Closed /\ target[b] = t)'
      BY <2>0 DEF Finds
    <3>2. table' = table /\ known' = known
      BY <2>0 DEF Finds
    <3> HIDE DEF Joinable, Closed
    <3> QED
      BY <2>1, <3>1, <3>2
  <2> QED
    BY <2>2, <2>3, <2>4, <2>5, <2>6
<1>19. ASSUME NEW a \in Actors, ClearEntry(a, "erase", "free") PROVE MemoryCore'
  BY <1>19 DEF ClearEntry
<1>20. ASSUME NEW a \in Actors, Free(a) PROVE MemoryCore'
  BY <1>20 DEF Free
<1>21. ASSUME NEW s \in Slots, Trampoline(s) PROVE MemoryCore'
  BY <1>21 DEF Trampoline
<1>22. ASSUME NEW s \in Slots, NEW v \in Values, Return(s, v) PROVE MemoryCore'
  <2>1. \A t \in Slots : Joinable(t) => Joinable(t)'
    BY <1>22 DEF Return
  <2>2. OneJoiner'
    BY <1>22 DEF Return
  <2>3. LivingMapped'
    BY <1>22 DEF Return
  <2>4. StoringMapped'
    BY <1>22 DEF Return
  <2>5. JoinersHold'
    <3> HIDE DEF Joinable
    <3> QED
      BY <1>22, <2>1 DEF Return
  <2>6. TrackedJoinable'
    <3> HIDE DEF Joinable
    <3> QED
      BY <1>22, <2>1 DEF Return
  <2> QED
    BY <2>2, <2>3, <2>4, <2>5, <2>6
<1>23. ASSUME NEW s \in Slots, SetRetval(s) PROVE MemoryCore'
  <2>1. \A t \in Slots : Joinable(t) => Joinable(t)'
    BY <1>23 DEF SetRetval
  <2>2. OneJoiner'
    BY <1>23 DEF SetRetval
  <2>3. LivingMapped'
    BY <1>23 DEF SetRetval
  <2>4. StoringMapped'
    BY <1>23 DEF SetRetval
  <2>5. JoinersHold'
    <3> HIDE DEF Joinable
    <3> QED
      BY <1>23, <2>1 DEF SetRetval
  <2>6. TrackedJoinable'
    <3> HIDE DEF Joinable
    <3> QED
      BY <1>23, <2>1 DEF SetRetval
  <2> QED
    BY <2>2, <2>3, <2>4, <2>5, <2>6
<1>24. ASSUME NEW s \in Slots, Exit(s) PROVE MemoryCore'
  BY <1>24 DEF Exit
<1>25. ASSUME MainExit PROVE MemoryCore'
  <2>1. \A t \in Slots : Joinable(t) => Joinable(t)'
    BY <1>25, WinThreadsAssumption DEF MainExit
  <2>2. OneJoiner'
    BY <1>25, WinThreadsAssumption DEF MainExit
  <2>3. LivingMapped'
    BY <1>25, WinThreadsAssumption DEF MainExit
  <2>4. StoringMapped'
    BY <1>25, WinThreadsAssumption DEF MainExit
  <2>5. JoinersHold'
    <3> HIDE DEF Joinable
    <3> QED
      BY <1>25, <2>1, WinThreadsAssumption DEF MainExit
  <2>6. TrackedJoinable'
    <3> HIDE DEF Joinable
    <3> QED
      BY <1>25, <2>1, WinThreadsAssumption DEF MainExit
  <2> QED
    BY <2>2, <2>3, <2>4, <2>5, <2>6
<1> QED
  BY ZenonT(40), <1>1, <1>2, <1>3, <1>4, <1>5, <1>6, <1>7, <1>8, <1>9, <1>10, <1>11, <1>12, <1>13,
     <1>14, <1>15, <1>16, <1>17, <1>18, <1>19, <1>20, <1>21, <1>22, <1>23, <1>24, <1>25
  DEF Next, Creating, Joining, Ending

-----------------------------------------------------------------------------
(* Accounting.                                                             *)
LEMMA AccountKept ==
  ASSUME Typed, Placed, TableCore, MemoryCore, AccountCore, Next, windows' = {}
  PROVE  AccountCore'
<1> USE DEF Typed, Placed, TableCore, OneCreator, UnbornPrivate, JoinsKnown,
          OneEntry, Entered, EntriesMapped, MemoryCore, OneJoiner, AccountCore,
          OneSearch, ClaimsEmpty,
          StartsEntered, OpenEntered, ErasesOwn, ClosedShut, JoinedByOne, MappedAccounted
<1>1. ASSUME NEW a \in Actors, NEW s \in Slots, Alloc(a, s) PROVE AccountCore'
  <2>1. \A t \in Slots : HasEntry(t) => HasEntry(t)'
    BY <1>1 DEF Alloc, HasEntry
  <2>2. \A t \in Slots : JoinedNow(t) => JoinedNow(t)'
    BY <1>1 DEF Alloc, JoinedNow
  <2>3. \A t \in Slots : WorkedOn(t) => WorkedOn(t)'
    BY <1>1 DEF Alloc, WorkedOn
  <2>4. OneSearch'
    BY <1>1 DEF Alloc
  <2>5. ClaimsEmpty'
    BY <1>1 DEF Alloc
  <2>6. StartsEntered'
    BY <1>1, <2>1 DEF Alloc
  <2>7. OpenEntered'
    BY <1>1, <2>1 DEF Alloc
  <2>8. ErasesOwn'
    BY <1>1 DEF Alloc
  <2>9. ClosedShut'
    BY <1>1 DEF Alloc
  <2>10. JoinedByOne'
    BY <1>1, <2>2 DEF Alloc
  <2>11. MappedAccounted'
    <3>1. WorkedOn(s)'
      <4>1. pc'[a] = "search" /\ target'[a] = s
        BY <1>1 DEF Alloc
      <4> QED
        BY <4>1 DEF WorkedOn
    <3> QED
      BY <1>1, <2>3, <3>1 DEF Alloc
  <2> QED
    BY <2>4, <2>5, <2>6, <2>7, <2>8, <2>9, <2>10, <2>11
<1>2. ASSUME NEW a \in Actors, NEW s \in Slots, Join(a, s) PROVE AccountCore'
  <2>1. \A t \in Slots : HasEntry(t) => HasEntry(t)'
    BY <1>2 DEF Join, HasEntry
  <2>2. \A t \in Slots : JoinedNow(t) => JoinedNow(t)'
    BY <1>2 DEF Join, JoinedNow
  <2>3. \A t \in Slots : WorkedOn(t) => WorkedOn(t)'
    BY <1>2 DEF Join, WorkedOn
  <2>4. OneSearch'
    BY <1>2 DEF Join
  <2>5. ClaimsEmpty'
    BY <1>2 DEF Join
  <2>6. StartsEntered'
    BY <1>2, <2>1 DEF Join
  <2>7. OpenEntered'
    BY <1>2, <2>1 DEF Join
  <2>8. ErasesOwn'
    BY <1>2 DEF Join
  <2>9. ClosedShut'
    BY <1>2 DEF Join
  <2>10. JoinedByOne'
    BY <1>2, <2>2 DEF Join
  <2>11. MappedAccounted'
    BY <1>2, <2>3 DEF Join
  <2> QED
    BY <2>4, <2>5, <2>6, <2>7, <2>8, <2>9, <2>10, <2>11
<1>3. ASSUME NEW a \in Actors, Search(a) PROVE AccountCore'
  <2>1. \A t \in Slots : HasEntry(t) => HasEntry(t)'
    BY <1>3 DEF Search, HasEntry
  <2>2. \A t \in Slots : JoinedNow(t) => JoinedNow(t)'
    BY <1>3 DEF Search, JoinedNow
  <2>3. \A t \in Slots : WorkedOn(t) => WorkedOn(t)'
    BY <1>3 DEF Search, WorkedOn
  <2>4. OneSearch'
    BY <1>3 DEF Search
  <2>5. ClaimsEmpty'
    BY <1>3 DEF Search
  <2>6. StartsEntered'
    BY <1>3, <2>1 DEF Search
  <2>7. OpenEntered'
    BY <1>3, <2>1 DEF Search
  <2>8. ErasesOwn'
    BY <1>3 DEF Search
  <2>9. ClosedShut'
    BY <1>3 DEF Search
  <2>10. JoinedByOne'
    BY <1>3, <2>2 DEF Search
  <2>11. MappedAccounted'
    BY <1>3, <2>3 DEF Search
  <2> QED
    BY <2>4, <2>5, <2>6, <2>7, <2>8, <2>9, <2>10, <2>11
<1>4. ASSUME NEW a \in Actors, Claim(a) PROVE AccountCore'
  <2>1. \A t \in Slots : HasEntry(t) => HasEntry(t)'
    BY <1>4 DEF Claim, HasEntry
  <2>2. \A t \in Slots : JoinedNow(t) => JoinedNow(t)'
    BY <1>4 DEF Claim, JoinedNow
  <2>3. \A t \in Slots : WorkedOn(t) => WorkedOn(t)'
    BY <1>4 DEF Claim, WorkedOn
  <2>4. OneSearch'
    BY <1>4 DEF Claim
  <2>5. ClaimsEmpty'
    BY <1>4 DEF Claim
  <2>6. StartsEntered'
    <3>1. HasEntry(target[a])'
      <4>1. at[a] \in Index /\ table'[at[a]] = {target[a]} /\ target' = target
        BY <1>4 DEF Claim
      <4> QED
        BY <4>1 DEF HasEntry
    <3> QED
      BY <1>4, <2>1, <3>1 DEF Claim
  <2>7. OpenEntered'
    BY <1>4, <2>1 DEF Claim
  <2>8. ErasesOwn'
    BY <1>4 DEF Claim
  <2>9. ClosedShut'
    BY <1>4 DEF Claim
  <2>10. JoinedByOne'
    BY <1>4, <2>2 DEF Claim
  <2>11. MappedAccounted'
    BY <1>4, <2>3 DEF Claim
  <2> QED
    BY <2>4, <2>5, <2>6, <2>7, <2>8, <2>9, <2>10, <2>11
<1>5. ASSUME NEW a \in Actors, StartThread(a) PROVE AccountCore'
  <2>1. \A t \in Slots : HasEntry(t) => HasEntry(t)'
    BY <1>5 DEF StartThread, HasEntry
  <2>2. \A t \in Slots : JoinedNow(t) => JoinedNow(t)'
    <3>1. pc[a] = "start" /\ pc[target[a]] = "none" /\ target' = target
      BY <1>5 DEF StartThread
    <3>2. \A b \in Actors : b # a /\ b # target[a] => pc'[b] = pc[b]
      BY <1>5 DEF StartThread
    <3> QED
      BY <3>1, <3>2 DEF JoinedNow
  <2>3. \A t \in Slots : t # target[a] /\ WorkedOn(t) => WorkedOn(t)'
    BY <1>5 DEF StartThread, WorkedOn
  <2>4. OneSearch'
    BY <1>5 DEF StartThread
  <2>5. ClaimsEmpty'
    BY <1>5 DEF StartThread
  <2>6. StartsEntered'
    BY <1>5, <2>1 DEF StartThread
  <2>7. OpenEntered'
    BY <1>5, <2>1 DEF StartThread
  <2>8. ErasesOwn'
    BY <1>5 DEF StartThread
  <2>9. ClosedShut'
    BY <1>5 DEF StartThread
  <2>10. JoinedByOne'
    BY <1>5, <2>2 DEF StartThread
  <2>11. MappedAccounted'
    BY <1>5, <2>3 DEF StartThread
  <2> QED
    BY <2>4, <2>5, <2>6, <2>7, <2>8, <2>9, <2>10, <2>11
<1>6. ASSUME NEW a \in Actors, StartFails(a) PROVE AccountCore'
  <2>1. \A t \in Slots : HasEntry(t) => HasEntry(t)'
    BY <1>6 DEF StartFails, HasEntry
  <2>2. \A t \in Slots : JoinedNow(t) => JoinedNow(t)'
    BY <1>6 DEF StartFails, JoinedNow
  <2>3. \A t \in Slots : WorkedOn(t) => WorkedOn(t)'
    BY <1>6 DEF StartFails, WorkedOn
  <2>4. OneSearch'
    BY <1>6 DEF StartFails
  <2>5. ClaimsEmpty'
    BY <1>6 DEF StartFails
  <2>6. StartsEntered'
    BY <1>6, <2>1 DEF StartFails
  <2>7. OpenEntered'
    BY <1>6, <2>1 DEF StartFails
  <2>8. ErasesOwn'
    BY <1>6 DEF StartFails
  <2>9. ClosedShut'
    BY <1>6 DEF StartFails
  <2>10. JoinedByOne'
    BY <1>6, <2>2 DEF StartFails
  <2>11. MappedAccounted'
    BY <1>6, <2>3 DEF StartFails
  <2> QED
    BY <2>4, <2>5, <2>6, <2>7, <2>8, <2>9, <2>10, <2>11
<1>7. ASSUME NEW a \in Actors, Store(a) PROVE AccountCore'
  <2>1. \A t \in Slots : HasEntry(t) => HasEntry(t)'
    BY <1>7 DEF Store, HasEntry
  <2>2. \A t \in Slots : JoinedNow(t) => JoinedNow(t)'
    BY <1>7 DEF Store, JoinedNow
  <2>3. \A t \in Slots : WorkedOn(t) => WorkedOn(t)'
    BY <1>7 DEF Store, WorkedOn
  <2>4. OneSearch'
    BY <1>7 DEF Store
  <2>5. ClaimsEmpty'
    BY <1>7 DEF Store
  <2>6. StartsEntered'
    BY <1>7, <2>1 DEF Store
  <2>7. OpenEntered'
    BY <1>7, <2>1 DEF Store
  <2>8. ErasesOwn'
    BY <1>7 DEF Store
  <2>9. ClosedShut'
    BY <1>7 DEF Store
  <2>10. JoinedByOne'
    BY <1>7, <2>2 DEF Store
  <2>11. MappedAccounted'
    BY <1>7, <2>3 DEF Store
  <2> QED
    BY <2>4, <2>5, <2>6, <2>7, <2>8, <2>9, <2>10, <2>11
<1>8. ASSUME NEW a \in Actors, Discard(a) PROVE AccountCore'
  <2>1. \A t \in Slots : HasEntry(t) => HasEntry(t)'
    BY <1>8 DEF Discard, HasEntry
  <2>2. \A t \in Slots : JoinedNow(t) => JoinedNow(t)'
    BY <1>8 DEF Discard, JoinedNow
  <2>3. \A t \in Slots : t # target[a] /\ WorkedOn(t) => WorkedOn(t)'
    BY <1>8 DEF Discard, WorkedOn
  <2>4. OneSearch'
    BY <1>8 DEF Discard
  <2>5. ClaimsEmpty'
    BY <1>8 DEF Discard
  <2>6. StartsEntered'
    BY <1>8, <2>1 DEF Discard
  <2>7. OpenEntered'
    BY <1>8, <2>1 DEF Discard
  <2>8. ErasesOwn'
    BY <1>8 DEF Discard
  <2>9. ClosedShut'
    BY <1>8 DEF Discard
  <2>10. JoinedByOne'
    BY <1>8, <2>2 DEF Discard
  <2>11. MappedAccounted'
    BY <1>8, <2>3 DEF Discard
  <2> QED
    BY <2>4, <2>5, <2>6, <2>7, <2>8, <2>9, <2>10, <2>11
<1>9. ASSUME NEW a \in Actors, FindEntry(a, "drop", "unclaim", "discard") PROVE AccountCore'
  <2>0. Finds(a, "drop", "unclaim", "discard")
    BY <1>9, EntryFound, Zenon
  <2>1. \A t \in Slots : HasEntry(t) => HasEntry(t)'
    BY <2>0 DEF Finds, HasEntry
  <2>2. \A t \in Slots : JoinedNow(t) => JoinedNow(t)'
    BY <2>0 DEF Finds, JoinedNow
  <2>3. \A t \in Slots : WorkedOn(t) => WorkedOn(t)'
    BY <2>0 DEF Finds, WorkedOn
  <2>4. OneSearch'
    BY <2>0 DEF Finds
  <2>5. ClaimsEmpty'
    BY <2>0 DEF Finds
  <2>6. StartsEntered'
    BY <2>0, <2>1 DEF Finds
  <2>7. OpenEntered'
    BY <2>0, <2>1 DEF Finds
  <2>8. ErasesOwn'
    BY <2>0 DEF Finds
  <2>9. ClosedShut'
    BY <2>0 DEF Finds
  <2>10. JoinedByOne'
    BY <2>0, <2>2 DEF Finds
  <2>11. MappedAccounted'
    BY <2>0, <2>3 DEF Finds
  <2> QED
    BY <2>4, <2>5, <2>6, <2>7, <2>8, <2>9, <2>10, <2>11
<1>10. ASSUME NEW a \in Actors, ClearEntry(a, "unclaim", "discard") PROVE AccountCore'
  <2>1. \A t \in Slots : t # target[a] /\ HasEntry(t) => HasEntry(t)'
    BY <1>10 DEF ClearEntry, HasEntry
  <2>2. \A t \in Slots : JoinedNow(t) => JoinedNow(t)'
    BY <1>10 DEF ClearEntry, JoinedNow
  <2>3. \A t \in Slots : WorkedOn(t) => WorkedOn(t)'
    BY <1>10 DEF ClearEntry, WorkedOn
  <2>4. OneSearch'
    BY <1>10 DEF ClearEntry
  <2>5. ClaimsEmpty'
    BY <1>10 DEF ClearEntry
  <2>6. StartsEntered'
    BY <1>10, <2>1 DEF ClearEntry
  <2>7. OpenEntered'
    BY <1>10, <2>1 DEF ClearEntry
  <2>8. ErasesOwn'
    <3>1. /\ pc[a] = "unclaim" /\ table' = [table EXCEPT ![at[a]] = {}]
          /\ pc' = [pc EXCEPT ![a] = "discard"] /\ target' = target /\ at' = at
      BY <1>10 DEF ClearEntry
    <3> SUFFICES ASSUME NEW b \in Actors, b # a, pc[b] \in {"erase", "unclaim"}
                 PROVE  table'[at[b]] = {target[b]}
      BY <3>1
    <3>2. table[at[a]] = {target[a]} /\ table[at[b]] = {target[b]}
      BY <3>1
    <3>3. target[a] # target[b]
      BY <3>1
    <3>4. at[a] # at[b]
      BY <3>2, <3>3
    <3>5. at[a] \in Index /\ at[b] \in Index
      BY <3>1
    <3> QED
      BY <3>1, <3>2, <3>4, <3>5
  <2>9. ClosedShut'
    BY <1>10 DEF ClearEntry
  <2>10. JoinedByOne'
    BY <1>10, <2>2 DEF ClearEntry
  <2>11. MappedAccounted'
    BY <1>10, <2>3 DEF ClearEntry
  <2> QED
    BY <2>4, <2>5, <2>6, <2>7, <2>8, <2>9, <2>10, <2>11
<1>11. ASSUME NEW a \in Actors, Tracked(a) PROVE AccountCore'
  <2>1. \A t \in Slots : HasEntry(t) => HasEntry(t)'
    BY <1>11 DEF Tracked, HasEntry
  <2>2. \A t \in Slots : JoinedNow(t) => JoinedNow(t)'
    BY <1>11 DEF Tracked, JoinedNow
  <2>3. \A t \in Slots : WorkedOn(t) => WorkedOn(t)'
    BY <1>11 DEF Tracked, WorkedOn
  <2>4. OneSearch'
    BY <1>11 DEF Tracked
  <2>5. ClaimsEmpty'
    BY <1>11 DEF Tracked
  <2>6. StartsEntered'
    BY <1>11, <2>1 DEF Tracked
  <2>7. OpenEntered'
    BY <1>11, <2>1 DEF Tracked
  <2>8. ErasesOwn'
    BY <1>11 DEF Tracked
  <2>9. ClosedShut'
    BY <1>11 DEF Tracked
  <2>10. JoinedByOne'
    BY <1>11, <2>2 DEF Tracked
  <2>11. MappedAccounted'
    BY <1>11, <2>3 DEF Tracked
  <2> QED
    BY <2>4, <2>5, <2>6, <2>7, <2>8, <2>9, <2>10, <2>11
<1>12. ASSUME NEW a \in Actors, Check(a) PROVE AccountCore'
  <2>1. \A t \in Slots : HasEntry(t) => HasEntry(t)'
    BY <1>12 DEF Check, HasEntry
  <2>2. \A t \in Slots : JoinedNow(t) => JoinedNow(t)'
    BY <1>12 DEF Check, JoinedNow
  <2>3. \A t \in Slots : WorkedOn(t) => WorkedOn(t)'
    BY <1>12 DEF Check, WorkedOn
  <2>4. OneSearch'
    BY <1>12 DEF Check
  <2>5. ClaimsEmpty'
    BY <1>12 DEF Check
  <2>6. StartsEntered'
    BY <1>12, <2>1 DEF Check
  <2>7. OpenEntered'
    BY <1>12, <2>1 DEF Check
  <2>8. ErasesOwn'
    BY <1>12 DEF Check
  <2>9. ClosedShut'
    BY <1>12 DEF Check
  <2>10. JoinedByOne'
    BY <1>12, <2>2 DEF Check
  <2>11. MappedAccounted'
    BY <1>12, <2>3 DEF Check
  <2> QED
    BY <2>4, <2>5, <2>6, <2>7, <2>8, <2>9, <2>10, <2>11
<1>13. ASSUME NEW a \in Actors, Mark(a) PROVE AccountCore'
  <2>1. \A t \in Slots : HasEntry(t) => HasEntry(t)'
    BY <1>13 DEF Mark, HasEntry
  <2>2. \A t \in Slots : JoinedNow(t) => JoinedNow(t)'
    BY <1>13 DEF Mark, JoinedNow
  <2>3. \A t \in Slots : WorkedOn(t) => WorkedOn(t)'
    BY <1>13 DEF Mark, WorkedOn
  <2>4. OneSearch'
    BY <1>13 DEF Mark
  <2>5. ClaimsEmpty'
    BY <1>13 DEF Mark
  <2>6. StartsEntered'
    BY <1>13, <2>1 DEF Mark
  <2>7. OpenEntered'
    BY <1>13, <2>1 DEF Mark
  <2>8. ErasesOwn'
    BY <1>13 DEF Mark
  <2>9. ClosedShut'
    BY <1>13 DEF Mark
  <2>10. JoinedByOne'
    <3>1. JoinedNow(target[a])'
      <4>1. pc'[a] = "handle" /\ target' = target
        BY <1>13 DEF Mark
      <4> QED
        BY <4>1 DEF JoinedNow
    <3> QED
      BY <1>13, <2>2, <3>1 DEF Mark
  <2>11. MappedAccounted'
    BY <1>13, <2>3 DEF Mark
  <2> QED
    BY <2>4, <2>5, <2>6, <2>7, <2>8, <2>9, <2>10, <2>11
<1>14. ASSUME NEW a \in Actors, ReadHandle(a) PROVE AccountCore'
  <2>1. \A t \in Slots : HasEntry(t) => HasEntry(t)'
    BY <1>14 DEF ReadHandle, HasEntry
  <2>2. \A t \in Slots : JoinedNow(t) => JoinedNow(t)'
    BY <1>14 DEF ReadHandle, JoinedNow
  <2>3. \A t \in Slots : WorkedOn(t) => WorkedOn(t)'
    BY <1>14 DEF ReadHandle, WorkedOn
  <2>4. OneSearch'
    BY <1>14 DEF ReadHandle
  <2>5. ClaimsEmpty'
    BY <1>14 DEF ReadHandle
  <2>6. StartsEntered'
    BY <1>14, <2>1 DEF ReadHandle
  <2>7. OpenEntered'
    BY <1>14, <2>1 DEF ReadHandle
  <2>8. ErasesOwn'
    BY <1>14 DEF ReadHandle
  <2>9. ClosedShut'
    <3>1. handle[target[a]]
      <4>1. pc[a] = "handle" /\ ~ Storing(target[a])
        BY <1>14 DEF ReadHandle, Storing
      <4> QED
        BY <4>1 DEF JoinersHold, Joinable
    <3> QED
      BY <1>14, <3>1 DEF ReadHandle
  <2>10. JoinedByOne'
    BY <1>14, <2>2 DEF ReadHandle
  <2>11. MappedAccounted'
    BY <1>14, <2>3 DEF ReadHandle
  <2> QED
    BY <2>4, <2>5, <2>6, <2>7, <2>8, <2>9, <2>10, <2>11
<1>15. ASSUME NEW a \in Actors, Wait(a) PROVE AccountCore'
  <2>1. \A t \in Slots : HasEntry(t) => HasEntry(t)'
    BY <1>15 DEF Wait, HasEntry
  <2>2. \A t \in Slots : JoinedNow(t) => JoinedNow(t)'
    BY <1>15 DEF Wait, JoinedNow
  <2>3. \A t \in Slots : WorkedOn(t) => WorkedOn(t)'
    BY <1>15 DEF Wait, WorkedOn
  <2>4. OneSearch'
    BY <1>15 DEF Wait
  <2>5. ClaimsEmpty'
    BY <1>15 DEF Wait
  <2>6. StartsEntered'
    BY <1>15, <2>1 DEF Wait
  <2>7. OpenEntered'
    BY <1>15, <2>1 DEF Wait
  <2>8. ErasesOwn'
    BY <1>15 DEF Wait
  <2>9. ClosedShut'
    BY <1>15 DEF Wait
  <2>10. JoinedByOne'
    BY <1>15, <2>2 DEF Wait
  <2>11. MappedAccounted'
    BY <1>15, <2>3 DEF Wait
  <2> QED
    BY <2>4, <2>5, <2>6, <2>7, <2>8, <2>9, <2>10, <2>11
<1>16. ASSUME NEW a \in Actors, Close(a) PROVE AccountCore'
  <2>1. \A t \in Slots : HasEntry(t) => HasEntry(t)'
    BY <1>16 DEF Close, HasEntry
  <2>2. \A t \in Slots : JoinedNow(t) => JoinedNow(t)'
    BY <1>16 DEF Close, JoinedNow
  <2>3. \A t \in Slots : WorkedOn(t) => WorkedOn(t)'
    BY <1>16 DEF Close, WorkedOn
  <2>4. OneSearch'
    BY <1>16 DEF Close
  <2>5. ClaimsEmpty'
    BY <1>16 DEF Close
  <2>6. StartsEntered'
    BY <1>16, <2>1 DEF Close
  <2>7. OpenEntered'
    BY <1>16, <2>1 DEF Close
  <2>8. ErasesOwn'
    BY <1>16 DEF Close
  <2>9. ClosedShut'
    BY <1>16 DEF Close
  <2>10. JoinedByOne'
    BY <1>16, <2>2 DEF Close
  <2>11. MappedAccounted'
    <3>1. WorkedOn(target[a])'
      <4>1. pc'[a] = "collect" /\ target' = target
        BY <1>16 DEF Close
      <4> QED
        BY <4>1 DEF WorkedOn
    <3> QED
      BY <1>16, <2>3, <3>1 DEF Close
  <2> QED
    BY <2>4, <2>5, <2>6, <2>7, <2>8, <2>9, <2>10, <2>11
<1>17. ASSUME NEW a \in Actors, Collect(a) PROVE AccountCore'
  <2>1. \A t \in Slots : HasEntry(t) => HasEntry(t)'
    BY <1>17 DEF Collect, HasEntry
  <2>2. \A t \in Slots : JoinedNow(t) => JoinedNow(t)'
    BY <1>17 DEF Collect, JoinedNow
  <2>3. \A t \in Slots : WorkedOn(t) => WorkedOn(t)'
    BY <1>17 DEF Collect, WorkedOn
  <2>4. OneSearch'
    BY <1>17 DEF Collect
  <2>5. ClaimsEmpty'
    BY <1>17 DEF Collect
  <2>6. StartsEntered'
    BY <1>17, <2>1 DEF Collect
  <2>7. OpenEntered'
    BY <1>17, <2>1 DEF Collect
  <2>8. ErasesOwn'
    BY <1>17 DEF Collect
  <2>9. ClosedShut'
    BY <1>17 DEF Collect
  <2>10. JoinedByOne'
    BY <1>17, <2>2 DEF Collect
  <2>11. MappedAccounted'
    BY <1>17, <2>3 DEF Collect
  <2> QED
    BY <2>4, <2>5, <2>6, <2>7, <2>8, <2>9, <2>10, <2>11
<1>18. ASSUME NEW a \in Actors, FindEntry(a, "untrack", "erase", "free") PROVE AccountCore'
  <2>0. Finds(a, "untrack", "erase", "free")
    BY <1>18, EntryFound, Zenon
  <2>1. \A t \in Slots : HasEntry(t) => HasEntry(t)'
    BY <2>0 DEF Finds, HasEntry
  <2>2. \A t \in Slots : JoinedNow(t) => JoinedNow(t)'
    BY <2>0 DEF Finds, JoinedNow
  <2>3. \A t \in Slots : WorkedOn(t) => WorkedOn(t)'
    BY <2>0 DEF Finds, WorkedOn
  <2>4. OneSearch'
    BY <2>0 DEF Finds
  <2>5. ClaimsEmpty'
    BY <2>0 DEF Finds
  <2>6. StartsEntered'
    BY <2>0, <2>1 DEF Finds
  <2>7. OpenEntered'
    BY <2>0, <2>1 DEF Finds
  <2>8. ErasesOwn'
    BY <2>0 DEF Finds
  <2>9. ClosedShut'
    BY <2>0 DEF Finds
  <2>10. JoinedByOne'
    BY <2>0, <2>2 DEF Finds
  <2>11. MappedAccounted'
    BY <2>0, <2>3 DEF Finds
  <2> QED
    BY <2>4, <2>5, <2>6, <2>7, <2>8, <2>9, <2>10, <2>11
<1>19. ASSUME NEW a \in Actors, ClearEntry(a, "erase", "free") PROVE AccountCore'
  <2>1. \A t \in Slots : t # target[a] /\ HasEntry(t) => HasEntry(t)'
    BY <1>19 DEF ClearEntry, HasEntry
  <2>2. \A t \in Slots : JoinedNow(t) => JoinedNow(t)'
    BY <1>19 DEF ClearEntry, JoinedNow
  <2>3. \A t \in Slots : WorkedOn(t) => WorkedOn(t)'
    BY <1>19 DEF ClearEntry, WorkedOn
  <2>4. OneSearch'
    BY <1>19 DEF ClearEntry
  <2>5. ClaimsEmpty'
    BY <1>19 DEF ClearEntry
  <2>6. StartsEntered'
    BY <1>19, <2>1 DEF ClearEntry
  <2>7. OpenEntered'
    BY <1>19, <2>1 DEF ClearEntry
  <2>8. ErasesOwn'
    <3>1. /\ pc[a] = "erase" /\ table' = [table EXCEPT ![at[a]] = {}]
          /\ pc' = [pc EXCEPT ![a] = "free"] /\ target' = target /\ at' = at
      BY <1>19 DEF ClearEntry
    <3> SUFFICES ASSUME NEW b \in Actors, b # a, pc[b] \in {"erase", "unclaim"}
                 PROVE  table'[at[b]] = {target[b]}
      BY <3>1
    <3>2. table[at[a]] = {target[a]} /\ table[at[b]] = {target[b]}
      BY <3>1
    <3>3. target[a] # target[b]
      BY <3>1
    <3>4. at[a] # at[b]
      BY <3>2, <3>3
    <3>5. at[a] \in Index /\ at[b] \in Index
      BY <3>1
    <3> QED
      BY <3>1, <3>2, <3>4, <3>5
  <2>9. ClosedShut'
    BY <1>19 DEF ClearEntry
  <2>10. JoinedByOne'
    BY <1>19, <2>2 DEF ClearEntry
  <2>11. MappedAccounted'
    BY <1>19, <2>3 DEF ClearEntry
  <2> QED
    BY <2>4, <2>5, <2>6, <2>7, <2>8, <2>9, <2>10, <2>11
<1>20. ASSUME NEW a \in Actors, Free(a) PROVE AccountCore'
  <2>1. \A t \in Slots : HasEntry(t) => HasEntry(t)'
    BY <1>20 DEF Free, HasEntry
  <2>2. \A t \in Slots : t # target[a] /\ JoinedNow(t) => JoinedNow(t)'
    BY <1>20 DEF Free, JoinedNow
  <2>3. \A t \in Slots : t # target[a] /\ WorkedOn(t) => WorkedOn(t)'
    BY <1>20 DEF Free, WorkedOn
  <2>4. OneSearch'
    BY <1>20 DEF Free
  <2>5. ClaimsEmpty'
    BY <1>20 DEF Free
  <2>6. StartsEntered'
    BY <1>20, <2>1 DEF Free
  <2>7. OpenEntered'
    BY <1>20, <2>1 DEF Free
  <2>8. ErasesOwn'
    BY <1>20 DEF Free
  <2>9. ClosedShut'
    BY <1>20 DEF Free
  <2>10. JoinedByOne'
    BY <1>20, <2>2 DEF Free
  <2>11. MappedAccounted'
    BY <1>20, <2>3 DEF Free
  <2> QED
    BY <2>4, <2>5, <2>6, <2>7, <2>8, <2>9, <2>10, <2>11
<1>21. ASSUME NEW s \in Slots, Trampoline(s) PROVE AccountCore'
  <2>1. \A t \in Slots : HasEntry(t) => HasEntry(t)'
    BY <1>21 DEF Trampoline, HasEntry
  <2>2. \A t \in Slots : JoinedNow(t) => JoinedNow(t)'
    BY <1>21 DEF Trampoline, JoinedNow
  <2>3. \A t \in Slots : WorkedOn(t) => WorkedOn(t)'
    BY <1>21 DEF Trampoline, WorkedOn
  <2>4. OneSearch'
    BY <1>21 DEF Trampoline
  <2>5. ClaimsEmpty'
    BY <1>21 DEF Trampoline
  <2>6. StartsEntered'
    BY <1>21, <2>1 DEF Trampoline
  <2>7. OpenEntered'
    BY <1>21, <2>1 DEF Trampoline
  <2>8. ErasesOwn'
    BY <1>21 DEF Trampoline
  <2>9. ClosedShut'
    BY <1>21 DEF Trampoline
  <2>10. JoinedByOne'
    BY <1>21, <2>2 DEF Trampoline
  <2>11. MappedAccounted'
    BY <1>21, <2>3 DEF Trampoline
  <2> QED
    BY <2>4, <2>5, <2>6, <2>7, <2>8, <2>9, <2>10, <2>11
<1>22. ASSUME NEW s \in Slots, NEW v \in Values, Return(s, v) PROVE AccountCore'
  <2>1. \A t \in Slots : HasEntry(t) => HasEntry(t)'
    BY <1>22 DEF Return, HasEntry
  <2>2. \A t \in Slots : JoinedNow(t) => JoinedNow(t)'
    BY <1>22 DEF Return, JoinedNow
  <2>3. \A t \in Slots : WorkedOn(t) => WorkedOn(t)'
    BY <1>22 DEF Return, WorkedOn
  <2>4. OneSearch'
    BY <1>22 DEF Return
  <2>5. ClaimsEmpty'
    BY <1>22 DEF Return
  <2>6. StartsEntered'
    BY <1>22, <2>1 DEF Return
  <2>7. OpenEntered'
    BY <1>22, <2>1 DEF Return
  <2>8. ErasesOwn'
    BY <1>22 DEF Return
  <2>9. ClosedShut'
    BY <1>22 DEF Return
  <2>10. JoinedByOne'
    BY <1>22, <2>2 DEF Return
  <2>11. MappedAccounted'
    BY <1>22, <2>3 DEF Return
  <2> QED
    BY <2>4, <2>5, <2>6, <2>7, <2>8, <2>9, <2>10, <2>11
<1>23. ASSUME NEW s \in Slots, SetRetval(s) PROVE AccountCore'
  <2>1. \A t \in Slots : HasEntry(t) => HasEntry(t)'
    BY <1>23 DEF SetRetval, HasEntry
  <2>2. \A t \in Slots : JoinedNow(t) => JoinedNow(t)'
    BY <1>23 DEF SetRetval, JoinedNow
  <2>3. \A t \in Slots : WorkedOn(t) => WorkedOn(t)'
    BY <1>23 DEF SetRetval, WorkedOn
  <2>4. OneSearch'
    BY <1>23 DEF SetRetval
  <2>5. ClaimsEmpty'
    BY <1>23 DEF SetRetval
  <2>6. StartsEntered'
    BY <1>23, <2>1 DEF SetRetval
  <2>7. OpenEntered'
    BY <1>23, <2>1 DEF SetRetval
  <2>8. ErasesOwn'
    BY <1>23 DEF SetRetval
  <2>9. ClosedShut'
    BY <1>23 DEF SetRetval
  <2>10. JoinedByOne'
    BY <1>23, <2>2 DEF SetRetval
  <2>11. MappedAccounted'
    BY <1>23, <2>3 DEF SetRetval
  <2> QED
    BY <2>4, <2>5, <2>6, <2>7, <2>8, <2>9, <2>10, <2>11
<1>24. ASSUME NEW s \in Slots, Exit(s) PROVE AccountCore'
  <2>1. \A t \in Slots : HasEntry(t) => HasEntry(t)'
    BY <1>24 DEF Exit, HasEntry
  <2>2. \A t \in Slots : JoinedNow(t) => JoinedNow(t)'
    BY <1>24 DEF Exit, JoinedNow
  <2>3. \A t \in Slots : WorkedOn(t) => WorkedOn(t)'
    BY <1>24 DEF Exit, WorkedOn
  <2>4. OneSearch'
    BY <1>24 DEF Exit
  <2>5. ClaimsEmpty'
    BY <1>24 DEF Exit
  <2>6. StartsEntered'
    BY <1>24, <2>1 DEF Exit
  <2>7. OpenEntered'
    BY <1>24, <2>1 DEF Exit
  <2>8. ErasesOwn'
    BY <1>24 DEF Exit
  <2>9. ClosedShut'
    BY <1>24 DEF Exit
  <2>10. JoinedByOne'
    BY <1>24, <2>2 DEF Exit
  <2>11. MappedAccounted'
    BY <1>24, <2>3 DEF Exit
  <2> QED
    BY <2>4, <2>5, <2>6, <2>7, <2>8, <2>9, <2>10, <2>11
<1>25. ASSUME MainExit PROVE AccountCore'
  <2>1. \A t \in Slots : HasEntry(t) => HasEntry(t)'
    BY <1>25, WinThreadsAssumption DEF MainExit, HasEntry
  <2>2. \A t \in Slots : JoinedNow(t) => JoinedNow(t)'
    BY <1>25, WinThreadsAssumption DEF MainExit, JoinedNow
  <2>3. \A t \in Slots : WorkedOn(t) => WorkedOn(t)'
    BY <1>25, WinThreadsAssumption DEF MainExit, WorkedOn
  <2>4. OneSearch'
    BY <1>25, WinThreadsAssumption DEF MainExit
  <2>5. ClaimsEmpty'
    BY <1>25, WinThreadsAssumption DEF MainExit
  <2>6. StartsEntered'
    BY <1>25, <2>1, WinThreadsAssumption DEF MainExit
  <2>7. OpenEntered'
    BY <1>25, <2>1, WinThreadsAssumption DEF MainExit
  <2>8. ErasesOwn'
    BY <1>25, WinThreadsAssumption DEF MainExit
  <2>9. ClosedShut'
    BY <1>25, WinThreadsAssumption DEF MainExit
  <2>10. JoinedByOne'
    BY <1>25, <2>2, WinThreadsAssumption DEF MainExit
  <2>11. MappedAccounted'
    BY <1>25, <2>3, WinThreadsAssumption DEF MainExit
  <2> QED
    BY <2>4, <2>5, <2>6, <2>7, <2>8, <2>9, <2>10, <2>11
<1> QED
  BY <1>1, <1>2, <1>3, <1>4, <1>5, <1>6, <1>7, <1>8, <1>9, <1>10, <1>11, <1>12, <1>13,
     <1>14, <1>15, <1>16, <1>17, <1>18, <1>19, <1>20, <1>21, <1>22, <1>23, <1>24, <1>25
  DEF Next, Creating, Joining, Ending

-----------------------------------------------------------------------------
(* The invariant: each part holds as long as the races it cannot stand     *)
(* have not been run into.                                                 *)
IInv ==
  /\ Typed /\ Placed
  /\ "stale" \notin windows => TableCore
  /\ windows \intersect {"early", "stale"} = {} => DeliveryCore
  /\ windows \intersect {"early", "contended", "stale"} = {} => MemoryCore
  /\ windows = {} => AccountCore

LEMMA InitInv == Init => IInv
<1> SUFFICES ASSUME Init PROVE IInv
  OBVIOUS
<1>1. (CHOOSE t \in Slots : TRUE) \in Slots
  BY WinThreadsAssumption
<1>2. Typed
  <2>1. at \in [Actors -> 1 .. Entries + 1]
    BY WinThreadsAssumption DEF Init
  <2> QED
    BY <1>1, <2>1, WinThreadsAssumption DEF Init, Typed, ThreadOps
<1>3. Placed
  BY DEF Init, Placed
<1>4. /\ \A a \in Actors : pc[a] \in {"run", "none"}
      /\ \A t \in Slots : pc[t] = "none"
      /\ \A i \in Index : table[i] = {}
      /\ mapped = {} /\ open = {} /\ known = {}
  BY WinThreadsAssumption DEF Init
<1>5. TableCore
  BY <1>4 DEF TableCore, OneCreator, UnbornPrivate, JoinsKnown, OneEntry, Entered,
              EntriesMapped
<1>6. DeliveryCore
  BY <1>4 DEF DeliveryCore, StoringAlone, ReturnedKept, HandleTells, WaitedEnded, GotRight
<1>7. MemoryCore
  BY <1>4 DEF MemoryCore, OneJoiner, LivingMapped, StoringMapped, JoinersHold,
              TrackedJoinable
<1>8. AccountCore
  <2>1. OneSearch
    BY <1>4 DEF OneSearch
  <2> QED
    BY <1>4, <2>1 DEF AccountCore, ClaimsEmpty, StartsEntered, OpenEntered, ErasesOwn,
                ClosedShut, JoinedByOne, MappedAccounted
<1> QED
  BY <1>2, <1>3, <1>5, <1>6, <1>7, <1>8 DEF IInv

LEMMA NextInv == IInv /\ [Next]_vars => IInv'
<1> SUFFICES ASSUME IInv, [Next]_vars PROVE IInv'
  OBVIOUS
<1>1. CASE UNCHANGED vars
  BY <1>1 DEF vars, IInv, Typed, Placed, TableCore, OneCreator, UnbornPrivate, JoinsKnown,
     OneEntry, Entered, EntriesMapped, DeliveryCore, StoringAlone, ReturnedKept,
     HandleTells, WaitedEnded, GotRight, Storing, Ended, MemoryCore, OneJoiner,
     LivingMapped, StoringMapped, JoinersHold, TrackedJoinable, Joinable, AccountCore,
     OneSearch, ClaimsEmpty, StartsEntered, OpenEntered, ErasesOwn, ClosedShut,
     JoinedByOne, MappedAccounted, HasEntry, JoinedNow, WorkedOn
<1>2. CASE Next
  <2>1. windows \subseteq windows'
    BY <1>2, WindowsGrow
  <2>2. Typed /\ Placed
    BY DEF IInv
  <2>3. Typed' /\ Placed'
    BY <1>2, <2>2, TypedKept, PlacedKept
  <2>4. ASSUME "stale" \notin windows' PROVE TableCore'
    BY <1>2, <2>1, <2>2, <2>4, TableKept DEF IInv
  <2>5. ASSUME windows' \intersect {"early", "stale"} = {} PROVE DeliveryCore'
    <3>1. "stale" \notin windows /\ windows \intersect {"early", "stale"} = {}
      BY <2>1, <2>5
    <3>2. TableCore /\ DeliveryCore
      BY <3>1 DEF IInv
    <3> QED
      BY <1>2, <2>2, <2>5, <3>2, DeliveryKept
  <2>6. ASSUME windows' \intersect {"early", "contended", "stale"} = {} PROVE MemoryCore'
    <3>1. /\ "stale" \notin windows /\ windows \intersect {"early", "stale"} = {}
          /\ windows \intersect {"early", "contended", "stale"} = {}
      BY <2>1, <2>6
    <3>2. TableCore /\ DeliveryCore /\ MemoryCore
      BY <3>1 DEF IInv
    <3> QED
      BY <1>2, <2>2, <2>6, <3>2, MemoryKept
  <2>7. ASSUME windows' = {} PROVE AccountCore'
    <3>1. windows = {}
      BY <2>1, <2>7
    <3>2. TableCore /\ MemoryCore /\ AccountCore
      BY <3>1 DEF IInv
    <3> QED
      BY <1>2, <2>2, <2>7, <3>2, AccountKept
  <2> QED
    BY <2>3, <2>4, <2>5, <2>6, <2>7 DEF IInv
<1> QED
  BY <1>1, <1>2

LEMMA Invariant == Spec => []IInv
<1> QED
  BY InitInv, NextInv, PTL DEF Spec

(* Every variable keeps its type; an entry of the table names one          *)
(* descriptor or none.                                                     *)
THEOREM TypeCorrect == Spec => []TypeOK
<1>1. IInv => TypeOK
  <2> SUFFICES ASSUME IInv PROVE TypeOK
    OBVIOUS
  <2>1. Typed /\ Placed
    BY DEF IInv
  <2>2. ASSUME NEW i \in Index
        PROVE  Cardinality(table[i]) <= 1
    <3>1. CASE table[i] = {}
      BY <3>1, FS_EmptySet
    <3>2. CASE table[i] # {}
      <4>1. PICK t : t \in table[i]
        BY <3>2
      <4>2. table[i] = {t}
        BY <2>1, <4>1 DEF Placed
      <4>3. Cardinality({t}) = 1
        BY FS_Singleton
      <4> QED
        BY <4>2, <4>3
    <3> QED
      BY <3>1, <3>2
  <2> QED
    BY <2>1, <2>2 DEF Typed, TypeOK
<1> QED
  BY <1>1, Invariant, PTL

(* No entry of the table outlives its descriptor, and what a thread, a     *)
(* creator or a joiner uses has not been freed, for any number of threads. *)
THEOREM MemoryIsHeld == Spec => []MemoryHeld
<1>1. IInv => NoDanglingEntry
  BY DEF IInv, TableCore, EntriesMapped, NoDanglingEntry
<1>2. IInv => DescriptorMapped
  <2> SUFFICES ASSUME IInv, windows \intersect {"early", "contended", "stale"} = {}
               PROVE  /\ \A t \in Slots : pc[t] # "none" => t \in mapped
                      /\ \A a \in Actors : Touches(a) => target[a] \in mapped
    BY DEF DescriptorMapped
  <2>1. "stale" \notin windows
    OBVIOUS
  <2>2. TableCore /\ MemoryCore
    BY <2>1 DEF IInv
  <2>3. LivingMapped
    BY <2>2 DEF MemoryCore
  <2>4. UnbornPrivate /\ StoringMapped /\ JoinersHold
    BY <2>2 DEF TableCore, MemoryCore
  <2> QED
    BY <2>3, <2>4 DEF LivingMapped, Touches, UnbornPrivate, StoringMapped, JoinersHold,
       Joinable
<1> QED
  BY <1>1, <1>2, Invariant, PTL DEF MemoryHeld

(* A join that goes through delivers what its thread returned, even when   *)
(* another join of the same thread runs beside it.                         *)
THEOREM JoinsDeliver == Spec => []JoinDelivers
<1>1. IInv => JoinDelivers
  BY DEF IInv, DeliveryCore, WaitedEnded, GotRight, Ended, JoinDelivers
<1> QED
  BY <1>1, Invariant, PTL

(* Without a race every thread has one entry in the table until a join has *)
(* waited for it, and no descriptor or kernel handle is left behind.       *)
THEOREM ThreadsAccounted == Spec => []Accounted
<1>1. IInv => EveryThreadTracked
  <2> SUFFICES ASSUME IInv, windows = {}, NEW t \in open
               PROVE  Cardinality(Found(t)) = 1
    BY DEF EveryThreadTracked
  <2>1. OneEntry /\ OpenEntered /\ t \in Slots
    BY DEF IInv, TableCore, AccountCore, Typed
  <2>2. PICK i \in Index : t \in table[i]
    BY <2>1 DEF OpenEntered, HasEntry
  <2>3. Found(t) = {i}
    BY <2>1, <2>2 DEF OneEntry, Found
  <2> QED
    BY <2>3, FS_Singleton
<1>2. IInv => NothingLeaks
  <2> SUFFICES ASSUME IInv, windows = {}, NEW t \in mapped \union open,
                      ~ \E a \in Actors : Operates(a, t)
               PROVE  t \in known /\ Found(t) # {} /\ ~ joined[t]
    BY DEF NothingLeaks
  <2>1. /\ EntriesMapped /\ OpenEntered /\ JoinedByOne /\ MappedAccounted
    BY DEF IInv, TableCore, AccountCore
  <2>2. ~ WorkedOn(t) /\ ~ JoinedNow(t)
    BY DEF WorkedOn, JoinedNow, Operates
  <2>3. t \in open
    BY <2>1, <2>2 DEF MappedAccounted
  <2>4. t \in known /\ HasEntry(t)
    BY <2>1, <2>3 DEF OpenEntered
  <2>5. t \in mapped
    BY <2>1, <2>4 DEF HasEntry, EntriesMapped
  <2> QED
    BY <2>1, <2>2, <2>4, <2>5 DEF JoinedByOne, HasEntry, Found
<1> QED
  BY <1>1, <1>2, Invariant, PTL DEF Accounted
=============================================================================
