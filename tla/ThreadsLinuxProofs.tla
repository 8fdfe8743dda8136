-------------------------- MODULE ThreadsLinuxProofs --------------------------
(***************************************************************************)
(* The safety of runtime/thread_linux.c for any number of stack addresses, *)
(* any return values and any (acyclic or cyclic) pattern of joins.         *)
(*                                                                         *)
(* The invariant says who may touch a slot: one operation at a time works  *)
(* on it; a thread that lives has tid set, so a joiner that saw tid        *)
(* cleared knows the thread has left its stack for good.                   *)
(***************************************************************************)
EXTENDS ThreadsLinux, TLAPS

Stored  == {"returning", "exiting", "dying", "gone"}
Joined  == {"unmap_stack", "unmap_tls"}
Living  == UserMode \union {"dying"}
Busy    == CreateOps \union JoinOps

(* One create or join works on a slot, and then its handle is taken.       *)
OneOperation ==
  \A a, b \in Actors :
    pc[a] \in Busy /\ pc[b] \in Busy /\ target[a] = target[b] => a = b

HandleTaken ==
  \A a \in Actors : pc[a] \in Busy => target[a] \notin handles

CreatesUnborn ==
  \A a \in Actors : pc[a] \in CreateOps =>
    /\ pc[target[a]] = "none"
    /\ target[a] \in stacks
    /\ target[a] \in blocks <=> pc[a] = "clone"
    /\ pc[a] = "clone" => magic[target[a]]

JoinsBorn ==
  \A a \in Actors : pc[a] \in JoinOps =>
    /\ pc[target[a]] # "none"
    /\ target[a] \in blocks
    /\ target[a] \in stacks <=> pc[a] # "unmap_tls"
    /\ pc[a] \in {"collect"} \union Joined => pc[target[a]] = "gone"

Delivered ==
  \A a \in Actors : pc[a] \in Joined =>
    /\ returned[target[a]] \in Values
    /\ got[target[a]] = returned[target[a]]

HandlesBorn ==
  \A t \in handles : pc[t] # "none" /\ t \in stacks /\ t \in blocks

(* A living thread's descriptor: tid is set, magic is set, and retval is   *)
(* what it returned once it has.                                           *)
LivingDescribed ==
  \A t \in Slots : pc[t] \in Living =>
    tid[t] = Tid /\ magic[t] /\ t \in stacks /\ t \in blocks

RetvalKept ==
  \A t \in Slots : pc[t] \in Stored /\ t \in stacks =>
    returned[t] \in Values /\ retval[t] = returned[t]

IInv == /\ TypeOK /\ OneOperation /\ HandleTaken /\ CreatesUnborn /\ JoinsBorn
        /\ Delivered /\ HandlesBorn /\ LivingDescribed /\ RetvalKept
        /\ NothingLeaks /\ WakeOnItsWay

LEMMA MapStackKeeps ==
  ASSUME IInv, NEW a \in Actors, NEW t \in Slots, MapStack(a, t)
  PROVE  IInv'
<1>1. TypeOK' BY ThreadsAssumption DEF IInv, TypeOK, MapStack, UserMode,
      CreateOps, JoinOps, Idle, Actors, Cleared, Pending, Tid, desc, mapped
<1>2. OneOperation' BY DEF IInv, TypeOK, OneOperation, CreatesUnborn,
      JoinsBorn, MapStack, Busy, CreateOps, JoinOps, Actors, Joined, Idle,
      desc, mapped
<1>3. HandleTaken' BY DEF IInv, TypeOK, HandleTaken, HandlesBorn, MapStack,
      Busy, CreateOps, JoinOps, Actors, Idle, desc, mapped
<1>4. CreatesUnborn' BY DEF IInv, TypeOK, CreatesUnborn, MapStack, CreateOps,
      Actors, Idle, desc, mapped
<1>5. JoinsBorn' BY DEF IInv, TypeOK, JoinsBorn, MapStack, JoinOps, Joined,
      Actors, Idle, desc, mapped
<1>6. Delivered' BY DEF IInv, TypeOK, Delivered, JoinsBorn, MapStack, Joined,
      Actors, JoinOps, Idle, desc, mapped
<1>7. HandlesBorn' BY DEF IInv, TypeOK, HandlesBorn, MapStack, Actors, Idle,
      desc, mapped
<1>8. LivingDescribed' BY DEF IInv, TypeOK, LivingDescribed, MapStack, Living,
      UserMode, CreateOps, JoinOps, Actors, Tid, Cleared, Pending, Idle, desc,
      mapped
<1>9. RetvalKept' BY DEF IInv, TypeOK, RetvalKept, MapStack, Stored, Actors,
      Idle, desc, mapped
<1>10. NothingLeaks' BY DEF IInv, TypeOK, NothingLeaks, MapStack, Operates,
       CreateOps, JoinOps, Actors, Idle, desc, mapped
<1>11. WakeOnItsWay' BY DEF IInv, TypeOK, WakeOnItsWay, MapStack, Actors,
       Cleared, Tid, Pending, Idle, desc, mapped
<1> QED BY <1>1, <1>2, <1>3, <1>4, <1>5, <1>6, <1>7, <1>8, <1>9, <1>10, <1>11
  DEF IInv

LEMMA MapTlsKeeps ==
  ASSUME IInv, NEW a \in Actors, MapTls(a)
  PROVE  IInv'
<1>1. TypeOK' BY ThreadsAssumption DEF IInv, TypeOK, MapTls, UserMode,
      CreateOps, JoinOps, Idle, Actors, Cleared, Pending, Tid, desc, mapped
<1>2. OneOperation' BY DEF IInv, TypeOK, OneOperation, MapTls, Busy,
      CreateOps, JoinOps, Actors, desc, mapped
<1>3. HandleTaken' BY DEF IInv, TypeOK, HandleTaken, MapTls, Busy, CreateOps,
      JoinOps, Actors, desc, mapped
<1>4. CreatesUnborn' BY DEF IInv, TypeOK, CreatesUnborn, OneOperation, MapTls,
      CreateOps, Actors, Busy, JoinOps, desc, mapped
<1>5. JoinsBorn' BY DEF IInv, TypeOK, JoinsBorn, CreatesUnborn, MapTls,
      JoinOps, Joined, Actors, CreateOps, desc, mapped
<1>6. Delivered' BY DEF IInv, TypeOK, Delivered, MapTls, Joined, Actors, desc,
      mapped
<1>7. HandlesBorn' BY DEF IInv, TypeOK, HandlesBorn, MapTls, Actors, desc,
      mapped
<1>8. LivingDescribed' BY DEF IInv, TypeOK, LivingDescribed, CreatesUnborn,
      MapTls, Living, UserMode, CreateOps, JoinOps, Actors, Tid, Cleared,
      Pending, desc, mapped
<1>9. RetvalKept' BY DEF IInv, TypeOK, RetvalKept, CreatesUnborn, MapTls,
      Stored, Actors, CreateOps, desc, mapped
<1>10. NothingLeaks' BY DEF IInv, TypeOK, NothingLeaks, MapTls, Operates,
       CreateOps, JoinOps, Actors, desc, mapped
<1>11. WakeOnItsWay' BY DEF IInv, TypeOK, WakeOnItsWay, MapTls, Actors,
       Cleared, Tid, Pending, desc, mapped
<1> QED BY <1>1, <1>2, <1>3, <1>4, <1>5, <1>6, <1>7, <1>8, <1>9, <1>10, <1>11
  DEF IInv

LEMMA MapTlsFailsKeeps ==
  ASSUME IInv, NEW a \in Actors, MapTlsFails(a)
  PROVE  IInv'
<1>1. TypeOK' BY ThreadsAssumption DEF IInv, TypeOK, MapTlsFails, UserMode,
      CreateOps, JoinOps, Idle, Actors, Cleared, Pending, Tid, desc, mapped
<1>2. OneOperation' BY DEF IInv, TypeOK, OneOperation, MapTlsFails, Busy,
      CreateOps, JoinOps, Actors, desc, mapped
<1>3. HandleTaken' BY DEF IInv, TypeOK, HandleTaken, MapTlsFails, Busy,
      CreateOps, JoinOps, Actors, desc, mapped
<1>4. CreatesUnborn' BY DEF IInv, TypeOK, CreatesUnborn, OneOperation,
      MapTlsFails, CreateOps, Actors, Busy, JoinOps, desc, mapped
<1>5. JoinsBorn' BY DEF IInv, TypeOK, JoinsBorn, OneOperation, MapTlsFails,
      JoinOps, Joined, Actors, Busy, CreateOps, desc, mapped
<1>6. Delivered' BY DEF IInv, TypeOK, Delivered, MapTlsFails, Joined, Actors,
      desc, mapped
<1>7. HandlesBorn' BY DEF IInv, TypeOK, HandlesBorn, HandleTaken, MapTlsFails,
      Actors, Busy, CreateOps, JoinOps, desc, mapped
<1>8. LivingDescribed' BY DEF IInv, TypeOK, LivingDescribed, CreatesUnborn,
      MapTlsFails, Living, UserMode, CreateOps, JoinOps, Actors, Tid, Cleared,
      Pending, desc, mapped
<1>9. RetvalKept' BY DEF IInv, TypeOK, RetvalKept, MapTlsFails, Stored,
      Actors, desc, mapped
<1>10. NothingLeaks' BY DEF IInv, TypeOK, NothingLeaks, CreatesUnborn,
       MapTlsFails, Operates, CreateOps, JoinOps, Actors, desc, mapped
<1>11. WakeOnItsWay' BY DEF IInv, TypeOK, WakeOnItsWay, MapTlsFails, Actors,
       Cleared, Tid, Pending, desc, mapped
<1> QED BY <1>1, <1>2, <1>3, <1>4, <1>5, <1>6, <1>7, <1>8, <1>9, <1>10, <1>11
  DEF IInv

LEMMA CloneKeeps ==
  ASSUME IInv, NEW a \in Actors, Clone(a)
  PROVE  IInv'
<1>1. TypeOK' BY ThreadsAssumption DEF IInv, TypeOK, Clone, UserMode,
      CreateOps, JoinOps, Idle, Actors, Cleared, Pending, Tid, desc, mapped
<1>2. OneOperation' BY DEF IInv, TypeOK, OneOperation, CreatesUnborn, Clone,
      Busy, CreateOps, JoinOps, Actors, desc, mapped
<1>3. HandleTaken' BY DEF IInv, TypeOK, HandleTaken, OneOperation, Clone,
      Busy, CreateOps, JoinOps, Actors, desc, mapped
<1>4. CreatesUnborn' BY DEF IInv, TypeOK, CreatesUnborn, OneOperation, Clone,
      CreateOps, Actors, Busy, JoinOps, desc, mapped
<1>5. JoinsBorn' BY DEF IInv, TypeOK, JoinsBorn, CreatesUnborn, Clone,
      JoinOps, Joined, Actors, CreateOps, desc, mapped
<1>6. Delivered' BY DEF IInv, TypeOK, Delivered, JoinsBorn, CreatesUnborn,
      Clone, Joined, Actors, JoinOps, CreateOps, desc, mapped
<1>7. HandlesBorn' BY DEF IInv, TypeOK, HandlesBorn, CreatesUnborn, Clone,
      Actors, CreateOps, desc, mapped
<1>8. LivingDescribed' BY DEF IInv, TypeOK, LivingDescribed, CreatesUnborn,
      Clone, Living, UserMode, CreateOps, JoinOps, Actors, Tid, Cleared,
      Pending, desc, mapped
<1>9. RetvalKept' BY DEF IInv, TypeOK, RetvalKept, CreatesUnborn, Clone,
      Stored, Actors, CreateOps, desc, mapped
<1>10. NothingLeaks'
  <2> SUFFICES ASSUME NEW s \in stacks \union blocks, s \notin handles'
               PROVE  \E b \in Actors : Operates(b, s)'
      BY DEF NothingLeaks, Clone, mapped
  <2>1. PICK b \in Actors : Operates(b, s)
    BY DEF IInv, NothingLeaks, Clone
  <2>2. b # a /\ b # target[a]
    BY <2>1 DEF IInv, TypeOK, CreatesUnborn, Clone, Operates, CreateOps, JoinOps
  <2> QED BY <2>1, <2>2 DEF IInv, TypeOK, Clone, Operates
<1>11. WakeOnItsWay' BY DEF IInv, TypeOK, WakeOnItsWay, CreatesUnborn, Clone,
       Actors, Cleared, Tid, Pending, CreateOps, desc, mapped
<1> QED BY <1>1, <1>2, <1>3, <1>4, <1>5, <1>6, <1>7, <1>8, <1>9, <1>10, <1>11
  DEF IInv

LEMMA CloneFailsKeeps ==
  ASSUME IInv, NEW a \in Actors, CloneFails(a)
  PROVE  IInv'
<1>1. TypeOK' BY ThreadsAssumption DEF IInv, TypeOK, CloneFails, UserMode,
      CreateOps, JoinOps, Idle, Actors, Cleared, Pending, Tid, desc, mapped
<1>2. OneOperation' BY DEF IInv, TypeOK, OneOperation, CloneFails, Busy,
      CreateOps, JoinOps, Actors, desc, mapped
<1>3. HandleTaken' BY DEF IInv, TypeOK, HandleTaken, CloneFails, Busy,
      CreateOps, JoinOps, Actors, desc, mapped
<1>4. CreatesUnborn' BY DEF IInv, TypeOK, CreatesUnborn, OneOperation,
      CloneFails, CreateOps, Actors, Busy, JoinOps, desc, mapped
<1>5. JoinsBorn' BY DEF IInv, TypeOK, JoinsBorn, OneOperation, CloneFails,
      JoinOps, Joined, Actors, Busy, CreateOps, desc, mapped
<1>6. Delivered' BY DEF IInv, TypeOK, Delivered, CloneFails, Joined, Actors,
      desc, mapped
<1>7. HandlesBorn' BY DEF IInv, TypeOK, HandlesBorn, HandleTaken, CloneFails,
      Actors, Busy, CreateOps, JoinOps, desc, mapped
<1>8. LivingDescribed' BY DEF IInv, TypeOK, LivingDescribed, CreatesUnborn,
      CloneFails, Living, UserMode, CreateOps, JoinOps, Actors, Tid, Cleared,
      Pending, desc, mapped
<1>9. RetvalKept' BY DEF IInv, TypeOK, RetvalKept, CloneFails, Stored, Actors,
      desc, mapped
<1>10. NothingLeaks' BY DEF IInv, TypeOK, NothingLeaks, CloneFails, Operates,
       CreateOps, JoinOps, Actors, desc, mapped
<1>11. WakeOnItsWay' BY DEF IInv, TypeOK, WakeOnItsWay, CloneFails, Actors,
       Cleared, Tid, Pending, desc, mapped
<1> QED BY <1>1, <1>2, <1>3, <1>4, <1>5, <1>6, <1>7, <1>8, <1>9, <1>10, <1>11
  DEF IInv

LEMMA TrampolineKeeps ==
  ASSUME IInv, NEW t \in Slots, Trampoline(t)
  PROVE  IInv'
<1>1. TypeOK' BY ThreadsAssumption DEF IInv, TypeOK, Trampoline, UserMode,
      CreateOps, JoinOps, Idle, Actors, Cleared, Pending, Tid, desc, mapped
<1>2. OneOperation' BY DEF IInv, TypeOK, OneOperation, Trampoline, Busy,
      CreateOps, JoinOps, Actors, desc, mapped
<1>3. HandleTaken' BY DEF IInv, TypeOK, HandleTaken, Trampoline, Busy,
      CreateOps, JoinOps, Actors, desc, mapped
<1>4. CreatesUnborn' BY DEF IInv, TypeOK, CreatesUnborn, Trampoline,
      CreateOps, Actors, desc, mapped
<1>5. JoinsBorn' BY DEF IInv, TypeOK, JoinsBorn, Trampoline, JoinOps, Joined,
      Actors, desc, mapped
<1>6. Delivered' BY DEF IInv, TypeOK, Delivered, Trampoline, Joined, Actors,
      desc, mapped
<1>7. HandlesBorn' BY DEF IInv, TypeOK, HandlesBorn, Trampoline, Actors, desc,
      mapped
<1>8. LivingDescribed' BY DEF IInv, TypeOK, LivingDescribed, Trampoline,
      Living, UserMode, CreateOps, JoinOps, Actors, Tid, Cleared, Pending,
      desc, mapped
<1>9. RetvalKept' BY DEF IInv, TypeOK, RetvalKept, Trampoline, Stored, Actors,
      desc, mapped
<1>10. NothingLeaks' BY DEF IInv, TypeOK, NothingLeaks, Trampoline, Operates,
       CreateOps, JoinOps, Actors, desc, mapped
<1>11. WakeOnItsWay' BY DEF IInv, TypeOK, WakeOnItsWay, Trampoline, Actors,
       Cleared, Tid, Pending, desc, mapped
<1> QED BY <1>1, <1>2, <1>3, <1>4, <1>5, <1>6, <1>7, <1>8, <1>9, <1>10, <1>11
  DEF IInv

LEMMA ReturnKeeps ==
  ASSUME IInv, NEW t \in Slots, NEW v \in Values, Return(t, v)
  PROVE  IInv'
<1>1. TypeOK' BY ThreadsAssumption DEF IInv, TypeOK, Return, UserMode,
      CreateOps, JoinOps, Idle, Actors, Cleared, Pending, Tid, desc, mapped
<1>2. OneOperation' BY DEF IInv, TypeOK, OneOperation, Return, Busy,
      CreateOps, JoinOps, Actors, desc, mapped
<1>3. HandleTaken' BY DEF IInv, TypeOK, HandleTaken, Return, Busy, CreateOps,
      JoinOps, Actors, desc, mapped
<1>4. CreatesUnborn' BY DEF IInv, TypeOK, CreatesUnborn, Return, CreateOps,
      Actors, desc, mapped
<1>5. JoinsBorn' BY DEF IInv, TypeOK, JoinsBorn, Return, JoinOps, Joined,
      Actors, desc, mapped
<1>6. Delivered' BY DEF IInv, TypeOK, Delivered, JoinsBorn, Return, Joined,
      Actors, JoinOps, desc, mapped
<1>7. HandlesBorn' BY DEF IInv, TypeOK, HandlesBorn, Return, Actors, desc,
      mapped
<1>8. LivingDescribed' BY DEF IInv, TypeOK, LivingDescribed, Return, Living,
      UserMode, CreateOps, JoinOps, Actors, Tid, Cleared, Pending, desc,
      mapped
<1>9. RetvalKept' BY DEF IInv, TypeOK, RetvalKept, LivingDescribed, Return,
      Stored, Actors, Living, UserMode, CreateOps, JoinOps, Tid, Cleared,
      Pending, desc, mapped
<1>10. NothingLeaks' BY DEF IInv, TypeOK, NothingLeaks, Return, Operates,
       CreateOps, JoinOps, Actors, desc, mapped
<1>11. WakeOnItsWay' BY DEF IInv, TypeOK, WakeOnItsWay, Return, Actors,
       Cleared, Tid, Pending, desc, mapped
<1> QED BY <1>1, <1>2, <1>3, <1>4, <1>5, <1>6, <1>7, <1>8, <1>9, <1>10, <1>11
  DEF IInv

LEMMA DoneKeeps ==
  ASSUME IInv, NEW t \in Slots, Done(t)
  PROVE  IInv'
<1>1. TypeOK' BY ThreadsAssumption DEF IInv, TypeOK, Done, UserMode,
      CreateOps, JoinOps, Idle, Actors, Cleared, Pending, Tid, desc, mapped
<1>2. OneOperation' BY DEF IInv, TypeOK, OneOperation, Done, Busy, CreateOps,
      JoinOps, Actors, desc, mapped
<1>3. HandleTaken' BY DEF IInv, TypeOK, HandleTaken, Done, Busy, CreateOps,
      JoinOps, Actors, desc, mapped
<1>4. CreatesUnborn' BY DEF IInv, TypeOK, CreatesUnborn, Done, CreateOps,
      Actors, desc, mapped
<1>5. JoinsBorn' BY DEF IInv, TypeOK, JoinsBorn, Done, JoinOps, Joined,
      Actors, desc, mapped
<1>6. Delivered' BY DEF IInv, TypeOK, Delivered, Done, Joined, Actors, desc,
      mapped
<1>7. HandlesBorn' BY DEF IInv, TypeOK, HandlesBorn, Done, Actors, desc,
      mapped
<1>8. LivingDescribed' BY DEF IInv, TypeOK, LivingDescribed, Done, Living,
      UserMode, CreateOps, JoinOps, Actors, Tid, Cleared, Pending, desc,
      mapped
<1>9. RetvalKept' BY DEF IInv, TypeOK, RetvalKept, Done, Stored, Actors, desc,
      mapped
<1>10. NothingLeaks' BY DEF IInv, TypeOK, NothingLeaks, Done, Operates,
       CreateOps, JoinOps, Actors, desc, mapped
<1>11. WakeOnItsWay' BY DEF IInv, TypeOK, WakeOnItsWay, Done, Actors, Cleared,
       Tid, Pending, desc, mapped
<1> QED BY <1>1, <1>2, <1>3, <1>4, <1>5, <1>6, <1>7, <1>8, <1>9, <1>10, <1>11
  DEF IInv

LEMMA ExitKeeps ==
  ASSUME IInv, NEW t \in Slots, Exit(t)
  PROVE  IInv'
<1>1. TypeOK' BY ThreadsAssumption DEF IInv, TypeOK, Exit, UserMode,
      CreateOps, JoinOps, Idle, Actors, Cleared, Pending, Tid, desc, mapped
<1>2. OneOperation' BY DEF IInv, TypeOK, OneOperation, Exit, Busy, CreateOps,
      JoinOps, Actors, desc, mapped
<1>3. HandleTaken' BY DEF IInv, TypeOK, HandleTaken, Exit, Busy, CreateOps,
      JoinOps, Actors, desc, mapped
<1>4. CreatesUnborn' BY DEF IInv, TypeOK, CreatesUnborn, Exit, CreateOps,
      Actors, desc, mapped
<1>5. JoinsBorn' BY DEF IInv, TypeOK, JoinsBorn, Exit, JoinOps, Joined,
      Actors, desc, mapped
<1>6. Delivered' BY DEF IInv, TypeOK, Delivered, Exit, Joined, Actors, desc,
      mapped
<1>7. HandlesBorn' BY DEF IInv, TypeOK, HandlesBorn, Exit, Actors, desc,
      mapped
<1>8. LivingDescribed' BY DEF IInv, TypeOK, LivingDescribed, Exit, Living,
      UserMode, CreateOps, JoinOps, Actors, Tid, Cleared, Pending, desc,
      mapped
<1>9. RetvalKept' BY DEF IInv, TypeOK, RetvalKept, Exit, Stored, Actors, desc,
      mapped
<1>10. NothingLeaks' BY DEF IInv, TypeOK, NothingLeaks, Exit, Operates,
       CreateOps, JoinOps, Actors, desc, mapped
<1>11. WakeOnItsWay' BY DEF IInv, TypeOK, WakeOnItsWay, Exit, Actors, Cleared,
       Tid, Pending, desc, mapped
<1> QED BY <1>1, <1>2, <1>3, <1>4, <1>5, <1>6, <1>7, <1>8, <1>9, <1>10, <1>11
  DEF IInv

LEMMA ClearTidKeeps ==
  ASSUME IInv, NEW t \in Slots, ClearTid(t)
  PROVE  IInv'
<1>1. TypeOK' BY ThreadsAssumption DEF IInv, TypeOK, ClearTid, UserMode,
      CreateOps, JoinOps, Idle, Actors, Cleared, Pending, Tid, desc, mapped
<1>2. OneOperation' BY DEF IInv, TypeOK, OneOperation, ClearTid, Busy,
      CreateOps, JoinOps, Actors, desc, mapped
<1>3. HandleTaken' BY DEF IInv, TypeOK, HandleTaken, ClearTid, Busy,
      CreateOps, JoinOps, Actors, desc, mapped
<1>4. CreatesUnborn' BY DEF IInv, TypeOK, CreatesUnborn, ClearTid, CreateOps,
      Actors, desc, mapped
<1>5. JoinsBorn' BY DEF IInv, TypeOK, JoinsBorn, ClearTid, JoinOps, Joined,
      Actors, desc, mapped
<1>6. Delivered' BY DEF IInv, TypeOK, Delivered, ClearTid, Joined, Actors,
      desc, mapped
<1>7. HandlesBorn' BY DEF IInv, TypeOK, HandlesBorn, ClearTid, Actors, desc,
      mapped
<1>8. LivingDescribed' BY DEF IInv, TypeOK, LivingDescribed, ClearTid, Living,
      UserMode, CreateOps, JoinOps, Actors, Tid, Cleared, Pending, desc,
      mapped
<1>9. RetvalKept' BY DEF IInv, TypeOK, RetvalKept, ClearTid, Stored, Actors,
      desc, mapped
<1>10. NothingLeaks' BY DEF IInv, TypeOK, NothingLeaks, ClearTid, Operates,
       CreateOps, JoinOps, Actors, desc, mapped
<1>11. WakeOnItsWay' BY DEF IInv, TypeOK, WakeOnItsWay, ClearTid, Actors,
       Cleared, Tid, Pending, desc, mapped
<1> QED BY <1>1, <1>2, <1>3, <1>4, <1>5, <1>6, <1>7, <1>8, <1>9, <1>10, <1>11
  DEF IInv

LEMMA WakeJoinerKeeps ==
  ASSUME IInv, NEW t \in Slots, WakeJoiner(t)
  PROVE  IInv'
<1>1. TypeOK' BY ThreadsAssumption DEF IInv, TypeOK, WakeJoiner, UserMode,
      CreateOps, JoinOps, Idle, Actors, Cleared, Pending, Tid, desc, mapped
<1>2. OneOperation' BY DEF IInv, TypeOK, OneOperation, WakeJoiner, Busy,
      CreateOps, JoinOps, Actors, desc, mapped
<1>3. HandleTaken' BY DEF IInv, TypeOK, HandleTaken, WakeJoiner, Busy,
      CreateOps, JoinOps, Actors, desc, mapped
<1>4. CreatesUnborn' BY DEF IInv, TypeOK, CreatesUnborn, WakeJoiner,
      CreateOps, Actors, desc, mapped
<1>5. JoinsBorn' BY DEF IInv, TypeOK, JoinsBorn, WakeJoiner, JoinOps, Joined,
      Actors, desc, mapped
<1>6. Delivered' BY DEF IInv, TypeOK, Delivered, WakeJoiner, Joined, Actors,
      desc, mapped
<1>7. HandlesBorn' BY DEF IInv, TypeOK, HandlesBorn, WakeJoiner, Actors, desc,
      mapped
<1>8. LivingDescribed' BY DEF IInv, TypeOK, LivingDescribed, WakeJoiner,
      Living, UserMode, CreateOps, JoinOps, Actors, Tid, Cleared, Pending,
      desc, mapped
<1>9. RetvalKept' BY DEF IInv, TypeOK, RetvalKept, WakeJoiner, Stored, Actors,
      desc, mapped
<1>10. NothingLeaks' BY DEF IInv, TypeOK, NothingLeaks, WakeJoiner, Operates,
       CreateOps, JoinOps, Actors, desc, mapped
<1>11. WakeOnItsWay' BY DEF IInv, TypeOK, WakeOnItsWay, OneOperation,
       WakeJoiner, Actors, Cleared, Tid, Pending, Busy, CreateOps, JoinOps,
       desc, mapped
<1> QED BY <1>1, <1>2, <1>3, <1>4, <1>5, <1>6, <1>7, <1>8, <1>9, <1>10, <1>11
  DEF IInv

LEMMA MainExitKeeps ==
  ASSUME IInv, MainExit
  PROVE  IInv'
<1>1. TypeOK' BY ThreadsAssumption DEF IInv, TypeOK, MainExit, UserMode,
      CreateOps, JoinOps, Idle, Actors, Cleared, Pending, Tid, desc, mapped
<1>2. OneOperation' BY ThreadsAssumption DEF IInv, TypeOK, OneOperation,
      MainExit, Busy, CreateOps, JoinOps, Actors, desc, mapped
<1>3. HandleTaken' BY ThreadsAssumption DEF IInv, TypeOK, HandleTaken,
      MainExit, Busy, CreateOps, JoinOps, Actors, desc, mapped
<1>4. CreatesUnborn' BY ThreadsAssumption DEF IInv, TypeOK, CreatesUnborn,
      MainExit, CreateOps, Actors, desc, mapped
<1>5. JoinsBorn' BY ThreadsAssumption DEF IInv, TypeOK, JoinsBorn, MainExit,
      JoinOps, Joined, Actors, desc, mapped
<1>6. Delivered' BY ThreadsAssumption DEF IInv, TypeOK, Delivered, MainExit,
      Joined, Actors, desc, mapped
<1>7. HandlesBorn' BY ThreadsAssumption DEF IInv, TypeOK, HandlesBorn,
      MainExit, Actors, desc, mapped
<1>8. LivingDescribed' BY ThreadsAssumption DEF IInv, TypeOK, LivingDescribed,
      MainExit, Living, UserMode, CreateOps, JoinOps, Actors, Tid, Cleared,
      Pending, desc, mapped
<1>9. RetvalKept' BY ThreadsAssumption DEF IInv, TypeOK, RetvalKept, MainExit,
      Stored, Actors, desc, mapped
<1>10. NothingLeaks' BY ThreadsAssumption DEF IInv, TypeOK, NothingLeaks,
       MainExit, Operates, CreateOps, JoinOps, Actors, desc, mapped
<1>11. WakeOnItsWay' BY ThreadsAssumption DEF IInv, TypeOK, WakeOnItsWay,
       MainExit, Actors, Cleared, Tid, Pending, desc, mapped
<1> QED BY <1>1, <1>2, <1>3, <1>4, <1>5, <1>6, <1>7, <1>8, <1>9, <1>10, <1>11
  DEF IInv

LEMMA JoinKeeps ==
  ASSUME IInv, NEW a \in Actors, NEW t \in Slots, Join(a, t)
  PROVE  IInv'
<1>1. TypeOK' BY ThreadsAssumption DEF IInv, TypeOK, Join, UserMode,
      CreateOps, JoinOps, Idle, Actors, Cleared, Pending, Tid, desc, mapped
<1>2. OneOperation' BY DEF IInv, TypeOK, OneOperation, HandleTaken, Join,
      Busy, CreateOps, JoinOps, Actors, desc, mapped
<1>3. HandleTaken' BY DEF IInv, TypeOK, HandleTaken, Join, Busy, CreateOps,
      JoinOps, Actors, desc, mapped
<1>4. CreatesUnborn' BY DEF IInv, TypeOK, CreatesUnborn, Join, CreateOps,
      Actors, desc, mapped
<1>5. JoinsBorn' BY DEF IInv, TypeOK, JoinsBorn, HandlesBorn, Join, JoinOps,
      Joined, Actors, desc, mapped
<1>6. Delivered' BY DEF IInv, TypeOK, Delivered, Join, Joined, Actors, desc,
      mapped
<1>7. HandlesBorn' BY DEF IInv, TypeOK, HandlesBorn, Join, Actors, desc,
      mapped
<1>8. LivingDescribed' BY DEF IInv, TypeOK, LivingDescribed, Join, Living,
      UserMode, CreateOps, JoinOps, Actors, Tid, Cleared, Pending, desc,
      mapped
<1>9. RetvalKept' BY DEF IInv, TypeOK, RetvalKept, Join, Stored, Actors, desc,
      mapped
<1>10. NothingLeaks' BY DEF IInv, TypeOK, NothingLeaks, Join, Operates,
       CreateOps, JoinOps, Actors, desc, mapped
<1>11. WakeOnItsWay' BY DEF IInv, TypeOK, WakeOnItsWay, Join, Actors, Cleared,
       Tid, Pending, desc, mapped
<1> QED BY <1>1, <1>2, <1>3, <1>4, <1>5, <1>6, <1>7, <1>8, <1>9, <1>10, <1>11
  DEF IInv

LEMMA CheckKeeps ==
  ASSUME IInv, NEW a \in Actors, Check(a)
  PROVE  IInv'
<1>1. TypeOK' BY ThreadsAssumption DEF IInv, TypeOK, Check, UserMode,
      CreateOps, JoinOps, Idle, Actors, Cleared, Pending, Tid, desc, mapped
<1>2. OneOperation' BY DEF IInv, TypeOK, OneOperation, Check, Busy, CreateOps,
      JoinOps, Actors, Idle, desc, mapped
<1>3. HandleTaken' BY DEF IInv, TypeOK, HandleTaken, Check, Busy, CreateOps,
      JoinOps, Actors, Idle, desc, mapped
<1>4. CreatesUnborn' BY DEF IInv, TypeOK, CreatesUnborn, Check, CreateOps,
      Actors, Idle, desc, mapped
<1>5. JoinsBorn' BY DEF IInv, TypeOK, JoinsBorn, LivingDescribed, Check,
      JoinOps, Joined, Actors, Living, UserMode, CreateOps, Tid, Cleared,
      Pending, Idle, desc, mapped
<1>6. Delivered' BY DEF IInv, TypeOK, Delivered, Check, Joined, Actors, Idle,
      desc, mapped
<1>7. HandlesBorn' BY DEF IInv, TypeOK, HandlesBorn, Check, Actors, Idle,
      desc, mapped
<1>8. LivingDescribed' BY DEF IInv, TypeOK, LivingDescribed, Check, Living,
      UserMode, CreateOps, JoinOps, Actors, Tid, Cleared, Pending, Idle, desc,
      mapped
<1>9. RetvalKept' BY DEF IInv, TypeOK, RetvalKept, Check, Stored, Actors,
      Idle, desc, mapped
<1>10. NothingLeaks' BY DEF IInv, TypeOK, NothingLeaks, Check, Operates,
       CreateOps, JoinOps, Actors, Idle, desc, mapped
<1>11. WakeOnItsWay' BY DEF IInv, TypeOK, WakeOnItsWay, Check, Actors,
       Cleared, Tid, Pending, Idle, desc, mapped
<1> QED BY <1>1, <1>2, <1>3, <1>4, <1>5, <1>6, <1>7, <1>8, <1>9, <1>10, <1>11
  DEF IInv

LEMMA LoadKeeps ==
  ASSUME IInv, NEW a \in Actors, Load(a)
  PROVE  IInv'
<1>1. TypeOK' BY ThreadsAssumption DEF IInv, TypeOK, Load, UserMode,
      CreateOps, JoinOps, Idle, Actors, Cleared, Pending, Tid, desc, mapped
<1>2. OneOperation' BY DEF IInv, TypeOK, OneOperation, Load, Busy, CreateOps,
      JoinOps, Actors, desc, mapped
<1>3. HandleTaken' BY DEF IInv, TypeOK, HandleTaken, Load, Busy, CreateOps,
      JoinOps, Actors, desc, mapped
<1>4. CreatesUnborn' BY DEF IInv, TypeOK, CreatesUnborn, Load, CreateOps,
      Actors, desc, mapped
<1>5. JoinsBorn' BY DEF IInv, TypeOK, JoinsBorn, Load, JoinOps, Joined,
      Actors, desc, mapped
<1>6. Delivered' BY DEF IInv, TypeOK, Delivered, Load, Joined, Actors, desc,
      mapped
<1>7. HandlesBorn' BY DEF IInv, TypeOK, HandlesBorn, Load, Actors, desc,
      mapped
<1>8. LivingDescribed' BY DEF IInv, TypeOK, LivingDescribed, Load, Living,
      UserMode, CreateOps, JoinOps, Actors, Tid, Cleared, Pending, desc,
      mapped
<1>9. RetvalKept' BY DEF IInv, TypeOK, RetvalKept, Load, Stored, Actors, desc,
      mapped
<1>10. NothingLeaks' BY DEF IInv, TypeOK, NothingLeaks, Load, Operates,
       CreateOps, JoinOps, Actors, desc, mapped
<1>11. WakeOnItsWay' BY DEF IInv, TypeOK, WakeOnItsWay, Load, Actors, Cleared,
       Tid, Pending, desc, mapped
<1> QED BY <1>1, <1>2, <1>3, <1>4, <1>5, <1>6, <1>7, <1>8, <1>9, <1>10, <1>11
  DEF IInv

LEMMA WaitKeeps ==
  ASSUME IInv, NEW a \in Actors, Wait(a)
  PROVE  IInv'
<1>1. TypeOK' BY ThreadsAssumption DEF IInv, TypeOK, Wait, UserMode,
      CreateOps, JoinOps, Idle, Actors, Cleared, Pending, Tid, desc, mapped
<1>2. OneOperation' BY DEF IInv, TypeOK, OneOperation, Wait, Busy, CreateOps,
      JoinOps, Actors, desc, mapped
<1>3. HandleTaken' BY DEF IInv, TypeOK, HandleTaken, Wait, Busy, CreateOps,
      JoinOps, Actors, desc, mapped
<1>4. CreatesUnborn' BY DEF IInv, TypeOK, CreatesUnborn, Wait, CreateOps,
      Actors, desc, mapped
<1>5. JoinsBorn' BY DEF IInv, TypeOK, JoinsBorn, Wait, JoinOps, Joined,
      Actors, desc, mapped
<1>6. Delivered' BY DEF IInv, TypeOK, Delivered, Wait, Joined, Actors, desc,
      mapped
<1>7. HandlesBorn' BY DEF IInv, TypeOK, HandlesBorn, Wait, Actors, desc,
      mapped
<1>8. LivingDescribed' BY DEF IInv, TypeOK, LivingDescribed, Wait, Living,
      UserMode, CreateOps, JoinOps, Actors, Tid, Cleared, Pending, desc,
      mapped
<1>9. RetvalKept' BY DEF IInv, TypeOK, RetvalKept, Wait, Stored, Actors, desc,
      mapped
<1>10. NothingLeaks' BY DEF IInv, TypeOK, NothingLeaks, Wait, Operates,
       CreateOps, JoinOps, Actors, desc, mapped
<1>11. WakeOnItsWay' BY DEF IInv, TypeOK, WakeOnItsWay, Wait, Actors, Cleared,
       Tid, Pending, desc, mapped
<1> QED BY <1>1, <1>2, <1>3, <1>4, <1>5, <1>6, <1>7, <1>8, <1>9, <1>10, <1>11
  DEF IInv

LEMMA InterruptKeeps ==
  ASSUME IInv, NEW a \in Actors, Interrupt(a)
  PROVE  IInv'
<1>1. TypeOK' BY ThreadsAssumption DEF IInv, TypeOK, Interrupt, UserMode,
      CreateOps, JoinOps, Idle, Actors, Cleared, Pending, Tid, desc, mapped
<1>2. OneOperation' BY DEF IInv, TypeOK, OneOperation, Interrupt, Busy,
      CreateOps, JoinOps, Actors, desc, mapped
<1>3. HandleTaken' BY DEF IInv, TypeOK, HandleTaken, Interrupt, Busy,
      CreateOps, JoinOps, Actors, desc, mapped
<1>4. CreatesUnborn' BY DEF IInv, TypeOK, CreatesUnborn, Interrupt, CreateOps,
      Actors, desc, mapped
<1>5. JoinsBorn' BY DEF IInv, TypeOK, JoinsBorn, Interrupt, JoinOps, Joined,
      Actors, desc, mapped
<1>6. Delivered' BY DEF IInv, TypeOK, Delivered, Interrupt, Joined, Actors,
      desc, mapped
<1>7. HandlesBorn' BY DEF IInv, TypeOK, HandlesBorn, Interrupt, Actors, desc,
      mapped
<1>8. LivingDescribed' BY DEF IInv, TypeOK, LivingDescribed, Interrupt,
      Living, UserMode, CreateOps, JoinOps, Actors, Tid, Cleared, Pending,
      desc, mapped
<1>9. RetvalKept' BY DEF IInv, TypeOK, RetvalKept, Interrupt, Stored, Actors,
      desc, mapped
<1>10. NothingLeaks' BY DEF IInv, TypeOK, NothingLeaks, Interrupt, Operates,
       CreateOps, JoinOps, Actors, desc, mapped
<1>11. WakeOnItsWay' BY DEF IInv, TypeOK, WakeOnItsWay, Interrupt, Actors,
       Cleared, Tid, Pending, desc, mapped
<1> QED BY <1>1, <1>2, <1>3, <1>4, <1>5, <1>6, <1>7, <1>8, <1>9, <1>10, <1>11
  DEF IInv

LEMMA CollectKeeps ==
  ASSUME IInv, NEW a \in Actors, Collect(a)
  PROVE  IInv'
<1>1. TypeOK' BY ThreadsAssumption DEF IInv, TypeOK, Collect, UserMode,
      CreateOps, JoinOps, Idle, Actors, Cleared, Pending, Tid, desc, mapped
<1>2. OneOperation' BY DEF IInv, TypeOK, OneOperation, Collect, Busy,
      CreateOps, JoinOps, Actors, desc, mapped
<1>3. HandleTaken' BY DEF IInv, TypeOK, HandleTaken, Collect, Busy, CreateOps,
      JoinOps, Actors, desc, mapped
<1>4. CreatesUnborn' BY DEF IInv, TypeOK, CreatesUnborn, OneOperation,
      Collect, CreateOps, Actors, Busy, JoinOps, desc, mapped
<1>5. JoinsBorn' BY DEF IInv, TypeOK, JoinsBorn, Collect, JoinOps, Joined,
      Actors, desc, mapped
<1>6. Delivered' BY DEF IInv, TypeOK, Delivered, OneOperation, RetvalKept,
      JoinsBorn, Collect, Joined, Actors, Busy, CreateOps, JoinOps, Stored,
      desc, mapped
<1>7. HandlesBorn' BY DEF IInv, TypeOK, HandlesBorn, Collect, Actors, desc,
      mapped
<1>8. LivingDescribed' BY DEF IInv, TypeOK, LivingDescribed, JoinsBorn,
      Collect, Living, UserMode, CreateOps, JoinOps, Actors, Tid, Cleared,
      Pending, Joined, desc, mapped
<1>9. RetvalKept' BY DEF IInv, TypeOK, RetvalKept, Collect, Stored, Actors,
      desc, mapped
<1>10. NothingLeaks' BY DEF IInv, TypeOK, NothingLeaks, Collect, Operates,
       CreateOps, JoinOps, Actors, desc, mapped
<1>11. WakeOnItsWay' BY DEF IInv, TypeOK, WakeOnItsWay, Collect, Actors,
       Cleared, Tid, Pending, desc, mapped
<1> QED BY <1>1, <1>2, <1>3, <1>4, <1>5, <1>6, <1>7, <1>8, <1>9, <1>10, <1>11
  DEF IInv

LEMMA UnmapStackKeeps ==
  ASSUME IInv, NEW a \in Actors, UnmapStack(a)
  PROVE  IInv'
<1>1. TypeOK' BY ThreadsAssumption DEF IInv, TypeOK, UnmapStack, UserMode,
      CreateOps, JoinOps, Idle, Actors, Cleared, Pending, Tid, desc, mapped
<1>2. OneOperation' BY DEF IInv, TypeOK, OneOperation, UnmapStack, Busy,
      CreateOps, JoinOps, Actors, desc, mapped
<1>3. HandleTaken' BY DEF IInv, TypeOK, HandleTaken, UnmapStack, Busy,
      CreateOps, JoinOps, Actors, desc, mapped
<1>4. CreatesUnborn' BY DEF IInv, TypeOK, CreatesUnborn, OneOperation,
      UnmapStack, CreateOps, Actors, Busy, JoinOps, desc, mapped
<1>5. JoinsBorn' BY DEF IInv, TypeOK, JoinsBorn, OneOperation, UnmapStack,
      JoinOps, Joined, Actors, Busy, CreateOps, desc, mapped
<1>6. Delivered' BY DEF IInv, TypeOK, Delivered, UnmapStack, Joined, Actors,
      desc, mapped
<1>7. HandlesBorn' BY DEF IInv, TypeOK, HandlesBorn, HandleTaken, UnmapStack,
      Actors, Busy, CreateOps, JoinOps, desc, mapped
<1>8. LivingDescribed' BY DEF IInv, TypeOK, LivingDescribed, JoinsBorn,
      UnmapStack, Living, UserMode, CreateOps, JoinOps, Actors, Tid, Cleared,
      Pending, Joined, desc, mapped
<1>9. RetvalKept' BY DEF IInv, TypeOK, RetvalKept, UnmapStack, Stored, Actors,
      desc, mapped
<1>10. NothingLeaks' BY DEF IInv, TypeOK, NothingLeaks, UnmapStack, Operates,
       CreateOps, JoinOps, Actors, desc, mapped
<1>11. WakeOnItsWay' BY DEF IInv, TypeOK, WakeOnItsWay, UnmapStack, Actors,
       Cleared, Tid, Pending, desc, mapped
<1> QED BY <1>1, <1>2, <1>3, <1>4, <1>5, <1>6, <1>7, <1>8, <1>9, <1>10, <1>11
  DEF IInv

LEMMA UnmapTlsKeeps ==
  ASSUME IInv, NEW a \in Actors, UnmapTls(a)
  PROVE  IInv'
<1>1. TypeOK' BY ThreadsAssumption DEF IInv, TypeOK, UnmapTls, UserMode,
      CreateOps, JoinOps, Idle, Actors, Cleared, Pending, Tid, desc, mapped
<1>2. OneOperation' BY DEF IInv, TypeOK, OneOperation, UnmapTls, Busy,
      CreateOps, JoinOps, Actors, desc, mapped
<1>3. HandleTaken' BY DEF IInv, TypeOK, HandleTaken, UnmapTls, Busy,
      CreateOps, JoinOps, Actors, desc, mapped
<1>4. CreatesUnborn' BY DEF IInv, TypeOK, CreatesUnborn, OneOperation,
      UnmapTls, CreateOps, Actors, Busy, JoinOps, desc, mapped
<1>5. JoinsBorn' BY DEF IInv, TypeOK, JoinsBorn, OneOperation, UnmapTls,
      JoinOps, Joined, Actors, Busy, CreateOps, desc, mapped
<1>6. Delivered' BY DEF IInv, TypeOK, Delivered, UnmapTls, Joined, Actors,
      desc, mapped
<1>7. HandlesBorn' BY DEF IInv, TypeOK, HandlesBorn, HandleTaken, UnmapTls,
      Actors, Busy, CreateOps, JoinOps, desc, mapped
<1>8. LivingDescribed' BY DEF IInv, TypeOK, LivingDescribed, JoinsBorn,
      UnmapTls, Living, UserMode, CreateOps, JoinOps, Actors, Tid, Cleared,
      Pending, Joined, desc, mapped
<1>9. RetvalKept' BY DEF IInv, TypeOK, RetvalKept, UnmapTls, Stored, Actors,
      desc, mapped
<1>10. NothingLeaks' BY DEF IInv, TypeOK, NothingLeaks, JoinsBorn, UnmapTls,
       Operates, CreateOps, JoinOps, Actors, Joined, desc, mapped
<1>11. WakeOnItsWay' BY DEF IInv, TypeOK, WakeOnItsWay, UnmapTls, Actors,
       Cleared, Tid, Pending, desc, mapped
<1> QED BY <1>1, <1>2, <1>3, <1>4, <1>5, <1>6, <1>7, <1>8, <1>9, <1>10, <1>11
  DEF IInv

(* Every reachable state satisfies the invariant.                          *)
LEMMA Invariance == Spec => []IInv
<1>1. Init => IInv
  BY ThreadsAssumption
  DEF Init, IInv, TypeOK, OneOperation, HandleTaken, CreatesUnborn, JoinsBorn,
      Delivered, HandlesBorn, LivingDescribed, RetvalKept, NothingLeaks,
      WakeOnItsWay, Busy, Stored, Joined, Living, UserMode, CreateOps, JoinOps,
      Idle, Actors, Cleared, Pending, Tid, desc, mapped
<1>2. IInv /\ [Next]_vars => IInv'
  <2> SUFFICES ASSUME IInv, [Next]_vars PROVE IInv'
    OBVIOUS
  <2>1. CASE \E a \in Actors, t \in Slots : MapStack(a, t) \/ Join(a, t)
    BY <2>1, MapStackKeeps, JoinKeeps
  <2>2. CASE \E a \in Actors : Creating(a)
    BY <2>2, MapTlsKeeps, MapTlsFailsKeeps, CloneKeeps, CloneFailsKeeps DEF Creating
  <2>3. CASE \E a \in Actors : Joining(a)
    BY <2>3, CheckKeeps, LoadKeeps, WaitKeeps, CollectKeeps, UnmapStackKeeps,
       UnmapTlsKeeps DEF Joining
  <2>4. CASE \E a \in Actors : Interrupt(a)
    BY <2>4, InterruptKeeps
  <2>5. CASE \E t \in Slots : Ending(t)
    BY <2>5, TrampolineKeeps, DoneKeeps, ExitKeeps, ClearTidKeeps DEF Ending
  <2>6. CASE \E t \in Slots : WakeJoiner(t)
    BY <2>6, WakeJoinerKeeps
  <2>7. CASE \E t \in Slots : \E v \in Values : Return(t, v)
    BY <2>7, ReturnKeeps
  <2>8. CASE MainExit
    BY <2>8, MainExitKeeps
  <2>9. CASE UNCHANGED vars
    BY <2>9
    DEF vars, desc, mapped, IInv, TypeOK, OneOperation, HandleTaken,
        CreatesUnborn, JoinsBorn, Delivered, HandlesBorn, LivingDescribed,
        RetvalKept, NothingLeaks, WakeOnItsWay, Operates
  <2> QED BY <2>1, <2>2, <2>3, <2>4, <2>5, <2>6, <2>7, <2>8, <2>9 DEF Next
<1> QED BY <1>1, <1>2, PTL DEF Spec

(* The words and flags of the descriptors hold only what thread_linux.c    *)
(* stores in them, and no more threads are counted than were created.      *)
THEOREM TypeCorrect == Spec => []TypeOK
<1>1. IInv => TypeOK
  BY DEF IInv
<1> QED BY <1>1, Invariance, PTL

(* A thread's stack and TLS block stay mapped until it has left user mode  *)
(* for good and the kernel has cleared t->tid: pthread_join never unmaps   *)
(* the stack of a thread that still runs on it.                            *)
THEOREM StackSafety == Spec => []MemoryWhileRunning
<1>1. IInv => MemoryWhileRunning
  BY DEF IInv, LivingDescribed, MemoryWhileRunning, Living
<1> QED BY <1>1, Invariance, PTL

(* Neither pthread_create nor pthread_join touches a descriptor once the   *)
(* stack that holds it is unmapped.                                        *)
THEOREM DescriptorSafety == Spec => []DescriptorMapped
<1>1. IInv => DescriptorMapped
  BY DEF IInv, CreatesUnborn, JoinsBorn, DescriptorMapped, CreateOps, JoinOps
<1> QED BY <1>1, Invariance, PTL

(* pthread_join delivers the value the thread returned or gave to          *)
(* pthread_exit.                                                           *)
THEOREM JoinDelivery == Spec => []JoinDelivers
<1>1. IInv => JoinDelivers
  BY DEF IInv, Delivered, JoinDelivers, Joined
<1> QED BY <1>1, Invariance, PTL

(* Memory that no thread, create or join accounts for does not exist:      *)
(* every failure path of pthread_create and every join unmaps all it must. *)
THEOREM NoThreadLeaks == Spec => []NothingLeaks
<1>1. IInv => NothingLeaks
  BY DEF IInv
<1> QED BY <1>1, Invariance, PTL

(* FUTEX_WAIT's comparison closes the window between the test of t->tid    *)
(* and the sleep, for a joiner that loaded a tid that was not yet cleared. *)
THEOREM NoLostWake == Spec => []WakeOnItsWay
<1>1. IInv => WakeOnItsWay
  BY DEF IInv
<1> QED BY <1>1, Invariance, PTL

(* The memory of a thread is there from before its first instruction until *)
(* nobody needs it, and not after.                                         *)
THEOREM MemoryIsExact == Spec => []MemoryExact
BY StackSafety, DescriptorSafety, NoThreadLeaks, PTL DEF MemoryExact
=============================================================================
