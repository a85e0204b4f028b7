-------------------------- MODULE VolumeLocksProofs --------------------------
(* Proofs about VolumeLocks for any number of goroutines, ids and mutexes.   *)
EXTENDS VolumeLocks, TLAPS

(* A mutex the map holds is held for one id only.                            *)
OneIdPerMutex ==
  \A i, j \in Ids : mutexes[i] = mutexes[j] /\ mutexes[i] # None => i = j

(* An offered mutex is known to the goroutine that made it and to no other.  *)
OfferIsPrivate ==
  \A c \in Clients : pc[c] = "offer" =>
    /\ id[c] \in Ids /\ mtx[c] \in Mutexes
    /\ \A i \in Ids : mutexes[i] # mtx[c]
    /\ \A d \in Clients : d # c => mtx[d] # mtx[c]

(* From LoadOrStore to the unlock, a goroutine has the mutex of its id.      *)
HasItsMutex ==
  \A c \in Clients : pc[c] \in {"lock", "critical"} =>
    /\ id[c] \in Ids /\ mtx[c] \in Mutexes
    /\ mtx[c] = mutexes[id[c]]

(* A mutex is locked exactly by the goroutine in its critical section.       *)
OwnerIsCritical ==
  /\ \A c \in Clients : pc[c] = "critical" => owner[mtx[c]] = c
  /\ \A m \in Mutexes : owner[m] # None =>
       owner[m] \in Clients /\ pc[owner[m]] = "critical" /\ mtx[owner[m]] = m

IInv == TypeOK /\ OneIdPerMutex /\ OfferIsPrivate /\ HasItsMutex /\ OwnerIsCritical

(* No goroutine has called Lock yet: the invariant holds initially.          *)
LEMMA InitIInv == Init => IInv
  BY VolumeLocksNone
  DEF Init, IInv, TypeOK, OneIdPerMutex, OfferIsPrivate, HasItsMutex, OwnerIsCritical, PCs

(* No step of Lock or of the closure it returns breaks the invariant.        *)
LEMMA NextIInv == IInv /\ [Next]_vars => IInv'
<1> SUFFICES ASSUME IInv, [Next]_vars PROVE IInv'
  OBVIOUS
<1> USE VolumeLocksNone
<1>1. ASSUME NEW c \in Clients, NEW i \in Ids, Enter(c, i) PROVE IInv'
  BY <1>1 DEF IInv, TypeOK, OneIdPerMutex, OfferIsPrivate, HasItsMutex, OwnerIsCritical,
              PCs, Enter, Unreferenced
<1>2. ASSUME NEW c \in Clients, LoadOrStore(c) PROVE IInv'
  <2>1. CASE mutexes[id[c]] = None
    BY <1>2, <2>1 DEF IInv, TypeOK, OneIdPerMutex, OfferIsPrivate, HasItsMutex,
                      OwnerIsCritical, PCs, LoadOrStore
  <2>2. CASE mutexes[id[c]] # None
    BY <1>2, <2>2 DEF IInv, TypeOK, OneIdPerMutex, OfferIsPrivate, HasItsMutex,
                      OwnerIsCritical, PCs, LoadOrStore
  <2> QED BY <2>1, <2>2
<1>3. ASSUME NEW c \in Clients, MutexLock(c) PROVE IInv'
  BY <1>3 DEF IInv, TypeOK, OneIdPerMutex, OfferIsPrivate, HasItsMutex, OwnerIsCritical,
              PCs, MutexLock
<1>4. ASSUME NEW c \in Clients, Unlock(c) PROVE IInv'
  BY <1>4 DEF IInv, TypeOK, OneIdPerMutex, OfferIsPrivate, HasItsMutex, OwnerIsCritical,
              PCs, Unlock
<1>5. CASE UNCHANGED vars
  BY <1>5 DEF IInv, TypeOK, OneIdPerMutex, OfferIsPrivate, HasItsMutex, OwnerIsCritical,
              PCs, vars
<1> QED BY <1>1, <1>2, <1>3, <1>4, <1>5 DEF Next

(* The inductive invariant: what Lock keeps true between any two of its      *)
(* calls into sync.Map and sync.Mutex.                                       *)
THEOREM Invariance == Spec => []IInv
  BY InitIInv, NextIInv, PTL DEF Spec

(* Lock gives mutual exclusion per volume id: the type invariant and         *)
(* MutualExclusion hold however many goroutines call Lock, for however many  *)
(* ids.                                                                      *)
THEOREM LockExcludes == Spec => [](TypeOK /\ MutualExclusion)
<1>1. IInv => TypeOK /\ MutualExclusion
  BY DEF IInv, MutualExclusion, HasItsMutex, OwnerIsCritical
<1> QED BY <1>1, Invariance, PTL

(* A goroutine waits in mtx.Lock() only for one that locked the same id.     *)
THEOREM LockIsPerVolume == Spec => []NoFalseSharing
<1>1. IInv => NoFalseSharing
  BY VolumeLocksNone DEF IInv, TypeOK, NoFalseSharing, OneIdPerMutex, HasItsMutex, OwnerIsCritical
<1> QED BY <1>1, Invariance, PTL

(* Under the invariant, the abstract holder of an id is the one goroutine    *)
(* that is in the critical section for it.                                   *)
LEMMA HolderIsCritical ==
  ASSUME IInv, NEW i \in Ids
  PROVE  /\ \A c \in Clients : holderBar[i] = c <=> pc[c] = "critical" /\ id[c] = i
         /\ holderBar[i] = None <=> \A c \in Clients : ~(pc[c] = "critical" /\ id[c] = i)
<1>1. \A c, d \in Clients :
        pc[c] = "critical" /\ id[c] = i /\ pc[d] = "critical" /\ id[d] = i => c = d
  BY DEF IInv, HasItsMutex, OwnerIsCritical
<1>2. CASE \E c \in Clients : pc[c] = "critical" /\ id[c] = i
  <2>1. holderBar[i] \in Clients /\ pc[holderBar[i]] = "critical" /\ id[holderBar[i]] = i
    BY <1>2 DEF holderBar
  <2> QED BY <1>1, <1>2, <2>1, VolumeLocksNone
<1>3. CASE ~ \E c \in Clients : pc[c] = "critical" /\ id[c] = i
  <2>1. holderBar[i] = None
    BY <1>3 DEF holderBar
  <2> QED BY <1>3, <2>1, VolumeLocksNone
<1> QED BY <1>2, <1>3

(* VolumeLocks implements KeyedLock: seen through wantBar and holderBar,     *)
(* entering Lock is a request, mtx.Lock() is the acquisition and the         *)
(* returned closure is the release; LoadOrStore is invisible.                *)
THEOREM LockImplementsKeyedLock == Spec => ImplementsKeyedLock
<1>1. Init => Abstract!Init
  BY DEF Init, Abstract!Init, wantBar, holderBar
<1>2. IInv /\ IInv' /\ [Next]_vars => [Abstract!Next]_(Abstract!vars)
  <2> SUFFICES ASSUME IInv, IInv', [Next]_vars
               PROVE  [Abstract!Next]_(Abstract!vars)
    OBVIOUS
  <2> USE VolumeLocksNone
  <2>0. TypeOK /\ TypeOK'
    BY DEF IInv
  <2>1. ASSUME NEW c \in Clients, NEW i \in Ids, Enter(c, i)
        PROVE  Abstract!Request(c, i)
    <3>1. wantBar[c] = None /\ wantBar' = [wantBar EXCEPT ![c] = i]
      BY <2>0, <2>1 DEF wantBar, Enter, TypeOK, PCs
    <3>2. \A j \in Ids : holderBar[j] # c
      BY <2>1, HolderIsCritical DEF Enter
    <3>3. UNCHANGED holderBar
      BY <2>0, <2>1 DEF holderBar, Enter, TypeOK, PCs
    <3> QED BY <3>1, <3>2, <3>3 DEF Abstract!Request
  <2>2. ASSUME NEW c \in Clients, LoadOrStore(c)
        PROVE  UNCHANGED <<wantBar, holderBar>>
    <3>1. UNCHANGED id /\ pc' = [pc EXCEPT ![c] = "lock"] /\ pc[c] = "offer"
      BY <2>2 DEF LoadOrStore
    <3>2. UNCHANGED wantBar
      BY <2>0, <3>1 DEF wantBar, TypeOK, PCs
    <3>3. UNCHANGED holderBar
      BY <2>0, <3>1 DEF holderBar, TypeOK, PCs
    <3> QED BY <3>2, <3>3
  <2>3. ASSUME NEW c \in Clients, MutexLock(c)
        PROVE  Abstract!Acquire(c, id[c])
    <3>1. id[c] \in Ids /\ wantBar[c] = id[c] /\ wantBar' = [wantBar EXCEPT ![c] = None]
      BY <2>0, <2>3 DEF wantBar, MutexLock, TypeOK, PCs, IInv, HasItsMutex
    <3>2. holderBar[id[c]] = None
      <4>1. ASSUME NEW d \in Clients, pc[d] = "critical", id[d] = id[c] PROVE FALSE
        BY <2>3, <3>1, <4>1 DEF MutexLock, IInv, HasItsMutex, OwnerIsCritical
      <4> QED BY <3>1, <4>1, HolderIsCritical
    <3>3. holderBar' = [holderBar EXCEPT ![id[c]] = c]
      <4>1. ASSUME NEW i \in Ids
            PROVE  holderBar'[i] = IF i = id[c] THEN c ELSE holderBar[i]
        <5>1. CASE i = id[c]
          <6>1. pc'[c] = "critical" /\ id'[c] = i
            BY <2>0, <2>3, <5>1 DEF MutexLock, TypeOK
          <6>2. \A d \in Clients : pc'[d] = "critical" /\ id'[d] = i => d = c
            BY <6>1 DEF IInv, HasItsMutex, OwnerIsCritical
          <6> QED BY <5>1, <6>1, <6>2 DEF holderBar
        <5>2. CASE i # id[c]
          <6>1. \A d \in Clients : (pc'[d] = "critical" /\ id'[d] = i) <=> (pc[d] = "critical" /\ id[d] = i)
            BY <2>0, <2>3, <5>2 DEF MutexLock, TypeOK
          <6> QED BY <5>2, <6>1 DEF holderBar
        <5> QED BY <5>1, <5>2
      <4> QED BY <4>1 DEF holderBar
    <3> QED BY <3>1, <3>2, <3>3 DEF Abstract!Acquire
  <2>4. ASSUME NEW c \in Clients, Unlock(c)
        PROVE  Abstract!Release(c, id[c])
    <3>1. id[c] \in Ids
      BY <2>4 DEF Unlock, IInv, HasItsMutex
    <3>2. holderBar[id[c]] = c
      BY <2>4, <3>1, HolderIsCritical DEF Unlock
    <3>3. UNCHANGED wantBar
      BY <2>0, <2>4 DEF wantBar, Unlock, TypeOK, PCs
    <3>4. holderBar' = [holderBar EXCEPT ![id[c]] = None]
      <4>1. ASSUME NEW i \in Ids
            PROVE  holderBar'[i] = IF i = id[c] THEN None ELSE holderBar[i]
        <5>1. CASE i = id[c]
          <6>1. \A d \in Clients : ~(pc'[d] = "critical" /\ id'[d] = i)
            BY <2>0, <2>4, <5>1 DEF Unlock, TypeOK, IInv, HasItsMutex, OwnerIsCritical
          <6> QED BY <5>1, <6>1 DEF holderBar
        <5>2. CASE i # id[c]
          <6>1. \A d \in Clients : (pc'[d] = "critical" /\ id'[d] = i) <=> (pc[d] = "critical" /\ id[d] = i)
            BY <2>0, <2>4, <5>2 DEF Unlock, TypeOK
          <6> QED BY <5>2, <6>1 DEF holderBar
        <5> QED BY <5>1, <5>2
      <4> QED BY <4>1 DEF holderBar
    <3> QED BY <3>2, <3>3, <3>4 DEF Abstract!Release
  <2>5. CASE UNCHANGED vars
    BY <2>5 DEF vars, Abstract!vars, wantBar, holderBar
  <2>6. ASSUME NEW c \in Clients, MutexLock(c) \/ Unlock(c) PROVE id[c] \in Ids
    BY <2>6 DEF MutexLock, Unlock, IInv, HasItsMutex
  <2> QED BY <2>1, <2>2, <2>3, <2>4, <2>5, <2>6 DEF Next, Abstract!Next, Abstract!vars
<1> QED BY <1>1, <1>2, Invariance, PTL DEF Spec, ImplementsKeyedLock, Abstract!Spec
=============================================================================
