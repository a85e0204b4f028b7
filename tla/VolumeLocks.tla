----------------------------- MODULE VolumeLocks -----------------------------
(* pkg/util/idlocker.go: a lock per volume id.  Lock(id) makes a new mutex,  *)
(* offers it to a concurrent map (sync.Map.LoadOrStore), locks whichever     *)
(* mutex the map holds for the id, and returns the closure that unlocks that *)
(* mutex.  Each call into sync.Map or sync.Mutex is one step; goroutines     *)
(* interleave between them.                                                  *)

CONSTANTS
  Clients,   \* goroutines that may be inside Lock at the same time
  Ids,       \* volume ids (and volume names: CreateVolume locks by name)
  Mutexes,   \* addresses of sync.Mutex objects
  None       \* nil

ASSUME VolumeLocksNone ==
  None \notin Clients /\ None \notin Ids /\ None \notin Mutexes

VARIABLES
  mutexes,   \* VolumeLocks.mutexes, the sync.Map: id -> mutex
  owner,     \* state of each mutex: the goroutine that locked it
  pc,        \* where each goroutine is
  id,        \* the argument volumeID of its call
  mtx        \* its local mtx: first the new mutex, then the one to lock

vars == <<mutexes, owner, pc, id, mtx>>

PCs == {"idle", "offer", "lock", "critical"}

TypeOK ==
  /\ mutexes \in [Ids -> Mutexes \cup {None}]
  /\ owner \in [Mutexes -> Clients \cup {None}]
  /\ pc \in [Clients -> PCs]
  /\ id \in [Clients -> Ids \cup {None}]
  /\ mtx \in [Clients -> Mutexes \cup {None}]

Init ==
  /\ mutexes = [i \in Ids |-> None]
  /\ owner = [m \in Mutexes |-> None]
  /\ pc = [c \in Clients |-> "idle"]
  /\ id = [c \in Clients |-> None]
  /\ mtx = [c \in Clients |-> None]

(* Memory that no map entry and no local variable refers to. *)
Unreferenced(m) ==
  /\ \A i \in Ids : mutexes[i] # m
  /\ \A c \in Clients : mtx[c] # m

(* Lock(volumeID) is entered and evaluates &sync.Mutex{}. *)
Enter(c, i) ==
  /\ pc[c] = "idle"
  /\ \E m \in Mutexes :
       /\ Unreferenced(m)
       /\ mtx' = [mtx EXCEPT ![c] = m]
  /\ id' = [id EXCEPT ![c] = i]
  /\ pc' = [pc EXCEPT ![c] = "offer"]
  /\ UNCHANGED <<mutexes, owner>>

(* Mutant: the map takes the offered mutex even when it has one already.     *)
LoadOrStore_Overwrites(c) ==
  /\ pc[c] = "offer"
  /\ mutexes' = [mutexes EXCEPT ![id[c]] = mtx[c]]
  /\ pc' = [pc EXCEPT ![c] = "lock"]
  /\ UNCHANGED <<owner, id, mtx>>

(* Mutant: whatever mutex the map holds for some volume is used.             *)
LoadOrStore_AnyEntry(c) ==
  /\ pc[c] = "offer"
  /\ \/ /\ \A i \in Ids : mutexes[i] = None
        /\ mutexes' = [mutexes EXCEPT ![id[c]] = mtx[c]]
        /\ UNCHANGED mtx
     \/ \E i \in Ids :
          /\ mutexes[i] # None
          /\ mtx' = [mtx EXCEPT ![c] = mutexes[i]]
          /\ UNCHANGED mutexes
  /\ pc' = [pc EXCEPT ![c] = "lock"]
  /\ UNCHANGED <<owner, id>>

(* value, _ := vl.mutexes.LoadOrStore(volumeID, &sync.Mutex{}) *)
LoadOrStore(c) ==
  /\ pc[c] = "offer"
  /\ \/ /\ mutexes[id[c]] = None
        /\ mutexes' = [mutexes EXCEPT ![id[c]] = mtx[c]]
        /\ UNCHANGED mtx
     \/ /\ mutexes[id[c]] # None
        /\ mtx' = [mtx EXCEPT ![c] = mutexes[id[c]]]
        /\ UNCHANGED mutexes
  /\ pc' = [pc EXCEPT ![c] = "lock"]
  /\ UNCHANGED <<owner, id>>

(* mtx.Lock() *)
MutexLock(c) ==
  /\ pc[c] = "lock"
  /\ owner[mtx[c]] = None
  /\ owner' = [owner EXCEPT ![mtx[c]] = c]
  /\ pc' = [pc EXCEPT ![c] = "critical"]
  /\ UNCHANGED <<mutexes, id, mtx>>

(* Mutant: a path that leaves the critical section without unlocking.        *)
Unlock_Forgotten(c) ==
  /\ pc[c] = "critical"
  /\ pc' = [pc EXCEPT ![c] = "idle"]
  /\ id' = [id EXCEPT ![c] = None]
  /\ mtx' = [mtx EXCEPT ![c] = None]
  /\ UNCHANGED <<mutexes, owner>>

(* The returned closure: mtx.Unlock() *)
Unlock(c) ==
  /\ pc[c] = "critical"
  /\ owner' = [owner EXCEPT ![mtx[c]] = None]
  /\ pc' = [pc EXCEPT ![c] = "idle"]
  /\ id' = [id EXCEPT ![c] = None]
  /\ mtx' = [mtx EXCEPT ![c] = None]
  /\ UNCHANGED mutexes

Next ==
  \E c \in Clients :
    (\E i \in Ids : Enter(c, i)) \/ LoadOrStore(c) \/ MutexLock(c) \/ Unlock(c)

(* A goroutine that can run does run.  A waiter on a sync.Mutex is not       *)
(* overtaken for ever: after 1 ms of waiting the mutex goes into starvation  *)
(* mode and is handed over in FIFO order, hence strong fairness of           *)
(* MutexLock.  Handlers return, every call they make having a time-out.      *)
Fairness ==
  \A c \in Clients :
    WF_vars(LoadOrStore(c)) /\ SF_vars(MutexLock(c)) /\ WF_vars(Unlock(c))

Spec == Init /\ [][Next]_vars
FairSpec == Spec /\ Fairness

-----------------------------------------------------------------------------
(* Two goroutines that locked the same volume id are never both between Lock *)
(* and the unlock it returned, even when both made the first call for the id *)
(* at the same time and each offered a mutex of its own.                     *)
MutualExclusion ==
  \A c, d \in Clients :
    c # d /\ pc[c] = "critical" /\ pc[d] = "critical" => id[c] # id[d]

(* A goroutine blocked in mtx.Lock() is blocked by one that works on the     *)
(* same volume: requests for different volumes never wait for each other.    *)
NoFalseSharing ==
  \A c \in Clients :
    pc[c] = "lock" /\ owner[mtx[c]] # None =>
      /\ pc[owner[mtx[c]]] = "critical"
      /\ id[owner[mtx[c]]] = id[c]

(* Every Lock call returns, whatever the other goroutines ask for.           *)
LockReturns == \A c \in Clients : pc[c] = "offer" ~> pc[c] = "critical"

(* The promise this code keeps: KeyedLock, where a goroutine wants an id     *)
(* from the moment it enters Lock and holds it while it is in the critical   *)
(* section.                                                                  *)
wantBar == [c \in Clients |-> IF pc[c] \in {"offer", "lock"} THEN id[c] ELSE None]

holderBar ==
  [i \in Ids |->
     IF \E c \in Clients : pc[c] = "critical" /\ id[c] = i
       THEN CHOOSE c \in Clients : pc[c] = "critical" /\ id[c] = i
       ELSE None]

Abstract == INSTANCE KeyedLock WITH want <- wantBar, holder <- holderBar

ImplementsKeyedLock == Abstract!Spec
=============================================================================
