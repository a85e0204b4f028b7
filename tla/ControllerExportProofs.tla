----------------------- MODULE ControllerExportProofs ------------------------
(* More about Controller, on top of ControllerProofs: its handlers use the   *)
(* lock as KeyedLock prescribes, leave no lvol behind, and roll back no      *)
(* volume that was acknowledged.                                             *)
EXTENDS ControllerProofs

(* A lock that is taken is that of the key of a handler past Lock.           *)
LockExact ==
  \A k \in Keys : holder[k] # None =>
    key[holder[k]] = k /\ pc[holder[k]] \notin {"idle", "lock"}

(* The CO awaits one response per key, and that of a create only until the   *)
(* name is acknowledged; as long as it never stops waiting it awaits every   *)
(* handler.  It deletes only what was acknowledged.                          *)
CallsOK ==
  /\ \A t, u \in awaited : key[t] = key[u] => t = u
  /\ \A t \in awaited : Busy(t) /\ (op[t] = "create" => bound[key[t]] = None)
  /\ timeouts = 0 => \A t \in Workers : Busy(t) => t \in awaited
  /\ \A t \in Workers : op[t] = "delete" => vol[t] \in doomed
  /\ \A l \in doomed : \E n \in Names : bound[n] = l
  /\ \A t \in Workers : ~Busy(t) => op[t] = "none" /\ vol[t] = None

(* A create that has found or created an lvol has the only live one of its   *)
(* name, if the name is not blind.                                           *)
FoundOK ==
  \A t \in Workers, l \in Lvols :
    /\ pc[t] \in VolumeLabels /\ op[t] = "create" /\ key[t] \notin blind
    /\ Live(l) /\ lvname[l] = key[t]
    => l = vol[t]

CInv == LockExact /\ CallsOK /\ FoundOK /\ NoOrphanLvol

(* While every JSON-RPC is answered, what a create knows of an lvol nobody   *)
(* asked to delete: which part of its export it is making, and that none is  *)
(* missing once there is a listener.  Its only way to the roll-back is a     *)
(* subsystem left by a create that was cut short, and then the lvol has      *)
(* never been acknowledged.                                                  *)
Making(t) ==
  LET l == vol[t]
      ready == NodeOf[lvs[l]] \in transports
  IN
  /\ Live(l)
  /\ pc[t] \notin {"unpExists", "unpListeners", "getNsID", "removeNs", "deleteSubsystem"}
  /\ pc[t] \in {"pubTransport", "pubSubsystem"} => "listener" \notin export[l]
  /\ pc[t] \in {"pubSubsystem", "pubNs", "pubListener"} => ready
  /\ pc[t] = "pubNs" => export[l] = {"subsystem"}
  /\ pc[t] = "pubListener" => export[l] = {"subsystem", "namespace"}
  /\ pc[t] \in {"infoVolume", "infoLvol", "infoStores", "ok"} => Exported(l)
  /\ pc[t] = "deleteLvol" => \A n \in Names : bound[n] # l

Answered ==
  /\ late = {} /\ lateNew = {} /\ blind = {}
  /\ \A l \in Lvols : ~Born(l) => export[l] = {}
  /\ \A l \in Lvols \ doomed : Live(l) /\ Published(l) => Exported(l)
  /\ \A t \in Workers :
       op[t] = "create" /\ pc[t] \in VolumeLabels /\ vol[t] \notin doomed => Making(t)

AnsweredOK == faults = 0 => Answered

(* If moreover nothing is cut short and no call overlaps, an lvol is worked  *)
(* on by one handler at a time, which knows its export exactly.              *)
Undisturbed == faults = 0 /\ crashes = 0 /\ timeouts = 0

CreateKnows(t) ==
  LET l == vol[t] IN
  /\ pc[t] \notin VolumeLabels => l = None
  /\ pc[t] \in {"pubExists", "pubListeners"} => export[l] \in {{}, Parts}
  /\ pc[t] \in {"pubTransport", "pubSubsystem"} => export[l] = {}
  /\ pc[t] # "deleteLvol"

DeleteKnows(t) ==
  LET l == vol[t] IN
  /\ pc[t] \in {"lock", "unpExists"} => export[l] = IF Live(l) THEN Parts ELSE {}
  /\ pc[t] \in {"unpListeners", "getNsID", "removeNs"} => Live(l) /\ Exported(l)
  /\ pc[t] = "deleteSubsystem" => Live(l) /\ export[l] = {"subsystem", "listener"}
  /\ pc[t] = "deleteLvol" => Live(l) /\ export[l] = {}
  /\ pc[t] = "ok" => ~Live(l) /\ export[l] = {}
  /\ pc[t] # "err"

UndisturbedOK ==
  Undisturbed =>
    \A t \in Workers : /\ op[t] = "create" => CreateKnows(t)
                       /\ op[t] = "delete" => DeleteKnows(t)

-----------------------------------------------------------------------------
(* What the steps have in common.                                            *)

(* A handler between Lock and Return makes a call: only its own label and    *)
(* lvol change, and no lock.                                                 *)
HandlerStep(t, q) ==
  /\ pc[t] \notin {"idle", "lock"} /\ q \in Labels \ {"idle", "lock"}
  /\ pc' = [pc EXCEPT ![t] = q]
  /\ \A u \in Workers : u # t \/ op[u] = "delete" => vol'[u] = vol[u]
  /\ UNCHANGED <<op, key, holder, orchestrator, crashes, timeouts>>

(* Every step of a handler is one, but for Lock, Return and a panic.         *)
LEMMA StepsAreHandlerSteps ==
  ASSUME IInv, NEW t \in Workers, Step(t), ~Panic, ~Lock(t), ~Return(t)
  PROVE  \E q : HandlerStep(t, q)
<1>0. TypeInv /\ TypeOK /\ HandlersOK
  BY DEF IInv, TypeInv
<1>1. CASE CallsOnVolume(t)
  <2>1. PICK q : VolumeStep(t, q)
    BY <1>0, <1>1, CallsAreVolumeSteps
  <2>2. HandlerStep(t, q)
    BY <2>1 DEF VolumeStep, HandlerStep, LabelOK, VolumeLabels, Labels
  <2> QED BY <2>2
<1>2. CASE ~CallsOnVolume(t)
  <2>1. ScanNode(t) \/ ScanStore(t) \/ Schedule(t) \/ CreateCheck(t) \/ CreateLvol(t)
    BY <1>2 DEF Step, CallsOnVolume
  <2>2. op[t] # "delete"
    BY <1>0, <2>1
    DEF HandlersOK, Busy, DeleteLabels, ScanNode, ScanStore, Schedule, CreateCheck, CreateLvol
  <2>3. CASE ScanNode(t)
    <3>1. PICK q : pc' = [pc EXCEPT ![t] = q] /\ q \in {"scanNode", "scanStore", "schedule"}
      BY <2>3 DEF ScanNode, Goto, AfterStore
    <3> QED BY <2>3, <3>1 DEF ScanNode, HandlerStep, Labels
  <2>4. CASE ScanStore(t)
    <3>1. PICK q : /\ pc' = [pc EXCEPT ![t] = q]
                   /\ q \in {"pubExists", "scanNode", "scanStore", "schedule"}
      BY <2>4 DEF ScanStore, Goto, AfterStore
    <3>2. \A u \in Workers : u # t => vol'[u] = vol[u]
      BY <1>0, <2>4 DEF ScanStore, TypeOK
    <3> QED BY <2>2, <2>4, <3>1, <3>2 DEF ScanStore, HandlerStep, Labels
  <2>5. CASE Schedule(t)
    <3>1. PICK q : pc' = [pc EXCEPT ![t] = q] /\ q \in {"createCheck", "err"}
      BY <2>5 DEF Schedule, Goto
    <3> QED BY <2>5, <3>1 DEF Schedule, HandlerStep, Labels
  <2>6. CASE CreateCheck(t)
    <3>1. PICK q : pc' = [pc EXCEPT ![t] = q] /\ q \in {"pubExists", "createLvol"}
      BY <2>6 DEF CreateCheck, Goto
    <3>2. \A u \in Workers : u # t => vol'[u] = vol[u]
      BY <1>0, <2>6 DEF CreateCheck, TypeOK
    <3> QED BY <2>2, <2>6, <3>1, <3>2 DEF CreateCheck, HandlerStep, Labels
  <2>7. CASE CreateLvol(t)
    <3>1. PICK q : pc' = [pc EXCEPT ![t] = q] /\ q \in {"pubExists", "err"}
      BY <2>7 DEF CreateLvol, Goto
    <3>2. \A u \in Workers : u # t => vol'[u] = vol[u]
      BY <1>0, <2>7 DEF CreateLvol, TypeOK
    <3> QED BY <2>2, <2>7, <3>1, <3>2 DEF CreateLvol, HandlerStep, Labels
  <2> QED BY <2>1, <2>3, <2>4, <2>5, <2>6, <2>7
<1> QED BY <1>1, <1>2

(* The process ends, by a panic or a kill.                                   *)
Restart ==
  /\ ProcessEnds
  /\ faults' = faults + 1 \/ crashes' = crashes + 1
  /\ UNCHANGED <<target, late, lateNew, bound, doomed, deleted, blind, timeouts>>

Call(t, o, k, l) ==
  /\ Start(t, o, k, l)
  /\ \/ o = "create" /\ k \in Names /\ l = None /\ bound[k] = None /\ doomed' = doomed
     \/ /\ o = "delete" /\ k \in Lvols /\ l = k /\ doomed' = doomed \cup {l}
        /\ \E n \in Names : bound[n] = l

(* The kinds of steps the system takes.                                      *)
LEMMA NextCases ==
  ASSUME IInv, [Next]_vars
  PROVE  \/ Restart
         \/ \E t \in Workers : \E o, k, l : Call(t, o, k, l)
         \/ \E t \in Workers : TimeOut(t)
         \/ \E t \in Workers : Lock(t)
         \/ \E t \in Workers : Return(t)
         \/ \E t \in Workers : \E q : Step(t) /\ ~Panic /\ HandlerStep(t, q)
         \/ ServeLate
         \/ UNCHANGED vars
<1>1. Panic \/ Crash => Restart
  BY DEF Panic, Crash, Restart, Fault
<1>2. ASSUME NEW t \in Workers, NEW n \in Names, CallCreateVolume(t, n)
      PROVE  Call(t, "create", n, None)
  BY <1>2 DEF CallCreateVolume, Call
<1>3. ASSUME NEW t \in Workers, NEW l \in Lvols, CallDeleteVolume(t, l)
      PROVE  Call(t, "delete", l, l)
  BY <1>3 DEF CallDeleteVolume, Call
<1> QED BY <1>1, <1>2, <1>3, StepsAreHandlerSteps DEF Next, Quiescent

-----------------------------------------------------------------------------
(* The lock.                                                                 *)

(* Initially no lock is taken.                                               *)
LEMMA InitLockExact == Init => LockExact
  BY DEF Init, LockExact

(* Lock and Return, which alone change a lock, keep it and the handlers in   *)
(* step.                                                                     *)
LEMMA NextLockExact ==
  ASSUME IInv, LockExact, [Next]_vars
  PROVE  LockExact'
<1>0. TypeOK /\ HandlersOK /\ LockOK
  BY DEF IInv, TypeInv
<1> SUFFICES ASSUME NEW k \in Keys, holder'[k] # None
             PROVE  key'[holder'[k]] = k /\ pc'[holder'[k]] \notin {"idle", "lock"}
  BY DEF LockExact
<1>1. CASE Restart
  BY <1>1 DEF Restart, ProcessEnds
<1>2. CASE \E t \in Workers : \E o, j, l : Call(t, o, j, l)
  BY <1>0, <1>2 DEF LockExact, Call, Start, Goto, TypeOK
<1>3. CASE \E t \in Workers : TimeOut(t)
  BY <1>3 DEF LockExact, TimeOut, handlers
<1>4. ASSUME NEW t \in Workers, Lock(t)
      PROVE  key'[holder'[k]] = k /\ pc'[holder'[k]] \notin {"idle", "lock"}
  <2>1. key[t] \in Keys
    BY <1>0, <1>4 DEF HandlersOK, Lock, Busy, Keys
  <2> QED BY <1>0, <1>4, <2>1, ControllerAssumption DEF LockExact, Lock, Goto, TypeOK
<1>5. ASSUME NEW t \in Workers, Return(t)
      PROVE  key'[holder'[k]] = k /\ pc'[holder'[k]] \notin {"idle", "lock"}
  <2>1. holder[k] # t \/ k = key[t]
    BY <1>5, ControllerAssumption DEF LockExact
  <2>2. holder'[k] = holder[k] /\ k # key[t]
    BY <1>0, <1>5 DEF Return, Unlock, TypeOK
  <2> QED BY <1>0, <1>5, <2>1, <2>2 DEF LockExact, Return, Goto, TypeOK
<1>6. CASE \E t \in Workers : \E q : HandlerStep(t, q)
  BY <1>0, <1>6 DEF LockExact, HandlerStep, TypeOK
<1>7. CASE ServeLate \/ UNCHANGED vars
  BY <1>7 DEF LockExact, ServeLate, vars, handlers
<1> QED BY <1>1, <1>2, <1>3, <1>4, <1>5, <1>6, <1>7, NextCases

(* The handlers use volumeLocks as KeyedLock prescribes: waiting for one     *)
(* lock while holding none, and giving it back on every path of return.      *)
THEOREM HandlersUseKeyedLock == Spec => UsesKeyedLock
<1>1. Init => Locks!Init
  BY DEF Init, Locks!Init
<1>2. ASSUME IInv, LockExact, [Next]_vars PROVE [Locks!Next]_Locks!vars
  <2>0. TypeOK /\ HandlersOK /\ LockOK
    BY <1>2 DEF IInv, TypeInv
  <2> DEFINE want == [t \in Workers |-> IF pc[t] = "lock" THEN key[t] ELSE None]
  <2>1. CASE Restart
    BY <2>1 DEF Restart, ProcessEnds, Locks!Next, Locks!Reset
  <2>2. ASSUME NEW t \in Workers, NEW o, NEW k, NEW l, Call(t, o, k, l)
        PROVE  Locks!Next
    <3>1. k \in Keys
      BY <2>2 DEF Call, Keys
    <3>2. want[t] = None /\ \A j \in Keys : holder[j] # t
      BY <1>2, <2>2, ControllerAssumption DEF Call, Start, LockExact
    <3>3. want' = [want EXCEPT ![t] = k]
      BY <2>0, <2>2 DEF Call, Start, Goto, TypeOK
    <3>4. Locks!Request(t, k)
      BY <2>2, <3>2, <3>3 DEF Locks!Request, Call, Start
    <3> QED BY <3>1, <3>4 DEF Locks!Next
  <2>3. CASE \E t \in Workers : TimeOut(t)
    BY <2>3 DEF TimeOut, handlers, Locks!vars
  <2>4. ASSUME NEW t \in Workers, Lock(t)
        PROVE  Locks!Next
    <3>1. PICK k \in Keys : key[t] = k
      BY <2>0, <2>4 DEF HandlersOK, Lock, Busy, Keys
    <3>2. want[t] = k
      BY <2>4, <3>1 DEF Lock
    <3>3. want' = [want EXCEPT ![t] = None]
      BY <2>0, <2>4 DEF Lock, Goto, TypeOK
    <3>4. Locks!Acquire(t, k)
      BY <2>4, <3>1, <3>2, <3>3 DEF Locks!Acquire, Lock
    <3> QED BY <3>4 DEF Locks!Next
  <2>5. ASSUME NEW t \in Workers, Return(t)
        PROVE  Locks!Next
    <3>1. PICK k \in Keys : key[t] = k /\ holder[k] = t
      BY <2>0, <2>5 DEF HandlersOK, LockOK, Return, Busy, Keys
    <3>2. want' = want
      BY <2>0, <2>5 DEF Return, Goto, TypeOK
    <3>3. Locks!Release(t, k)
      BY <2>5, <3>1, <3>2 DEF Locks!Release, Return, Unlock
    <3> QED BY <3>3 DEF Locks!Next
  <2>6. CASE \E t \in Workers : \E q : HandlerStep(t, q)
    <3>1. want' = want
      BY <2>0, <2>6 DEF HandlerStep, TypeOK
    <3> QED BY <2>6, <3>1 DEF HandlerStep, Locks!vars
  <2>7. CASE ServeLate \/ UNCHANGED vars
    BY <2>7 DEF ServeLate, vars, handlers, Locks!vars
  <2> QED BY <1>2, <2>1, <2>2, <2>3, <2>4, <2>5, <2>6, <2>7, NextCases
<1>3. IInv /\ LockExact /\ [Next]_vars => LockExact'
  BY NextLockExact
<1> QED BY <1>1, <1>2, <1>3, Invariance, InitLockExact, PTL DEF Spec, UsesKeyedLock, Locks!Spec

-----------------------------------------------------------------------------
(* The calls of the CO.                                                      *)

(* Initially the CO awaits nothing.                                          *)
LEMMA InitCallsOK == Init => CallsOK
  BY DEF Init, CallsOK, Busy

(* A call is sent when its key is not awaited; a response ends the wait.     *)
LEMMA NextCallsOK ==
  ASSUME IInv, CallsOK, [Next]_vars
  PROVE  CallsOK'
<1>0. TypeOK /\ HandlersOK
  BY DEF IInv, TypeInv
<1>1. CASE Restart
  BY <1>0, <1>1 DEF CallsOK, Restart, ProcessEnds, Busy
<1>2. ASSUME NEW t \in Workers, NEW o, NEW k, NEW l, Call(t, o, k, l)
      PROVE  CallsOK'
  <2>1. t \notin awaited
    BY <1>2 DEF CallsOK, Call, Start, Busy
  <2>2. /\ pc' = [pc EXCEPT ![t] = "lock"] /\ op' = [op EXCEPT ![t] = o]
        /\ key' = [key EXCEPT ![t] = k] /\ vol' = [vol EXCEPT ![t] = l]
        /\ awaited' = awaited \cup {t} /\ \A u \in awaited : key[u] # k
        /\ UNCHANGED <<bound, timeouts>>
    BY <1>2 DEF Call, Start, Goto
  <2>3. /\ \A u \in Workers \ {t} : /\ pc'[u] = pc[u] /\ op'[u] = op[u]
                                    /\ key'[u] = key[u] /\ vol'[u] = vol[u]
        /\ pc'[t] = "lock" /\ op'[t] = o /\ key'[t] = k /\ vol'[t] = l
    BY <1>0, <2>2 DEF TypeOK
  <2>4. awaited \subseteq Workers
    BY <1>0 DEF TypeOK
  <2> QED BY <1>2, <2>1, <2>2, <2>3, <2>4 DEF CallsOK, Busy, Call
<1>3. CASE \E t \in Workers : TimeOut(t)
  BY <1>0, <1>3 DEF CallsOK, TimeOut, handlers, Busy, TypeOK
<1>4. CASE \E t \in Workers : Lock(t)
  BY <1>0, <1>4 DEF CallsOK, Lock, Goto, Busy, TypeOK, orchestrator
<1>5. ASSUME NEW t \in Workers, Return(t)
      PROVE  CallsOK'
  <2>1. /\ pc' = [pc EXCEPT ![t] = "idle"] /\ op' = [op EXCEPT ![t] = "none"]
        /\ key' = [key EXCEPT ![t] = None] /\ vol' = [vol EXCEPT ![t] = None]
        /\ awaited' = awaited \ {t} /\ UNCHANGED <<doomed, timeouts>>
        /\ \/ bound' = bound
           \/ t \in awaited /\ op[t] = "create" /\ bound' = [bound EXCEPT ![key[t]] = vol[t]]
    BY <1>5 DEF Return, Goto
  <2>2. /\ \A u \in Workers \ {t} : /\ pc'[u] = pc[u] /\ op'[u] = op[u]
                                    /\ key'[u] = key[u] /\ vol'[u] = vol[u]
        /\ pc'[t] = "idle" /\ op'[t] = "none" /\ vol'[t] = None
    BY <1>0, <2>1 DEF TypeOK
  <2>3. \A n \in Names : bound'[n] = bound[n] \/ (bound[n] = None /\ t \in awaited /\ key[t] = n)
    BY <1>0, <2>1 DEF CallsOK, TypeOK
  <2>4. \A l \in doomed' : \E n \in Names : bound'[n] = l
    BY <1>0, <2>1, <2>3, TargetAssumption DEF CallsOK, TypeOK
  <2>5. \A u \in awaited' : op'[u] = "create" => bound'[key'[u]] = None
    BY <1>0, <2>1, <2>2, <2>3 DEF CallsOK, HandlersOK, TypeOK
  <2> QED BY <1>0, <2>1, <2>2, <2>4, <2>5 DEF CallsOK, Busy, TypeOK
<1>6. CASE \E t \in Workers : \E q : HandlerStep(t, q)
  <2>1. PICK t \in Workers : \E q : HandlerStep(t, q)
    BY <1>6
  <2>2. \A u \in Workers : Busy(u)' <=> Busy(u)
    BY <1>0, <2>1 DEF HandlerStep, Busy, TypeOK
  <2>3. \A u \in Workers : ~Busy(u) => u # t
    BY <2>1 DEF HandlerStep, Busy
  <2> QED BY <1>0, <2>1, <2>2, <2>3 DEF CallsOK, HandlerStep, TypeOK, orchestrator
<1>7. CASE ServeLate \/ UNCHANGED vars
  BY <1>7 DEF CallsOK, ServeLate, vars, handlers, orchestrator, Busy
<1> QED BY <1>1, <1>2, <1>3, <1>4, <1>5, <1>6, <1>7, NextCases

-----------------------------------------------------------------------------
(* The lvols of a name.                                                      *)

(* An lvol keeps its name and its store and never returns; it comes to life  *)
(* by the CreateLvol of a handler for its name, or by a late request for a   *)
(* blind name.                                                               *)
LEMMA Births ==
  ASSUME IInv, [Next]_vars, NEW l \in Lvols
  PROVE  /\ Born(l) => Born(l)' /\ lvname'[l] = lvname[l] /\ lvs'[l] = lvs[l]
         /\ status[l] = "gone" => status'[l] = "gone"
         /\ transports \subseteq transports'
         /\ Live(l)' /\ ~Live(l) =>
              \/ lvname'[l] \in blind
              \/ \E t \in Workers : CreateLvol(t) /\ lvname'[l] = key[t]
<1>0. TypeInv /\ TypeOK /\ TargetTypeOK /\ HandlersOK /\ LateOK /\ ScanOK
  BY DEF IInv, TypeInv, TypeOK
<1> DEFINE Goal == /\ Born(l) => Born(l)' /\ lvname'[l] = lvname[l] /\ lvs'[l] = lvs[l]
                   /\ status[l] = "gone" => status'[l] = "gone"
                   /\ transports \subseteq transports'
                   /\ Live(l)' /\ ~Live(l) =>
                        \/ lvname'[l] \in blind
                        \/ \E t \in Workers : CreateLvol(t) /\ lvname'[l] = key[t]
<1>1. CASE UNCHANGED target
  BY <1>1 DEF target, Live, Born
<1>2. ASSUME NEW m \in Methods, NEW k \in Lvols, Born(k), Serve(m, k)
      PROVE  Goal
  BY <1>0, <1>2, ServeTyping DEF Serve
<1>3. ASSUME NEW s \in Stores, NEW n \in Names, NEW k \in Lvols, ServeCreate(s, n, k),
             n \in blind \/ \E t \in Workers : CreateLvol(t) /\ n = key[t]
      PROVE  Goal
  <2>1. CASE k = l
    BY <1>0, <1>3, <2>1, CreateTyping DEF Born
  <2>2. CASE k # l
    <3>1. /\ status'[l] = status[l] /\ lvs'[l] = lvs[l] /\ lvname'[l] = lvname[l]
          /\ transports' = transports
      BY <1>0, <1>3, <2>2, CreateTyping
    <3> QED BY <3>1 DEF Live, Born
  <2> QED BY <2>1, <2>2
<1>4. CASE Restart \/ \E t \in Workers : TimeOut(t) \/ Lock(t) \/ Return(t)
  BY <1>1, <1>4 DEF Restart, TimeOut, Lock, Return
<1>5. CASE \E t \in Workers : \E o, k, j : Call(t, o, k, j)
  BY <1>1, <1>5 DEF Call, Start
<1>6. ASSUME NEW t \in Workers, Step(t), ~Panic
      PROVE  Goal
  <2>1. CASE CallsOnVolume(t)
    <3>1. PICK q : VolumeStep(t, q)
      BY <1>0, <1>6, <2>1, CallsAreVolumeSteps
    <3>2. vol[t] \in Lvols /\ Born(vol[t])
      BY <1>0, <3>1 DEF VolumeStep, HandlersOK
    <3>3. CASE UNCHANGED target
      BY <1>1, <3>3
    <3>4. CASE ~UNCHANGED target
      <4>1. PICK k \in Lvols : k = vol[t] /\ Born(k)
        BY <3>2
      <4>2. PICK m \in Methods : Serve(m, vol[t])
        BY <3>1, <3>4 DEF VolumeStep
      <4>3. Serve(m, k)
        BY <4>1, <4>2 DEF Serve, Accepts, ExportAfter, Methods, Live
      <4> QED BY <1>2, <4>1, <4>3
    <3> QED BY <3>3, <3>4
  <2>2. CASE CreateLvol(t)
    <3>1. /\ store[t] \in Stores /\ key[t] \in Names
      BY <1>0, <2>2 DEF CreateLvol, HandlersOK, Busy, DeleteLabels
    <3>2. CASE UNCHANGED target
      BY <1>1, <3>2
    <3>3. CASE ~UNCHANGED target
      <4>1. PICK s \in Stores, n \in Names : s = store[t] /\ n = key[t]
        BY <3>1
      <4>2. PICK k \in Lvols : ServeCreate(store[t], key[t], k)
        BY <2>2, <3>3 DEF CreateLvol
      <4>3. ServeCreate(s, n, k)
        BY <4>1, <4>2 DEF ServeCreate, Alias
      <4> QED BY <1>3, <2>2, <4>1, <4>3
    <3> QED BY <3>2, <3>3
  <2>3. CASE ~CallsOnVolume(t) /\ ~CreateLvol(t)
    <3>1. UNCHANGED target
      BY <1>6, <2>3
      DEF Step, CallsOnVolume, Lock, Return, ScanNode, ScanStore, Schedule, CreateCheck
    <3> QED BY <1>1, <3>1
  <2> QED BY <2>1, <2>2, <2>3
<1>7. CASE ServeLate
  <2>1. CASE UNCHANGED target
    BY <1>1, <2>1
  <2>2. ASSUME NEW c \in late, Serve(c[1], c[2])
        PROVE  Goal
    <3>1. c[1] \in Methods /\ c[2] \in Lvols /\ Born(c[2])
      BY <1>0 DEF TypeOK, LateOK
    <3> QED BY <1>2, <2>2, <3>1
  <2>3. ASSUME NEW c \in lateNew, NEW k \in Lvols, ServeCreate(c[1], c[2], k)
        PROVE  Goal
    <3>1. c[1] \in Stores /\ c[2] \in Names /\ c[2] \in blind
      BY <1>0 DEF TypeOK, ScanOK
    <3> QED BY <1>3, <2>3, <3>1
  <2> QED BY <1>7, <2>1, <2>2, <2>3 DEF ServeLate
<1>8. CASE UNCHANGED vars
  BY <1>1, <1>8 DEF vars
<1> QED BY <1>4, <1>5, <1>6, <1>7, <1>8, NextCases

(* The lvol a create goes on to publish is live and has the requested name.  *)
LEMMA CreateEnters ==
  ASSUME IInv, NEW t \in Workers, Step(t), ~Panic, op[t] = "create",
         pc[t] \notin VolumeLabels, pc'[t] \in VolumeLabels
  PROVE  /\ pc'[t] = "pubExists" /\ key'[t] = key[t]
         /\ vol'[t] \in Lvols /\ Live(vol[t])' /\ lvname'[vol'[t]] = key[t]
<1>0. TypeOK /\ TargetTypeOK /\ HandlersOK
  BY DEF IInv, TypeInv, TypeOK
<1>1. ScanStore(t) \/ CreateCheck(t) \/ CreateLvol(t)
  <2>1. ~CallsOnVolume(t)
    BY DEF CallsOnVolume, VolumeLabels, PubExists, PubListeners, PubTransport, PubSubsystem,
           PubNs, PubListener, InfoVolume, InfoLvol, InfoStores, UnpExists, UnpListeners,
           GetNsID, RemoveNs, DeleteSubsystem, DeleteLvol
  <2>2. ~Lock(t)
    BY <1>0 DEF Lock, Goto, VolumeLabels, TypeOK
  <2>3. ~Return(t)
    BY <1>0 DEF Return, Goto, VolumeLabels, TypeOK
  <2>4. ~ScanNode(t)
    BY <1>0 DEF ScanNode, Goto, AfterStore, VolumeLabels, TypeOK
  <2>5. ~Schedule(t)
    BY <1>0 DEF Schedule, Goto, VolumeLabels, TypeOK
  <2> QED BY <2>1, <2>2, <2>3, <2>4, <2>5 DEF Step, CallsOnVolume
<1>2. CASE ScanStore(t)
  <2>1. PICK s \in left[t] : \E l \in Alias(s, key[t]) :
          vol' = [vol EXCEPT ![t] = l] /\ Goto(t, "pubExists")
    BY <1>0, <1>2 DEF ScanStore, GetVolume, Goto, AfterStore, VolumeLabels, TypeOK
  <2> QED BY <1>0, <1>2, <2>1 DEF ScanStore, Goto, Alias, Live, target, TypeOK
<1>3. CASE CreateCheck(t)
  <2>1. PICK l \in Alias(store[t], key[t]) :
          vol' = [vol EXCEPT ![t] = l] /\ Goto(t, "pubExists")
    BY <1>0, <1>3 DEF CreateCheck, Goto, VolumeLabels, TypeOK
  <2> QED BY <1>0, <1>3, <2>1 DEF CreateCheck, Goto, Alias, Live, target, TypeOK
<1>4. CASE CreateLvol(t)
  <2>1. PICK l \in Lvols : /\ ServeCreate(store[t], key[t], l)
                           /\ vol' = [vol EXCEPT ![t] = l] /\ Goto(t, "pubExists")
    BY <1>0, <1>4 DEF CreateLvol, Goto, VolumeLabels, TypeOK
  <2> QED BY <1>0, <1>4, <2>1 DEF CreateLvol, ServeCreate, Goto, Live, TypeOK, TargetTypeOK
<1> QED BY <1>1, <1>2, <1>3, <1>4

(* Until it returns, a handler that has an lvol makes that lvol's calls.     *)
LEMMA StepsAtVolume ==
  ASSUME IInv, NEW t \in Workers, NEW q, Step(t), HandlerStep(t, q), pc[t] \in VolumeLabels
  PROVE  CallsOnVolume(t)
<1>1. pc \in [Workers -> Labels] /\ pc'[t] # "idle"
  BY DEF IInv, TypeInv, TypeOK, HandlerStep
<1>2. ~Return(t)
  BY <1>1 DEF Return, Goto
<1> QED BY <1>2 DEF Step, CallsOnVolume, VolumeLabels, Lock, ScanNode, ScanStore, Schedule,
                    CreateCheck, CreateLvol

(* A create that works on an lvol did so before the step, on the same one,   *)
(* or it has just found or created it.                                       *)
LEMMA CreatesAtVolume ==
  ASSUME IInv, [Next]_vars, NEW t \in Workers, pc'[t] \in VolumeLabels, op'[t] = "create"
  PROVE  /\ op[t] = "create" /\ key'[t] = key[t]
         /\ \/ /\ pc[t] \in VolumeLabels /\ vol'[t] = vol[t]
               /\ pc'[t] = pc[t] \/ (CallsOnVolume(t) /\ ~Panic)
            \/ /\ pc[t] \notin VolumeLabels /\ Step(t) /\ ~Panic
               /\ pc'[t] = "pubExists"
               /\ vol'[t] \in Lvols /\ Live(vol[t])' /\ lvname'[vol'[t]] = key'[t]
<1>0. TypeInv /\ TypeOK /\ HandlersOK
  BY DEF IInv, TypeInv
<1> DEFINE Same == pc'[t] = pc[t] /\ op'[t] = op[t] /\ key'[t] = key[t] /\ vol'[t] = vol[t]
<1>1. ~Restart
  BY DEF Restart, ProcessEnds, VolumeLabels
<1>2. ASSUME NEW u \in Workers, NEW o, NEW k, NEW l, Call(u, o, k, l)
      PROVE  Same
  BY <1>0, <1>2 DEF Call, Start, Goto, VolumeLabels, TypeOK
<1>3. ASSUME NEW u \in Workers, Lock(u) PROVE Same
  BY <1>0, <1>3 DEF Lock, Goto, VolumeLabels, TypeOK
<1>4. ASSUME NEW u \in Workers, Return(u) PROVE Same
  BY <1>0, <1>4 DEF Return, Goto, VolumeLabels, TypeOK
<1>5. CASE ServeLate \/ UNCHANGED vars \/ \E u \in Workers : TimeOut(u)
  BY <1>5 DEF ServeLate, vars, TimeOut, handlers
<1>6. ASSUME NEW u \in Workers, NEW q, HandlerStep(u, q), u # t PROVE Same
  BY <1>0, <1>6 DEF HandlerStep, TypeOK
<1>7. ASSUME NEW q, Step(t), ~Panic, HandlerStep(t, q), pc[t] \in VolumeLabels
      PROVE  op'[t] = op[t] /\ key'[t] = key[t] /\ vol'[t] = vol[t] /\ CallsOnVolume(t)
  <2>1. CallsOnVolume(t)
    BY <1>7, StepsAtVolume
  <2> QED BY <1>0, <1>7, <2>1, CallsAreVolumeSteps DEF VolumeStep
<1>8. ASSUME NEW q, Step(t), ~Panic, HandlerStep(t, q), pc[t] \notin VolumeLabels
      PROVE  /\ op[t] = "create" /\ key'[t] = key[t]
             /\ pc'[t] = "pubExists"
             /\ vol'[t] \in Lvols /\ Live(vol[t])' /\ lvname'[vol'[t]] = key'[t]
  BY <1>8, CreateEnters DEF HandlerStep
<1> QED BY <1>1, <1>2, <1>3, <1>4, <1>5, <1>6, <1>7, <1>8, NextCases

(* What only grows.                                                          *)
LEMMA Growing ==
  ASSUME IInv, [Next]_vars
  PROVE  /\ blind \subseteq blind' /\ doomed \subseteq doomed'
         /\ faults <= faults' /\ crashes <= crashes' /\ timeouts <= timeouts'
<1> DEFINE Grow == /\ blind \subseteq blind' /\ doomed \subseteq doomed'
                   /\ faults <= faults' /\ crashes <= crashes' /\ timeouts <= timeouts'
<1>0. faults \in Nat /\ crashes \in Nat /\ timeouts \in Nat
  BY ControllerAssumption DEF IInv, TypeInv, TypeOK
<1>1. CASE ServeLate \/ Crash \/ Panic \/ UNCHANGED vars
  BY <1>0, <1>1 DEF ServeLate, Crash, Panic, Fault, vars, orchestrator
<1>2. ASSUME NEW t \in Workers,
             \/ TimeOut(t) \/ Lock(t) \/ Return(t)
             \/ (\E n \in Names : CallCreateVolume(t, n))
             \/ (\E l \in Lvols : CallDeleteVolume(t, l))
      PROVE  Grow
  BY <1>0, <1>2 DEF TimeOut, Lock, Return, CallCreateVolume, CallDeleteVolume, Start, orchestrator
<1>3. ASSUME NEW t \in Workers, ScanNode(t) \/ Schedule(t) \/ CreateLvol(t)
      PROVE  Grow
  <2>1. faults' \in {faults, faults + 1} /\ UNCHANGED <<doomed, crashes, timeouts>>
    BY <1>3 DEF ScanNode, Schedule, CreateLvol, Fault, orchestrator
  <2>2. blind \subseteq blind'
    BY <1>3 DEF ScanNode, Schedule, CreateLvol
  <2> QED BY <1>0, <2>1, <2>2
<1>4. ASSUME NEW t \in Workers, ScanStore(t) \/ CreateCheck(t), ~Panic
      PROVE  Grow
  <2>1. UNCHANGED <<orchestrator, blind, faults, crashes, timeouts>>
    BY <1>4 DEF ScanStore, CreateCheck
  <2> QED BY <1>0, <2>1 DEF orchestrator
<1>5. ASSUME NEW t \in Workers, CallsOnVolume(t), ~Panic
      PROVE  Grow
  <2>1. \/ \E m, a, b, c : Rpc(t, m, a, b, c) \/ Ask(t, m, a, b, c)
        \/ \E a, b : LookUp(t, a, b)
    BY <1>5 DEF CallsOnVolume, PubExists, PubListeners, PubTransport, PubSubsystem,
                PubNs, PubListener, InfoVolume, InfoLvol, InfoStores, UnpExists, UnpListeners,
                GetNsID, RemoveNs, DeleteSubsystem, DeleteLvol
  <2> QED BY <1>0, <1>5, <2>1 DEF Rpc, Ask, LookUp, Fault, orchestrator
<1> QED BY <1>1, <1>2, <1>3, <1>4, <1>5 DEF Next, Step, CallsOnVolume, Quiescent

(* Initially there is nothing to be found and nothing acknowledged.          *)
LEMMA InitFoundOK == Init => FoundOK /\ NoOrphanLvol
  BY DEF Init, FoundOK, NoOrphanLvol, VolumeLabels

(* The only lvol of a name that is not blind comes from the handler that has *)
(* the lock of the name.                                                     *)
LEMMA NextFoundOK ==
  ASSUME IInv, IInv', FoundOK, [Next]_vars
  PROVE  FoundOK'
<1>0. TypeOK /\ HandlersOK /\ LockOK /\ OneVolumePerName'
  BY DEF IInv, TypeInv
<1> SUFFICES ASSUME NEW t \in Workers, NEW l \in Lvols,
                    pc'[t] \in VolumeLabels, op'[t] = "create", key'[t] \notin blind',
                    Live(l)', lvname'[l] = key'[t]
             PROVE  l = vol'[t]
  BY DEF FoundOK
<1>1. key'[t] \in Names
  BY DEF IInv, TypeInv, HandlersOK, Busy, VolumeLabels
<1>2. CASE pc[t] \notin VolumeLabels
  <2>1. vol'[t] \in Lvols /\ Live(vol[t])' /\ lvname'[vol'[t]] = key'[t]
    BY <1>2, CreatesAtVolume
  <2> QED BY <1>0, <1>1, <2>1 DEF OneVolumePerName
<1>3. CASE pc[t] \in VolumeLabels
  <2>1. op[t] = "create" /\ key'[t] = key[t] /\ vol'[t] = vol[t]
    BY <1>3, CreatesAtVolume
  <2>2. key[t] \notin blind
    BY <2>1, Growing
  <2>3. ASSUME NEW u \in Workers, CreateLvol(u), key[u] = key[t] PROVE FALSE
    <3>1. holder[key[u]] = u /\ holder[key[t]] = t /\ pc[u] = "createLvol"
      BY <1>0, <1>3, <2>3 DEF CreateLvol, LockOK, VolumeLabels
    <3> QED BY <1>3, <2>3, <3>1 DEF VolumeLabels
  <2>4. Live(l)
    BY <2>1, <2>2, <2>3, Births
  <2>5. lvname[l] = key[t]
    BY <2>1, <2>4, Births DEF Live, Born
  <2> QED BY <1>3, <2>1, <2>2, <2>4, <2>5 DEF FoundOK
<1> QED BY <1>2, <1>3

(* An acknowledged name keeps the volume it was acknowledged with; a name    *)
(* becomes acknowledged by the response of a create.                         *)
LEMMA Acknowledging ==
  ASSUME IInv, CallsOK, [Next]_vars, NEW n \in Names, bound'[n] # bound[n]
  PROVE  /\ bound[n] = None
         /\ \E t \in Workers : /\ Return(t) /\ pc[t] = "ok" /\ op[t] = "create"
                               /\ key[t] = n /\ bound'[n] = vol[t]
<1>0. TypeOK
  BY DEF IInv, TypeInv
<1>1. ASSUME NEW t \in Workers, Return(t)
      PROVE  /\ bound[n] = None /\ pc[t] = "ok" /\ op[t] = "create"
             /\ key[t] = n /\ bound'[n] = vol[t]
  <2>1. /\ t \in awaited /\ pc[t] = "ok" /\ op[t] = "create"
        /\ bound' = [bound EXCEPT ![key[t]] = vol[t]]
    BY <1>1 DEF Return
  <2>2. key[t] = n /\ bound'[n] = vol[t]
    BY <1>0, <2>1 DEF TypeOK
  <2> QED BY <2>1, <2>2 DEF CallsOK
<1>2. ~Restart /\ ~ServeLate /\ ~UNCHANGED vars /\ ~ \E t \in Workers : TimeOut(t) \/ Lock(t)
  BY DEF Restart, ServeLate, vars, TimeOut, Lock, orchestrator
<1>3. ~ \E t \in Workers : \E q : HandlerStep(t, q)
  BY DEF HandlerStep, orchestrator
<1>4. ~ \E t \in Workers : \E o, k, l : Call(t, o, k, l)
  BY DEF Call, Start
<1> QED BY <1>1, <1>2, <1>3, <1>4, NextCases

(* No create runs for an acknowledged name, so no second lvol appears.       *)
LEMMA NextNoOrphan ==
  ASSUME IInv, CallsOK, FoundOK, NoOrphanLvol, [Next]_vars
  PROVE  NoOrphanLvol'
<1>0. TypeOK /\ HandlersOK
  BY DEF IInv, TypeInv
<1> SUFFICES ASSUME timeouts' = 0, NEW n \in Names, n \notin blind', bound'[n] # None,
                    NEW l \in Lvols, Live(l)', lvname'[l] = n
             PROVE  l = bound'[n]
  BY DEF NoOrphanLvol
<1>1. timeouts = 0 /\ n \notin blind
  BY <1>0, Growing, ControllerAssumption DEF TypeOK
<1>2. CASE bound'[n] = bound[n]
  <2>1. ASSUME NEW u \in Workers, CreateLvol(u), key[u] = n PROVE FALSE
    <3>1. op[u] = "create" /\ Busy(u)
      BY <1>0, <2>1 DEF CreateLvol, HandlersOK, Busy, DeleteLabels
    <3> QED BY <1>1, <1>2, <2>1, <3>1 DEF CallsOK
  <2>2. Live(l)
    BY <1>1, <2>1, Births
  <2>3. lvname[l] = n
    BY <2>2, Births DEF Live, Born
  <2> QED BY <1>1, <1>2, <2>2, <2>3 DEF NoOrphanLvol
<1>3. CASE bound'[n] # bound[n]
  <2>1. PICK t \in Workers : /\ Return(t) /\ pc[t] = "ok" /\ op[t] = "create"
                             /\ key[t] = n /\ bound'[n] = vol[t]
    BY <1>3, Acknowledging
  <2>2. Live(l) /\ lvname[l] = n
    BY <2>1 DEF Return, target, Live
  <2> QED BY <1>1, <2>1, <2>2 DEF FoundOK, VolumeLabels
<1> QED BY <1>2, <1>3

(* CInv extends the inductive invariant of ControllerProofs.                 *)
LEMMA CInvInvariance == Spec => [](IInv /\ CInv)
<1>1. Init => CInv
  BY InitLockExact, InitCallsOK, InitFoundOK DEF CInv
<1>2. IInv /\ CInv /\ [Next]_vars => CInv'
  <2> SUFFICES ASSUME IInv, CInv, [Next]_vars PROVE CInv'
    OBVIOUS
  <2>1. IInv'
    BY NextIInv
  <2> QED BY <2>1, NextLockExact, NextCallsOK, NextFoundOK, NextNoOrphan DEF CInv
<1> QED BY <1>1, <1>2, Invariance, PTL DEF Spec

(* No garbage, for any number of failures and restarts: while no two calls   *)
(* of the CO overlap, an acknowledged name has no other live lvol, unless    *)
(* its scan was cut short or one of its creations was given up.              *)
THEOREM CreateVolumeLeavesNoOrphan == Spec => []NoOrphanLvol
<1>1. CInv => NoOrphanLvol
  BY DEF CInv
<1> QED BY <1>1, CInvInvariance, PTL

-----------------------------------------------------------------------------
(* Exports, while every JSON-RPC is answered.                                *)

(* An answered request for the handler's lvol is served or refused.          *)
LEMMA AnsweredRpc ==
  ASSUME TypeOK, faults' = faults, NEW t \in Workers, NEW m, NEW a, NEW b, NEW c,
         Rpc(t, m, a, b, c)
  PROVE  /\ UNCHANGED <<late, lateNew, blind>>
         /\ \/ Serve(m, vol[t]) /\ pc' = [pc EXCEPT ![t] = a]
            \/ ~Accepts(m, vol[t]) /\ pc' = [pc EXCEPT ![t] = b] /\ UNCHANGED target
<1>1. ~Fault
  BY ControllerAssumption DEF Fault, TypeOK
<1> QED BY <1>1 DEF Rpc, Goto

(* An answered bdev_get_bdevs finds the lvol or not, and nothing panics.     *)
LEMMA AnsweredLookUp ==
  ASSUME TypeOK, faults' = faults, NEW t \in Workers, NEW a, NEW b, LookUp(t, a, b)
  PROVE  /\ UNCHANGED <<target, late, lateNew, blind>>
         /\ pc' = [pc EXCEPT ![t] = IF Live(vol[t]) THEN a ELSE b]
<1>1. ~Fault
  BY ControllerAssumption DEF Fault, TypeOK
<1> QED BY <1>1 DEF LookUp, Panic, Goto

(* What a step of a create does to an lvol nobody asked to delete.           *)
LEMMA CreateCalls ==
  ASSUME IInv, Answered, AckedIsUsable, faults = 0, faults' = 0,
         NEW t \in Workers, CallsOnVolume(t), op[t] = "create", vol[t] \notin doomed,
         NEW l \in Lvols, l = vol[t], UNCHANGED bound, UNCHANGED vol
  PROVE  /\ pc'[t] \in VolumeLabels => Making(t)'
         /\ \/ export'[l] = export[l] /\ status'[l] = status[l]
            \/ pc[t] = "pubSubsystem" /\ export'[l] = {"subsystem"} /\ status'[l] = status[l]
            \/ pc[t] = "pubNs" /\ export'[l] = {"subsystem", "namespace"} /\ status'[l] = status[l]
            \/ pc[t] = "pubListener" /\ export'[l] = Parts /\ status'[l] = status[l]
            \/ pc[t] = "deleteLvol" /\ ~Live(l)'
<1>0. /\ TypeOK /\ TargetTypeOK /\ HandlersOK /\ faults' = faults
      /\ pc \in [Workers -> Labels] /\ status \in [Lvols -> {"unborn", "live", "gone"}]
      /\ export \in [Lvols -> SUBSET Parts]
  BY DEF IInv, TypeInv, TypeOK, TargetTypeOK
<1>1. pc[t] \in VolumeLabels
  BY DEF CallsOnVolume, VolumeLabels, PubExists, PubListeners, PubTransport, PubSubsystem,
         PubNs, PubListener, InfoVolume, InfoLvol, InfoStores, UnpExists, UnpListeners,
         GetNsID, RemoveNs, DeleteSubsystem, DeleteLvol
<1>2. Making(t) /\ \A n \in Names : bound[n] = l => Live(l) /\ Exported(l)
  BY <1>1, TargetAssumption DEF Answered, AckedIsUsable
<1>3. lvs[l] \in Stores /\ NodeOf[lvs[l]] \in Nodes /\ ~Fault
  BY <1>0, <1>1, ControllerAssumption, TargetAssumption
  DEF HandlersOK, TargetTypeOK, Born, Fault, TypeOK
<1> USE DEF Making, Live, Exported, Parts, VolumeLabels, target
<1>4. CASE PubExists(t)
  BY <1>0, <1>2, <1>4, AnsweredLookUp DEF PubExists
<1>5. CASE PubListeners(t)
  <2>1. Published(l) => Exported(l)
    BY <1>2 DEF Answered
  <2>2. /\ UNCHANGED target
        /\ pc' = [pc EXCEPT ![t] = IF Published(l) THEN "infoVolume" ELSE "pubTransport"]
    BY <1>3, <1>5 DEF PubListeners, Ask, Goto
  <2> QED BY <1>0, <1>2, <1>5, <2>1, <2>2 DEF PubListeners, Published
<1>6. CASE PubTransport(t)
  <2>1. \/ Serve("nvmf_create_transport", l) /\ pc' = [pc EXCEPT ![t] = "pubSubsystem"]
        \/ /\ ~Accepts("nvmf_create_transport", l) /\ pc' = [pc EXCEPT ![t] = "pubSubsystem"]
           /\ UNCHANGED target
    BY <1>0, <1>6, AnsweredRpc DEF PubTransport
  <2> QED BY <1>0, <1>2, <1>3, <1>6, <2>1 DEF PubTransport, Serve, Accepts, ExportAfter
<1>7. CASE PubSubsystem(t)
  <2>1. \/ Serve("nvmf_create_subsystem", l) /\ pc' = [pc EXCEPT ![t] = "pubNs"]
        \/ pc' = [pc EXCEPT ![t] = "deleteLvol"] /\ UNCHANGED target
    BY <1>0, <1>7, AnsweredRpc DEF PubSubsystem
  <2>2. pc[t] = "pubSubsystem" /\ ~Exported(l)
    BY <1>2, <1>7 DEF PubSubsystem
  <2>3. CASE Serve("nvmf_create_subsystem", l) /\ pc' = [pc EXCEPT ![t] = "pubNs"]
    BY <1>0, <1>2, <1>3, <2>2, <2>3 DEF Serve, ExportAfter
  <2>4. CASE pc' = [pc EXCEPT ![t] = "deleteLvol"] /\ UNCHANGED target
    <3>1. \A n \in Names : bound'[n] # l
      BY <1>2, <2>2
    <3> QED BY <1>0, <1>2, <2>4, <3>1
  <2> QED BY <2>1, <2>3, <2>4
<1>8. CASE PubNs(t)
  <2>1. \/ Serve("nvmf_subsystem_add_ns", l) /\ pc' = [pc EXCEPT ![t] = "pubListener"]
        \/ ~Accepts("nvmf_subsystem_add_ns", l)
    BY <1>0, <1>8, AnsweredRpc DEF PubNs
  <2>2. Accepts("nvmf_subsystem_add_ns", l)
    BY <1>2, <1>8 DEF PubNs, Accepts
  <2> QED BY <1>0, <1>2, <1>3, <1>8, <2>1, <2>2 DEF PubNs, Serve, ExportAfter
<1>9. CASE PubListener(t)
  <2>1. \/ Serve("nvmf_subsystem_add_listener", l) /\ pc' = [pc EXCEPT ![t] = "infoVolume"]
        \/ ~Accepts("nvmf_subsystem_add_listener", l)
    BY <1>0, <1>9, AnsweredRpc DEF PubListener
  <2>2. Accepts("nvmf_subsystem_add_listener", l)
    BY <1>2, <1>9 DEF PubListener, Accepts
  <2> QED BY <1>0, <1>2, <1>3, <1>9, <2>1, <2>2 DEF PubListener, Serve, ExportAfter
<1>10. CASE InfoVolume(t) \/ InfoLvol(t)
  <2>1. pc'[t] \in {"infoLvol", "infoStores"} /\ UNCHANGED target
    BY <1>0, <1>2, <1>10, AnsweredLookUp DEF InfoVolume, InfoLvol
  <2> QED BY <1>0, <1>2, <1>10, <2>1 DEF InfoVolume, InfoLvol
<1>11. CASE InfoStores(t)
  <2>1. pc'[t] = "ok" /\ UNCHANGED target
    BY <1>0, <1>3, <1>11 DEF InfoStores, Ask, Goto
  <2> QED BY <1>0, <1>2, <1>11, <2>1 DEF InfoStores
<1>12. CASE DeleteLvol(t)
  <2>1. /\ pc' = [pc EXCEPT ![t] = "err"]
        /\ Serve("bdev_lvol_delete", l) \/ ~Accepts("bdev_lvol_delete", l)
    <3>1. Rpc(t, "bdev_lvol_delete", "err", "err", "err")
      BY <1>12 DEF DeleteLvol, Rpc
    <3> QED BY <1>0, <3>1, AnsweredRpc
  <2>2. Serve("bdev_lvol_delete", l)
    BY <1>2, <2>1 DEF Accepts
  <2> QED BY <1>0, <1>12, <2>1, <2>2 DEF DeleteLvol, Serve
<1>13. ~(UnpExists(t) \/ UnpListeners(t) \/ GetNsID(t) \/ RemoveNs(t) \/ DeleteSubsystem(t))
  BY <1>2 DEF UnpExists, UnpListeners, GetNsID, RemoveNs, DeleteSubsystem
<1> QED BY <1>4, <1>5, <1>6, <1>7, <1>8, <1>9, <1>10, <1>11, <1>12, <1>13 DEF CallsOnVolume

(* While nothing is late, only the handlers of an lvol touch it.             *)
LEMMA Touched ==
  ASSUME IInv, late = {}, [Next]_vars, NEW l \in Lvols,
         export'[l] # export[l] \/ (Born(l) /\ status'[l] # status[l])
  PROVE  \E t \in Workers : CallsOnVolume(t) /\ ~Panic /\ vol[t] = l
<1>0. TypeInv /\ TypeOK /\ TargetTypeOK /\ HandlersOK /\ ScanOK
  BY DEF IInv, TypeInv, TypeOK
<1>1. ~UNCHANGED target
  BY DEF target
<1>2. ASSUME NEW s \in Stores, NEW n \in Names, NEW k \in Lvols, ServeCreate(s, n, k)
      PROVE  FALSE
  BY <1>0, <1>2, CreateTyping DEF Born
<1>3. ~Restart /\ ~(\E t \in Workers : TimeOut(t) \/ Lock(t) \/ Return(t)) /\ ~UNCHANGED vars
  BY <1>1 DEF Restart, TimeOut, Lock, Return, vars
<1>4. ~ \E t \in Workers : \E o, k, j : Call(t, o, k, j)
  BY <1>1 DEF Call, Start
<1>5. ~ServeLate
  <2> SUFFICES ASSUME ServeLate PROVE FALSE
    OBVIOUS
  <2>1. PICK c \in lateNew : \E k \in Lvols : ServeCreate(c[1], c[2], k)
    BY <1>1 DEF ServeLate
  <2>2. c[1] \in Stores /\ c[2] \in Names
    BY <1>0 DEF TypeOK
  <2> QED BY <1>2, <2>1, <2>2
<1>6. PICK t \in Workers : Step(t) /\ ~Panic /\ \E q : HandlerStep(t, q)
  BY <1>3, <1>4, <1>5, NextCases
<1>7. ~CreateLvol(t)
  <2> SUFFICES ASSUME CreateLvol(t) PROVE FALSE
    OBVIOUS
  <2>1. PICK s \in Stores, n \in Names : s = store[t] /\ n = key[t]
    BY <1>0 DEF CreateLvol, HandlersOK, Busy, DeleteLabels
  <2>2. PICK k \in Lvols : ServeCreate(store[t], key[t], k)
    BY <1>1 DEF CreateLvol
  <2>3. ServeCreate(s, n, k)
    BY <2>1, <2>2 DEF ServeCreate, Alias
  <2> QED BY <1>2, <2>3
<1>8. CallsOnVolume(t)
  BY <1>1, <1>6, <1>7
  DEF Step, CallsOnVolume, Lock, Return, ScanNode, ScanStore, Schedule, CreateCheck
<1>9. PICK q : VolumeStep(t, q)
  BY <1>0, <1>6, <1>8, CallsAreVolumeSteps
<1>10. PICK k \in Lvols : k = vol[t] /\ Born(k)
  BY <1>0, <1>9 DEF VolumeStep, HandlersOK
<1>11. PICK m \in Methods : Serve(m, vol[t])
  BY <1>1, <1>9 DEF VolumeStep
<1>12. Serve(m, k)
  BY <1>10, <1>11 DEF Serve, Accepts, ExportAfter, Methods, Live
<1>13. k = l
  BY <1>0, <1>10, <1>12, ServeTyping
<1> QED BY <1>6, <1>8, <1>10, <1>13

(* The handlers of one lvol are the creates of its name, of which one has    *)
(* the lock, and the deletes of the lvol itself.                             *)
LEMMA CreatesShareNoLvol ==
  ASSUME IInv, NEW t \in Workers, NEW u \in Workers, vol[t] = vol[u],
         op[t] = "create", op[u] = "create", pc[t] \in VolumeLabels, pc[u] \in VolumeLabels
  PROVE  t = u
  BY DEF IInv, TypeInv, HandlersOK, LockOK, VolumeLabels

(* A handler that makes one of its lvol's calls has an lvol.                 *)
LEMMA AtVolume ==
  ASSUME IInv, NEW t \in Workers, CallsOnVolume(t)
  PROVE  /\ pc[t] \in VolumeLabels /\ vol[t] \in Lvols /\ Born(vol[t])
         /\ op[t] \in {"create", "delete"}
<1>1. pc[t] \in VolumeLabels
  BY DEF CallsOnVolume, VolumeLabels, PubExists, PubListeners, PubTransport, PubSubsystem,
         PubNs, PubListener, InfoVolume, InfoLvol, InfoStores, UnpExists, UnpListeners,
         GetNsID, RemoveNs, DeleteSubsystem, DeleteLvol
<1> QED BY <1>1 DEF IInv, TypeInv, HandlersOK, Busy, VolumeLabels

(* A call of a handler that is not the end of the process.                   *)
LEMMA CallFrame ==
  ASSUME IInv, NEW t \in Workers, CallsOnVolume(t), ~Panic
  PROVE  /\ UNCHANGED <<op, key, vol, bound, doomed>>
         /\ \A u \in Workers : u # t => pc'[u] = pc[u]
<1>1. PICK q : VolumeStep(t, q)
  BY CallsAreVolumeSteps DEF IInv
<1>2. pc \in [Workers -> Labels]
  BY DEF IInv, TypeInv, TypeOK
<1> QED BY <1>1, <1>2 DEF VolumeStep, orchestrator

(* While every request is answered, an lvol nobody asked to delete is        *)
(* touched by the one create that makes its export or rolls it back.         *)
LEMMA TouchedByItsCreate ==
  ASSUME IInv, CInv, Answered, AckedIsUsable, faults = 0, faults' = 0, [Next]_vars,
         NEW l \in Lvols, l \notin doomed,
         export'[l] # export[l] \/ (Born(l) /\ status'[l] # status[l])
  PROVE  \E t \in Workers :
           /\ vol[t] = l /\ op[t] = "create" /\ pc[t] \in VolumeLabels /\ Making(t)
           /\ pc'[t] \in VolumeLabels => Making(t)'
           /\ UNCHANGED <<op, key, vol, bound, doomed>>
           /\ \/ pc[t] = "pubSubsystem" /\ export'[l] = {"subsystem"}
              \/ pc[t] = "pubNs" /\ export'[l] = {"subsystem", "namespace"}
              \/ pc[t] = "pubListener" /\ export'[l] = Parts
              \/ pc[t] = "deleteLvol" /\ ~Live(l)'
<1>1. PICK t \in Workers : CallsOnVolume(t) /\ ~Panic /\ vol[t] = l
  BY Touched DEF Answered
<1>2. pc[t] \in VolumeLabels /\ op[t] = "create"
  BY <1>1, AtVolume DEF CInv, CallsOK
<1>3. UNCHANGED <<op, key, vol, bound, doomed>>
  BY <1>1, CallFrame
<1>4. Making(t)
  BY <1>1, <1>2 DEF Answered
<1>5. /\ pc'[t] \in VolumeLabels => Making(t)'
      /\ \/ export'[l] = export[l] /\ status'[l] = status[l]
         \/ pc[t] = "pubSubsystem" /\ export'[l] = {"subsystem"}
         \/ pc[t] = "pubNs" /\ export'[l] = {"subsystem", "namespace"}
         \/ pc[t] = "pubListener" /\ export'[l] = Parts
         \/ pc[t] = "deleteLvol" /\ ~Live(l)'
  BY <1>1, <1>2, <1>3, CreateCalls
<1> QED BY <1>1, <1>2, <1>3, <1>4, <1>5

(* No request becomes late, and no scan is cut short.                        *)
LEMMA NothingLate ==
  ASSUME IInv, Answered, faults' = faults, [Next]_vars
  PROVE  late' = {} /\ lateNew' = {} /\ blind' = {}
<1>0. TypeOK /\ ~Fault /\ late = {} /\ lateNew = {} /\ blind = {}
  BY ControllerAssumption DEF IInv, TypeInv, TypeOK, Fault, Answered
<1>1. CASE Restart \/ UNCHANGED vars
  BY <1>0, <1>1 DEF Restart, vars
<1>2. CASE \E t \in Workers : \E o, k, l : Call(t, o, k, l)
  BY <1>0, <1>2 DEF Call, Start
<1>3. CASE \E t \in Workers : TimeOut(t) \/ Lock(t) \/ Return(t)
  BY <1>0, <1>3 DEF TimeOut, Lock, Return
<1>4. CASE ServeLate
  BY <1>0, <1>4 DEF ServeLate
<1>5. ASSUME NEW t \in Workers, CallsOnVolume(t)
      PROVE  UNCHANGED <<late, lateNew, blind>>
  <2>1. \/ \E m, a, b, c : Rpc(t, m, a, b, c) \/ Ask(t, m, a, b, c)
        \/ \E a, b : LookUp(t, a, b)
    BY <1>5 DEF CallsOnVolume, PubExists, PubListeners, PubTransport, PubSubsystem,
                PubNs, PubListener, InfoVolume, InfoLvol, InfoStores, UnpExists, UnpListeners,
                GetNsID, RemoveNs, DeleteSubsystem, DeleteLvol
  <2> QED BY <1>0, <2>1 DEF Rpc, Ask, LookUp, Panic
<1>6. ASSUME NEW t \in Workers, Step(t), ~CallsOnVolume(t)
      PROVE  UNCHANGED <<late, lateNew, blind>>
  <2>1. CASE ScanNode(t) \/ Schedule(t) \/ Lock(t) \/ Return(t)
    BY <1>0, <2>1 DEF ScanNode, Schedule, Lock, Return
  <2>2. CASE ScanStore(t) \/ CreateCheck(t)
    BY <1>0, <2>2 DEF ScanStore, CreateCheck, Panic
  <2>3. CASE CreateLvol(t)
    BY <1>0, <2>3 DEF CreateLvol
  <2> QED BY <1>6, <2>1, <2>2, <2>3 DEF Step, CallsOnVolume
<1> QED BY <1>0, <1>1, <1>2, <1>3, <1>4, <1>5, <1>6, NextCases

(* No step of a handler, a call or a restart leaves an acknowledged volume   *)
(* half exported.                                                            *)
LEMMA NextUsable ==
  ASSUME IInv, CInv, AnsweredOK, AckedIsUsable, [Next]_vars
  PROVE  AckedIsUsable'
<1>0. TypeOK /\ HandlersOK
  BY DEF IInv, TypeInv
<1> SUFFICES ASSUME faults' = 0, NEW n \in Names, NEW l \in Lvols, bound'[n] = l,
                    l \notin doomed'
             PROVE  Live(l)' /\ Exported(l)'
  BY NextIInv DEF AckedIsUsable, IInv, TypeInv, TypeOK
<1>1. faults = 0 /\ l \notin doomed /\ Answered
  BY <1>0, Growing, ControllerAssumption DEF TypeOK, AnsweredOK
<1>2. CASE bound[n] = l
  <2>1. Live(l) /\ Exported(l)
    BY <1>1, <1>2, TargetAssumption DEF AckedIsUsable
  <2>2. export'[l] = export[l] /\ status'[l] = status[l]
    <3> SUFFICES ASSUME export'[l] # export[l] \/ status'[l] # status[l] PROVE FALSE
      OBVIOUS
    <3>1. PICK t \in Workers :
            /\ vol[t] = l /\ Making(t)
            /\ pc[t] \in {"pubSubsystem", "pubNs", "pubListener", "deleteLvol"}
      BY <1>1, <2>1, TouchedByItsCreate DEF Live, Born
    <3> QED BY <1>2, <2>1, <3>1 DEF Making, Exported, Parts
  <2> QED BY <2>1, <2>2 DEF Live, Exported
<1>3. CASE bound[n] # l
  <2>1. PICK t \in Workers : /\ Return(t) /\ pc[t] = "ok" /\ op[t] = "create"
                             /\ vol[t] = l
    BY <1>3, Acknowledging DEF CInv
  <2>2. Making(t)
    BY <1>1, <2>1 DEF Answered, VolumeLabels
  <2> QED BY <2>1, <2>2 DEF Making, Return, target, Live, Exported
<1> QED BY <1>2, <1>3

(* Every step keeps what Answered says, while requests are answered.         *)
LEMMA NextAnswered ==
  ASSUME IInv, CInv, AnsweredOK, AckedIsUsable, [Next]_vars
  PROVE  AnsweredOK'
<1>0. TypeOK /\ HandlersOK
  BY DEF IInv, TypeInv
<1> SUFFICES ASSUME faults' = 0 PROVE Answered'
  BY DEF AnsweredOK
<1>1. faults = 0 /\ Answered /\ doomed \subseteq doomed'
  BY <1>0, Growing, ControllerAssumption DEF TypeOK, AnsweredOK
<1>2. late' = {} /\ lateNew' = {} /\ blind' = {}
  BY <1>1, NothingLate
<1>3. ASSUME NEW l \in Lvols, ~Born(l)' PROVE export'[l] = {}
  <2>1. ~Born(l)
    BY <1>3, Births
  <2>2. export'[l] = export[l]
    <3> SUFFICES ASSUME export'[l] # export[l] PROVE FALSE
      OBVIOUS
    <3>1. PICK t \in Workers : CallsOnVolume(t) /\ vol[t] = l
      BY <1>1, Touched DEF Answered
    <3> QED BY <2>1, <3>1, AtVolume
  <2> QED BY <1>1, <2>1, <2>2 DEF Answered
<1>4. ASSUME NEW l \in Lvols, l \notin doomed', Live(l)', Published(l)' PROVE Exported(l)'
  <2>1. CASE export'[l] = export[l]
    <3>1. Live(l) \/ ~Born(l)
      BY <1>0, <1>4, Births DEF Live, Born, TypeOK, TargetTypeOK
    <3> QED BY <1>1, <1>4, <2>1, <3>1 DEF Answered, Published, Exported
  <2>2. CASE export'[l] # export[l]
    BY <1>1, <1>4, <2>2, TouchedByItsCreate DEF Published, Exported
  <2> QED BY <2>1, <2>2
<1>5. ASSUME NEW t \in Workers, op'[t] = "create", pc'[t] \in VolumeLabels, vol'[t] \notin doomed'
      PROVE  Making(t)'
  <2>1. CASE pc[t] \notin VolumeLabels
    <3>1. pc'[t] = "pubExists" /\ Live(vol[t])'
      BY <1>5, <2>1, CreatesAtVolume
    <3> QED BY <3>1 DEF Making
  <2>2. CASE pc[t] \in VolumeLabels
    <3>1. op[t] = "create" /\ key'[t] = key[t] /\ vol'[t] = vol[t]
      BY <1>5, <2>2, CreatesAtVolume
    <3>2. PICK l \in Lvols : l = vol[t] /\ Born(l)
      BY <1>0, <2>2 DEF HandlersOK
    <3>3. Making(t) /\ l \notin doomed
      BY <1>1, <1>5, <2>2, <3>1, <3>2 DEF Answered
    <3>4. CASE CallsOnVolume(t) /\ ~Panic
      <4>1. UNCHANGED bound /\ UNCHANGED vol
        BY <3>4, CallFrame
      <4> QED BY <1>1, <1>5, <3>1, <3>2, <3>3, <3>4, <4>1, CreateCalls
    <3>5. CASE ~(CallsOnVolume(t) /\ ~Panic)
      <4>1. export'[l] = export[l] /\ status'[l] = status[l]
        <5> SUFFICES ASSUME export'[l] # export[l] \/ status'[l] # status[l] PROVE FALSE
          OBVIOUS
        <5>1. PICK u \in Workers : CallsOnVolume(u) /\ ~Panic /\ vol[u] = l
          BY <1>1, <3>2, Touched DEF Answered
        <5>2. pc[u] \in VolumeLabels /\ op[u] = "create"
          BY <3>3, <5>1, AtVolume DEF CInv, CallsOK
        <5> QED BY <2>2, <3>1, <3>2, <3>5, <5>1, <5>2, CreatesShareNoLvol
      <4>2. pc'[t] = pc[t]
        BY <1>5, <2>2, <3>5, CreatesAtVolume
      <4>3. \A n \in Names : bound'[n] = l => bound[n] = l \/ pc[t] = "ok"
        <5> SUFFICES ASSUME NEW n \in Names, bound'[n] = l, bound[n] # l PROVE pc[t] = "ok"
          OBVIOUS
        <5>1. PICK u \in Workers : Return(u) /\ pc[u] = "ok" /\ op[u] = "create" /\ vol[u] = l
          BY Acknowledging DEF CInv
        <5> QED BY <2>2, <3>1, <3>2, <5>1, CreatesShareNoLvol DEF VolumeLabels
      <4>4. lvs'[l] = lvs[l] /\ transports \subseteq transports'
        BY <3>2, Births
      <4> QED BY <3>1, <3>2, <3>3, <4>1, <4>2, <4>3, <4>4 DEF Making, Live, Exported
    <3> QED BY <3>4, <3>5
  <2> QED BY <2>1, <2>2
<1> QED BY <1>2, <1>3, <1>4, <1>5 DEF Answered

(* Initially no lvol exists.                                                 *)
LEMMA InitAnswered == Init => AnsweredOK /\ AckedIsUsable
  BY DEF Init, TargetInit, AnsweredOK, Answered, AckedIsUsable, Live, Published

UInv == CInv /\ AnsweredOK /\ AckedIsUsable

(* UInv is inductive together with IInv.                                     *)
LEMMA UInvInvariance == Spec => [](IInv /\ UInv)
<1>1. Init => UInv
  BY InitLockExact, InitCallsOK, InitFoundOK, InitAnswered DEF UInv, CInv
<1>2. IInv /\ UInv /\ [Next]_vars => AnsweredOK' /\ AckedIsUsable'
  BY NextAnswered, NextUsable DEF UInv
<1>3. UInv <=> CInv /\ AnsweredOK /\ AckedIsUsable
  BY DEF UInv
<1> QED BY <1>1, <1>2, <1>3, CInvInvariance, PTL DEF Spec

(* As long as every JSON-RPC is answered, a volume that was acknowledged and *)
(* that nobody asked to delete is live and completely exported, for any      *)
(* number of restarts and of calls that overlap with abandoned handlers.     *)
THEOREM NoRollBackHitsAcknowledged == Spec => []AckedIsUsable
<1>1. UInv => AckedIsUsable
  BY DEF UInv
<1> QED BY <1>1, UInvInvariance, PTL

-----------------------------------------------------------------------------
(* Exports, while nothing disturbs the handlers.                             *)

(* The lvols of a name whose create runs are not being deleted.              *)
LEMMA CreatedIsNotBound ==
  ASSUME IInv, CInv, timeouts = 0, NEW t \in Workers, op[t] = "create", Busy(t),
         NEW l \in Lvols, lvname[l] = key[t]
  PROVE  l \notin doomed /\ \A n \in Names : bound[n] # l
  BY TargetAssumption DEF IInv, TypeInv, CInv, CallsOK, AckedIsOfItsName

(* An lvol has one handler at a time.                                        *)
LEMMA OneOwner ==
  ASSUME IInv, CInv, UndisturbedOK, Undisturbed,
         NEW t \in Workers, NEW u \in Workers, vol[t] = vol[u], vol[t] \in Lvols
  PROVE  t = u
<1>0. HandlersOK /\ CallsOK /\ timeouts = 0 /\ vol[t] # None
  BY TargetAssumption DEF IInv, TypeInv, CInv, Undisturbed
<1>1. Busy(t) /\ Busy(u)
  BY <1>0 DEF CallsOK
<1>2. ASSUME NEW w \in Workers, w \in {t, u}, op[w] = "create"
      PROVE  /\ pc[w] \in VolumeLabels /\ lvname[vol[w]] = key[w] /\ vol[w] \notin doomed
  <2>1. pc[w] \in VolumeLabels
    BY <1>0, <1>2 DEF UndisturbedOK, CreateKnows
  <2>2. lvname[vol[w]] = key[w]
    BY <1>0, <1>2, <2>1 DEF HandlersOK
  <2> QED BY <1>0, <1>1, <1>2, <2>1, <2>2, CreatedIsNotBound
<1>3. CASE op[t] = "create" /\ op[u] = "create"
  BY <1>2, <1>3, CreatesShareNoLvol
<1>4. CASE op[t] # "create" /\ op[u] # "create"
  BY <1>0, <1>1, <1>4 DEF HandlersOK, CallsOK
<1>5. CASE op[t] = "create" /\ op[u] # "create"
  BY <1>0, <1>1, <1>2, <1>5 DEF HandlersOK, CallsOK
<1>6. CASE op[t] # "create" /\ op[u] = "create"
  BY <1>0, <1>1, <1>2, <1>6 DEF HandlersOK, CallsOK
<1> QED BY <1>3, <1>4, <1>5, <1>6

(* The undisturbed course of DeleteVolume.                                   *)
LEMMA DeleteCalls ==
  ASSUME IInv, faults' = faults, NEW t \in Workers, CallsOnVolume(t), op[t] = "delete",
         DeleteKnows(t), UNCHANGED vol
  PROVE  DeleteKnows(t)'
<1>0. /\ TypeOK /\ ~Fault /\ HandlersOK
      /\ pc \in [Workers -> Labels] /\ status \in [Lvols -> {"unborn", "live", "gone"}]
      /\ export \in [Lvols -> SUBSET Parts]
  BY ControllerAssumption DEF IInv, TypeInv, TypeOK, TargetTypeOK, Fault
<1>1. PICK l \in Lvols : l = vol[t]
  BY AtVolume
<1>2. pc[t] \in DeleteLabels
  BY <1>0, AtVolume DEF HandlersOK, Busy, VolumeLabels
<1> USE DEF DeleteKnows, Live, Exported, Parts, target
<1>3. CASE UnpExists(t)
  <2>1. /\ UNCHANGED target
        /\ pc' = [pc EXCEPT ![t] = IF Live(l) THEN "unpListeners" ELSE "ok"]
    BY <1>0, <1>1, <1>3 DEF UnpExists, LookUp, Panic, Goto
  <2> QED BY <1>0, <1>1, <1>3, <2>1 DEF UnpExists
<1>4. CASE UnpListeners(t)
  <2>1. UNCHANGED target /\ pc' = [pc EXCEPT ![t] = "getNsID"]
    BY <1>0, <1>1, <1>4 DEF UnpListeners, Ask, Goto, Published
  <2> QED BY <1>0, <1>1, <1>4, <2>1 DEF UnpListeners
<1>5. CASE GetNsID(t)
  <2>1. UNCHANGED target /\ pc' = [pc EXCEPT ![t] = "removeNs"]
    BY <1>0, <1>1, <1>5 DEF GetNsID, Ask, Goto
  <2> QED BY <1>0, <1>1, <1>5, <2>1 DEF GetNsID
<1>6. CASE RemoveNs(t)
  <2>1. Accepts("nvmf_subsystem_remove_ns", l)
    BY <1>1, <1>6 DEF RemoveNs, Accepts
  <2>2. Serve("nvmf_subsystem_remove_ns", l) /\ pc' = [pc EXCEPT ![t] = "deleteSubsystem"]
    BY <1>0, <1>1, <1>6, <2>1, AnsweredRpc DEF RemoveNs
  <2> QED BY <1>0, <1>1, <1>6, <2>2 DEF RemoveNs, Serve, ExportAfter
<1>7. CASE DeleteSubsystem(t)
  <2>1. Accepts("nvmf_delete_subsystem", l)
    BY <1>1, <1>7 DEF DeleteSubsystem, Accepts
  <2>2. Rpc(t, "nvmf_delete_subsystem", "deleteLvol", "err", "err")
    BY <1>7 DEF DeleteSubsystem, Rpc
  <2>3. Serve("nvmf_delete_subsystem", l) /\ pc' = [pc EXCEPT ![t] = "deleteLvol"]
    BY <1>0, <1>1, <2>1, <2>2, AnsweredRpc
  <2> QED BY <1>0, <1>1, <1>7, <2>3 DEF DeleteSubsystem, Serve, ExportAfter
<1>8. CASE DeleteLvol(t)
  <2>1. Accepts("bdev_lvol_delete", l)
    BY <1>1, <1>8 DEF DeleteLvol, Accepts
  <2>2. Rpc(t, "bdev_lvol_delete", "ok", "ok", "err")
    BY <1>8 DEF DeleteLvol, Rpc
  <2>3. Serve("bdev_lvol_delete", l) /\ pc' = [pc EXCEPT ![t] = "ok"]
    BY <1>0, <1>1, <2>1, <2>2, AnsweredRpc
  <2> QED BY <1>0, <1>1, <1>8, <2>3 DEF DeleteLvol, Serve, ExportAfter
<1> QED BY <1>2, <1>3, <1>4, <1>5, <1>6, <1>7, <1>8
    DEF CallsOnVolume, DeleteLabels, PubExists, PubListeners, PubTransport, PubSubsystem,
        PubNs, PubListener, InfoVolume, InfoLvol, InfoStores

(* The undisturbed course of CreateVolume.                                   *)
LEMMA CreateKnowsCalls ==
  ASSUME IInv, faults' = faults, NEW t \in Workers, CallsOnVolume(t), op[t] = "create",
         Making(t), CreateKnows(t), UNCHANGED vol
  PROVE  CreateKnows(t)' /\ pc'[t] \in VolumeLabels
<1>0. /\ TypeOK /\ ~Fault
      /\ pc \in [Workers -> Labels] /\ status \in [Lvols -> {"unborn", "live", "gone"}]
      /\ export \in [Lvols -> SUBSET Parts]
  BY ControllerAssumption DEF IInv, TypeInv, TypeOK, TargetTypeOK, Fault
<1>1. PICK l \in Lvols : l = vol[t]
  BY AtVolume
<1> USE DEF CreateKnows, Making, Live, Exported, Parts, VolumeLabels, target
<1>2. CASE PubExists(t)
  <2>1. UNCHANGED target /\ pc' = [pc EXCEPT ![t] = "pubListeners"]
    BY <1>0, <1>1, <1>2 DEF PubExists, LookUp, Panic, Goto
  <2> QED BY <1>0, <1>1, <1>2, <2>1 DEF PubExists
<1>3. CASE PubListeners(t)
  <2>1. /\ UNCHANGED target
        /\ pc' = [pc EXCEPT ![t] = IF Published(l) THEN "infoVolume" ELSE "pubTransport"]
    BY <1>0, <1>1, <1>3 DEF PubListeners, Ask, Goto
  <2> QED BY <1>0, <1>1, <1>3, <2>1 DEF PubListeners, Published
<1>4. CASE PubTransport(t)
  <2>1. /\ Serve("nvmf_create_transport", l) \/ UNCHANGED target
        /\ pc' = [pc EXCEPT ![t] = "pubSubsystem"]
    BY <1>0, <1>1, <1>4, AnsweredRpc DEF PubTransport
  <2> QED BY <1>0, <1>1, <1>4, <2>1 DEF PubTransport, Serve, ExportAfter
<1>5. CASE PubSubsystem(t)
  <2>1. Accepts("nvmf_create_subsystem", l)
    BY <1>1, <1>5 DEF PubSubsystem, Accepts
  <2>2. pc' = [pc EXCEPT ![t] = "pubNs"]
    BY <1>0, <1>1, <1>5, <2>1, AnsweredRpc DEF PubSubsystem
  <2> QED BY <1>0, <1>1, <1>5, <2>2 DEF PubSubsystem
<1>6. CASE PubNs(t)
  <2>1. Accepts("nvmf_subsystem_add_ns", l)
    BY <1>1, <1>6 DEF PubNs, Accepts
  <2>2. pc' = [pc EXCEPT ![t] = "pubListener"]
    BY <1>0, <1>1, <1>6, <2>1, AnsweredRpc DEF PubNs
  <2> QED BY <1>0, <1>1, <1>6, <2>2 DEF PubNs
<1>7. CASE PubListener(t)
  <2>1. Accepts("nvmf_subsystem_add_listener", l)
    BY <1>1, <1>7 DEF PubListener, Accepts
  <2>2. pc' = [pc EXCEPT ![t] = "infoVolume"]
    BY <1>0, <1>1, <1>7, <2>1, AnsweredRpc DEF PubListener
  <2> QED BY <1>0, <1>1, <1>7, <2>2 DEF PubListener
<1>8. CASE InfoVolume(t) \/ InfoLvol(t) \/ InfoStores(t)
  <2>1. pc'[t] \in {"infoLvol", "infoStores", "ok"}
    BY <1>0, <1>1, <1>8 DEF InfoVolume, InfoLvol, InfoStores, LookUp, Panic, Ask, Goto
  <2> QED BY <2>1
<1> QED BY <1>2, <1>3, <1>4, <1>5, <1>6, <1>7, <1>8
    DEF CallsOnVolume, UnpExists, UnpListeners, GetNsID, RemoveNs, DeleteSubsystem, DeleteLvol

(* How a handler comes to be a delete.                                       *)
LEMMA DeleteSteps ==
  ASSUME IInv, [Next]_vars, NEW t \in Workers, op'[t] = "delete"
  PROVE  \/ op[t] = "delete" /\ vol'[t] = vol[t] /\ pc'[t] = pc[t]
         \/ op[t] = "delete" /\ vol'[t] = vol[t] /\ pc[t] = "lock" /\ pc'[t] = "unpExists"
         \/ op[t] = "delete" /\ CallsOnVolume(t) /\ ~Panic
         \/ \E l \in Lvols : Call(t, "delete", l, l) /\ vol'[t] = l /\ pc'[t] = "lock"
<1>0. TypeOK /\ HandlersOK
  BY DEF IInv, TypeInv
<1> DEFINE Same == pc'[t] = pc[t] /\ op'[t] = op[t] /\ vol'[t] = vol[t]
<1>1. ~Restart
  BY DEF Restart, ProcessEnds
<1>2. ASSUME NEW u \in Workers, NEW o, NEW k, NEW l, Call(u, o, k, l)
      PROVE  \/ Same
             \/ \E j \in Lvols : Call(t, "delete", j, j) /\ vol'[t] = j /\ pc'[t] = "lock"
  <2>1. CASE u # t
    BY <1>0, <1>2, <2>1 DEF Call, Start, Goto, TypeOK
  <2>2. CASE u = t
    <3>1. pc'[t] = "lock" /\ vol'[t] = l /\ o = "delete" /\ k = l /\ l \in Lvols
      BY <1>0, <1>2, <2>2 DEF Call, Start, Goto, TypeOK
    <3> QED BY <1>2, <2>2, <3>1
  <2> QED BY <2>1, <2>2
<1>3. ASSUME NEW u \in Workers, Lock(u)
      PROVE  \/ Same
             \/ op[t] = "delete" /\ vol'[t] = vol[t] /\ pc[t] = "lock" /\ pc'[t] = "unpExists"
  BY <1>0, <1>3 DEF Lock, Goto, TypeOK
<1>4. ASSUME NEW u \in Workers, Return(u) PROVE Same
  BY <1>0, <1>4 DEF Return, Goto, TypeOK
<1>5. CASE ServeLate \/ UNCHANGED vars \/ \E u \in Workers : TimeOut(u)
  BY <1>5 DEF ServeLate, vars, TimeOut, handlers
<1>6. ASSUME NEW u \in Workers, NEW q, HandlerStep(u, q), u # t PROVE Same
  BY <1>0, <1>6 DEF HandlerStep, TypeOK
<1>7. ASSUME NEW q, Step(t), ~Panic, HandlerStep(t, q)
      PROVE  op[t] = "delete" /\ CallsOnVolume(t) /\ ~Panic
  <2>1. op[t] = "delete" /\ pc[t] \in DeleteLabels /\ pc'[t] # "idle" /\ pc[t] # "lock"
    BY <1>0, <1>7 DEF HandlerStep, HandlersOK, Busy, TypeOK
  <2>2. ~Return(t)
    BY <1>0, <2>1 DEF Return, Goto, TypeOK
  <2> QED BY <1>7, <2>1, <2>2 DEF Step, CallsOnVolume, DeleteLabels, Lock, ScanNode, ScanStore,
                                  Schedule, CreateCheck, CreateLvol
<1> QED BY <1>1, <1>2, <1>3, <1>4, <1>5, <1>6, <1>7, NextCases

(* A create that does not work on an lvol has none, or was rolled back.      *)
LEMMA CreateOutside ==
  ASSUME IInv, [Next]_vars, NEW t \in Workers, op'[t] = "create", pc'[t] \notin VolumeLabels
  PROVE  \/ vol'[t] = None
         \/ op[t] = "create" /\ pc[t] \notin VolumeLabels /\ vol'[t] = vol[t]
         \/ op[t] = "create" /\ CallsOnVolume(t) /\ ~Panic
<1>0. TypeOK /\ HandlersOK
  BY DEF IInv, TypeInv
<1> DEFINE Same == pc'[t] = pc[t] /\ op'[t] = op[t] /\ vol'[t] = vol[t]
<1>1. ~Restart
  BY DEF Restart, ProcessEnds
<1>2. ASSUME NEW u \in Workers, NEW o, NEW k, NEW l, Call(u, o, k, l)
      PROVE  Same \/ vol'[t] = None
  BY <1>0, <1>2 DEF Call, Start, Goto, TypeOK
<1>3. ASSUME NEW u \in Workers, Lock(u)
      PROVE  Same \/ (op[t] = "create" /\ pc[t] \notin VolumeLabels /\ vol'[t] = vol[t])
  BY <1>0, <1>3 DEF Lock, Goto, TypeOK, VolumeLabels
<1>4. ASSUME NEW u \in Workers, Return(u) PROVE Same
  BY <1>0, <1>4 DEF Return, Goto, TypeOK
<1>5. CASE ServeLate \/ UNCHANGED vars \/ \E u \in Workers : TimeOut(u)
  BY <1>5 DEF ServeLate, vars, TimeOut, handlers
<1>6. ASSUME NEW u \in Workers, NEW q, HandlerStep(u, q), u # t PROVE Same
  BY <1>0, <1>6 DEF HandlerStep, TypeOK
<1>7. ASSUME NEW q, Step(t), ~Panic, HandlerStep(t, q), ~CallsOnVolume(t)
      PROVE  op[t] = "create" /\ pc[t] \notin VolumeLabels /\ vol'[t] = vol[t]
  <2>1. op[t] = "create" /\ pc'[t] # "idle" /\ pc[t] # "lock"
    BY <1>0, <1>7 DEF HandlerStep, TypeOK
  <2>2. ~Return(t) /\ ~Lock(t)
    BY <1>0, <2>1 DEF Return, Lock, Goto, TypeOK
  <2>3. CASE ScanNode(t) \/ Schedule(t)
    BY <2>1, <2>3 DEF ScanNode, Schedule, VolumeLabels
  <2>4. CASE ScanStore(t)
    BY <1>0, <1>7, <2>1, <2>4 DEF ScanStore, Goto, VolumeLabels, TypeOK
  <2>5. CASE CreateCheck(t)
    BY <1>0, <1>7, <2>1, <2>5 DEF CreateCheck, Goto, VolumeLabels, TypeOK
  <2>6. CASE CreateLvol(t)
    BY <1>0, <1>7, <2>1, <2>6 DEF CreateLvol, Goto, VolumeLabels, TypeOK
  <2> QED BY <1>7, <2>2, <2>3, <2>4, <2>5, <2>6 DEF Step, CallsOnVolume
<1>8. ASSUME NEW q, Step(t), ~Panic, HandlerStep(t, q), CallsOnVolume(t)
      PROVE  op[t] = "create" /\ CallsOnVolume(t) /\ ~Panic
  BY <1>8 DEF HandlerStep
<1> QED BY <1>1, <1>2, <1>3, <1>4, <1>5, <1>6, <1>7, <1>8, NextCases

(* Every step keeps what the handlers know of their lvols.                   *)
LEMMA NextUndisturbed ==
  ASSUME IInv, UInv, UndisturbedOK, ExportsMatchLvols, [Next]_vars
  PROVE  UndisturbedOK'
<1>0. TypeOK /\ TargetTypeOK /\ HandlersOK /\ AckedIsOfItsName /\ CInv /\ CallsOK
  BY DEF IInv, TypeInv, TypeOK, UInv, CInv
<1> SUFFICES ASSUME Undisturbed', NEW t \in Workers
             PROVE  /\ op'[t] = "create" => CreateKnows(t)'
                    /\ op'[t] = "delete" => DeleteKnows(t)'
  BY DEF UndisturbedOK
<1>1. Undisturbed /\ faults' = faults /\ faults = 0 /\ timeouts = 0
  BY <1>0, Growing, ControllerAssumption DEF Undisturbed, TypeOK
<1>2. Answered
  BY <1>1 DEF UInv, AnsweredOK
<1>3. ASSUME NEW l \in Lvols, Born(l),
             ~(\E u \in Workers : CallsOnVolume(u) /\ ~Panic /\ vol[u] = l)
      PROVE  export'[l] = export[l] /\ status'[l] = status[l]
  BY <1>2, <1>3, Touched DEF Answered
<1>4. ASSUME NEW l \in Lvols, \A u \in Workers : vol[u] # l
      PROVE  export[l] = IF Live(l) THEN Parts ELSE {}
  BY <1>1, <1>4 DEF ExportsMatchLvols, Undisturbed
<1>5. ASSUME op'[t] = "delete" PROVE DeleteKnows(t)'
  <2>1. CASE op[t] = "delete" /\ CallsOnVolume(t) /\ ~Panic
    <3>1. UNCHANGED vol
      BY <2>1, CallFrame
    <3> QED BY <1>1, <2>1, <3>1, DeleteCalls DEF UndisturbedOK
  <2>2. CASE /\ op[t] = "delete" /\ ~(CallsOnVolume(t) /\ ~Panic) /\ vol'[t] = vol[t]
             /\ pc'[t] = pc[t] \/ (pc[t] = "lock" /\ pc'[t] = "unpExists")
    <3>1. PICK l \in Lvols : l = vol[t] /\ Born(l)
      BY <1>0, <2>2 DEF HandlersOK, CallsOK
    <3>2. export'[l] = export[l] /\ status'[l] = status[l]
      BY <1>0, <1>1, <1>3, <2>2, <3>1, OneOwner
    <3>3. DeleteKnows(t)
      BY <1>1, <2>2 DEF UndisturbedOK
    <3> QED BY <2>2, <3>1, <3>2, <3>3 DEF DeleteKnows, Live, Exported
  <2>3. ASSUME NEW l \in Lvols, Call(t, "delete", l, l), vol'[t] = l, pc'[t] = "lock"
        PROVE  DeleteKnows(t)'
    <3>1. ASSUME NEW u \in Workers, vol[u] = l PROVE FALSE
      <4>1. Busy(u) /\ u \in awaited
        BY <1>0, <1>1, <3>1, TargetAssumption DEF CallsOK
      <4>2. op[u] = "create"
        BY <1>0, <2>3, <3>1, <4>1 DEF Call, Start, HandlersOK
      <4>3. pc[u] \in VolumeLabels /\ lvname[l] = key[u]
        BY <1>0, <1>1, <3>1, <4>2, TargetAssumption DEF UndisturbedOK, CreateKnows, HandlersOK
      <4> QED BY <1>0, <1>1, <2>3, <4>1, <4>2, <4>3, CreatedIsNotBound DEF Call
    <3>2. export[l] = IF Live(l) THEN Parts ELSE {}
      BY <1>4, <3>1
    <3>3. UNCHANGED target
      BY <2>3 DEF Call, Start
    <3> QED BY <2>3, <3>2, <3>3 DEF DeleteKnows, target, Live
  <2> QED BY <1>5, <2>1, <2>2, <2>3, DeleteSteps
<1>6. ASSUME op'[t] = "create" PROVE CreateKnows(t)'
  <2>1. CASE op[t] = "create" /\ CallsOnVolume(t) /\ ~Panic
    <3>1. UNCHANGED vol /\ pc[t] \in VolumeLabels
      BY <2>1, CallFrame, AtVolume
    <3>2. vol[t] \in Lvols /\ lvname[vol[t]] = key[t]
      BY <1>0, <2>1, <3>1 DEF HandlersOK
    <3>3. vol[t] \notin doomed
      BY <1>0, <1>1, <2>1, <3>1, <3>2, CreatedIsNotBound DEF Busy, VolumeLabels
    <3>4. Making(t) /\ CreateKnows(t)
      BY <1>1, <1>2, <2>1, <3>1, <3>3 DEF Answered, UndisturbedOK
    <3> QED BY <1>1, <2>1, <3>1, <3>4, CreateKnowsCalls
  <2>2. CASE pc'[t] \notin VolumeLabels /\ ~(op[t] = "create" /\ CallsOnVolume(t) /\ ~Panic)
    <3>1. vol'[t] = None
      BY <1>1, <1>6, <2>2, CreateOutside DEF UndisturbedOK, CreateKnows
    <3> QED BY <2>2, <3>1 DEF CreateKnows, VolumeLabels
  <2>3. CASE /\ pc'[t] \in VolumeLabels /\ pc[t] \in VolumeLabels
             /\ ~(op[t] = "create" /\ CallsOnVolume(t) /\ ~Panic)
    <3>1. op[t] = "create" /\ vol'[t] = vol[t] /\ pc'[t] = pc[t]
      BY <1>6, <2>3, CreatesAtVolume
    <3>2. PICK l \in Lvols : l = vol[t] /\ Born(l)
      BY <1>0, <2>3 DEF HandlersOK
    <3>3. export'[l] = export[l] /\ status'[l] = status[l]
      BY <1>0, <1>1, <1>3, <2>3, <3>1, <3>2, OneOwner
    <3>4. CreateKnows(t)
      BY <1>1, <3>1 DEF UndisturbedOK
    <3> QED BY <3>1, <3>2, <3>3, <3>4 DEF CreateKnows
  <2>4. CASE pc'[t] \in VolumeLabels /\ pc[t] \notin VolumeLabels
    <3>1. /\ op[t] = "create" /\ key'[t] = key[t] /\ pc'[t] = "pubExists" /\ Step(t)
          /\ vol'[t] \in Lvols /\ Live(vol[t])' /\ lvname'[vol'[t]] = key'[t]
      BY <1>6, <2>4, CreatesAtVolume
    <3>2. PICK l \in Lvols : l = vol'[t]
      BY <3>1
    <3>3. CASE Live(l)
      <4>1. lvname[l] = key[t] /\ Born(l)
        BY <3>1, <3>2, <3>3, Births DEF Live, Born
      <4>2. Busy(t)
        BY <1>0, <3>1 DEF CallsOK
      <4>3. ASSUME NEW u \in Workers, vol[u] = l PROVE FALSE
        <5>1. Busy(u)
          BY <1>0, <4>3, TargetAssumption DEF CallsOK
        <5>2. op[u] = "create"
          BY <1>0, <1>1, <3>1, <4>1, <4>2, <4>3, <5>1, CreatedIsNotBound DEF HandlersOK, CallsOK
        <5>3. pc[u] \in VolumeLabels /\ lvname[l] = key[u]
          BY <1>0, <1>1, <4>3, <5>2, TargetAssumption DEF UndisturbedOK, CreateKnows, HandlersOK
        <5>4. t \in awaited /\ u \in awaited
          BY <1>0, <1>1, <4>2, <5>1 DEF CallsOK
        <5> QED BY <1>0, <2>4, <4>1, <5>3, <5>4 DEF CallsOK
      <4>4. export[l] = Parts
        BY <1>4, <3>3, <4>3
      <4>5. export'[l] = export[l]
        BY <1>3, <4>1, <4>3
      <4> QED BY <3>1, <3>2, <4>4, <4>5 DEF CreateKnows, VolumeLabels
    <3>4. CASE ~Live(l)
      <4>1. ~Born(l)
        BY <1>0, <3>1, <3>2, <3>4, Births DEF Live, Born, TargetTypeOK
      <4>2. export[l] = {}
        BY <1>2, <4>1 DEF Answered
      <4>3. export'[l] = export[l]
        BY <1>2, <4>1, Touched, AtVolume DEF Answered
      <4> QED BY <3>1, <3>2, <4>2, <4>3 DEF CreateKnows, VolumeLabels
    <3> QED BY <3>3, <3>4
  <2> QED BY <2>1, <2>2, <2>3, <2>4
<1> QED BY <1>5, <1>6

(* When a handler lets go of an lvol, its export is complete or gone.        *)
LEMMA NextExportsMatch ==
  ASSUME IInv, UInv, UndisturbedOK, ExportsMatchLvols, [Next]_vars
  PROVE  ExportsMatchLvols'
<1>0. TypeOK /\ TargetTypeOK /\ HandlersOK /\ CInv /\ CallsOK
  BY DEF IInv, TypeInv, TypeOK, UInv, CInv
<1> SUFFICES ASSUME Undisturbed', NEW l \in Lvols, \A t \in Workers : vol'[t] # l
             PROVE  export'[l] = IF Live(l)' THEN Parts ELSE {}
  BY DEF ExportsMatchLvols, Undisturbed
<1>1. /\ Undisturbed /\ faults' = faults /\ crashes' = crashes /\ faults = 0 /\ timeouts = 0
      /\ faults \in Nat /\ crashes \in Nat
  BY <1>0, Growing, ControllerAssumption DEF Undisturbed, TypeOK
<1>2. Answered
  BY <1>1 DEF UInv, AnsweredOK
<1>3. export'[l] = export[l] /\ (Born(l) => status'[l] = status[l])
  BY <1>2, Touched, CallFrame DEF Answered
<1>4. CASE \A t \in Workers : vol[t] # l
  <2>1. export[l] = IF Live(l) THEN Parts ELSE {}
    BY <1>1, <1>4 DEF ExportsMatchLvols, Undisturbed
  <2>2. CASE Born(l)
    BY <1>3, <2>1, <2>2 DEF Live
  <2>3. CASE ~Born(l)
    <3>1. ASSUME Live(l)' PROVE FALSE
      <4>1. PICK t \in Workers : CreateLvol(t)
        BY <1>2, <2>3, <3>1, Births DEF Answered, Born, Live
      <4>2. ~Fault
        BY <1>1 DEF Fault
      <4>3. PICK k \in Lvols : ServeCreate(store[t], key[t], k) /\ vol' = [vol EXCEPT ![t] = k]
        BY <2>3, <3>1, <4>1, <4>2 DEF CreateLvol, target, Live, Born
      <4>4. k = l
        BY <1>0, <2>3, <3>1, <4>3 DEF ServeCreate, Live, Born, TargetTypeOK
      <4> QED BY <1>0, <4>3, <4>4 DEF TypeOK
    <3> QED BY <1>3, <2>1, <2>3, <3>1 DEF Live, Born
  <2> QED BY <2>2, <2>3
<1>5. ASSUME NEW t \in Workers, vol[t] = l
      PROVE  export'[l] = IF Live(l)' THEN Parts ELSE {}
  <2>1. Busy(t) /\ vol[t] # None
    BY <1>0, <1>5, TargetAssumption DEF CallsOK
  <2>2. \/ op[t] = "create" /\ CreateKnows(t) /\ pc[t] \in VolumeLabels
        \/ op[t] = "delete" /\ DeleteKnows(t)
    BY <1>0, <1>1, <2>1 DEF HandlersOK, UndisturbedOK, CreateKnows
  <2>3. Born(l)
    BY <1>0, <1>5, <2>1, <2>2 DEF HandlersOK
  <2>4. vol'[t] # vol[t]
    BY <1>5
  <2>5. Return(t)
    <3>1. ~Restart
      BY <1>1 DEF Restart
    <3>2. ~ \E u \in Workers : \E o, k, j : Call(u, o, k, j)
      BY <1>0, <2>1, <2>4 DEF Call, Start, Busy, TypeOK
    <3>3. ~(\E u \in Workers : TimeOut(u) \/ Lock(u)) /\ ~ServeLate /\ ~UNCHANGED vars
      BY <2>4 DEF TimeOut, Lock, ServeLate, vars, handlers
    <3>4. ASSUME NEW u \in Workers, NEW q, Step(u), ~Panic, HandlerStep(u, q) PROVE FALSE
      <4>1. u = t /\ op[t] = "create"
        BY <2>2, <2>4, <3>4 DEF HandlerStep
      <4>2. CallsOnVolume(t)
        BY <2>2, <3>4, <4>1, StepsAtVolume
      <4> QED BY <2>4, <3>4, <4>2, CallFrame
    <3>5. PICK u \in Workers : Return(u)
      BY <3>1, <3>2, <3>3, <3>4, NextCases
    <3> QED BY <1>0, <2>4, <3>5 DEF Return, TypeOK
  <2>6. CASE op[t] = "delete"
    BY <1>3, <1>5, <2>2, <2>3, <2>5, <2>6 DEF Return, DeleteKnows, Live
  <2>7. CASE op[t] = "create"
    <3>1. pc[t] = "ok" /\ pc[t] \in VolumeLabels
      BY <2>2, <2>5, <2>7 DEF Return, VolumeLabels
    <3>2. lvname[l] = key[t]
      BY <1>0, <1>5, <2>7, <3>1 DEF HandlersOK
    <3>3. l \notin doomed
      BY <1>0, <1>1, <2>1, <2>7, <3>2, CreatedIsNotBound
    <3>4. Making(t)
      BY <1>2, <1>5, <2>7, <3>1, <3>3 DEF Answered
    <3> QED BY <1>3, <1>5, <2>3, <3>1, <3>4 DEF Making, Live, Exported
  <2> QED BY <2>2, <2>6, <2>7
<1> QED BY <1>4, <1>5

(* Initially there are no handlers and no lvols.                             *)
LEMMA InitUndisturbed == Init => UndisturbedOK /\ ExportsMatchLvols
  BY DEF Init, TargetInit, UndisturbedOK, ExportsMatchLvols, Live

(* Without failures, restarts and overlapping calls nothing of an export     *)
(* outlives its volume and no volume stays half exported, for any number of  *)
(* handlers that interleave.                                                 *)
THEOREM ExportsAreComplete == Spec => []ExportsMatchLvols
<1>1. Init => UndisturbedOK /\ ExportsMatchLvols
  BY InitUndisturbed
<1>2. IInv /\ UInv /\ UndisturbedOK /\ ExportsMatchLvols /\ [Next]_vars
        => UndisturbedOK' /\ ExportsMatchLvols'
  BY NextUndisturbed, NextExportsMatch
<1> QED BY <1>1, <1>2, UInvInvariance, PTL DEF Spec
=============================================================================
