----------------------------- MODULE Controller ------------------------------
(* The CSI controller service, pkg/spdk/controllerserver.go, with an NVMe-oF *)
(* storage backend (pkg/util/nvmf.go over pkg/util/jsonrpc.go): CreateVolume *)
(* and DeleteVolume.  Each gRPC call runs in a goroutine of its own (a       *)
(* worker); every JSON-RPC to a storage node is one step, and workers        *)
(* interleave between them.                                                  *)
(*                                                                           *)
(* Environment.  The container orchestrator (CO) retries a request until it  *)
(* is acknowledged, stops waiting after its time-out (the provisioner        *)
(* sidecar runs with --timeout=30s) and then sends the request again; the    *)
(* handlers ignore their context, so the abandoned one keeps running.  A     *)
(* JSON-RPC may fail: its reply is lost, or the driver's 20 s limit passes   *)
(* and the request is served later or never.  The controller process may be  *)
(* killed and restarted.                                                     *)
EXTENDS SpdkTarget, Naturals

CONSTANTS
  Workers,       \* goroutines
  MaxFaults,     \* bound on JSON-RPCs that fail
  MaxCrashes,    \* bound on restarts of the controller process
  MaxTimeouts    \* bound on requests the CO stops waiting for

ASSUME ControllerAssumption ==
  /\ None \notin Workers
  /\ MaxFaults \in Nat /\ MaxCrashes \in Nat /\ MaxTimeouts \in Nat

VARIABLES
  \* the handlers' goroutines
  pc,         \* the next call each makes
  op,         \* "create", "delete" or "none"
  key,        \* what it locks: the request's name (create) or volume id (delete)
  vol,        \* the lvol it works on; with the node's name it is the volume id
  todo,       \* getVolume: nodes not yet visited
  left,       \* getVolume: stores of the current node not yet asked
  store,      \* createVolume: the store schedule chose
  \* controllerServer.volumeLocks
  holder,     \* holder[k]: the worker that has the lock of k
  \* requests whose reply was given up and that SPDK may serve later
  late,       \* method and lvol
  lateNew,    \* bdev_lvol_create: store and name
  \* the CO
  bound,      \* bound[n]: the volume id CreateVolume(n) was acknowledged with
  doomed,     \* volumes DeleteVolume was called for
  deleted,    \* volumes whose DeleteVolume was acknowledged
  awaited,    \* workers whose response the CO is waiting for
  \* history
  blind,      \* names whose scan was cut short, or whose creation timed out
  faults, crashes, timeouts

handlers == <<pc, op, key, vol, todo, left, store>>
orchestrator == <<bound, doomed, deleted, awaited>>
vars == <<target, handlers, holder, late, lateNew, orchestrator, blind, faults, crashes, timeouts>>

Keys == Names \cup Lvols

Labels == {"idle", "lock", "scanNode", "scanStore", "schedule", "createCheck", "createLvol",
           "pubExists", "pubListeners", "pubTransport", "pubSubsystem", "pubNs", "pubListener",
           "infoVolume", "infoLvol", "infoStores", "unpExists", "unpListeners", "getNsID",
           "removeNs", "deleteSubsystem", "deleteLvol", "ok", "err"}

TypeOK ==
  /\ TargetTypeOK
  /\ pc \in [Workers -> Labels]
  /\ op \in [Workers -> {"none", "create", "delete"}]
  /\ key \in [Workers -> Keys \cup {None}]
  /\ vol \in [Workers -> Lvols \cup {None}]
  /\ todo \in [Workers -> SUBSET Nodes]
  /\ left \in [Workers -> SUBSET Stores]
  /\ store \in [Workers -> Stores \cup {None}]
  /\ holder \in [Keys -> Workers \cup {None}]
  /\ late \in SUBSET (Methods \X Lvols)
  /\ lateNew \in SUBSET (Stores \X Names)
  /\ bound \in [Names -> Lvols \cup {None}]
  /\ doomed \in SUBSET Lvols
  /\ deleted \in SUBSET Lvols
  /\ awaited \in SUBSET Workers
  /\ blind \in SUBSET Names
  /\ faults \in 0..MaxFaults
  /\ crashes \in 0..MaxCrashes
  /\ timeouts \in 0..MaxTimeouts

Init ==
  /\ TargetInit
  /\ pc = [t \in Workers |-> "idle"]
  /\ op = [t \in Workers |-> "none"]
  /\ key = [t \in Workers |-> None]
  /\ vol = [t \in Workers |-> None]
  /\ todo = [t \in Workers |-> {}]
  /\ left = [t \in Workers |-> {}]
  /\ store = [t \in Workers |-> None]
  /\ holder = [k \in Keys |-> None]
  /\ late = {} /\ lateNew = {}
  /\ bound = [n \in Names |-> None]
  /\ doomed = {} /\ deleted = {} /\ awaited = {} /\ blind = {}
  /\ faults = 0 /\ crashes = 0 /\ timeouts = 0

-----------------------------------------------------------------------------
(* The ways a JSON-RPC ends, and what the handler does next.                 *)

Goto(t, label) == pc' = [pc EXCEPT ![t] = label]

Busy(t) == pc[t] # "idle"

Fault == faults < MaxFaults /\ faults' = faults + 1

(* The process ends: goroutines and locks are gone, and the CO sees its      *)
(* calls fail.                                                               *)
ProcessEnds ==
  /\ pc' = [t \in Workers |-> "idle"]
  /\ op' = [t \in Workers |-> "none"]
  /\ key' = [t \in Workers |-> None]
  /\ vol' = [t \in Workers |-> None]
  /\ todo' = [t \in Workers |-> {}]
  /\ left' = [t \in Workers |-> {}]
  /\ store' = [t \in Workers |-> None]
  /\ holder' = [k \in Keys |-> None]
  /\ awaited' = {}

(* rpcClient.getVolume indexes the result of a call that failed (&result[0]) *)
(* for every error but "No such device": an index out of range that no code  *)
(* recovers from.                                                            *)
Panic ==
  /\ Fault
  /\ ProcessEnds
  /\ UNCHANGED <<target, late, lateNew, bound, doomed, deleted, blind, crashes, timeouts>>

(* A method that changes the target, for the lvol the handler works on. *)
Rpc(t, m, ok, refused, failed) ==
  /\ \/ /\ Serve(m, vol[t])
        /\ Goto(t, ok)
        /\ UNCHANGED <<late, faults>>
     \/ /\ ~Accepts(m, vol[t])
        /\ Goto(t, refused)
        /\ UNCHANGED <<target, late, faults>>
     \/ /\ Fault
        /\ Goto(t, failed)
        /\ \/ Serve(m, vol[t]) /\ UNCHANGED late
           \/ late' = late \cup {<<m, vol[t]>>} /\ UNCHANGED target
  /\ UNCHANGED <<op, key, vol, todo, left, store, holder, lateNew, orchestrator, blind, crashes,
                 timeouts>>

(* A method that only reads. *)
Ask(t, condition, yes, no, failed) ==
  /\ \/ condition /\ Goto(t, yes) /\ UNCHANGED faults
     \/ ~condition /\ Goto(t, no) /\ UNCHANGED faults
     \/ Fault /\ Goto(t, failed)
  /\ UNCHANGED <<target, op, key, vol, todo, left, store, holder, late, lateNew, orchestrator,
                 blind, crashes, timeouts>>

(* bdev_get_bdevs for the lvol the handler works on. *)
LookUp(t, yes, no) ==
  \/ /\ Goto(t, IF Live(vol[t]) THEN yes ELSE no)
     /\ UNCHANGED <<target, op, key, vol, todo, left, store, holder, late, lateNew,
                    orchestrator, blind, faults, crashes, timeouts>>
  \/ Panic

-----------------------------------------------------------------------------
(* The CO.                                                                   *)

Start(t, o, k, l) ==
  /\ pc[t] = "idle"
  /\ ~ \E u \in awaited : key[u] = k
  /\ Goto(t, "lock")
  /\ op' = [op EXCEPT ![t] = o]
  /\ key' = [key EXCEPT ![t] = k]
  /\ vol' = [vol EXCEPT ![t] = l]
  /\ awaited' = awaited \cup {t}
  /\ UNCHANGED <<target, todo, left, store, holder, late, lateNew, bound, deleted, blind,
                 faults, crashes, timeouts>>

(* CreateVolume(n) is sent until it is acknowledged. *)
CallCreateVolume(t, n) ==
  /\ bound[n] = None
  /\ Start(t, "create", n, None)
  /\ UNCHANGED doomed

(* DeleteVolume(l) is sent for a volume the CO knows, until acknowledged. *)
CallDeleteVolume(t, l) ==
  /\ \E n \in Names : bound[n] = l
  /\ l \notin deleted
  /\ Start(t, "delete", l, l)
  /\ doomed' = doomed \cup {l}

TimeOut(t) ==
  /\ t \in awaited
  /\ timeouts < MaxTimeouts
  /\ timeouts' = timeouts + 1
  /\ awaited' = awaited \ {t}
  /\ UNCHANGED <<target, handlers, holder, late, lateNew, bound, doomed, deleted, blind, faults,
                 crashes>>

-----------------------------------------------------------------------------
(* unlock := cs.volumeLocks.Lock(...), see VolumeLocks and KeyedLock.        *)

Lock(t) ==
  /\ pc[t] = "lock"
  /\ holder[key[t]] = None
  /\ holder' = [holder EXCEPT ![key[t]] = t]
  /\ Goto(t, IF op[t] = "create" THEN "scanNode" ELSE "unpExists")
  /\ todo' = [todo EXCEPT ![t] = IF op[t] = "create" THEN Nodes ELSE {}]
  /\ UNCHANGED <<target, op, key, vol, left, store, late, lateNew, orchestrator, blind, faults,
                 crashes, timeouts>>

(* Mutant: the lock is only given back by a handler that succeeds. *)
Unlock_OnSuccessOnly(t) ==
  holder' = IF pc[t] = "ok" THEN [holder EXCEPT ![key[t]] = None] ELSE holder

(* defer unlock() *)
Unlock(t) == holder' = [holder EXCEPT ![key[t]] = None]

(* The handler returns: the deferred unlock runs and the CO, if it still     *)
(* waits, gets the response.  A create is answered with the volume id.       *)
Return(t) ==
  /\ pc[t] \in {"ok", "err"}
  /\ Goto(t, "idle")
  /\ op' = [op EXCEPT ![t] = "none"]
  /\ key' = [key EXCEPT ![t] = None]
  /\ vol' = [vol EXCEPT ![t] = None]
  /\ todo' = [todo EXCEPT ![t] = {}]
  /\ left' = [left EXCEPT ![t] = {}]
  /\ store' = [store EXCEPT ![t] = None]
  /\ Unlock(t)
  /\ awaited' = awaited \ {t}
  /\ bound' = IF t \in awaited /\ pc[t] = "ok" /\ op[t] = "create"
                THEN [bound EXCEPT ![key[t]] = vol[t]] ELSE bound
  /\ deleted' = IF t \in awaited /\ pc[t] = "ok" /\ op[t] = "delete"
                  THEN deleted \cup {vol[t]} ELSE deleted
  /\ UNCHANGED <<target, late, lateNew, doomed, blind, faults, crashes, timeouts>>

-----------------------------------------------------------------------------
(* createVolume: getVolume scans every store of every node for the name; an  *)
(* error of any kind counts as "not found", and a volume is then created.    *)

(* Mutant: the scan stops after the first node. *)
AfterStore_FirstNode(nodes, stores) ==
  IF stores # {} THEN "scanStore" ELSE "schedule"

(* Where getVolume's two loops go next. *)
AfterStore(nodes, stores) ==
  IF stores # {} THEN "scanStore" ELSE IF nodes # {} THEN "scanNode" ELSE "schedule"

(* node.LvStores() of the next node; Go iterates over the map in any order. *)
ScanNode(t) ==
  /\ pc[t] = "scanNode"
  /\ \/ \E nd \in todo[t] :
          LET stores == {s \in Stores : NodeOf[s] = nd} IN
          /\ todo' = [todo EXCEPT ![t] = @ \ {nd}]
          /\ left' = [left EXCEPT ![t] = stores]
          /\ Goto(t, AfterStore(todo[t] \ {nd}, stores))
          /\ UNCHANGED <<faults, blind>>
     \/ /\ Fault
        /\ Goto(t, "schedule")
        /\ blind' = blind \cup {key[t]}
        /\ UNCHANGED <<todo, left>>
  /\ UNCHANGED <<target, op, key, vol, store, holder, late, lateNew, orchestrator, crashes,
                 timeouts>>

(* Mutant: any lvol of the store will do. *)
GetVolume_AnyName(n, s) == {l \in Lvols : Live(l) /\ lvs[l] = s}

(* Mutant: the store is asked with the name alone, which is no alias. *)
GetVolume_NoAlias(n, s) == {}

(* nodeNVMf.GetVolume(lvolName, lvsName): the lvol with the alias lvs/name. *)
GetVolume(n, s) == Alias(s, n)

(* node.GetVolume for the next store of the node. *)
ScanStore(t) ==
  /\ pc[t] = "scanStore"
  /\ \/ \E s \in left[t] :
          /\ \/ /\ \E l \in GetVolume(key[t], s) : vol' = [vol EXCEPT ![t] = l]
                /\ Goto(t, "pubExists")
                /\ UNCHANGED left
             \/ /\ GetVolume(key[t], s) = {}
                /\ left' = [left EXCEPT ![t] = @ \ {s}]
                /\ Goto(t, AfterStore(todo[t], left[t] \ {s}))
                /\ UNCHANGED vol
          /\ UNCHANGED <<target, op, key, todo, store, holder, late, lateNew, orchestrator,
                         blind, faults, crashes, timeouts>>
     \/ Panic

(* Mutant: the error of a failed schedule is ignored. *)
Schedule_IgnoresError(t) ==
  /\ pc[t] = "schedule"
  /\ \/ \E s \in Stores : store' = [store EXCEPT ![t] = s] /\ UNCHANGED faults
     \/ Fault /\ UNCHANGED store
  /\ Goto(t, "createCheck")
  /\ UNCHANGED <<target, op, key, vol, todo, left, holder, late, lateNew, orchestrator, blind,
                 crashes, timeouts>>

(* schedule: the first store, in any order of the nodes, with enough free    *)
(* space.  Free space of thinly provisioned stores is up to their users, so  *)
(* any store may be the one; finding none takes a fault.                     *)
Schedule(t) ==
  /\ pc[t] = "schedule"
  /\ \/ \E s \in Stores :
          /\ store' = [store EXCEPT ![t] = s]
          /\ Goto(t, "createCheck")
          /\ UNCHANGED faults
     \/ /\ Fault
        /\ Goto(t, "err")
        /\ UNCHANGED store
  /\ UNCHANGED <<target, op, key, vol, todo, left, holder, late, lateNew, orchestrator, blind,
                 crashes, timeouts>>

(* nodeNVMf.CreateVolume looks for the alias in the chosen store first, *)
CreateCheck(t) ==
  /\ pc[t] = "createCheck"
  /\ \/ /\ \/ /\ \E l \in Alias(store[t], key[t]) : vol' = [vol EXCEPT ![t] = l]
              /\ Goto(t, "pubExists")
           \/ /\ Alias(store[t], key[t]) = {}
              /\ Goto(t, "createLvol")
              /\ UNCHANGED vol
        /\ UNCHANGED <<target, op, key, todo, left, store, holder, late, lateNew, orchestrator,
                       blind, faults, crashes, timeouts>>
     \/ Panic

(* and then creates the lvol.  When the call fails nothing is undone. *)
CreateLvol(t) ==
  LET s == store[t]
      n == key[t]
  IN
  /\ pc[t] = "createLvol"
  /\ \/ \E l \in Lvols :
          /\ ServeCreate(s, n, l)
          /\ vol' = [vol EXCEPT ![t] = l]
          /\ Goto(t, "pubExists")
          /\ UNCHANGED <<lateNew, blind, faults>>
     \/ /\ ~AcceptsCreate(s, n)
        /\ Goto(t, "err")
        /\ UNCHANGED <<target, vol, lateNew, blind, faults>>
     \/ /\ Fault
        /\ Goto(t, "err")
        /\ \/ (\E l \in Lvols : ServeCreate(s, n, l)) /\ UNCHANGED <<lateNew, blind>>
           \/ /\ lateNew' = lateNew \cup {<<s, n>>}
              /\ blind' = blind \cup {n}
              /\ UNCHANGED target
           \/ UNCHANGED <<target, lateNew, blind>>    \* "No space left"
        /\ UNCHANGED vol
  /\ UNCHANGED <<op, key, todo, left, store, holder, late, orchestrator, crashes, timeouts>>

-----------------------------------------------------------------------------
(* publishVolume: nodeNVMf.PublishVolume, then VolumeInfo.  When either      *)
(* fails, CreateVolume deletes the volume: all error paths end in deleteLvol.*)

PubExists(t) == pc[t] = "pubExists" /\ LookUp(t, "pubListeners", "deleteLvol")

(* Mutant: an already published volume is published again. *)
PubListeners_Again(t) ==
  /\ pc[t] = "pubListeners"
  /\ Ask(t, TRUE, "pubTransport", "pubTransport", "deleteLvol")

(* isVolumePublished: an unknown nqn (Invalid parameters) is "not published". *)
PubListeners(t) ==
  /\ pc[t] = "pubListeners"
  /\ Ask(t, Published(vol[t]), "infoVolume", "pubTransport", "deleteLvol")

(* A new node object per request: the transCreated fast path never applies;  *)
(* "already exists" is no error.                                             *)
PubTransport(t) ==
  /\ pc[t] = "pubTransport"
  /\ Rpc(t, "nvmf_create_transport", "pubSubsystem", "pubSubsystem", "deleteLvol")

(* Mutant: a volume that cannot be published is left as it is. *)
PubSubsystem_NoDelete(t) ==
  /\ pc[t] = "pubSubsystem"
  /\ Rpc(t, "nvmf_create_subsystem", "pubNs", "err", "err")

PubSubsystem(t) ==
  /\ pc[t] = "pubSubsystem"
  /\ Rpc(t, "nvmf_create_subsystem", "pubNs", "deleteLvol", "deleteLvol")

PubNs(t) ==
  /\ pc[t] = "pubNs"
  /\ Rpc(t, "nvmf_subsystem_add_ns", "pubListener", "deleteSubsystem", "deleteSubsystem")

PubListener(t) ==
  /\ pc[t] = "pubListener"
  /\ Rpc(t, "nvmf_subsystem_add_listener", "infoVolume", "getNsID", "getNsID")

(* VolumeInfo: getVolume, then getLvstore, which is getVolume and lvStores. *)
InfoVolume(t) == pc[t] = "infoVolume" /\ LookUp(t, "infoLvol", "unpExists")

InfoLvol(t) == pc[t] = "infoLvol" /\ LookUp(t, "infoStores", "unpExists")

InfoStores(t) == pc[t] = "infoStores" /\ Ask(t, TRUE, "ok", "ok", "unpExists")

-----------------------------------------------------------------------------
(* UnpublishVolume, called by DeleteVolume and by publishVolume's error path *)
(* (which goes on to deleteLvol whatever the outcome).  From getNsID on it   *)
(* shares its steps with the roll-back of PublishVolume.                     *)

(* Mutant: the volume is deleted without being unpublished. *)
UnpExists_SkipUnpublish(t) ==
  /\ pc[t] = "unpExists"
  /\ LookUp(t, "deleteLvol", IF op[t] = "delete" THEN "ok" ELSE "deleteLvol")

UnpExists(t) ==
  /\ pc[t] = "unpExists"
  /\ LookUp(t, "unpListeners", IF op[t] = "delete" THEN "ok" ELSE "deleteLvol")

UnpListeners(t) ==
  /\ pc[t] = "unpListeners"
  /\ Ask(t, Published(vol[t]), "getNsID", "deleteLvol",
         IF op[t] = "delete" THEN "err" ELSE "deleteLvol")

(* subsystemRemoveNs: nvmf_get_subsystems for the namespace's id, then the   *)
(* removal; its errors are only logged.                                      *)
GetNsID(t) ==
  /\ pc[t] = "getNsID"
  /\ Ask(t, "namespace" \in export[vol[t]], "removeNs", "deleteSubsystem", "deleteSubsystem")

RemoveNs(t) ==
  /\ pc[t] = "removeNs"
  /\ Rpc(t, "nvmf_subsystem_remove_ns", "deleteSubsystem", "deleteSubsystem", "deleteSubsystem")

DeleteSubsystem(t) ==
  LET onError == IF op[t] = "delete" THEN "err" ELSE "deleteLvol" IN
  /\ pc[t] = "deleteSubsystem"
  /\ Rpc(t, "nvmf_delete_subsystem", "deleteLvol", onError, onError)

(* Mutant: DeleteVolume, too, ignores how the deletion ends. *)
DeleteLvol_IgnoresError(t) ==
  LET done == IF op[t] = "delete" THEN "ok" ELSE "err" IN
  /\ pc[t] = "deleteLvol"
  /\ Rpc(t, "bdev_lvol_delete", done, done, done)

(* deleteVolume: in DeleteVolume "No such device" is success; CreateVolume   *)
(* ignores the outcome and returns the error it came with.                   *)
DeleteLvol(t) ==
  LET done == IF op[t] = "delete" THEN "ok" ELSE "err" IN
  /\ pc[t] = "deleteLvol"
  /\ Rpc(t, "bdev_lvol_delete", done, done, "err")

-----------------------------------------------------------------------------
(* The environment: a request that was given up is served after all; the     *)
(* process is killed; nothing is left to do.                                 *)

ServeLate ==
  /\ \/ \E c \in late :
          /\ late' = late \ {c}
          /\ Serve(c[1], c[2]) \/ (~Accepts(c[1], c[2]) /\ UNCHANGED target)
          /\ UNCHANGED lateNew
     \/ \E c \in lateNew :
          /\ lateNew' = lateNew \ {c}
          /\ \/ \E l \in Lvols : ServeCreate(c[1], c[2], l)
             \/ ~AcceptsCreate(c[1], c[2]) /\ UNCHANGED target
          /\ UNCHANGED late
  /\ UNCHANGED <<handlers, holder, orchestrator, blind, faults, crashes, timeouts>>

Crash ==
  /\ crashes < MaxCrashes
  /\ \E t \in Workers : Busy(t)
  /\ crashes' = crashes + 1
  /\ ProcessEnds
  /\ UNCHANGED <<target, late, lateNew, bound, doomed, deleted, blind, faults, timeouts>>

Quiescent ==
  /\ \A t \in Workers : ~Busy(t)
  /\ \A n \in Names : bound[n] \in deleted
  /\ UNCHANGED vars

Step(t) ==
  \/ Lock(t) \/ Return(t)
  \/ ScanNode(t) \/ ScanStore(t) \/ Schedule(t) \/ CreateCheck(t) \/ CreateLvol(t)
  \/ PubExists(t) \/ PubListeners(t) \/ PubTransport(t) \/ PubSubsystem(t) \/ PubNs(t)
  \/ PubListener(t) \/ InfoVolume(t) \/ InfoLvol(t) \/ InfoStores(t)
  \/ UnpExists(t) \/ UnpListeners(t) \/ GetNsID(t) \/ RemoveNs(t) \/ DeleteSubsystem(t)
  \/ DeleteLvol(t)

Next ==
  \/ \E t \in Workers :
       \/ \E n \in Names : CallCreateVolume(t, n)
       \/ \E l \in Lvols : CallDeleteVolume(t, l)
       \/ TimeOut(t)
       \/ Step(t)
  \/ ServeLate \/ Crash \/ Quiescent

Spec == Init /\ [][Next]_vars

(* A goroutine that can run does run, and a waiter on a mutex gets it in the *)
(* end (VolumeLocks).  The CO goes on sending a request until it is          *)
(* acknowledged.  A late request may never be served, and the CO need not    *)
(* delete what it created: ServeLate, TimeOut and the first                  *)
(* CallDeleteVolume have no fairness.                                        *)
Fairness ==
  /\ \A t \in Workers : WF_vars(Step(t)) /\ SF_vars(Lock(t))
  /\ \A n \in Names : WF_vars(\E t \in Workers : CallCreateVolume(t, n))
  /\ \A l \in Lvols : WF_vars(\E t \in Workers : l \in doomed /\ CallDeleteVolume(t, l))

FairSpec == Spec /\ Fairness

-----------------------------------------------------------------------------
(* Properties.                                                               *)

(* CreateVolume is idempotent across retries, restarts and overlapping       *)
(* calls: a name never has two live lvols, on whichever nodes, unless a scan *)
(* for that name was cut short by a failing node or a creation that the      *)
(* driver gave up was served later.                                          *)
OneVolumePerName ==
  \A n \in Names \ blind : \A l, m \in Lvols :
    Live(l) /\ Live(m) /\ lvname[l] = n /\ lvname[m] = n => l = m

(* The id CreateVolume(n) is acknowledged with is an lvol created under the  *)
(* name n, so two requests never get the same volume.                        *)
AckedIsOfItsName ==
  \A n \in Names : bound[n] # None => status[bound[n]] # "unborn" /\ lvname[bound[n]] = n

(* As long as every JSON-RPC is answered, a volume that was acknowledged and *)
(* that nobody asked to delete is live and completely exported, whatever     *)
(* abandoned handlers for the same name still do and whenever the process    *)
(* is restarted: no roll-back ever hits it.                                  *)
AckedIsUsable ==
  faults = 0 =>
    \A n \in Names : bound[n] # None /\ bound[n] \notin doomed =>
      Live(bound[n]) /\ Exported(bound[n])

(* A volume whose DeleteVolume was acknowledged does not exist and is never  *)
(* served to a host again, late requests included.                           *)
DeletedIsGone ==
  \A l \in deleted : status[l] = "gone" /\ "namespace" \notin export[l]

(* No garbage: once CreateVolume(n) was acknowledged, no lvol of that name   *)
(* exists but the acknowledged one, so that after its deletion none does     *)
(* (for a CO that does not overlap its calls, and a name no scan was cut     *)
(* short for).                                                               *)
NoOrphanLvol ==
  timeouts = 0 =>
    \A n \in Names \ blind : bound[n] # None =>
      \A l \in Lvols : Live(l) /\ lvname[l] = n => l = bound[n]

(* Without failures, when no handler works on an lvol its subsystem is       *)
(* complete if the lvol is live and absent if it is not: nothing of an       *)
(* export outlives its volume, and no volume stays half exported.            *)
ExportsMatchLvols ==
  faults = 0 /\ crashes = 0 /\ timeouts = 0 =>
    \A l \in Lvols : (\A t \in Workers : vol[t] # l) =>
      export[l] = IF Live(l) THEN Parts ELSE {}

(* The handlers use volumeLocks as KeyedLock prescribes: a handler asks for  *)
(* one lock, waits for it holding none, and has released it when it returns. *)
Locks == INSTANCE KeyedLock WITH
  Clients <- Workers, Ids <- Keys,
  want <- [t \in Workers |-> IF pc[t] = "lock" THEN key[t] ELSE None]

UsesKeyedLock == Locks!Spec

(* Every volume that is requested is provisioned in the end, and every       *)
(* deletion is acknowledged: no sequence of failures, restarts and retries   *)
(* leaves a volume in a state from which retrying does not help.             *)
CallsAreAcked ==
  /\ \A n \in Names : <>(bound[n] # None)
  /\ \A l \in Lvols : l \in doomed ~> l \in deleted

-----------------------------------------------------------------------------
(* What the repository says and the code does not keep.                      *)

(* jsonrpc.go: the caller must serialize PublishVolume, UnpublishVolume and  *)
(* DeleteVolume calls to the same volume.                                    *)
InNodeCall(t) ==
  pc[t] \in {"pubExists", "pubListeners", "pubTransport", "pubSubsystem", "pubNs",
             "pubListener", "unpExists", "unpListeners", "getNsID", "removeNs",
             "deleteSubsystem", "deleteLvol"}

SerializedPerVolume ==
  \A t, u \in Workers : t # u /\ InNodeCall(t) /\ InNodeCall(u) => vol[t] # vol[u]

(* controllerserver.go: getVolume checks all nodes to see if the volume has  *)
(* already been created.                                                     *)
NoDuplicate ==
  \A l, m \in Lvols : Live(l) /\ Live(m) /\ lvname[l] = lvname[m] => l = m

(* jsonrpc.go: repeated and out of order messages do no damage to data: an   *)
(* acknowledged volume that nobody asked to delete still exists.             *)
AckedSurvives ==
  \A n \in Names : bound[n] # None /\ bound[n] \notin doomed => Live(bound[n])
=============================================================================
