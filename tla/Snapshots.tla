------------------------------ MODULE Snapshots ------------------------------
(* Snapshots and clones: CreateSnapshot, DeleteSnapshot, CreateVolume from a *)
(* snapshot and DeleteVolume of pkg/spdk/controllerserver.go on one lvstore, *)
(* the only one these calls touch, since a snapshot and its clones live      *)
(* where their source lives.  The storage node is of either kind; nvmf.go    *)
(* and iscsi.go make the same calls here and differ in what VolumeInfo       *)
(* returns.  Exporting a volume is one step: Controller and IscsiTarget have *)
(* its detail.  Faults, restarts and abandoned calls are those of Controller.*)
(*                                                                           *)
(* Environment.  The volume Source exists and its user goes on writing.  The *)
(* orchestrator (CO) never reuses a name, does not delete a volume while a   *)
(* snapshot of it is pending, nor a snapshot while a volume is being created *)
(* from it.                                                                  *)
EXTENDS Naturals, FiniteSets

CONSTANTS
  Workers,       \* goroutines
  SnapNames,     \* names of snapshots the CO asks for
  CloneNames,    \* names of volumes it creates from snapshots
  None,
  MaxLvols,      \* bound on lvols ever created, the source not counted
  MaxWrites,     \* bound on the versions of the source's data
  MaxFaults,     \* bound on JSON-RPCs that fail and restarts of the process
  MaxTimeouts    \* bound on calls the CO stops waiting for

Names == SnapNames \cup CloneNames
Lvols == 0..MaxLvols
Source == 0
Keys == Names \cup Lvols

ASSUME SnapshotsAssumption ==
  /\ None \notin Workers \cup Names \cup Nat
  /\ SnapNames \cap CloneNames = {} /\ Names \cap Nat = {}
  /\ MaxLvols \in Nat /\ MaxWrites \in Nat
  /\ MaxFaults \in Nat /\ MaxTimeouts \in Nat

VARIABLES
  backend,    \* nvmf or iscsi
  \* the lvstore
  born,       \* lvols 0..born have been created
  live,       \* and these still exist
  lvname,     \* lvname[l]: the name in its alias
  base,       \* base[l]: the snapshot l is a clone of
  data,       \* data[l]: the version of the source's data it holds
  late,       \* requests given up that SPDK may serve later: method, lvol, new name
  \* the handlers' goroutines
  pc, op,
  req,        \* the name (create) or id (delete) the request is about
  vol,        \* the lvol the handler works on
  holder,     \* volumeLocks
  \* the CO
  bound,      \* bound[n]: the id the creation of n was acknowledged with
  from,       \* from[n]: the snapshot that volume n is created from
  asOf,       \* asOf[n]: the version of the data when snapshot n was first asked for
  doomed, deleted, awaited,
  \* history
  stray,      \* names with a call that was abandoned, or a request that was given up
  unsure,     \* snapshots whose deletion was requested from SPDK without a reply
  faults, timeouts

lvstore == <<born, live, lvname, base, data>>
handlers == <<pc, op, req, vol>>
orchestrator == <<bound, from, asOf, doomed, deleted, awaited>>
history == <<stray, unsure, faults, timeouts>>
vars == <<backend, lvstore, late, handlers, holder, orchestrator, history>>

Ops == {"createSnapshot", "deleteSnapshot", "createVolume", "deleteVolume"}

Labels == {"idle", "lock", "getLvstore", "snapCheck", "snapshot", "volumeInfo", "deleteSnapshot",
           "scan", "snapshotInfo", "cloneCheck", "clone", "publish", "rollBack", "unpublish",
           "deleteVolume", "ok", "err"}

TypeOK ==
  /\ backend \in {"nvmf", "iscsi"}
  /\ born \in Lvols
  /\ live \in SUBSET Lvols
  /\ lvname \in [Lvols -> Names \cup {None}]
  /\ base \in [Lvols -> Lvols \cup {None}]
  /\ data \in [Lvols -> (0..MaxWrites) \cup {None}]
  /\ late \in SUBSET ({"snapshot", "clone", "delete"} \X Lvols \X (Names \cup {None}))
  /\ pc \in [Workers -> Labels]
  /\ op \in [Workers -> Ops \cup {"none"}]
  /\ req \in [Workers -> Keys \cup {None}]
  /\ vol \in [Workers -> Lvols \cup {None}]
  /\ holder \in [Keys -> Workers \cup {None}]
  /\ bound \in [Names -> Lvols \cup {None}]
  /\ from \in [CloneNames -> Lvols \cup {None}]
  /\ asOf \in [SnapNames -> (0..MaxWrites) \cup {None}]
  /\ doomed \in SUBSET Lvols /\ deleted \in SUBSET Lvols
  /\ awaited \in SUBSET Workers
  /\ stray \in SUBSET Names /\ unsure \in SUBSET Lvols
  /\ faults \in 0..MaxFaults /\ timeouts \in 0..MaxTimeouts

Init ==
  /\ backend \in {"nvmf", "iscsi"}
  /\ born = Source /\ live = {Source}
  /\ lvname = [l \in Lvols |-> None]
  /\ base = [l \in Lvols |-> None]
  /\ data = [l \in Lvols |-> IF l = Source THEN 0 ELSE None]
  /\ late = {}
  /\ pc = [t \in Workers |-> "idle"]
  /\ op = [t \in Workers |-> "none"]
  /\ req = [t \in Workers |-> None]
  /\ vol = [t \in Workers |-> None]
  /\ holder = [k \in Keys |-> None]
  /\ bound = [n \in Names |-> None]
  /\ from = [n \in CloneNames |-> None]
  /\ asOf = [n \in SnapNames |-> None]
  /\ doomed = {} /\ deleted = {} /\ awaited = {}
  /\ stray = {} /\ unsure = {}
  /\ faults = 0 /\ timeouts = 0

-----------------------------------------------------------------------------
(* SPDK: bdev_lvol_snapshot, bdev_lvol_clone and bdev_lvol_delete.           *)

Named(n) == {l \in live : lvname[l] = n}

Dependants(l) == {m \in live : base[m] = l}

(* A name is taken only once per lvstore; a snapshot with more than one      *)
(* dependant is not deleted.                                                 *)
Accepts(m, l, n) ==
  /\ l \in live
  /\ IF m = "delete" THEN Cardinality(Dependants(l)) <= 1
                     ELSE Named(n) = {} /\ born < MaxLvols

(* A new lvol with the data of l.  The snapshot of a volume comes between    *)
(* the volume and what it depended on.                                       *)
ServeNew(m, l, n) ==
  LET new == born + 1 IN
  /\ born' = new
  /\ live' = live \cup {new}
  /\ lvname' = [lvname EXCEPT ![new] = n]
  /\ data' = [data EXCEPT ![new] = data[l]]
  /\ base' = IF m = "snapshot" THEN [base EXCEPT ![new] = base[l], ![l] = new]
                               ELSE [base EXCEPT ![new] = l]

(* What depended on l depends on what l depended on. *)
ServeDelete(l) ==
  /\ live' = live \ {l}
  /\ base' = [m \in Lvols |-> IF base[m] = l THEN base[l] ELSE base[m]]
  /\ UNCHANGED <<born, lvname, data>>

Serve(m, l, n) ==
  /\ Accepts(m, l, n)
  /\ IF m = "delete" THEN ServeDelete(l) ELSE ServeNew(m, l, n)

-----------------------------------------------------------------------------
Goto(t, label) == pc' = [pc EXCEPT ![t] = label]

Busy(t) == pc[t] # "idle"

Fault == faults < MaxFaults /\ faults' = faults + 1

Stays == UNCHANGED <<backend, op, req, holder, orchestrator, timeouts>>

(* The process ends: goroutines and locks are gone. *)
ProcessEnds ==
  /\ pc' = [t \in Workers |-> "idle"]
  /\ op' = [t \in Workers |-> "none"]
  /\ req' = [t \in Workers |-> None]
  /\ vol' = [t \in Workers |-> None]
  /\ holder' = [k \in Keys |-> None]
  /\ awaited' = {}
  /\ unsure' = unsure \cup {req[t] : t \in {u \in Workers : op[u] = "deleteSnapshot"}}
  /\ UNCHANGED <<backend, lvstore, late, bound, from, asOf, doomed, deleted, stray, timeouts>>

(* rpcClient.getVolume panics when its call fails (see Controller). *)
Panic == Fault /\ ProcessEnds

(* The handler goes on to label with the lvol l. *)
Proceed(t, label, l) ==
  /\ Goto(t, label)
  /\ vol' = [vol EXCEPT ![t] = l]
  /\ UNCHANGED <<lvstore, late, stray, unsure>>
  /\ Stays

(* getVolume of an lvol's id, and lvStores, whose failure leads to failed. *)
Query(t, condition, yes, no, failed) ==
  \/ Proceed(t, IF condition THEN yes ELSE no, vol[t]) /\ UNCHANGED faults
  \/ Proceed(t, failed, vol[t]) /\ Fault
  \/ Panic

(* Mutant: the alias is not looked up. *)
Lookup_Never(n) == {}

(* The lvol with the alias lvs/n. *)
Lookup(n) == Named(n)

(* getVolume of the alias of the request's name. *)
FindName(t, found, notFound) ==
  \/ /\ \/ \E l \in Lookup(req[t]) : Proceed(t, found, l)
        \/ Lookup(req[t]) = {} /\ Proceed(t, notFound, None)
     /\ UNCHANGED faults
  \/ Panic

(* A method that changes the lvstore.  A creation puts the new lvol's id     *)
(* into vol.  When no reply arrives the request is served, served later, or  *)
(* never.                                                                    *)
Rpc(t, m, l, n, ok, refused, failed) ==
  /\ \/ /\ Serve(m, l, n)
        /\ vol' = [vol EXCEPT ![t] = IF m = "delete" THEN @ ELSE born']
        /\ Goto(t, ok)
        /\ UNCHANGED <<late, stray, unsure, faults>>
     \/ /\ ~Accepts(m, l, n)
        /\ Goto(t, refused)
        /\ UNCHANGED <<lvstore, late, vol, stray, unsure, faults>>
     \/ /\ Fault
        /\ Goto(t, failed)
        /\ unsure' = IF op[t] = "deleteSnapshot" THEN unsure \cup {l} ELSE unsure
        /\ \/ Serve(m, l, n) /\ UNCHANGED <<late, stray>>
           \/ /\ late' = late \cup {<<m, l, n>>}
              /\ stray' = stray \cup ({req[t]} \cap Names)
              /\ UNCHANGED lvstore
        /\ UNCHANGED vol
  /\ Stays

-----------------------------------------------------------------------------
(* The CO and the user of the source.                                        *)

Start(t, o, r) ==
  /\ pc[t] = "idle"
  /\ \A u \in awaited : req[u] # r
  /\ Goto(t, "lock")
  /\ op' = [op EXCEPT ![t] = o]
  /\ req' = [req EXCEPT ![t] = r]
  /\ awaited' = awaited \cup {t}
  /\ UNCHANGED <<backend, lvstore, late, vol, holder, bound, deleted, history>>

Pending(n) == bound[n] = None /\ IF n \in SnapNames THEN asOf[n] # None ELSE from[n] # None

CallCreateSnapshot(t, n) ==
  /\ bound[n] = None
  /\ Source \notin doomed
  /\ Start(t, "createSnapshot", n)
  /\ asOf' = [asOf EXCEPT ![n] = IF @ = None THEN data[Source] ELSE @]
  /\ UNCHANGED <<from, doomed>>

CallDeleteSnapshot(t, n) ==
  /\ bound[n] \notin deleted \cup {None}
  /\ \A c \in CloneNames : Pending(c) => from[c] # bound[n]
  /\ Start(t, "deleteSnapshot", bound[n])
  /\ doomed' = doomed \cup {bound[n]}
  /\ UNCHANGED <<from, asOf>>

CallCreateVolume(t, c, n) ==
  /\ bound[c] = None
  /\ bound[n] \notin doomed \cup {None}
  /\ from[c] \in {None, bound[n]}
  /\ Start(t, "createVolume", c)
  /\ from' = [from EXCEPT ![c] = bound[n]]
  /\ UNCHANGED <<asOf, doomed>>

CallDeleteVolume(t, l) ==
  /\ l \in {Source} \cup {bound[c] : c \in CloneNames}
  /\ l \notin deleted
  /\ l = Source => ~ \E n \in SnapNames : Pending(n)
  /\ Start(t, "deleteVolume", l)
  /\ doomed' = doomed \cup {l}
  /\ UNCHANGED <<from, asOf>>

TimeOut(t) ==
  /\ t \in awaited
  /\ timeouts < MaxTimeouts
  /\ timeouts' = timeouts + 1
  /\ awaited' = awaited \ {t}
  /\ stray' = stray \cup ({req[t]} \cap Names)
  /\ unsure' = IF op[t] = "deleteSnapshot" THEN unsure \cup {req[t]} ELSE unsure
  /\ UNCHANGED <<backend, lvstore, late, handlers, holder, bound, from, asOf, doomed, deleted,
                 faults>>

UserWrites ==
  /\ Source \in live \ doomed
  /\ data[Source] < MaxWrites
  /\ data' = [data EXCEPT ![Source] = @ + 1]
  /\ UNCHANGED <<backend, born, live, lvname, base, late, handlers, holder, orchestrator, history>>

-----------------------------------------------------------------------------
(* Where a handler goes once it has its lock. *)
FirstLabel(o) ==
  IF o = "createSnapshot" THEN "getLvstore"
  ELSE IF o = "deleteSnapshot" THEN "deleteSnapshot"
  ELSE IF o = "createVolume" THEN "scan"
  ELSE "unpublish"

(* CreateSnapshot locks the source's id, the others what they are called for.*)
KeyOf(t) == IF op[t] = "createSnapshot" THEN Source ELSE req[t]

Lock(t) ==
  /\ pc[t] = "lock"
  /\ holder[KeyOf(t)] = None
  /\ holder' = [holder EXCEPT ![KeyOf(t)] = t]
  /\ Goto(t, FirstLabel(op[t]))
  /\ UNCHANGED <<backend, lvstore, late, op, req, vol, orchestrator, history>>

(* The deferred unlock, and the response if the CO still waits for it. *)
Return(t) ==
  LET acked == t \in awaited /\ pc[t] = "ok" IN
  /\ pc[t] \in {"ok", "err"}
  /\ Goto(t, "idle")
  /\ op' = [op EXCEPT ![t] = "none"]
  /\ req' = [req EXCEPT ![t] = None]
  /\ vol' = [vol EXCEPT ![t] = None]
  /\ holder' = [holder EXCEPT ![KeyOf(t)] = None]
  /\ awaited' = awaited \ {t}
  /\ bound' = IF acked /\ req[t] \in Names THEN [bound EXCEPT ![req[t]] = vol[t]] ELSE bound
  /\ deleted' = IF acked /\ req[t] \in Lvols THEN deleted \cup {req[t]} ELSE deleted
  /\ UNCHANGED <<backend, lvstore, late, from, asOf, doomed, history>>

-----------------------------------------------------------------------------
(* CreateSnapshot: the node's CreateSnapshot asks for the source's store,    *)
GetLvstore(t) ==
  /\ pc[t] = "getLvstore"
  /\ Query(t, Source \in live, "snapCheck", "err", "err")

(* Mutant: a repeated request is answered with the source's id. *)
SnapCheck_ReturnsSource(t) ==
  /\ pc[t] = "snapCheck"
  /\ \/ Lookup(req[t]) # {} /\ Proceed(t, "volumeInfo", Source) /\ UNCHANGED faults
     \/ Lookup(req[t]) = {} /\ Proceed(t, "snapshot", None) /\ UNCHANGED faults

(* takes a snapshot of that name if there is one,                            *)
SnapCheck(t) == pc[t] = "snapCheck" /\ FindName(t, "volumeInfo", "snapshot")

(* Mutant: the two string arguments of rpcClient.snapshot are swapped. *)
Snapshot_Swapped(t) ==
  /\ pc[t] = "snapshot"
  /\ Rpc(t, "snapshot", req[t], Source, "volumeInfo", "err", "err")

(* and makes it if not.                                                      *)
Snapshot(t) ==
  /\ pc[t] = "snapshot"
  /\ Rpc(t, "snapshot", Source, req[t], "volumeInfo", "err", "err")

(* The controller then parses lvolSize of VolumeInfo(source), which an iSCSI *)
(* node does not report: the snapshot is there and the call fails.           *)
VolumeInfo(t) ==
  /\ pc[t] = "volumeInfo"
  /\ Query(t, Source \in live, IF backend = "nvmf" THEN "ok" ELSE "err", "err", "err")

(* Mutant: how the deletion ends is ignored. *)
DeleteSnapshot_IgnoresError(t) ==
  /\ pc[t] = "deleteSnapshot"
  /\ Rpc(t, "delete", req[t], None, "ok", "ok", "ok")

(* Mutant: a snapshot that something depends on is not deleted. *)
DeleteSnapshot_NotInUse(t) ==
  /\ pc[t] = "deleteSnapshot"
  /\ \/ Dependants(req[t]) = {} /\ Rpc(t, "delete", req[t], None, "ok", "err", "err")
     \/ Dependants(req[t]) # {} /\ Proceed(t, "err", None) /\ UNCHANGED faults

(* DeleteSnapshot is the node's DeleteVolume and nothing else: that the      *)
(* snapshot is gone already is an error.                                     *)
DeleteSnapshot(t) ==
  /\ pc[t] = "deleteSnapshot"
  /\ Rpc(t, "delete", req[t], None, "ok", "err", "err")

-----------------------------------------------------------------------------
(* CreateVolume with a snapshot as content source: the scan for the name, in *)
(* which a failing lvStores means "not found";                               *)
Scan(t) ==
  /\ pc[t] = "scan"
  /\ \/ FindName(t, "publish", "snapshotInfo")
     \/ Proceed(t, "snapshotInfo", None) /\ Fault

(* getSnapshotInfo: VolumeInfo of the snapshot, for its store;               *)
SnapshotInfo(t) ==
  /\ pc[t] = "snapshotInfo"
  /\ Query(t, from[req[t]] \in live, "cloneCheck", "err", "err")

(* CloneVolume: the alias once more, in the snapshot's store,                *)
CloneCheck(t) == pc[t] = "cloneCheck" /\ FindName(t, "publish", "clone")

(* Mutant: the volume is cloned, not its snapshot. *)
Clone_OfSource(t) ==
  /\ pc[t] = "clone"
  /\ Rpc(t, "clone", Source, req[t], "publish", "err", "err")

(* and the clone.                                                            *)
Clone(t) ==
  /\ pc[t] = "clone"
  /\ Rpc(t, "clone", from[req[t]], req[t], "publish", "err", "err")

(* publishVolume; when it fails CreateVolume deletes the volume,             *)
Publish(t) ==
  /\ pc[t] = "publish"
  /\ Query(t, vol[t] \in live, "ok", "rollBack", "rollBack")

(* Mutant: what is deleted is sourceLvolID instead of lvolID. *)
RollBack_Snapshot(t) ==
  /\ pc[t] = "rollBack"
  /\ Rpc(t, "delete", from[req[t]], None, "err", "err", "err")

(* ignoring how that ends.                                                   *)
RollBack(t) ==
  /\ pc[t] = "rollBack"
  /\ Rpc(t, "delete", vol[t], None, "err", "err", "err")

(* DeleteVolume of a volume: unpublishVolume, which knows when it is gone,   *)
Unpublish(t) ==
  /\ pc[t] = "unpublish"
  /\ Query(t, req[t] \in live, "deleteVolume", "ok", "err")

(* and deleteVolume, where "No such device" is success.                      *)
DeleteVolume(t) ==
  /\ pc[t] = "deleteVolume"
  /\ Rpc(t, "delete", req[t], None, "ok", IF req[t] \in live THEN "err" ELSE "ok", "err")

-----------------------------------------------------------------------------
ServeLate ==
  \E c \in late :
    /\ late' = late \ {c}
    /\ \/ Serve(c[1], c[2], c[3])
       \/ ~Accepts(c[1], c[2], c[3]) /\ UNCHANGED lvstore
    /\ UNCHANGED <<backend, handlers, holder, orchestrator, history>>

Crash ==
  /\ \E t \in Workers : Busy(t)
  /\ Fault
  /\ ProcessEnds

(* Nothing is left to ask for. *)
Quiescent ==
  /\ \A t \in Workers : ~Busy(t)
  /\ Source \in deleted
  /\ \A n \in Names : bound[n] \in deleted \cup {None}
  /\ UNCHANGED vars

Step(t) ==
  \/ Lock(t) \/ Return(t)
  \/ GetLvstore(t) \/ SnapCheck(t) \/ Snapshot(t) \/ VolumeInfo(t) \/ DeleteSnapshot(t)
  \/ Scan(t) \/ SnapshotInfo(t) \/ CloneCheck(t) \/ Clone(t) \/ Publish(t) \/ RollBack(t)
  \/ Unpublish(t) \/ DeleteVolume(t)

Next ==
  \/ \E t \in Workers :
       \/ \E n \in SnapNames : CallCreateSnapshot(t, n) \/ CallDeleteSnapshot(t, n)
       \/ \E c \in CloneNames, n \in SnapNames : CallCreateVolume(t, c, n)
       \/ \E l \in Lvols : CallDeleteVolume(t, l)
       \/ TimeOut(t)
       \/ Step(t)
  \/ UserWrites \/ ServeLate \/ Crash \/ Quiescent

Spec == Init /\ [][Next]_vars

(* As in Controller: goroutines run, mutexes are granted in the end, and the *)
(* CO repeats what it once asked for.                                        *)
Fairness ==
  /\ \A t \in Workers : WF_vars(Step(t)) /\ SF_vars(Lock(t))
  /\ \A n \in SnapNames :
       /\ WF_vars(\E t \in Workers : Pending(n) /\ CallCreateSnapshot(t, n))
       /\ WF_vars(\E t \in Workers : bound[n] \in doomed /\ CallDeleteSnapshot(t, n))
  /\ \A c \in CloneNames :
       WF_vars(\E t \in Workers, n \in SnapNames : Pending(c) /\ CallCreateVolume(t, c, n))
  /\ \A l \in Lvols : WF_vars(\E t \in Workers : l \in doomed /\ CallDeleteVolume(t, l))

FairSpec == Spec /\ Fairness

-----------------------------------------------------------------------------
(* Properties.                                                               *)

(* A snapshot holds the data of a moment between the first request for it    *)
(* and its acknowledgement, however often the request was repeated and what  *)
(* became of the attempts; a volume created from a snapshot holds that data. *)
RestoresWhatWasSnapshotted ==
  /\ \A n \in SnapNames : bound[n] # None =>
       data[bound[n]] >= asOf[n] /\ data[bound[n]] <= data[Source]
  /\ \A c \in CloneNames : bound[c] # None => data[bound[c]] = data[from[c]]

(* An acknowledged snapshot exists until its deletion is asked for, whatever *)
(* happens to its source and to the volumes created from it, abandoned calls *)
(* and late requests included; so does a clone, unless a call for it was     *)
(* abandoned or a request given up, which may roll it back.                  *)
AckedExists ==
  \A n \in Names \ (stray \cap CloneNames) :
    bound[n] \notin doomed \cup {None} => bound[n] \in live

(* What a creation was acknowledged with is the only lvol of its name:       *)
(* repeating the call finds what an earlier attempt made, and nothing is     *)
(* left behind when the CO has deleted it.  An abandoned CreateSnapshot is   *)
(* the exception: it may get the lock after the deletion and make the        *)
(* snapshot again.                                                           *)
NoOrphan == \A n \in Names \ stray : bound[n] # None => Named(n) \subseteq {bound[n]}

(* What the CO was told is deleted does not exist, late requests included.   *)
DeletedIsGone == deleted \cap live = {}

(* Repeated calls to create a snapshot, or a volume from one, succeed in the *)
(* end; except that on an iSCSI node no CreateSnapshot ever does.            *)
CreationIsAcked ==
  /\ \A n \in SnapNames : backend = "nvmf" /\ Pending(n) ~> bound[n] # None
  /\ \A c \in CloneNames : Pending(c) ~> bound[c] # None

(* The deletion of a snapshot that stays without a second dependant comes to *)
(* an end: it is acknowledged, or the snapshot is gone and the CO could not  *)
(* be told, because DeleteSnapshot fails for a snapshot that is gone.        *)
SnapshotDeletionEnds ==
  \A n \in SnapNames :
    [](bound[n] \in doomed /\ [](Cardinality(Dependants(bound[n])) <= 1)
       => <>(bound[n] \in deleted \/ bound[n] \in unsure \ live))
=============================================================================
