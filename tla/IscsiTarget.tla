----------------------------- MODULE IscsiTarget -----------------------------
(* The iSCSI storage backend, pkg/util/iscsi.go, under CreateVolume and      *)
(* DeleteVolume of the controller: volumes of one storage node, handled      *)
(* concurrently, share the node's portal group and initiator group, which    *)
(* the first publisher creates.  Every JSON-RPC is a step.                   *)
(*                                                                           *)
(* The interface the backend implements (SpdkNode in jsonrpc.go) asks its    *)
(* caller to serialize the calls for one volume, so a volume has one handler *)
(* at a time here; Controller has the locks, abandoned calls and the scan of *)
(* several nodes.  JSON-RPCs fail as they do there.  The controller and,     *)
(* independently, the SPDK target may be restarted: the target then has its  *)
(* lvols, and neither groups nor target nodes.                               *)
EXTENDS Naturals

CONSTANTS
  Names,         \* volumes the CO asks for
  None,
  MaxLvols,      \* bound on lvols ever created
  MaxFaults      \* bound on JSON-RPCs that fail and restarts

Lvols == 1..MaxLvols

ASSUME IscsiAssumption ==
  /\ None \notin Lvols /\ None \notin Names /\ Names \cap Nat = {}
  /\ MaxLvols \in Nat /\ MaxFaults \in Nat

VARIABLES
  \* the SPDK target
  born,       \* lvols 1..born have been created
  live,       \* and these exist
  lvname,
  portal,     \* the portal group with numberPortalGroupTag exists
  initiator,  \* the initiator group with numberInitiatorGroupTag exists
  nodes,      \* lvols with a target node; its LUN is there as long as the lvol is
  late,       \* requests given up that may be served later: method and subject
  \* the handlers, one per volume
  pc, op,
  vol,        \* the lvol it works on
  \* the CO
  bound, doomed, deleted,
  \* history
  cut,        \* volumes whose last CreateVolume began before the target's last restart
  unsure,     \* lvols for which a call about the target node, or the deletion, got no reply
  faults

target == <<born, live, lvname, portal, initiator, nodes>>
handlers == <<pc, op, vol>>
orchestrator == <<bound, doomed, deleted>>
history == <<cut, unsure, faults>>
vars == <<target, late, handlers, orchestrator, history>>

Methods == {"bdev_lvol_create", "bdev_lvol_delete", "iscsi_create_portal_group",
            "iscsi_create_initiator_group", "iscsi_create_target_node",
            "iscsi_delete_target_node"}

Labels == {"idle", "scan", "createCheck", "createLvol", "pubExists", "pubNodes", "getPortal",
           "createPortal", "getPortalAgain", "getInitiator", "createInitiator",
           "getInitiatorAgain", "createNode", "infoVolume", "infoStores", "unpExists",
           "unpNodes", "deleteNode", "deleteLvol", "ok", "err"}

TypeOK ==
  /\ born \in 0..MaxLvols
  /\ live \in SUBSET Lvols
  /\ lvname \in [Lvols -> Names \cup {None}]
  /\ portal \in BOOLEAN /\ initiator \in BOOLEAN
  /\ nodes \in SUBSET Lvols
  /\ late \in SUBSET (({"bdev_lvol_create"} \X Names) \cup (Methods \X Lvols))
  /\ pc \in [Names -> Labels]
  /\ op \in [Names -> {"none", "create", "delete"}]
  /\ vol \in [Names -> Lvols \cup {None}]
  /\ bound \in [Names -> Lvols \cup {None}]
  /\ doomed \in SUBSET Lvols /\ deleted \in SUBSET Lvols
  /\ cut \in SUBSET Names /\ unsure \in SUBSET Lvols
  /\ faults \in 0..MaxFaults

Init ==
  /\ born = 0 /\ live = {}
  /\ lvname = [l \in Lvols |-> None]
  /\ portal = FALSE /\ initiator = FALSE /\ nodes = {}
  /\ late = {}
  /\ pc = [n \in Names |-> "idle"]
  /\ op = [n \in Names |-> "none"]
  /\ vol = [n \in Names |-> None]
  /\ bound = [n \in Names |-> None]
  /\ doomed = {} /\ deleted = {}
  /\ cut = {} /\ unsure = {}
  /\ faults = 0

-----------------------------------------------------------------------------
(* SPDK.                                                                     *)

Named(n) == {l \in live : lvname[l] = n}

(* A target node needs its lvol and both groups; tags and names are unique.  *)
Accepts(m, x) ==
  /\ m = "bdev_lvol_create" => Named(x) = {} /\ born < MaxLvols
  /\ m = "bdev_lvol_delete" => x \in live
  /\ m = "iscsi_create_portal_group" => ~portal
  /\ m = "iscsi_create_initiator_group" => ~initiator
  /\ m = "iscsi_create_target_node" => x \in live \ nodes /\ portal /\ initiator
  /\ m = "iscsi_delete_target_node" => x \in nodes

Serve(m, x) ==
  LET new == m = "bdev_lvol_create" IN
  /\ Accepts(m, x)
  /\ born' = IF new THEN born + 1 ELSE born
  /\ lvname' = IF new THEN [lvname EXCEPT ![born + 1] = x] ELSE lvname
  /\ live' = IF new THEN live \cup {born + 1}
             ELSE IF m = "bdev_lvol_delete" THEN live \ {x} ELSE live
  /\ portal' = (portal \/ m = "iscsi_create_portal_group")
  /\ initiator' = (initiator \/ m = "iscsi_create_initiator_group")
  /\ nodes' = IF m = "iscsi_create_target_node" THEN nodes \cup {x}
              ELSE IF m = "iscsi_delete_target_node" THEN nodes \ {x} ELSE nodes

-----------------------------------------------------------------------------
Goto(n, label) == pc' = [pc EXCEPT ![n] = label]

Fault == faults < MaxFaults /\ faults' = faults + 1

ProcessEnds ==
  /\ pc' = [n \in Names |-> "idle"]
  /\ op' = [n \in Names |-> "none"]
  /\ vol' = [n \in Names |-> None]
  /\ UNCHANGED <<target, late, orchestrator, cut, unsure>>

(* rpcClient.getVolume panics when its call fails (see Controller). *)
Panic == Fault /\ ProcessEnds

(* getVolume: the handler goes on with l, or the process ends. *)
Proceed(n, label, l) ==
  \/ /\ Goto(n, label)
     /\ vol' = [vol EXCEPT ![n] = l]
     /\ UNCHANGED <<target, late, op, orchestrator, history>>
  \/ Panic

(* The lvols in doubt when the call at the handler's label gets no reply. *)
InDoubt(n) ==
  IF pc[n] \in {"pubNodes", "unpNodes", "createNode", "deleteNode", "deleteLvol"} THEN {vol[n]} ELSE {}

(* A query that fails without a panic. *)
Ask(n, condition, yes, no, failed) ==
  /\ \/ Goto(n, IF condition THEN yes ELSE no) /\ UNCHANGED <<unsure, faults>>
     \/ Fault /\ Goto(n, failed) /\ unsure' = unsure \cup InDoubt(n)
  /\ UNCHANGED <<target, late, op, vol, orchestrator, cut>>

(* A method that changes the target.  Without a reply it is served, served   *)
(* later, or never.                                                          *)
Rpc(n, m, x, ok, refused, failed) ==
  /\ \/ Serve(m, x) /\ Goto(n, ok) /\ UNCHANGED <<late, unsure, faults>>
     \/ ~Accepts(m, x) /\ Goto(n, refused) /\ UNCHANGED <<target, late, unsure, faults>>
     \/ /\ Fault
        /\ Goto(n, failed)
        /\ unsure' = unsure \cup InDoubt(n)
        /\ \/ Serve(m, x) /\ UNCHANGED late
           \/ late' = late \cup {<<m, x>>} /\ UNCHANGED target
  /\ vol' = [vol EXCEPT ![n] = IF pc'[n] = "pubExists" THEN born' ELSE @]
  /\ UNCHANGED <<op, orchestrator, cut>>

-----------------------------------------------------------------------------
(* The CO repeats a call until it is acknowledged.                           *)

CallCreateVolume(n) ==
  /\ pc[n] = "idle"
  /\ bound[n] = None
  /\ Goto(n, "scan")
  /\ op' = [op EXCEPT ![n] = "create"]
  /\ cut' = cut \ {n}
  /\ UNCHANGED <<target, late, vol, orchestrator, unsure, faults>>

CallDeleteVolume(n) ==
  /\ pc[n] = "idle"
  /\ bound[n] \notin deleted \cup {None}
  /\ Goto(n, "unpExists")
  /\ op' = [op EXCEPT ![n] = "delete"]
  /\ vol' = [vol EXCEPT ![n] = bound[n]]
  /\ doomed' = doomed \cup {bound[n]}
  /\ UNCHANGED <<target, late, bound, deleted, history>>

Return(n) ==
  /\ pc[n] \in {"ok", "err"}
  /\ Goto(n, "idle")
  /\ op' = [op EXCEPT ![n] = "none"]
  /\ vol' = [vol EXCEPT ![n] = None]
  /\ bound' = IF pc[n] = "ok" /\ op[n] = "create" THEN [bound EXCEPT ![n] = vol[n]] ELSE bound
  /\ deleted' = IF pc[n] = "ok" /\ op[n] = "delete" THEN deleted \cup {vol[n]} ELSE deleted
  /\ UNCHANGED <<target, late, doomed, history>>

-----------------------------------------------------------------------------
(* createVolume.                                                             *)

(* The alias of the volume, then label yes; no if there is none. *)
FindName(n, yes, no) ==
  \/ \E l \in Named(n) : Proceed(n, yes, l)
  \/ Named(n) = {} /\ Proceed(n, no, None)

(* Mutant: a volume that exists is taken to be published. *)
Scan_SkipsPublish(n) ==
  /\ pc[n] = "scan"
  /\ FindName(n, "infoVolume", "createCheck")

(* The scan for the name (LvStores, GetVolume): a failure is "not found".    *)
Scan(n) ==
  /\ pc[n] = "scan"
  /\ \/ FindName(n, "pubExists", "createCheck")
     \/ /\ Fault
        /\ Goto(n, "createCheck")
        /\ UNCHANGED <<target, late, op, vol, orchestrator, cut, unsure>>

(* nodeISCSI.CreateVolume looks the alias up once more,                      *)
CreateCheck(n) == pc[n] = "createCheck" /\ FindName(n, "pubExists", "createLvol")

(* and creates the lvol.                                                     *)
CreateLvol(n) ==
  /\ pc[n] = "createLvol"
  /\ Rpc(n, "bdev_lvol_create", n, "pubExists", "err", "err")

-----------------------------------------------------------------------------
(* PublishVolume.  It undoes nothing itself: when it fails CreateVolume      *)
(* deletes the lvol.                                                         *)

Exists(n) == vol[n] \in live

PubExists(n) ==
  pc[n] = "pubExists" /\ Proceed(n, IF Exists(n) THEN "pubNodes" ELSE "deleteLvol", vol[n])

(* isVolumePublished: a target node with the lvol's id as alias. *)
IsVolumePublished(n) == vol[n] \in nodes

PubNodes(n) ==
  /\ pc[n] = "pubNodes"
  /\ Ask(n, IsVolumePublished(n), "infoVolume", "getPortal", "deleteLvol")

(* createPortalGroup: get, create, and get again, because a concurrent       *)
(* publisher may have created it.                                            *)
GetPortal(n) ==
  /\ pc[n] = "getPortal"
  /\ Ask(n, portal, "getInitiator", "createPortal", "createPortal")

(* Mutant: that the group cannot be created is an error. *)
CreatePortal_NoSecondGet(n) ==
  /\ pc[n] = "createPortal"
  /\ Rpc(n, "iscsi_create_portal_group", vol[n], "getInitiator", "deleteLvol", "deleteLvol")

CreatePortal(n) ==
  /\ pc[n] = "createPortal"
  /\ Rpc(n, "iscsi_create_portal_group", vol[n], "getInitiator", "getPortalAgain",
         "getPortalAgain")

GetPortalAgain(n) ==
  /\ pc[n] = "getPortalAgain"
  /\ Ask(n, portal, "getInitiator", "deleteLvol", "deleteLvol")

(* createInitiatorGroup, likewise. *)
GetInitiator(n) ==
  /\ pc[n] = "getInitiator"
  /\ Ask(n, initiator, "createNode", "createInitiator", "createInitiator")

CreateInitiator(n) ==
  /\ pc[n] = "createInitiator"
  /\ Rpc(n, "iscsi_create_initiator_group", vol[n], "createNode", "getInitiatorAgain",
         "getInitiatorAgain")

GetInitiatorAgain(n) ==
  /\ pc[n] = "getInitiatorAgain"
  /\ Ask(n, initiator, "createNode", "deleteLvol", "deleteLvol")

CreateNode(n) ==
  /\ pc[n] = "createNode"
  /\ Rpc(n, "iscsi_create_target_node", vol[n], "infoVolume", "deleteLvol", "deleteLvol")

(* VolumeInfo: isVolumeCreated and getLvstore's getVolume,                   *)
InfoVolume(n) ==
  pc[n] = "infoVolume" /\ Proceed(n, IF Exists(n) THEN "infoStores" ELSE "unpExists", vol[n])

(* and its lvStores.  On failure publishVolume unpublishes the volume.       *)
InfoStores(n) == pc[n] = "infoStores" /\ Ask(n, TRUE, "ok", "ok", "unpExists")

-----------------------------------------------------------------------------
(* UnpublishVolume and DeleteVolume; in CreateVolume's roll-back the errors  *)
(* of both are ignored.                                                      *)

OnError(n) == IF op[n] = "delete" THEN "err" ELSE "deleteLvol"

(* Mutant: a volume that is gone already cannot be deleted. *)
UnpExists_GoneIsError(n) ==
  /\ pc[n] = "unpExists"
  /\ Proceed(n, IF Exists(n) THEN "unpNodes" ELSE OnError(n), vol[n])

(* Mutant: the volume is not unpublished. *)
UnpExists_SkipUnpublish(n) ==
  /\ pc[n] = "unpExists"
  /\ Proceed(n, IF Exists(n) THEN "deleteLvol" ELSE "ok", vol[n])

(* ErrVolumeDeleted is success for DeleteVolume. *)
UnpExists(n) ==
  /\ pc[n] = "unpExists"
  /\ Proceed(n, IF Exists(n) THEN "unpNodes" ELSE IF op[n] = "delete" THEN "ok" ELSE "deleteLvol",
             vol[n])

UnpNodes(n) ==
  /\ pc[n] = "unpNodes"
  /\ Ask(n, IsVolumePublished(n), "deleteNode", "deleteLvol", OnError(n))

DeleteNode(n) ==
  /\ pc[n] = "deleteNode"
  /\ Rpc(n, "iscsi_delete_target_node", vol[n], "deleteLvol", OnError(n), OnError(n))

(* Mutant: the volume's name is passed instead of its id. *)
DeleteLvol_ByName(n) ==
  LET done == IF op[n] = "delete" THEN "ok" ELSE "err" IN
  pc[n] = "deleteLvol" /\ Rpc(n, "bdev_lvol_delete", n, done, done, "err")

(* "No such device" is success for DeleteVolume; CreateVolume returns the    *)
(* error it came with.                                                       *)
DeleteLvol(n) ==
  LET done == IF op[n] = "delete" THEN "ok" ELSE "err" IN
  pc[n] = "deleteLvol" /\ Rpc(n, "bdev_lvol_delete", vol[n], done, done, "err")

-----------------------------------------------------------------------------
ServeLate ==
  \E c \in late :
    /\ late' = late \ {c}
    /\ Serve(c[1], c[2]) \/ (~Accepts(c[1], c[2]) /\ UNCHANGED target)
    /\ UNCHANGED <<handlers, orchestrator, history>>

Crash ==
  /\ \E n \in Names : pc[n] # "idle"
  /\ Fault
  /\ ProcessEnds

TargetRestarts ==
  /\ Fault
  /\ portal' = FALSE /\ initiator' = FALSE /\ nodes' = {}
  /\ late' = {}
  /\ cut' = Names
  /\ UNCHANGED <<born, live, lvname, handlers, orchestrator, unsure>>

Quiescent ==
  /\ \A n \in Names : pc[n] = "idle" /\ bound[n] \in deleted
  /\ UNCHANGED vars

Step(n) ==
  \/ Return(n) \/ Scan(n) \/ CreateCheck(n) \/ CreateLvol(n)
  \/ PubExists(n) \/ PubNodes(n) \/ GetPortal(n) \/ CreatePortal(n) \/ GetPortalAgain(n)
  \/ GetInitiator(n) \/ CreateInitiator(n) \/ GetInitiatorAgain(n) \/ CreateNode(n)
  \/ InfoVolume(n) \/ InfoStores(n)
  \/ UnpExists(n) \/ UnpNodes(n) \/ DeleteNode(n) \/ DeleteLvol(n)

Next ==
  \/ \E n \in Names : CallCreateVolume(n) \/ CallDeleteVolume(n) \/ Step(n)
  \/ ServeLate \/ Crash \/ TargetRestarts \/ Quiescent

Spec == Init /\ [][Next]_vars

(* Goroutines run and the CO repeats its calls (see Controller).             *)
Fairness ==
  \A n \in Names :
    /\ WF_vars(Step(n))
    /\ WF_vars(CallCreateVolume(n))
    /\ WF_vars(bound[n] \in doomed /\ CallDeleteVolume(n))

FairSpec == Spec /\ Fairness

-----------------------------------------------------------------------------
(* Properties.                                                               *)

(* jsonrpc.go requires the calls to be thread safe for different volumes: as *)
(* long as nothing fails no call does, although publishers of different      *)
(* volumes race to create the groups they share.                             *)
RacesAreHarmless == faults = 0 => \A n \in Names : pc[n] # "err"

(* An acknowledged volume has its lvol, its target node and both groups,     *)
(* until its deletion is asked for: whatever failed, and whenever the driver *)
(* or the target was restarted, except that nobody publishes a volume again  *)
(* that the target lost in a restart, and that the lvol of a roll-back whose *)
(* deletion got no reply may be deleted later.                               *)
AckedIsReachable ==
  \A n \in Names \ cut :
    bound[n] \notin doomed \cup unsure \cup {None} =>
      bound[n] \in live \cap nodes /\ portal /\ initiator

(* No target node outlives its lvol, unless a call to query, create or       *)
(* delete it, or to delete the lvol, got no reply: CreateVolume's roll-back  *)
(* leaves the target node behind then, and nobody will ever ask for it.      *)
NoTargetNodeLeft == nodes \subseteq live \cup unsure

(* Every volume asked for is provisioned in the end and every deletion is    *)
(* acknowledged, whatever failed or was restarted in between.                *)
CallsAreAcked ==
  \A n \in Names :
    /\ <>(bound[n] # None)
    /\ bound[n] \in doomed ~> bound[n] \in deleted
=============================================================================
