-------------------------- MODULE IscsiTargetProofs --------------------------
(* Proofs about IscsiTarget, for any volumes, lvols and number of failures   *)
(* and restarts: AckedIsReachable, NoTargetNodeLeft and RacesAreHarmless.    *)
(* They rest on the handlers of different volumes working on different       *)
(* lvols, told apart by their names, and on a call without a reply marking   *)
(* its lvol unsure before the call can be served late.                       *)
EXTENDS IscsiTarget, FiniteSetTheorems, TLAPS

-----------------------------------------------------------------------------
(* The inductive invariant.                                                  *)

(* Labels of createVolume, PublishVolume and VolumeInfo. *)
CreateLabels == {"scan", "createCheck", "createLvol", "pubExists", "pubNodes", "getPortal",
                 "createPortal", "getPortalAgain", "getInitiator", "createInitiator",
                 "getInitiatorAgain", "createNode", "infoVolume", "infoStores"}

(* Labels at which the handler works on vol[n]. *)
VolumeLabels == Labels \ {"idle", "scan", "createCheck", "createLvol", "err"}

(* Labels at which PublishVolume is about to create the target node. *)
UnpublishedLabels == {"getPortal", "createPortal", "getPortalAgain", "getInitiator",
                      "createInitiator", "getInitiatorAgain", "createNode"}

(* A handler works on an lvol with its volume's name; CreateVolume is called *)
(* for a volume that the CO has no id of, DeleteVolume for one it has.       *)
HandlersOK ==
  \A n \in Names :
    /\ pc[n] = "idle" <=> op[n] = "none"
    /\ pc[n] \in CreateLabels => op[n] = "create"
    /\ pc[n] \in VolumeLabels => vol[n] \in 1..born /\ lvname[vol[n]] = n
    /\ op[n] = "create" => bound[n] = None
    /\ op[n] = "delete" => vol[n] = bound[n] /\ bound[n] \in doomed

BoundOK ==
  /\ live \subseteq 1..born
  /\ \A n \in Names : bound[n] # None => bound[n] \in 1..born /\ lvname[bound[n]] = n

(* A request given up is for a name or for an lvol that exists or existed,   *)
(* and the lvol is unsure if the request is about its target node or         *)
(* deletes it.                                                               *)
LateOK ==
  \A c \in late :
    IF c[1] = "bdev_lvol_create" THEN c[2] \in Names
    ELSE /\ c[2] \in 1..born
         /\ c[1] \in {"bdev_lvol_delete", "iscsi_create_target_node",
                      "iscsi_delete_target_node"} => c[2] \in unsure

(* A target node has its groups and, if it is not unsure, its lvol, which    *)
(* the handler that is about to delete the lvol or to create the target node *)
(* knows not to be published.                                                *)
NodesOK ==
  /\ nodes # {} => portal /\ initiator
  /\ nodes \subseteq live \cup unsure
  /\ \A n \in Names :
       pc[n] \in UnpublishedLabels \cup {"deleteLvol"} => vol[n] \notin nodes \ unsure

(* A volume that was published since the target's last restart stays so. *)
ReachOK ==
  \A n \in Names \ cut :
    /\ pc[n] \in {"infoVolume", "infoStores"} \/ (pc[n] = "ok" /\ op[n] = "create") =>
         vol[n] \in nodes \cup unsure
    /\ bound[n] \notin doomed \cup unsure \cup {None} => bound[n] \in nodes

(* While nothing has failed: a volume has one lvol, a handler finds the      *)
(* groups, the lvol and the target node as it needs them, and CreateVolume   *)
(* is never rolled back.                                                     *)
HarmlessOK ==
  faults = 0 =>
    /\ late = {}
    /\ \A l \in 1..born : lvname[l] \in Names
    /\ \A l, k \in 1..born : lvname[l] = lvname[k] => l = k
    /\ \A n \in Names :
         /\ pc[n] # "err"
         /\ op[n] = "create" => pc[n] \notin {"unpExists", "unpNodes", "deleteNode", "deleteLvol"}
         /\ bound[n] = None /\ pc[n] \in {"idle", "scan", "createCheck", "createLvol"} =>
              \A l \in 1..born : lvname[l] # n
         /\ op[n] = "create" /\ pc[n] \in VolumeLabels => vol[n] \in live
         /\ pc[n] \in UnpublishedLabels => vol[n] \notin nodes
         /\ pc[n] \in UnpublishedLabels \ {"getPortal", "createPortal"} => portal
         /\ pc[n] \in {"getInitiatorAgain", "createNode"} => initiator
         /\ pc[n] = "deleteNode" => vol[n] \in nodes

IInv == TypeOK /\ HandlersOK /\ BoundOK /\ LateOK /\ NodesOK /\ ReachOK

-----------------------------------------------------------------------------
(* The steps of a handler between its call and its return.                   *)

Work(n) ==
  \/ Scan(n) \/ CreateCheck(n) \/ CreateLvol(n)
  \/ PubExists(n) \/ PubNodes(n) \/ GetPortal(n) \/ CreatePortal(n) \/ GetPortalAgain(n)
  \/ GetInitiator(n) \/ CreateInitiator(n) \/ GetInitiatorAgain(n) \/ CreateNode(n)
  \/ InfoVolume(n) \/ InfoStores(n)
  \/ UnpExists(n) \/ UnpNodes(n) \/ DeleteNode(n) \/ DeleteLvol(n)

(* What a method is about when the handler of n calls it. *)
Subject(m, n) == IF m = "bdev_lvol_create" THEN n ELSE vol[n]

(* Methods whose outcome is in doubt for an lvol if there is no reply. *)
DoubtfulMethods == {"bdev_lvol_delete", "iscsi_create_target_node", "iscsi_delete_target_node"}

(* SPDK serves a request: an lvol keeps its name, a new one is the only one  *)
(* to come to life, and no other lvol and no other target node is affected.  *)
LEMMA ServeEffect ==
  ASSUME TypeOK, live \subseteq 1..born, NEW m \in Methods, NEW x, Serve(m, x),
         IF m = "bdev_lvol_create" THEN x \in Names ELSE x \in 1..born
  PROVE  /\ born' \in born..MaxLvols /\ 1..born \subseteq 1..born'
         /\ live' \subseteq 1..born'
         /\ lvname' \in [Lvols -> Names \cup {None}]
         /\ portal' \in BOOLEAN /\ initiator' \in BOOLEAN
         /\ nodes' \in SUBSET Lvols
         /\ \A l \in 1..born : lvname'[l] = lvname[l]
         /\ portal => portal'
         /\ initiator => initiator'
         /\ m = "bdev_lvol_create" =>
              born' = born + 1 /\ lvname'[born'] = x /\ live' = live \cup {born'} /\ nodes' = nodes
         /\ m # "bdev_lvol_create" => born' = born /\ lvname' = lvname
         /\ \A l \in live : l \notin live' => l = x /\ m = "bdev_lvol_delete"
         /\ \A l \in nodes : l \notin nodes' => l = x /\ m = "iscsi_delete_target_node"
         /\ \A l \in nodes' : l \notin nodes =>
              l = x /\ m = "iscsi_create_target_node" /\ l \in live /\ portal /\ initiator
<1> USE IscsiAssumption DEF Serve, Accepts, TypeOK, Lvols
<1>1. born' \in born..MaxLvols /\ 1..born \subseteq 1..born'
  <2>1. born \in Nat /\ MaxLvols \in Nat /\ born <= MaxLvols
    OBVIOUS
  <2>2. born' = born \/ (born' = born + 1 /\ born < MaxLvols)
    OBVIOUS
  <2> QED BY <2>1, <2>2
<1>2. live' \subseteq 1..born'
  <2>1. live' \subseteq live \cup {born'} /\ (born' = born => live' \subseteq live)
    OBVIOUS
  <2>2. born' = born \/ (born' = born + 1 /\ born \in Nat)
    OBVIOUS
  <2>3. born' # born => born' \in 1..born'
    BY <2>2
  <2> HIDE DEF Serve, Accepts, TypeOK
  <2> QED BY <1>1, <2>1, <2>3
<1>3. lvname' \in [Lvols -> Names \cup {None}]
  OBVIOUS
<1>4. portal' \in BOOLEAN /\ initiator' \in BOOLEAN /\ (portal => portal') /\ (initiator => initiator')
  OBVIOUS
<1>5. nodes' \in SUBSET Lvols
  OBVIOUS
<1>6. \A l \in 1..born : lvname'[l] = lvname[l]
  OBVIOUS
<1>7. m = "bdev_lvol_create" =>
        born' = born + 1 /\ lvname'[born'] = x /\ live' = live \cup {born'} /\ nodes' = nodes
  OBVIOUS
<1>8. m # "bdev_lvol_create" => born' = born /\ lvname' = lvname
  OBVIOUS
<1>9. /\ \A l \in live : l \notin live' => l = x /\ m = "bdev_lvol_delete"
      /\ \A l \in nodes : l \notin nodes' => l = x /\ m = "iscsi_delete_target_node"
      /\ \A l \in nodes' : l \notin nodes =>
           l = x /\ m = "iscsi_create_target_node" /\ l \in live /\ portal /\ initiator
  OBVIOUS
<1> QED BY <1>1, <1>2, <1>3, <1>4, <1>5, <1>6, <1>7, <1>8, <1>9

(* A handler moves only itself; it calls a method about its own lvol or, to  *)
(* create one, its own name; and if there is no reply the lvol is unsure.    *)
LEMMA WorkShape ==
  ASSUME TypeOK, HandlersOK, NEW n \in Names, Work(n), ~Panic
  PROVE  /\ pc[n] \in Labels \ {"idle", "ok", "err"} /\ pc'[n] \in Labels \ {"idle", "scan"}
         /\ pc' = [pc EXCEPT ![n] = pc'[n]]
         /\ UNCHANGED <<op, orchestrator, cut>>
         /\ vol' = [vol EXCEPT ![n] = vol'[n]]
         /\ faults' \in 0..MaxFaults /\ (faults' = 0 => faults = 0)
         /\ unsure \subseteq unsure' /\ unsure' \subseteq unsure \cup {vol[n]}
         /\ unsure' # unsure => pc[n] \in VolumeLabels
         /\ \A c \in late' : c \in late \/ \E m \in Methods :
              /\ c = <<m, Subject(m, n)>>
              /\ m # "bdev_lvol_create" => pc[n] \in VolumeLabels
              /\ m \in DoubtfulMethods => vol[n] \in unsure'
         /\ \/ UNCHANGED target
            \/ \E m \in Methods : /\ Serve(m, Subject(m, n))
                                  /\ m # "bdev_lvol_create" => pc[n] \in VolumeLabels
<1> USE DEF Work, Scan, CreateCheck, CreateLvol, PubExists, PubNodes, GetPortal, CreatePortal,
            GetPortalAgain, GetInitiator, CreateInitiator, GetInitiatorAgain, CreateNode,
            InfoVolume, InfoStores, UnpExists, UnpNodes, DeleteNode, DeleteLvol
<1> USE DEF FindName, Proceed, Ask, Rpc, OnError, Goto, history
<1> USE DEF TypeOK, Labels
<1>1. pc[n] \in Labels \ {"idle", "ok", "err"}
  OBVIOUS
<1>2. pc'[n] \in Labels \ {"idle", "scan"}
  OBVIOUS
<1>3. pc' = [pc EXCEPT ![n] = pc'[n]]
  OBVIOUS
<1>4. UNCHANGED <<op, orchestrator, cut>>
  OBVIOUS
<1>5. vol' = [vol EXCEPT ![n] = vol'[n]]
  OBVIOUS
<1>6. faults' \in 0..MaxFaults /\ (faults' = 0 => faults = 0)
  BY IscsiAssumption DEF Fault
<1>7. unsure \subseteq unsure' /\ unsure' \subseteq unsure \cup {vol[n]}
  BY DEF InDoubt
<1>8. unsure' # unsure => pc[n] \in VolumeLabels
  BY DEF InDoubt, VolumeLabels
<1>9. ASSUME NEW c \in late', c \notin late
      PROVE  \E m \in Methods : /\ c = <<m, Subject(m, n)>>
                                /\ m # "bdev_lvol_create" => pc[n] \in VolumeLabels
                                /\ m \in DoubtfulMethods => vol[n] \in unsure'
  BY <1>9 DEF Methods, Subject, VolumeLabels, DoubtfulMethods, InDoubt
<1>10. \/ UNCHANGED target
       \/ \E m \in Methods : /\ Serve(m, Subject(m, n))
                             /\ m # "bdev_lvol_create" => pc[n] \in VolumeLabels
  BY DEF Methods, Subject, VolumeLabels
<1> HIDE DEF Work
<1> QED BY <1>1, <1>2, <1>3, <1>4, <1>5, <1>6, <1>7, <1>8, <1>9, <1>10

(* The target after a handler's step: nothing but the handler's own lvol or  *)
(* target node is affected.                                                  *)
LEMMA WorkEffect ==
  ASSUME IInv, NEW n \in Names, Work(n), ~Panic
  PROVE  /\ born' \in born..MaxLvols /\ 1..born \subseteq 1..born'
         /\ live' \subseteq 1..born'
         /\ lvname' \in [Lvols -> Names \cup {None}]
         /\ portal' \in BOOLEAN /\ initiator' \in BOOLEAN
         /\ nodes' \in SUBSET Lvols
         /\ \A l \in 1..born : lvname'[l] = lvname[l]
         /\ portal => portal'
         /\ initiator => initiator'
         /\ \A l \in live : l \notin live' => l = vol[n] /\ pc[n] \in VolumeLabels
         /\ \A l \in nodes : l \notin nodes' => l = vol[n] /\ pc[n] \in VolumeLabels
         /\ \A l \in nodes' : l \notin nodes =>
              l = vol[n] /\ pc[n] \in VolumeLabels /\ l \in live' /\ portal /\ initiator
<1>1. TypeOK /\ HandlersOK /\ live \subseteq 1..born
  BY DEF IInv, BoundOK
<1>2. CASE UNCHANGED target
  BY <1>1, <1>2, IscsiAssumption DEF target, TypeOK
<1>3. ASSUME NEW m \in Methods, Serve(m, Subject(m, n)),
             m # "bdev_lvol_create" => pc[n] \in VolumeLabels
      PROVE  /\ born' \in born..MaxLvols /\ 1..born \subseteq 1..born'
             /\ live' \subseteq 1..born'
             /\ lvname' \in [Lvols -> Names \cup {None}]
             /\ portal' \in BOOLEAN /\ initiator' \in BOOLEAN
             /\ nodes' \in SUBSET Lvols
             /\ \A l \in 1..born : lvname'[l] = lvname[l]
             /\ portal => portal'
             /\ initiator => initiator'
             /\ \A l \in live : l \notin live' => l = vol[n] /\ pc[n] \in VolumeLabels
             /\ \A l \in nodes : l \notin nodes' => l = vol[n] /\ pc[n] \in VolumeLabels
             /\ \A l \in nodes' : l \notin nodes =>
              l = vol[n] /\ pc[n] \in VolumeLabels /\ l \in live' /\ portal /\ initiator
  <2>1. IF m = "bdev_lvol_create" THEN Subject(m, n) \in Names ELSE Subject(m, n) \in 1..born
    BY <1>1, <1>3 DEF Subject, HandlersOK
  <2>2. m # "bdev_lvol_create" => Subject(m, n) = vol[n]
    BY DEF Subject
  <2> HIDE DEF Subject
  <2> QED BY <1>1, <1>3, <2>1, <2>2, ServeEffect
<1> QED BY <1>1, <1>2, <1>3, WorkShape

(* The handler of another volume has another lvol. *)
LEMMA OtherLvol ==
  ASSUME HandlersOK, NEW n \in Names, NEW k \in Names, k # n,
         pc[n] \in VolumeLabels, pc[k] \in VolumeLabels
  PROVE  vol[k] # vol[n]
  BY DEF HandlersOK

(* The lvol a handler works on has its volume's name: the scan looks for the *)
(* name, and bdev_lvol_create gives it.                                      *)
LEMMA WorkVolume ==
  ASSUME IInv, NEW n \in Names, Work(n), ~Panic
  PROVE  /\ vol'[n] \in Lvols \cup {None}
         /\ pc'[n] \in VolumeLabels => vol'[n] \in 1..born' /\ lvname'[vol'[n]] = n
<1> USE DEF Work, Scan, CreateCheck, CreateLvol, PubExists, PubNodes, GetPortal, CreatePortal,
            GetPortalAgain, GetInitiator, CreateInitiator, GetInitiatorAgain, CreateNode,
            InfoVolume, InfoStores, UnpExists, UnpNodes, DeleteNode, DeleteLvol
<1> USE DEF FindName, Proceed, Ask, Rpc, OnError, Goto
<1>1. /\ TypeOK /\ HandlersOK /\ live \subseteq 1..born
      /\ pc \in [Names -> Labels] /\ vol \in [Names -> Lvols \cup {None}]
      /\ pc[n] \in VolumeLabels => vol[n] \in 1..born /\ lvname[vol[n]] = n
  BY DEF IInv, BoundOK, TypeOK, HandlersOK
<1>2. 1..born \subseteq 1..born' /\ 1..born' \subseteq Lvols /\ \A l \in 1..born : lvname'[l] = lvname[l]
  <2> HIDE DEF Work
  <2>1. 1..born \subseteq 1..born' /\ born' \in born..MaxLvols /\ \A l \in 1..born : lvname'[l] = lvname[l]
    BY WorkEffect
  <2> QED BY <1>1, <2>1, IscsiAssumption DEF TypeOK, Lvols
<1>3. CASE pc[n] \in {"scan", "createCheck"}
  <2>1. \/ \E l \in Named(n) : vol'[n] = l
        \/ vol'[n] \in {vol[n], None} /\ pc'[n] \in {"createCheck", "createLvol"}
    BY <1>1, <1>3
  <2>2. \A l \in Named(n) : l \in 1..born /\ lvname[l] = n
    BY <1>1 DEF Named
  <2> HIDE DEF Work
  <2> QED BY <1>1, <1>2, <2>1, <2>2 DEF VolumeLabels
<1>4. CASE pc[n] = "createLvol"
  <2>1. \/ Serve("bdev_lvol_create", n) /\ vol'[n] = born'
        \/ vol'[n] = vol[n] /\ pc'[n] = "err"
    BY <1>1, <1>4
  <2>2. Serve("bdev_lvol_create", n) => born' \in Lvols /\ born' \in 1..born' /\ lvname'[born'] = n
    BY <1>1, IscsiAssumption DEF Serve, Accepts, TypeOK, Lvols
  <2> HIDE DEF Work
  <2> QED BY <1>1, <2>1, <2>2 DEF VolumeLabels
<1>5. CASE pc[n] \notin {"scan", "createCheck", "createLvol"}
  <2>1. vol'[n] = vol[n] /\ pc[n] \in VolumeLabels
    BY <1>1, <1>5 DEF VolumeLabels, Labels
  <2> HIDE DEF Work
  <2> QED BY <1>1, <1>2, <2>1
<1> QED BY <1>3, <1>4, <1>5

(* The invariants on types and names. *)
LEMMA WorkKeepsTypes ==
  ASSUME IInv, NEW n \in Names, Work(n), ~Panic
  PROVE  TypeOK'
<1>1. TypeOK /\ HandlersOK /\ live \subseteq 1..born
  BY DEF IInv, BoundOK
<1>2. /\ born' \in born..MaxLvols
      /\ live' \subseteq 1..born'
  BY WorkEffect
<1>3. born' \in 0..MaxLvols /\ live' \in SUBSET Lvols
  BY <1>1, <1>2, IscsiAssumption DEF TypeOK, Lvols
<1>4. pc[n] \in VolumeLabels => vol[n] \in Lvols
  BY <1>1, IscsiAssumption DEF HandlersOK, TypeOK, Lvols
<1>5. unsure' \in SUBSET Lvols
  BY <1>1, <1>4, WorkShape DEF TypeOK
<1>6. late' \in SUBSET (({"bdev_lvol_create"} \X Names) \cup (Methods \X Lvols))
  <2>1. ASSUME NEW m \in Methods, m # "bdev_lvol_create" => pc[n] \in VolumeLabels
        PROVE  <<m, Subject(m, n)>> \in ({"bdev_lvol_create"} \X Names) \cup (Methods \X Lvols)
    BY <1>4, <2>1 DEF Subject
  <2>2. \A c \in late' : c \in late \/ \E m \in Methods :
              /\ c = <<m, Subject(m, n)>>
              /\ m # "bdev_lvol_create" => pc[n] \in VolumeLabels
    BY <1>1, WorkShape
  <2> QED BY <1>1, <2>1, <2>2 DEF TypeOK
<1>7. vol' \in [Names -> Lvols \cup {None}]
  BY <1>1, WorkShape, WorkVolume DEF TypeOK
<1>8. pc' \in [Names -> Labels] /\ UNCHANGED <<op, orchestrator, cut>> /\ faults' \in 0..MaxFaults
  BY <1>1, WorkShape DEF TypeOK
<1>9. /\ lvname' \in [Lvols -> Names \cup {None}]
      /\ portal' \in BOOLEAN /\ initiator' \in BOOLEAN /\ nodes' \in SUBSET Lvols
  BY WorkEffect
<1> QED BY <1>1, <1>3, <1>5, <1>6, <1>7, <1>8, <1>9 DEF TypeOK, orchestrator

LEMMA WorkKeepsHandlers ==
  ASSUME IInv, NEW n \in Names, Work(n), ~Panic
  PROVE  HandlersOK' /\ BoundOK'
<1>1. TypeOK /\ HandlersOK /\ BoundOK
  BY DEF IInv
<1>2. /\ 1..born \subseteq 1..born' /\ live' \subseteq 1..born'
      /\ \A l \in 1..born : lvname'[l] = lvname[l]
  BY WorkEffect
<1>3. /\ pc[n] # "idle" /\ pc'[n] # "idle"
      /\ pc' = [pc EXCEPT ![n] = pc'[n]] /\ vol' = [vol EXCEPT ![n] = vol'[n]]
      /\ UNCHANGED <<op, bound, doomed, deleted>>
  BY <1>1, WorkShape DEF orchestrator
<1>4. /\ pc'[n] \in CreateLabels => op[n] = "create"
      /\ op[n] = "delete" => vol'[n] = vol[n]
  <2> USE DEF Work, Scan, CreateCheck, CreateLvol, PubExists, PubNodes, GetPortal, CreatePortal,
              GetPortalAgain, GetInitiator, CreateInitiator, GetInitiatorAgain, CreateNode,
              InfoVolume, InfoStores, UnpExists, UnpNodes, DeleteNode, DeleteLvol
  <2> USE DEF FindName, Proceed, Ask, Rpc, OnError, Goto
  <2>1. pc'[n] \in CreateLabels => op[n] = "create"
    BY <1>1 DEF HandlersOK, CreateLabels, TypeOK
  <2>2. op[n] = "delete" => vol'[n] = vol[n]
    BY <1>1 DEF HandlersOK, CreateLabels, TypeOK
  <2> QED BY <2>1, <2>2
<1>5. pc'[n] \in VolumeLabels => vol'[n] \in 1..born' /\ lvname'[vol'[n]] = n
  BY WorkVolume
<1>6. \A k \in Names : k # n => pc'[k] = pc[k] /\ vol'[k] = vol[k]
  BY <1>1, <1>3 DEF TypeOK
<1>7. HandlersOK'
  <2> SUFFICES ASSUME NEW k \in Names
               PROVE  /\ pc'[k] = "idle" <=> op[k] = "none"
                      /\ pc'[k] \in CreateLabels => op[k] = "create"
                      /\ pc'[k] \in VolumeLabels => vol'[k] \in 1..born' /\ lvname'[vol'[k]] = k
                      /\ op[k] = "create" => bound[k] = None
                      /\ op[k] = "delete" => vol'[k] = bound[k] /\ bound[k] \in doomed
    BY <1>3 DEF HandlersOK
  <2>1. CASE k = n
    BY <1>1, <1>3, <1>4, <1>5, <2>1 DEF HandlersOK
  <2>2. CASE k # n
    BY <1>1, <1>2, <1>6, <2>2 DEF HandlersOK
  <2> QED BY <2>1, <2>2
<1>8. BoundOK'
  BY <1>1, <1>2, <1>3 DEF BoundOK
<1> QED BY <1>7, <1>8

(* A request given up is as LateOK says. *)
LEMMA WorkKeepsLate ==
  ASSUME IInv, NEW n \in Names, Work(n), ~Panic
  PROVE  LateOK'
<1>1. TypeOK /\ HandlersOK /\ LateOK
  BY DEF IInv
<1>2. 1..born \subseteq 1..born'
  BY WorkEffect
<1>3. unsure \subseteq unsure'
  BY <1>1, WorkShape
<1>4. ASSUME NEW c \in late', c \notin late
      PROVE  IF c[1] = "bdev_lvol_create" THEN c[2] \in Names
             ELSE c[2] \in 1..born' /\ (c[1] \in DoubtfulMethods => c[2] \in unsure')
  <2>1. PICK m \in Methods : /\ c = <<m, Subject(m, n)>>
                             /\ m # "bdev_lvol_create" => pc[n] \in VolumeLabels
                             /\ m \in DoubtfulMethods => vol[n] \in unsure'
    BY <1>1, <1>4, WorkShape
  <2>2. c[1] = m /\ c[2] = Subject(m, n)
    BY <2>1
  <2> QED BY <1>1, <1>2, <2>1, <2>2 DEF Subject, HandlersOK
<1> QED BY <1>1, <1>2, <1>3, <1>4 DEF LateOK, DoubtfulMethods

(* A handler that deletes an lvol has removed its target node or is unsure   *)
(* of it.                                                                    *)
LEMMA WorkKeepsNodes ==
  ASSUME IInv, NEW n \in Names, Work(n), ~Panic
  PROVE  NodesOK'
<1>1. TypeOK /\ HandlersOK /\ NodesOK /\ BoundOK
  BY DEF IInv
<1>2. /\ unsure \subseteq unsure'
      /\ pc' = [pc EXCEPT ![n] = pc'[n]] /\ vol' = [vol EXCEPT ![n] = vol'[n]]
  BY <1>1, WorkShape
<1>3. /\ portal => portal'
      /\ initiator => initiator'
      /\ \A l \in live : l \notin live' => l = vol[n]
      /\ \A l \in nodes' : l \notin nodes =>
           l = vol[n] /\ pc[n] \in VolumeLabels /\ l \in live' /\ portal /\ initiator
  BY WorkEffect
<1>4. /\ pc'[n] \in UnpublishedLabels \cup {"deleteLvol"} =>
           vol'[n] = vol[n] /\ pc[n] \in VolumeLabels /\ vol[n] \notin nodes' \ unsure'
      /\ vol[n] \in nodes /\ vol[n] \in live /\ vol[n] \notin live' => vol[n] \in unsure'
  <2> USE DEF UnpublishedLabels
  <2>1. CASE \/ Scan(n) \/ CreateCheck(n) \/ PubExists(n) \/ PubNodes(n) \/ GetPortal(n)
             \/ GetPortalAgain(n) \/ GetInitiator(n) \/ GetInitiatorAgain(n) \/ InfoVolume(n)
             \/ InfoStores(n) \/ UnpExists(n) \/ UnpNodes(n)
    <3> USE <2>1 DEF Scan, CreateCheck, PubExists, PubNodes, GetPortal, GetPortalAgain,
                     GetInitiator, GetInitiatorAgain, InfoVolume, InfoStores, UnpExists, UnpNodes
    <3> USE DEF FindName, Proceed, Ask, Goto, OnError, target, history
    <3>1. UNCHANGED <<live, nodes>>
      OBVIOUS
    <3>2. pc'[n] \in UnpublishedLabels \cup {"deleteLvol"} =>
            vol'[n] = vol[n] /\ pc[n] \in VolumeLabels
      BY <1>1 DEF TypeOK, VolumeLabels, Labels
    <3>3. pc'[n] \in UnpublishedLabels \cup {"deleteLvol"} => vol[n] \notin nodes \ unsure'
      BY <1>1 DEF TypeOK, NodesOK, IsVolumePublished, Exists, InDoubt
    <3> QED BY <3>1, <3>2, <3>3
  <2>2. CASE CreatePortal(n) \/ CreateInitiator(n)
    BY <1>1, <1>2, <2>2 DEF CreatePortal, CreateInitiator, Rpc, Goto, Serve, target, TypeOK, NodesOK,
                     VolumeLabels, Labels
  <2>3. CASE CreateNode(n)
    BY <1>1, <1>2, <2>3 DEF CreateNode, Rpc, Goto, Serve, target, TypeOK, NodesOK,
                     VolumeLabels, Labels, InDoubt
  <2>4. CASE DeleteNode(n)
    BY <1>1, <1>2, <2>4 DEF DeleteNode, Rpc, Goto, Serve, Accepts, OnError, target, TypeOK, NodesOK,
                     VolumeLabels, Labels, InDoubt
  <2>5. CASE CreateLvol(n) \/ DeleteLvol(n)
    BY <1>1, <1>2, <2>5 DEF CreateLvol, DeleteLvol, Rpc, Goto, Serve, target, TypeOK, NodesOK,
                     VolumeLabels, Labels, InDoubt
  <2> QED BY <2>1, <2>2, <2>3, <2>4, <2>5 DEF Work
<1>5. nodes' # {} => portal' /\ initiator'
  BY <1>1, <1>3 DEF NodesOK
<1>6. nodes' \subseteq live' \cup unsure'
  BY <1>1, <1>2, <1>3, <1>4 DEF NodesOK
<1>7. ASSUME NEW k \in Names, k # n, pc'[k] \in UnpublishedLabels \cup {"deleteLvol"}
      PROVE  vol'[k] \notin nodes' \ unsure'
  <2>1. pc'[k] = pc[k] /\ vol'[k] = vol[k] /\ pc[k] \in VolumeLabels
    BY <1>1, <1>2, <1>7 DEF TypeOK, UnpublishedLabels, VolumeLabels, Labels
  <2>2. vol[k] \in nodes' => vol[k] \in nodes
    BY <1>1, <1>3, <1>7, <2>1, OtherLvol
  <2> QED BY <1>1, <1>2, <1>7, <2>1, <2>2 DEF NodesOK
<1> QED BY <1>4, <1>5, <1>6, <1>7 DEF NodesOK

(* PublishVolume ends with the target node there, and no handler removes the *)
(* target node of another volume.                                            *)
LEMMA WorkKeepsReach ==
  ASSUME IInv, NEW n \in Names, Work(n), ~Panic
  PROVE  ReachOK'
<1> DEFINE Published(k) == pc[k] \in {"infoVolume", "infoStores"} \/ (pc[k] = "ok" /\ op[k] = "create")
<1>1. TypeOK /\ HandlersOK /\ BoundOK /\ ReachOK
  BY DEF IInv
<1>2. /\ unsure \subseteq unsure' /\ pc[n] # "idle"
      /\ pc' = [pc EXCEPT ![n] = pc'[n]] /\ vol' = [vol EXCEPT ![n] = vol'[n]]
      /\ UNCHANGED <<op, bound, doomed, cut>>
  BY <1>1, WorkShape DEF orchestrator
<1>3. \A l \in nodes : l \notin nodes' => l = vol[n] /\ pc[n] \in VolumeLabels
  BY WorkEffect
<1>4. ASSUME n \notin cut, Published(n)' PROVE vol'[n] \in nodes' \cup unsure'
  <2> USE DEF FindName, Proceed, Ask, Rpc, Goto, OnError, target, history
  <2>1. CASE \/ Scan(n) \/ CreateCheck(n) \/ CreateLvol(n) \/ PubExists(n) \/ GetPortal(n)
             \/ CreatePortal(n) \/ GetPortalAgain(n) \/ GetInitiator(n) \/ CreateInitiator(n)
             \/ GetInitiatorAgain(n) \/ UnpExists(n) \/ UnpNodes(n) \/ DeleteNode(n)
             \/ DeleteLvol(n)
    <3>1. ~Published(n)'
      BY <1>1, <1>2, <2>1
         DEF Scan, CreateCheck, CreateLvol, PubExists, GetPortal, CreatePortal, GetPortalAgain,
             GetInitiator, CreateInitiator, GetInitiatorAgain, UnpExists, UnpNodes, DeleteNode,
             DeleteLvol, TypeOK
    <3> QED BY <1>4, <3>1
  <2>2. CASE PubNodes(n)
    BY <1>1, <1>4, <2>2 DEF PubNodes, IsVolumePublished, TypeOK
  <2>3. CASE CreateNode(n)
    BY <1>1, <1>4, <2>3 DEF CreateNode, Serve, TypeOK
  <2>4. CASE InfoVolume(n)
    BY <1>1, <1>4, <2>4 DEF InfoVolume, ReachOK, TypeOK
  <2>5. CASE InfoStores(n)
    BY <1>1, <1>2, <1>4, <2>5 DEF InfoStores, ReachOK, TypeOK
  <2> QED BY <2>1, <2>2, <2>3, <2>4, <2>5 DEF Work
<1>5. ASSUME NEW k \in Names \ cut, k # n, Published(k)' PROVE vol'[k] \in nodes' \cup unsure'
  <2>1. Published(k) /\ vol'[k] = vol[k] /\ pc[k] \in VolumeLabels
    BY <1>1, <1>2, <1>5 DEF TypeOK, VolumeLabels, Labels
  <2> QED BY <1>1, <1>2, <1>3, <1>5, <2>1, OtherLvol DEF ReachOK
<1>6. ASSUME NEW k \in Names \ cut, bound[k] \notin doomed \cup unsure' \cup {None}
      PROVE  bound[k] \in nodes'
  <2>1. bound[k] \in nodes
    BY <1>1, <1>2, <1>6 DEF ReachOK
  <2>2. bound[k] # vol[n] \/ pc[n] \notin VolumeLabels
    BY <1>1, <1>2, <1>6 DEF HandlersOK, BoundOK, TypeOK
  <2> QED BY <1>3, <2>1, <2>2
<1> QED BY <1>2, <1>4, <1>5, <1>6 DEF ReachOK

-----------------------------------------------------------------------------
(* The other steps.                                                          *)

(* The CO calls. *)
LEMMA CallsKeepIInv ==
  ASSUME IInv, NEW n \in Names, CallCreateVolume(n) \/ CallDeleteVolume(n)
  PROVE  IInv'
<1> USE DEF IInv, CallCreateVolume, CallDeleteVolume, Goto, target, orchestrator, history
<1>1. TypeOK'
  BY DEF TypeOK, Labels
<1>2. HandlersOK'
  BY DEF HandlersOK, BoundOK, TypeOK, CreateLabels, VolumeLabels, Labels
<1>3. BoundOK' /\ LateOK'
  BY DEF BoundOK, LateOK
<1>4. NodesOK'
  BY DEF NodesOK, TypeOK, UnpublishedLabels
<1>5. ReachOK'
  BY DEF ReachOK, HandlersOK, TypeOK
<1> QED BY <1>1, <1>2, <1>3, <1>4, <1>5

(* A handler returns; the CO learns the id of a volume that is published.    *)
LEMMA ReturnKeepsIInv ==
  ASSUME IInv, NEW n \in Names, Return(n)
  PROVE  IInv'
<1> USE DEF IInv, Return, Goto, target, history
<1>0. pc[n] = "ok" => vol[n] \in 1..born /\ lvname[vol[n]] = n /\ vol[n] \in Lvols
  BY IscsiAssumption DEF HandlersOK, VolumeLabels, Labels, TypeOK, Lvols
<1>1. TypeOK'
  BY <1>0 DEF TypeOK, Labels
<1>2. HandlersOK'
  BY DEF HandlersOK, TypeOK, CreateLabels, VolumeLabels, Labels
<1>3. BoundOK' /\ LateOK'
  BY <1>0 DEF BoundOK, LateOK, TypeOK
<1>4. NodesOK'
  BY DEF NodesOK, TypeOK, UnpublishedLabels
<1>5. ReachOK'
  BY DEF ReachOK, TypeOK
<1> QED BY <1>1, <1>2, <1>3, <1>4, <1>5

(* The controller's process ends. *)
LEMMA ProcessEndsKeepsIInv ==
  ASSUME IInv, Fault, ProcessEnds
  PROVE  IInv'
<1> USE DEF IInv, Fault, ProcessEnds, target, orchestrator
<1>1. TypeOK'
  BY IscsiAssumption DEF TypeOK, Labels
<1>2. HandlersOK'
  BY DEF HandlersOK, CreateLabels, VolumeLabels
<1>3. BoundOK' /\ LateOK'
  BY DEF BoundOK, LateOK
<1>4. NodesOK'
  BY DEF NodesOK, UnpublishedLabels
<1>5. ReachOK'
  BY DEF ReachOK
<1> QED BY <1>1, <1>2, <1>3, <1>4, <1>5

(* The target loses its groups and target nodes in a restart. *)
LEMMA TargetRestartsKeepsIInv ==
  ASSUME IInv, TargetRestarts
  PROVE  IInv'
<1> USE DEF IInv, Fault, TargetRestarts, handlers, orchestrator
<1>1. TypeOK'
  <2>1. faults' \in 0..MaxFaults
    BY IscsiAssumption DEF TypeOK
  <2> QED BY <2>1 DEF TypeOK
<1>2. HandlersOK'
  BY DEF HandlersOK
<1>3. BoundOK' /\ LateOK' /\ NodesOK' /\ ReachOK'
  BY DEF BoundOK, LateOK, NodesOK, ReachOK
<1> QED BY <1>1, <1>2, <1>3

(* A request given up is served: if it is about a target node or deletes an  *)
(* lvol, the lvol is unsure.                                                 *)
LEMMA ServeLateKeepsIInv ==
  ASSUME IInv, ServeLate
  PROVE  IInv'
<1>1. TypeOK /\ HandlersOK /\ BoundOK /\ LateOK /\ NodesOK /\ ReachOK
  BY DEF IInv
<1>2. PICK c \in late :
        /\ late' = late \ {c}
        /\ Serve(c[1], c[2]) \/ (~Accepts(c[1], c[2]) /\ UNCHANGED target)
        /\ UNCHANGED <<handlers, orchestrator, history>>
  BY DEF ServeLate
<1>3. CASE UNCHANGED target
  <2> USE <1>1, <1>2, <1>3 DEF target, handlers, orchestrator, history
  <2>1. TypeOK'
    BY DEF TypeOK
  <2>2. HandlersOK' /\ BoundOK' /\ LateOK' /\ NodesOK' /\ ReachOK'
    BY DEF HandlersOK, BoundOK, LateOK, NodesOK, ReachOK
  <2> QED BY <2>1, <2>2 DEF IInv
<1>4. CASE Serve(c[1], c[2])
  <2>1. c[1] \in Methods /\ IF c[1] = "bdev_lvol_create" THEN c[2] \in Names ELSE c[2] \in 1..born
    BY <1>1 DEF TypeOK, LateOK, Methods
  <2> DEFINE m == c[1]
             x == c[2]
  <2>2. /\ born' \in born..MaxLvols /\ 1..born \subseteq 1..born'
        /\ live' \subseteq 1..born'
        /\ lvname' \in [Lvols -> Names \cup {None}]
        /\ portal' \in BOOLEAN /\ initiator' \in BOOLEAN
        /\ nodes' \in SUBSET Lvols
        /\ \A l \in 1..born : lvname'[l] = lvname[l]
        /\ portal => portal'
        /\ initiator => initiator'
        /\ \A l \in live : l \notin live' => l = x /\ m = "bdev_lvol_delete"
        /\ \A l \in nodes : l \notin nodes' => l = x /\ m = "iscsi_delete_target_node"
        /\ \A l \in nodes' : l \notin nodes =>
             l = x /\ m = "iscsi_create_target_node" /\ l \in live /\ portal /\ initiator
    BY <1>1, <1>4, <2>1, ServeEffect DEF BoundOK
  <2>3. m \in DoubtfulMethods => x \in unsure
    BY <1>1 DEF LateOK, DoubtfulMethods
  <2>4. /\ \A l \in live : l \notin live' => l \in unsure
        /\ \A l \in nodes : l \notin nodes' => l \in unsure
        /\ \A l \in nodes' : l \notin nodes => l \in unsure /\ portal /\ initiator
    BY <2>2, <2>3 DEF DoubtfulMethods
  <2>5. UNCHANGED <<pc, op, vol, bound, doomed, deleted, cut, unsure, faults>> /\ late' \subseteq late
    BY <1>2 DEF handlers, orchestrator, history
  <2> HIDE DEF m, x
  <2>6. TypeOK'
    <3>1. born' \in 0..MaxLvols /\ live' \in SUBSET Lvols
      BY <1>1, <2>2, IscsiAssumption DEF TypeOK, Lvols
    <3> QED BY <1>1, <2>2, <2>5, <3>1 DEF TypeOK
  <2>7. HandlersOK' /\ BoundOK' /\ LateOK'
    BY <1>1, <2>2, <2>5 DEF HandlersOK, BoundOK, LateOK
  <2>8. NodesOK'
    BY <1>1, <2>2, <2>4, <2>5 DEF NodesOK
  <2>9. ReachOK'
    BY <1>1, <2>4, <2>5 DEF ReachOK
  <2> QED BY <2>6, <2>7, <2>8, <2>9 DEF IInv
<1> QED BY <1>2, <1>3, <1>4

-----------------------------------------------------------------------------
(* The results.                                                              *)

(* Nothing has happened yet. *)
LEMMA InitIInv == Init => IInv
<1> SUFFICES ASSUME Init PROVE IInv
  OBVIOUS
<1> USE DEF Init
<1>1. TypeOK
  <2>1. pc \in [Names -> Labels]
    BY DEF Labels
  <2>2. faults \in 0..MaxFaults /\ born \in 0..MaxLvols
    BY IscsiAssumption
  <2> QED BY <2>1, <2>2 DEF TypeOK
<1>2. HandlersOK /\ BoundOK
  BY DEF HandlersOK, BoundOK, CreateLabels, VolumeLabels
<1>3. LateOK /\ NodesOK /\ ReachOK
  BY DEF LateOK, NodesOK, ReachOK, UnpublishedLabels
<1> QED BY <1>1, <1>2, <1>3 DEF IInv

(* Every step keeps the invariant. *)
LEMMA NextIInv == IInv /\ [Next]_vars => IInv'
<1> SUFFICES ASSUME IInv, [Next]_vars PROVE IInv'
  OBVIOUS
<1>1. ASSUME NEW n \in Names, Work(n), ~Panic PROVE IInv'
  <2>1. TypeOK'
    BY <1>1, WorkKeepsTypes
  <2>2. HandlersOK' /\ BoundOK'
    BY <1>1, WorkKeepsHandlers
  <2>3. LateOK'
    BY <1>1, WorkKeepsLate
  <2>4. NodesOK'
    BY <1>1, WorkKeepsNodes
  <2>5. ReachOK'
    BY <1>1, WorkKeepsReach
  <2> QED BY <2>1, <2>2, <2>3, <2>4, <2>5 DEF IInv
<1>2. CASE Panic \/ Crash
  BY <1>2, ProcessEndsKeepsIInv DEF Panic, Crash
<1>3. ASSUME NEW n \in Names, CallCreateVolume(n) \/ CallDeleteVolume(n) PROVE IInv'
  BY <1>3, CallsKeepIInv
<1>4. ASSUME NEW n \in Names, Return(n) PROVE IInv'
  BY <1>4, ReturnKeepsIInv
<1>5. CASE ServeLate
  BY <1>5, ServeLateKeepsIInv
<1>6. CASE TargetRestarts
  BY <1>6, TargetRestartsKeepsIInv
<1>7. CASE UNCHANGED vars
  <2> USE <1>7 DEF IInv, vars, target, handlers, orchestrator, history
  <2>1. TypeOK'
    BY DEF TypeOK
  <2>2. HandlersOK' /\ BoundOK' /\ LateOK' /\ NodesOK' /\ ReachOK'
    BY DEF HandlersOK, BoundOK, LateOK, NodesOK, ReachOK
  <2> QED BY <2>1, <2>2
<1>8. Next => \/ ServeLate \/ Crash \/ TargetRestarts \/ UNCHANGED vars
              \/ \E n \in Names : CallCreateVolume(n) \/ CallDeleteVolume(n) \/ Return(n) \/ Work(n)
  BY DEF Next, Step, Work, Quiescent
<1> QED BY <1>1, <1>2, <1>3, <1>4, <1>5, <1>6, <1>7, <1>8

(* The inductive invariant holds in every reachable state. *)
THEOREM InductiveInvariant == Spec => []IInv
  BY InitIInv, NextIInv, PTL DEF Spec

(* Every variable keeps its type. *)
THEOREM TypeCorrect == Spec => []TypeOK
<1>1. IInv => TypeOK
  BY DEF IInv
<1> QED BY <1>1, InductiveInvariant, PTL

(* A volume that CreateVolume acknowledged has its lvol, its target node and *)
(* both groups, with the exceptions that AckedIsReachable names.             *)
THEOREM AckedVolumesAreReachable == Spec => []AckedIsReachable
<1>1. IInv => AckedIsReachable
  BY DEF IInv, ReachOK, NodesOK, AckedIsReachable
<1> QED BY <1>1, InductiveInvariant, PTL

(* The roll-back of CreateVolume and DeleteVolume leave no target node       *)
(* behind of which every call got its reply.                                 *)
THEOREM NoTargetNodeOutlivesItsLvol == Spec => []NoTargetNodeLeft
<1>1. IInv => NoTargetNodeLeft
  BY DEF IInv, NodesOK, NoTargetNodeLeft
<1> QED BY <1>1, InductiveInvariant, PTL

-----------------------------------------------------------------------------
(* Calls for different volumes.  The bound on lvols has to leave one for     *)
(* each volume, or bdev_lvol_create fails for want of room.                  *)

EnoughLvols == IsFiniteSet(Names) /\ Cardinality(Names) <= MaxLvols

(* If the lvols created so far have different names, and not all of them,    *)
(* there is room for another.                                                *)
LEMMA RoomForAnother ==
  ASSUME EnoughLvols, born \in Nat, NEW n \in Names,
         \A l \in 1..born : lvname[l] \in Names /\ lvname[l] # n,
         \A l, k \in 1..born : lvname[l] = lvname[k] => l = k
  PROVE  born < MaxLvols
<1> DEFINE Others == Names \ {n}
           f == [l \in 1..born |-> lvname[l]]
<1>1. IsFiniteSet(Others) /\ Cardinality(Others) = Cardinality(Names) - 1
  BY FS_RemoveElement DEF EnoughLvols
<1>2. IsFiniteSet(1..born) /\ Cardinality(1..born) = born
  BY FS_Interval
<1>3. f \in [1..born -> Others]
  OBVIOUS
<1>4. ~(Cardinality(Others) < Cardinality(1..born))
  <2> SUFFICES ASSUME Cardinality(Others) < Cardinality(1..born) PROVE FALSE
    OBVIOUS
  <2> HIDE DEF Others, f
  <2>1. \E l, k \in 1..born : l # k /\ f[l] = f[k]
    BY <1>1, <1>2, <1>3, FS_PigeonHole
  <2> QED BY <2>1 DEF f
<1>5. Cardinality(Names) \in Nat
  BY FS_CardinalityType DEF EnoughLvols
<1> HIDE DEF Others
<1> QED BY <1>1, <1>2, <1>4, <1>5, IscsiAssumption DEF EnoughLvols

(* A handler keeps HarmlessOK: what it checked stays true until it acts on   *)
(* it, and whoever creates a group first, everybody finds it.                *)
LEMMA WorkKeepsHarmless ==
  ASSUME EnoughLvols, IInv, HarmlessOK, NEW n \in Names, Work(n)
  PROVE  HarmlessOK'
<1> SUFFICES ASSUME faults' = 0 PROVE HarmlessOK'
  BY DEF HarmlessOK
<1>1. TypeOK /\ HandlersOK /\ BoundOK
  BY DEF IInv
<1>2. ~Fault /\ ~Panic
  BY <1>1 DEF Fault, Panic, TypeOK
<1>3. /\ faults = 0 /\ UNCHANGED <<op, bound>>
      /\ pc[n] \in Labels \ {"idle", "ok", "err"} /\ pc'[n] \in Labels \ {"idle", "scan"}
      /\ pc' = [pc EXCEPT ![n] = pc'[n]] /\ vol' = [vol EXCEPT ![n] = vol'[n]]
  BY <1>1, <1>2, WorkShape DEF orchestrator
<1> USE DEF HarmlessOK
<1>4. /\ pc[n] \in {"scan", "createCheck", "createLvol"} => \A l \in 1..born : lvname[l] # n
      /\ op[n] = "create" => pc[n] \notin {"unpExists", "unpNodes", "deleteNode", "deleteLvol"}
      /\ op[n] = "create" /\ pc[n] \in VolumeLabels => vol[n] \in live
  BY <1>1, <1>3 DEF HandlersOK, CreateLabels
<1>5. pc[n] = "createLvol" => Accepts("bdev_lvol_create", n)
  <2>1. pc[n] = "createLvol" => born < MaxLvols
    BY <1>1, <1>3, <1>4, RoomForAnother DEF TypeOK
  <2> QED BY <1>1, <1>4, <2>1 DEF Accepts, Named, BoundOK
<1> USE DEF FindName, Proceed, Ask, Rpc, Goto, OnError
<1>6. /\ late' = {}
      /\ IF pc[n] = "createLvol" THEN Serve("bdev_lvol_create", n) /\ pc'[n] = "pubExists" /\ vol'[n] = born'
         ELSE UNCHANGED <<born, lvname>>
  <2> USE DEF Scan, CreateCheck, CreateLvol, PubExists, PubNodes, GetPortal, CreatePortal,
            GetPortalAgain, GetInitiator, CreateInitiator, GetInitiatorAgain, CreateNode,
            InfoVolume, InfoStores, UnpExists, UnpNodes, DeleteNode, DeleteLvol
  <2>1. late' = {}
    BY <1>2, <1>3 DEF Work
  <2>2. pc[n] = "createLvol" => Serve("bdev_lvol_create", n) /\ pc'[n] = "pubExists" /\ vol'[n] = born'
    BY <1>1, <1>2, <1>5 DEF Work, TypeOK
  <2>3. pc[n] # "createLvol" => UNCHANGED <<born, lvname>>
    BY <1>1, <1>2 DEF Work, Serve, target
  <2> QED BY <2>1, <2>2, <2>3
<1>7. /\ pc'[n] # "err"
      /\ op[n] = "create" => pc'[n] \notin {"unpExists", "unpNodes", "deleteNode", "deleteLvol"}
      /\ pc'[n] \in {"createCheck", "createLvol"} => pc[n] \in {"scan", "createCheck"}
      /\ op[n] = "create" /\ pc'[n] \in VolumeLabels => vol'[n] \in live'
      /\ pc'[n] \in UnpublishedLabels => vol'[n] \notin nodes'
      /\ pc'[n] \in UnpublishedLabels \ {"getPortal", "createPortal"} => portal'
      /\ pc'[n] \in {"getInitiatorAgain", "createNode"} => initiator'
      /\ pc'[n] = "deleteNode" => vol'[n] \in nodes'
  <2> USE <1>1, <1>2, <1>3, <1>4 DEF VolumeLabels, Labels, UnpublishedLabels, TypeOK, target
  <2>1. CASE Scan(n) \/ CreateCheck(n)
    BY <2>1 DEF Scan, CreateCheck, Named
  <2>2. CASE CreateLvol(n)
    BY <1>6, <2>2 DEF CreateLvol, Serve
  <2>3. CASE PubExists(n) \/ InfoVolume(n) \/ UnpExists(n)
    BY <2>3 DEF PubExists, InfoVolume, UnpExists, Exists, HandlersOK, CreateLabels
  <2>4. CASE PubNodes(n) \/ GetPortal(n) \/ GetPortalAgain(n)
    BY <2>4 DEF PubNodes, GetPortal, GetPortalAgain, IsVolumePublished, HandlersOK, CreateLabels
  <2>5. CASE GetInitiator(n) \/ GetInitiatorAgain(n)
    BY <2>5 DEF GetInitiator, GetInitiatorAgain, HandlersOK, CreateLabels
  <2>10. CASE InfoStores(n)
    BY <2>10 DEF InfoStores, HandlersOK, CreateLabels
  <2>11. CASE UnpNodes(n)
    BY <2>11 DEF UnpNodes, IsVolumePublished
  <2>6. CASE CreatePortal(n) \/ CreateInitiator(n)
    <3>1. op[n] = "create" /\ pc[n] \in VolumeLabels \cap UnpublishedLabels
      BY <2>6 DEF CreatePortal, CreateInitiator, HandlersOK, CreateLabels
    <3>2. vol'[n] = vol[n] /\ UNCHANGED <<live, nodes>>
      BY <2>6 DEF CreatePortal, CreateInitiator, Serve
    <3>3. \/ pc'[n] \in {"getInitiator", "getPortalAgain"} /\ portal'
          \/ pc'[n] \in {"createNode", "getInitiatorAgain"} /\ portal' /\ initiator'
      <4>1. CASE CreatePortal(n)
        <5>1. \/ pc'[n] = "getInitiator" /\ Serve("iscsi_create_portal_group", vol[n])
              \/ pc'[n] = "getPortalAgain" /\ portal /\ UNCHANGED target
          BY <4>1 DEF CreatePortal, Accepts
        <5>2. Serve("iscsi_create_portal_group", vol[n]) => portal'
          BY DEF Serve
        <5> QED BY <5>1, <5>2
      <4>2. CASE CreateInitiator(n)
        <5>1. \/ pc'[n] = "createNode" /\ Serve("iscsi_create_initiator_group", vol[n])
              \/ pc'[n] = "getInitiatorAgain" /\ initiator /\ UNCHANGED target
          BY <4>2 DEF CreateInitiator, Accepts
        <5>2. Serve("iscsi_create_initiator_group", vol[n]) /\ portal => portal' /\ initiator'
          BY DEF Serve
        <5>3. portal
          BY <4>2 DEF CreateInitiator
        <5> QED BY <5>1, <5>2, <5>3
      <4> QED BY <2>6, <4>1, <4>2
    <3> QED BY <3>1, <3>2, <3>3
  <2>7. CASE CreateNode(n)
    <3>1. op[n] = "create" /\ Accepts("iscsi_create_target_node", vol[n])
      BY <2>7 DEF CreateNode, Accepts, HandlersOK, CreateLabels
    <3>2. pc'[n] = "infoVolume" /\ vol'[n] = vol[n] /\ Serve("iscsi_create_target_node", vol[n])
      BY <2>7, <3>1 DEF CreateNode
    <3>3. live' = live /\ vol[n] \in live
      BY <3>1, <3>2 DEF Serve, Accepts
    <3> QED BY <3>1, <3>2, <3>3
  <2>8. CASE DeleteNode(n)
    BY <2>8 DEF DeleteNode, Serve, Accepts
  <2>9. CASE DeleteLvol(n)
    <3>1. op[n] = "delete"
      BY <2>9 DEF DeleteLvol, HandlersOK
    <3>2. pc'[n] = "ok"
      BY <2>9, <3>1 DEF DeleteLvol
    <3> QED BY <3>1, <3>2
  <2> QED BY <2>1, <2>2, <2>3, <2>4, <2>5, <2>6, <2>7, <2>8, <2>9, <2>10, <2>11 DEF Work
<1>8. /\ born' \in Nat /\ \A l \in 1..born' : l \in 1..born \/ (pc[n] = "createLvol" /\ l = born' /\ lvname'[l] = n)
      /\ \A l \in 1..born : lvname'[l] = lvname[l]
  BY <1>1, <1>6, IscsiAssumption DEF Serve, TypeOK, Lvols, Accepts
<1>9. /\ \A l \in 1..born' : lvname'[l] \in Names
      /\ \A l, k \in 1..born' : lvname'[l] = lvname'[k] => l = k
  BY <1>3, <1>4, <1>8
<1>10. /\ portal => portal'
       /\ initiator => initiator'
       /\ \A l \in live : l \notin live' => l = vol[n] /\ pc[n] \in VolumeLabels
       /\ \A l \in nodes : l \notin nodes' => l = vol[n] /\ pc[n] \in VolumeLabels
       /\ \A l \in nodes' : l \notin nodes => l = vol[n] /\ pc[n] \in VolumeLabels
  BY <1>2, WorkEffect
<1>11. ASSUME NEW k \in Names, k # n
       PROVE  /\ pc'[k] # "err"
              /\ op[k] = "create" => pc'[k] \notin {"unpExists", "unpNodes", "deleteNode", "deleteLvol"}
              /\ bound[k] = None /\ pc'[k] \in {"idle", "scan", "createCheck", "createLvol"} =>
                   \A l \in 1..born' : lvname'[l] # k
              /\ op[k] = "create" /\ pc'[k] \in VolumeLabels => vol'[k] \in live'
              /\ pc'[k] \in UnpublishedLabels => vol'[k] \notin nodes'
              /\ pc'[k] \in UnpublishedLabels \ {"getPortal", "createPortal"} => portal'
              /\ pc'[k] \in {"getInitiatorAgain", "createNode"} => initiator'
              /\ pc'[k] = "deleteNode" => vol'[k] \in nodes'
  <2>1. pc'[k] = pc[k] /\ vol'[k] = vol[k]
    BY <1>1, <1>3, <1>11 DEF TypeOK
  <2>2. pc[k] \in UnpublishedLabels \cup {"deleteNode"} => pc[k] \in VolumeLabels
    BY DEF UnpublishedLabels, VolumeLabels, Labels
  <2>3. pc[k] \in VolumeLabels /\ pc[n] \in VolumeLabels => vol[k] # vol[n]
    BY <1>1, <1>11, OtherLvol
  <2> QED BY <1>3, <1>8, <1>10, <1>11, <2>1, <2>2, <2>3
<1>12. bound[n] = None /\ pc'[n] \in {"idle", "scan", "createCheck", "createLvol"} =>
         \A l \in 1..born' : lvname'[l] # n
  BY <1>3, <1>4, <1>7, <1>8
<1> QED BY <1>3, <1>6, <1>7, <1>9, <1>11, <1>12

(* So do the other steps, as long as nothing fails. *)
LEMMA NextHarmless ==
  ASSUME EnoughLvols, IInv, HarmlessOK, [Next]_vars
  PROVE  HarmlessOK'
<1> SUFFICES ASSUME faults' = 0 PROVE HarmlessOK'
  BY DEF HarmlessOK
<1>1. TypeOK /\ HandlersOK /\ BoundOK
  BY DEF IInv
<1>2. ~Fault
  BY <1>1 DEF Fault, TypeOK
<1>3. ASSUME NEW n \in Names, Work(n) PROVE HarmlessOK'
  BY <1>3, WorkKeepsHarmless
<1>4. ASSUME NEW n \in Names, CallCreateVolume(n) \/ CallDeleteVolume(n) PROVE HarmlessOK'
  BY <1>1, <1>4 DEF CallCreateVolume, CallDeleteVolume, Goto, HarmlessOK, UnpublishedLabels,
     VolumeLabels, TypeOK, target, orchestrator, history
<1>5. ASSUME NEW n \in Names, Return(n) PROVE HarmlessOK'
  BY <1>1, <1>5, IscsiAssumption DEF Return, Goto, HarmlessOK, UnpublishedLabels, VolumeLabels, Labels, TypeOK,
     HandlersOK, target, history
<1>6. CASE ServeLate
  BY <1>6 DEF ServeLate, HarmlessOK, history
<1>7. CASE UNCHANGED vars
  BY <1>7 DEF HarmlessOK, vars, target, handlers, orchestrator, history
<1>8. Next => \/ ServeLate \/ UNCHANGED vars
              \/ \E n \in Names : CallCreateVolume(n) \/ CallDeleteVolume(n) \/ Return(n) \/ Work(n)
  BY <1>2 DEF Next, Step, Work, Quiescent, Crash, TargetRestarts
<1> QED BY <1>3, <1>4, <1>5, <1>6, <1>7, <1>8

(* PublishVolume and the other calls are thread safe for different volumes,  *)
(* as SpdkNode in jsonrpc.go asks: no interleaving of them makes one fail,   *)
(* if there is an lvol for each volume.                                      *)
THEOREM CallsForDifferentVolumesAreSafe ==
  ASSUME EnoughLvols
  PROVE  Spec => []RacesAreHarmless
<1>1. Init => HarmlessOK
  BY DEF Init, HarmlessOK, UnpublishedLabels
<1>2. IInv /\ HarmlessOK /\ [Next]_vars => HarmlessOK'
  BY NextHarmless
<1>3. HarmlessOK => RacesAreHarmless
  BY DEF HarmlessOK, RacesAreHarmless
<1> QED BY <1>1, <1>2, <1>3, InductiveInvariant, PTL DEF Spec
=============================================================================
