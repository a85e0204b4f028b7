-------------------------- MODULE ControllerProofs ---------------------------
(* Proofs about Controller, for any storage nodes, stores, names, lvols and  *)
(* workers, and any number of failures, restarts and abandoned calls.        *)
EXTENDS Controller, TLAPS

Born(l) == status[l] # "unborn"

(* Labels at which a handler works on vol[t]. *)
VolumeLabels == {"pubExists", "pubListeners", "pubTransport", "pubSubsystem", "pubNs",
                 "pubListener", "infoVolume", "infoLvol", "infoStores", "unpExists",
                 "unpListeners", "getNsID", "removeNs", "deleteSubsystem", "deleteLvol", "ok"}

(* Labels a DeleteVolume handler passes. *)
DeleteLabels == {"lock", "unpExists", "unpListeners", "getNsID", "removeNs",
                 "deleteSubsystem", "deleteLvol", "ok", "err"}

(* A handler works on an lvol of its own request: a delete on the lvol whose *)
(* id it was given, a create on one created under the name it was given.     *)
HandlersOK ==
  \A t \in Workers :
    /\ Busy(t) =>
         \/ op[t] = "create" /\ key[t] \in Names
         \/ /\ op[t] = "delete" /\ key[t] \in Lvols /\ vol[t] = key[t]
            /\ Born(vol[t]) /\ pc[t] \in DeleteLabels
    /\ pc[t] \in VolumeLabels =>
         /\ vol[t] \in Lvols /\ Born(vol[t])
         /\ op[t] = "create" => lvname[vol[t]] = key[t]
    /\ pc[t] \in {"createCheck", "createLvol"} => store[t] \in Stores

LateOK == \A c \in late : Born(c[2])

(* A namespace shows a live lvol, and a deletion is reported only for an     *)
(* lvol that is gone.                                                        *)
DeletionOK ==
  /\ \A l \in Lvols : "namespace" \in export[l] => Live(l)
  /\ \A t \in Workers : pc[t] = "ok" /\ op[t] = "delete" => status[vol[t]] = "gone"
  /\ \A l \in deleted : status[l] = "gone"

(* A handler past Lock has the lock of its key. *)
LockOK == \A t \in Workers : pc[t] \notin {"idle", "lock"} => holder[key[t]] = t

(* While a name is not blind: every live lvol of the name is in a store that *)
(* the scan has still to ask, and once the scan is over there is none.       *)
ScanOK ==
  /\ \A t \in Workers : pc[t] \in {"idle", "lock", "scanNode"} => left[t] = {}
  /\ \A c \in lateNew : c[2] \in blind
  /\ \A t \in Workers, l \in Lvols :
       Live(l) /\ lvname[l] = key[t] /\ op[t] = "create" /\ key[t] \notin blind =>
         /\ pc[t] \in {"scanNode", "scanStore"} =>
              lvs[l] \in left[t] \/ NodeOf[lvs[l]] \in todo[t]
         /\ pc[t] \notin {"schedule", "createCheck", "createLvol"}

TypeInv == TypeOK /\ HandlersOK /\ LateOK /\ AckedIsOfItsName

IInv == TypeInv /\ DeletionOK /\ LockOK /\ ScanOK /\ OneVolumePerName

-----------------------------------------------------------------------------
(* The storage node.                                                         *)

(* A request that is served keeps the storage node well typed, and neither   *)
(* renames, moves nor revives an lvol that exists or existed.                *)
LEMMA ServeTyping ==
  ASSUME TargetTypeOK, NEW m \in Methods, NEW l \in Lvols, Born(l), Serve(m, l)
  PROVE  /\ TargetTypeOK'
         /\ UNCHANGED <<lvs, lvname>>
         /\ \A k \in Lvols : /\ Born(k) <=> Born(k)'
                             /\ status[k] = "gone" => status'[k] = "gone"
                             /\ Live(k)' => Live(k)
         /\ \A k \in Lvols : k # l => export'[k] = export[k] /\ status'[k] = status[k]
         /\ m = "bdev_lvol_delete" => status'[l] = "gone"
<1>1. ExportAfter(m, l) \in SUBSET Parts
  BY DEF ExportAfter, TargetTypeOK, Parts, Methods
<1>2. lvs[l] \in Stores /\ NodeOf[lvs[l]] \in Nodes
  BY TargetAssumption DEF TargetTypeOK, Born
<1>3. status' \in [Lvols -> {"unborn", "live", "gone"}]
  BY DEF Serve, TargetTypeOK
<1>4. export' = [export EXCEPT ![l] = ExportAfter(m, l)] /\ export' \in [Lvols -> SUBSET Parts]
  BY <1>1 DEF Serve, TargetTypeOK
<1>5. transports' \in SUBSET Nodes
  BY <1>2 DEF Serve, TargetTypeOK
<1>6. UNCHANGED <<lvs, lvname>>
  BY DEF Serve
<1>7. \/ m = "bdev_lvol_delete" /\ Live(l) /\ status' = [status EXCEPT ![l] = "gone"]
      \/ m # "bdev_lvol_delete" /\ status' = status
  BY DEF Serve, Accepts, Methods
<1>8. \A k \in Lvols : /\ Born(k) <=> Born(k)'
                       /\ status[k] = "gone" => status'[k] = "gone"
                       /\ Live(k)' => Live(k)
  BY <1>7 DEF TargetTypeOK, Born, Live
<1>9. TargetTypeOK'
  BY <1>3, <1>4, <1>5, <1>6, <1>8 DEF TargetTypeOK, Born
<1>10. \A k \in Lvols : k # l => export'[k] = export[k] /\ status'[k] = status[k]
  BY <1>4, <1>7 DEF TargetTypeOK
<1>11. m = "bdev_lvol_delete" => status'[l] = "gone"
  BY <1>7 DEF TargetTypeOK
<1> QED BY <1>6, <1>8, <1>9, <1>10, <1>11

(* A namespace stays only as long as its lvol: bdev_lvol_delete removes it   *)
(* and no method adds one to an lvol that is not live.                       *)
LEMMA ServeNamespaces ==
  ASSUME TargetTypeOK, NEW m \in Methods, NEW l \in Lvols, Serve(m, l),
         \A k \in Lvols : "namespace" \in export[k] => Live(k)
  PROVE  \A k \in Lvols : "namespace" \in export'[k] => Live(k)'
<1>1. "namespace" \in ExportAfter(m, l) => Live(l)'
  <2>1. CASE m = "bdev_lvol_delete"
    BY <2>1 DEF ExportAfter
  <2>2. CASE m # "bdev_lvol_delete"
    <3>1. status' = status
      BY <2>2 DEF Serve
    <3>2. "namespace" \in ExportAfter(m, l) => Live(l)
      BY <2>2 DEF ExportAfter, Serve, Accepts, Methods
    <3> QED BY <3>1, <3>2 DEF Live
  <2> QED BY <2>1, <2>2
<1>2. export' = [export EXCEPT ![l] = ExportAfter(m, l)]
  BY DEF Serve
<1>3. \A k \in Lvols : k # l => status'[k] = status[k]
  BY DEF Serve, TargetTypeOK
<1> QED BY <1>1, <1>2, <1>3 DEF TargetTypeOK, Live

(* bdev_lvol_create brings one unborn lvol to life and changes no other.     *)
LEMMA CreateTyping ==
  ASSUME TargetTypeOK, NEW s \in Stores, NEW n \in Names, NEW l \in Lvols, ServeCreate(s, n, l)
  PROVE  /\ TargetTypeOK'
         /\ ~Born(l) /\ Live(l)' /\ Born(l)' /\ lvs'[l] = s /\ lvname'[l] = n
         /\ \A k \in Lvols : k # l =>
              status'[k] = status[k] /\ lvs'[k] = lvs[k] /\ lvname'[k] = lvname[k]
         /\ UNCHANGED <<export, transports>>
  BY DEF TargetTypeOK, ServeCreate, Born, Live

-----------------------------------------------------------------------------
(* The steps of PublishVolume, VolumeInfo, UnpublishVolume and deleteVolume  *)
(* are alike: one call for the handler's lvol, then a label.                 *)

LabelOK(t, q) == q \in VolumeLabels \cup {"err"} /\ (op[t] = "delete" => q \in DeleteLabels)

VolumeStep(t, q) ==
  /\ pc[t] \in VolumeLabels
  /\ LabelOK(t, q)
  /\ pc' = [pc EXCEPT ![t] = q]
  /\ UNCHANGED target \/ \E m \in Methods : Serve(m, vol[t])
  /\ q = "ok" /\ op[t] = "delete" => status'[vol[t]] = "gone"
  /\ late' \subseteq late \cup (Methods \X {vol[t]})
  /\ faults' \in 0..MaxFaults
  /\ UNCHANGED <<op, key, vol, todo, left, store, holder, lateNew, orchestrator, blind, crashes,
                 timeouts>>

CallsOnVolume(t) ==
  \/ PubExists(t) \/ PubListeners(t) \/ PubTransport(t) \/ PubSubsystem(t) \/ PubNs(t)
  \/ PubListener(t) \/ InfoVolume(t) \/ InfoLvol(t) \/ InfoStores(t)
  \/ UnpExists(t) \/ UnpListeners(t) \/ GetNsID(t) \/ RemoveNs(t) \/ DeleteSubsystem(t)
  \/ DeleteLvol(t)

(* Counting a failing JSON-RPC stays within its bound.                       *)
LEMMA FaultTyping == ASSUME TypeOK, Fault PROVE faults' \in 0..MaxFaults
  BY ControllerAssumption DEF TypeOK, Fault

(* A JSON-RPC that changes the target is a VolumeStep, if the three labels   *)
(* it may lead to are labels of the handler.                                 *)
LEMMA RpcIsVolumeStep ==
  ASSUME TypeInv, NEW t \in Workers, pc[t] \in VolumeLabels, NEW m \in Methods,
         NEW ok, NEW refused, NEW failed,
         LabelOK(t, ok), LabelOK(t, refused), LabelOK(t, failed),
         op[t] = "delete" /\ "ok" \in {ok, refused, failed} =>
           m = "bdev_lvol_delete" /\ failed # "ok",
         Rpc(t, m, ok, refused, failed)
  PROVE  \E q : VolumeStep(t, q)
<1>0. TypeOK /\ TargetTypeOK /\ vol[t] \in Lvols /\ Born(vol[t])
  BY DEF TypeInv, TypeOK, HandlersOK
<1>1. CASE Serve(m, vol[t]) /\ Goto(t, ok) /\ UNCHANGED <<late, faults>>
  <2>1. m = "bdev_lvol_delete" => status'[vol[t]] = "gone"
    BY <1>0, <1>1, ServeTyping
  <2>2. VolumeStep(t, ok)
    BY <1>0, <1>1, <2>1 DEF VolumeStep, Rpc, Goto, TypeOK
  <2> QED BY <2>2
<1>2. CASE ~Accepts(m, vol[t]) /\ Goto(t, refused) /\ UNCHANGED <<target, late, faults>>
  <2>1. m = "bdev_lvol_delete" => status'[vol[t]] = "gone"
    BY <1>0, <1>2 DEF Accepts, target, Live, Born, TargetTypeOK
  <2>2. VolumeStep(t, refused)
    BY <1>0, <1>2, <2>1 DEF VolumeStep, Rpc, Goto, TypeOK
  <2> QED BY <2>2
<1>3. CASE /\ Fault /\ Goto(t, failed)
           /\ \/ Serve(m, vol[t]) /\ UNCHANGED late
              \/ late' = late \cup {<<m, vol[t]>>} /\ UNCHANGED target
  <2>1. faults' \in 0..MaxFaults
    BY <1>0, <1>3, FaultTyping
  <2>2. VolumeStep(t, failed)
    BY <1>0, <1>3, <2>1 DEF VolumeStep, Rpc, Goto
  <2> QED BY <2>2
<1> QED BY <1>1, <1>2, <1>3 DEF Rpc

(* So is a JSON-RPC that only reads.                                         *)
LEMMA AskIsVolumeStep ==
  ASSUME TypeInv, NEW t \in Workers, pc[t] \in VolumeLabels,
         NEW condition, NEW yes, NEW no, NEW failed,
         LabelOK(t, yes), LabelOK(t, no), LabelOK(t, failed),
         op[t] = "delete" => "ok" \notin {yes, no, failed},
         Ask(t, condition, yes, no, failed)
  PROVE  \E q : VolumeStep(t, q)
<1>0. TypeOK
  BY DEF TypeInv
<1>1. faults' \in 0..MaxFaults
  BY <1>0, FaultTyping DEF Ask, TypeOK
<1>2. CASE Goto(t, yes)
  <2>1. VolumeStep(t, yes)
    BY <1>1, <1>2 DEF VolumeStep, Ask, Goto
  <2> QED BY <2>1
<1>3. CASE Goto(t, no)
  <2>1. VolumeStep(t, no)
    BY <1>1, <1>3 DEF VolumeStep, Ask, Goto
  <2> QED BY <2>1
<1>4. CASE Goto(t, failed)
  <2>1. VolumeStep(t, failed)
    BY <1>1, <1>4 DEF VolumeStep, Ask, Goto
  <2> QED BY <2>1
<1> QED BY <1>2, <1>3, <1>4 DEF Ask

(* So is bdev_get_bdevs, unless it panics.                                   *)
LEMMA LookUpIsVolumeStep ==
  ASSUME TypeInv, NEW t \in Workers, pc[t] \in VolumeLabels,
         NEW yes, NEW no, LabelOK(t, yes), LabelOK(t, no),
         op[t] = "delete" => yes # "ok",
         LookUp(t, yes, no)
  PROVE  (\E q : VolumeStep(t, q)) \/ Panic
<1>0. TypeOK /\ TargetTypeOK /\ vol[t] \in Lvols /\ Born(vol[t])
  BY DEF TypeInv, TypeOK, HandlersOK
<1>1. CASE ~Panic
  <2>1. CASE Live(vol[t])
    <3>1. VolumeStep(t, yes)
      BY <1>0, <1>1, <2>1 DEF VolumeStep, LookUp, Goto, TypeOK
    <3> QED BY <3>1
  <2>2. CASE ~Live(vol[t])
    <3>1. status[vol[t]] = "gone"
      BY <1>0, <2>2 DEF Live, Born, TargetTypeOK
    <3>2. VolumeStep(t, no)
      BY <1>0, <1>1, <2>2, <3>1 DEF VolumeStep, LookUp, Goto, TypeOK, target
    <3> QED BY <3>2
  <2> QED BY <2>1, <2>2
<1> QED BY <1>1

(* Every call a handler makes for its lvol is such a step or a panic.        *)
LEMMA CallsAreVolumeSteps ==
  ASSUME TypeInv, NEW t \in Workers, CallsOnVolume(t)
  PROVE  (\E q : VolumeStep(t, q)) \/ Panic
<1>0. /\ op[t] = "delete" /\ Busy(t) => pc[t] \in DeleteLabels
      /\ op[t] = "create" \/ op[t] = "delete" \/ ~Busy(t)
  BY DEF TypeInv, HandlersOK
<1> USE DEF LabelOK, VolumeLabels, DeleteLabels, Busy
<1>1. CASE PubExists(t)
  BY <1>0, <1>1, LookUpIsVolumeStep DEF PubExists
<1>2. CASE PubListeners(t)
  BY <1>0, <1>2, AskIsVolumeStep DEF PubListeners
<1>3. CASE PubTransport(t)
  BY <1>0, <1>3, RpcIsVolumeStep DEF PubTransport, Methods
<1>4. CASE PubSubsystem(t)
  BY <1>0, <1>4, RpcIsVolumeStep DEF PubSubsystem, Methods
<1>5. CASE PubNs(t)
  BY <1>0, <1>5, RpcIsVolumeStep DEF PubNs, Methods
<1>6. CASE PubListener(t)
  BY <1>0, <1>6, RpcIsVolumeStep DEF PubListener, Methods
<1>7. CASE InfoVolume(t)
  BY <1>0, <1>7, LookUpIsVolumeStep DEF InfoVolume
<1>8. CASE InfoLvol(t)
  BY <1>0, <1>8, LookUpIsVolumeStep DEF InfoLvol
<1>9. CASE InfoStores(t)
  BY <1>0, <1>9, AskIsVolumeStep DEF InfoStores
<1>10. CASE UnpExists(t)
  BY <1>0, <1>10, LookUpIsVolumeStep DEF UnpExists
<1>11. CASE UnpListeners(t)
  BY <1>0, <1>11, AskIsVolumeStep DEF UnpListeners
<1>12. CASE GetNsID(t)
  BY <1>0, <1>12, AskIsVolumeStep DEF GetNsID
<1>13. CASE RemoveNs(t)
  BY <1>0, <1>13, RpcIsVolumeStep DEF RemoveNs, Methods
<1>14. CASE DeleteSubsystem(t)
  BY <1>0, <1>14, RpcIsVolumeStep DEF DeleteSubsystem, Methods
<1>15. CASE DeleteLvol(t)
  BY <1>0, <1>15, RpcIsVolumeStep DEF DeleteLvol, Methods
<1> QED BY <1>1, <1>2, <1>3, <1>4, <1>5, <1>6, <1>7, <1>8, <1>9, <1>10, <1>11, <1>12, <1>13,
           <1>14, <1>15 DEF CallsOnVolume

-----------------------------------------------------------------------------
(* The invariant holds initially and every step keeps it.                    *)

(* No lvol and no handler exists yet.                                        *)
LEMMA InitIInv == Init => IInv
<1> SUFFICES ASSUME Init PROVE IInv
  OBVIOUS
<1>1. TypeOK
  BY ControllerAssumption DEF Init, TypeOK, TargetInit, TargetTypeOK, Labels, Keys
<1>2. HandlersOK /\ LateOK /\ AckedIsOfItsName
  BY TargetAssumption
  DEF Init, HandlersOK, LateOK, AckedIsOfItsName, Busy, VolumeLabels
<1>3. DeletionOK /\ LockOK /\ ScanOK /\ OneVolumePerName
  BY DEF Init, TargetInit, DeletionOK, LockOK, ScanOK, OneVolumePerName, Live
<1> QED BY <1>1, <1>2, <1>3 DEF IInv, TypeInv

(* A panic or a restart forgets handlers and locks and nothing else.         *)
LEMMA ProcessEndsKeepsIInv ==
  ASSUME IInv, ProcessEnds, faults' \in 0..MaxFaults, crashes' \in 0..MaxCrashes,
         UNCHANGED <<target, late, lateNew, bound, doomed, deleted, blind, timeouts>>
  PROVE  IInv'
<1> USE DEF IInv, TypeInv
<1>1. TypeOK'
  BY DEF TypeOK, TargetTypeOK, ProcessEnds, Labels, Keys, target
<1>2. (HandlersOK /\ LateOK /\ AckedIsOfItsName)'
  BY DEF HandlersOK, LateOK, AckedIsOfItsName, ProcessEnds, Busy, Born, target, VolumeLabels
<1>3. (DeletionOK /\ LockOK)'
  BY DEF DeletionOK, LockOK, ProcessEnds, Live, target
<1>4. (ScanOK /\ OneVolumePerName)'
  BY DEF ScanOK, OneVolumePerName, ProcessEnds, Live, target
<1> QED BY <1>1, <1>2, <1>3, <1>4

(* Calls for an lvol create none and revive none, so they keep what the      *)
(* scans know, and they report a deletion only when the lvol is gone.        *)
LEMMA VolumeStepKeepsIInv ==
  ASSUME IInv, NEW t \in Workers, NEW q, VolumeStep(t, q)
  PROVE  IInv'
<1>0. TypeOK /\ HandlersOK /\ LateOK /\ AckedIsOfItsName /\ DeletionOK /\ LockOK /\ ScanOK
      /\ OneVolumePerName
  BY DEF IInv, TypeInv
<1>1. /\ vol[t] \in Lvols /\ Born(vol[t])
      /\ TargetTypeOK
      /\ q \in Labels /\ q \in VolumeLabels \cup {"err"}
      /\ pc[t] \in VolumeLabels
      /\ pc' = [pc EXCEPT ![t] = q]
      /\ UNCHANGED <<op, key, vol, todo, left, store, holder, lateNew, bound, doomed, deleted,
                     awaited, blind, crashes, timeouts>>
  BY <1>0 DEF HandlersOK, VolumeStep, TypeOK, LabelOK, Labels, VolumeLabels, orchestrator
<1>2. /\ TargetTypeOK'
      /\ UNCHANGED <<lvs, lvname>>
      /\ \A k \in Lvols : /\ Born(k) <=> Born(k)'
                          /\ status[k] = "gone" => status'[k] = "gone"
                          /\ Live(k)' => Live(k)
      /\ \A k \in Lvols : "namespace" \in export'[k] => Live(k)'
  <2>1. CASE UNCHANGED target
    BY <1>0, <1>1, <2>1 DEF target, TargetTypeOK, Born, Live, DeletionOK
  <2>2. CASE \E m \in Methods : Serve(m, vol[t])
    <3>1. PICK m \in Methods : Serve(m, vol[t])
      BY <2>2
    <3>2. \A k \in Lvols : "namespace" \in export'[k] => Live(k)'
      BY <1>0, <1>1, <3>1, ServeNamespaces DEF DeletionOK
    <3> QED BY <1>1, <3>1, <3>2, ServeTyping
  <2> QED BY <2>1, <2>2 DEF VolumeStep
<1>3. TypeOK'
  <2>1. late' \in SUBSET (Methods \X Lvols)
    BY <1>0, <1>1 DEF TypeOK, VolumeStep
  <2> QED BY <1>0, <1>1, <1>2, <2>1 DEF TypeOK, VolumeStep
<1>4. HandlersOK'
  <2> SUFFICES ASSUME NEW u \in Workers
               PROVE  /\ Busy(u)' =>
                           \/ op'[u] = "create" /\ key'[u] \in Names
                           \/ /\ op'[u] = "delete" /\ key'[u] \in Lvols /\ vol'[u] = key'[u]
                              /\ Born(vol[u])' /\ pc'[u] \in DeleteLabels
                      /\ pc'[u] \in VolumeLabels =>
                           /\ vol'[u] \in Lvols /\ Born(vol[u])'
                           /\ op'[u] = "create" => lvname'[vol'[u]] = key'[u]
                      /\ pc'[u] \in {"createCheck", "createLvol"} => store'[u] \in Stores
    BY DEF HandlersOK
  <2>1. \A k \in Lvols : Born(k)' <=> (status'[k] # "unborn")
    BY DEF Born
  <2>2. CASE u = t
    BY <1>0, <1>1, <1>2, <2>1, <2>2
    DEF HandlersOK, TypeOK, Busy, Born, VolumeStep, LabelOK, VolumeLabels
  <2>3. CASE u # t
    BY <1>0, <1>1, <1>2, <2>1, <2>3 DEF HandlersOK, TypeOK, Busy, Born
  <2> QED BY <2>2, <2>3
<1>5. LateOK'
  <2>1. \A c \in late' : c[2] \in Lvols /\ Born(c[2])
    BY <1>0, <1>1 DEF LateOK, TypeOK, VolumeStep
  <2> QED BY <1>2, <2>1 DEF LateOK, Born
<1>6. AckedIsOfItsName'
  BY <1>0, <1>1, <1>2 DEF AckedIsOfItsName, TypeOK, Born
<1>7. DeletionOK'
  BY <1>0, <1>1, <1>2 DEF DeletionOK, TypeOK, VolumeStep, HandlersOK, VolumeLabels
<1>8. LockOK'
  BY <1>0, <1>1 DEF LockOK, TypeOK, VolumeLabels
<1>9. ScanOK'
  BY <1>0, <1>1, <1>2 DEF ScanOK, TypeOK, VolumeLabels
<1>10. OneVolumePerName'
  BY <1>0, <1>1, <1>2 DEF OneVolumePerName
<1> QED BY <1>3, <1>4, <1>5, <1>6, <1>7, <1>8, <1>9, <1>10 DEF IInv, TypeInv

(* The CO sends a request: a new handler waits for its lock and has seen     *)
(* nothing yet.  A DeleteVolume carries the id of an lvol that was created.  *)
LEMMA CallKeepsIInv ==
  ASSUME IInv, NEW t \in Workers,
         (\E n \in Names : CallCreateVolume(t, n)) \/ (\E l \in Lvols : CallDeleteVolume(t, l))
  PROVE  IInv'
<1>0. TypeOK /\ HandlersOK /\ LateOK /\ AckedIsOfItsName /\ DeletionOK /\ LockOK /\ ScanOK
      /\ OneVolumePerName
  BY DEF IInv, TypeInv
<1>1. PICK o, k, l : /\ Start(t, o, k, l)
                     /\ \/ o = "create" /\ k \in Names /\ l = None
                        \/ o = "delete" /\ k \in Lvols /\ l = k /\ Born(l)
                     /\ doomed' \in SUBSET Lvols
  <2>1. CASE \E n \in Names : CallCreateVolume(t, n)
    BY <1>0, <2>1 DEF CallCreateVolume, TypeOK
  <2>2. CASE \E l \in Lvols : CallDeleteVolume(t, l)
    <3>1. PICK l \in Lvols : CallDeleteVolume(t, l)
      BY <2>2
    <3>2. Born(l)
      BY <1>0, <3>1, TargetAssumption DEF CallDeleteVolume, AckedIsOfItsName, Born
    <3> QED BY <1>0, <3>1, <3>2 DEF CallDeleteVolume, TypeOK
  <2> QED BY <2>1, <2>2
<1>2. /\ pc[t] = "idle" /\ pc' = [pc EXCEPT ![t] = "lock"]
      /\ op' = [op EXCEPT ![t] = o]
      /\ key' = [key EXCEPT ![t] = k]
      /\ vol' = [vol EXCEPT ![t] = l]
      /\ awaited' = awaited \cup {t}
      /\ UNCHANGED <<status, lvs, lvname, export, transports, todo, left, store, holder, late,
                     lateNew, bound, deleted, blind, faults, crashes, timeouts>>
  BY <1>1 DEF Start, Goto, target
<1>3. TypeOK'
  BY <1>0, <1>1, <1>2 DEF TypeOK, TargetTypeOK, Labels, Keys
<1>4. HandlersOK'
  BY <1>0, <1>1, <1>2 DEF HandlersOK, TypeOK, Busy, Born, VolumeLabels, DeleteLabels
<1>5. LateOK' /\ AckedIsOfItsName' /\ OneVolumePerName'
  BY <1>0, <1>2 DEF LateOK, AckedIsOfItsName, OneVolumePerName, Born, Live
<1>6. DeletionOK' /\ LockOK'
  BY <1>0, <1>2 DEF DeletionOK, LockOK, TypeOK, Live
<1>7. ScanOK'
  BY <1>0, <1>2 DEF ScanOK, TypeOK, Live
<1> QED BY <1>3, <1>4, <1>5, <1>6, <1>7 DEF IInv, TypeInv

(* The CO stops waiting: nothing else changes.                               *)
LEMMA TimeOutKeepsIInv ==
  ASSUME IInv, NEW t \in Workers, TimeOut(t)
  PROVE  IInv'
<1>0. TypeOK /\ HandlersOK /\ LateOK /\ AckedIsOfItsName /\ DeletionOK /\ LockOK /\ ScanOK
      /\ OneVolumePerName
  BY DEF IInv, TypeInv
<1>1. TypeOK'
  BY <1>0, ControllerAssumption DEF TypeOK, TargetTypeOK, TimeOut, target, handlers
<1>2. HandlersOK' /\ LateOK' /\ AckedIsOfItsName'
  BY <1>0 DEF HandlersOK, LateOK, AckedIsOfItsName, TimeOut, target, handlers, Busy, Born
<1>3. DeletionOK' /\ LockOK' /\ ScanOK' /\ OneVolumePerName'
  BY <1>0 DEF DeletionOK, LockOK, ScanOK, OneVolumePerName, TimeOut, target, handlers, Live
<1> QED BY <1>1, <1>2, <1>3 DEF IInv, TypeInv

(* A handler gets the lock of its key, which no other handler has; a create  *)
(* has all nodes to scan, so every lvol of its name is still to be seen.     *)
LEMMA LockKeepsIInv ==
  ASSUME IInv, NEW t \in Workers, Lock(t)
  PROVE  IInv'
<1>0. TypeOK /\ HandlersOK /\ LateOK /\ AckedIsOfItsName /\ DeletionOK /\ LockOK /\ ScanOK
      /\ OneVolumePerName
  BY DEF IInv, TypeInv
<1> DEFINE q == IF op[t] = "create" THEN "scanNode" ELSE "unpExists"
           nodes == IF op[t] = "create" THEN Nodes ELSE {}
<1>1. /\ pc[t] = "lock" /\ pc' = [pc EXCEPT ![t] = q]
      /\ holder[key[t]] = None
      /\ holder' = [holder EXCEPT ![key[t]] = t]
      /\ todo' = [todo EXCEPT ![t] = nodes]
      /\ UNCHANGED <<status, lvs, lvname, export, transports, op, key, vol, left, store, late,
                     lateNew, bound, doomed, deleted, awaited, blind, faults, crashes, timeouts>>
  BY DEF Lock, Goto, target, orchestrator
<1>2. /\ key[t] \in Keys
      /\ op[t] # "create" => op[t] = "delete" /\ vol[t] \in Lvols /\ Born(vol[t])
  BY <1>0, <1>1 DEF HandlersOK, Busy, Keys
<1>3. TypeOK'
  BY <1>0, <1>1, <1>2 DEF TypeOK, TargetTypeOK, Labels
<1>4. HandlersOK'
  BY <1>0, <1>1, <1>2 DEF HandlersOK, TypeOK, Busy, Born, VolumeLabels, DeleteLabels
<1>5. LateOK' /\ AckedIsOfItsName' /\ OneVolumePerName'
  BY <1>0, <1>1 DEF LateOK, AckedIsOfItsName, OneVolumePerName, Born, Live
<1>6. DeletionOK'
  BY <1>0, <1>1 DEF DeletionOK, TypeOK, Live
<1>7. LockOK'
  <2> SUFFICES ASSUME NEW u \in Workers, pc'[u] \notin {"idle", "lock"}
               PROVE  holder'[key[u]] = u
    BY <1>1 DEF LockOK
  <2>1. CASE u = t
    BY <1>0, <1>1, <1>2, <2>1 DEF TypeOK
  <2>2. CASE u # t
    BY <1>0, <1>1, <1>2, <2>2, ControllerAssumption DEF LockOK, TypeOK
  <2> QED BY <2>1, <2>2
<1>8. ScanOK'
  <2>1. \A l \in Lvols : Live(l) => NodeOf[lvs[l]] \in Nodes
    BY <1>0, TargetAssumption DEF TypeOK, TargetTypeOK, Live
  <2> QED BY <1>0, <1>1, <1>2, <2>1 DEF ScanOK, TypeOK, Live
<1> QED BY <1>3, <1>4, <1>5, <1>6, <1>7, <1>8 DEF IInv, TypeInv

(* A handler returns and gives its lock back; what it acknowledges is an     *)
(* lvol of its name, or one that is gone.                                    *)
LEMMA ReturnKeepsIInv ==
  ASSUME IInv, NEW t \in Workers, Return(t)
  PROVE  IInv'
<1>0. TypeOK /\ HandlersOK /\ LateOK /\ AckedIsOfItsName /\ DeletionOK /\ LockOK /\ ScanOK
      /\ OneVolumePerName
  BY DEF IInv, TypeInv
<1>1. /\ pc[t] \in {"ok", "err"} /\ pc' = [pc EXCEPT ![t] = "idle"]
      /\ op' = [op EXCEPT ![t] = "none"]
      /\ key' = [key EXCEPT ![t] = None]
      /\ vol' = [vol EXCEPT ![t] = None]
      /\ todo' = [todo EXCEPT ![t] = {}]
      /\ left' = [left EXCEPT ![t] = {}]
      /\ store' = [store EXCEPT ![t] = None]
      /\ holder' = [holder EXCEPT ![key[t]] = None]
      /\ awaited' = awaited \ {t}
      /\ UNCHANGED <<status, lvs, lvname, export, transports, late, lateNew, doomed, blind,
                     faults, crashes, timeouts>>
  BY DEF Return, Unlock, Goto, target
<1>2. \/ bound' = bound
      \/ /\ pc[t] = "ok" /\ op[t] = "create" /\ bound' = [bound EXCEPT ![key[t]] = vol[t]]
  BY DEF Return
<1>3. \/ deleted' = deleted
      \/ pc[t] = "ok" /\ op[t] = "delete" /\ deleted' = deleted \cup {vol[t]}
  BY DEF Return
<1>4. /\ key[t] \in Keys /\ (op[t] = "create" => key[t] \in Names)
      /\ pc[t] = "ok" => /\ vol[t] \in Lvols /\ Born(vol[t])
                         /\ op[t] = "create" => lvname[vol[t]] = key[t]
  BY <1>0, <1>1 DEF HandlersOK, TypeOK, Busy, Keys, VolumeLabels
<1>5. TypeOK'
  BY <1>0, <1>1, <1>2, <1>3, <1>4 DEF TypeOK, TargetTypeOK, Labels
<1>6. HandlersOK'
  BY <1>0, <1>1 DEF HandlersOK, TypeOK, Busy, Born, VolumeLabels
<1>7. LateOK' /\ OneVolumePerName'
  BY <1>0, <1>1 DEF LateOK, OneVolumePerName, Born, Live
<1>8. AckedIsOfItsName'
  BY <1>0, <1>1, <1>2, <1>4 DEF AckedIsOfItsName, TypeOK, Born
<1>9. DeletionOK'
  BY <1>0, <1>1, <1>3 DEF DeletionOK, TypeOK, Live
<1>10. LockOK'
  <2> SUFFICES ASSUME NEW u \in Workers, pc'[u] \notin {"idle", "lock"}
               PROVE  holder'[key'[u]] = u
    BY DEF LockOK
  <2>1. u # t /\ key'[u] = key[u] /\ holder[key[u]] = u /\ holder[key[t]] = t
    BY <1>0, <1>1 DEF LockOK, TypeOK
  <2> QED BY <1>0, <1>1, <1>4, <2>1 DEF TypeOK
<1>11. ScanOK'
  BY <1>0, <1>1 DEF ScanOK, TypeOK, Live
<1> QED BY <1>5, <1>6, <1>7, <1>8, <1>9, <1>10, <1>11 DEF IInv, TypeInv

(* The scan goes on to the next node, or gives up and the name turns blind.  *)
LEMMA ScanNodeKeepsIInv ==
  ASSUME IInv, NEW t \in Workers, ScanNode(t)
  PROVE  IInv'
<1>0. TypeOK /\ HandlersOK /\ LateOK /\ AckedIsOfItsName /\ DeletionOK /\ LockOK /\ ScanOK
      /\ OneVolumePerName
  BY DEF IInv, TypeInv
<1>1. /\ pc[t] = "scanNode" /\ left[t] = {} /\ op[t] = "create" /\ key[t] \in Names
      /\ UNCHANGED <<status, lvs, lvname, export, transports, op, key, vol, store, holder, late,
                     lateNew, bound, doomed, deleted, awaited, crashes, timeouts>>
  BY <1>0 DEF ScanNode, ScanOK, HandlersOK, Busy, DeleteLabels, target, orchestrator
<1>2. PICK q \in {"scanNode", "scanStore", "schedule"} : pc' = [pc EXCEPT ![t] = q]
  BY DEF ScanNode, Goto, AfterStore
<1>3. /\ blind' \in SUBSET Names /\ blind \subseteq blind'
      /\ faults' \in 0..MaxFaults
      /\ todo' \in [Workers -> SUBSET Nodes] /\ left' \in [Workers -> SUBSET Stores]
  BY <1>0, <1>1, FaultTyping DEF ScanNode, TypeOK
<1>4. TypeOK'
  BY <1>0, <1>1, <1>2, <1>3 DEF TypeOK, TargetTypeOK, Labels
<1>5. HandlersOK'
  BY <1>0, <1>1, <1>2 DEF HandlersOK, TypeOK, Busy, Born, VolumeLabels
<1>6. LateOK' /\ AckedIsOfItsName' /\ OneVolumePerName'
  BY <1>0, <1>1, <1>3 DEF LateOK, AckedIsOfItsName, OneVolumePerName, Born, Live
<1>7. DeletionOK' /\ LockOK'
  BY <1>0, <1>1, <1>2 DEF DeletionOK, LockOK, TypeOK, Live
<1>8. ScanOK'
  <2>1. CASE Fault /\ Goto(t, "schedule") /\ blind' = blind \cup {key[t]} /\ UNCHANGED <<todo, left>>
    BY <1>0, <1>1, <2>1 DEF ScanOK, TypeOK, Goto, Live
  <2>2. CASE \E nd \in todo[t] :
               LET stores == {s \in Stores : NodeOf[s] = nd} IN
               /\ todo' = [todo EXCEPT ![t] = @ \ {nd}]
               /\ left' = [left EXCEPT ![t] = stores]
               /\ Goto(t, AfterStore(todo[t] \ {nd}, stores))
               /\ UNCHANGED <<faults, blind>>
    <3>1. PICK nd \in todo[t] :
            LET stores == {s \in Stores : NodeOf[s] = nd} IN
            /\ todo' = [todo EXCEPT ![t] = @ \ {nd}]
            /\ left' = [left EXCEPT ![t] = stores]
            /\ Goto(t, AfterStore(todo[t] \ {nd}, stores))
            /\ UNCHANGED <<faults, blind>>
      BY <2>2
    <3>2. \A l \in Lvols : Live(l) => lvs[l] \in Stores
      BY <1>0 DEF TypeOK, TargetTypeOK, Live
    <3>3. pc'[t] \in {"idle", "lock", "scanNode"} => left'[t] = {}
      BY <1>0, <1>1, <3>1 DEF TypeOK, Goto, AfterStore
    <3>4. \A l \in Lvols : Live(l) /\ lvname[l] = key[t] /\ key[t] \notin blind =>
            /\ lvs[l] \in left'[t] \/ NodeOf[lvs[l]] \in todo'[t]
            /\ pc'[t] # "schedule"
      BY <1>0, <1>1, <3>1, <3>2 DEF ScanOK, TypeOK, Goto, AfterStore
    <3>5. \A u \in Workers \ {t} : pc'[u] = pc[u] /\ left'[u] = left[u] /\ todo'[u] = todo[u]
      BY <1>0, <1>2, <3>1 DEF TypeOK
    <3>6. pc'[t] \in {"scanNode", "scanStore", "schedule"} /\ blind' = blind
      BY <1>0, <1>2, <3>1 DEF TypeOK
    <3> QED BY <1>0, <1>1, <3>3, <3>4, <3>5, <3>6 DEF ScanOK, Live
  <2> QED BY <2>1, <2>2 DEF ScanNode
<1> QED BY <1>4, <1>5, <1>6, <1>7, <1>8 DEF IInv, TypeInv

(* A store is asked: it has an lvol of the name, or the scan goes on without *)
(* this store.                                                               *)
LEMMA ScanStoreKeepsIInv ==
  ASSUME IInv, NEW t \in Workers, ScanStore(t), ~Panic
  PROVE  IInv'
<1>0. TypeOK /\ HandlersOK /\ LateOK /\ AckedIsOfItsName /\ DeletionOK /\ LockOK /\ ScanOK
      /\ OneVolumePerName
  BY DEF IInv, TypeInv
<1>1. /\ pc[t] = "scanStore" /\ op[t] = "create" /\ key[t] \in Names
      /\ UNCHANGED <<status, lvs, lvname, export, transports, op, key, todo, store, holder, late,
                     lateNew, bound, doomed, deleted, awaited, blind, faults, crashes, timeouts>>
  BY <1>0 DEF ScanStore, HandlersOK, Busy, DeleteLabels, target, orchestrator
<1>2. PICK s \in left[t] :
        \/ /\ \E l \in GetVolume(key[t], s) : vol' = [vol EXCEPT ![t] = l]
           /\ Goto(t, "pubExists")
           /\ UNCHANGED left
        \/ /\ GetVolume(key[t], s) = {}
           /\ left' = [left EXCEPT ![t] = @ \ {s}]
           /\ Goto(t, AfterStore(todo[t], left[t] \ {s}))
           /\ UNCHANGED vol
  BY DEF ScanStore
<1>3. CASE /\ \E l \in GetVolume(key[t], s) : vol' = [vol EXCEPT ![t] = l]
           /\ Goto(t, "pubExists")
           /\ UNCHANGED left
  <2>1. PICK l \in Lvols : vol' = [vol EXCEPT ![t] = l] /\ Live(l) /\ lvname[l] = key[t]
    BY <1>3 DEF GetVolume, Alias
  <2>2. pc' = [pc EXCEPT ![t] = "pubExists"]
    BY <1>3 DEF Goto
  <2>3. TypeOK'
    BY <1>0, <1>1, <1>3, <2>1, <2>2 DEF TypeOK, TargetTypeOK, Labels
  <2>4. HandlersOK'
    BY <1>0, <1>1, <2>1, <2>2 DEF HandlersOK, TypeOK, Busy, Born, Live, VolumeLabels
  <2>5. LateOK' /\ AckedIsOfItsName' /\ OneVolumePerName'
    BY <1>0, <1>1 DEF LateOK, AckedIsOfItsName, OneVolumePerName, Born, Live
  <2>6. DeletionOK' /\ LockOK' /\ ScanOK'
    BY <1>0, <1>1, <1>3, <2>1, <2>2 DEF DeletionOK, LockOK, ScanOK, TypeOK, Live
  <2> QED BY <2>3, <2>4, <2>5, <2>6 DEF IInv, TypeInv
<1>4. CASE /\ GetVolume(key[t], s) = {}
           /\ left' = [left EXCEPT ![t] = @ \ {s}]
           /\ Goto(t, AfterStore(todo[t], left[t] \ {s}))
           /\ UNCHANGED vol
  <2>1. \A l \in Lvols : Live(l) /\ lvname[l] = key[t] => lvs[l] # s
    BY <1>4 DEF GetVolume, Alias
  <2>2. PICK q \in {"scanNode", "scanStore", "schedule"} : pc' = [pc EXCEPT ![t] = q]
    BY <1>4 DEF Goto, AfterStore
  <2>3. TypeOK'
    BY <1>0, <1>1, <1>4, <2>2 DEF TypeOK, TargetTypeOK, Labels
  <2>4. HandlersOK'
    BY <1>0, <1>1, <1>4, <2>2 DEF HandlersOK, TypeOK, Busy, Born, VolumeLabels
  <2>5. LateOK' /\ AckedIsOfItsName' /\ OneVolumePerName'
    BY <1>0, <1>1 DEF LateOK, AckedIsOfItsName, OneVolumePerName, Born, Live
  <2>6. DeletionOK' /\ LockOK'
    BY <1>0, <1>1, <1>4, <2>2 DEF DeletionOK, LockOK, TypeOK, Live
  <2>7. ScanOK'
    <3>1. pc'[t] \in {"idle", "lock", "scanNode"} => left'[t] = {}
      BY <1>0, <1>4 DEF TypeOK, Goto, AfterStore
    <3>2. \A l \in Lvols : Live(l) /\ lvname[l] = key[t] /\ key[t] \notin blind =>
            /\ lvs[l] \in left'[t] \/ NodeOf[lvs[l]] \in todo[t]
            /\ pc'[t] # "schedule"
      BY <1>0, <1>1, <1>4, <2>1 DEF ScanOK, TypeOK, Goto, AfterStore
    <3>3. \A u \in Workers \ {t} : pc'[u] = pc[u] /\ left'[u] = left[u]
      BY <1>0, <1>4, <2>2 DEF TypeOK
    <3>4. pc'[t] \in {"scanNode", "scanStore", "schedule"}
      BY <1>0, <2>2 DEF TypeOK
    <3> QED BY <1>0, <1>1, <3>1, <3>2, <3>3, <3>4 DEF ScanOK, Live
  <2> QED BY <2>3, <2>4, <2>5, <2>6, <2>7 DEF IInv, TypeInv
<1> QED BY <1>2, <1>3, <1>4

(* A store is chosen, or the handler gives up.                               *)
LEMMA ScheduleKeepsIInv ==
  ASSUME IInv, NEW t \in Workers, Schedule(t)
  PROVE  IInv'
<1>0. TypeOK /\ HandlersOK /\ LateOK /\ AckedIsOfItsName /\ DeletionOK /\ LockOK /\ ScanOK
      /\ OneVolumePerName
  BY DEF IInv, TypeInv
<1>1. /\ pc[t] = "schedule" /\ op[t] = "create" /\ key[t] \in Names
      /\ faults' \in 0..MaxFaults
      /\ UNCHANGED <<status, lvs, lvname, export, transports, op, key, vol, todo, left, holder,
                     late, lateNew, bound, doomed, deleted, awaited, blind, crashes, timeouts>>
  BY <1>0, FaultTyping
  DEF Schedule, HandlersOK, TypeOK, Busy, DeleteLabels, target, orchestrator
<1>2. PICK q \in {"createCheck", "err"} :
        /\ pc' = [pc EXCEPT ![t] = q]
        /\ \/ \E s \in Stores : store' = [store EXCEPT ![t] = s]
           \/ q = "err" /\ store' = store
  BY DEF Schedule, Goto
<1>3. TypeOK'
  BY <1>0, <1>1, <1>2 DEF TypeOK, TargetTypeOK, Labels
<1>4. HandlersOK'
  BY <1>0, <1>1, <1>2 DEF HandlersOK, TypeOK, Busy, Born, VolumeLabels
<1>5. LateOK' /\ AckedIsOfItsName' /\ OneVolumePerName'
  BY <1>0, <1>1 DEF LateOK, AckedIsOfItsName, OneVolumePerName, Born, Live
<1>6. DeletionOK' /\ LockOK' /\ ScanOK'
  BY <1>0, <1>1, <1>2 DEF DeletionOK, LockOK, ScanOK, TypeOK, Live
<1> QED BY <1>3, <1>4, <1>5, <1>6 DEF IInv, TypeInv

(* The chosen store has an lvol of the name, or one is to be created.        *)
LEMMA CreateCheckKeepsIInv ==
  ASSUME IInv, NEW t \in Workers, CreateCheck(t), ~Panic
  PROVE  IInv'
<1>0. TypeOK /\ HandlersOK /\ LateOK /\ AckedIsOfItsName /\ DeletionOK /\ LockOK /\ ScanOK
      /\ OneVolumePerName
  BY DEF IInv, TypeInv
<1>1. /\ pc[t] = "createCheck" /\ op[t] = "create" /\ key[t] \in Names /\ store[t] \in Stores
      /\ UNCHANGED <<status, lvs, lvname, export, transports, op, key, todo, left, store, holder,
                     late, lateNew, bound, doomed, deleted, awaited, blind, faults, crashes,
                     timeouts>>
  BY <1>0 DEF CreateCheck, HandlersOK, Busy, DeleteLabels, target, orchestrator
<1>2. PICK q \in {"pubExists", "createLvol"} :
        /\ pc' = [pc EXCEPT ![t] = q]
        /\ \/ \E l \in Lvols : Live(l) /\ lvname[l] = key[t] /\ vol' = [vol EXCEPT ![t] = l]
           \/ q = "createLvol" /\ vol' = vol
  BY DEF CreateCheck, Goto, Alias
<1>3. TypeOK'
  BY <1>0, <1>1, <1>2 DEF TypeOK, TargetTypeOK, Labels
<1>4. HandlersOK'
  BY <1>0, <1>1, <1>2 DEF HandlersOK, TypeOK, Busy, Born, Live, VolumeLabels
<1>5. LateOK' /\ AckedIsOfItsName' /\ OneVolumePerName'
  BY <1>0, <1>1 DEF LateOK, AckedIsOfItsName, OneVolumePerName, Born, Live
<1>6. DeletionOK' /\ LockOK' /\ ScanOK'
  BY <1>0, <1>1, <1>2 DEF DeletionOK, LockOK, ScanOK, TypeOK, Live
<1> QED BY <1>3, <1>4, <1>5, <1>6 DEF IInv, TypeInv

(* An lvol is born for the name n.  If n is not blind, no other handler is   *)
(* at work on n and no lvol of that name is live: that is what the lock and  *)
(* the scan are for.                                                         *)
LEMMA BirthKeepsIInv ==
  ASSUME IInv, NEW s \in Stores, NEW n \in Names, NEW l \in Lvols, ServeCreate(s, n, l),
         n \notin blind =>
           /\ \A k \in Lvols : Live(k) => lvname[k] # n
           /\ \A u \in Workers : key[u] = n =>
                pc'[u] \notin {"scanNode", "scanStore", "schedule", "createCheck", "createLvol"},
         \A u \in Workers : pc'[u] = "ok" => pc[u] = "ok",
         LockOK', HandlersOK', (TypeOK /\ TargetTypeOK') => TypeOK',
         \A u \in Workers : pc'[u] \in {"idle", "lock", "scanNode", "scanStore", "schedule",
                                        "createCheck", "createLvol"} => pc'[u] = pc[u],
         lateNew' \subseteq lateNew,
         \A u \in Workers : pc[u] = "ok" => vol'[u] = vol[u],
         UNCHANGED <<op, key, todo, left, late, bound, deleted, blind>>
  PROVE  IInv'
<1>0. TypeOK /\ HandlersOK /\ LateOK /\ AckedIsOfItsName /\ DeletionOK /\ LockOK /\ ScanOK
      /\ OneVolumePerName
  BY DEF IInv, TypeInv
<1>1. /\ TargetTypeOK'
      /\ ~Born(l) /\ Live(l)' /\ Born(l)' /\ lvs'[l] = s /\ lvname'[l] = n
      /\ \A k \in Lvols : k # l =>
           status'[k] = status[k] /\ lvs'[k] = lvs[k] /\ lvname'[k] = lvname[k]
      /\ UNCHANGED <<export, transports>>
  BY <1>0, CreateTyping DEF TypeOK
<1>2. LateOK'
  <2>1. \A c \in late : c[2] \in Lvols /\ Born(c[2])
    BY <1>0 DEF LateOK, TypeOK
  <2> QED BY <1>1, <2>1 DEF LateOK, Born
<1>3. AckedIsOfItsName'
  BY <1>0, <1>1 DEF AckedIsOfItsName, TypeOK, Born
<1>4. DeletionOK'
  <2>1. \A k \in Lvols : "namespace" \in export'[k] => Live(k)'
    BY <1>0, <1>1 DEF DeletionOK, Live
  <2>2. \A u \in Workers : pc'[u] = "ok" /\ op'[u] = "delete" => status'[vol'[u]] = "gone"
    BY <1>0, <1>1 DEF DeletionOK, HandlersOK, VolumeLabels, Born
  <2>3. \A k \in deleted' : status'[k] = "gone"
    BY <1>0, <1>1 DEF DeletionOK, TypeOK, Born
  <2> QED BY <2>1, <2>2, <2>3 DEF DeletionOK
<1>5. ScanOK'
  <2>1. \A u \in Workers : pc'[u] \in {"idle", "lock", "scanNode"} => left'[u] = {}
    BY <1>0 DEF ScanOK
  <2>2. \A c \in lateNew' : c[2] \in blind'
    BY <1>0 DEF ScanOK
  <2>3. ASSUME NEW u \in Workers, NEW k \in Lvols,
               Live(k)', lvname'[k] = key[u], op[u] = "create", key[u] \notin blind
        PROVE  /\ pc'[u] \in {"scanNode", "scanStore"} =>
                    lvs'[k] \in left[u] \/ NodeOf[lvs'[k]] \in todo[u]
               /\ pc'[u] \notin {"schedule", "createCheck", "createLvol"}
    <3>1. CASE k = l
      BY <1>1, <2>3, <3>1
    <3>2. CASE k # l
      BY <1>0, <1>1, <2>3, <3>2 DEF ScanOK, Live
    <3> QED BY <3>1, <3>2
  <2> QED BY <2>1, <2>2, <2>3 DEF ScanOK, Live
<1>6. OneVolumePerName'
  BY <1>0, <1>1 DEF OneVolumePerName, Live
<1> QED BY <1>0, <1>1, <1>2, <1>3, <1>4, <1>5, <1>6 DEF IInv, TypeInv

(* bdev_lvol_create by a handler that has the lock of the name and whose     *)
(* scan found nothing.  One that is given up turns the name blind.           *)
LEMMA CreateLvolKeepsIInv ==
  ASSUME IInv, NEW t \in Workers, CreateLvol(t)
  PROVE  IInv'
<1>0. TypeOK /\ HandlersOK /\ LateOK /\ AckedIsOfItsName /\ DeletionOK /\ LockOK /\ ScanOK
      /\ OneVolumePerName
  BY DEF IInv, TypeInv
<1> DEFINE s == store[t]
           n == key[t]
<1>1. /\ pc[t] = "createLvol" /\ op[t] = "create" /\ n \in Names /\ s \in Stores
      /\ faults' \in 0..MaxFaults
      /\ UNCHANGED <<op, key, todo, left, store, holder, late, bound, doomed, deleted, awaited,
                     crashes, timeouts>>
  BY <1>0, FaultTyping
  DEF CreateLvol, HandlersOK, TypeOK, Busy, DeleteLabels, orchestrator
<1>2. CASE \E l \in Lvols :
             /\ ServeCreate(s, n, l)
             /\ \/ Goto(t, "pubExists") /\ vol' = [vol EXCEPT ![t] = l]
                \/ Goto(t, "err") /\ vol' = vol
             /\ UNCHANGED <<lateNew, blind>>
  <2>1. PICK l \in Lvols : /\ ServeCreate(s, n, l)
                           /\ \/ Goto(t, "pubExists") /\ vol' = [vol EXCEPT ![t] = l]
                              \/ Goto(t, "err") /\ vol' = vol
                           /\ UNCHANGED <<lateNew, blind>>
    BY <1>2
  <2>2. PICK q \in {"pubExists", "err"} :
          /\ pc' = [pc EXCEPT ![t] = q]
          /\ q = "pubExists" => vol' = [vol EXCEPT ![t] = l]
          /\ q = "err" => vol' = vol
    BY <2>1 DEF Goto
  <2>3. /\ Born(l)' /\ lvname'[l] = n
        /\ \A k \in Lvols : Born(k) => k # l /\ Born(k)' /\ lvname'[k] = lvname[k]
    BY <1>0, <1>1, <2>1, CreateTyping DEF TypeOK, Born
  <2>4. HandlersOK'
    BY <1>0, <1>1, <2>2, <2>3 DEF HandlersOK, TypeOK, Busy, Born, VolumeLabels
  <2>5. LockOK'
    BY <1>0, <1>1, <2>2 DEF LockOK, TypeOK
  <2>6. TypeOK /\ TargetTypeOK' => TypeOK'
    BY <1>0, <1>1, <2>1, <2>2 DEF TypeOK, Labels
  <2>7. n \notin blind =>
          /\ \A k \in Lvols : Live(k) => lvname[k] # n
          /\ \A u \in Workers : key[u] = n =>
               pc'[u] \notin {"scanNode", "scanStore", "schedule", "createCheck", "createLvol"}
    <3>1. \A u \in Workers : key[u] = n /\ u # t => pc[u] \in {"idle", "lock"}
      BY <1>0, <1>1 DEF LockOK
    <3>2. n \notin blind => \A k \in Lvols : Live(k) => lvname[k] # n
      BY <1>0, <1>1 DEF ScanOK
    <3> QED BY <1>0, <2>2, <3>1, <3>2 DEF TypeOK
  <2>8. \A u \in Workers :
          /\ pc'[u] = "ok" => pc[u] = "ok"
          /\ pc'[u] \in {"idle", "lock", "scanNode", "scanStore", "schedule", "createCheck",
                         "createLvol"} => pc'[u] = pc[u]
          /\ pc[u] = "ok" => vol'[u] = vol[u]
    BY <1>0, <1>1, <2>2 DEF TypeOK
  <2> HIDE DEF s, n
  <2> QED BY <1>1, <2>1, <2>4, <2>5, <2>6, <2>7, <2>8, BirthKeepsIInv
<1>3. CASE /\ Goto(t, "err")
           /\ UNCHANGED <<target, vol>>
           /\ \/ UNCHANGED <<lateNew, blind>>
              \/ lateNew' = lateNew \cup {<<s, n>>} /\ blind' = blind \cup {n}
  <2>1. pc' = [pc EXCEPT ![t] = "err"] /\ UNCHANGED <<status, lvs, lvname, export, transports>>
    BY <1>3 DEF Goto, target
  <2>2. TypeOK'
    BY <1>0, <1>1, <1>3, <2>1 DEF TypeOK, TargetTypeOK, Labels
  <2>3. HandlersOK'
    BY <1>0, <1>1, <1>3, <2>1 DEF HandlersOK, TypeOK, Busy, Born, VolumeLabels
  <2>4. LateOK' /\ AckedIsOfItsName' /\ OneVolumePerName'
    BY <1>0, <1>1, <1>3, <2>1 DEF LateOK, AckedIsOfItsName, OneVolumePerName, Born, Live
  <2>5. DeletionOK' /\ LockOK'
    BY <1>0, <1>1, <1>3, <2>1 DEF DeletionOK, LockOK, TypeOK, Live
  <2>6. ScanOK'
    BY <1>0, <1>1, <1>3, <2>1 DEF ScanOK, TypeOK, Live
  <2> QED BY <2>2, <2>3, <2>4, <2>5, <2>6 DEF IInv, TypeInv
<1> QED BY <1>2, <1>3 DEF CreateLvol

(* A late request touches an lvol that was created, and a late creation has  *)
(* a blind name.                                                             *)
LEMMA ServeLateKeepsIInv ==
  ASSUME IInv, ServeLate
  PROVE  IInv'
<1>0. TypeOK /\ HandlersOK /\ LateOK /\ AckedIsOfItsName /\ DeletionOK /\ LockOK /\ ScanOK
      /\ OneVolumePerName
  BY DEF IInv, TypeInv
<1>1. UNCHANGED <<pc, op, key, vol, todo, left, store, holder, bound, doomed, deleted, awaited,
                  blind, faults, crashes, timeouts>>
  BY DEF ServeLate, handlers, orchestrator
<1>2. CASE UNCHANGED target
  <2>1. late' \subseteq late /\ lateNew' \subseteq lateNew
    BY DEF ServeLate
  <2>2. TypeOK'
    BY <1>0, <1>1, <1>2, <2>1 DEF TypeOK, TargetTypeOK, target
  <2>3. HandlersOK' /\ LateOK' /\ AckedIsOfItsName' /\ OneVolumePerName'
    BY <1>0, <1>1, <1>2, <2>1
    DEF HandlersOK, LateOK, AckedIsOfItsName, OneVolumePerName, Busy, Born, Live, target
  <2>4. DeletionOK' /\ LockOK' /\ ScanOK'
    BY <1>0, <1>1, <1>2, <2>1 DEF DeletionOK, LockOK, ScanOK, Live, target
  <2> QED BY <2>2, <2>3, <2>4 DEF IInv, TypeInv
<1>3. CASE \E c \in late : late' = late \ {c} /\ Serve(c[1], c[2]) /\ UNCHANGED lateNew
  <2>1. PICK m \in Methods, l \in Lvols :
          Born(l) /\ late' \subseteq late /\ Serve(m, l) /\ UNCHANGED lateNew
    BY <1>0, <1>3 DEF LateOK, TypeOK
  <2>2. /\ TargetTypeOK'
        /\ UNCHANGED <<lvs, lvname>>
        /\ \A k \in Lvols : /\ Born(k) <=> Born(k)'
                            /\ status[k] = "gone" => status'[k] = "gone"
                            /\ Live(k)' => Live(k)
    BY <1>0, <2>1, ServeTyping DEF TypeOK
  <2>3. \A k \in Lvols : "namespace" \in export'[k] => Live(k)'
    BY <1>0, <2>1, ServeNamespaces DEF TypeOK, DeletionOK
  <2>4. TypeOK'
    BY <1>0, <1>1, <2>1, <2>2 DEF TypeOK
  <2>5. HandlersOK'
    BY <1>0, <1>1, <2>2 DEF HandlersOK, Busy, Born
  <2>6. LateOK'
    <3>1. \A c \in late' : c[2] \in Lvols /\ Born(c[2])
      BY <1>0, <2>1 DEF LateOK, TypeOK
    <3> QED BY <2>2, <3>1 DEF LateOK, Born
  <2>7. AckedIsOfItsName'
    BY <1>0, <1>1, <2>2 DEF AckedIsOfItsName, TypeOK, Born
  <2>8. DeletionOK'
    BY <1>0, <1>1, <2>2, <2>3 DEF DeletionOK, HandlersOK, TypeOK, VolumeLabels
  <2>9. LockOK' /\ ScanOK' /\ OneVolumePerName'
    BY <1>0, <1>1, <2>1, <2>2 DEF LockOK, ScanOK, OneVolumePerName
  <2> QED BY <2>4, <2>5, <2>6, <2>7, <2>8, <2>9 DEF IInv, TypeInv
<1>4. CASE \E c \in lateNew : /\ lateNew' = lateNew \ {c} /\ UNCHANGED late
                              /\ \E l \in Lvols : ServeCreate(c[1], c[2], l)
  <2>1. PICK s \in Stores, n \in Names, l \in Lvols :
          /\ n \in blind /\ lateNew' \subseteq lateNew /\ UNCHANGED late
          /\ ServeCreate(s, n, l)
    BY <1>0, <1>4 DEF ScanOK, TypeOK
  <2>2. \A k \in Lvols : Born(k) => Born(k)' /\ lvname'[k] = lvname[k]
    BY <1>0, <2>1, CreateTyping DEF TypeOK, Born
  <2>3. HandlersOK'
    BY <1>0, <1>1, <2>2 DEF HandlersOK, Busy, Born
  <2>4. LockOK'
    BY <1>0, <1>1 DEF LockOK
  <2>5. TypeOK /\ TargetTypeOK' => TypeOK'
    BY <1>1, <2>1 DEF TypeOK
  <2> QED BY <1>1, <2>1, <2>3, <2>4, <2>5, BirthKeepsIInv
<1> QED BY <1>2, <1>3, <1>4 DEF ServeLate

(* Every step keeps the invariant.                                           *)
LEMMA NextIInv == IInv /\ [Next]_vars => IInv'
<1> SUFFICES ASSUME IInv, [Next]_vars PROVE IInv'
  OBVIOUS
<1>1. CASE Panic
  <2>1. faults' \in 0..MaxFaults /\ crashes' \in 0..MaxCrashes
    BY <1>1, FaultTyping DEF Panic, IInv, TypeInv, TypeOK
  <2> QED BY <1>1, <2>1, ProcessEndsKeepsIInv DEF Panic
<1>2. CASE Crash
  <2>1. faults' \in 0..MaxFaults /\ crashes' \in 0..MaxCrashes
    BY <1>2, ControllerAssumption DEF Crash, IInv, TypeInv, TypeOK
  <2> QED BY <1>2, <2>1, ProcessEndsKeepsIInv DEF Crash
<1>3. ASSUME NEW t \in Workers, Step(t), ~Panic PROVE IInv'
  <2>1. CASE CallsOnVolume(t)
    <3>1. PICK q : VolumeStep(t, q)
      BY <1>3, <2>1, CallsAreVolumeSteps DEF IInv
    <3> QED BY <1>3, <3>1, VolumeStepKeepsIInv
  <2>2. CASE Lock(t)
    BY <1>3, <2>2, LockKeepsIInv
  <2>3. CASE Return(t)
    BY <1>3, <2>3, ReturnKeepsIInv
  <2>4. CASE ScanNode(t)
    BY <1>3, <2>4, ScanNodeKeepsIInv
  <2>5. CASE ScanStore(t)
    BY <1>3, <2>5, ScanStoreKeepsIInv
  <2>6. CASE Schedule(t)
    BY <1>3, <2>6, ScheduleKeepsIInv
  <2>7. CASE CreateCheck(t)
    BY <1>3, <2>7, CreateCheckKeepsIInv
  <2>8. CASE CreateLvol(t)
    BY <1>3, <2>8, CreateLvolKeepsIInv
  <2> QED BY <1>3, <2>1, <2>2, <2>3, <2>4, <2>5, <2>6, <2>7, <2>8 DEF Step, CallsOnVolume
<1>4. ASSUME NEW t \in Workers,
             (\E n \in Names : CallCreateVolume(t, n)) \/ (\E l \in Lvols : CallDeleteVolume(t, l))
      PROVE  IInv'
  BY <1>4, CallKeepsIInv
<1>5. ASSUME NEW t \in Workers, TimeOut(t) PROVE IInv'
  BY <1>5, TimeOutKeepsIInv
<1>6. CASE ServeLate
  BY <1>6, ServeLateKeepsIInv
<1>7. CASE UNCHANGED vars
  <2> USE DEF vars, target, handlers, orchestrator
  <2>1. TypeInv'
    BY <1>7 DEF IInv, TypeInv, TypeOK, TargetTypeOK, HandlersOK, LateOK, AckedIsOfItsName, Busy, Born
  <2>2. (DeletionOK /\ LockOK /\ ScanOK /\ OneVolumePerName)'
    BY <1>7 DEF IInv, DeletionOK, LockOK, ScanOK, OneVolumePerName, Live
  <2> QED BY <2>1, <2>2 DEF IInv
<1> QED BY <1>1, <1>2, <1>3, <1>4, <1>5, <1>6, <1>7 DEF Next, Quiescent

(* The inductive invariant: handlers work on lvols of their own request,     *)
(* holding its lock, and a scan has seen every store it is done with.        *)
THEOREM Invariance == Spec => []IInv
<1>1. Init => IInv
  BY InitIInv
<1>2. IInv /\ [Next]_vars => IInv'
  BY NextIInv
<1> QED BY <1>1, <1>2, PTL DEF Spec

(* The state is well typed, for any number of handlers, nodes and lvols.     *)
THEOREM ControllerTypeOK == Spec => []TypeOK
<1>1. IInv => TypeOK
  BY DEF IInv, TypeInv
<1> QED BY <1>1, Invariance, PTL

(* CreateVolume is idempotent: the name lock and the scan of all stores keep *)
(* a name from getting a second live lvol, unless its scan was cut short or  *)
(* one of its creations was given up.                                        *)
THEOREM CreateVolumeIsIdempotent == Spec => []OneVolumePerName
<1>1. IInv => OneVolumePerName
  BY DEF IInv
<1> QED BY <1>1, Invariance, PTL

(* What CreateVolume acknowledges was created under the requested name.      *)
THEOREM AcknowledgedUnderItsName == Spec => []AckedIsOfItsName
<1>1. IInv => AckedIsOfItsName
  BY DEF IInv, TypeInv
<1> QED BY <1>1, Invariance, PTL

(* A volume whose deletion was acknowledged is gone and never shown to a     *)
(* host again, whatever failed, timed out or was served late.                *)
THEOREM DeletionIsFinal == Spec => []DeletedIsGone
<1>1. IInv => DeletedIsGone
  BY DEF IInv, TypeInv, TypeOK, DeletionOK, DeletedIsGone, Live
<1> QED BY <1>1, Invariance, PTL
=============================================================================
