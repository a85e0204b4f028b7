--------------------------- MODULE SnapshotsProofs ---------------------------
(* Proofs about Snapshots, for any snapshots, clones and workers and any     *)
(* number of writes, failures, restarts and calls that the CO gives up:      *)
(* RestoresWhatWasSnapshotted, AckedExists, NoOrphan and DeletedIsGone.      *)
(* They rest on the name an lvol is created with, which it keeps: it tells   *)
(* what the lvol's data is, who may delete the lvol, and who may create      *)
(* another one.                                                              *)
EXTENDS Snapshots, TLAPS

-----------------------------------------------------------------------------
(* The inductive invariant.                                                  *)

(* A handler runs the code of its operation, for a request that the CO has   *)
(* made, and works on an lvol with the name it was asked for.                *)
HandlersOK ==
  \A t \in Workers :
    /\ pc[t] = "idle" <=> op[t] = "none"
    /\ pc[t] \in {"getLvstore", "snapCheck", "snapshot", "volumeInfo"} => op[t] = "createSnapshot"
    /\ pc[t] = "deleteSnapshot" => op[t] = "deleteSnapshot"
    /\ pc[t] \in {"scan", "snapshotInfo", "cloneCheck", "clone", "publish", "rollBack"} =>
         op[t] = "createVolume"
    /\ pc[t] \in {"unpublish", "deleteVolume"} => op[t] = "deleteVolume"
    /\ op[t] = "createSnapshot" => req[t] \in SnapNames /\ asOf[req[t]] # None
    /\ op[t] = "createVolume" => req[t] \in CloneNames /\ from[req[t]] # None
    /\ op[t] \in {"deleteSnapshot", "deleteVolume"} => req[t] \in doomed

WorksOn(t) ==
  \/ pc[t] \in {"volumeInfo", "publish", "rollBack"}
  \/ pc[t] = "ok" /\ op[t] \in {"createSnapshot", "createVolume"}

VolumeOK == \A t \in Workers : WorksOn(t) => vol[t] \in Lvols /\ lvname[vol[t]] = req[t]

(* Every lvol but the source has a name, which what was acknowledged has     *)
(* too; a volume is created from a snapshot.                                 *)
NamesOK ==
  /\ live \subseteq 0..born /\ doomed \subseteq 0..born
  /\ lvname[Source] = None
  /\ \A l \in Lvols : l > born => lvname[l] = None
  /\ \A n \in Names : bound[n] # None => lvname[bound[n]] = n
  /\ \A c \in CloneNames : from[c] # None => lvname[from[c]] \in SnapNames

(* What the data of an lvol is follows from its name. *)
DataOK ==
  /\ \A l \in 0..born : data[l] # None
  /\ \A n \in SnapNames : asOf[n] # None => asOf[n] <= data[Source]
  /\ \A l \in Lvols : lvname[l] \in SnapNames =>
       asOf[lvname[l]] # None /\ asOf[lvname[l]] <= data[l] /\ data[l] <= data[Source]
  /\ \A l \in Lvols : lvname[l] \in CloneNames =>
       from[lvname[l]] # None /\ data[l] = data[from[lvname[l]]]

(* A request given up makes a stray name's lvol, or deletes what the CO      *)
(* wants to be deleted or the clone of a stray name.                         *)
LateOK ==
  \A c \in late :
    /\ c[1] = "snapshot" => c[2] = Source /\ c[3] \in SnapNames \cap stray /\ asOf[c[3]] # None
    /\ c[1] = "clone" => c[3] \in CloneNames \cap stray /\ c[2] = from[c[3]]
    /\ c[1] = "delete" => c[2] \in doomed \/ lvname[c[2]] \in CloneNames \cap stray

(* The CO waits for one call per name, and has no call under way for a name  *)
(* it was acknowledged; calls it gave up leave the name stray.               *)
CallsOK ==
  /\ \A t, u \in awaited : req[t] = req[u] => t = u
  /\ \A t \in Workers : req[t] \in Names \ stray => t \in awaited /\ bound[req[t]] = None
  /\ \A t \in Workers : op[t] = "none" => req[t] = None /\ t \notin awaited

(* A snapshot that nobody asked to delete exists; so does the clone that a   *)
(* handler is about to acknowledge, and the one it has acknowledged.         *)
ExistsOK ==
  /\ \A l \in Lvols : lvname[l] \in SnapNames /\ l \notin doomed => l \in live
  /\ \A t \in Workers :
       pc[t] = "ok" /\ op[t] = "createVolume" /\ req[t] \notin stray => vol[t] \in live \cup doomed
  /\ \A c \in CloneNames \ stray : bound[c] \notin doomed \cup {None} => bound[c] \in live

(* No two lvols have the same name, and a handler works on the one there is. *)
UniqueOK ==
  /\ \A l, m \in live : lvname[l] = lvname[m] /\ lvname[l] # None => l = m
  /\ \A t \in Workers : WorksOn(t) /\ req[t] \notin stray => Named(req[t]) \subseteq {vol[t]}
  /\ NoOrphan

(* What is deleted is gone, and so is what a handler is about to report. *)
GoneOK ==
  /\ deleted \subseteq doomed \ live
  /\ \A t \in Workers :
       pc[t] = "ok" /\ op[t] \in {"deleteSnapshot", "deleteVolume"} => req[t] \notin live

IInv ==
  /\ TypeOK /\ HandlersOK /\ VolumeOK /\ NamesOK /\ DataOK
  /\ LateOK /\ CallsOK /\ ExistsOK /\ UniqueOK /\ GoneOK

-----------------------------------------------------------------------------
(* What a request does to the lvstore, whoever has it served.                *)

(* The requests that the handlers make. *)
Legit(m, l, n) ==
  \/ m = "snapshot" /\ l = Source /\ n \in SnapNames /\ asOf[n] # None
  \/ m = "clone" /\ n \in CloneNames /\ l = from[n] /\ from[n] # None
  \/ m = "delete" /\ l \in Lvols

(* Names stay, an lvol appears only with a name that was free, and only the  *)
(* lvol to be deleted disappears.                                            *)
Served(m, l, n) ==
  /\ \A k \in Lvols : k \in live \/ lvname[k] # None => lvname'[k] = lvname[k]
  /\ \A k \in Lvols : lvname'[k] # lvname[k] => k \in live'
  /\ \A k \in live' \ live :
       m # "delete" /\ k = born' /\ born' > born /\ lvname'[k] = n /\ Named(n) = {}
  /\ \A k \in live \ live' : m = "delete" /\ k = l
  /\ m = "delete" => l \notin live'
  /\ m # "delete" => born' \in Lvols /\ born' \in live' /\ lvname'[born'] = n /\ Named(n) = {}

(* The facts about constants that the proofs use. *)
LEMMA Constants ==
  /\ Source \in Lvols /\ None \notin Lvols /\ None \notin Names /\ None \notin 0..MaxWrites
  /\ Names \cap Lvols = {} /\ SnapNames \cap CloneNames = {}
  /\ SnapNames \subseteq Names /\ CloneNames \subseteq Names
  /\ \A l \in Lvols : l \in Nat /\ l <= MaxLvols /\ l >= 0
  BY SnapshotsAssumption DEF Source, Lvols, Names

(* bdev_lvol_snapshot and bdev_lvol_clone, as far as the proofs use them. *)
LEMMA NewLvol ==
  ASSUME IInv, NEW m, NEW l, NEW n, Legit(m, l, n), Serve(m, l, n), m # "delete"
  PROVE  /\ n \in Names /\ l \in Lvols /\ l \in 0..born /\ Named(n) = {}
         /\ born + 1 \in Lvols /\ born' = born + 1 /\ live' = live \cup {born + 1}
         /\ lvname' = [lvname EXCEPT ![born + 1] = n]
         /\ data' = [data EXCEPT ![born + 1] = data[l]]
         /\ base' \in [Lvols -> Lvols \cup {None}]
<1> USE DEF IInv
<1>1. n \in Names /\ l \in Lvols
  BY Constants DEF Legit, TypeOK
<1>2. l \in live /\ Named(n) = {} /\ born < MaxLvols
  BY DEF Serve, Accepts
<1>3. born \in Nat /\ born + 1 \in Lvols
  BY <1>2, SnapshotsAssumption DEF TypeOK, Lvols
<1>4. ServeNew(m, l, n)
  BY DEF Serve
<1>5. base' \in [Lvols -> Lvols \cup {None}]
  BY <1>1, <1>3, <1>4 DEF ServeNew, TypeOK
<1> QED BY <1>1, <1>2, <1>3, <1>4, <1>5 DEF ServeNew, NamesOK

LEMMA ServeTyping ==
  ASSUME IInv, NEW m, NEW l, NEW n, Legit(m, l, n), Serve(m, l, n)
  PROVE  /\ born' \in Lvols /\ live' \in SUBSET Lvols
         /\ lvname' \in [Lvols -> Names \cup {None}]
         /\ base' \in [Lvols -> Lvols \cup {None}]
         /\ data' \in [Lvols -> (0..MaxWrites) \cup {None}]
<1> USE DEF IInv
<1>1. CASE m = "delete"
  BY <1>1 DEF Serve, ServeDelete, Legit, TypeOK
<1>2. CASE m # "delete"
  BY <1>2, NewLvol DEF TypeOK
<1> QED BY <1>1, <1>2

LEMMA ServeEffect ==
  ASSUME IInv, NEW m, NEW l, NEW n, Legit(m, l, n), Serve(m, l, n)
  PROVE  Served(m, l, n)
<1> USE DEF IInv
<1>1. CASE m = "delete"
  BY <1>1 DEF Serve, ServeDelete, Served
<1>2. CASE m # "delete"
  <2>1. born \in Nat /\ lvname[born + 1] = None /\ born + 1 \notin live
    BY <1>2, NewLvol, Constants DEF TypeOK, NamesOK
  <2> QED BY <1>2, <2>1, NewLvol DEF Served, TypeOK
<1> QED BY <1>1, <1>2

LEMMA ServeKeepsNames ==
  ASSUME IInv, NEW m, NEW l, NEW n, Legit(m, l, n), Serve(m, l, n),
         UNCHANGED <<bound, from, doomed>>
  PROVE  NamesOK'
<1> USE DEF IInv
<1>1. CASE m = "delete"
  <2>1. live' \subseteq live /\ UNCHANGED <<born, lvname>>
    BY <1>1 DEF Serve, ServeDelete
  <2> QED BY <2>1 DEF NamesOK
<1>2. CASE m # "delete"
  <2>1. born \in Nat /\ born + 1 # Source /\ 0..born \subseteq 0..(born + 1)
    BY Constants DEF TypeOK, Source
  <2>2. live' \subseteq 0..born' /\ doomed \subseteq 0..born'
    BY <1>2, <2>1, NewLvol DEF NamesOK
  <2>3. lvname'[Source] = None
    BY <1>2, <2>1, NewLvol, Constants DEF NamesOK, TypeOK
  <2>4. \A k \in Lvols : k > born' => lvname'[k] = None
    BY <1>2, <2>1, NewLvol, Constants DEF NamesOK, TypeOK
  <2>5. Served(m, l, n)
    BY ServeEffect
  <2>6. \A c \in Names : bound[c] # None => lvname'[bound[c]] = c
    BY <2>5, Constants DEF Served, NamesOK, TypeOK
  <2>7. \A c \in CloneNames : from[c] # None => lvname'[from[c]] \in SnapNames
    BY <2>5, Constants DEF Served, NamesOK, TypeOK
  <2> QED BY <2>2, <2>3, <2>4, <2>6, <2>7 DEF NamesOK
<1> QED BY <1>1, <1>2

(* The new lvol has the data that its name stands for. *)
LEMMA ServeKeepsData ==
  ASSUME IInv, NEW m, NEW l, NEW n, Legit(m, l, n), Serve(m, l, n),
         UNCHANGED <<from, asOf>>
  PROVE  DataOK'
<1> USE DEF IInv
<1>1. CASE m = "delete"
  BY <1>1 DEF Serve, ServeDelete, DataOK
<1>2. CASE m # "delete"
  <2> DEFINE new == born + 1
  <2>1. born \in Nat /\ new \in Lvols /\ new # Source /\ lvname[new] = None
    BY <1>2, NewLvol, Constants DEF TypeOK, NamesOK, Source
  <2>2. /\ lvname' = [lvname EXCEPT ![new] = n] /\ data' = [data EXCEPT ![new] = data[l]]
        /\ born' = new /\ l \in 0..born /\ l \in Lvols
    BY <1>2, NewLvol
  <2> HIDE DEF new
  <2>3. \A k \in Lvols : k # new => data'[k] = data[k] /\ lvname'[k] = lvname[k]
    BY <2>2 DEF TypeOK
  <2>4. data'[new] = data[l] /\ lvname'[new] = n /\ data'[Source] = data[Source]
    BY <2>1, <2>2, <2>3, Constants DEF TypeOK
  <2>5. \A c \in CloneNames : from[c] # None => from[c] \in Lvols \ {new}
    BY <2>1, Constants DEF TypeOK, NamesOK
  <2>6. \A k \in 0..born' : data'[k] # None
    <3>1. \A k \in 0..born' : k \in 0..born \/ k = new
      BY <2>1, <2>2 DEF new
    <3>2. 0..born \subseteq Lvols
      BY Constants, SnapshotsAssumption DEF TypeOK, Lvols
    <3> QED BY <2>1, <2>2, <2>3, <2>4, <3>1, <3>2 DEF DataOK
  <2>7. \A c \in SnapNames : asOf'[c] # None => asOf'[c] <= data'[Source]
    BY <2>4 DEF DataOK
  <2>8. ASSUME NEW k \in Lvols, lvname'[k] \in SnapNames
        PROVE  asOf[lvname'[k]] # None /\ asOf[lvname'[k]] <= data'[k] /\ data'[k] <= data'[Source]
    <3>1. CASE k # new
      BY <2>3, <2>4, <2>8, <3>1 DEF DataOK
    <3>2. CASE k = new
      <4>1. l = Source /\ asOf[n] # None /\ n \in SnapNames
        BY <1>2, <2>4, <2>8, <3>2, Constants DEF Legit
      <4>2. data[Source] \in Nat
        BY <2>2, <4>1, Constants DEF DataOK, TypeOK
      <4> QED BY <2>4, <3>2, <4>1, <4>2 DEF DataOK
    <3> QED BY <3>1, <3>2
  <2>9. ASSUME NEW k \in Lvols, lvname'[k] \in CloneNames
        PROVE  from[lvname'[k]] # None /\ data'[k] = data'[from[lvname'[k]]]
    <3>1. CASE k # new
      BY <2>3, <2>5, <2>9, <3>1 DEF DataOK
    <3>2. CASE k = new
      <4>1. l = from[n] /\ from[n] # None /\ n \in CloneNames
        BY <1>2, <2>4, <2>9, <3>2, Constants DEF Legit
      <4> QED BY <2>3, <2>4, <2>5, <3>2, <4>1
    <3> QED BY <3>1, <3>2
  <2> QED BY <2>6, <2>7, <2>8, <2>9 DEF DataOK
<1> QED BY <1>1, <1>2

(* A name is given only when no lvol has it. *)
LEMMA ServeKeepsUnique ==
  ASSUME IInv, NEW m, NEW l, NEW n, Legit(m, l, n), Serve(m, l, n)
  PROVE  \A k, j \in live' : lvname'[k] = lvname'[j] /\ lvname'[k] # None => k = j
<1> USE DEF IInv
<1>1. Served(m, l, n) /\ live' \subseteq Lvols
  BY ServeEffect, ServeTyping
<1> QED BY <1>1 DEF Served, UniqueOK, Named, TypeOK

-----------------------------------------------------------------------------
(* The steps of a handler that has its lock: all but Lock and Return.        *)

(* The ones that ask, and the ones that change the lvstore. *)
Asks(t) ==
  \/ GetLvstore(t) \/ SnapCheck(t) \/ VolumeInfo(t) \/ Scan(t) \/ SnapshotInfo(t)
  \/ CloneCheck(t) \/ Publish(t) \/ Unpublish(t)

Changes(t) == Snapshot(t) \/ DeleteSnapshot(t) \/ Clone(t) \/ RollBack(t) \/ DeleteVolume(t)

(* The steps by kind. *)
LEMMA NextCases ==
  ASSUME Next
  PROVE  \/ \E t \in Workers :
              \/ \E n \in SnapNames : CallCreateSnapshot(t, n) \/ CallDeleteSnapshot(t, n)
              \/ \E c \in CloneNames, n \in SnapNames : CallCreateVolume(t, c, n)
              \/ \E l \in Lvols : CallDeleteVolume(t, l)
              \/ TimeOut(t) \/ Lock(t) \/ Return(t) \/ Asks(t) \/ Changes(t)
         \/ UserWrites \/ ServeLate \/ Crash \/ UNCHANGED vars
  BY DEF Next, Step, Asks, Changes, Quiescent

(* What is the same before and after a step of either kind. *)
HandlerMoves(t) ==
  /\ pc' = [pc EXCEPT ![t] = pc'[t]] /\ pc[t] \notin {"idle", "lock", "ok", "err"}
  /\ pc'[t] \in Labels \ {"idle", "lock"}
  /\ vol' = [vol EXCEPT ![t] = vol'[t]] /\ vol'[t] \in Lvols \cup {None}
  /\ faults' \in 0..MaxFaults
  /\ UNCHANGED <<backend, op, req, holder, orchestrator, timeouts>>

(* A step that asks leaves everything as it was but its own goroutine. *)
LEMMA AsksTyping ==
  ASSUME IInv, NEW t \in Workers, Asks(t), ~Panic
  PROVE  HandlerMoves(t) /\ UNCHANGED <<lvstore, late, stray, unsure>>
<1> USE SnapshotsAssumption DEF IInv, TypeOK, Labels
<1> USE DEF Asks, GetLvstore, SnapCheck, VolumeInfo, Scan, SnapshotInfo, CloneCheck, Publish,
            Unpublish, Query, FindName, Proceed, Goto, Fault, Stays, Lookup, Named
<1>1. pc' = [pc EXCEPT ![t] = pc'[t]] /\ pc[t] \notin {"idle", "lock", "ok", "err"}
  OBVIOUS
<1>2. pc'[t] \in Labels \ {"idle", "lock"}
  OBVIOUS
<1>3. vol' = [vol EXCEPT ![t] = vol'[t]] /\ vol'[t] \in Lvols \cup {None}
  OBVIOUS
<1>4. faults' \in 0..MaxFaults
  OBVIOUS
<1>5. UNCHANGED <<backend, op, req, holder, orchestrator, timeouts>>
  OBVIOUS
<1>6. UNCHANGED <<lvstore, late, stray, unsure>>
  OBVIOUS
<1> QED BY <1>1, <1>2, <1>3, <1>4, <1>5, <1>6 DEF HandlerMoves

(* A handler that goes on stays in the code of its operation, with an lvol   *)
(* of the name it looked up, and reports what it has seen.                   *)
LEMMA AsksEstablish ==
  ASSUME IInv, NEW t \in Workers, Asks(t), ~Panic
  PROVE  /\ pc'[t] \in {"getLvstore", "snapCheck", "snapshot", "volumeInfo"} =>
              op[t] = "createSnapshot"
         /\ pc'[t] # "deleteSnapshot"
         /\ pc'[t] \in {"scan", "snapshotInfo", "cloneCheck", "clone", "publish", "rollBack"} =>
              op[t] = "createVolume"
         /\ pc'[t] \in {"unpublish", "deleteVolume"} => op[t] = "deleteVolume"
         /\ WorksOn(t)' => \/ WorksOn(t) /\ vol'[t] = vol[t]
                           \/ vol'[t] \in live /\ lvname[vol'[t]] = req[t]
         /\ pc'[t] = "ok" /\ op[t] = "createVolume" => vol'[t] \in live
         /\ pc'[t] = "ok" /\ op[t] \in {"deleteSnapshot", "deleteVolume"} => req[t] \notin live
<1>0. op' = op
  BY AsksTyping DEF HandlerMoves
<1> USE DEF IInv, HandlersOK
<1> USE DEF Asks, GetLvstore, SnapCheck, VolumeInfo, Scan, SnapshotInfo, CloneCheck, Publish,
            Unpublish, Query, FindName, Proceed, Goto, Lookup, Named, TypeOK
<1>1. pc'[t] \in {"getLvstore", "snapCheck", "snapshot", "volumeInfo"} => op[t] = "createSnapshot"
  OBVIOUS
<1>2. pc'[t] # "deleteSnapshot"
  OBVIOUS
<1>3. pc'[t] \in {"scan", "snapshotInfo", "cloneCheck", "clone", "publish", "rollBack"} =>
        op[t] = "createVolume"
  OBVIOUS
<1>4. pc'[t] \in {"unpublish", "deleteVolume"} => op[t] = "deleteVolume"
  OBVIOUS
<1>5. WorksOn(t)' => \/ WorksOn(t) /\ vol'[t] = vol[t]
                     \/ vol'[t] \in live /\ lvname[vol'[t]] = req[t]
  BY <1>0 DEF WorksOn
<1>6. pc'[t] = "ok" /\ op[t] = "createVolume" => vol'[t] \in live
  OBVIOUS
<1>7. pc'[t] = "ok" /\ op[t] \in {"deleteSnapshot", "deleteVolume"} => req[t] \notin live
  OBVIOUS
<1> QED BY <1>1, <1>2, <1>3, <1>4, <1>5, <1>6, <1>7

LEMMA AsksKeepIInv ==
  ASSUME IInv, NEW t \in Workers, Asks(t), ~Panic
  PROVE  IInv'
<1>1. HandlerMoves(t) /\ UNCHANGED <<lvstore, late, stray, unsure>>
  BY AsksTyping
<1> USE DEF HandlerMoves, IInv, lvstore, orchestrator
<1>2. \A u \in Workers : u # t => pc'[u] = pc[u] /\ vol'[u] = vol[u] /\ (WorksOn(u)' <=> WorksOn(u))
  BY <1>1 DEF TypeOK, WorksOn
<1>3. TypeOK'
  BY <1>1 DEF TypeOK
<1>4. HandlersOK'
  BY <1>1, <1>2, AsksEstablish DEF HandlersOK
<1>5. VolumeOK'
  BY <1>1, <1>2, AsksEstablish DEF VolumeOK, TypeOK
<1>6. NamesOK' /\ DataOK' /\ LateOK' /\ CallsOK'
  BY <1>1 DEF NamesOK, DataOK, LateOK, CallsOK
<1>7. ExistsOK'
  BY <1>1, <1>2, AsksEstablish DEF ExistsOK
<1>8. UniqueOK'
  <2>1. ASSUME NEW u \in Workers, WorksOn(u)', req[u] \notin stray
        PROVE  Named(req[u]) \subseteq {vol'[u]}
    <3>1. CASE u # t
      BY <1>2, <2>1, <3>1 DEF UniqueOK
    <3>2. CASE u = t /\ WorksOn(t) /\ vol'[t] = vol[t]
      BY <2>1, <3>2 DEF UniqueOK
    <3>3. CASE u = t /\ vol'[t] \in live /\ lvname[vol'[t]] = req[t]
      <4>1. op[t] \in {"createSnapshot", "createVolume"}
        BY <1>1, <1>4, <2>1, <3>3 DEF WorksOn, HandlersOK
      <4>2. req[t] # None
        BY <4>1, Constants DEF HandlersOK
      <4> QED BY <3>3, <4>2 DEF UniqueOK, Named
    <3> QED BY <2>1, <3>1, <3>2, <3>3, AsksEstablish
  <2>2. NoOrphan' /\ \A n \in Names : Named(n)' = Named(n)
    BY <1>1 DEF UniqueOK, NoOrphan, Named
  <2>3. \A u \in Workers : WorksOn(u)' /\ req[u] \notin stray => Named(req[u])' \subseteq {vol'[u]}
    BY <1>1, <2>1 DEF Named
  <2>4. \A l, m \in live' : lvname'[l] = lvname'[m] /\ lvname'[l] # None => l = m
    BY <1>1 DEF UniqueOK
  <2> QED BY <1>1, <2>2, <2>3, <2>4 DEF UniqueOK
<1>9. GoneOK'
  BY <1>1, <1>2, AsksEstablish DEF GoneOK
<1> QED BY <1>3, <1>4, <1>5, <1>6, <1>7, <1>8, <1>9

(* The five steps that change the lvstore, as calls of Rpc. *)
ChangeOf(t, m, l, n, ok, refused, failed) ==
  \/ /\ pc[t] = "snapshot" /\ op[t] = "createSnapshot"
     /\ m = "snapshot" /\ l = Source /\ n = req[t]
     /\ ok = "volumeInfo" /\ refused = "err" /\ failed = "err"
  \/ /\ pc[t] = "clone" /\ op[t] = "createVolume"
     /\ m = "clone" /\ l = from[req[t]] /\ n = req[t]
     /\ ok = "publish" /\ refused = "err" /\ failed = "err"
  \/ /\ pc[t] = "rollBack" /\ op[t] = "createVolume"
     /\ m = "delete" /\ l = vol[t] /\ n = None
     /\ ok = "err" /\ refused = "err" /\ failed = "err"
  \/ /\ pc[t] \in {"deleteSnapshot", "deleteVolume"} /\ op[t] \in {"deleteSnapshot", "deleteVolume"}
     /\ m = "delete" /\ l = req[t] /\ n = None
     /\ ok = "ok" /\ refused = (IF req[t] \in live \/ pc[t] = "deleteSnapshot" THEN "err" ELSE "ok")
     /\ failed = "err"

LEMMA ChangesAreRpcs ==
  ASSUME IInv, NEW t \in Workers, Changes(t)
  PROVE  \E m, l, n, ok, refused, failed :
           ChangeOf(t, m, l, n, ok, refused, failed) /\ Rpc(t, m, l, n, ok, refused, failed)
<1> USE DEF IInv, HandlersOK
<1>1. CASE Snapshot(t)
  BY <1>1 DEF Snapshot, ChangeOf
<1>2. CASE Clone(t)
  BY <1>2 DEF Clone, ChangeOf
<1>3. CASE RollBack(t)
  BY <1>3 DEF RollBack, ChangeOf
<1>4. CASE DeleteSnapshot(t)
  BY <1>4 DEF DeleteSnapshot, ChangeOf
<1>5. CASE DeleteVolume(t)
  BY <1>5 DEF DeleteVolume, ChangeOf
<1> QED BY <1>1, <1>2, <1>3, <1>4, <1>5 DEF Changes

(* A request is about the name the handler was called for, or about an lvol  *)
(* that the CO wants deleted or that has this name.                          *)
LEMMA ChangesAreLegit ==
  ASSUME IInv, NEW t \in Workers, NEW m, NEW l, NEW n, NEW ok, NEW refused, NEW failed,
         ChangeOf(t, m, l, n, ok, refused, failed)
  PROVE  /\ Legit(m, l, n) /\ m \in {"snapshot", "clone", "delete"}
         /\ l \in Lvols /\ n \in Names \cup {None}
         /\ m # "delete" => n = req[t] /\ op[t] \in {"createSnapshot", "createVolume"}
         /\ m = "delete" => \/ l \in doomed
                            \/ req[t] \in CloneNames /\ lvname[l] = req[t] /\ pc[t] = "rollBack"
         /\ op[t] = "deleteSnapshot" => l = req[t]
<1> USE DEF IInv, HandlersOK, ChangeOf
<1>1. pc[t] = "rollBack" => vol[t] \in Lvols /\ lvname[vol[t]] = req[t]
  BY DEF VolumeOK, WorksOn
<1>2. req[t] \in CloneNames /\ from[req[t]] # None => from[req[t]] \in Lvols
  BY DEF TypeOK
<1>3. req[t] \in doomed => req[t] \in Lvols
  BY DEF TypeOK
<1>4. Legit(m, l, n)
  BY <1>1, <1>3 DEF Legit
<1>5. l \in Lvols /\ n \in Names \cup {None}
  BY <1>1, <1>2, <1>3, Constants
<1>6. m = "delete" => \/ l \in doomed
                      \/ req[t] \in CloneNames /\ lvname[l] = req[t] /\ pc[t] = "rollBack"
  BY <1>1
<1> QED BY <1>4, <1>5, <1>6

(* The outcomes of a request: served, or left for later or for ever. *)
RequestEnds(t, m, l, n, ok, refused) ==
  \/ /\ Serve(m, l, n) /\ UNCHANGED <<late, stray>>
     /\ \/ pc'[t] = ok /\ vol'[t] = IF m = "delete" THEN vol[t] ELSE born'
        \/ pc'[t] = "err" /\ vol' = vol
  \/ /\ UNCHANGED <<lvstore, late, stray>> /\ vol' = vol
     /\ pc'[t] = refused
  \/ /\ UNCHANGED lvstore /\ vol' = vol
     /\ late' = late \cup {<<m, l, n>>} /\ stray' = stray \cup ({req[t]} \cap Names)
     /\ pc'[t] = "err"

LEMMA ChangesTyping ==
  ASSUME IInv, NEW t \in Workers, NEW m, NEW l, NEW n, NEW ok, NEW refused, NEW failed,
         ChangeOf(t, m, l, n, ok, refused, failed), Rpc(t, m, l, n, ok, refused, failed)
  PROVE  HandlerMoves(t) /\ RequestEnds(t, m, l, n, ok, refused) /\ TypeOK'
<1> USE DEF IInv
<1>1. /\ Legit(m, l, n) /\ m \in {"snapshot", "clone", "delete"}
      /\ l \in Lvols /\ n \in Names \cup {None}
  BY ChangesAreLegit
<1>2. /\ ok \in {"volumeInfo", "publish", "ok", "err"} /\ refused \in {"ok", "err"}
      /\ failed = "err" /\ pc[t] \notin {"idle", "lock", "ok", "err"}
  BY DEF ChangeOf
<1>3. UNCHANGED <<backend, op, req, holder, orchestrator, timeouts>>
  BY DEF Rpc, Stays
<1>4. pc' = [pc EXCEPT ![t] = pc'[t]] /\ pc'[t] \in {ok, refused, failed}
  BY DEF Rpc, Goto, TypeOK
<1>5. faults' \in 0..MaxFaults
  BY SnapshotsAssumption DEF Rpc, Fault, TypeOK
<1>6. RequestEnds(t, m, l, n, ok, refused)
  BY <1>2 DEF Rpc, Goto, TypeOK, RequestEnds, lvstore
<1>7. /\ born' \in Lvols /\ live' \in SUBSET Lvols
      /\ lvname' \in [Lvols -> Names \cup {None}]
      /\ base' \in [Lvols -> Lvols \cup {None}]
      /\ data' \in [Lvols -> (0..MaxWrites) \cup {None}]
  <2>1. CASE Serve(m, l, n)
    BY <1>1, <2>1, ServeTyping
  <2>2. CASE UNCHANGED lvstore
    BY <2>2 DEF lvstore, TypeOK
  <2> QED BY <1>6, <2>1, <2>2 DEF RequestEnds
<1>8. vol' = [vol EXCEPT ![t] = vol'[t]] /\ vol'[t] \in Lvols \cup {None}
  BY <1>7 DEF Rpc, TypeOK
<1>9. unsure' \in SUBSET Lvols
  BY <1>1 DEF Rpc, TypeOK
<1>10. late' \in SUBSET ({"snapshot", "clone", "delete"} \X Lvols \X (Names \cup {None}))
  <2>1. <<m, l, n>> \in {"snapshot", "clone", "delete"} \X Lvols \X (Names \cup {None})
    BY <1>1
  <2> QED BY <1>6, <2>1 DEF RequestEnds, TypeOK
<1>11. stray' \in SUBSET Names
  BY <1>6 DEF RequestEnds, TypeOK
<1>12. pc'[t] \in Labels \ {"idle", "lock"}
  BY <1>2, <1>4 DEF Labels
<1>13. HandlerMoves(t)
  BY <1>2, <1>3, <1>4, <1>5, <1>8, <1>12 DEF HandlerMoves
<1>14. TypeOK'
  BY <1>3, <1>5, <1>7, <1>8, <1>9, <1>10, <1>11, <1>13 DEF TypeOK, HandlerMoves, orchestrator
<1> QED BY <1>6, <1>13, <1>14

(* What the lvstore's lemmas say about either outcome. *)
LEMMA RequestEffect ==
  ASSUME IInv, NEW t \in Workers, NEW m, NEW l, NEW n, NEW ok, NEW refused, NEW failed,
         ChangeOf(t, m, l, n, ok, refused, failed), Rpc(t, m, l, n, ok, refused, failed)
  PROVE  /\ NamesOK' /\ DataOK'
         /\ \A k, j \in live' : lvname'[k] = lvname'[j] /\ lvname'[k] # None => k = j
         /\ \A k \in Lvols : k \in live \/ lvname[k] # None => lvname'[k] = lvname[k]
         /\ \A k \in Lvols : lvname'[k] # lvname[k] => k \in live'
         /\ \A k \in live' \ live : m # "delete" /\ lvname'[k] = n /\ k > born
         /\ \A k \in live \ live' : m = "delete" /\ k = l
         /\ stray \subseteq stray'
<1> USE DEF IInv
<1>1. HandlerMoves(t) /\ RequestEnds(t, m, l, n, ok, refused)
  BY ChangesTyping
<1>2. stray \subseteq stray'
  BY <1>1 DEF RequestEnds
<1>3. CASE Serve(m, l, n)
  <2>1. Legit(m, l, n)
    BY ChangesAreLegit
  <2>2. NamesOK' /\ DataOK'
    BY <1>1, <1>3, <2>1, ServeKeepsNames, ServeKeepsData DEF HandlerMoves, orchestrator
  <2> QED BY <1>2, <1>3, <2>1, <2>2, ServeEffect, ServeKeepsUnique DEF Served
<1>4. CASE UNCHANGED lvstore
  BY <1>1, <1>2, <1>4 DEF HandlerMoves, orchestrator, lvstore, NamesOK, DataOK, UniqueOK
<1> QED BY <1>1, <1>3, <1>4 DEF RequestEnds

(* Which handler goes on, with which lvol. *)
LEMMA ChangesKeepHandlers ==
  ASSUME IInv, NEW t \in Workers, NEW m, NEW l, NEW n, NEW ok, NEW refused, NEW failed,
         ChangeOf(t, m, l, n, ok, refused, failed), Rpc(t, m, l, n, ok, refused, failed)
  PROVE  HandlersOK' /\ VolumeOK'
<1> USE DEF IInv
<1>1. HandlerMoves(t) /\ RequestEnds(t, m, l, n, ok, refused)
  BY ChangesTyping
<1>2. \A u \in Workers : u # t => pc'[u] = pc[u] /\ vol'[u] = vol[u] /\ (WorksOn(u)' <=> WorksOn(u))
  BY <1>1 DEF HandlerMoves, TypeOK, WorksOn
<1>3. /\ pc'[t] \in {"volumeInfo", "publish", "ok", "err"}
      /\ pc'[t] = "volumeInfo" => op[t] = "createSnapshot"
      /\ pc'[t] = "publish" => op[t] = "createVolume"
      /\ pc'[t] = "ok" => op[t] \in {"deleteSnapshot", "deleteVolume"}
      /\ pc'[t] \in {"volumeInfo", "publish"} =>
           Serve(m, l, n) /\ m # "delete" /\ n = req[t] /\ vol'[t] = born'
  BY <1>1 DEF RequestEnds, ChangeOf
<1>4. HandlersOK'
  BY <1>1, <1>2, <1>3 DEF HandlersOK, HandlerMoves, orchestrator
<1>5. WorksOn(t)' => vol'[t] \in Lvols /\ lvname'[vol'[t]] = req[t]
  <2>1. WorksOn(t)' => pc'[t] \in {"volumeInfo", "publish"}
    BY <1>1, <1>3 DEF WorksOn, HandlerMoves
  <2>2. Serve(m, l, n) => Served(m, l, n)
    BY ChangesAreLegit, ServeEffect
  <2> QED BY <1>3, <2>1, <2>2 DEF Served
<1>6. ASSUME NEW u \in Workers, u # t, WorksOn(u) PROVE lvname'[vol[u]] = req[u]
  <2>1. vol[u] \in Lvols /\ lvname[vol[u]] = req[u]
    BY <1>6 DEF VolumeOK
  <2>2. req[u] # None
    BY <1>6, Constants DEF WorksOn, HandlersOK
  <2> QED BY <2>1, <2>2, RequestEffect
<1>7. VolumeOK'
  BY <1>1, <1>2, <1>5, <1>6 DEF VolumeOK, HandlerMoves
<1> QED BY <1>4, <1>7

LEMMA ChangesKeepLate ==
  ASSUME IInv, NEW t \in Workers, NEW m, NEW l, NEW n, NEW ok, NEW refused, NEW failed,
         ChangeOf(t, m, l, n, ok, refused, failed), Rpc(t, m, l, n, ok, refused, failed)
  PROVE  LateOK' /\ CallsOK'
<1> USE DEF IInv
<1>1. HandlerMoves(t) /\ RequestEnds(t, m, l, n, ok, refused)
  BY ChangesTyping
<1>2. UNCHANGED <<op, req, bound, from, asOf, doomed, awaited>> /\ stray \subseteq stray'
  BY <1>1, RequestEffect DEF HandlerMoves, orchestrator
<1>3. CallsOK'
  BY <1>2 DEF CallsOK
<1>4. ASSUME NEW c \in late
      PROVE  /\ c[1] = "snapshot" =>
                  c[2] = Source /\ c[3] \in SnapNames \cap stray' /\ asOf[c[3]] # None
             /\ c[1] = "clone" => c[3] \in CloneNames \cap stray' /\ c[2] = from[c[3]]
             /\ c[1] = "delete" => c[2] \in doomed \/ lvname'[c[2]] \in CloneNames \cap stray'
  <2>1. c[2] \in Lvols
    BY DEF TypeOK
  <2>2. lvname[c[2]] \in CloneNames => lvname'[c[2]] = lvname[c[2]]
    BY <2>1, Constants, RequestEffect
  <2> QED BY <1>2, <2>2 DEF LateOK
<1>5. ASSUME late' # late
      PROVE  /\ m = "snapshot" => l = Source /\ n \in SnapNames \cap stray' /\ asOf[n] # None
             /\ m = "clone" => n \in CloneNames \cap stray' /\ l = from[n]
             /\ m = "delete" => l \in doomed \/ lvname'[l] \in CloneNames \cap stray'
  <2>1. stray' = stray \cup ({req[t]} \cap Names) /\ UNCHANGED lvstore
    BY <1>1, <1>5 DEF RequestEnds
  <2> QED BY <2>1, Constants, ChangesAreLegit DEF Legit, lvstore
<1>6. late' \subseteq late \cup {<<m, l, n>>}
  BY <1>1 DEF RequestEnds
<1>7. LateOK'
  <2> SUFFICES ASSUME NEW c \in late'
               PROVE  /\ c[1] = "snapshot" =>
                           c[2] = Source /\ c[3] \in SnapNames \cap stray' /\ asOf[c[3]] # None
                      /\ c[1] = "clone" => c[3] \in CloneNames \cap stray' /\ c[2] = from[c[3]]
                      /\ c[1] = "delete" => c[2] \in doomed \/ lvname'[c[2]] \in CloneNames \cap stray'
    BY <1>2 DEF LateOK
  <2>1. CASE c \in late
    BY <1>4, <2>1
  <2>2. CASE c = <<m, l, n>> /\ late' # late
    <3>1. c[1] = m /\ c[2] = l /\ c[3] = n
      BY <2>2
    <3> QED BY <1>5, <2>2, <3>1
  <2> QED BY <1>6, <2>1, <2>2
<1> QED BY <1>3, <1>7

(* Only a handler of the same name rolls a clone back, and only one that the *)
(* CO gave up does so beside another.                                        *)
LEMMA ChangesKeepExists ==
  ASSUME IInv, NEW t \in Workers, NEW m, NEW l, NEW n, NEW ok, NEW refused, NEW failed,
         ChangeOf(t, m, l, n, ok, refused, failed), Rpc(t, m, l, n, ok, refused, failed)
  PROVE  ExistsOK'
<1> USE DEF IInv
<1>1. HandlerMoves(t) /\ RequestEnds(t, m, l, n, ok, refused)
  BY ChangesTyping
<1>2. UNCHANGED <<op, req, bound, doomed>> /\ stray \subseteq stray'
  BY <1>1, RequestEffect DEF HandlerMoves, orchestrator
<1>3. \A k \in live \ live' : \/ k \in doomed
                              \/ req[t] \in CloneNames /\ lvname[k] = req[t] /\ pc[t] = "rollBack"
  BY RequestEffect, ChangesAreLegit
<1>4. ASSUME NEW k \in Lvols, lvname'[k] \in SnapNames, k \notin doomed PROVE k \in live'
  <2>1. CASE lvname'[k] = lvname[k]
    <3>1. k \in live /\ lvname[k] \notin CloneNames
      BY <1>4, <2>1, Constants DEF ExistsOK
    <3> QED BY <1>3, <1>4, <3>1
  <2>2. CASE lvname'[k] # lvname[k]
    BY <2>2, RequestEffect
  <2> QED BY <2>1, <2>2
<1>5. ASSUME NEW u \in Workers, pc'[u] = "ok", op[u] = "createVolume", req[u] \notin stray'
      PROVE  vol'[u] \in live' \cup doomed
  <2>1. u # t
    BY <1>1, <1>5 DEF RequestEnds, ChangeOf
  <2>2. pc[u] = "ok" /\ vol'[u] = vol[u]
    BY <1>1, <1>5, <2>1 DEF HandlerMoves, TypeOK
  <2>3. vol[u] \in live \cup doomed /\ lvname[vol[u]] = req[u] /\ req[u] \in Names \ stray
    BY <1>2, <1>5, <2>2, Constants DEF ExistsOK, VolumeOK, WorksOn, HandlersOK
  <2>4. req[t] # req[u]
    BY <2>1, <2>3 DEF CallsOK
  <2> QED BY <1>3, <2>2, <2>3, <2>4
<1>6. ASSUME NEW c \in CloneNames \ stray', bound[c] \notin doomed \cup {None}
      PROVE  bound[c] \in live'
  <2>1. bound[c] \in live /\ lvname[bound[c]] = c /\ c \in Names \ stray
    BY <1>2, <1>6, Constants DEF ExistsOK, NamesOK
  <2>2. req[t] # c
    BY <1>6, <2>1 DEF CallsOK
  <2> QED BY <1>3, <1>6, <2>1, <2>2
<1> QED BY <1>2, <1>4, <1>5, <1>6 DEF ExistsOK

(* Only a handler of the same name makes another lvol of that name. *)
LEMMA ChangesKeepUnique ==
  ASSUME IInv, NEW t \in Workers, NEW m, NEW l, NEW n, NEW ok, NEW refused, NEW failed,
         ChangeOf(t, m, l, n, ok, refused, failed), Rpc(t, m, l, n, ok, refused, failed)
  PROVE  UniqueOK'
<1> USE DEF IInv
<1>1. HandlerMoves(t) /\ RequestEnds(t, m, l, n, ok, refused)
  BY ChangesTyping
<1>2. UNCHANGED <<op, req, bound>> /\ stray \subseteq stray'
  BY <1>1, RequestEffect DEF HandlerMoves, orchestrator
<1>3. \A k \in live' \ live : lvname'[k] = req[t]
  BY RequestEffect, ChangesAreLegit
<1>4. \A a \in Names : a # req[t] => Named(a)' \subseteq Named(a)
  <2>1. live \subseteq Lvols /\ \A k \in live : lvname'[k] = lvname[k]
    BY RequestEffect DEF TypeOK
  <2> QED BY <1>3, <2>1 DEF Named
<1>5. ASSUME NEW u \in Workers, WorksOn(u)', req[u] \notin stray'
      PROVE  Named(req[u])' \subseteq {vol'[u]}
  <2>1. CASE u # t
    <3>1. WorksOn(u) /\ vol'[u] = vol[u]
      BY <1>1, <1>5, <2>1 DEF HandlerMoves, TypeOK, WorksOn
    <3>2. req[u] \in Names \ stray
      BY <1>2, <1>5, <3>1, Constants DEF WorksOn, HandlersOK
    <3>3. req[t] # req[u]
      BY <2>1, <3>2 DEF CallsOK
    <3> QED BY <1>2, <1>4, <1>5, <3>1, <3>2, <3>3 DEF UniqueOK
  <2>2. CASE u = t
    <3>1. Serve(m, l, n) /\ m # "delete" /\ n = req[t] /\ vol'[t] = born'
      BY <1>1, <1>5, <2>2 DEF RequestEnds, ChangeOf, WorksOn, HandlerMoves
    <3>2. Served(m, l, n)
      BY <3>1, ChangesAreLegit, ServeEffect
    <3>3. live \subseteq Lvols
      BY DEF TypeOK
    <3> QED BY <1>2, <2>2, <3>1, <3>2, <3>3 DEF Served, Named
  <2> QED BY <2>1, <2>2
<1>6. NoOrphan'
  <2> SUFFICES ASSUME NEW a \in Names \ stray', bound[a] # None
               PROVE  Named(a)' \subseteq {bound[a]}
    BY <1>2 DEF NoOrphan
  <2>1. req[t] # a
    BY <1>2 DEF CallsOK
  <2> QED BY <1>2, <1>4, <2>1 DEF UniqueOK, NoOrphan
<1> QED BY <1>2, <1>5, <1>6, RequestEffect DEF UniqueOK

(* A new lvol is none that anybody was told is deleted. *)
LEMMA ChangesKeepGone ==
  ASSUME IInv, NEW t \in Workers, NEW m, NEW l, NEW n, NEW ok, NEW refused, NEW failed,
         ChangeOf(t, m, l, n, ok, refused, failed), Rpc(t, m, l, n, ok, refused, failed)
  PROVE  GoneOK'
<1> USE DEF IInv
<1>1. HandlerMoves(t) /\ RequestEnds(t, m, l, n, ok, refused)
  BY ChangesTyping
<1>2. UNCHANGED <<op, req, doomed, deleted>>
  BY <1>1 DEF HandlerMoves, orchestrator
<1>3. \A k \in doomed : k \in live' => k \in live
  <2>1. \A k \in 0..born : ~(k > born)
    BY Constants DEF TypeOK
  <2> QED BY <2>1, RequestEffect DEF NamesOK
<1>4. pc'[t] = "ok" => req[t] \notin live'
  <2>1. pc'[t] = "ok" => m = "delete" /\ l = req[t] /\ (req[t] \notin live \/ Serve(m, l, n))
    BY <1>1 DEF RequestEnds, ChangeOf
  <2>2. pc'[t] = "ok" => req[t] \in doomed
    BY <1>1 DEF RequestEnds, ChangeOf, HandlersOK
  <2>3. m = "delete" /\ Serve(m, l, n) => l \notin live'
    BY ChangesAreLegit, ServeEffect DEF Served
  <2> QED BY <1>3, <2>1, <2>2, <2>3
<1>5. \A u \in Workers : u # t => pc'[u] = pc[u]
  BY <1>1 DEF HandlerMoves, TypeOK
<1>6. \A u \in Workers : op[u] \in {"deleteSnapshot", "deleteVolume"} => req[u] \in doomed
  BY DEF HandlersOK
<1> QED BY <1>2, <1>3, <1>4, <1>5, <1>6 DEF GoneOK

LEMMA ChangesKeepIInv ==
  ASSUME IInv, NEW t \in Workers, Changes(t)
  PROVE  IInv'
<1>1. PICK m, l, n, ok, refused, failed :
        ChangeOf(t, m, l, n, ok, refused, failed) /\ Rpc(t, m, l, n, ok, refused, failed)
  BY ChangesAreRpcs
<1>2. TypeOK' /\ NamesOK' /\ DataOK'
  BY <1>1, ChangesTyping, RequestEffect
<1>3. HandlersOK' /\ VolumeOK' /\ LateOK' /\ CallsOK'
  BY <1>1, ChangesKeepHandlers, ChangesKeepLate
<1>4. ExistsOK' /\ UniqueOK' /\ GoneOK'
  BY <1>1, ChangesKeepExists, ChangesKeepUnique, ChangesKeepGone
<1> QED BY <1>2, <1>3, <1>4 DEF IInv

-----------------------------------------------------------------------------
(* The other steps, one lemma each.                                          *)

(* What a call changes: a snapshot's data may not be older than the first    *)
(* request for it, the snapshot that a volume is created from is the same at *)
(* every repetition, and what the CO asks to delete exists or existed.       *)
LEMMA CallEffect ==
  ASSUME IInv, NEW t \in Workers,
         \/ \E n \in SnapNames : CallCreateSnapshot(t, n) \/ CallDeleteSnapshot(t, n)
         \/ \E c \in CloneNames, n \in SnapNames : CallCreateVolume(t, c, n)
         \/ \E l \in Lvols : CallDeleteVolume(t, l)
  PROVE  \E o \in Ops, r \in Keys :
           /\ Start(t, o, r)
           /\ doomed \subseteq doomed' /\ doomed' \subseteq 0..born
           /\ asOf' \in [SnapNames -> (0..MaxWrites) \cup {None}]
           /\ \A n \in SnapNames : \/ asOf'[n] = asOf[n]
                                   \/ asOf[n] = None /\ asOf'[n] = data[Source]
           /\ from' \in [CloneNames -> Lvols \cup {None}]
           /\ \A c \in CloneNames : \/ from'[c] = from[c]
                                    \/ from[c] = None /\ lvname[from'[c]] \in SnapNames
           /\ o = "createSnapshot" => r \in SnapNames /\ asOf'[r] # None /\ bound[r] = None
           /\ o = "createVolume" => r \in CloneNames /\ from'[r] # None /\ bound[r] = None
           /\ o \in {"deleteSnapshot", "deleteVolume"} => r \in doomed'
<1> USE DEF IInv
<1>1. born \in Nat /\ data[Source] \in 0..MaxWrites /\ data[Source] # None /\ 0..born \subseteq Lvols
  <2>1. born \in Nat /\ Source \in 0..born /\ 0..born \subseteq Lvols
    BY Constants, SnapshotsAssumption DEF TypeOK, Source, Lvols
  <2> QED BY <2>1, Constants DEF TypeOK, DataOK
<1>2. \A n \in Names : bound[n] # None =>
        bound[n] \in 0..born /\ bound[n] \in Lvols /\ lvname[bound[n]] = n
  <2> SUFFICES ASSUME NEW n \in Names, bound[n] # None
               PROVE  bound[n] \in 0..born /\ bound[n] \in Lvols /\ lvname[bound[n]] = n
    OBVIOUS
  <2>1. bound[n] \in Lvols /\ lvname[bound[n]] = n /\ lvname[bound[n]] # None
    BY Constants DEF TypeOK, NamesOK
  <2>2. ~(bound[n] > born)
    BY <2>1 DEF NamesOK
  <2> QED BY <1>1, <2>1, <2>2, Constants
<1>3. CASE \E n \in SnapNames : CallCreateSnapshot(t, n)
  <2>1. PICK n \in SnapNames : CallCreateSnapshot(t, n)
    BY <1>3
  <2>2. asOf' \in [SnapNames -> (0..MaxWrites) \cup {None}] /\ asOf'[n] # None
    BY <1>1, <2>1 DEF CallCreateSnapshot, TypeOK
  <2> QED BY <2>1, <2>2, Constants DEF CallCreateSnapshot, Ops, Keys, TypeOK, NamesOK
<1>4. CASE \E n \in SnapNames : CallDeleteSnapshot(t, n)
  <2>1. PICK n \in SnapNames : CallDeleteSnapshot(t, n)
    BY <1>4
  <2>2. bound[n] \in Lvols /\ bound[n] \in 0..born
    BY <1>2, <2>1, Constants DEF CallDeleteSnapshot
  <2> QED BY <2>1, <2>2, Constants DEF CallDeleteSnapshot, Ops, Keys, TypeOK, NamesOK
<1>5. CASE \E c \in CloneNames, n \in SnapNames : CallCreateVolume(t, c, n)
  <2>1. PICK c \in CloneNames, n \in SnapNames : CallCreateVolume(t, c, n)
    BY <1>5
  <2>2. bound[n] # None /\ bound[n] \in Lvols /\ lvname[bound[n]] = n
    BY <1>2, <2>1, Constants DEF CallCreateVolume
  <2>3. /\ from' = [from EXCEPT ![c] = bound[n]] /\ Start(t, "createVolume", c)
        /\ bound[c] = None /\ from[c] \in {None, bound[n]} /\ UNCHANGED <<asOf, doomed>>
    BY <2>1 DEF CallCreateVolume
  <2>4. from' \in [CloneNames -> Lvols \cup {None}] /\ from'[c] # None
    BY <2>2, <2>3, Constants DEF TypeOK
  <2>5. \A d \in CloneNames : \/ from'[d] = from[d]
                              \/ from[d] = None /\ lvname[from'[d]] \in SnapNames
    BY <2>2, <2>3 DEF TypeOK
  <2> QED BY <2>3, <2>4, <2>5, Constants DEF Ops, Keys, TypeOK, NamesOK
<1>6. CASE \E l \in Lvols : CallDeleteVolume(t, l)
  <2>1. PICK l \in Lvols : CallDeleteVolume(t, l)
    BY <1>6
  <2>2. l \in 0..born
    <3>1. CASE l = Source
      BY <1>1, <3>1 DEF Source
    <3>2. CASE \E c \in CloneNames : l = bound[c]
      BY <1>2, <3>2, Constants
    <3> QED BY <2>1, <3>1, <3>2 DEF CallDeleteVolume
  <2> QED BY <2>1, <2>2 DEF CallDeleteVolume, Ops, Keys, TypeOK, NamesOK
<1> QED BY <1>3, <1>4, <1>5, <1>6

(* The calls: the new handler waits for its lock, nothing else moves. *)
LEMMA CallsKeepIInv ==
  ASSUME IInv, NEW t \in Workers,
         \/ \E n \in SnapNames : CallCreateSnapshot(t, n) \/ CallDeleteSnapshot(t, n)
         \/ \E c \in CloneNames, n \in SnapNames : CallCreateVolume(t, c, n)
         \/ \E l \in Lvols : CallDeleteVolume(t, l)
  PROVE  IInv'
<1> USE DEF IInv
<1>1. PICK o \in Ops, r \in Keys :
           /\ Start(t, o, r)
           /\ doomed \subseteq doomed' /\ doomed' \subseteq 0..born
           /\ asOf' \in [SnapNames -> (0..MaxWrites) \cup {None}]
           /\ \A n \in SnapNames : \/ asOf'[n] = asOf[n]
                                   \/ asOf[n] = None /\ asOf'[n] = data[Source]
           /\ from' \in [CloneNames -> Lvols \cup {None}]
           /\ \A c \in CloneNames : \/ from'[c] = from[c]
                                    \/ from[c] = None /\ lvname[from'[c]] \in SnapNames
           /\ o = "createSnapshot" => r \in SnapNames /\ asOf'[r] # None /\ bound[r] = None
           /\ o = "createVolume" => r \in CloneNames /\ from'[r] # None /\ bound[r] = None
           /\ o \in {"deleteSnapshot", "deleteVolume"} => r \in doomed'
  BY CallEffect
<1>2. /\ pc[t] = "idle" /\ \A u \in awaited : req[u] # r
      /\ pc' = [pc EXCEPT ![t] = "lock"] /\ op' = [op EXCEPT ![t] = o]
      /\ req' = [req EXCEPT ![t] = r] /\ awaited' = awaited \cup {t}
      /\ UNCHANGED <<backend, born, live, lvname, base, data, late, vol, holder, bound, deleted,
                     stray, unsure, faults, timeouts>>
  BY <1>1 DEF Start, Goto, lvstore, history
<1>3. data[Source] \in 0..MaxWrites /\ data[Source] # None /\ 0..born \subseteq Lvols
  <2>1. Source \in 0..born /\ 0..born \subseteq Lvols
    BY Constants, SnapshotsAssumption DEF TypeOK, Source, Lvols
  <2> QED BY <2>1, Constants DEF TypeOK, DataOK
<1>4. /\ pc'[t] = "lock" /\ op'[t] = o /\ req'[t] = r /\ ~WorksOn(t)'
      /\ \A u \in Workers : u # t =>
           pc'[u] = pc[u] /\ op'[u] = op[u] /\ req'[u] = req[u] /\ (WorksOn(u)' <=> WorksOn(u))
  BY <1>2 DEF TypeOK, WorksOn
<1>5. \A n \in SnapNames : asOf[n] # None => asOf'[n] = asOf[n]
  BY <1>1
<1>6. \A c \in CloneNames : from[c] # None => from'[c] = from[c]
  BY <1>1
<1>7. TypeOK'
  BY <1>1, <1>2, <1>3 DEF TypeOK, Labels
<1>8. HandlersOK'
  <2>1. \A u \in Workers : op[u] = "createSnapshot" => asOf'[req[u]] # None
    BY <1>5 DEF HandlersOK
  <2>2. \A u \in Workers : op[u] = "createVolume" => from'[req[u]] # None
    BY <1>6 DEF HandlersOK
  <2> SUFFICES ASSUME NEW u \in Workers
               PROVE  /\ pc'[u] = "idle" <=> op'[u] = "none"
                      /\ pc'[u] \in {"getLvstore", "snapCheck", "snapshot", "volumeInfo"} =>
                           op'[u] = "createSnapshot"
                      /\ pc'[u] = "deleteSnapshot" => op'[u] = "deleteSnapshot"
                      /\ pc'[u] \in {"scan", "snapshotInfo", "cloneCheck", "clone", "publish",
                                     "rollBack"} => op'[u] = "createVolume"
                      /\ pc'[u] \in {"unpublish", "deleteVolume"} => op'[u] = "deleteVolume"
                      /\ op'[u] = "createSnapshot" => req'[u] \in SnapNames /\ asOf'[req'[u]] # None
                      /\ op'[u] = "createVolume" => req'[u] \in CloneNames /\ from'[req'[u]] # None
                      /\ op'[u] \in {"deleteSnapshot", "deleteVolume"} => req'[u] \in doomed'
    BY DEF HandlersOK
  <2>3. CASE u = t
    BY <1>1, <1>4, <2>3 DEF Ops
  <2>4. CASE u # t
    BY <1>1, <1>4, <2>1, <2>2, <2>4 DEF HandlersOK
  <2> QED BY <2>3, <2>4
<1>9. VolumeOK'
  BY <1>2, <1>4 DEF VolumeOK
<1>10. NamesOK'
  BY <1>1, <1>2 DEF NamesOK
<1>11. DataOK'
  <2>1. \A n \in SnapNames : asOf'[n] # None => asOf'[n] <= data[Source]
    BY <1>1, <1>3 DEF DataOK
  <2> QED BY <1>2, <1>5, <1>6, <2>1 DEF DataOK
<1>12. LateOK'
  <2>1. \A c \in late : c[2] \in Lvols
    BY DEF TypeOK
  <2> QED BY <1>1, <1>2, <1>5, <1>6, <2>1, Constants DEF LateOK
<1>13. CallsOK'
  <2>1. t \notin awaited /\ (\A u \in awaited : u \in Workers)
    BY <1>2 DEF CallsOK, HandlersOK, TypeOK
  <2>2. \A u, v \in awaited' : req'[u] = req'[v] => u = v
    BY <1>2, <1>4, <2>1 DEF CallsOK
  <2>3. r \in Names => bound[r] = None
    <3>1. r \in doomed' => r \notin Names
      BY <1>1, <1>3, Constants
    <3> QED BY <1>1, <3>1 DEF Ops
  <2>4. \A u \in Workers : req'[u] \in Names \ stray => u \in awaited' /\ bound[req'[u]] = None
    BY <1>2, <1>4, <2>3 DEF CallsOK
  <2>5. \A u \in Workers : op'[u] = "none" => req'[u] = None /\ u \notin awaited'
    BY <1>1, <1>2, <1>4 DEF CallsOK, Ops
  <2> QED BY <1>2, <2>2, <2>4, <2>5 DEF CallsOK
<1>14. ExistsOK'
  <2>1. \A u \in Workers : pc'[u] = "ok" /\ op'[u] = "createVolume" /\ req'[u] \notin stray =>
          vol[u] \in live \cup doomed'
    BY <1>1, <1>4 DEF ExistsOK
  <2>2. \A l \in Lvols : lvname[l] \in SnapNames /\ l \notin doomed' => l \in live
    BY <1>1 DEF ExistsOK
  <2>3. \A c \in CloneNames \ stray : bound[c] \notin doomed' \cup {None} => bound[c] \in live
    BY <1>1 DEF ExistsOK
  <2> QED BY <1>2, <2>1, <2>2, <2>3 DEF ExistsOK
<1>15. UniqueOK'
  <2>1. \A n : Named(n)' = Named(n)
    BY <1>2 DEF Named
  <2>2. NoOrphan'
    BY <1>2, <2>1 DEF UniqueOK, NoOrphan
  <2>3. \A u \in Workers : WorksOn(u)' /\ req'[u] \notin stray => Named(req[u]) \subseteq {vol[u]}
    BY <1>4 DEF UniqueOK
  <2>4. \A u \in Workers : WorksOn(u)' => Named(req[u]) = Named(req[u])'
    BY <1>2, <1>4 DEF Named
  <2> QED BY <1>2, <2>2, <2>3, <2>4 DEF UniqueOK
<1>16. GoneOK'
  BY <1>1, <1>2, <1>4 DEF GoneOK
<1> QED BY <1>7, <1>8, <1>9, <1>10, <1>11, <1>12, <1>13, <1>14, <1>15, <1>16

(* The lock is granted. *)
LEMMA LockKeepsIInv ==
  ASSUME IInv, NEW t \in Workers, Lock(t)
  PROVE  IInv'
<1> USE DEF IInv
<1>1. /\ pc[t] = "lock" /\ pc' = [pc EXCEPT ![t] = FirstLabel(op[t])]
      /\ holder' = [holder EXCEPT ![KeyOf(t)] = t]
      /\ UNCHANGED <<backend, lvstore, late, op, req, vol, orchestrator, history>>
  BY DEF Lock, Goto
<1>2. op[t] \in Ops
  BY <1>1 DEF TypeOK, HandlersOK, Ops
<1>3. /\ pc'[t] \in {"getLvstore", "deleteSnapshot", "scan", "unpublish"}
      /\ pc'[t] = "getLvstore" => op[t] = "createSnapshot"
      /\ pc'[t] = "deleteSnapshot" => op[t] = "deleteSnapshot"
      /\ pc'[t] = "scan" => op[t] = "createVolume"
      /\ pc'[t] = "unpublish" => op[t] = "deleteVolume"
  BY <1>1, <1>2 DEF FirstLabel, TypeOK, Ops
<1> USE DEF lvstore, orchestrator, history
<1>4. ~WorksOn(t)' /\ \A u \in Workers : u # t => pc'[u] = pc[u] /\ (WorksOn(u)' <=> WorksOn(u))
  BY <1>1, <1>3 DEF TypeOK, WorksOn
<1>5. TypeOK'
  BY <1>1, <1>3 DEF TypeOK, Labels
<1>6. HandlersOK'
  BY <1>1, <1>2, <1>3, <1>4 DEF HandlersOK, Ops
<1>7. VolumeOK'
  BY <1>1, <1>4 DEF VolumeOK
<1>8. NamesOK' /\ DataOK' /\ LateOK' /\ CallsOK'
  BY <1>1 DEF NamesOK, DataOK, LateOK, CallsOK
<1>9. ExistsOK'
  BY <1>1, <1>3, <1>4 DEF ExistsOK
<1>10. UniqueOK'
  <2>1. \A u \in Workers : Named(req[u])' = Named(req[u])
    BY <1>1 DEF Named
  <2>2. NoOrphan'
    BY <1>1 DEF UniqueOK, NoOrphan, Named
  <2> QED BY <1>1, <1>4, <2>1, <2>2 DEF UniqueOK
<1>11. GoneOK'
  BY <1>1, <1>3, <1>4 DEF GoneOK
<1> QED BY <1>5, <1>6, <1>7, <1>8, <1>9, <1>10, <1>11

(* A response, and what the CO concludes from it if it still waits. *)
LEMMA ReturnKeepsIInv ==
  ASSUME IInv, NEW t \in Workers, Return(t)
  PROVE  IInv'
<1> USE DEF IInv
<1> DEFINE acked == t \in awaited /\ pc[t] = "ok"
<1>1. /\ pc[t] \in {"ok", "err"}
      /\ pc' = [pc EXCEPT ![t] = "idle"] /\ op' = [op EXCEPT ![t] = "none"]
      /\ req' = [req EXCEPT ![t] = None] /\ vol' = [vol EXCEPT ![t] = None]
      /\ holder' = [holder EXCEPT ![KeyOf(t)] = None]
      /\ awaited' = awaited \ {t}
      /\ bound' = IF acked /\ req[t] \in Names THEN [bound EXCEPT ![req[t]] = vol[t]] ELSE bound
      /\ deleted' = IF acked /\ req[t] \in Lvols THEN deleted \cup {req[t]} ELSE deleted
      /\ UNCHANGED <<backend, born, live, lvname, base, data, late, from, asOf, doomed,
                     stray, unsure, faults, timeouts>>
  BY DEF Return, Goto, lvstore, history
<1>2. op[t] \in Ops
  BY <1>1 DEF TypeOK, HandlersOK, Ops
<1>3. acked /\ req[t] \in Names =>
        WorksOn(t) /\ vol[t] \in Lvols /\ lvname[vol[t]] = req[t]
  <2>1. req[t] \in Names => op[t] \in {"createSnapshot", "createVolume"}
    BY <1>2, Constants DEF HandlersOK, TypeOK, Ops
  <2> QED BY <2>1 DEF WorksOn, VolumeOK
<1>4. acked /\ req[t] \in Lvols => req[t] \in doomed \ live
  <2>1. req[t] \in Lvols => op[t] \in {"deleteSnapshot", "deleteVolume"}
    BY <1>2, Constants DEF HandlersOK, Ops
  <2> QED BY <2>1 DEF HandlersOK, GoneOK
<1>5. \A n \in Names : bound'[n] = bound[n] \/ (n = req[t] /\ acked /\ bound'[n] = vol[t])
  BY <1>1 DEF TypeOK
<1>6. /\ pc'[t] = "idle" /\ op'[t] = "none" /\ req'[t] = None /\ ~WorksOn(t)'
      /\ \A u \in Workers : u # t => /\ pc'[u] = pc[u] /\ op'[u] = op[u] /\ req'[u] = req[u]
                                     /\ vol'[u] = vol[u] /\ (WorksOn(u)' <=> WorksOn(u))
  BY <1>1 DEF TypeOK, WorksOn
<1> HIDE DEF acked
<1>7. TypeOK'
  <2>1. bound' \in [Names -> Lvols \cup {None}]
    BY <1>1, <1>3 DEF TypeOK
  <2>2. deleted' \in SUBSET Lvols
    BY <1>1 DEF TypeOK
  <2> QED BY <1>1, <2>1, <2>2 DEF TypeOK, Labels
<1>8. HandlersOK'
  BY <1>1, <1>6 DEF HandlersOK
<1>9. VolumeOK'
  BY <1>1, <1>6 DEF VolumeOK
<1>10. NamesOK'
  BY <1>1, <1>3, <1>5 DEF NamesOK
<1>11. DataOK' /\ LateOK'
  BY <1>1 DEF DataOK, LateOK
<1>12. CallsOK'
  <2>1. \A u \in Workers : u # t /\ req[u] \in Names \ stray => bound'[req[u]] = None
    <3> SUFFICES ASSUME NEW u \in Workers, u # t, req[u] \in Names \ stray
                 PROVE  bound'[req[u]] = None
      OBVIOUS
    <3>1. u \in awaited /\ bound[req[u]] = None
      BY DEF CallsOK
    <3>2. acked => req[t] # req[u]
      BY <3>1 DEF CallsOK, acked
    <3> QED BY <1>5, <3>1, <3>2
  <2>2. \A u, v \in awaited' : req'[u] = req'[v] => u = v
    BY <1>1, <1>6 DEF CallsOK, TypeOK
  <2> QED BY <1>1, <1>6, <2>1, <2>2, Constants DEF CallsOK
<1>13. ExistsOK'
  <2>1. ASSUME NEW c \in CloneNames \ stray, bound'[c] \notin doomed \cup {None}
        PROVE  bound'[c] \in live
    <3>1. CASE bound'[c] = bound[c]
      BY <2>1, <3>1 DEF ExistsOK
    <3>2. CASE c = req[t] /\ acked /\ bound'[c] = vol[t]
      <4>1. op[t] = "createVolume"
        BY <1>2, <2>1, <3>2, Constants DEF HandlersOK, Ops, TypeOK
      <4> QED BY <2>1, <3>2, <4>1 DEF ExistsOK, acked
    <3> QED BY <1>5, <2>1, <3>1, <3>2, Constants
  <2> QED BY <1>1, <1>6, <2>1 DEF ExistsOK
<1>14. UniqueOK'
  <2>1. \A n \in Names : Named(n)' = Named(n)
    BY <1>1 DEF Named
  <2>2. NoOrphan'
    <3> SUFFICES ASSUME NEW n \in Names \ stray, bound'[n] # None
                 PROVE  Named(n) \subseteq {bound'[n]}
      BY <1>1, <2>1 DEF NoOrphan
    <3>1. CASE bound'[n] = bound[n]
      BY <3>1 DEF UniqueOK, NoOrphan
    <3>2. CASE n = req[t] /\ acked /\ bound'[n] = vol[t]
      BY <1>3, <3>2 DEF UniqueOK
    <3> QED BY <1>5, <3>1, <3>2
  <2>3. \A u \in Workers : WorksOn(u)' /\ req'[u] \notin stray => Named(req[u]) \subseteq {vol'[u]}
    BY <1>6 DEF UniqueOK
  <2>4. \A u \in Workers : WorksOn(u)' => Named(req[u]) = Named(req[u])'
    BY <1>1, <1>6 DEF Named
  <2> QED BY <1>1, <2>2, <2>3, <2>4 DEF UniqueOK
<1>15. GoneOK'
  BY <1>1, <1>4, <1>6 DEF GoneOK
<1> QED BY <1>7, <1>8, <1>9, <1>10, <1>11, <1>12, <1>13, <1>14, <1>15

(* The CO gives a call up: its name is stray from then on. *)
LEMMA TimeOutKeepsIInv ==
  ASSUME IInv, NEW t \in Workers, TimeOut(t)
  PROVE  IInv'
<1> USE DEF IInv
<1>1. /\ awaited' = awaited \ {t} /\ stray' = stray \cup ({req[t]} \cap Names)
      /\ UNCHANGED <<backend, born, live, lvname, base, data, late, pc, op, req, vol, holder,
                     bound, from, asOf, doomed, deleted, faults>>
  BY DEF TimeOut, lvstore, handlers
<1>2. TypeOK'
  <2>1. unsure' \in SUBSET Lvols
    BY DEF TimeOut, HandlersOK, TypeOK
  <2>2. timeouts' \in 0..MaxTimeouts
    BY SnapshotsAssumption DEF TimeOut, TypeOK
  <2> QED BY <1>1, <2>1, <2>2 DEF TypeOK
<1>3. HandlersOK' /\ VolumeOK' /\ NamesOK' /\ DataOK' /\ GoneOK'
  BY <1>1 DEF HandlersOK, VolumeOK, WorksOn, NamesOK, DataOK, GoneOK
<1>4. LateOK' /\ ExistsOK'
  BY <1>1 DEF LateOK, ExistsOK
<1>5. CallsOK'
  BY <1>1 DEF CallsOK
<1>6. UniqueOK'
  BY <1>1 DEF UniqueOK, NoOrphan, Named, WorksOn
<1> QED BY <1>2, <1>3, <1>4, <1>5, <1>6

(* The source's data changes, and no other lvol's. *)
LEMMA UserWritesKeepsIInv ==
  ASSUME IInv, UserWrites
  PROVE  IInv'
<1> USE DEF IInv
<1>1. /\ data[Source] < MaxWrites /\ data' = [data EXCEPT ![Source] = data[Source] + 1]
      /\ UNCHANGED <<backend, born, live, lvname, base, late, pc, op, req, vol, holder,
                     bound, from, asOf, doomed, deleted, awaited, stray, unsure, faults, timeouts>>
  BY DEF UserWrites, handlers, orchestrator, history
<1>2. Source \in Lvols /\ Source \in 0..born /\ 0..born \subseteq Lvols
  BY Constants, SnapshotsAssumption DEF TypeOK, Source, Lvols
<1>3. data[Source] \in 0..MaxWrites
  BY <1>2 DEF TypeOK, DataOK
<1>4. /\ data'[Source] = data[Source] + 1
      /\ \A l \in Lvols \ {Source} : data'[l] = data[l]
  BY <1>1, <1>2 DEF TypeOK
<1>5. data'[Source] \in 0..MaxWrites /\ data'[Source] # None
  BY <1>1, <1>3, <1>4, Constants, SnapshotsAssumption
<1>6. TypeOK'
  <2>1. data' \in [Lvols -> (0..MaxWrites) \cup {None}]
    BY <1>1, <1>4, <1>5 DEF TypeOK
  <2> QED BY <1>1, <2>1 DEF TypeOK
<1>7. DataOK'
  <2>1. \A l \in 0..born : data'[l] # None
    BY <1>2, <1>4, <1>5 DEF DataOK
  <2>2. \A n \in SnapNames : asOf[n] # None => asOf[n] <= data'[Source]
    <3>1. \A n \in SnapNames : asOf[n] # None => asOf[n] \in Nat
      BY SnapshotsAssumption DEF TypeOK
    <3> QED BY <1>3, <1>4, <3>1, SnapshotsAssumption DEF DataOK
  <2>3. \A l \in Lvols : lvname[l] \in Names => l # Source
    BY Constants DEF NamesOK
  <2>4. ASSUME NEW l \in Lvols, lvname[l] \in SnapNames
        PROVE  /\ asOf[lvname[l]] # None
               /\ asOf[lvname[l]] <= data'[l] /\ data'[l] <= data'[Source]
    <3>1. data'[l] = data[l] /\ data[l] \in 0..MaxWrites
      <4>1. l \in 0..born
        BY <2>4, Constants DEF NamesOK, TypeOK
      <4> QED BY <1>4, <2>3, <2>4, <4>1, Constants DEF DataOK, TypeOK
    <3> QED BY <1>3, <1>4, <2>4, <3>1, SnapshotsAssumption DEF DataOK
  <2>5. ASSUME NEW l \in Lvols, lvname[l] \in CloneNames
        PROVE  from[lvname[l]] # None /\ data'[l] = data'[from[lvname[l]]]
    <3>1. from[lvname[l]] # None /\ data[l] = data[from[lvname[l]]]
      BY <2>5 DEF DataOK
    <3>2. from[lvname[l]] \in Lvols /\ lvname[from[lvname[l]]] \in Names
      BY <2>5, <3>1, Constants DEF NamesOK, TypeOK
    <3> QED BY <1>4, <2>3, <2>5, <3>1, <3>2, Constants
  <2> QED BY <1>1, <2>1, <2>2, <2>4, <2>5 DEF DataOK
<1>8. HandlersOK' /\ VolumeOK' /\ NamesOK' /\ LateOK' /\ CallsOK' /\ ExistsOK' /\ GoneOK'
  BY <1>1 DEF HandlersOK, VolumeOK, WorksOn, NamesOK, LateOK, CallsOK, ExistsOK, GoneOK
<1>9. UniqueOK'
  BY <1>1 DEF UniqueOK, NoOrphan, Named, WorksOn
<1> QED BY <1>6, <1>7, <1>8, <1>9

(* SPDK serves a request that nobody waits for any more. *)
LEMMA ServeLateKeepsIInv ==
  ASSUME IInv, ServeLate
  PROVE  IInv'
<1> USE DEF IInv
<1>1. PICK c \in late :
        /\ late' = late \ {c}
        /\ Serve(c[1], c[2], c[3]) \/ UNCHANGED lvstore
        /\ UNCHANGED <<backend, pc, op, req, vol, holder, bound, from, asOf, doomed, deleted,
                       awaited, stray, unsure, faults, timeouts>>
  BY DEF ServeLate, handlers, orchestrator, history
<1>2. CASE UNCHANGED lvstore
  <2> USE DEF lvstore
  <2>1. TypeOK'
    BY <1>1, <1>2 DEF TypeOK
  <2>2. HandlersOK' /\ VolumeOK' /\ NamesOK' /\ DataOK' /\ CallsOK' /\ ExistsOK' /\ GoneOK'
    BY <1>1, <1>2 DEF HandlersOK, VolumeOK, WorksOn, NamesOK, DataOK, CallsOK, ExistsOK, GoneOK
  <2>3. LateOK'
    BY <1>1, <1>2 DEF LateOK
  <2>4. UniqueOK'
    BY <1>1, <1>2 DEF UniqueOK, NoOrphan, Named, WorksOn
  <2> QED BY <2>1, <2>2, <2>3, <2>4
<1>3. CASE Serve(c[1], c[2], c[3])
  <2> DEFINE m == c[1] l == c[2] n == c[3]
  <2>1. m \in {"snapshot", "clone", "delete"} /\ l \in Lvols
    BY DEF TypeOK
  <2>2. Legit(m, l, n)
    BY <2>1, Constants DEF Legit, LateOK
  <2>3. /\ m # "delete" => n \in stray
        /\ m = "delete" => l \in doomed \/ lvname[l] \in CloneNames \cap stray
    BY <2>1 DEF LateOK
  <2> HIDE DEF m, l, n
  <2>4. Served(m, l, n) /\ live' \subseteq Lvols
    BY <1>3, <2>2, ServeEffect, ServeTyping DEF m, l, n
  <2>5. TypeOK'
    BY <1>1, <1>3, <2>2, ServeTyping DEF TypeOK, m, l, n
  <2>6. NamesOK' /\ DataOK'
    BY <1>1, <1>3, <2>2, ServeKeepsNames, ServeKeepsData DEF m, l, n
  <2>7. HandlersOK' /\ CallsOK'
    BY <1>1 DEF HandlersOK, CallsOK
  <2>8. VolumeOK'
    <3>1. \A u \in Workers : WorksOn(u) => req[u] # None
      BY Constants DEF WorksOn, HandlersOK
    <3> QED BY <1>1, <2>4, <3>1 DEF VolumeOK, WorksOn, Served
  <2>9. LateOK'
    <3>1. \A d \in late : lvname[d[2]] \in CloneNames => lvname'[d[2]] = lvname[d[2]]
      BY <2>4, Constants DEF TypeOK, Served
    <3> QED BY <1>1, <3>1 DEF LateOK
  <2>10. \A k \in live \ live' : k \in doomed \/ lvname[k] \in CloneNames \cap stray
    BY <2>3, <2>4 DEF Served
  <2>11. ExistsOK'
    <3>1. ASSUME NEW k \in Lvols, lvname'[k] \in SnapNames, k \notin doomed PROVE k \in live'
      BY <2>4, <2>10, <3>1, Constants DEF ExistsOK, Served
    <3>2. ASSUME NEW u \in Workers, pc[u] = "ok", op[u] = "createVolume", req[u] \notin stray
          PROVE  vol[u] \in live' \cup doomed
      BY <2>10, <3>2 DEF ExistsOK, VolumeOK, WorksOn
    <3>3. ASSUME NEW d \in CloneNames \ stray, bound[d] \notin doomed \cup {None}
          PROVE  bound[d] \in live'
      BY <2>10, <3>3, Constants DEF ExistsOK, NamesOK
    <3> QED BY <1>1, <3>1, <3>2, <3>3 DEF ExistsOK
  <2>12. UniqueOK'
    <3>1. \A a : a \notin stray => Named(a)' \subseteq Named(a)
      BY <2>3, <2>4 DEF Served, Named, TypeOK
    <3>2. NoOrphan'
      BY <1>1, <3>1 DEF UniqueOK, NoOrphan
    <3>3. \A u \in Workers : WorksOn(u) /\ req[u] \notin stray => Named(req[u])' \subseteq {vol[u]}
      BY <1>1, <3>1 DEF UniqueOK
    <3>4. \A k, j \in live' : lvname'[k] = lvname'[j] /\ lvname'[k] # None => k = j
      BY <1>3, <2>2, ServeKeepsUnique DEF m, l, n
    <3> QED BY <1>1, <3>2, <3>3, <3>4 DEF UniqueOK, WorksOn
  <2>13. GoneOK'
    <3>1. \A k \in doomed : k \in live' => k \in live
      <4>1. \A k \in 0..born : ~(k = born' /\ born' > born)
        BY <2>5, Constants DEF TypeOK
      <4> QED BY <2>4, <4>1 DEF Served, NamesOK
    <3> QED BY <1>1, <3>1 DEF GoneOK, HandlersOK
  <2> QED BY <2>5, <2>6, <2>7, <2>8, <2>9, <2>11, <2>12, <2>13
<1> QED BY <1>1, <1>2, <1>3

(* The process ends by a panic or is killed. *)
LEMMA ProcessEndsKeepsIInv ==
  ASSUME IInv, Fault, ProcessEnds
  PROVE  IInv'
<1> USE DEF IInv
<1>1. /\ \A u \in Workers : pc'[u] = "idle" /\ op'[u] = "none" /\ req'[u] = None
      /\ awaited' = {}
      /\ UNCHANGED <<backend, born, live, lvname, base, data, late, bound, from, asOf, doomed,
                     deleted, stray, timeouts>>
  BY DEF ProcessEnds, lvstore
<1>2. TypeOK'
  <2>1. faults' \in 0..MaxFaults
    BY SnapshotsAssumption DEF Fault, TypeOK
  <2>2. unsure' \in SUBSET Lvols
    BY DEF ProcessEnds, TypeOK, HandlersOK
  <2> QED BY <1>1, <2>1, <2>2 DEF ProcessEnds, TypeOK, Labels
<1>3. HandlersOK' /\ VolumeOK' /\ CallsOK'
  BY <1>1, Constants DEF HandlersOK, VolumeOK, WorksOn, CallsOK
<1>4. NamesOK' /\ DataOK' /\ LateOK' /\ ExistsOK' /\ GoneOK'
  BY <1>1 DEF NamesOK, DataOK, LateOK, ExistsOK, GoneOK
<1>5. UniqueOK'
  BY <1>1 DEF UniqueOK, NoOrphan, Named, WorksOn
<1> QED BY <1>2, <1>3, <1>4, <1>5

-----------------------------------------------------------------------------
(* The theorems.                                                             *)

LEMMA InitEstablishesIInv ==
  ASSUME Init
  PROVE  IInv
<1> USE DEF Init
<1>1. TypeOK
  BY SnapshotsAssumption, Constants DEF TypeOK, Labels
<1>2. HandlersOK /\ VolumeOK /\ LateOK /\ CallsOK
  BY Constants DEF HandlersOK, VolumeOK, WorksOn, LateOK, CallsOK
<1>3. NamesOK
  BY Constants DEF NamesOK, Source
<1>4. DataOK
  BY Constants, SnapshotsAssumption DEF DataOK, Source
<1>5. ExistsOK /\ GoneOK
  BY Constants DEF ExistsOK, GoneOK
<1>6. UniqueOK
  BY Constants DEF UniqueOK, NoOrphan, Named, WorksOn
<1> QED BY <1>1, <1>2, <1>3, <1>4, <1>5, <1>6 DEF IInv

(* Every step of the handlers, the CO, the user, SPDK and the process keeps  *)
(* the inductive invariant.                                                  *)
LEMMA NextKeepsIInv ==
  ASSUME IInv, [Next]_vars
  PROVE  IInv'
<1>1. CASE UNCHANGED vars
  <2> USE <1>1 DEF vars, lvstore, handlers, orchestrator, history, IInv
  <2>1. TypeOK'
    BY DEF TypeOK
  <2>2. HandlersOK' /\ VolumeOK' /\ NamesOK' /\ DataOK' /\ LateOK' /\ CallsOK'
    BY DEF HandlersOK, VolumeOK, WorksOn, NamesOK, DataOK, LateOK, CallsOK
  <2>3. ExistsOK' /\ GoneOK'
    BY DEF ExistsOK, GoneOK
  <2>4. UniqueOK'
    BY DEF UniqueOK, NoOrphan, Named, WorksOn
  <2> QED BY <2>1, <2>2, <2>3, <2>4
<1>2. CASE Panic \/ Crash
  BY <1>2, ProcessEndsKeepsIInv DEF Panic, Crash
<1>3. CASE Next /\ ~Panic /\ ~Crash
  BY <1>1, <1>3, NextCases, CallsKeepIInv, TimeOutKeepsIInv, LockKeepsIInv, ReturnKeepsIInv,
     AsksKeepIInv, ChangesKeepIInv, UserWritesKeepsIInv, ServeLateKeepsIInv
<1> QED BY <1>1, <1>2, <1>3

(* The inductive invariant of snapshots and clones. *)
THEOREM InductiveInvariant == Spec => []IInv
  BY InitEstablishesIInv, NextKeepsIInv, PTL DEF Spec

(* Snapshots' state is well typed. *)
THEOREM TypeCorrect == Spec => []TypeOK
<1>1. IInv => TypeOK
  BY DEF IInv
<1> QED BY <1>1, InductiveInvariant, PTL

(* nodeNVMf.CreateSnapshot and CloneVolume look the name up first, so what   *)
(* is acknowledged may be an earlier attempt's lvol; its name stands for the *)
(* data all the same: a snapshot's is of a moment since it was first asked   *)
(* for, a clone's is its snapshot's.                                         *)
THEOREM SnapshotsRestore == Spec => []RestoresWhatWasSnapshotted
<1>1. IInv => RestoresWhatWasSnapshotted
  <2> SUFFICES ASSUME IInv PROVE RestoresWhatWasSnapshotted
    OBVIOUS
  <2>1. \A n \in Names : bound[n] # None => bound[n] \in Lvols /\ lvname[bound[n]] = n
    BY DEF IInv, TypeOK, NamesOK
  <2> QED BY <2>1, Constants DEF IInv, DataOK, RestoresWhatWasSnapshotted
<1> QED BY <1>1, InductiveInvariant, PTL

(* DeleteSnapshot, DeleteVolume and the roll-back of CreateVolume delete     *)
(* nothing that the CO was acknowledged and did not ask to delete, save the  *)
(* roll-back of a call it had given up, which may delete the clone.          *)
THEOREM AcknowledgedLvolsExist == Spec => []AckedExists
<1>1. IInv => AckedExists
  <2> SUFFICES ASSUME IInv, NEW n \in Names \ (stray \cap CloneNames),
                      bound[n] \notin doomed \cup {None}
               PROVE  bound[n] \in live
    BY DEF AckedExists
  <2>1. bound[n] \in Lvols /\ lvname[bound[n]] = n
    BY DEF IInv, TypeOK, NamesOK
  <2>2. CASE n \in SnapNames
    BY <2>1, <2>2 DEF IInv, ExistsOK
  <2>3. CASE n \in CloneNames
    BY <2>3 DEF IInv, ExistsOK
  <2> QED BY <2>2, <2>3 DEF Names
<1> QED BY <1>1, InductiveInvariant, PTL

(* The lookup of the alias keeps a repeated creation from leaving an lvol    *)
(* behind that nobody knows of.                                              *)
THEOREM NoLvolIsOrphaned == Spec => []NoOrphan
<1>1. IInv => NoOrphan
  BY DEF IInv, UniqueOK
<1> QED BY <1>1, InductiveInvariant, PTL

(* DeleteSnapshot and DeleteVolume succeed only when the lvol is gone, and   *)
(* an id is never given out twice.                                           *)
THEOREM DeletedLvolsAreGone == Spec => []DeletedIsGone
<1>1. IInv => DeletedIsGone
  BY DEF IInv, GoneOK, DeletedIsGone
<1> QED BY <1>1, InductiveInvariant, PTL
=============================================================================
