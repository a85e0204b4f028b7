------------------------------ MODULE Scheduler ------------------------------
(* Sizes and placement of a volume: the integer arithmetic of createVolume   *)
(* and schedule (pkg/spdk/controllerserver.go), ToMiB (pkg/util/util.go) and *)
(* lvStores (pkg/util/jsonrpc.go), for one CreateVolume request that the CO  *)
(* repeats.  The lvstores' free space changes under the scheduler's feet:    *)
(* volumes are thinly provisioned, so it shrinks as users write and grows as *)
(* volumes are deleted, and a new volume takes none of it.                   *)
(*                                                                           *)
(* Integers are Go's int64, with wrap-around and division that truncates, up *)
(* to MaxInt (2^63 - 1 in the code); K stands for 1024.                      *)
EXTENDS Integers, Sequences

CONSTANTS
  MaxInt,        \* the largest int64
  K,             \* 1024
  Nodes,         \* storage nodes
  Stores,
  StoresOf,      \* StoresOf[nd]: its lvstores, in the order bdev_lvol_get_lvstores lists them
  ClusterSize,   \* ClusterSize[s]: bytes
  Clusters,      \* Clusters[s]: total number of data clusters
  None,
  Wanted,        \* sizes that may be asked for, in bytes; 0: none given
  SnapshotSizes, \* sizes of snapshots a volume may be created from, in bytes
  MaxFaults,     \* bound on JSON-RPCs that fail
  MaxMoves       \* bound on changes of a store's free space

Mi == K * K
Int64 == -(MaxInt + 1)..MaxInt

(* A MiB divides 2^63; clusters are a multiple or a fraction of a MiB; a     *)
(* store's bytes fit an int64; a snapshot's size is a number of MiB.         *)
ASSUME SchedulerAssumption ==
  /\ MaxInt \in Nat /\ K \in Nat \ {0}
  /\ K * Mi <= MaxInt /\ (MaxInt + 1) % Mi = 0
  /\ StoresOf \in [Nodes -> Seq(Stores)]
  /\ \A s \in Stores :
       /\ ClusterSize[s] \in Nat \ {0} /\ Clusters[s] \in Nat
       /\ ClusterSize[s] % Mi = 0 \/ Mi % ClusterSize[s] = 0
       /\ Clusters[s] * ClusterSize[s] <= MaxInt
  /\ None \notin Stores
  /\ Wanted \subseteq 0..MaxInt
  /\ \A b \in SnapshotSizes : b \in 1..MaxInt /\ b % Mi = 0
  /\ MaxFaults \in Nat /\ MaxMoves \in Nat

VARIABLES
  want,       \* RequiredBytes of the request
  snapshot,   \* size of the snapshot it names as its source; 0: none
  free,       \* free[s]: free clusters
  pc,
  sizeMiB,
  capacity,   \* CapacityBytes of the response
  todo,       \* schedule: nodes not yet visited
  seen,       \* seen[s]: free clusters of s in the reply of this call; -1: not asked, or no reply
  pick,       \* the store schedule found
  lvol,       \* bytes of the lvol created; 0: none
  faults, moves

request == <<want, snapshot>>
vars == <<request, free, pc, sizeMiB, capacity, todo, seen, pick, lvol, faults, moves>>

-----------------------------------------------------------------------------
(* Go's int64. *)

Wrap(x) == ((x + MaxInt + 1) % (2 * (MaxInt + 1))) - (MaxInt + 1)

Quot(a, b) == IF a >= 0 THEN a \div b ELSE -((-a) \div b)

(* Mutant: rounds down. *)
ToMiB_RoundsDown(bytes) == Quot(bytes, Mi)

(* round up bytes to megabytes: (bytes + mi - 1) / mi *)
ToMiB(bytes) == Quot(Wrap(Wrap(bytes + Mi) - 1), Mi)

(* No size given: resize to 1G. *)
Size == IF want = 0 THEN K * Mi ELSE want

(* ToMiB overflows for sizes within a MiB of the largest int64. *)
Overflows == Size > MaxInt - Mi + 1

(* How much of every store may be free. *)
FreeSpace ==
  {f \in [Stores -> UNION {0..Clusters[s] : s \in Stores}] :
     \A s \in Stores : f[s] <= Clusters[s]}

TypeOK ==
  /\ want \in Wanted /\ snapshot \in SnapshotSizes \cup {0}
  /\ free \in FreeSpace
  /\ pc \in {"idle", "schedule", "create", "clone", "ok", "full", "err"}
  /\ sizeMiB \in Int64
  /\ capacity \in Int64 /\ capacity % Mi = 0
  /\ todo \in SUBSET Nodes
  /\ seen \in [Stores -> Nat \cup {-1}]
  /\ pick \in Stores \cup {None}
  /\ lvol \in 0..MaxInt
  /\ faults \in 0..MaxFaults /\ moves \in 0..MaxMoves

Init ==
  /\ want \in Wanted /\ snapshot \in SnapshotSizes \cup {0}
  /\ free \in FreeSpace
  /\ pc = "idle"
  /\ sizeMiB = 0 /\ capacity = 0
  /\ todo = {} /\ pick = None /\ lvol = 0
  /\ seen = [s \in Stores |-> -1]
  /\ faults = 0 /\ moves = 0

-----------------------------------------------------------------------------
Fault == faults < MaxFaults /\ faults' = faults + 1

(* Mutant: the response's capacity is what was asked for. *)
CallCreateVolume_RawCapacity ==
  /\ pc \in {"idle", "full", "err"}
  /\ sizeMiB' = ToMiB(Size)
  /\ capacity' = Size
  /\ pc' = IF snapshot # 0 THEN "clone" ELSE "schedule"
  /\ todo' = Nodes
  /\ seen' = [s \in Stores |-> -1]
  /\ pick' = None
  /\ UNCHANGED <<request, free, lvol, faults, moves>>

(* createVolume: the size and the capacity of the response, before anything  *)
(* is asked of a node.  (A volume that an earlier attempt left is found by   *)
(* its name and has the size of this request: see Controller.)               *)
CallCreateVolume ==
  /\ pc \in {"idle", "full", "err"}
  /\ sizeMiB' = ToMiB(Size)
  /\ capacity' = Wrap(ToMiB(Size) * Mi)
  /\ pc' = IF snapshot # 0 THEN "clone" ELSE "schedule"
  /\ todo' = Nodes
  /\ seen' = [s \in Stores |-> -1]
  /\ pick' = None
  /\ UNCHANGED <<request, free, lvol, faults, moves>>

(* lvStores: FreeSizeMiB = free_clusters * cluster_size / 1024 / 1024 *)
FreeSizeMiB(s) == Quot(Quot(Wrap(free[s] * ClusterSize[s]), K), K)

(* Mutant: TotalSizeMiB is compared. *)
EnoughSpace_Total(s) == Quot(Clusters[s] * ClusterSize[s], Mi) > sizeMiB

(* Mutant: half of the free space is kept in reserve. *)
EnoughSpace_Reserve(s) == FreeSizeMiB(s) \div 2 > sizeMiB

EnoughSpace(s) == FreeSizeMiB(s) > sizeMiB

(* Mutant: only the first lvstore of a node is considered. *)
FirstFit_FirstStore(nd) ==
  {i \in DOMAIN StoresOf[nd] : i = 1 /\ EnoughSpace(StoresOf[nd][i])}

(* The first lvstore of the node with enough free space, if any. *)
FirstFit(nd) ==
  {i \in DOMAIN StoresOf[nd] :
     EnoughSpace(StoresOf[nd][i]) /\ \A j \in 1..(i - 1) : ~EnoughSpace(StoresOf[nd][j])}

(* schedule visits the nodes in any order (a Go map), skips one that does    *)
(* not answer, and stops at the first store with enough space.               *)
VisitNode(nd) ==
  /\ pc = "schedule"
  /\ nd \in todo
  /\ todo' = todo \ {nd}
  /\ \/ /\ seen' = [s \in Stores |->
                     IF \E i \in DOMAIN StoresOf[nd] : StoresOf[nd][i] = s THEN free[s] ELSE seen[s]]
        /\ \/ /\ \E i \in FirstFit(nd) : pick' = StoresOf[nd][i]
              /\ pc' = "create"
           \/ /\ FirstFit(nd) = {}
              /\ pc' = IF todo' = {} THEN "full" ELSE "schedule"
              /\ UNCHANGED pick
        /\ UNCHANGED faults
     \/ /\ Fault
        /\ pc' = IF todo' = {} THEN "full" ELSE "schedule"
        /\ UNCHANGED <<seen, pick>>
  /\ UNCHANGED <<request, free, sizeMiB, capacity, lvol, moves>>

(* SPDK rounds an lvol's size up to whole clusters; it refuses a size that   *)
(* is not positive.                                                          *)
RoundUp(bytes, cluster) == ((bytes + cluster - 1) \div cluster) * cluster

(* rpcClient.createVolume: size = sizeMiB * 1024 * 1024 *)
Create ==
  LET bytes == Wrap(Wrap(sizeMiB * K) * K) IN
  /\ pc = "create"
  /\ \/ /\ bytes > 0
        /\ lvol' = RoundUp(bytes, ClusterSize[pick])
        /\ pc' = "ok"
        /\ UNCHANGED faults
     \/ bytes <= 0 /\ pc' = "err" /\ UNCHANGED <<lvol, faults>>
     \/ Fault /\ pc' = "err" /\ UNCHANGED lvol
  /\ UNCHANGED <<request, free, sizeMiB, capacity, todo, seen, pick, moves>>

(* CloneVolume has no size: the clone is as large as the snapshot. *)
Clone ==
  /\ pc = "clone"
  /\ \/ lvol' = snapshot /\ pc' = "ok" /\ UNCHANGED faults
     \/ Fault /\ pc' = "err" /\ UNCHANGED lvol
  /\ UNCHANGED <<request, free, sizeMiB, capacity, todo, seen, pick, moves>>

(* Users fill a store or free space in it. *)
FreeSpaceChanges ==
  /\ moves < MaxMoves /\ pc # "ok"
  /\ moves' = moves + 1
  /\ \E s \in Stores : \E c \in 0..Clusters[s] : free' = [free EXCEPT ![s] = c]
  /\ UNCHANGED <<request, pc, sizeMiB, capacity, todo, seen, pick, lvol, faults>>

Done == pc = "ok" /\ UNCHANGED vars

Step == CallCreateVolume \/ (\E nd \in Nodes : VisitNode(nd)) \/ Create \/ Clone

Next == Step \/ FreeSpaceChanges \/ Done

Spec == Init /\ [][Next]_vars

(* The handler runs and the CO repeats a call that failed. *)
FairSpec == Spec /\ WF_vars(Step)

-----------------------------------------------------------------------------
(* Properties.                                                               *)

(* An acknowledged volume is as large as the response says, which is what    *)
(* was asked for rounded up to the next MiB; for every size, overflow        *)
(* included, except that a volume created from a smaller snapshot is only as *)
(* large as the snapshot and the response still says what was asked for.     *)
CapacityIsHonest ==
  pc = "ok" /\ (snapshot = 0 \/ Size <= snapshot) =>
    Size <= capacity /\ capacity < Size + Mi /\ capacity <= lvol

(* The store that was picked had room for the whole volume when it was       *)
(* looked at, cluster rounding included, unless the size overflowed.         *)
PickHasRoom ==
  pick # None /\ ~Overflows =>
    seen[pick] * ClusterSize[pick] >= RoundUp(sizeMiB * Mi, ClusterSize[pick])

(* schedule gives up only when every store that answered had less room than  *)
(* the volume and one MiB more.  (A store with exactly the room needed is    *)
(* passed over.)                                                             *)
FailureMeansFull ==
  pc = "full" =>
    \A s \in Stores : seen[s] # -1 => seen[s] * ClusterSize[s] < (sizeMiB + 1) * Mi

(* The store has room for the volume, rounded up to a MiB, and one MiB more. *)
Roomy(s) == ~Overflows /\ free[s] * ClusterSize[s] >= RoundUp(Size, Mi) + Mi

(* If some store has enough room from some time on, the volume is created in *)
(* the end, on whichever node the store is.                                  *)
FitsIsServed == \A s \in Stores : <>[]Roomy(s) => <>(pc = "ok")
=============================================================================
