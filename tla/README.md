# Verification of spdk-csi

TLA+ models of the SPDK CSI driver, checked with TLC, and theorems about them
proved with TLAPS. `PROJECT.json` lists components, runs, mutants, the mapping of
definitions to source lines, findings, hazards and theorems.

## 1. The system

The driver is one Go binary that runs in two roles under Kubernetes.

| Component | State | Operations | Interacts with |
|---|---|---|---|
| controller service (`pkg/spdk/controllerserver.go`) | volume locks; no record of volumes: everything else is on the storage nodes | CreateVolume, DeleteVolume, CreateSnapshot, DeleteSnapshot, ValidateVolumeCapabilities | called by the provisioner sidecar (the CO), calls a storage backend |
| storage backends (`pkg/util/nvmf.go`, `iscsi.go`) | none that survives a request (`newSpdkNode` per request) | Create, Get, Publish, Unpublish, Delete, VolumeInfo, snapshot, clone | JSON-RPC client |
| JSON-RPC client (`pkg/util/jsonrpc.go`) | request id | call, error classification | SPDK targets over HTTP, 20 s limit |
| SPDK target (external) | lvstores, lvols, subsystems, transports | JSON-RPC methods | |
| volume locks (`pkg/util/idlocker.go`) | `sync.Map` of mutexes | Lock, returned unlock | both services |
| node service (`pkg/spdk/nodeserver.go`) | volume locks; mounts and files of the host | NodeStage, NodeUnstage, NodePublish, NodeUnpublish | called by kubelet, uses initiators, mounter, stashed context |
| kernel initiators (`pkg/util/initiator.go`) | none; the block device | Connect, Disconnect | `nvme`, `iscsiadm`, udev |
| stashed context (`pkg/util/util.go`) | `volume-context.json` beside the staging path | stash, lookup, clean up | node service |
| xPU initiator, SMA and OPI backends (`xpuinitiator.go`, `smainitiator.go`, `opiinitiator.go`) | context file, physical functions, remote objects | Connect, Disconnect and their roll-backs | SMA/OPI servers over gRPC |
| scheduler and sizes (`controllerserver.go`, `util.go`, `jsonrpc.go`) | none; the free space of the lvstores | `schedule`, `ToMiB`, `lvStores` | CreateVolume |
| identity service, gRPC scaffolding, configuration | none of interest | | |

What is hard here:

* every gRPC call runs in a goroutine of its own and ignores its context: a call
  the CO gave up after its time-out runs on beside its retry;
* CreateVolume locks a *name*, DeleteVolume an *id*: the two locks do not exclude
  each other for one volume;
* a JSON-RPC may fail after the target served it, or be served after the driver
  gave it up;
* roll-backs are sequences of calls that can fail themselves;
* the process can be killed between any two calls, and keeps nothing: the next call
  must make sense of what it finds on the storage nodes or on the host.

What makes each part correct: a lock excludes per volume and only per volume; a
name has one volume, an acknowledged volume stays usable, a deleted one stays gone,
and retries come to an end (controller); no data is removed, what was acknowledged
is mounted, what was torn down is gone, and repeated calls come to an end (node); a
function of the xPU carries one volume, the device that is mounted is the volume's, and
a failed Connect leaves nothing behind (xPU); a snapshot holds the data of the time it
was asked for and outlives its source (snapshots); publishers that share groups do not
disturb each other and nothing acknowledged is unreachable (iSCSI); a volume is as
large as the response says and fits where it is put (scheduler).

## 2. Modules

| Module | Models |
|---|---|
| `KeyedLock` | what a lock per key promises: request, acquire, release, end of the process |
| `VolumeLocks` | `idlocker.go`, a step per `sync.Map` / `sync.Mutex` call; implements `KeyedLock` |
| `SpdkTarget` | the storage nodes as the driver uses them: when a method is refused and what it changes (external) |
| `Controller` | CreateVolume and DeleteVolume with the NVMe-oF backend, a step per JSON-RPC; uses the lock as `KeyedLock` prescribes |
| `NodeServer` | the node service with a kernel initiator and the stashed context, a step per command, mount or file operation |
| `XpuInitiator` | staging through an xPU: the xPU initiator with its SMA and OPI backends, a step per gRPC and per look at sysfs |
| `Snapshots` | CreateSnapshot, DeleteSnapshot, CreateVolume from a snapshot and DeleteVolume over one lvstore of a node of either kind, a step per JSON-RPC |
| `IscsiTarget` | the iSCSI backend under CreateVolume and DeleteVolume, a step per JSON-RPC, with restarts of the driver and of the SPDK target |
| `Scheduler` | sizes and placement of a new volume in integers of bounded width |
| `VolumeLocksProofs`, `ControllerProofs`, `ControllerExportProofs`, `NodeServerProofs`, `SnapshotsProofs`, `IscsiTargetProofs`, `SchedulerProofs`, `XpuInitiatorProofs` | theorems about the module of that name and their proofs |
| `MCVolumeLocks`, `MCController`, `MCNodeServer`, `MCXpuInitiator`, `MCSnapshots`, `MCIscsiTarget`, `MCScheduler` | constants for TLC, with one `.cfg` per run |

The modules share no variables. `Controller` uses the lock as `KeyedLock` prescribes
and `VolumeLocks` implements that; `Snapshots`, `IscsiTarget` and `NodeServer` take a
lock as one step on that ground. `Snapshots` and `Scheduler` refine what `Controller`
leaves open (the clone branch, sizes and which store is picked), and `IscsiTarget` puts the
other backend under the same handlers.

### Controller

`pc[t]` is the next call of the handler in goroutine `t`; `vol[t]` the lvol it works
on, `key[t]` what it locked. The labels are the calls of the code in its order:

* `lock`: `volumeLocks.Lock`, a single step here (justified by `VolumeLocks`);
* `scanNode`, `scanStore`: `getVolume`, `LvStores` of a node and then `GetVolume` per
  store. Any error of `LvStores` ends the scan as "not found";
* `schedule`, `createCheck`, `createLvol`: `schedule` and the backend's
  `CreateVolume`;
* `pub*`, `info*`: `publishVolume`, that is `PublishVolume` and `VolumeInfo`;
* `unp*`, `getNsID`, `removeNs`, `deleteSubsystem`, `deleteLvol`: `UnpublishVolume`
  and `DeleteVolume`, shared by the DeleteVolume handler and by CreateVolume's error
  path, which ignores their outcome;
* `ok`, `err`: the response. `Return` is the deferred unlock together with the
  response: nothing of the handler runs between them.

How a JSON-RPC ends is in `Rpc`, `Ask` and `LookUp`: served; refused; served with the
reply lost; given up, in which case SPDK may serve it later (`late`, `lateNew`,
`ServeLate`) or never. `rpcClient.getVolume` indexes an empty result when
`bdev_get_bdevs` fails with anything but "No such device": `Panic` ends the process.

`blind` is a history variable: the names for which a scan was cut short, or a
creation was given up and left to be served later. These are the two ways the code
has of creating a second lvol of a name, and `OneVolumePerName` says there is no
third.

Abstractions. A volume id is node and lvol UUID; the UUID alone stands for it. An
lvol UUID is never used again. Free space is not counted: any store can be the one
`schedule` takes, and finding none costs a fault. UUIDs are finite; when they are
used up a creation is refused like one for which a store has no room. A
call that is in flight when the process dies was served or will not be. The CO sends
a request for a name until it is acknowledged, one call at a time unless it stops
waiting, and uses a name for one volume. A node that has no configuration or secret
is excluded.

### NodeServer

All state and all locks are per volume, so the module follows one volume on one
host. `staging` is the staging path, with `stale` for a mount whose device was
disconnected; `target[p]` the path of a pod, with `host` for a bind mount of a staging
directory nothing is mounted on; `dev` the block device; `stash` the context file,
possibly torn. A command of the initiator may fail and is then only logged: what
decides is whether the device file appears or goes away. `failed` records which kinds
of operations failed and `abandoned` the kinds of calls kubelet stopped waiting for;
properties that do not survive a certain failure or overlap name it. So a stage call
that was abandoned may mount again what was torn down since, an abandoned unstage
takes down what was staged again, and an abandoned publish or unpublish does the same
to a pod's path.

Abstractions. Both kernel initiators have this shape. An unsupported access mode is
a failing mount. A device that shows up late does so at any time or never; a
disconnection takes effect at once or not at all. Reboots of the host are left out.

### XpuInitiator

The volumes of a host compete for the functions of one xPU, so here several volumes
are followed; the lock of a volume lets it have one handler, and a handler is named by
its volume. `type` is chosen initially and stands for the configured target type:
`sma-nvmftcp`, `sma-nvme`, `sma-virtioblk`, `opi-nvme` (KVM), `opi-nvme-hw` and
`opi-virtioblk`.

* `objects[v]` are what the SMA or OPI server holds of a volume: kind and, for those
  tied to one, function. `names[v]` are the handles and names the initiator of `v` knows;
  `ctx[v]` is the XPU context file from which `NewInitiator` restores them.
* `sysfs[s]` is the volume whose device the host sees on a slot, `block[s]` the volume
  that is on the device for the host, with a uuid file and a block device. A slot is a
  function or, for NVMe over TCP, the subsystem of a volume. The host follows the xPU some
  time later (`HotPlug`), except where the driver makes the device appear by `nvme connect`
  or by binding the function (`ByCommand`). The driver sees only `sysfs` and `block`, never
  the xPU's objects: it may find a device that is gone and miss one that is there.
* `dev[v]` is the device file Connect returns. `Exists` returns none: `ConnectNvme` hands on
  the bare name that `CheckIfNvmeDeviceExists` found, and the mount fails.
* `Mount` and `Stash` are the two steps of NodeStageVolume after Connect. A failure of
  either runs the deferred Disconnect; after `Stash` the mount stays and the volume is in
  the history variable `orphans`. `stashed` are the mounted volumes whose volume context
  can be read back, without which NodeUnstageVolume fails after its unmount.
* A backend's Connect and Disconnect are sequences of kinds (`OpiNvmeConnect`,
  `OpiNvmeCleanup`, ...) that `Create` and `Delete` work off, a gRPC a step (`at[v]` is
  the index of the next); `Undo` is
  what each backend does when its Connect fails part of the way. `Create` stands for
  all creating calls of both backends and `Delete` for all deleting ones.
* `Allocate` takes `phyIDLock` and the first function without a device in sysfs; the
  lock is held until Connect returns.
* `left` is a history variable: whether a failure has occurred after which the code
  may leave objects or a context file. `NothingLeft` says that without one it does not;
  the other properties use it to name the exceptions the code has.

Exceptions. Each was found as a violation of the property without it, and is
stated in the property's comment: on hardware a function is free in sysfs before its
controller is deleted, and Disconnect does not take `phyIDLock`; on hardware a
controller left behind unbound blocks every later Connect; SMA virtio-blk trusts the
handle of an old context file for ever, as the `FixMe` at `smainitiator.go:326` fears,
and either waits for a device that is not there or takes another volume's. On hardware, if
a context file outlives its device (a restart, or a removal whose error
`xpuinitiator.go:377` ignores), a later Connect may find the device on another function
than that of the context and keep the latter, which Disconnect then unbinds although
another volume may have it. Two concern NodeStageVolume as a whole:

* `initiator.go:31-36` promises that Connect is idempotent and returns a local block
  device filename. When NVMe's Connect on a function finds the volume's device already
  there (after a restart, or a failed save of the context), it returns a name like
  `nvme0n1` (`xpuinitiator.go:271`; only `util.go:194` adds `/dev/`). The mount fails, and
  the deferred Disconnect has no `devicePath` (`xpuinitiator.go:398`), so that the device stays
  and every retry ends the same way. `StageIsCompleted` excepts it.
* A failed stash of the volume context (`nodeserver.go:175`) disconnects the device under
  the mount, and the next NodeStageVolume takes the mount for a staged volume: the
  disagreement that `node_mountpoint` shows for the kernel initiators. `RightDevice` excepts
  these mounts; `NothingLeft` includes them.

Abstractions. Mounting, unmounting and the stash are a step each, NodeServer has their
detail; a stash is followed only while the volume is mounted, which is when it is read.
A gRPC is served at once, and refused, or served with its reply lost, at the cost of a
fault. SMA gives a new handle for each device, OPI ids are made from the volume's and
creating an object twice returns the first. While a handler deletes the objects of a
volume, the host notices that the volume and its device go together. A device name of a
volume that went may be given to another volume's device (`WaitGone`).

### Snapshots

A snapshot and the volumes created from it live in the lvstore of their source, so one
lvstore is followed, with a source volume its user goes on writing to. `data[l]` is
the version of the source's data an lvol holds, `base[l]` the snapshot it depends on:
taking a snapshot puts the new lvol between the source and what the source depended on.
`backend` is chosen initially. The labels are the calls of the code:

* CreateSnapshot: `getLvstore`, `snapCheck`, `snapshot` (the backend's
  `CreateSnapshot`), `volumeInfo`; it locks the *source's* id;
* DeleteSnapshot: `deleteSnapshot`, the backend's `DeleteVolume` and nothing else;
* CreateVolume: `scan`, `snapshotInfo`, `cloneCheck`, `clone`, `publish`, `rollBack`;
* DeleteVolume: `unpublish`, `deleteVolume`.

The ends of a JSON-RPC, the panic, late requests, restarts and abandoned calls are
those of `Controller`. `stray` and `unsure` are history variables that name the
exceptions, each found by TLC as a violation of the property without it:

* an iSCSI node's `VolumeInfo` has no `lvolSize`, so that CreateSnapshot there makes
  the snapshot and fails, at every attempt (`CreationIsAcked` excepts it);
* DeleteSnapshot of a snapshot that is gone is an error, so that a deletion whose
  reply was lost is never acknowledged (`SnapshotDeletionEnds`);
* an abandoned CreateSnapshot may get the lock after the snapshot was acknowledged to
  a retry and deleted, and makes it again (`NoOrphan`);
* a roll-back of an abandoned CreateVolume may delete a clone a retry was acknowledged
  with, as in `Controller` (`AckedExists`, for clones only: a snapshot survives all this).

Abstractions. Exporting a volume is one step that may fail. SPDK refuses to delete a
snapshot with more than one dependant; with one, the dependant takes over its clusters. The
CO does not delete a volume while a snapshot of it is pending, nor a snapshot while a
volume is being created from it, as Kubernetes' finalizers see to.

### IscsiTarget

Volumes of one node share a portal group and an initiator group, which the first
publisher creates: get, create, and get again when the creation failed, because
another publisher may have been faster. `nodes` are the lvols with a target node.
PublishVolume undoes nothing itself; CreateVolume deletes the lvol when it fails. The
calls for one volume are serialized, as the interface in `jsonrpc.go` asks: handlers are
named by their volume, and `Controller` has what happens when they overlap.

`TargetRestarts` restarts the SPDK process: lvols stay, groups and target nodes are
gone. `cut` holds the volumes whose last CreateVolume began before the last such
restart: nobody exports a volume again that was acknowledged before. `unsure` holds
the lvols for which a call about the target node or the deletion got no reply; their
target node may stay for ever, since only its volume's calls would look for it
(`NoTargetNodeLeft`), and the lvol may be deleted late (`AckedIsReachable`).

### Scheduler

One CreateVolume request that the CO repeats: the default size, `ToMiB`, the capacity of
the response, `schedule` over the nodes in any order, `lvStores` arithmetic, the size
sent to SPDK. Integers wrap around at `MaxInt` as Go's `int64` do at 2^63 - 1; `K` stands for 1024. The
free space of the stores changes between the calls. Exceptions: a volume created from a
smaller snapshot is as large as the snapshot and reported as large as requested
(`CapacityIsHonest`); a size within a MiB of the largest integer becomes negative, and it
is SPDK that refuses it.

## 3. What TLC checks

Each property of a passing run has a mutant of the code (`PROJECT.json`, "mutants";
the operators marked *Mutant* in the modules) that violates it.

| Run | Instance | Shows |
|---|---|---|
| `locks` | 3 goroutines, 2 ids, 5 mutexes | `MutualExclusion`, `NoFalseSharing`, `LockReturns`, `ImplementsKeyedLock` |
| `ctl` | 2 handlers, 2 nodes, 2 names, 2 lvols, 1 fault, 2 time-outs | `AckedIsOfItsName`, `OneVolumePerName`, `DeletedIsGone`, `NoOrphanLvol`, `ExportsMatchLvols`, `UsesKeyedLock` |
| `ctl_live` | 2 handlers, 1 node, 1 name, 3 lvols, 1 fault, 1 crash, 1 time-out | `AckedIsUsable`, `CallsAreAcked` |
| `node` | 2 handlers, 1 pod, 2 faults, 1 crash, 1 time-out | `DataIsSafe`, `AckedIsMounted`, `TornDown`, `CallsAreAcked` |
| `xpu` | 6 target types, 2 volumes, 2 functions, 1 fault or restart | `FunctionsAreExclusive`, `RightDevice`, `NothingLeft`, `StageIsCompleted` |
| `snap` | 2 handlers, 1 snapshot, 1 clone, 4 new lvols, 1 write, 1 fault or restart, 1 time-out | `RestoresWhatWasSnapshotted`, `AckedExists`, `NoOrphan`, `DeletedIsGone`, `CreationIsAcked`, `SnapshotDeletionEnds` |
| `iscsi` | 2 volumes, 6 lvols, 2 faults (failing calls, restarts of driver or target) | `RacesAreHarmless`, `AckedIsReachable`, `NoTargetNodeLeft`, `CallsAreAcked` |
| `sched` | 8-bit integers, K = 2, 2 nodes, 3 stores, 25 sizes, 1 fault, 1 change of free space | `CapacityIsHonest`, `PickHasRoom`, `FailureMeansFull`, `FitsIsServed` |

`TypeOK` is an invariant of the first run of each module, except of `locks`, where it is
proved.

Bounds. Two handlers give every overlap of two calls; a third only adds waiting
(three are used where waiting is the subject, in `locks`). Five mutexes are one per
id in the map and one per goroutine, so that memory never runs out. In `ctl` two names
share two handlers; two nodes with a
store each are needed for a duplicate, and the second lvol is the duplicate or the
other volume. Two time-outs let an abandoned creation and an abandoned deletion
overlap. Restarts are in `ctl_live`: a crash, a fault and a time-out each lead
into a retry that meets what the first attempt left, and three lvols allow a
creation, a roll-back that deletes it and a second and third attempt. The state of a
pod in `node` depends on no other pod's; two faults let a clean-up fail after the
failure that caused it. In `xpu` two
volumes suffice for a conflict over a function, and two functions for a Connect that has to pass
over one, or is sent to another one than the last attempt; that all functions
are taken, as after a restart that left both behind, is a case of its own in `StageIsCompleted`. In `snap`
four new lvols are a snapshot, a clone and a second attempt at each; one write tells the
data before and after a snapshot apart. In `iscsi` two publishers are the race, two
faults put a restart of the target after a failure, and six lvols leave each volume two
failed attempts. In `sched` a MiB is four bytes and stores have clusters of half a
MiB, one and two MiB, so that every rounding happens, and all sizes a store can hold,
one larger, and those around the overflow are asked for.

Fairness. A goroutine whose next step is possible takes it (Go's scheduler; every
call has a time-out, so no handler hangs). Waiting for a mutex ends
if the mutex is free again and again: `sync.Mutex` hands over in FIFO order once a waiter has
waited 1 ms, hence strong fairness of the lock step. The CO and kubelet repeat a
call until it is acknowledged. The number of failures is finite in a run. Nothing is
assumed of late requests, late devices, time-outs, crashes, or of new requests. In
`XpuInitiator` the host notices in the end that a device, or the volume on it, came or went
(hot-plug; for a device made by command only what happens after the command), kubelet repeats NodeStageVolume, and `phyIDLock`, a `sync.Mutex`, is handed
over.

Symmetry (handlers, lvols, names, pods) is used for safety only.

### Disagreements with what the repository says

| Run | Property | Says | Shows |
|---|---|---|---|
| `ctl_serial` | `SerializedPerVolume` | `jsonrpc.go:51`: calls for the same volume must be serialized by the caller | CreateVolume locks a name and DeleteVolume an id: an abandoned CreateVolume and the DeleteVolume of the volume its retry returned work on one lvol at the same time |
| `ctl_duplicate` | `NoDuplicate` | `controllerserver.go:264`: all nodes are checked for the volume | an error during the scan counts as "not found", and a second lvol is created |
| `ctl_survive` | `AckedSurvives` | `jsonrpc.go:65-74`: repeated requests must do no damage | a repeated CreateVolume that fails to publish deletes the acknowledged volume |
| `node_mountpoint` | `MountPointMeansStaged` | `nodeserver.go:313`: a mount point means staged and vice versa | a failed stash disconnects the device under the mount, and the next stage call reports success |

## 4. What is proved

For every value of the constants, under the `ASSUME`s of the modules only
(`None` is no member of the sets; names and UUIDs differ; every store has a node;
bounds are naturals; in `Scheduler`, what `int64` and lvstores have in common: `MaxInt` is
one less than a multiple of a MiB, a cluster divides a MiB or is a multiple of one, and a
store's bytes fit an `int64`). Each module has one inductive invariant `IInv`, proved
by one lemma per action or per kind of action, from which all its theorems follow
(`ControllerExportProofs` adds layers to that of `ControllerProofs`); TLC finds no violation
of any on the instances of section 3.

`VolumeLocksProofs`: `LockExcludes`, `LockIsPerVolume` and
`LockImplementsKeyedLock`, from the inductive invariant of that module: no two goroutines offer the
same new mutex or one that is in the map (`OfferIsPrivate`), a mutex in the
map belongs to one id, a goroutine past `LoadOrStore` has the mutex of its id, and a
mutex that is locked is owned by the goroutine in its critical section. The refinement
theorem maps every step to a step of `KeyedLock` or a stutter.

`ControllerProofs`: from the inductive invariant `IInv` follow `ControllerTypeOK`,
`CreateVolumeIsIdempotent`, `AcknowledgedUnderItsName` and `DeletionIsFinal`. None of
these properties is inductive as it stands; `IInv` adds:

* `HandlersOK`: a delete works on the lvol whose id it was given and passes only
  labels of DeleteVolume; a create works on an lvol created under its name. Without
  it a returning handler could acknowledge anything.
* `LateOK`: a request served late is for an lvol that was created; so serving it
  revives nothing.
* `DeletionOK`: a namespace shows only a live lvol, and a DeleteVolume that
  is about to succeed works on one that is gone.
* `LockOK`: a handler past `Lock` has the lock of its key.
* `ScanOK`: while a name is not blind, each live lvol of the name is in a store that
  the scan has still to ask, and from `schedule` on there is none. A creation given
  up and not served yet has a blind name.

The one step that can break `OneVolumePerName` is `CreateLvol` (`BirthKeepsIInv`):
`ScanOK` says no lvol of the name is live, and `LockOK` that no other handler is
scanning for, or about to create, that name, so that `ScanOK` survives too. The fifteen steps that work on an lvol
that exists are treated together: each is a `VolumeStep` (`CallsAreVolumeSteps`), and a `VolumeStep` keeps
`IInv`, since it neither creates nor revives an lvol.

`ControllerExportProofs` builds on `IInv` in layers, each inductive together with those before:

* `LockExact`, the converse of `LockOK`: a lock that is taken is that of the key of a
  handler past `Lock`. Hence `HandlersUseKeyedLock`: the controller's steps are steps of
  `KeyedLock` or stutters, as those of `VolumeLocks` are (`LockImplementsKeyedLock`).
* `CallsOK`, the bookkeeping of the CO (one awaited call per key; none for a name that
  is acknowledged), and `FoundOK`: a create past its scan has the only live lvol of its
  name. Hence `CreateVolumeLeavesNoOrphan`.
* `AnsweredOK`, while no JSON-RPC failed: no request is late, an lvol with a listener
  that nobody asked to delete has its complete export, and a create knows how far the
  export of its lvol is (`Making`). `TouchedByItsCreate` says that such an lvol is touched by
  one handler only, which holds the lock of its name. A roll-back starts only
  where a create met a subsystem without a listener, left by one that a restart cut short; an
  acknowledged volume has its listener, hence `NoRollBackHitsAcknowledged`. The overlap
  of CreateVolume and DeleteVolume (`ctl_serial`) is covered: the delete makes the volume doomed.
* `UndisturbedOK`, if moreover nothing was cut short and no call overlaps: an lvol has
  one handler at a time (`OneOwner`), which knows its export exactly
  (`CreateKnows`, `DeleteKnows`). Hence `ExportsAreComplete`.

`NodeServerProofs`: `NoDataIsRemoved`, `AckedVolumesAreMounted`, `UnstagedIsTornDown`
and `TypeCorrect`. `IInv` adds:

* `HandlersOK`: a handler past `Lock` holds the lock, so that at most one is at work, and
  runs only the code of its operation;
* `KubeletOK`: kubelet waits for one call about staging or one per pod, for what it
  believes the volume or the pod to be at; a handler nobody waits for is of an
  operation in `abandoned`;
* `HostOK`: what a handler has established at each label. That the path `os.RemoveAll`
  is called on is no mount point is such a fact;
* `MountsOK`: the mounts follow what kubelet was told, up to the named exceptions;
* `TidyOK`: while nothing failed but mounting, unmounting and checking, device and context
  file follow the mount between two calls and the label during one (`Progress`).

`SnapshotsProofs`: `SnapshotsRestore`, `AcknowledgedLvolsExist`, `NoLvolIsOrphaned`,
`DeletedLvolsAreGone` and `TypeCorrect`. The argument goes by the name an lvol is created
with. `DataOK` says what an lvol's name says of its data, of lvols that are gone too, so
that it does not matter which attempt made the lvol that is acknowledged. `ExistsOK` says that a
snapshot is there or its deletion was asked for: all deletions are of lvols the CO
wants deleted or of clones. `CallsOK` says that for a name that is not stray at most one handler
runs and none after the acknowledgement, and `LateOK` that requests left over are for stray names:
so nobody rolls back or creates again what was acknowledged. The volume locks are not needed.

`IscsiTargetProofs`: `AckedVolumesAreReachable`, `NoTargetNodeOutlivesItsLvol`,
`CallsForDifferentVolumesAreSafe` and `TypeCorrect`. Handlers work on lvols of their own
name (`HandlersOK`, `BoundOK`), a request without a reply has marked its lvol unsure before
it can be served (`LateOK`), and a target node has its groups and, if not unsure, its
lvol, which is why a handler about to create it is not refused (`NodesOK`). `RacesAreHarmless`, that no
handler is refused anything unless something failed, needs room for an lvol of every
name; the theorem has this as its hypothesis `EnoughLvols`, which the run's instance
satisfies.

`SchedulerProofs`: `PickedStoreHasRoom`, `GivingUpMeansFull`, `ReportedCapacityIsHonest`
and `TypeCorrect`, for every size, every largest integer and any stores. The lemmas say what
division, `ToMiB`, wrapping and rounding up to clusters yield; `ToMiBOverflows` that a size
that overflows becomes non-positive, and `BytesFit` that for any other the bytes sent to
SPDK are the capacity of the response. The assumption that `MaxInt` + 1 is a multiple of a MiB was
found by the proof: where it fails, so does `CapacityIsHonest`.

`XpuInitiatorProofs`: `AllocatedFunctionsAreExclusive`, `StagedVolumesAreRight`,
`FailuresLeaveNothing` and `TypeCorrect`, for any volumes, any number of functions and any
number of faults. `IInv` adds:

* `ControlOK`: what labels, calls and kubelet's view have to do with each other, and that
  `phyIDLock` is held from the allocation of a function until Connect is over; `PlacedOK`:
  objects are of the kinds the backend creates.
* `FunctionOK` and `ShownOK`: the function of a Connect shows nobody else's device, and a
  device that sysfs does not show is one a handler is working on, which has the lock (on
  hardware, or is tearing it down). The two give `AllocatedFunctionsAreExclusive`.
* `HereOK`: what is mounted and no orphan, or about to be mounted, is a block device of the
  volume, and the xPU has the volume on it, so that the host has no reason to remove it.
  `ReadyOK` says why the device a Connect waits for is such a one. What could take it away
  later is an unbinding by another volume's handler: `BlockOK` settles this for NVMe
  over TCP, where a volume has its own slot, `UnbindOK` and `ContextOK` for hardware, where
  Disconnect unbinds the function of the context file; `AloneOK` (the xPU has one device on
  a function) that a bind shows the right device. Hence `StagedVolumesAreRight`.
* `TidyOK`, while nothing was left behind: a handler knows all objects of its volume, those
  it has yet to delete are still ahead of it in `Deletes`, and between calls they go with
  a mount and a context file. Hence `FailuresLeaveNothing`.

TLC finds no violation of this `IInv` with two volumes, two functions and two faults for
all six types, nor with three volumes, two functions and one fault for those of SMA.

Only model-checked: the liveness properties (`FitsIsServed` is one), out of the prover's reach.

## 5. Plan

Done: volume locks; the controller with both storage backends, snapshots, clones and
sizes; the node service; the xPU initiator with its backends; the theorems above.

Next, in this order:

1. `Provisioning`: what the CSI asks of a controller (a volume per name, created,
   deleted), implemented by `Controller` under the conditions the runs exhibit; the
   composition of controller and node service over one target.
2. `XpuInitiator`, what is left: runs that show what the bare device name of NVMe does to
   `initiator.go:31-36` and the stale handle of SMA virtio-blk to `initiator.go:36`, and one for
   the comment at `smainitiator.go:235`, by which a clean-up goes on after a failing step.

Runs of later modules take the place of runs that ask less, so that the project
stays small enough to be checked as a whole.

## 6. Not modelled

The identity service, `ValidateVolumeCapabilities`, gRPC set-up, configuration parsing
and logging (no state that a property could be about); charts, scripts and end-to-end
tests (read for time-outs and retries). SPDK, the kernel, kubelet and the sidecars are
modelled as far as the driver uses them. Restarts of the SPDK target are modelled for
iSCSI only: the NVMe-oF backend reacts to one in the same way, by publishing again
when a CreateVolume is repeated.
