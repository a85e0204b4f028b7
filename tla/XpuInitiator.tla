---------------------------- MODULE XpuInitiator -----------------------------
(* The xPU initiator, pkg/util/xpuinitiator.go, with its SMA and OPI backends*)
(* (smainitiator.go, opiinitiator.go): an xPU presents a volume to the host  *)
(* as a device on one of its PCI functions.  Volumes of a host compete for   *)
(* the functions; each has at most one handler, which holds the lock of the  *)
(* volume (NodeServer), so a handler is named by its volume.  Every gRPC and *)
(* every look at sysfs is a step.                                            *)
(*                                                                           *)
(* Environment.  Kubelet stages and unstages volumes and repeats a call until*)
(* it is acknowledged.  A gRPC may be refused, or be served and its reply    *)
(* lost; the host sees a device, and the volume on it, some time after the   *)
(* xPU made them; the driver's process may be killed and restarted.  Mounting*)
(* and the volume context, which NodeServer details, are a step each here.   *)
EXTENDS Naturals, Sequences

CONSTANTS
  Volumes,
  NumFunctions,  \* functions the host can use, taken in order
  Types,         \* the target types to consider
  None,
  MaxFaults      \* bound on failing operations and restarts of the process

Functions == 1..NumFunctions

(* A device of NVMe over TCP sits behind a subsystem of its own: the volume  *)
(* stands for it.                                                            *)
Slots == Functions \cup Volumes

(* backend and transport; opi-nvme-hw: on xPU hardware instead of KVM *)
AllTypes == {"sma-nvmftcp", "sma-nvme", "sma-virtioblk",
             "opi-nvme", "opi-nvme-hw", "opi-virtioblk"}

Kinds == {"device", "attach", "subsystem", "controller", "remote", "path", "namespace", "blk"}

(* An object of a volume: its kind and the slot it is tied to, if any *)
Objects == Kinds \X (Slots \cup {None})

Contexts ==
  [names : SUBSET Objects, path : Slots \cup {None}, pf : Slots \cup {None}]

ASSUME XpuAssumption ==
  /\ NumFunctions \in Nat \ {0} /\ MaxFaults \in Nat
  /\ Types \subseteq AllTypes
  /\ None \notin Slots \cup Contexts /\ Volumes \cap Functions = {}

VARIABLES
  type,      \* xpuConfig.TargetType
  \* the handlers and their initiators
  pc, op,
  at,        \* at[v]: the backend's next step, an index into Creates or Deletes
  pf,        \* pf[v]: PciEndpoint
  names,     \* names[v]: objects the initiator has a handle or name of
  path,      \* path[v]: devicePath, as the slot the device is on
  dev,       \* dev[v]: the device file Connect returned; None if it is no device file
  phyIDLock,
  \* the host
  ctx,       \* ctx[v]: the XPU context file, or None
  stashed,   \* the mounted volumes whose volume context file can be read
  mounted,   \* mounted[v]: the slot whose device is mounted as the volume
  sysfs,     \* sysfs[s]: the volume whose device the host sees on a slot
  block,     \* block[s]: the volume that is on it for the host: uuid file and block device
  \* the xPU
  objects,   \* objects[v]: what there is of a volume
  \* kubelet
  staged,    \* unstaged, staging, staged, unstaging
  \* history
  left,      \* what failures may have left behind: objects, context
  orphans,   \* volumes with a mount left by a NodeStageVolume that failed
  faults

handlers == <<pc, op, at, pf, names, path, dev>>
host == <<ctx, stashed, mounted, sysfs, block>>
history == <<left, orphans, faults>>
vars == <<type, handlers, phyIDLock, host, objects, staged, history>>

Sma == type \in {"sma-nvmftcp", "sma-nvme", "sma-virtioblk"}
VirtioBlk == type \in {"sma-virtioblk", "opi-virtioblk"}
(* The host gets to see the device by a command of its own. *)
ByCommand == type \in {"sma-nvmftcp", "opi-nvme-hw"}

Labels == {"idle", "exists", "allocate", "create", "cleanup", "bind", "detect", "save", "mount",
           "stash", "unmount", "disconnect", "teardown", "waitGone", "dropOk", "dropErr",
           "ok", "err"}

TypeOK ==
  /\ type \in Types
  /\ pc \in [Volumes -> Labels]
  /\ op \in [Volumes -> {"none", "stage", "unstage"}]
  /\ at \in [Volumes -> Nat \ {0}]
  /\ \A s \in {pf, path, dev, mounted} : s \in [Volumes -> Slots \cup {None}]
  /\ names \in [Volumes -> SUBSET Objects] /\ objects \in [Volumes -> SUBSET Objects]
  /\ ctx \in [Volumes -> Contexts \cup {None}]
  /\ phyIDLock \in Volumes \cup {None}
  /\ \A s \in {sysfs, block} : s \in [Slots -> Volumes \cup {None}]
  /\ staged \in [Volumes -> {"unstaged", "staging", "staged", "unstaging"}]
  /\ left \subseteq {"objects", "context"} /\ {stashed, orphans} \subseteq SUBSET Volumes
  /\ faults \in 0..MaxFaults

Init ==
  /\ type \in Types
  /\ pc = [v \in Volumes |-> "idle"]
  /\ op = [v \in Volumes |-> "none"]
  /\ at = [v \in Volumes |-> 1]
  /\ pf = [v \in Volumes |-> None]
  /\ names = [v \in Volumes |-> {}]
  /\ path = [v \in Volumes |-> None]
  /\ dev = [v \in Volumes |-> None]
  /\ phyIDLock = None
  /\ ctx = [v \in Volumes |-> None]
  /\ stashed = {}
  /\ mounted = [v \in Volumes |-> None]
  /\ sysfs = [s \in Slots |-> None]
  /\ block = [s \in Slots |-> None]
  /\ objects = [v \in Volumes |-> {}]
  /\ staged = [v \in Volumes |-> "unstaged"]
  /\ left = {} /\ orphans = {} /\ faults = 0

-----------------------------------------------------------------------------
(* What Connect of a backend creates, in order, and Disconnect deletes.  Both*)
(* NVMe transports of SMA do the same.                                       *)

SmaNvmeConnect == <<"device", "attach">>
SmaNvmeDisconnect == <<"attach", "device">>
SmaVirtioBlkConnect == <<"device">>
SmaVirtioBlkDisconnect == <<"device">>
OpiNvmeConnect == <<"subsystem", "controller", "remote", "path", "namespace">>

(* Mutant: the remote controller is forgotten. *)
OpiNvmeCleanup_NoRemote == <<"namespace", "path", "controller", "subsystem">>

OpiNvmeCleanup == <<"namespace", "path", "remote", "controller", "subsystem">>
OpiVirtioBlkConnect == <<"remote", "path", "blk">>
OpiVirtioBlkCleanup == <<"blk", "path", "remote">>

Creates ==
  IF type \in {"sma-nvmftcp", "sma-nvme"} THEN SmaNvmeConnect
  ELSE IF type = "sma-virtioblk" THEN SmaVirtioBlkConnect
  ELSE IF type = "opi-virtioblk" THEN OpiVirtioBlkConnect ELSE OpiNvmeConnect

Deletes ==
  IF type \in {"sma-nvmftcp", "sma-nvme"} THEN SmaNvmeDisconnect
  ELSE IF type = "sma-virtioblk" THEN SmaVirtioBlkDisconnect
  ELSE IF type = "opi-virtioblk" THEN OpiVirtioBlkCleanup ELSE OpiNvmeCleanup

(* The objects that are tied to a function. *)
OnFunction == {"device", "attach", "controller", "blk"}

SlotFor(k, s) == IF k \in OnFunction THEN s ELSE None

(* The volumes whose device the xPU has on slot s *)
Occupants(s) == {v \in Volumes : \E k \in OnFunction : <<k, s>> \in objects[v]}

(* The device on slot s has the volume v on it: what is created last puts it *)
(* there.                                                                    *)
Carries(s, v) ==
  LET k == Creates[Len(Creates)] IN v \in Occupants(s) /\ <<k, SlotFor(k, s)>> \in objects[v]

Known(v, k) == {o \in names[v] : o[1] = k}

-----------------------------------------------------------------------------
Goto(v, label) == pc' = [pc EXCEPT ![v] = label]

(* phyIDLock is released when ConnectNvme or ConnectVirtioBlk returns. *)
Release(v) == phyIDLock' = IF phyIDLock = v THEN None ELSE phyIDLock

(* An operation fails, and may leave these behind. *)
Fault(leaves) ==
  /\ faults < MaxFaults
  /\ faults' = faults + 1
  /\ left' = left \cup leaves

NoFault == UNCHANGED <<left, faults>>

(* A device goes, and the block device with it. *)
Unplug(s) ==
  /\ sysfs' = [sysfs EXCEPT ![s] = None]
  /\ block' = [block EXCEPT ![s] = None]

(* What the context file says, nothing if there is none *)
Stored(v) == IF ctx[v] = None THEN [names |-> {}, path |-> None, pf |-> None] ELSE ctx[v]

(* NewSpdkCsiXpuInitiator: it knows what is stored. *)
NewInitiator(v) ==
  /\ names' = [names EXCEPT ![v] = Stored(v).names]
  /\ path' = [path EXCEPT ![v] = Stored(v).path]
  /\ pf' = [pf EXCEPT ![v] = IF type = "sma-nvmftcp" THEN v ELSE Stored(v).pf]

-----------------------------------------------------------------------------
(* NodeStageVolume up to Connect. *)
CallStage(v) ==
  /\ pc[v] = "idle" /\ staged[v] \in {"unstaged", "staging"}
  /\ staged' = [staged EXCEPT ![v] = "staging"]
  /\ op' = [op EXCEPT ![v] = "stage"]
  /\ \/ /\ mounted[v] # None /\ Goto(v, "ok")
        /\ UNCHANGED <<at, pf, names, path>>
     \/ /\ mounted[v] = None
        /\ NewInitiator(v)
        /\ at' = [at EXCEPT ![v] = 1]
        /\ Goto(v, IF type = "sma-nvmftcp" THEN "create"
                   ELSE IF VirtioBlk THEN "allocate" ELSE "exists")
  /\ UNCHANGED <<type, dev, phyIDLock, host, objects, history>>

(* CheckIfNvmeDeviceExists looks for a uuid file with the volume's UUID. *)
Found(v) == {s \in Slots : block[s] = v}

(* ConnectNvme: for a device of the volume that is there already it returns  *)
(* the name from sysfs, without /dev, which is no device file; devicePath    *)
(* keeps what the context file said.                                         *)
Exists(v) ==
  /\ pc[v] = "exists"
  /\ Goto(v, IF Found(v) = {} THEN "allocate" ELSE "save")
  /\ UNCHANGED <<type, op, at, pf, names, path, dev, phyIDLock, host, objects, staged, history>>

(* The functions sysfs shows no device on *)
Free == {f \in Functions : sysfs[f] = None}

(* Mutant: functions are counted from zero. *)
FirstFree_OffByOne == {f - 1 : f \in {g \in Free : \A h \in Free : g <= h}}

(* GetAvailableFunctions takes the first. *)
FirstFree == {f \in Free : \A g \in Free : f <= g}

(* Mutant: allocating does not wait for another Connect. *)
Allocate_NoLock(v) ==
  /\ pc[v] = "allocate"
  /\ \/ Free = {} /\ Goto(v, "err") /\ UNCHANGED <<pf, phyIDLock>>
     \/ /\ \E f \in FirstFree : pf' = [pf EXCEPT ![v] = f]
        /\ phyIDLock' = v
        /\ Goto(v, IF type = "sma-virtioblk" /\ Known(v, "device") # {} THEN "detect" ELSE "create")
  /\ UNCHANGED <<type, op, at, names, path, dev, host, objects, staged, history>>

(* phyIDLock.Lock and GetAvailableFunctions.  Connect of SMA virtio-blk does *)
(* nothing if the context had a handle.                                      *)
Allocate(v) ==
  /\ pc[v] = "allocate"
  /\ phyIDLock = None
  /\ \/ Free = {} /\ Goto(v, "err") /\ UNCHANGED <<pf, phyIDLock>>
     \/ /\ \E f \in FirstFree : pf' = [pf EXCEPT ![v] = f]
        /\ phyIDLock' = v
        /\ Goto(v, IF type = "sma-virtioblk" /\ Known(v, "device") # {} THEN "detect" ELSE "create")
  /\ UNCHANGED <<type, op, at, names, path, dev, host, objects, staged, history>>

(* What a create makes, or finds: OPI objects have ids made of the volume's. *)
Made(v, k) ==
  LET old == {o \in objects[v] : o[1] = k} IN
  IF ~Sma /\ old # {} THEN old ELSE {<<k, SlotFor(k, pf[v])>>}

(* The xPU has one device on a function. *)
Refuses(v, k) ==
  k \in OnFunction /\ Occupants(pf[v]) \ {v} # {} /\ Made(v, k) \cap objects[v] = {}

(* A backend's Connect fails: nothing to undo after its first step; SMA      *)
(* deletes the device; OPI runs its clean-up.                                *)
Undo(v) ==
  /\ \/ at[v] = 1 /\ Goto(v, "err") /\ Release(v) /\ UNCHANGED at
     \/ /\ at[v] # 1 /\ Goto(v, "cleanup") /\ UNCHANGED phyIDLock
        /\ at' = [at EXCEPT ![v] = IF Sma THEN Len(Deletes) ELSE 1]
  /\ UNCHANGED names

(* One step of a backend's Connect. *)
Create(v) ==
  LET k == Creates[at[v]] IN
  /\ pc[v] = "create"
  /\ \/ /\ ~Refuses(v, k)
        /\ objects' = [objects EXCEPT ![v] = @ \cup Made(v, k)]
        /\ \/ /\ names' = [names EXCEPT ![v] = (@ \ Known(v, k)) \cup Made(v, k)]
              /\ at' = [at EXCEPT ![v] = @ + 1]
              /\ Goto(v, IF at[v] < Len(Creates) THEN "create"
                         ELSE IF ByCommand THEN "bind" ELSE "detect")
              /\ NoFault /\ UNCHANGED phyIDLock
           \/ Fault({"objects"}) /\ Undo(v)
     \/ /\ \/ Refuses(v, k) /\ NoFault
           \/ ~Refuses(v, k) /\ Fault({})
        /\ Undo(v) /\ UNCHANGED objects
  /\ UNCHANGED <<type, op, pf, path, dev, host, staged, orphans>>

(* The objects to delete: those without a name are skipped, and SMA does     *)
(* nothing without a handle.                                                 *)
Pending(v) == {i \in at[v]..Len(Deletes) : Known(v, Deletes[i]) # {}}

(* One step of a backend's Disconnect, or of the clean-up after a failure;   *)
(* the first failure ends it.                                                *)
Delete(v, done, bad) ==
  /\ \/ /\ Pending(v) = {} /\ Goto(v, done) /\ NoFault
        /\ UNCHANGED <<objects, names, at>>
     \/ \E i \in Pending(v) :
          LET gone == objects[v] \ Known(v, Deletes[i]) IN
          /\ \A j \in Pending(v) : i <= j
          /\ \/ /\ objects' = [objects EXCEPT ![v] = gone]
                /\ names' = [names EXCEPT ![v] = @ \ Known(v, Deletes[i])]
                /\ at' = [at EXCEPT ![v] = i + 1]
                /\ Goto(v, pc[v]) /\ NoFault
             \/ /\ \E now \in {objects[v], gone} : objects' = [objects EXCEPT ![v] = now]
                /\ Fault({"objects"}) /\ Goto(v, bad)
                /\ UNCHANGED <<names, at>>
  /\ UNCHANGED <<type, op, pf, path, dev, host, staged, orphans>>

(* phyIDLock is held until the clean-up is over. *)
Cleanup(v) ==
  /\ pc[v] = "cleanup"
  /\ Delete(v, "err", "err")
  /\ IF pc'[v] = "err" THEN Release(v) ELSE UNCHANGED phyIDLock

(* nvme connect, whose failure is only logged; or updateNvmeFilesForConnect  *)
(* on hardware, which fails if there is nothing on the function; its failure *)
(* ends Connect and leaves the objects.                                      *)
Bind(v) ==
  /\ pc[v] = "bind"
  /\ \/ /\ \E w \in Occupants(pf[v]) : sysfs' = [sysfs EXCEPT ![pf[v]] = w]
        /\ Goto(v, "detect") /\ NoFault /\ UNCHANGED phyIDLock
     \/ /\ type = "sma-nvmftcp"
        /\ Goto(v, "detect") /\ Fault({}) /\ UNCHANGED <<sysfs, phyIDLock>>
     \/ /\ type = "opi-nvme-hw"
        /\ (Occupants(pf[v]) = {} /\ NoFault) \/ Fault({"objects"})
        /\ Goto(v, "err") /\ Release(v) /\ UNCHANGED sysfs
  /\ UNCHANGED <<type, op, at, pf, names, path, dev, ctx, stashed, mounted, block, objects, staged,
                 orphans>>

(* GetNvmeDeviceName compares the device's UUID, GetVirtioBlkDeviceName takes*)
(* what is on the function.                                                  *)
Shown(v) == block[pf[v]] # None /\ (VirtioBlk \/ block[pf[v]] = v)

(* A block device may still show up. *)
Coming(v) ==
  /\ block[pf[v]] = None
  /\ \E w \in Volumes : Carries(pf[v], w) /\ (ByCommand => sysfs[pf[v]] = w)

(* Mutant: it looks for the device once and does not wait. *)
Detect_NoWait(v) ==
  /\ pc[v] = "detect"
  /\ \/ /\ Shown(v)
        /\ path' = [path EXCEPT ![v] = pf[v]]
        /\ dev' = [dev EXCEPT ![v] = pf[v]]
        /\ Goto(v, "save") /\ Release(v) /\ UNCHANGED at
     \/ /\ ~Shown(v)
        /\ at' = [at EXCEPT ![v] = 1]
        /\ Goto(v, "cleanup")
        /\ UNCHANGED <<path, dev, phyIDLock>>
  /\ NoFault
  /\ UNCHANGED <<type, op, pf, names, host, objects, staged, orphans>>

(* The wait for the device; without it the backend is disconnected. *)
Detect(v) ==
  /\ pc[v] = "detect"
  /\ \/ /\ Shown(v)
        /\ path' = [path EXCEPT ![v] = pf[v]]
        /\ dev' = [dev EXCEPT ![v] = pf[v]]
        /\ Goto(v, "save") /\ Release(v) /\ NoFault /\ UNCHANGED at
     \/ /\ ~Shown(v)
        /\ (Coming(v) /\ Fault({})) \/ (~Coming(v) /\ NoFault)
        /\ at' = [at EXCEPT ![v] = 1]
        /\ Goto(v, "cleanup")
        /\ UNCHANGED <<path, dev, phyIDLock>>
  /\ UNCHANGED <<type, op, pf, names, host, objects, staged, orphans>>

(* saveXpuContext; a failed write leaves the old file or one that cannot be  *)
(* read, and the device stays.                                               *)
Save(v) ==
  LET file == [names |-> names[v], path |-> path[v], pf |-> pf[v]] IN
  /\ pc[v] = "save"
  /\ \/ ctx' = [ctx EXCEPT ![v] = file] /\ Goto(v, "mount") /\ NoFault
     \/ /\ \E now \in {ctx[v], None} : ctx' = [ctx EXCEPT ![v] = now]
        /\ Fault({"objects"}) /\ Goto(v, "err")
  /\ UNCHANGED <<type, op, at, pf, names, path, dev, phyIDLock, stashed, mounted, sysfs, block,
                 objects, staged, orphans>>

(* stageVolume, which needs a device file; its failure runs the deferred     *)
(* Disconnect.                                                               *)
Mount(v) ==
  LET usable == dev[v] # None /\ block[dev[v]] # None IN
  /\ pc[v] = "mount"
  /\ \/ /\ usable
        /\ mounted' = [mounted EXCEPT ![v] = dev[v]]
        /\ Goto(v, "stash") /\ NoFault
     \/ /\ (~usable /\ NoFault) \/ Fault({})
        /\ Goto(v, "disconnect") /\ UNCHANGED mounted
  /\ UNCHANGED <<type, op, at, pf, names, path, dev, phyIDLock, ctx, stashed, sysfs, block, objects,
                 staged, orphans>>

(* StashVolumeContext; its failure runs the deferred Disconnect under the    *)
(* mount, which stays, and may leave an older file of the same content.      *)
Stash(v) ==
  /\ pc[v] = "stash"
  /\ \/ /\ stashed' = stashed \cup {v}
        /\ Goto(v, "ok") /\ NoFault /\ UNCHANGED orphans
     \/ /\ stashed' = stashed \cup {v} \/ UNCHANGED stashed
        /\ orphans' = orphans \cup {v}
        /\ Goto(v, "disconnect") /\ Fault({})
  /\ UNCHANGED <<type, op, at, pf, names, path, dev, phyIDLock, ctx, mounted, sysfs, block, objects,
                 staged>>

-----------------------------------------------------------------------------
(* NodeUnstageVolume up to Disconnect; *)
CallUnstage(v) ==
  /\ pc[v] = "idle" /\ staged[v] # "unstaged"
  /\ staged' = [staged EXCEPT ![v] = "unstaging"]
  /\ op' = [op EXCEPT ![v] = "unstage"]
  /\ Goto(v, IF mounted[v] = None THEN "ok" ELSE "unmount")
  /\ UNCHANGED <<type, at, pf, names, path, dev, phyIDLock, host, objects, history>>

(* it may fail before or after the unmount, and does without a volume        *)
(* context.                                                                  *)
Unmount(v) ==
  /\ pc[v] = "unmount"
  /\ \/ /\ mounted' = [mounted EXCEPT ![v] = None]
        /\ stashed' = stashed \ {v} /\ orphans' = orphans \ {v}
        /\ \/ v \in stashed /\ NewInitiator(v) /\ Goto(v, "disconnect") /\ NoFault
           \/ /\ (v \notin stashed /\ NoFault) \/ Fault({"context"})
              /\ Goto(v, "err") /\ UNCHANGED <<names, path, pf>>
     \/ /\ Fault({}) /\ Goto(v, "err")
        /\ UNCHANGED <<mounted, stashed, orphans, names, path, pf>>
  /\ UNCHANGED <<type, op, at, dev, phyIDLock, ctx, sysfs, block, objects, staged>>

(* Mutant: the function after the volume's own is unbound. *)
Disconnect_OffByOne(v) ==
  LET noPath == type # "sma-nvmftcp" /\ path[v] = None IN
  /\ pc[v] = "disconnect"
  /\ \/ noPath /\ Goto(v, "dropErr") /\ NoFault /\ UNCHANGED <<sysfs, block, at>>
     \/ /\ ~noPath
        /\ IF type = "opi-nvme-hw" THEN Unplug(pf[v] + 1) ELSE UNCHANGED <<sysfs, block>>
        /\ at' = [at EXCEPT ![v] = 1]
        /\ Goto(v, "teardown") /\ NoFault
  /\ UNCHANGED <<type, op, pf, names, path, dev, phyIDLock, ctx, stashed, mounted, objects, staged,
                 orphans>>

(* Disconnect before it calls the backend: nvme disconnect and the wait for  *)
(* the device to go, or updateNvmeFilesForDisconnect, which fails if nothing *)
(* is bound, or nothing; but not without a devicePath.                       *)
Disconnect(v) ==
  LET noPath == type # "sma-nvmftcp" /\ path[v] = None
      unbound == type = "opi-nvme-hw" /\ ~noPath /\ sysfs[pf[v]] = None IN
  /\ pc[v] = "disconnect"
  /\ \/ /\ noPath \/ unbound
        /\ Goto(v, "dropErr") /\ NoFault /\ UNCHANGED <<sysfs, block, at>>
     \/ /\ ~noPath /\ ~unbound
        /\ IF ByCommand THEN Unplug(pf[v]) ELSE UNCHANGED <<sysfs, block>>
        /\ at' = [at EXCEPT ![v] = 1]
        /\ Goto(v, "teardown") /\ NoFault
     \/ /\ type = "sma-nvmftcp" /\ block[v] = None
        /\ at' = [at EXCEPT ![v] = 1]
        /\ Goto(v, "teardown") /\ Fault({}) /\ UNCHANGED <<sysfs, block>>
     \/ /\ type = "sma-nvmftcp" /\ block[v] # None
        /\ Goto(v, "dropErr") /\ Fault({"objects"}) /\ UNCHANGED <<sysfs, block, at>>
     \/ /\ type = "opi-nvme-hw" /\ ~noPath
        /\ Unplug(pf[v]) \/ UNCHANGED <<sysfs, block>>
        /\ Goto(v, "dropErr") /\ Fault({"objects"}) /\ UNCHANGED at
  /\ UNCHANGED <<type, op, pf, names, path, dev, phyIDLock, ctx, stashed, mounted, objects, staged,
                 orphans>>

Teardown(v) ==
  /\ pc[v] = "teardown"
  /\ Delete(v, IF type = "sma-nvmftcp" THEN "dropOk" ELSE "waitGone", "dropErr")
  /\ UNCHANGED phyIDLock

(* waitForDeviceGone; the device of another volume may have got the name.   *)
WaitGone(v) ==
  LET there == block[path[v]] IN
  /\ pc[v] = "waitGone"
  /\ \/ there # v /\ Goto(v, "dropOk") /\ NoFault
     \/ there # None /\ Goto(v, "dropErr") /\ IF Carries(path[v], there) THEN NoFault ELSE Fault({})
  /\ UNCHANGED <<type, op, at, pf, names, path, dev, phyIDLock, host, objects, staged, orphans>>

(* CleanUpXPUContext, whatever the outcome; its own error is ignored.  Then  *)
(* CleanUpVolumeContext, if a volume was unstaged.                           *)
Drop(v) ==
  LET end == IF op[v] = "unstage" /\ pc[v] = "dropOk" THEN "ok" ELSE "err" IN
  /\ pc[v] \in {"dropOk", "dropErr"}
  /\ \/ /\ ctx' = [ctx EXCEPT ![v] = None]
        /\ (Goto(v, end) /\ NoFault) \/ (end = "ok" /\ Goto(v, "err") /\ Fault({}))
     \/ /\ Fault({"context"}) /\ UNCHANGED ctx
        /\ Goto(v, end) \/ Goto(v, "err")
  /\ UNCHANGED <<type, op, at, pf, names, path, dev, phyIDLock, stashed, mounted, sysfs, block,
                 objects, staged, orphans>>

(* The response; the initiator is forgotten. *)
Return(v) ==
  /\ pc[v] \in {"ok", "err"}
  /\ Goto(v, "idle")
  /\ staged' = [staged EXCEPT ![v] = IF pc[v] = "err" THEN @
                                     ELSE IF op[v] = "stage" THEN "staged" ELSE "unstaged"]
  /\ op' = [op EXCEPT ![v] = "none"]
  /\ at' = [at EXCEPT ![v] = 1]
  /\ pf' = [pf EXCEPT ![v] = None]
  /\ names' = [names EXCEPT ![v] = {}]
  /\ path' = [path EXCEPT ![v] = None]
  /\ dev' = [dev EXCEPT ![v] = None]
  /\ UNCHANGED <<type, phyIDLock, host, objects, history>>

-----------------------------------------------------------------------------
(* The host notices that a device, or the volume on it, came or went. *)
HotPlug(s) ==
  /\ \/ /\ ~ByCommand /\ sysfs[s] = None
        /\ \E v \in Occupants(s) :
             /\ sysfs' = [sysfs EXCEPT ![s] = v]
             /\ block' = [block EXCEPT ![s] = IF Carries(s, v) THEN v ELSE None]
     \/ sysfs[s] # None /\ sysfs[s] \notin Occupants(s) /\ Unplug(s)
     \/ \E v \in Volumes :
          /\ sysfs[s] = v /\ block[s] = None /\ Carries(s, v)
          /\ block' = [block EXCEPT ![s] = v] /\ UNCHANGED sysfs
     \/ \E v \in Volumes :
          /\ block[s] = v /\ v \in Occupants(s) /\ ~Carries(s, v)
          /\ pc[v] \notin {"cleanup", "teardown"}
          /\ block' = [block EXCEPT ![s] = None] /\ UNCHANGED sysfs
  /\ UNCHANGED <<type, handlers, phyIDLock, ctx, stashed, mounted, objects, staged, history>>

Crash ==
  /\ \E v \in Volumes : pc[v] # "idle"
  /\ Fault({"objects", "context"})
  /\ pc' = [v \in Volumes |-> "idle"]
  /\ op' = [v \in Volumes |-> "none"]
  /\ at' = [v \in Volumes |-> 1]
  /\ pf' = [v \in Volumes |-> None]
  /\ names' = [v \in Volumes |-> {}]
  /\ path' = [v \in Volumes |-> None]
  /\ dev' = [v \in Volumes |-> None]
  /\ phyIDLock' = None
  /\ UNCHANGED <<type, host, objects, staged, orphans>>

Step(v) ==
  \/ Exists(v) \/ Allocate(v) \/ Create(v) \/ Cleanup(v) \/ Bind(v) \/ Detect(v) \/ Save(v)
  \/ Mount(v) \/ Stash(v) \/ Unmount(v) \/ Disconnect(v) \/ Teardown(v) \/ WaitGone(v)
  \/ Drop(v) \/ Return(v)

Next ==
  \/ \E v \in Volumes : CallStage(v) \/ CallUnstage(v) \/ Step(v)
  \/ \E s \in Slots : HotPlug(s)
  \/ Crash

Spec == Init /\ [][Next]_vars

(* Handlers run, phyIDLock is handed over, the host notices in the end what  *)
(* came and went, and kubelet repeats a call to stage a volume.              *)
Fairness ==
  /\ \A v \in Volumes :
       /\ WF_vars(Step(v)) /\ SF_vars(Allocate(v))
       /\ WF_vars(staged[v] = "staging" /\ CallStage(v))
  /\ \A s \in Slots : WF_vars(HotPlug(s))

FairSpec == Spec /\ Fairness

-----------------------------------------------------------------------------
(* Properties.                                                               *)

(* A Connect that allocated a function finds no other volume's device on it, *)
(* also one the host does not see yet: phyIDLock is held until the device is *)
(* there.  Exceptions: a device an earlier failure left behind; on hardware a*)
(* volume that is being torn down, which leaves sysfs first, and, if a       *)
(* context file was left, any that its Disconnect unbound.                   *)
FunctionsAreExclusive ==
  "objects" \notin left /\ (type = "opi-nvme-hw" => "context" \notin left) =>
    \A v \in Volumes : pc[v] = "create" =>
      \A w \in Occupants(pf[v]) \ {v} : type = "opi-nvme-hw" /\ pc[w] = "teardown"

(* What is mounted as a volume is a block device of that volume, whatever    *)
(* failed before, with three exceptions.  A NodeStageVolume that failed after*)
(* its mount disconnects the device and leaves the mount, which counts as    *)
(* staged from then on.  Virtio-blk, if an earlier attempt left anything: a  *)
(* device is taken for the volume's because it shows up on the allocated     *)
(* function, but Connect may find its own made already, on another function. *)
(* On hardware, if a context file was left: Connect may keep it, and its     *)
(* Disconnect unbinds the function it names, whoever has it by then.         *)
RightDevice ==
  /\ VirtioBlk => left = {}
  /\ type = "opi-nvme-hw" => "context" \notin left
  => \A v \in Volumes \ orphans : staged[v] = "staged" => block[mounted[v]] = v

(* A failed NodeStageVolume and an acknowledged NodeUnstageVolume leave      *)
(* nothing of the volume on the xPU and no context, wherever the Connect     *)
(* failed, provided that no reply, deletion or file operation was lost.  This*)
(* includes the NodeStageVolume that fails after its mount.                  *)
NothingLeft ==
  left = {} =>
    \A v \in Volumes : pc[v] = "idle" /\ (mounted[v] = None \/ v \in orphans) =>
      ctx[v] = None /\ objects[v] = {}

(* Repeating NodeStageVolume for v succeeds in the end, unless kubelet gives *)
(* up or there is no free function when Connect looks for one, with three    *)
(* exceptions.  NVMe on a function: a Connect that finds a device left behind*)
(* returns a name that cannot be mounted, and without a devicePath the device*)
(* is never disconnected.  SMA virtio-blk trusts the handle of a context file*)
(* left behind, which no later call removes.  On hardware a controller on a  *)
(* function that is not bound, left behind or about to be deleted, leaves the*)
(* function free in sysfs, and all volumes keep trying it.                   *)
StageCompletes(v) ==
  staged[v] = "staging" ~>
    \/ staged[v] \in {"staged", "unstaging"}
    \/ pc[v] = "allocate" /\ Free = {}
    \/ "objects" \in left /\ pc[v] = "exists" /\ Found(v) # {} /\ path[v] = None
    \/ type = "sma-virtioblk" /\ "context" \in left
    \/ type = "opi-nvme-hw" /\ ("objects" \in left \/ \E w \in Volumes : pc[w] = "teardown")
=============================================================================
