----------------------------- MODULE NodeServer ------------------------------
(* The CSI node service, pkg/spdk/nodeserver.go, with the kernel initiators  *)
(* of pkg/util/initiator.go (nvme-cli or iscsiadm) and the volume context    *)
(* that pkg/util/util.go keeps on disk.  All state and all locks are per     *)
(* volume, so the module follows one volume on one host: its staging path,   *)
(* its block device, the stashed context file, and the target path of each   *)
(* pod that uses it.  Every command, mount operation and file operation is a *)
(* step; gRPC handlers (workers) interleave between them.                    *)
(*                                                                           *)
(* Environment.  Kubelet stages the volume, publishes it to pods, unpublishes*)
(* and unstages it, repeats a call until it is acknowledged, may stop waiting*)
(* for one, and may give up staging and unstage instead.  Operations of the  *)
(* host may fail; a device may show up after the driver stopped waiting for  *)
(* it; the driver's process may be killed and restarted.                     *)
EXTENDS Naturals

CONSTANTS
  Workers,       \* goroutines
  Pods,          \* pods that may use the volume, each with a target path
  None,
  MaxFaults,     \* bound on failing operations
  MaxCrashes,    \* bound on restarts of the driver's process
  MaxTimeouts    \* bound on calls kubelet stops waiting for

ASSUME NodeAssumption ==
  /\ None \notin Workers /\ None \notin Pods
  /\ MaxFaults \in Nat /\ MaxCrashes \in Nat /\ MaxTimeouts \in Nat

VARIABLES
  \* the handlers' goroutines
  pc, op,
  pod,        \* pod[t]: the pod of a publish or unpublish request
  holder,     \* nodeServer.volumeLocks: who has the lock of the volume
  \* the host
  staging,    \* stagingTargetPath: absent, dir, mounted, or stale: a mount whose device left
  dev,        \* the block device: off, pending (connecting, not there yet), on
  stash,      \* the volume context file: none, whole, torn
  target,     \* target[p]: absent, dir, or a bind mount of the volume, of a stale
              \* mount, or of an unmounted staging directory (host)
  wiped,      \* os.RemoveAll ran on a path that shows the volume's files
  \* kubelet
  staged,     \* unstaged, staging, staged, unstaging: as far as it was told
  use,        \* use[p]: none, publishing, published, unpublishing
  awaited,    \* workers whose response it is waiting for
  \* history
  failed,     \* kinds of operations that failed so far
  abandoned,  \* operations kubelet stopped waiting for so far
  faults, crashes, timeouts

handlers == <<pc, op, pod>>
host == <<staging, dev, stash, target, wiped>>
kubelet == <<staged, use, awaited>>
history == <<failed, abandoned, faults, crashes, timeouts>>
vars == <<handlers, holder, host, kubelet, history>>

Ops == {"stage", "unstage", "publish", "unpublish"}

Kinds == {"check", "connect", "mkdir", "mount", "stash", "unmount", "remove", "disconnect",
          "cleanup"}

Labels == {"idle", "lock", "isStaged", "connect", "waitReady", "makeStaging", "mountStaging",
           "stash", "unmountStaging", "removeStaging", "lookup", "disconnect", "waitGone",
           "cleanup", "makeTarget", "bindTarget", "unmountTarget", "removeTarget", "ok", "err"}

TypeOK ==
  /\ pc \in [Workers -> Labels]
  /\ op \in [Workers -> Ops \cup {"none"}]
  /\ pod \in [Workers -> Pods \cup {None}]
  /\ holder \in Workers \cup {None}
  /\ staging \in {"absent", "dir", "mounted", "stale"}
  /\ dev \in {"off", "pending", "on"}
  /\ stash \in {"none", "whole", "torn"}
  /\ target \in [Pods -> {"absent", "dir", "volume", "stale", "host"}]
  /\ wiped \in BOOLEAN
  /\ staged \in {"unstaged", "staging", "staged", "unstaging"}
  /\ use \in [Pods -> {"none", "publishing", "published", "unpublishing"}]
  /\ awaited \in SUBSET Workers
  /\ failed \in SUBSET Kinds
  /\ abandoned \in SUBSET Ops
  /\ faults \in 0..MaxFaults
  /\ crashes \in 0..MaxCrashes
  /\ timeouts \in 0..MaxTimeouts

Init ==
  /\ pc = [t \in Workers |-> "idle"]
  /\ op = [t \in Workers |-> "none"]
  /\ pod = [t \in Workers |-> None]
  /\ holder = None
  /\ staging = "absent" /\ dev = "off" /\ stash = "none" /\ wiped = FALSE
  /\ target = [p \in Pods |-> "absent"]
  /\ staged = "unstaged"
  /\ use = [p \in Pods |-> "none"]
  /\ awaited = {} /\ failed = {} /\ abandoned = {}
  /\ faults = 0 /\ crashes = 0 /\ timeouts = 0

-----------------------------------------------------------------------------
Goto(t, label) == pc' = [pc EXCEPT ![t] = label]

Busy(t) == pc[t] # "idle"

(* !mount.IsNotMountPoint(path) *)
IsMountPoint(state) == state \in {"mounted", "stale", "volume", "host"}

(* An operation of kind k fails. *)
Fault(k) ==
  /\ faults < MaxFaults
  /\ faults' = faults + 1
  /\ failed' = failed \cup {k}

(* The operation of the current step succeeds with Effect and the handler    *)
(* goes to ok, or fails with OnFailure and it goes to bad.                   *)
Try(t, k, Effect, ok, OnFailure, bad) ==
  /\ \/ Effect /\ Goto(t, ok) /\ UNCHANGED <<failed, faults>>
     \/ Fault(k) /\ OnFailure /\ Goto(t, bad)
  /\ UNCHANGED <<op, pod, holder, kubelet, abandoned, crashes, timeouts>>

NoEffect == UNCHANGED host

(* A step that cannot fail. *)
Silently(t, label) == Goto(t, label) /\ UNCHANGED <<op, pod, holder, host, kubelet, history>>

-----------------------------------------------------------------------------
(* Kubelet.  It has one call at a time under way for staging, and one per    *)
(* pod; it publishes only what it was told is staged, and unstages when no   *)
(* pod uses the volume.                                                      *)

Call(t, o, p) ==
  /\ pc[t] = "idle"
  /\ Goto(t, "lock")
  /\ op' = [op EXCEPT ![t] = o]
  /\ pod' = [pod EXCEPT ![t] = p]
  /\ awaited' = awaited \cup {t}
  /\ UNCHANGED <<holder, host, history>>

CallStage(t) ==
  /\ staged \in {"unstaged", "staging"}
  /\ awaited = {}
  /\ staged' = "staging"
  /\ Call(t, "stage", None)
  /\ UNCHANGED use

CallUnstage(t) ==
  /\ staged # "unstaged"
  /\ awaited = {}
  /\ \A p \in Pods : use[p] = "none"
  /\ staged' = "unstaging"
  /\ Call(t, "unstage", None)
  /\ UNCHANGED use

CallPublish(t, p) ==
  /\ staged = "staged"
  /\ use[p] \in {"none", "publishing"}
  /\ \A u \in awaited : pod[u] \notin {p, None}
  /\ use' = [use EXCEPT ![p] = "publishing"]
  /\ Call(t, "publish", p)
  /\ UNCHANGED staged

CallUnpublish(t, p) ==
  /\ use[p] # "none"
  /\ \A u \in awaited : pod[u] \notin {p, None}
  /\ use' = [use EXCEPT ![p] = "unpublishing"]
  /\ Call(t, "unpublish", p)
  /\ UNCHANGED staged

TimeOut(t) ==
  /\ t \in awaited
  /\ timeouts < MaxTimeouts
  /\ timeouts' = timeouts + 1
  /\ awaited' = awaited \ {t}
  /\ abandoned' = abandoned \cup {op[t]}
  /\ UNCHANGED <<handlers, holder, host, staged, use, failed, faults, crashes>>

-----------------------------------------------------------------------------
(* unlock := ns.volumeLocks.Lock(volumeID): all four handlers lock the       *)
(* volume id.                                                                *)

(* What a handler does first under the lock. *)
FirstLabel(o) ==
  IF o = "publish" THEN "makeTarget" ELSE IF o = "unpublish" THEN "unmountTarget" ELSE "isStaged"

(* Mutant: the handlers do not exclude each other. *)
Lock_NoWait(t) ==
  /\ pc[t] = "lock"
  /\ holder' = t
  /\ Goto(t, FirstLabel(op[t]))
  /\ UNCHANGED <<op, pod, host, kubelet, history>>

Lock(t) ==
  /\ pc[t] = "lock"
  /\ holder = None
  /\ holder' = t
  /\ Goto(t, FirstLabel(op[t]))
  /\ UNCHANGED <<op, pod, host, kubelet, history>>

(* The deferred unlock, and the response if kubelet still waits for it. *)
Return(t) ==
  LET acked(o) == t \in awaited /\ pc[t] = "ok" /\ op[t] = o IN
  /\ pc[t] \in {"ok", "err"}
  /\ Goto(t, "idle")
  /\ op' = [op EXCEPT ![t] = "none"]
  /\ pod' = [pod EXCEPT ![t] = None]
  /\ holder' = None
  /\ awaited' = awaited \ {t}
  /\ staged' = IF acked("stage") THEN "staged" ELSE IF acked("unstage") THEN "unstaged" ELSE staged
  /\ use' = IF acked("publish") THEN [use EXCEPT ![pod[t]] = "published"]
            ELSE IF acked("unpublish") THEN [use EXCEPT ![pod[t]] = "none"] ELSE use
  /\ UNCHANGED <<host, history>>

(* isStaged: the staging path is a mount point.  If so NodeStageVolume is    *)
(* done; if not NodeUnstageVolume is.                                        *)
IsStaged(t) ==
  /\ pc[t] = "isStaged"
  /\ Try(t, "check", NoEffect,
         IF op[t] = "stage" THEN IF IsMountPoint(staging) THEN "ok" ELSE "connect"
                            ELSE IF IsMountPoint(staging) THEN "unmountStaging" ELSE "ok",
         NoEffect, "err")

-----------------------------------------------------------------------------
(* NodeStageVolume.                                                          *)

(* initiator.Connect: the command's own failure is only logged; *)
Connect(t) ==
  LET become(states) == dev' \in states /\ UNCHANGED <<staging, stash, target, wiped>> IN
  /\ pc[t] = "connect"
  /\ Try(t, "connect", become({"on"}), "waitReady",
         become(IF dev = "on" THEN {"on"} ELSE {dev, "pending"}), "waitReady")

(* what counts is whether the device file shows up in time.  The deferred    *)
(* Disconnect is not registered yet when it does not.                        *)
WaitReady(t) ==
  /\ pc[t] = "waitReady"
  /\ Silently(t, IF dev = "on" THEN "makeStaging" ELSE "err")

(* stageVolume: createMountPoint, *)
MakeStaging(t) ==
  /\ pc[t] = "makeStaging"
  /\ Try(t, "mkdir",
         /\ staging' = IF staging = "absent" THEN "dir" ELSE staging
         /\ UNCHANGED <<dev, stash, target, wiped>>,
         IF IsMountPoint(staging) THEN "stash" ELSE "mountStaging",
         NoEffect, "disconnect")

(* then FormatAndMount.  A failure from here on runs the deferred Disconnect.*)
MountStaging(t) ==
  /\ pc[t] = "mountStaging"
  /\ \/ /\ dev = "on"
        /\ Try(t, "mount", staging' = "mounted" /\ UNCHANGED <<dev, stash, target, wiped>>,
               "stash", NoEffect, "disconnect")
     \/ dev # "on" /\ Silently(t, "disconnect")

(* Mutant: the write appends to a file that is there already. *)
Stash_Appends(t) ==
  LET write(states) == stash' \in states /\ UNCHANGED <<staging, dev, target, wiped>> IN
  /\ pc[t] = "stash"
  /\ Try(t, "stash", write({IF stash = "none" THEN "whole" ELSE "appended"}), "ok",
         write({stash, "torn"}), "disconnect")

(* util.StashVolumeContext: a failing write leaves no file or a torn one. *)
Stash(t) ==
  LET write(states) == stash' \in states /\ UNCHANGED <<staging, dev, target, wiped>> IN
  /\ pc[t] = "stash"
  /\ Try(t, "stash", write({"whole"}), "ok", write({stash, "torn"}), "disconnect")

-----------------------------------------------------------------------------
(* NodeUnstageVolume.                                                        *)

(* Mutant: a failed unmount is only logged. *)
UnmountStaging_IgnoresError(t) ==
  /\ pc[t] = "unmountStaging"
  /\ Try(t, "unmount", staging' = "dir" /\ UNCHANGED <<dev, stash, target, wiped>>,
         "removeStaging", NoEffect, "removeStaging")

(* deleteMountPoint of the staging path: unmount, *)
UnmountStaging(t) ==
  /\ pc[t] = "unmountStaging"
  /\ Try(t, "unmount", staging' = "dir" /\ UNCHANGED <<dev, stash, target, wiped>>,
         "removeStaging", NoEffect, "err")

(* then os.RemoveAll, which deletes whatever the path shows. *)
RemoveStaging(t) ==
  /\ pc[t] = "removeStaging"
  /\ Try(t, "remove",
         /\ staging' = IF IsMountPoint(staging) THEN staging ELSE "absent"
         /\ wiped' = (wiped \/ staging = "mounted")
         /\ UNCHANGED <<dev, stash, target>>,
         "lookup", NoEffect, "err")

(* util.LookupVolumeContext; without it there is nothing to disconnect with. *)
Lookup(t) ==
  /\ pc[t] = "lookup"
  /\ Silently(t, IF stash = "whole" THEN "disconnect" ELSE "err")

(* initiator.Disconnect, here and deferred in NodeStageVolume: the kernel    *)
(* lets the device go even under a mounted file system.                      *)
Disconnect(t) ==
  /\ pc[t] = "disconnect"
  /\ Try(t, "disconnect",
         /\ dev' = "off"
         /\ staging' = IF staging = "mounted" THEN "stale" ELSE staging
         /\ target' = [p \in Pods |-> IF target[p] = "volume" THEN "stale" ELSE target[p]]
         /\ UNCHANGED <<stash, wiped>>,
         "waitGone", NoEffect, "waitGone")

(* Success is the device file being gone. *)
WaitGone(t) ==
  /\ pc[t] = "waitGone"
  /\ Silently(t, IF op[t] = "unstage" /\ dev # "on" THEN "cleanup" ELSE "err")

(* util.CleanUpVolumeContext *)
Cleanup(t) ==
  /\ pc[t] = "cleanup"
  /\ Try(t, "cleanup", stash' = "none" /\ UNCHANGED <<staging, dev, target, wiped>>,
         "ok", NoEffect, "err")

-----------------------------------------------------------------------------
(* NodePublishVolume and NodeUnpublishVolume.                                *)

SetTarget(p, state) ==
  target' = [target EXCEPT ![p] = state] /\ UNCHANGED <<staging, dev, stash, wiped>>

(* Mutant: an existing directory counts as mounted. *)
MakeTarget_DirIsEnough(t) ==
  LET p == pod[t] IN
  /\ pc[t] = "makeTarget"
  /\ Try(t, "mkdir", SetTarget(p, IF target[p] = "absent" THEN "dir" ELSE target[p]),
         IF target[p] # "absent" THEN "ok" ELSE "bindTarget", NoEffect, "err")

(* publishVolume: createMountPoint, *)
MakeTarget(t) ==
  LET p == pod[t] IN
  /\ pc[t] = "makeTarget"
  /\ Try(t, "mkdir", SetTarget(p, IF target[p] = "absent" THEN "dir" ELSE target[p]),
         IF IsMountPoint(target[p]) THEN "ok" ELSE "bindTarget", NoEffect, "err")

(* then a bind mount of whatever the staging path is. *)
BindTarget(t) ==
  /\ pc[t] = "bindTarget"
  /\ \/ /\ staging # "absent"
        /\ Try(t, "mount",
               SetTarget(pod[t], IF staging = "mounted" THEN "volume"
                                 ELSE IF staging = "stale" THEN "stale" ELSE "host"),
               "ok", NoEffect, "err")
     \/ staging = "absent" /\ Silently(t, "err")

(* Mutant: unpublishing what is unpublished already is an error. *)
UnmountTarget_GoneIsError(t) ==
  LET p == pod[t] IN
  /\ pc[t] = "unmountTarget"
  /\ \/ target[p] = "absent" /\ Silently(t, "err")
     \/ target[p] = "dir" /\ Silently(t, "removeTarget")
     \/ /\ IsMountPoint(target[p])
        /\ Try(t, "unmount", SetTarget(p, "dir"), "removeTarget", NoEffect, "err")

(* deleteMountPoint of the target path: nothing to do if it does not exist,  *)
(* nothing to unmount if it is no mount point, *)
UnmountTarget(t) ==
  LET p == pod[t] IN
  /\ pc[t] = "unmountTarget"
  /\ \/ target[p] = "absent" /\ Silently(t, "ok")
     \/ target[p] = "dir" /\ Silently(t, "removeTarget")
     \/ /\ IsMountPoint(target[p])
        /\ Try(t, "unmount", SetTarget(p, "dir"), "removeTarget", NoEffect, "err")

(* and os.RemoveAll. *)
RemoveTarget(t) ==
  LET p == pod[t] IN
  /\ pc[t] = "removeTarget"
  /\ Try(t, "remove",
         /\ target' = [target EXCEPT ![p] = IF IsMountPoint(@) THEN @ ELSE "absent"]
         /\ wiped' = (wiped \/ target[p] = "volume")
         /\ UNCHANGED <<staging, dev, stash>>,
         "ok", NoEffect, "err")

-----------------------------------------------------------------------------
(* The environment: a device shows up late; the process is killed.           *)

DeviceAppears ==
  /\ dev = "pending"
  /\ dev' = "on"
  /\ UNCHANGED <<handlers, holder, staging, stash, target, wiped, kubelet, history>>

Crash ==
  /\ crashes < MaxCrashes
  /\ \E t \in Workers : Busy(t)
  /\ crashes' = crashes + 1
  /\ pc' = [t \in Workers |-> "idle"]
  /\ op' = [t \in Workers |-> "none"]
  /\ pod' = [t \in Workers |-> None]
  /\ holder' = None
  /\ awaited' = {}
  /\ UNCHANGED <<host, staged, use, failed, abandoned, faults, timeouts>>

Step(t) ==
  \/ Lock(t) \/ Return(t) \/ IsStaged(t)
  \/ Connect(t) \/ WaitReady(t) \/ MakeStaging(t) \/ MountStaging(t) \/ Stash(t)
  \/ UnmountStaging(t) \/ RemoveStaging(t) \/ Lookup(t) \/ Disconnect(t) \/ WaitGone(t)
  \/ Cleanup(t)
  \/ MakeTarget(t) \/ BindTarget(t) \/ UnmountTarget(t) \/ RemoveTarget(t)

Next ==
  \/ \E t \in Workers :
       \/ CallStage(t) \/ CallUnstage(t) \/ TimeOut(t) \/ Step(t)
       \/ \E p \in Pods : CallPublish(t, p) \/ CallUnpublish(t, p)
  \/ DeviceAppears \/ Crash

Spec == Init /\ [][Next]_vars

(* Goroutines run, a waiter gets the mutex in the end (VolumeLocks), and     *)
(* kubelet repeats the call it is at.  It need not start a new one, and a    *)
(* pending device need not appear.                                           *)
Fairness ==
  /\ \A t \in Workers : WF_vars(Step(t)) /\ SF_vars(Lock(t))
  /\ WF_vars(\E t \in Workers : staged = "staging" /\ CallStage(t))
  /\ WF_vars(\E t \in Workers : staged = "unstaging" /\ CallUnstage(t))
  /\ \A p \in Pods :
       /\ WF_vars(\E t \in Workers : use[p] = "publishing" /\ CallPublish(t, p))
       /\ WF_vars(\E t \in Workers : use[p] = "unpublishing" /\ CallUnpublish(t, p))

FairSpec == Spec /\ Fairness

-----------------------------------------------------------------------------
(* Properties.                                                               *)

(* os.RemoveAll, which deleteMountPoint calls after the unmount, never runs  *)
(* on a path that shows the volume: no abandoned or repeated handler mounts  *)
(* it again between the two.                                                 *)
DataIsSafe == ~wiped

(* A pod that was told its volume is there has the volume, neither an empty  *)
(* directory of the host nor a mount without a device, and what kubelet      *)
(* believes is staged is mounted: whatever failed and whenever the driver    *)
(* was restarted, with two exceptions.  A failed write of the context file   *)
(* disconnects a mounted volume, and a call that kubelet gave up may get the *)
(* lock late: an unstage after the volume was staged again, an unpublish     *)
(* after it was published again, a publish after it was unpublished, whose   *)
(* mount then looks like the next publish's.  An abandoned stage does no     *)
(* harm.                                                                     *)
AckedIsMounted ==
  "stash" \notin failed =>
    /\ staged = "staged" /\ "unstage" \notin abandoned => staging = "mounted"
    /\ abandoned \subseteq {"stage"} =>
         \A p \in Pods : use[p] = "published" => target[p] = "volume"

(* What kubelet was told is unstaged or unpublished is no mount point any    *)
(* more, whatever failed before, unless kubelet gave up a call to mount it,  *)
(* which may still run afterwards.  Of an unstaged volume the host has no    *)
(* connection and no context file left either, provided that no call was     *)
(* given up, the driver was not restarted, and nothing but mounting,         *)
(* unmounting and checking a path has ever failed.                           *)
TornDown ==
  /\ staged = "unstaged" /\ "stage" \notin abandoned => ~IsMountPoint(staging)
  /\ \A p \in Pods :
       use[p] = "none" /\ "publish" \notin abandoned => ~IsMountPoint(target[p])
  /\ timeouts = 0 /\ crashes = 0 /\ failed \subseteq {"check", "mkdir", "mount", "unmount"} =>
       (staged = "unstaged" => dev = "off" /\ stash = "none")

(* Repeated calls come to an end, whatever state earlier calls and failures  *)
(* left behind: staging, unless kubelet turns to unstaging; unstaging; and   *)
(* publishing and unpublishing, unless an unstage that kubelet gave up took  *)
(* the volume down after it was staged again: kubelet then repeats a publish *)
(* that cannot succeed.                                                      *)
CallsAreAcked ==
  /\ staged = "staging" ~> staged \in {"staged", "unstaging"}
  /\ staged = "unstaging" ~> staged = "unstaged"
  /\ \A p \in Pods :
       /\ use[p] = "publishing" ~>
            use[p] \in {"published", "unpublishing"} \/ "unstage" \in abandoned
       /\ use[p] = "unpublishing" ~> use[p] = "none"

-----------------------------------------------------------------------------
(* What the repository says and the code does not keep.                      *)

Quiet == \A t \in Workers : ~Busy(t)

(* nodeserver.go on isStaged: if stagingPath is a mount point, it means it   *)
(* is already staged, and vice versa.  Staged: the device is there and the   *)
(* context is stashed; not staged: the device is not connected.              *)
MountPointMeansStaged ==
  Quiet =>
    /\ IsMountPoint(staging) => staging = "mounted" /\ stash = "whole"
    /\ staged = "unstaged" /\ ~IsMountPoint(staging) => dev # "on"
=============================================================================
