-------------------------- MODULE NodeServerProofs ---------------------------
(* What the node service keeps, for any number of workers and pods and any   *)
(* number of failures, restarts and calls that kubelet gives up: DataIsSafe, *)
(* AckedIsMounted and TornDown of NodeServer.  None is inductive: each rests *)
(* on the lock that the four handlers share, on what a handler has           *)
(* established when it reaches a label, and on kubelet having one call under *)
(* way for staging and one per pod.                                          *)
EXTENDS NodeServer, TLAPS

-----------------------------------------------------------------------------
(* The inductive invariant.                                                  *)

(* A handler past Lock holds the lock, runs the code of its operation, and   *)
(* has a pod if and only if the operation is about one.                      *)
HandlersOK ==
  \A t \in Workers :
    /\ pc[t] \notin {"idle", "lock"} => holder = t
    /\ pc[t] = "idle" <=> op[t] = "none"
    /\ pc[t] = "isStaged" => op[t] \in {"stage", "unstage"}
    /\ pc[t] \in {"connect", "waitReady", "makeStaging", "mountStaging", "stash"} =>
         op[t] = "stage"
    /\ pc[t] \in {"unmountStaging", "removeStaging", "lookup", "cleanup"} => op[t] = "unstage"
    /\ pc[t] \in {"disconnect", "waitGone"} => op[t] \in {"stage", "unstage"}
    /\ pc[t] \in {"makeTarget", "bindTarget"} => op[t] = "publish"
    /\ pc[t] \in {"unmountTarget", "removeTarget"} => op[t] = "unpublish"
    /\ op[t] \in {"publish", "unpublish"} => pod[t] \in Pods
    /\ op[t] \in {"none", "stage", "unstage"} => pod[t] = None

(* Kubelet waits for the operation that the volume or the pod is at, for one *)
(* at a time, and uses only what it was told is staged; a handler it does    *)
(* not wait for is one it gave up.                                           *)
KubeletOK ==
  /\ \A t \in awaited :
       /\ op[t] # "none"
       /\ op[t] = "stage" => staged = "staging"
       /\ op[t] = "unstage" => staged = "unstaging"
       /\ op[t] = "publish" => use[pod[t]] = "publishing"
       /\ op[t] = "unpublish" => use[pod[t]] = "unpublishing"
  /\ \A t, u \in awaited : t # u => pod[t] # pod[u] /\ pod[t] # None
  /\ \A p \in Pods : use[p] # "none" => staged = "staged"
  /\ \A t \in Workers \ awaited : op[t] # "none" => op[t] \in abandoned

(* What a handler has established at its label. *)
HostOK ==
  /\ ~wiped
  /\ "stash" \notin failed => staging # "stale"
  /\ \A t \in Workers :
       /\ pc[t] \in {"connect", "waitReady", "makeStaging", "mountStaging", "removeStaging",
                     "lookup", "cleanup"} => ~IsMountPoint(staging)
       /\ pc[t] \in {"disconnect", "waitGone", "ok"} /\ op[t] = "unstage" =>
            ~IsMountPoint(staging)
       /\ pc[t] = "disconnect" /\ op[t] = "stage" /\ "stash" \notin failed =>
            ~IsMountPoint(staging)
       /\ pc[t] = "stash" => staging = "mounted"
       /\ pc[t] = "ok" /\ op[t] = "stage" => IsMountPoint(staging)
       /\ pc[t] = "removeTarget" => ~IsMountPoint(target[pod[t]])
       /\ pc[t] = "ok" /\ op[t] = "unpublish" => ~IsMountPoint(target[pod[t]])
       /\ pc[t] = "ok" /\ op[t] = "publish" => IsMountPoint(target[pod[t]])

(* AckedIsMounted and the first two parts of TornDown, and: while nothing of *)
(* AckedIsMounted's exceptions happened, no target path is a mount of        *)
(* anything but the volume, whatever the pod was told.                       *)
MountsOK ==
  /\ staged = "unstaged" /\ "stage" \notin abandoned => ~IsMountPoint(staging)
  /\ \A p \in Pods : use[p] = "none" /\ "publish" \notin abandoned => ~IsMountPoint(target[p])
  /\ "stash" \notin failed /\ staged = "staged" /\ "unstage" \notin abandoned =>
       staging = "mounted"
  /\ "stash" \notin failed /\ abandoned \subseteq {"stage"} =>
       \A p \in Pods : /\ target[p] \in {"absent", "dir", "volume"}
                       /\ use[p] = "published" => target[p] = "volume"

(* While nothing but mounting, unmounting and checking a path has failed and *)
(* no call was cut short: the device and the context file follow the mount   *)
(* between two calls, and a call's own progress during it.                   *)
Tidy == timeouts = 0 /\ crashes = 0 /\ failed \subseteq {"check", "mkdir", "mount", "unmount"}

Between == {"idle", "lock", "isStaged", "makeTarget", "bindTarget", "unmountTarget",
            "removeTarget", "ok", "err"}

Settled ==
  \/ IsMountPoint(staging) /\ dev = "on" /\ stash = "whole"
  \/ ~IsMountPoint(staging) /\ dev = "off" /\ stash = "none"

Progress(t) ==
  /\ pc[t] = "connect" => dev = "off" /\ stash = "none"
  /\ pc[t] \in {"waitReady", "makeStaging", "mountStaging", "stash"} => dev = "on" /\ stash = "none"
  /\ pc[t] = "disconnect" => dev = "on" /\ stash = IF op[t] = "stage" THEN "none" ELSE "whole"
  /\ pc[t] = "waitGone" => dev = "off" /\ stash = IF op[t] = "stage" THEN "none" ELSE "whole"
  /\ pc[t] = "waitGone" => ~IsMountPoint(staging)
  /\ pc[t] \in {"unmountStaging", "removeStaging", "lookup"} => dev = "on" /\ stash = "whole"
  /\ pc[t] = "unmountStaging" => IsMountPoint(staging)
  /\ pc[t] = "cleanup" => dev = "off" /\ stash = "whole"

TidyOK ==
  Tidy =>
    /\ abandoned = {}
    /\ (\A t \in Workers : pc[t] \in Between) => Settled
    /\ \A t \in Workers : Progress(t)

IInv == TypeOK /\ HandlersOK /\ KubeletOK /\ HostOK /\ MountsOK /\ TidyOK

-----------------------------------------------------------------------------
(* The steps of a handler that holds the lock: all but Lock and Return.      *)

Work(t) ==
  \/ IsStaged(t) \/ Connect(t) \/ WaitReady(t) \/ MakeStaging(t) \/ MountStaging(t) \/ Stash(t)
  \/ UnmountStaging(t) \/ RemoveStaging(t) \/ Lookup(t) \/ Disconnect(t) \/ WaitGone(t)
  \/ Cleanup(t) \/ MakeTarget(t) \/ BindTarget(t) \/ UnmountTarget(t) \/ RemoveTarget(t)

(* The steps by kind. *)
LEMMA NextCases ==
  ASSUME Next
  PROVE  \/ \E t \in Workers : \/ CallStage(t) \/ CallUnstage(t) \/ TimeOut(t)
                               \/ Lock(t) \/ Return(t) \/ Work(t)
                               \/ \E p \in Pods : CallPublish(t, p) \/ CallUnpublish(t, p)
         \/ DeviceAppears \/ Crash
  BY DEF Next, Step, Work

(* A handler that holds the lock moves only itself, and kubelet does not     *)
(* notice.                                                                   *)
LEMMA WorkTyping ==
  ASSUME TypeOK, NEW t \in Workers, Work(t)
  PROVE  /\ pc[t] \in Labels \ {"idle", "lock", "ok", "err"}
         /\ pc'[t] \in Labels \ {"idle", "lock"}
         /\ pc' = [pc EXCEPT ![t] = pc'[t]]
         /\ UNCHANGED <<op, pod, holder, kubelet, abandoned, crashes, timeouts>>
         /\ failed \subseteq failed'
         /\ TypeOK'
<1> USE NodeAssumption DEF TypeOK, Labels, Kinds
<1> USE DEF Work, IsStaged, Connect, WaitReady, MakeStaging, MountStaging, Stash, UnmountStaging,
            RemoveStaging, Lookup, Disconnect, WaitGone, Cleanup, MakeTarget, BindTarget,
            UnmountTarget, RemoveTarget
<1> USE DEF Try, Fault, NoEffect, Silently, Goto, SetTarget, IsMountPoint, host, kubelet, history
<1>1. pc[t] \in Labels \ {"idle", "lock", "ok", "err"}
  OBVIOUS
<1>2. pc'[t] \in Labels \ {"idle", "lock"}
  OBVIOUS
<1>3. pc' = [pc EXCEPT ![t] = pc'[t]]
  OBVIOUS
<1>4. UNCHANGED <<op, pod, holder, kubelet, abandoned, crashes, timeouts>>
  OBVIOUS
<1>5. failed \subseteq failed' /\ failed' \subseteq Kinds
  OBVIOUS
<1>6. faults' \in 0..MaxFaults
  OBVIOUS
<1>7. staging' \in {"absent", "dir", "mounted", "stale"} /\ dev' \in {"off", "pending", "on"}
  OBVIOUS
<1>8. stash' \in {"none", "whole", "torn"} /\ wiped' \in BOOLEAN
  OBVIOUS
<1>9. target' \in [Pods -> {"absent", "dir", "volume", "stale", "host"}]
  OBVIOUS
<1>10. TypeOK'
  BY <1>2, <1>3, <1>4, <1>5, <1>6, <1>7, <1>8, <1>9 DEF TypeOK, kubelet
<1> QED BY <1>1, <1>2, <1>3, <1>4, <1>5, <1>10

(* Two handlers are never both past Lock. *)
LEMMA OneHandlerWorks ==
  ASSUME HandlersOK, NEW t \in Workers, NEW u \in Workers, u # t,
         pc[t] \notin {"idle", "lock"}
  PROVE  pc[u] \in {"idle", "lock"}
  BY DEF HandlersOK

(* A handler that holds the lock stays in the code of its operation.         *)
LEMMA WorkKeepsHandlers ==
  ASSUME TypeOK, HandlersOK, NEW t \in Workers, Work(t)
  PROVE  HandlersOK'
<1> USE DEF Work, IsStaged, Connect, WaitReady, MakeStaging, MountStaging, Stash, UnmountStaging,
            RemoveStaging, Lookup, Disconnect, WaitGone, Cleanup, MakeTarget, BindTarget,
            UnmountTarget, RemoveTarget, Try, Silently, Goto
<1>1. /\ pc[t] \in Labels \ {"idle", "lock", "ok", "err"}
      /\ pc'[t] \in Labels \ {"idle", "lock"}
      /\ pc' = [pc EXCEPT ![t] = pc'[t]]
      /\ UNCHANGED <<op, pod, holder>>
  BY WorkTyping
<1>2. pc'[t] = "isStaged" => op[t] \in {"stage", "unstage"}
  BY DEF TypeOK, HandlersOK
<1>3. pc'[t] \in {"connect", "waitReady", "makeStaging", "mountStaging", "stash"} => op[t] = "stage"
  BY DEF TypeOK, HandlersOK
<1>4. pc'[t] \in {"unmountStaging", "removeStaging", "lookup", "cleanup"} => op[t] = "unstage"
  BY DEF TypeOK, HandlersOK
<1>5. pc'[t] \in {"disconnect", "waitGone"} => op[t] \in {"stage", "unstage"}
  BY DEF TypeOK, HandlersOK
<1>6. pc'[t] \in {"makeTarget", "bindTarget"} => op[t] = "publish"
  BY DEF TypeOK, HandlersOK
<1>7. pc'[t] \in {"unmountTarget", "removeTarget"} => op[t] = "unpublish"
  BY DEF TypeOK, HandlersOK
<1>8. \A u \in Workers : u # t => pc'[u] = pc[u]
  BY <1>1 DEF TypeOK
<1> HIDE DEF Work
<1> QED BY <1>1, <1>2, <1>3, <1>4, <1>5, <1>6, <1>7, <1>8 DEF HandlersOK

(* Every label is reached with what HostOK says the handler has established: *)
(* os.RemoveAll only after the unmount, or where there was none to undo.     *)
LEMMA WorkKeepsHost ==
  ASSUME TypeOK, HandlersOK, HostOK, NEW t \in Workers, Work(t)
  PROVE  HostOK'
<1>1. /\ pc[t] \in Labels \ {"idle", "lock", "ok", "err"}
      /\ pc' = [pc EXCEPT ![t] = pc'[t]]
      /\ UNCHANGED <<op, pod, holder>>
  BY WorkTyping
<1>2. \A u \in Workers : u # t => pc'[u] \in {"idle", "lock"}
  BY <1>1, OneHandlerWorks DEF TypeOK, Labels
<1>3. pod[t] \in Pods \/ op[t] \in {"stage", "unstage"}
  BY <1>1 DEF HandlersOK, TypeOK, Ops
<1> USE DEF Work, IsStaged, Connect, WaitReady, MakeStaging, MountStaging, Stash, UnmountStaging,
            RemoveStaging, Lookup, Disconnect, WaitGone, Cleanup, MakeTarget, BindTarget,
            UnmountTarget, RemoveTarget
<1> USE DEF Try, Fault, NoEffect, Silently, Goto, SetTarget, IsMountPoint, host, kubelet, history
<1> USE DEF TypeOK, HandlersOK, HostOK
<1>4. ~wiped'
  BY <1>3
<1>5. "stash" \notin failed' => staging' # "stale"
  OBVIOUS
<1>6. pc'[t] \in {"connect", "waitReady", "makeStaging", "mountStaging", "removeStaging",
                  "lookup", "cleanup"} => ~IsMountPoint(staging')
  OBVIOUS
<1>7. pc'[t] \in {"disconnect", "waitGone", "ok"} /\ op[t] = "unstage" => ~IsMountPoint(staging')
  OBVIOUS
<1>8. pc'[t] = "disconnect" /\ op[t] = "stage" /\ "stash" \notin failed' => ~IsMountPoint(staging')
  OBVIOUS
<1>9. pc'[t] = "stash" => staging' = "mounted"
  OBVIOUS
<1>10. pc'[t] = "ok" /\ op[t] = "stage" => IsMountPoint(staging')
  OBVIOUS
<1>11. pc'[t] = "removeTarget" => ~IsMountPoint(target'[pod[t]])
  BY <1>3
<1>12. pc'[t] = "ok" /\ op[t] = "unpublish" => ~IsMountPoint(target'[pod[t]])
  BY <1>3
<1>13. pc'[t] = "ok" /\ op[t] = "publish" => IsMountPoint(target'[pod[t]])
  BY <1>3
<1> HIDE DEF Work, TypeOK, HandlersOK
<1> QED BY <1>1, <1>2, <1>4, <1>5, <1>6, <1>7, <1>8, <1>9, <1>10, <1>11, <1>12, <1>13

(* With no call given up every handler at work is one kubelet waits for, so  *)
(* it mounts only what kubelet asked to be mounted, and takes nothing down   *)
(* that kubelet believes is there.                                           *)
LEMMA WorkKeepsMounts ==
  ASSUME TypeOK, HandlersOK, KubeletOK, HostOK, MountsOK, NEW t \in Workers, Work(t)
  PROVE  MountsOK'
<1>1. /\ pc[t] \in Labels \ {"idle", "lock", "ok", "err"}
      /\ UNCHANGED <<op, pod, kubelet, abandoned>>
      /\ failed \subseteq failed'
  BY WorkTyping
<1>2. op[t] \in {"stage", "unstage"} \/ (op[t] \in {"publish", "unpublish"} /\ pod[t] \in Pods)
  BY <1>1 DEF HandlersOK, TypeOK, Ops
<1>3. /\ "stage" \notin abandoned /\ op[t] = "stage" => staged = "staging"
      /\ "unstage" \notin abandoned /\ op[t] = "unstage" => staged = "unstaging"
      /\ "publish" \notin abandoned /\ op[t] = "publish" => use[pod[t]] = "publishing"
      /\ "unpublish" \notin abandoned /\ op[t] = "unpublish" => use[pod[t]] = "unpublishing"
  BY <1>2 DEF KubeletOK
<1> USE DEF Work, IsStaged, Connect, WaitReady, MakeStaging, MountStaging, Stash, UnmountStaging,
            RemoveStaging, Lookup, Disconnect, WaitGone, Cleanup, MakeTarget, BindTarget,
            UnmountTarget, RemoveTarget
<1> USE DEF Try, Fault, NoEffect, Silently, Goto, SetTarget, IsMountPoint, host, kubelet, history
<1> USE DEF TypeOK, HandlersOK, HostOK, MountsOK
<1>4. staged = "unstaged" /\ "stage" \notin abandoned => ~IsMountPoint(staging')
  BY <1>3
<1>5. ASSUME NEW p \in Pods, use[p] = "none", "publish" \notin abandoned
      PROVE  ~IsMountPoint(target'[p])
  BY <1>2, <1>3, <1>5
<1>6. "stash" \notin failed' /\ staged = "staged" /\ "unstage" \notin abandoned =>
        staging' = "mounted"
  BY <1>1, <1>3
<1>7. ASSUME "stash" \notin failed', abandoned \subseteq {"stage"}, NEW p \in Pods
      PROVE  target'[p] \in {"absent", "dir", "volume"}
  <2>1. op[t] \in {"publish", "unpublish"} => staged = "staged"
    BY <1>2, <1>3, <1>7 DEF KubeletOK
  <2>2. pc[t] = "disconnect" => target[p] # "volume"
    BY <1>1, <1>3, <1>7 DEF KubeletOK
  <2>3. staged = "staged" => staging = "mounted"
    BY <1>1, <1>7
  <2> QED BY <1>1, <1>2, <1>7, <2>1, <2>2, <2>3
<1>8. ASSUME "stash" \notin failed', abandoned \subseteq {"stage"}, NEW p \in Pods,
             use[p] = "published"
      PROVE  target'[p] = "volume"
  <2>1. staged = "staged" /\ staging = "mounted"
    BY <1>1, <1>8 DEF KubeletOK
  <2>2. pc[t] # "disconnect"
    BY <1>1, <1>3, <1>8, <2>1
  <2>3. op[t] \in {"publish", "unpublish"} => pod[t] # p
    BY <1>3, <1>8
  <2> QED BY <1>1, <1>2, <1>8, <2>2, <2>3
<1> HIDE DEF Work, TypeOK, HandlersOK, HostOK
<1> QED BY <1>1, <1>4, <1>5, <1>6, <1>7, <1>8

(* While nothing that matters failed, each step of staging and unstaging     *)
(* brings the device and the context file where the next one expects them.   *)
LEMMA WorkKeepsTidy ==
  ASSUME TypeOK, HandlersOK, HostOK, TidyOK, NEW t \in Workers, Work(t)
  PROVE  TidyOK'
<1>1. /\ pc[t] \in Labels \ {"idle", "lock", "ok", "err"}
      /\ pc'[t] \in Labels
      /\ pc' = [pc EXCEPT ![t] = pc'[t]]
      /\ UNCHANGED <<op, abandoned, crashes, timeouts>>
      /\ failed \subseteq failed'
  BY WorkTyping
<1>2. \A u \in Workers : u # t => pc[u] \in {"idle", "lock"} /\ pc'[u] \in {"idle", "lock"}
  BY <1>1, OneHandlerWorks DEF TypeOK, Labels
<1> SUFFICES ASSUME Tidy'
             PROVE  /\ abandoned = {}
                    /\ pc'[t] \in Between => Settled'
                    /\ Progress(t)'
  BY <1>1, <1>2 DEF TidyOK, Progress
<1>3. Tidy /\ abandoned = {} /\ Progress(t) /\ (pc[t] \in Between => Settled)
  <2>1. Tidy
    BY <1>1 DEF Tidy
  <2>2. pc[t] \in Between => \A u \in Workers : pc[u] \in Between
    BY <1>2 DEF Between
  <2> QED BY <2>1, <2>2 DEF TidyOK
<1> USE DEF Work, IsStaged, Connect, WaitReady, MakeStaging, MountStaging, Stash, UnmountStaging,
            RemoveStaging, Lookup, Disconnect, WaitGone, Cleanup, MakeTarget, BindTarget,
            UnmountTarget, RemoveTarget
<1> USE DEF Try, Fault, NoEffect, Silently, Goto, SetTarget, IsMountPoint, host, history
<1>4. pc'[t] \in Between => Settled'
  BY <1>1, <1>3 DEF Tidy, Progress, Between, Settled, TypeOK, HandlersOK, HostOK
<1>5. Progress(t)'
  BY <1>1, <1>3 DEF Tidy, Progress, Between, Settled, TypeOK, HandlersOK, HostOK
<1> QED BY <1>3, <1>4, <1>5

-----------------------------------------------------------------------------
(* The other steps, one lemma each.                                          *)

(* Kubelet calls: the handler waits for the lock, the host is as it was.     *)
LEMMA CallsKeepIInv ==
  ASSUME IInv, NEW t \in Workers,
         \/ CallStage(t) \/ CallUnstage(t)
         \/ \E p \in Pods : CallPublish(t, p) \/ CallUnpublish(t, p)
  PROVE  IInv'
<1> USE DEF IInv
<1>1. PICK o \in Ops, p \in Pods \cup {None} :
        /\ Call(t, o, p)
        /\ o \in {"publish", "unpublish"} <=> p # None
  BY NodeAssumption DEF CallStage, CallUnstage, CallPublish, CallUnpublish, Ops
<1>2. /\ pc[t] = "idle" /\ pc' = [pc EXCEPT ![t] = "lock"]
      /\ op' = [op EXCEPT ![t] = o] /\ pod' = [pod EXCEPT ![t] = p]
      /\ awaited' = awaited \cup {t}
      /\ UNCHANGED <<holder, staging, dev, stash, target, wiped, failed, abandoned, faults, crashes,
                     timeouts>>
  BY <1>1 DEF Call, Goto, host, history
<1>3. op[t] = "none" /\ t \notin awaited
  BY <1>2 DEF HandlersOK, KubeletOK
<1>4. TypeOK'
  <2>1. staged' \in {"unstaged", "staging", "staged", "unstaging"}
    BY DEF CallStage, CallUnstage, CallPublish, CallUnpublish, TypeOK
  <2>2. use' \in [Pods -> {"none", "publishing", "published", "unpublishing"}]
    BY DEF CallStage, CallUnstage, CallPublish, CallUnpublish, TypeOK
  <2> QED BY <1>2, <2>1, <2>2 DEF TypeOK, Labels
<1>5. HandlersOK'
  BY <1>1, <1>2 DEF HandlersOK, TypeOK, Ops
<1>6. KubeletOK'
  <2> USE DEF KubeletOK
  <2>1. \A u \in Workers \ awaited' : op'[u] # "none" => op'[u] \in abandoned'
    BY <1>2 DEF TypeOK
  <2>2. CASE CallStage(t)
    <3>1. /\ awaited' = {t} /\ op'[t] = "stage" /\ staged' = "staging"
          /\ \A p_1 \in Pods : use'[p_1] = "none"
      BY <1>2, <2>2 DEF CallStage, Call, TypeOK
    <3> QED BY <2>1, <3>1
  <2>3. CASE CallUnstage(t)
    <3>1. /\ awaited' = {t} /\ op'[t] = "unstage" /\ staged' = "unstaging"
          /\ \A p_1 \in Pods : use'[p_1] = "none"
      BY <1>2, <2>3 DEF CallUnstage, Call, TypeOK
    <3> QED BY <2>1, <3>1
  <2>4. ASSUME NEW q \in Pods, CallPublish(t, q) \/ CallUnpublish(t, q)
        PROVE  KubeletOK'
    <3>1. /\ staged = "staged" /\ staged' = "staged"
          /\ \A u \in awaited : pod[u] \notin {q, None} /\ op[u] \notin {"stage", "unstage"}
      BY <2>4 DEF CallPublish, CallUnpublish
    <3>2. /\ pod'[t] = q
          /\ \/ op'[t] = "publish" /\ use' = [use EXCEPT ![q] = "publishing"]
             \/ op'[t] = "unpublish" /\ use' = [use EXCEPT ![q] = "unpublishing"]
      BY <2>4 DEF CallPublish, CallUnpublish, Call, TypeOK
    <3>3. \A u \in awaited : /\ u # t /\ u \in Workers /\ op'[u] = op[u] /\ pod'[u] = pod[u]
                             /\ pod[u] \in Pods /\ use'[pod[u]] = use[pod[u]]
      BY <1>2, <1>3, <3>1, <3>2 DEF TypeOK
    <3>4. /\ op'[t] \in {"publish", "unpublish"}
          /\ op'[t] = "publish" => use'[q] = "publishing"
          /\ op'[t] = "unpublish" => use'[q] = "unpublishing"
      BY <3>2 DEF TypeOK
    <3>5. \A u \in awaited' :
            /\ op'[u] # "none"
            /\ op'[u] = "stage" => staged' = "staging"
            /\ op'[u] = "unstage" => staged' = "unstaging"
            /\ op'[u] = "publish" => use'[pod'[u]] = "publishing"
            /\ op'[u] = "unpublish" => use'[pod'[u]] = "unpublishing"
      BY <1>2, <3>1, <3>2, <3>3, <3>4
    <3>6. \A u, v \in awaited' : u # v => pod'[u] # pod'[v] /\ pod'[u] # None
      BY <1>2, <3>1, <3>2, <3>3, NodeAssumption
    <3> QED BY <2>1, <3>1, <3>5, <3>6
  <2> QED BY <2>2, <2>3, <2>4
<1>7. HostOK'
  BY <1>2 DEF HostOK, TypeOK
<1>8. MountsOK'
  <2>1. /\ staged' = "unstaged" => staged = "unstaged"
        /\ staged' = "staged" => staged = "staged"
    BY DEF CallStage, CallUnstage, CallPublish, CallUnpublish
  <2>2. \A q \in Pods : /\ use'[q] = "none" => use[q] = "none"
                        /\ use'[q] = "published" => use[q] = "published"
    BY DEF CallStage, CallUnstage, CallPublish, CallUnpublish, TypeOK
  <2> QED BY <1>2, <2>1, <2>2 DEF MountsOK
<1>9. TidyOK'
  <2>1. (\A u \in Workers : pc'[u] \in Between) => (\A u \in Workers : pc[u] \in Between)
    BY <1>2 DEF Between, TypeOK
  <2> QED BY <1>2, <2>1 DEF TidyOK, Tidy, Settled, Progress, TypeOK
<1> QED BY <1>4, <1>5, <1>6, <1>7, <1>8, <1>9

(* Kubelet stops waiting. *)
LEMMA TimeOutKeepsIInv ==
  ASSUME IInv, NEW t \in Workers, TimeOut(t)
  PROVE  IInv'
<1> USE DEF IInv, TimeOut, handlers, host
<1>1. TypeOK'
  BY NodeAssumption DEF TypeOK, KubeletOK
<1>2. HandlersOK'
  BY DEF HandlersOK
<1>3. KubeletOK'
  BY DEF KubeletOK
<1>4. HostOK'
  BY DEF HostOK
<1>5. MountsOK'
  BY DEF MountsOK
<1>6. TidyOK'
  BY DEF TidyOK, Tidy, TypeOK
<1> QED BY <1>1, <1>2, <1>3, <1>4, <1>5, <1>6

(* A handler gets the lock. *)
LEMMA LockKeepsIInv ==
  ASSUME IInv, NEW t \in Workers, Lock(t)
  PROVE  IInv'
<1> USE DEF IInv, Lock, Goto, FirstLabel, host, kubelet, history
<1>1. TypeOK'
  BY DEF TypeOK, Labels
<1>2. HandlersOK'
  BY NodeAssumption DEF HandlersOK, TypeOK, Ops
<1>3. KubeletOK'
  BY DEF KubeletOK
<1>4. HostOK'
  BY DEF HostOK, TypeOK
<1>5. MountsOK'
  BY DEF MountsOK
<1>6. TidyOK'
  BY DEF TidyOK, Tidy, Settled, Progress, Between, TypeOK
<1> QED BY <1>1, <1>2, <1>3, <1>4, <1>5, <1>6

(* A handler returns: kubelet believes what HostOK says of the label ok.     *)
LEMMA ReturnKeepsIInv ==
  ASSUME IInv, NEW t \in Workers, Return(t)
  PROVE  IInv'
<1> USE DEF IInv, Return, Goto, host, history
<1>1. TypeOK'
  BY DEF TypeOK, Labels
<1>2. HandlersOK'
  BY NodeAssumption DEF HandlersOK, TypeOK, Ops
<1>3. KubeletOK'
  <2>1. CASE t \in awaited /\ pod[t] = None
    BY <2>1 DEF KubeletOK, HandlersOK, TypeOK
  <2>2. CASE t \in awaited /\ pod[t] # None
    BY <2>2 DEF KubeletOK, HandlersOK, TypeOK
  <2>3. CASE t \notin awaited
    BY <2>3 DEF KubeletOK, HandlersOK, TypeOK
  <2> QED BY <2>1, <2>2, <2>3
<1>4. HostOK'
  BY DEF HostOK, TypeOK
<1>5. MountsOK'
  BY DEF MountsOK, HostOK, HandlersOK, KubeletOK, TypeOK, IsMountPoint
<1>6. TidyOK'
  BY DEF TidyOK, Tidy, Settled, Progress, Between, TypeOK
<1> QED BY <1>1, <1>2, <1>3, <1>4, <1>5, <1>6

(* The device shows up late, or the process is killed.                       *)
LEMMA EnvironmentKeepsIInv ==
  ASSUME IInv, DeviceAppears \/ Crash
  PROVE  IInv'
<1> USE DEF IInv, DeviceAppears, Crash, handlers, host, kubelet, history
<1>1. TypeOK'
  BY NodeAssumption DEF TypeOK, Labels
<1>2. HandlersOK'
  BY DEF HandlersOK
<1>3. KubeletOK'
  BY DEF KubeletOK, TypeOK
<1>4. HostOK'
  BY DEF HostOK
<1>5. MountsOK'
  BY DEF MountsOK
<1>6. TidyOK'
  <2>1. CASE DeviceAppears
    <3>1. dev = "pending" => ~Tidy
      BY DEF TidyOK, Settled, Progress, Between, TypeOK, Labels
    <3> QED BY <2>1, <3>1 DEF TidyOK, Tidy
  <2>2. CASE Crash
    <3>1. ~Tidy'
      BY <2>2 DEF Tidy, TypeOK
    <3> QED BY <3>1 DEF TidyOK
  <2> QED BY <2>1, <2>2
<1> QED BY <1>1, <1>2, <1>3, <1>4, <1>5, <1>6

(* Nothing has happened yet. *)
LEMMA InitIInv == Init => IInv
<1> SUFFICES ASSUME Init PROVE IInv
  OBVIOUS
<1> USE DEF Init
<1>1. TypeOK
  <2>1. pc \in [Workers -> Labels] /\ op \in [Workers -> Ops \cup {"none"}]
    BY DEF Labels
  <2>2. /\ faults \in 0..MaxFaults /\ crashes \in 0..MaxCrashes
        /\ timeouts \in 0..MaxTimeouts
    BY NodeAssumption
  <2> QED BY <2>1, <2>2 DEF TypeOK
<1>2. HandlersOK /\ KubeletOK
  BY DEF HandlersOK, KubeletOK
<1>3. HostOK /\ MountsOK
  BY DEF HostOK, MountsOK, IsMountPoint
<1>4. TidyOK
  BY DEF TidyOK, Settled, Progress, IsMountPoint
<1> QED BY <1>1, <1>2, <1>3, <1>4 DEF IInv

(* Every step keeps the invariant. *)
LEMMA NextIInv == IInv /\ [Next]_vars => IInv'
<1> SUFFICES ASSUME IInv, [Next]_vars PROVE IInv'
  OBVIOUS
<1>1. ASSUME NEW t \in Workers, Work(t) PROVE IInv'
  <2>1. TypeOK /\ HandlersOK /\ KubeletOK /\ HostOK /\ MountsOK /\ TidyOK
    BY DEF IInv
  <2>2. TypeOK'
    BY <1>1, <2>1, WorkTyping
  <2>3. HandlersOK'
    BY <1>1, <2>1, WorkKeepsHandlers
  <2>4. KubeletOK'
    <3>1. UNCHANGED <<op, pod, kubelet, abandoned>>
      BY <1>1, <2>1, WorkTyping
    <3> QED BY <2>1, <3>1 DEF KubeletOK, kubelet
  <2>5. HostOK'
    BY <1>1, <2>1, WorkKeepsHost
  <2>6. MountsOK'
    BY <1>1, <2>1, WorkKeepsMounts
  <2>7. TidyOK'
    BY <1>1, <2>1, WorkKeepsTidy
  <2> QED BY <2>2, <2>3, <2>4, <2>5, <2>6, <2>7 DEF IInv
<1>2. ASSUME NEW t \in Workers,
             \/ CallStage(t) \/ CallUnstage(t)
             \/ \E p \in Pods : CallPublish(t, p) \/ CallUnpublish(t, p)
      PROVE  IInv'
  BY <1>2, CallsKeepIInv
<1>3. ASSUME NEW t \in Workers, TimeOut(t) PROVE IInv'
  BY <1>3, TimeOutKeepsIInv
<1>4. ASSUME NEW t \in Workers, Lock(t) PROVE IInv'
  BY <1>4, LockKeepsIInv
<1>5. ASSUME NEW t \in Workers, Return(t) PROVE IInv'
  BY <1>5, ReturnKeepsIInv
<1>6. CASE DeviceAppears \/ Crash
  BY <1>6, EnvironmentKeepsIInv
<1>7. CASE UNCHANGED vars
  BY <1>7 DEF IInv, TypeOK, HandlersOK, KubeletOK, HostOK, MountsOK, TidyOK, Tidy, Settled,
              Progress, vars, handlers, host, kubelet, history
<1> QED BY <1>1, <1>2, <1>3, <1>4, <1>5, <1>6, <1>7, NextCases

-----------------------------------------------------------------------------
(* The results.                                                              *)

(* The inductive invariant holds in every reachable state, for any number of *)
(* workers, pods, failures, restarts and abandoned calls.                    *)
THEOREM InductiveInvariant == Spec => []IInv
  BY InitIInv, NextIInv, PTL DEF Spec

(* Every variable keeps its type. *)
THEOREM TypeCorrect == Spec => []TypeOK
<1>1. IInv => TypeOK
  BY DEF IInv
<1> QED BY <1>1, InductiveInvariant, PTL

(* os.RemoveAll in deleteMountPoint (nodeserver.go) never runs on a path     *)
(* that shows the volume's files.                                            *)
THEOREM NoDataIsRemoved == Spec => []DataIsSafe
<1>1. IInv => DataIsSafe
  BY DEF IInv, HostOK, DataIsSafe
<1> QED BY <1>1, InductiveInvariant, PTL

(* What NodeStageVolume and NodePublishVolume acknowledged is mounted, with  *)
(* the exceptions that AckedIsMounted names.                                 *)
THEOREM AckedVolumesAreMounted == Spec => []AckedIsMounted
<1>1. IInv => AckedIsMounted
  BY DEF IInv, MountsOK, AckedIsMounted
<1> QED BY <1>1, InductiveInvariant, PTL

(* What NodeUnstageVolume and NodeUnpublishVolume acknowledged is no mount   *)
(* point, and the volume's device and context file are gone as far as        *)
(* TornDown promises.                                                        *)
THEOREM UnstagedIsTornDown == Spec => []TornDown
<1>1. ASSUME IInv PROVE TornDown
  <2>1. ASSUME Tidy, staged = "unstaged" PROVE dev = "off" /\ stash = "none"
    <3>1. TidyOK /\ abandoned = {}
      BY <2>1, <1>1 DEF IInv, TidyOK
    <3>2. ~IsMountPoint(staging)
      BY <1>1, <2>1, <3>1 DEF IInv, MountsOK
    <3>3. \A t \in Workers : op[t] \notin {"stage", "unstage"}
      BY <1>1, <2>1, <3>1 DEF IInv, KubeletOK
    <3>4. \A t \in Workers : pc[t] \in Between
      BY <1>1, <3>3 DEF IInv, HandlersOK, TypeOK, Labels, Between
    <3> QED BY <2>1, <3>1, <3>2, <3>4 DEF TidyOK, Settled
  <2> QED BY <1>1, <2>1 DEF IInv, MountsOK, TornDown, Tidy
<1> QED BY <1>1, InductiveInvariant, PTL
=============================================================================

