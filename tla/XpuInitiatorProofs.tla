------------------------- MODULE XpuInitiatorProofs --------------------------
(* Proofs about XpuInitiator: functions are allocated to one volume at a     *)
(* time, the device that is mounted is the volume's, and nothing is left     *)
(* behind, for any volumes, any number of functions and any number of faults.*)
EXTENDS XpuInitiator, TLAPS

USE DEF handlers, host, history

Hw == type = "opi-nvme-hw"

(* Labels between taking phyIDLock and releasing it, and from Disconnect to  *)
(* the end                                                                   *)
Working == {"create", "cleanup", "bind", "detect"}
Leaving == {"disconnect", "teardown", "waitGone", "dropOk", "dropErr"}

(* v has a mount that no failed NodeStageVolume left behind.                 *)
InUse(v) == mounted[v] # None /\ v \notin orphans

(* What calls, labels and mounts have to do with each other, whatever failed.*)
Control(v) ==
  /\ op[v] = "none" <=> pc[v] = "idle"
  /\ op[v] = "stage" => staged[v] = "staging"
  /\ op[v] = "unstage" => staged[v] = "unstaging"
  /\ staged[v] = "staged" => mounted[v] # None
  /\ v \in orphans => mounted[v] # None
  /\ pc[v] \in Working \cup {"exists", "allocate", "save", "mount"} =>
       op[v] = "stage" /\ mounted[v] = None
  /\ pc[v] = "stash" =>
       op[v] = "stage" /\ mounted[v] = dev[v] /\ dev[v] # None /\ v \notin orphans
  /\ pc[v] = "unmount" => op[v] = "unstage" /\ mounted[v] # None
  /\ pc[v] \in Leaving /\ mounted[v] # None => op[v] = "stage" /\ v \in orphans
  /\ pc[v] = "ok" => (op[v] = "stage" <=> mounted[v] # None)
  /\ pc[v] = "exists" => type \in {"sma-nvme", "opi-nvme", "opi-nvme-hw"}
  /\ pc[v] = "allocate" => type # "sma-nvmftcp"
  /\ pc[v] = "bind" => ByCommand
  /\ pc[v] = "create" => at[v] <= Len(Creates)
  /\ pc[v] \in {"exists", "allocate"} => at[v] = 1 /\ names[v] = Stored(v).names
  /\ pc[v] = "exists" => path[v] = Stored(v).path
  /\ pc[v] \in {"idle", "exists"} => dev[v] = None
  /\ pc[v] \in {"save", "mount", "stash"} /\ dev[v] # None => path[v] = dev[v] /\ pf[v] = dev[v]
  /\ pc[v] \in {"mount", "stash"} =>
       Stored(v) = [names |-> names[v], path |-> path[v], pf |-> pf[v]]

(* phyIDLock is held from the allocation of a function until Connect is over.*)
Lock(v) ==
  /\ phyIDLock = v => type # "sma-nvmftcp" /\ pc[v] \in Working
  /\ pc[v] \in Working => IF type = "sma-nvmftcp" THEN pf[v] = v
                          ELSE phyIDLock = v /\ pf[v] \in Functions
  /\ pc[v] \in {"save", "mount", "stash", "disconnect"} /\ type = "sma-nvmftcp" => pf[v] = v

ControlOK == \A v \in Volumes : Control(v) /\ Lock(v)

(* Objects are of the kinds the backend creates, and on a slot if need be.   *)
Placed(v) ==
  /\ \A o \in objects[v] \cup names[v] \cup Stored(v).names :
       \E i \in 1..Len(Creates) : Creates[i] = o[1]
  /\ \A o \in objects[v] :
       IF o[1] \notin OnFunction THEN o[2] = None
       ELSE IF type = "sma-nvmftcp" THEN o[2] = v ELSE o[2] \in Functions

PlacedOK == \A v \in Volumes : Placed(v)

(* The xPU has one device on a slot.                                         *)
AloneOK == \A s \in Slots : \A v, w \in Occupants(s) : v = w

(* Kinds this Connect has dealt with, and kinds a deletion is still to reach *)
Before(v, k) == \E i \in 1..Len(Creates) : i < at[v] /\ Creates[i] = k
After(v, k) == \E i \in at[v]..Len(Deletes) : Deletes[i] = k

(* The handler knows the object; if it is creating it did so in this call,   *)
(* and if it is deleting the object's turn is still to come.                 *)
InHand(v, o) ==
  /\ o \in names[v]
  /\ pc[v] \in {"create", "bind", "detect"} => Before(v, o[1])
  /\ pc[v] \in {"cleanup", "teardown"} => After(v, o[1])

(* A block device is on the device the host shows; NVMe over TCP: it is on   *)
(* the slot of the volume.                                                   *)
BlockOK ==
  \A s \in Slots :
    /\ block[s] \in {None, sysfs[s]}
    /\ type = "sma-nvmftcp" => sysfs[s] \in {None, s}

(* The device of v that shows up on the function of its Connect is there, on *)
(* hardware not before it is bound; the last object to create is there when  *)
(* the wait begins, except that virtio-blk may wait for another one.         *)
ReadyOK ==
  \A v \in Volumes :
    /\ type # "sma-nvmftcp" /\ pc[v] \in {"create", "bind", "detect"} /\ sysfs[pf[v]] = v =>
         v \in Occupants(pf[v])
    /\ Hw /\ pc[v] \in {"create", "bind"} => sysfs[pf[v]] = None
    /\ ~VirtioBlk /\ pc[v] \in {"bind", "detect"} =>
         LET k == Creates[Len(Creates)] IN <<k, SlotFor(k, pf[v])>> \in objects[v]

(* No failure has spoilt the allocation of functions.                        *)
Sound == type # "sma-nvmftcp" /\ "objects" \notin left /\ (Hw => "context" \notin left)

(* The function of a Connect shows nobody else's device,                     *)
FunctionOK ==
  Sound => \A v \in Volumes : pc[v] \in Working => sysfs[pf[v]] \in {None, v}

(* and a device the host does not show is one that a handler is working on.  *)
ShownOK ==
  Sound => \A v \in Volumes : \A o \in objects[v] :
    o[1] \in OnFunction /\ sysfs[o[2]] # v =>
      /\ InHand(v, o)
      /\ (pc[v] \in Working /\ pf[v] = o[2]) \/ (Hw /\ pc[v] = "teardown")

(* The host shows the device of v on s, with the volume on it.               *)
Here(v, s) == s \in Slots /\ sysfs[s] = v /\ block[s] = v /\ Carries(s, v)

(* The exceptions of RightDevice; otherwise, what is in use or about to be is*)
(* there.                                                                    *)
Excepted == (VirtioBlk /\ left # {}) \/ (Hw /\ "context" \in left)

HereOK ==
  ~Excepted => \A v \in Volumes :
    /\ pc[v] \in {"save", "mount"} /\ dev[v] # None => Here(v, dev[v])
    /\ InUse(v) => Here(v, mounted[v])

(* Unless a removal failed, a context file goes with a mount or a handler,   *)
(* and a mount with a volume context.                                        *)
ContextOK ==
  "context" \notin left => \A v \in Volumes :
    /\ ctx[v] # None => InUse(v) \/ pc[v] \in Leaving \cup {"mount"}
    /\ InUse(v) /\ pc[v] # "stash" => v \in stashed

(* A devicePath p and a function f that are those of the device on s, or no p*)
Agree(p, f, s) == p = None \/ (p = s /\ f = s)

(* On hardware, unless a context file was left, Disconnect unbinds the       *)
(* function the volume's device is on, or none.                              *)
UnbindOK ==
  Hw /\ "context" \notin left => \A v \in Volumes :
    /\ pc[v] \in {"save", "mount"} /\ dev[v] = None => path[v] = None
    /\ InUse(v) => Agree(Stored(v).path, Stored(v).pf, mounted[v])
    /\ pc[v] = "disconnect" => path[v] = None \/ Here(v, pf[v])

(* While nothing was left behind, a handler knows all objects of its volume, *)
(* and between calls they go with a mount and a context file.                *)
Tidy(v) ==
  /\ pc[v] \in {"exists", "allocate", "waitGone", "dropOk", "dropErr"} => objects[v] = {}
  /\ pc[v] = "create" =>
       /\ \A o \in names[v] : Before(v, o[1])
       /\ \A i \in 1..Len(Creates) :
            i < at[v] => <<Creates[i], SlotFor(Creates[i], pf[v])>> \in objects[v]
  /\ pc[v] \in {"bind", "detect"} => Carries(pf[v], v)
  /\ pc[v] \in {"cleanup", "teardown"} => \A o \in names[v] : After(v, o[1])
  /\ pc[v] \in {"save", "mount", "stash", "disconnect"} => path[v] # None \/ objects[v] = {}
  /\ pc[v] \in Working \cup {"save", "mount", "stash", "disconnect", "teardown"} =>
       objects[v] \subseteq names[v]
  /\ pc[v] \in {"idle", "unmount", "ok", "err"} =>
       IF InUse(v) THEN objects[v] \subseteq Stored(v).names /\ Stored(v).path # None
       ELSE objects[v] = {}

TidyOK == left = {} => \A v \in Volumes : Tidy(v)

(* The inductive invariant *)
IInv ==
  /\ TypeOK /\ ControlOK /\ PlacedOK /\ AloneOK /\ BlockOK /\ ReadyOK /\ FunctionOK /\ ShownOK
  /\ HereOK /\ ContextOK /\ UnbindOK /\ TidyOK

-----------------------------------------------------------------------------
(* The operators.                                                            *)

(* What a backend deletes is what it creates, each kind once, and SMA        *)
(* creates first what it deletes last.  What NVMe creates last is tied to a  *)
(* slot with SMA only.                                                       *)
LEMMA Backends ==
  ASSUME TypeOK
  PROVE  /\ Len(Creates) \in Nat \ {0} /\ Len(Deletes) \in Nat \ {0}
         /\ \A i \in 1..Len(Creates) : Creates[i] \in Kinds
         /\ \A i, j \in 1..Len(Creates) : Creates[i] = Creates[j] => i = j
         /\ \A i \in 1..Len(Deletes) : Deletes[i] \in Kinds
         /\ \A i \in 1..Len(Creates) : \E j \in 1..Len(Deletes) : Deletes[j] = Creates[i]
         /\ Sma => Len(Creates) <= 2 /\ Deletes[Len(Deletes)] = Creates[1]
         /\ \E i \in 1..Len(Creates) : Creates[i] \in OnFunction
         /\ ~VirtioBlk => (Creates[Len(Creates)] \in OnFunction <=> Sma)
<1> USE DEF OnFunction, Kinds, Sma, VirtioBlk
<1>1. type \in AllTypes
  BY XpuAssumption DEF TypeOK
<1>2. CASE type \in {"sma-nvmftcp", "sma-nvme"}
  <2>1. Creates = <<"device", "attach">> /\ Deletes = <<"attach", "device">>
    BY <1>2 DEF Creates, Deletes, SmaNvmeConnect, SmaNvmeDisconnect
  <2> QED BY <1>2, <2>1
<1>3. CASE type = "sma-virtioblk"
  <2>1. Creates = <<"device">> /\ Deletes = <<"device">>
    BY <1>3 DEF Creates, Deletes, SmaVirtioBlkConnect, SmaVirtioBlkDisconnect
  <2> QED BY <1>3, <2>1
<1>4. CASE type = "opi-virtioblk"
  <2>1. Creates = <<"remote", "path", "blk">> /\ Deletes = <<"blk", "path", "remote">>
    BY <1>4 DEF Creates, Deletes, OpiVirtioBlkConnect, OpiVirtioBlkCleanup
  <2>2. /\ Deletes[1] = Creates[3] /\ Deletes[2] = Creates[2] /\ Deletes[3] = Creates[1]
        /\ Len(Creates) = 3 /\ Len(Deletes) = 3
    BY <2>1
  <2> QED BY <1>4, <2>1, <2>2
<1>5. CASE type \in {"opi-nvme", "opi-nvme-hw"}
  <2>1. /\ Creates = <<"subsystem", "controller", "remote", "path", "namespace">>
        /\ Deletes = <<"namespace", "path", "remote", "controller", "subsystem">>
    BY <1>5 DEF Creates, Deletes, OpiNvmeConnect, OpiNvmeCleanup
  <2>2. /\ Deletes[1] = Creates[5] /\ Deletes[2] = Creates[4] /\ Deletes[3] = Creates[3]
        /\ Deletes[4] = Creates[2] /\ Deletes[5] = Creates[1]
        /\ Len(Creates) = 5 /\ Len(Deletes) = 5
    BY <2>1
  <2>3. /\ \A i, j \in 1..Len(Creates) : Creates[i] = Creates[j] => i = j
        /\ \A i \in 1..Len(Creates) : \E j \in 1..Len(Deletes) : Deletes[j] = Creates[i]
    BY <2>1, <2>2
  <2>4. /\ \A i \in 1..Len(Creates) : Creates[i] \in Kinds
        /\ \A i \in 1..Len(Deletes) : Deletes[i] \in Kinds
    BY <2>1, <2>2
  <2> QED BY <1>5, <2>1, <2>2, <2>3, <2>4
<1> QED BY <1>1, <1>2, <1>3, <1>4, <1>5 DEF AllTypes

(* A step of the handler of v *)
Handles(v) == CallStage(v) \/ CallUnstage(v) \/ Step(v)

(* What belongs to w stays as it is. *)
Same(w) ==
  /\ pc'[w] = pc[w] /\ op'[w] = op[w] /\ at'[w] = at[w] /\ pf'[w] = pf[w]
  /\ names'[w] = names[w] /\ path'[w] = path[w] /\ dev'[w] = dev[w] /\ ctx'[w] = ctx[w]
  /\ mounted'[w] = mounted[w] /\ objects'[w] = objects[w] /\ staged'[w] = staged[w]
  /\ (w \in stashed' <=> w \in stashed) /\ (w \in orphans' <=> w \in orphans)

(* The target type does not change and failures are not forgotten.           *)
LEMMA Frame ==
  ASSUME TypeOK, [Next]_vars
  PROVE  /\ type' = type /\ Creates' = Creates /\ Deletes' = Deletes /\ Sma' = Sma
         /\ ByCommand' = ByCommand /\ VirtioBlk' = VirtioBlk /\ Hw' = Hw
         /\ left \subseteq left' /\ left' \subseteq {"objects", "context"}
<1>1. type' = type /\ left \subseteq left' /\ left' \subseteq {"objects", "context"}
  <2> USE DEF TypeOK, Fault, NoFault
  <2>1. ASSUME NEW v \in Volumes, Handles(v)
        PROVE  type' = type /\ left \subseteq left' /\ left' \subseteq {"objects", "context"}
    <3>1. CASE CallStage(v) BY <3>1 DEF CallStage
    <3>2. CASE CallUnstage(v) BY <3>2 DEF CallUnstage
    <3>3. CASE Exists(v) BY <3>3 DEF Exists
    <3>4. CASE Allocate(v) BY <3>4 DEF Allocate
    <3>5. CASE Create(v) BY <3>5 DEF Create
    <3>6. CASE Cleanup(v) BY <3>6 DEF Cleanup, Delete
    <3>7. CASE Bind(v) BY <3>7 DEF Bind
    <3>8. CASE Detect(v) BY <3>8 DEF Detect
    <3>9. CASE Save(v) BY <3>9 DEF Save
    <3>10. CASE Mount(v) BY <3>10 DEF Mount
    <3>11. CASE Unmount(v) BY <3>11 DEF Unmount
    <3>12. CASE Disconnect(v) BY <3>12 DEF Disconnect
    <3>13. CASE Teardown(v) BY <3>13 DEF Teardown, Delete
    <3>14. CASE WaitGone(v) BY <3>14 DEF WaitGone
    <3>15. CASE Drop(v) BY <3>15 DEF Drop
    <3>16. CASE Return(v) BY <3>16 DEF Return
    <3>17. CASE Stash(v) BY <3>17 DEF Stash
    <3> QED BY <2>1, <3>1, <3>2, <3>3, <3>4, <3>5, <3>6, <3>7, <3>8, <3>9, <3>10, <3>11,
               <3>12, <3>13, <3>14, <3>15, <3>16, <3>17 DEF Handles, Step
  <2>2. ASSUME NEW s \in Slots, HotPlug(s) PROVE type' = type /\ left' = left
    BY <2>2 DEF HotPlug
  <2>3. CASE Crash BY <2>3 DEF Crash
  <2>4. CASE UNCHANGED vars BY <2>4 DEF vars
  <2> QED BY <2>1, <2>2, <2>3, <2>4 DEF Next, Handles
<1> QED BY <1>1 DEF Creates, Deletes, Sma, ByCommand, VirtioBlk, Hw

(* A step of the handler of v leaves what belongs to another volume alone.   *)
LEMMA Others ==
  ASSUME TypeOK, NEW v \in Volumes, NEW w \in Volumes, v # w, Handles(v)
  PROVE  Same(w)
<1> USE DEF TypeOK, Same, Goto
<1>1. CASE CallStage(v) BY <1>1 DEF CallStage, NewInitiator
<1>2. CASE CallUnstage(v) BY <1>2 DEF CallUnstage
<1>3. CASE Exists(v) BY <1>3 DEF Exists
<1>4. CASE Allocate(v) BY <1>4 DEF Allocate
<1>5. CASE Create(v) BY <1>5 DEF Create, Undo
<1>6. CASE Cleanup(v) BY <1>6 DEF Cleanup, Delete
<1>7. CASE Bind(v) BY <1>7 DEF Bind
<1>8. CASE Detect(v) BY <1>8 DEF Detect
<1>9. CASE Save(v) BY <1>9 DEF Save
<1>10. CASE Mount(v) BY <1>10 DEF Mount
<1>11. CASE Unmount(v) BY <1>11 DEF Unmount, NewInitiator
<1>12. CASE Disconnect(v) BY <1>12 DEF Disconnect
<1>13. CASE Teardown(v) BY <1>13 DEF Teardown, Delete
<1>14. CASE WaitGone(v) BY <1>14 DEF WaitGone
<1>15. CASE Drop(v) BY <1>15 DEF Drop
<1>16. CASE Return(v) BY <1>16 DEF Return
<1>17. CASE Stash(v) BY <1>17 DEF Stash
<1> QED BY <1>1, <1>2, <1>3, <1>4, <1>5, <1>6, <1>7, <1>8, <1>9, <1>10, <1>11, <1>12, <1>13,
           <1>14, <1>15, <1>16, <1>17 DEF Handles, Step

(* What the context file says is a context.                                  *)
LEMMA StoredType ==
  ASSUME TypeOK, NEW v \in Volumes
  PROVE  Stored(v) \in Contexts
BY DEF TypeOK, Stored, Contexts, Slots

(* What a create makes or finds are objects of the kind asked for; what it   *)
(* makes is on the function allocated.                                       *)
LEMMA MadeType ==
  ASSUME TypeOK, NEW v \in Volumes, NEW k \in Kinds
  PROVE  /\ Made(v, k) \subseteq Objects
         /\ \A o \in Made(v, k) : o[1] = k /\ (o \in objects[v] \/ o = <<k, SlotFor(k, pf[v])>>)
         /\ ~Sma => {o \in objects[v] : o[1] = k} \subseteq Made(v, k)
<1>1. SlotFor(k, pf[v]) \in Slots \cup {None}
  BY DEF TypeOK, SlotFor
<1> QED BY <1>1 DEF TypeOK, Made, Objects

(* Type correctness.                                                         *)
LEMMA TypeInit == Init => TypeOK
BY XpuAssumption DEF Init, TypeOK, Labels, Slots

(* Every step keeps the types; creating needs that its index is one of the   *)
(* steps of the backend.                                                     *)
LEMMA TypeStep ==
  ASSUME TypeOK, ControlOK, [Next]_vars
  PROVE  TypeOK'
<1>1. ASSUME NEW v \in Volumes, Handles(v) PROVE TypeOK'
  <2> DEFINE HistoryOK == left' \subseteq {"objects", "context"} /\ faults' \in 0..MaxFaults
  <2> USE DEF TypeOK, Goto, Labels, Release
  <2>0. /\ at[v] \in Nat \ {0}
        /\ NoFault => HistoryOK
        /\ Fault({}) => HistoryOK
        /\ Fault({"objects"}) => HistoryOK
        /\ Fault({"context"}) => HistoryOK
    <3>1. left \subseteq {"objects", "context"} /\ faults \in 0..MaxFaults /\ MaxFaults \in Nat
      BY XpuAssumption
    <3>2. faults < MaxFaults => faults + 1 \in 0..MaxFaults
      BY <3>1
    <3> QED BY <3>1, <3>2 DEF Fault, NoFault
  <2>1. CASE CallStage(v)
    <3>1. /\ Stored(v) \in Contexts
          /\ (IF type = "sma-nvmftcp" THEN v ELSE Stored(v).pf) \in Slots \cup {None}
      BY StoredType DEF Contexts, Slots
    <3> QED BY <2>1, <3>1 DEF CallStage, NewInitiator, Contexts
  <2>2. CASE CallUnstage(v) BY <2>2 DEF CallUnstage
  <2>3. CASE Exists(v) BY <2>3 DEF Exists, Found
  <2>4. CASE Allocate(v) BY <2>4 DEF Allocate, FirstFree, Free, Slots
  <2>5. CASE Create(v)
    <3> DEFINE k == Creates[at[v]]
    <3>1. k \in Kinds /\ Len(Deletes) \in Nat \ {0}
      BY <2>0, <2>5, Backends DEF Create, ControlOK, Control
    <3>2. Made(v, k) \subseteq Objects BY <3>1, MadeType
    <3> HIDE DEF k
    <3>3. objects' \in [Volumes -> SUBSET Objects] /\ names' \in [Volumes -> SUBSET Objects]
      <4>1. \/ objects' = objects
            \/ objects' = [objects EXCEPT ![v] = @ \cup Made(v, k)]
        BY <2>5 DEF Create, k
      <4>2. \/ names' = names
            \/ names' = [names EXCEPT ![v] = (@ \ Known(v, k)) \cup Made(v, k)]
        BY <2>5 DEF Create, Undo, k
      <4>3. objects' \in [Volumes -> SUBSET Objects] BY <3>2, <4>1
      <4>4. names' \in [Volumes -> SUBSET Objects] BY <3>2, <4>2
      <4> QED BY <4>3, <4>4
    <3>4. at' \in [Volumes -> Nat \ {0}]
      BY <2>0, <2>5, <3>1 DEF Create, Undo
    <3>5. /\ pc' \in [Volumes -> Labels] /\ phyIDLock' \in Volumes \cup {None}
          /\ HistoryOK
      BY <2>0, <2>5 DEF Create, Undo
    <3> QED BY <2>5, <3>3, <3>4, <3>5 DEF Create
  <2>6. ASSUME NEW done \in Labels, NEW bad \in Labels, Delete(v, done, bad),
               phyIDLock' \in Volumes \cup {None}
        PROVE TypeOK'
    <3>1. at' \in [Volumes -> Nat \ {0}]
      BY <2>0, <2>6, Backends DEF Delete, Pending
    <3>2. objects' \in [Volumes -> SUBSET Objects] /\ names' \in [Volumes -> SUBSET Objects]
      BY <2>6 DEF Delete
    <3>3. /\ pc' \in [Volumes -> Labels]
          /\ HistoryOK
      BY <2>0, <2>6 DEF Delete
    <3> QED BY <2>6, <3>1, <3>2, <3>3 DEF Delete
  <2>7. CASE Cleanup(v) BY <2>6, <2>7 DEF Cleanup
  <2>8. CASE Teardown(v) BY <2>6, <2>8 DEF Teardown
  <2>9. CASE Bind(v) BY <2>0, <2>9 DEF Bind, Occupants
  <2>10. CASE Detect(v) BY <2>0, <2>10 DEF Detect
  <2>11. CASE Save(v) BY <2>0, <2>11 DEF Save, Contexts
  <2>12. CASE Mount(v) BY <2>0, <2>12 DEF Mount
  <2>13. CASE Unmount(v)
    <3>1. /\ Stored(v) \in Contexts
          /\ (IF type = "sma-nvmftcp" THEN v ELSE Stored(v).pf) \in Slots \cup {None}
      BY StoredType DEF Contexts, Slots
    <3>2. {stashed', orphans'} \subseteq SUBSET Volumes BY <2>13 DEF Unmount
    <3>3. \A s \in {pf', path', dev', mounted'} : s \in [Volumes -> Slots \cup {None}]
      BY <2>13, <3>1 DEF Unmount, NewInitiator, Contexts
    <3>4. names' \in [Volumes -> SUBSET Objects] /\ pc' \in [Volumes -> Labels]
      BY <2>13, <3>1 DEF Unmount, NewInitiator, Contexts
    <3>5. UNCHANGED <<type, op, at, phyIDLock, ctx, sysfs, block, objects, staged>>
      BY <2>13 DEF Unmount
    <3>6. HistoryOK BY <2>0, <2>13 DEF Unmount
    <3> QED BY <3>2, <3>3, <3>4, <3>5, <3>6
  <2>14. CASE Disconnect(v) BY <2>0, <2>14 DEF Disconnect, Unplug
  <2>15. CASE WaitGone(v) BY <2>0, <2>15 DEF WaitGone
  <2>16. CASE Drop(v) BY <2>0, <2>16 DEF Drop
  <2>17. CASE Return(v) BY <2>17 DEF Return
  <2>18. CASE Stash(v) BY <2>0, <2>18 DEF Stash
  <2> QED BY <1>1, <2>1, <2>2, <2>3, <2>4, <2>5, <2>7, <2>8, <2>9, <2>10, <2>11, <2>12, <2>13,
             <2>14, <2>15, <2>16, <2>17, <2>18 DEF Handles, Step
<1>2. ASSUME NEW s \in Slots, HotPlug(s) PROVE TypeOK'
  BY <1>2 DEF TypeOK, HotPlug, Occupants, Unplug
<1>3. CASE Crash
  BY <1>3, XpuAssumption DEF TypeOK, Crash, Fault, Labels
<1>4. CASE UNCHANGED vars
  BY <1>4 DEF TypeOK, vars
<1> QED BY <1>1, <1>2, <1>3, <1>4 DEF Next, Handles

(* A handler takes phyIDLock if it is free and releases only its own.        *)
LEMMA LockSteps ==
  ASSUME TypeOK, NEW v \in Volumes, Handles(v)
  PROVE  \/ phyIDLock' = phyIDLock
         \/ phyIDLock = v /\ phyIDLock' = None
         \/ phyIDLock = None /\ phyIDLock' = v
<1> USE DEF Release
<1>1. CASE CallStage(v) BY <1>1 DEF CallStage
<1>2. CASE CallUnstage(v) BY <1>2 DEF CallUnstage
<1>3. CASE Exists(v) BY <1>3 DEF Exists
<1>4. CASE Allocate(v) BY <1>4 DEF Allocate
<1>5. CASE Create(v) BY <1>5 DEF Create, Undo
<1>6. CASE Cleanup(v) BY <1>6 DEF Cleanup
<1>7. CASE Bind(v) BY <1>7 DEF Bind
<1>8. CASE Detect(v) BY <1>8 DEF Detect
<1>9. CASE Save(v) BY <1>9 DEF Save
<1>10. CASE Mount(v) BY <1>10 DEF Mount
<1>11. CASE Unmount(v) BY <1>11 DEF Unmount
<1>12. CASE Disconnect(v) BY <1>12 DEF Disconnect
<1>13. CASE Teardown(v) BY <1>13 DEF Teardown
<1>14. CASE WaitGone(v) BY <1>14 DEF WaitGone
<1>15. CASE Drop(v) BY <1>15 DEF Drop
<1>16. CASE Return(v) BY <1>16 DEF Return
<1>17. CASE Stash(v) BY <1>17 DEF Stash
<1> QED BY <1>1, <1>2, <1>3, <1>4, <1>5, <1>6, <1>7, <1>8, <1>9, <1>10, <1>11, <1>12, <1>13,
           <1>14, <1>15, <1>16, <1>17 DEF Handles, Step

(* Initially no handler runs and phyIDLock is free.                          *)
LEMMA ControlInit == Init => ControlOK
<1> SUFFICES ASSUME Init, NEW v \in Volumes PROVE Control(v) /\ Lock(v)
  BY DEF ControlOK
<1>1. /\ pc[v] = "idle" /\ op[v] = "none" /\ staged[v] = "unstaged"
      /\ mounted[v] = None /\ dev[v] = None /\ phyIDLock # v /\ v \notin orphans
  BY XpuAssumption DEF Init, Slots
<1> QED BY <1>1 DEF Control, Lock, Working, Leaving

(* Calls, labels and phyIDLock stay consistent.                              *)
LEMMA ControlStep ==
  ASSUME TypeOK, ControlOK, [Next]_vars
  PROVE  ControlOK'
<1>0. /\ type' = type /\ Creates' = Creates /\ ByCommand' = ByCommand
      /\ None \notin Slots /\ None \notin Volumes /\ None \notin Contexts
  BY Frame, XpuAssumption DEF Slots
<1>a. ASSUME \A w \in Volumes : Same(w), phyIDLock' = phyIDLock PROVE ControlOK'
  <2> SUFFICES ASSUME NEW w \in Volumes PROVE Control(w)' /\ Lock(w)'
    BY DEF ControlOK
  <2>1. Same(w) /\ Control(w) /\ Lock(w) BY <1>a DEF ControlOK
  <2>2. Stored(w)' = Stored(w) BY <2>1 DEF Same, Stored
  <2> QED BY <1>0, <1>a, <2>1, <2>2 DEF Same, Control, Lock
<1>1. ASSUME NEW v \in Volumes, Handles(v), NEW w \in Volumes, w # v
      PROVE  Control(w)' /\ Lock(w)'
  <2>1. Same(w) /\ Control(w) /\ Lock(w) BY <1>1, Others DEF ControlOK
  <2>2. Stored(w)' = Stored(w) BY <2>1 DEF Same, Stored
  <2>3. Control(w)' BY <1>0, <2>1, <2>2 DEF Same, Control
  <2>4. Lock(w)' BY <1>0, <1>1, <2>1, LockSteps DEF Same, Lock
  <2> QED BY <2>3, <2>4
<1>2. ASSUME NEW v \in Volumes, Handles(v) PROVE Control(v)' /\ Lock(v)'
  <2>0. /\ Control(v) /\ Lock(v) /\ Stored(v) \in Contexts
        /\ Len(Creates) \in Nat \ {0} /\ at[v] \in Nat \ {0}
    BY Backends, StoredType DEF ControlOK, TypeOK
  <2>s. ctx' = ctx => Stored(v)' = Stored(v)
    BY DEF Stored
  <2> USE <1>0, <2>0, <2>s DEF TypeOK, Goto, Release, Working, Leaving
  <2>1. CASE CallStage(v)
    <3>1. Control(v)'
      <4>1. /\ op'[v] = "stage" /\ staged'[v] = "staging" /\ mounted'[v] = mounted[v]
            /\ dev'[v] = dev[v] /\ orphans' = orphans /\ pc[v] = "idle"
            /\ pc'[v] \in {"ok", "exists", "allocate", "create"}
            /\ pc'[v] = "ok" <=> mounted[v] # None
            /\ pc'[v] = "exists" => type # "sma-nvmftcp" /\ ~VirtioBlk
            /\ pc'[v] = "allocate" => type # "sma-nvmftcp"
            /\ pc'[v] # "ok" =>
                 /\ at'[v] = 1 /\ names'[v] = Stored(v)'.names /\ path'[v] = Stored(v)'.path
        BY <2>1 DEF CallStage, NewInitiator
      <4>2. type \in AllTypes BY XpuAssumption
      <4> QED BY <4>1, <4>2 DEF Control, VirtioBlk, AllTypes
    <3>2. Lock(v)' BY <2>1 DEF CallStage, NewInitiator, Control, Lock, VirtioBlk
    <3> QED BY <3>1, <3>2
  <2>2. CASE CallUnstage(v) BY <2>2 DEF CallUnstage, Control, Lock
  <2>3. CASE Exists(v) BY <2>3 DEF Exists, Found, Control, Lock
  <2>4. CASE Allocate(v) BY <2>4 DEF Allocate, FirstFree, Free, Control, Lock
  <2>5. CASE Create(v)
    <3>1. Control(v)' BY <2>5 DEF Create, Undo, Control
    <3>2. Lock(v)' BY <2>5 DEF Create, Undo, Control, Lock, ByCommand
    <3> QED BY <3>1, <3>2
  <2>6. CASE Cleanup(v)
    <3>1. pc'[v] \in {"cleanup", "err"} BY <2>6 DEF Cleanup, Delete
    <3>2. Control(v)' BY <2>6, <3>1 DEF Cleanup, Delete, Control
    <3>3. Lock(v)' BY <2>6, <3>1 DEF Cleanup, Delete, Lock
    <3> QED BY <3>2, <3>3
  <2>7. CASE Bind(v)
    <3>1. Control(v)' BY <2>7 DEF Bind, Control
    <3>2. Lock(v)' BY <2>7 DEF Bind, Lock
    <3> QED BY <3>1, <3>2
  <2>8. CASE Detect(v)
    <3>1. Control(v)' BY <2>8 DEF Detect, Control, Lock, Slots
    <3>2. Lock(v)' BY <2>8 DEF Detect, Lock
    <3> QED BY <3>1, <3>2
  <2>9. CASE Save(v)
    <3> DEFINE file == [names |-> names[v], path |-> path[v], pf |-> pf[v]]
    <3>1. file # None BY DEF Contexts
    <3>2. pc'[v] = "mount" => Stored(v)' = file BY <2>9, <3>1 DEF Save, Stored
    <3> HIDE DEF file
    <3>3. /\ pc'[v] \in {"mount", "err"}
          /\ UNCHANGED <<op, at, pf, names, path, phyIDLock, mounted, staged>>
      BY <2>9 DEF Save
    <3>4. Control(v)' BY <2>9, <3>2, <3>3 DEF Save, Control, file
    <3>5. Lock(v)' BY <2>9, <3>3 DEF Save, Lock
    <3> QED BY <3>4, <3>5
  <2>10. CASE Mount(v)
    <3>1. \/ pc'[v] = "stash" /\ mounted'[v] = dev[v] /\ dev[v] # None
          \/ pc'[v] = "disconnect" /\ mounted'[v] = mounted[v]
      BY <2>10 DEF Mount
    <3> QED BY <2>10, <3>1 DEF Mount, Control, Lock
  <2>11. CASE Unmount(v) BY <2>11 DEF Unmount, NewInitiator, Control, Lock
  <2>12. CASE Disconnect(v) BY <2>12 DEF Disconnect, Control, Lock
  <2>13. CASE Teardown(v)
    <3>1. pc'[v] \in {"teardown", "dropOk", "dropErr", "waitGone"} BY <2>13 DEF Teardown, Delete
    <3>2. Control(v)' BY <2>13, <3>1 DEF Teardown, Delete, Control
    <3>3. Lock(v)' BY <2>13, <3>1 DEF Teardown, Delete, Lock
    <3> QED BY <3>2, <3>3
  <2>14. CASE WaitGone(v) BY <2>14 DEF WaitGone, Control, Lock
  <2>15. CASE Drop(v) BY <2>15 DEF Drop, Control, Lock
  <2>16. CASE Return(v) BY <2>16 DEF Return, Control, Lock
  <2>17. CASE Stash(v) BY <2>17 DEF Stash, Control, Lock
  <2> QED BY <1>2, <2>1, <2>2, <2>3, <2>4, <2>5, <2>6, <2>7, <2>8, <2>9, <2>10, <2>11, <2>12,
             <2>13, <2>14, <2>15, <2>16, <2>17 DEF Handles, Step
<1>3. ASSUME NEW s \in Slots, HotPlug(s) PROVE ControlOK'
  <2>1. UNCHANGED <<pc, op, at, pf, names, path, dev, phyIDLock, ctx, stashed, mounted, staged,
                    objects, orphans>>
    BY <1>3 DEF HotPlug
  <2> QED BY <1>a, <2>1 DEF Same, TypeOK
<1>4. CASE Crash
  BY <1>0, <1>4 DEF Crash, ControlOK, Control, Lock, Working, Leaving, TypeOK
<1>5. CASE UNCHANGED vars
  <2>1. UNCHANGED <<pc, op, at, pf, names, path, dev, phyIDLock, ctx, stashed, mounted, staged,
                    objects, orphans>>
    BY <1>5 DEF vars
  <2> QED BY <1>a, <2>1 DEF Same, TypeOK
<1> QED BY <1>1, <1>2, <1>3, <1>4, <1>5 DEF Next, Handles, ControlOK

-----------------------------------------------------------------------------
(* The objects of a volume.                                                  *)

(* Initially there are no objects.                                           *)
LEMMA PlacedInit == Init => PlacedOK
<1> SUFFICES ASSUME Init, NEW v \in Volumes PROVE Placed(v)
  BY DEF PlacedOK
<1>1. objects[v] = {} /\ names[v] = {} /\ ctx[v] = None
  BY DEF Init
<1>2. Stored(v).names = {}
  BY <1>1 DEF Stored
<1> QED BY <1>1, <1>2 DEF Placed

(* Objects are made on the function the handler has.                         *)
LEMMA PlacedStep ==
  ASSUME TypeOK, ControlOK, PlacedOK, [Next]_vars
  PROVE  PlacedOK'
<1> DEFINE Kind(o) == \E i \in 1..Len(Creates) : Creates[i] = o[1]
           Sits(v, o) == IF o[1] \notin OnFunction THEN o[2] = None
                         ELSE IF type = "sma-nvmftcp" THEN o[2] = v ELSE o[2] \in Functions
<1>0. type' = type /\ Creates' = Creates BY Frame
<1>a. ASSUME NEW w \in Volumes, Same(w) PROVE Placed(w)'
  <2>1. Stored(w)' = Stored(w) BY <1>a DEF Same, Stored
  <2> QED BY <1>0, <1>a, <2>1 DEF Same, PlacedOK, Placed
<1>b. ASSUME NEW v \in Volumes, objects'[v] \subseteq objects[v],
             names'[v] \subseteq names[v] \cup Stored(v).names,
             Stored(v)'.names \subseteq names[v] \cup Stored(v).names
      PROVE Placed(v)'
  BY <1>0, <1>b DEF PlacedOK, Placed
<1>1. ASSUME NEW v \in Volumes, Handles(v) PROVE Placed(v)'
  <2>s. ctx'[v] = ctx[v] => Stored(v)' = Stored(v)
    BY DEF Stored
  <2>n. ctx'[v] = None => Stored(v)'.names = {}
    BY DEF Stored
  <2> USE <2>s DEF TypeOK
  <2>1. CASE CallStage(v) BY <1>b, <2>1 DEF CallStage, NewInitiator
  <2>2. CASE CallUnstage(v) BY <1>b, <2>2 DEF CallUnstage
  <2>3. CASE Exists(v) BY <1>b, <2>3 DEF Exists
  <2>4. CASE Allocate(v) BY <1>b, <2>4 DEF Allocate
  <2>5. CASE Create(v)
    <3> DEFINE k == Creates[at[v]]
    <3>1. at[v] \in 1..Len(Creates) /\ k \in Kinds
      BY <2>5, Backends DEF Create, ControlOK, Control
    <3>2. \A o \in Made(v, k) : Kind(o) /\ (Sits(v, o) \/ o \in objects[v])
      <4> SUFFICES ASSUME NEW o \in Made(v, k) PROVE Kind(o) /\ (Sits(v, o) \/ o \in objects[v])
        OBVIOUS
      <4>1. o[1] = k /\ (o \in objects[v] \/ o = <<k, SlotFor(k, pf[v])>>)
        BY <3>1, MadeType
      <4>2. IF type = "sma-nvmftcp" THEN pf[v] = v ELSE pf[v] \in Functions
        BY <2>5 DEF Create, ControlOK, Lock, Working
      <4> QED BY <3>1, <4>1, <4>2 DEF SlotFor
    <3>3. \/ objects'[v] = objects[v]
          \/ objects'[v] = objects[v] \cup Made(v, k)
      BY <2>5 DEF Create
    <3>4. \/ names'[v] = names[v]
          \/ names'[v] = (names[v] \ Known(v, k)) \cup Made(v, k)
      BY <2>5 DEF Create, Undo
    <3>5. Stored(v)' = Stored(v) BY <2>5 DEF Create
    <3>6. Placed(v) BY DEF PlacedOK
    <3> HIDE DEF k
    <3> QED BY <1>0, <3>2, <3>3, <3>4, <3>5, <3>6 DEF Placed
  <2>6. ASSUME NEW done, NEW bad, Delete(v, done, bad) PROVE Placed(v)'
    BY <1>b, <2>6 DEF Delete
  <2>7. CASE Cleanup(v) BY <2>6, <2>7 DEF Cleanup
  <2>8. CASE Teardown(v) BY <2>6, <2>8 DEF Teardown
  <2>9. CASE Bind(v) BY <1>b, <2>9 DEF Bind
  <2>10. CASE Detect(v) BY <1>b, <2>10 DEF Detect
  <2>11. CASE Save(v)
    <3> DEFINE file == [names |-> names[v], path |-> path[v], pf |-> pf[v]]
    <3>1. file # None BY XpuAssumption DEF Contexts
    <3>2. ctx'[v] = file \/ ctx'[v] = ctx[v] \/ ctx'[v] = None BY <2>11 DEF Save
    <3>3. ctx'[v] = file => Stored(v)'.names = names[v] BY <3>1 DEF Stored
    <3> QED BY <1>b, <2>n, <2>11, <3>2, <3>3 DEF Save
  <2>12. CASE Mount(v) BY <1>b, <2>12 DEF Mount
  <2>13. CASE Unmount(v) BY <1>b, <2>13 DEF Unmount, NewInitiator
  <2>14. CASE Disconnect(v) BY <1>b, <2>14 DEF Disconnect
  <2>15. CASE WaitGone(v) BY <1>b, <2>15 DEF WaitGone
  <2>16. CASE Drop(v) BY <1>b, <2>n, <2>16 DEF Drop
  <2>17. CASE Return(v) BY <1>b, <2>17 DEF Return
  <2>18. CASE Stash(v) BY <1>b, <2>18 DEF Stash
  <2> QED BY <1>1, <2>1, <2>2, <2>3, <2>4, <2>5, <2>7, <2>8, <2>9, <2>10, <2>11, <2>12,
             <2>13, <2>14, <2>15, <2>16, <2>17, <2>18 DEF Handles, Step
<1>2. ASSUME NEW s \in Slots, HotPlug(s), NEW v \in Volumes PROVE Placed(v)'
  <2>1. Same(v) BY <1>2 DEF HotPlug, Same
  <2> QED BY <1>a, <2>1
<1>3. ASSUME Crash, NEW v \in Volumes PROVE Placed(v)'
  <2>1. names'[v] = {} /\ objects'[v] = objects[v] /\ ctx'[v] = ctx[v] BY <1>3 DEF Crash
  <2>2. Stored(v)' = Stored(v) BY <2>1 DEF Stored
  <2> QED BY <1>b, <2>1, <2>2
<1>4. ASSUME UNCHANGED vars, NEW v \in Volumes PROVE Placed(v)'
  <2>1. Same(v) BY <1>4 DEF vars, Same
  <2> QED BY <1>a, <2>1
<1>5. ASSUME NEW v \in Volumes, Handles(v), NEW w \in Volumes, w # v PROVE Placed(w)'
  BY <1>a, <1>5, Others
<1> QED BY <1>1, <1>2, <1>3, <1>4, <1>5 DEF Next, Handles, PlacedOK

(* Initially the xPU has no devices.                                         *)
LEMMA AloneInit == Init => AloneOK
BY DEF Init, AloneOK, Occupants

(* The xPU does not create a device where another volume has one.            *)
LEMMA AloneStep ==
  ASSUME TypeOK, ControlOK, PlacedOK, AloneOK, [Next]_vars
  PROVE  AloneOK'
<1>a. ASSUME \A v \in Volumes : objects'[v] \subseteq objects[v] PROVE AloneOK'
  <2>1. \A s \in Slots : Occupants(s)' \subseteq Occupants(s) BY <1>a DEF Occupants
  <2> QED BY <2>1 DEF AloneOK
<1>1. ASSUME NEW v \in Volumes, Handles(v), ~Create(v) PROVE AloneOK'
  <2> USE DEF TypeOK
  <2>0. \A w \in Volumes : w # v => objects'[w] = objects[w]
    BY <1>1, Others DEF Same
  <2>1. CASE CallStage(v) BY <1>a, <2>1 DEF CallStage
  <2>2. CASE CallUnstage(v) BY <1>a, <2>2 DEF CallUnstage
  <2>3. CASE Exists(v) BY <1>a, <2>3 DEF Exists
  <2>4. CASE Allocate(v) BY <1>a, <2>4 DEF Allocate
  <2>5. CASE Cleanup(v) BY <1>a, <2>0, <2>5 DEF Cleanup, Delete
  <2>6. CASE Bind(v) BY <1>a, <2>6 DEF Bind
  <2>7. CASE Detect(v) BY <1>a, <2>7 DEF Detect
  <2>8. CASE Save(v) BY <1>a, <2>8 DEF Save
  <2>9. CASE Mount(v) BY <1>a, <2>9 DEF Mount
  <2>10. CASE Unmount(v) BY <1>a, <2>10 DEF Unmount
  <2>11. CASE Disconnect(v) BY <1>a, <2>11 DEF Disconnect
  <2>12. CASE Teardown(v) BY <1>a, <2>0, <2>12 DEF Teardown, Delete
  <2>13. CASE WaitGone(v) BY <1>a, <2>13 DEF WaitGone
  <2>14. CASE Drop(v) BY <1>a, <2>14 DEF Drop
  <2>15. CASE Return(v) BY <1>a, <2>15 DEF Return
  <2>16. CASE Stash(v) BY <1>a, <2>16 DEF Stash
  <2> QED BY <1>1, <2>1, <2>2, <2>3, <2>4, <2>5, <2>6, <2>7, <2>8, <2>9, <2>10, <2>11, <2>12,
             <2>13, <2>14, <2>15, <2>16 DEF Handles, Step
<1>2. ASSUME NEW v \in Volumes, Create(v) PROVE AloneOK'
  <2> DEFINE k == Creates[at[v]]
  <2>1. k \in Kinds BY <1>2, Backends DEF Create, ControlOK, Control, TypeOK
  <2>2. \A o \in Made(v, k) : o[1] = k /\ (o \in objects[v] \/ o = <<k, SlotFor(k, pf[v])>>)
    BY <2>1, MadeType
  <2>3. \A w \in Volumes : w # v => objects'[w] = objects[w] BY <1>2, Others DEF Same, Handles, Step
  <2>4. objects'[v] = objects[v] \/ (~Refuses(v, k) /\ objects'[v] = objects[v] \cup Made(v, k))
    BY <1>2 DEF Create, TypeOK
  <2>5. ASSUME NEW s \in Slots, v \in Occupants(s)', v \notin Occupants(s)
        PROVE  Occupants(s) \ {v} = {}
    <3>1. PICK kk \in OnFunction : <<kk, s>> \in objects'[v] BY <2>5 DEF Occupants
    <3>2. <<kk, s>> \notin objects[v] BY <2>5 DEF Occupants
    <3>3. ~Refuses(v, k) /\ <<kk, s>> \in Made(v, k) BY <2>4, <3>1, <3>2
    <3>4. kk = k /\ <<k, s>> = <<k, SlotFor(k, pf[v])>>
      <4>1. <<kk, s>>[1] = kk /\ <<kk, s>>[2] = s OBVIOUS
      <4>2. <<kk, s>>[1] = k BY <2>2, <3>3
      <4> QED BY <2>2, <3>2, <3>3, <4>1, <4>2
    <3>5. s = pf[v]
      <4>1. <<k, s>>[2] = <<k, SlotFor(k, pf[v])>>[2] BY <3>4
      <4>2. s = SlotFor(k, pf[v]) BY <4>1
      <4> QED BY <3>1, <3>4, <4>2 DEF SlotFor
    <3>6. Made(v, k) \cap objects[v] = {}
      <4>1. Made(v, k) = {<<k, SlotFor(k, pf[v])>>} BY <3>2, <3>3 DEF Made
      <4> QED BY <3>2, <3>4, <4>1
    <3> QED BY <3>1, <3>3, <3>4, <3>5, <3>6 DEF Refuses
  <2>6. \A s \in Slots : \A w \in Occupants(s)' : w \in Occupants(s) \/ w = v
    BY <2>3 DEF Occupants
  <2> QED BY <2>5, <2>6 DEF AloneOK
<1>3. ASSUME NEW s \in Slots, HotPlug(s) PROVE AloneOK' BY <1>a, <1>3 DEF HotPlug
<1>4. CASE Crash BY <1>a, <1>4 DEF Crash
<1>5. CASE UNCHANGED vars BY <1>a, <1>5 DEF vars
<1> QED BY <1>1, <1>2, <1>3, <1>4, <1>5 DEF Next, Handles

-----------------------------------------------------------------------------
(* What the host shows.                                                      *)

(* Handlers touch sysfs only when they bind or unbind the function they have.*)
LEMMA SysfsSteps ==
  ASSUME TypeOK, NEW v \in Volumes, Handles(v)
  PROVE  \/ sysfs' = sysfs /\ block' = block
         \/ /\ Bind(v) /\ block' = block
            /\ \E w \in Occupants(pf[v]) : sysfs' = [sysfs EXCEPT ![pf[v]] = w]
         \/ /\ Disconnect(v) /\ ByCommand /\ (type = "sma-nvmftcp" \/ path[v] # None)
            /\ Unplug(pf[v])
<1>1. CASE CallStage(v) BY <1>1 DEF CallStage
<1>2. CASE CallUnstage(v) BY <1>2 DEF CallUnstage
<1>3. CASE Exists(v) BY <1>3 DEF Exists
<1>4. CASE Allocate(v) BY <1>4 DEF Allocate
<1>5. CASE Create(v) BY <1>5 DEF Create
<1>6. CASE Cleanup(v) BY <1>6 DEF Cleanup, Delete
<1>7. CASE Bind(v) BY <1>7 DEF Bind
<1>8. CASE Detect(v) BY <1>8 DEF Detect
<1>9. CASE Save(v) BY <1>9 DEF Save
<1>10. CASE Mount(v) BY <1>10 DEF Mount
<1>11. CASE Unmount(v) BY <1>11 DEF Unmount
<1>12. CASE Disconnect(v) BY <1>12 DEF Disconnect, ByCommand
<1>13. CASE Teardown(v) BY <1>13 DEF Teardown, Delete
<1>14. CASE WaitGone(v) BY <1>14 DEF WaitGone
<1>15. CASE Drop(v) BY <1>15 DEF Drop
<1>16. CASE Return(v) BY <1>16 DEF Return
<1>17. CASE Stash(v) BY <1>17 DEF Stash
<1> QED BY <1>1, <1>2, <1>3, <1>4, <1>5, <1>6, <1>7, <1>8, <1>9, <1>10, <1>11, <1>12, <1>13,
           <1>14, <1>15, <1>16, <1>17 DEF Handles, Step

(* Initially the host shows no device.                                       *)
LEMMA BlockInit == Init => BlockOK
BY DEF Init, BlockOK

(* A block device comes after its device and goes with it; over TCP a device *)
(* shows up on the slot of its volume.                                       *)
LEMMA BlockStep ==
  ASSUME TypeOK, ControlOK, PlacedOK, BlockOK, ReadyOK, [Next]_vars
  PROVE  BlockOK'
<1>0. /\ type' = type /\ None \notin Volumes
      /\ Functions \subseteq Slots /\ Volumes \subseteq Slots
  BY Frame, XpuAssumption DEF Slots
<1> DEFINE Good(s) == /\ block[s] \in {None, sysfs[s]}
                      /\ type = "sma-nvmftcp" => sysfs[s] \in {None, s}
<1> SUFFICES ASSUME NEW s \in Slots PROVE Good(s)'
  BY DEF BlockOK
<1>1. Good(s) BY DEF BlockOK
<1>2. ASSUME NEW v \in Volumes, Handles(v) PROVE Good(s)'
  <2>1. CASE sysfs' = sysfs /\ block' = block BY <1>0, <1>1, <2>1
  <2>2. ASSUME Bind(v), block' = block,
               NEW w \in Occupants(pf[v]), sysfs' = [sysfs EXCEPT ![pf[v]] = w]
        PROVE  Good(s)'
    <3>1. pc[v] = "bind" /\ ByCommand BY <2>2 DEF Bind, ControlOK, Control
    <3>2. CASE type = "sma-nvmftcp"
      <4>1. pf[v] = v BY <3>1, <3>2 DEF ControlOK, Lock, Working
      <4>2. PICK k \in OnFunction : w \in Volumes /\ <<k, v>> \in objects[w]
        BY <2>2, <4>1 DEF Occupants
      <4>3. <<k, v>>[1] = k /\ <<k, v>>[2] = v OBVIOUS
      <4>4. w = v BY <3>2, <4>2, <4>3 DEF PlacedOK, Placed
      <4> QED BY <1>0, <1>1, <2>2, <3>2, <4>1, <4>4 DEF TypeOK
    <3>3. CASE type # "sma-nvmftcp"
      <4>1. Hw BY <3>1, <3>3 DEF ByCommand, Hw
      <4>2. sysfs[pf[v]] = None BY <3>1, <4>1 DEF ReadyOK
      <4> QED BY <1>0, <1>1, <2>2, <3>3, <4>2 DEF TypeOK
    <3> QED BY <3>2, <3>3
  <2>3. CASE Unplug(pf[v]) BY <1>0, <1>1, <2>3 DEF Unplug, TypeOK
  <2> QED BY <1>2, <2>1, <2>2, <2>3, SysfsSteps
<1>3. ASSUME NEW x \in Slots, HotPlug(x) PROVE Good(s)'
  BY <1>0, <1>1, <1>3 DEF HotPlug, Unplug, TypeOK, ByCommand
<1>4. CASE Crash BY <1>0, <1>1, <1>4 DEF Crash
<1>5. CASE UNCHANGED vars BY <1>0, <1>1, <1>5 DEF vars
<1> QED BY <1>2, <1>3, <1>4, <1>5 DEF Next, Handles

(* Initially no Connect waits for a device.                                  *)
LEMMA ReadyInit == Init => ReadyOK
BY DEF Init, ReadyOK

(* The function of a Connect is free when it is allocated; what the host     *)
(* shows there later was created by then.                                    *)
LEMMA ReadyStep ==
  ASSUME TypeOK, ControlOK, PlacedOK, ReadyOK, [Next]_vars
  PROVE  ReadyOK'
<1>0. /\ type' = type /\ Creates' = Creates /\ Hw' = Hw /\ VirtioBlk' = VirtioBlk
      /\ None \notin Slots /\ None \notin Volumes /\ Functions \subseteq Slots
      /\ Hw => type # "sma-nvmftcp"
  BY Frame, XpuAssumption DEF Slots, Hw
<1> DEFINE last == Creates[Len(Creates)]
           There(w) == type # "sma-nvmftcp" /\ pc[w] \in {"create", "bind", "detect"}
                         /\ sysfs[pf[w]] = w => w \in Occupants(pf[w])
           Unbound(w) == Hw /\ pc[w] \in {"create", "bind"} => sysfs[pf[w]] = None
           Last(w) == ~VirtioBlk /\ pc[w] \in {"bind", "detect"} =>
                        <<last, SlotFor(last, pf[w])>> \in objects[w]
<1> SUFFICES ASSUME NEW w \in Volumes PROVE There(w)' /\ Unbound(w)' /\ Last(w)'
  BY DEF ReadyOK
<1>1. There(w) /\ Unbound(w) /\ Last(w) BY DEF ReadyOK
<1>2. type # "sma-nvmftcp" /\ pc[w] \in Working => phyIDLock = w /\ pf[w] \in Slots
  BY <1>0 DEF ControlOK, Lock
<1> HIDE DEF last
<1>l. last' = last BY <1>0 DEF last
<1>3. ASSUME NEW v \in Volumes, Handles(v), w # v PROVE There(w)' /\ Unbound(w)' /\ Last(w)'
  <2>1. Same(w) BY <1>3, Others
  <2>2. Last(w)' BY <1>0, <1>1, <1>l, <2>1 DEF Same, SlotFor
  <2>3. ASSUME type # "sma-nvmftcp", pc[w] \in {"create", "bind", "detect"}
        PROVE  sysfs'[pf[w]] \in {None, sysfs[pf[w]]}
    <3>1. ~Bind(v) BY <1>2, <1>3, <2>3 DEF Bind, Working, ControlOK, Lock
    <3> QED BY <1>2, <1>3, <2>3, <3>1, SysfsSteps DEF Unplug, TypeOK, Working
  <2>4. There(w)' BY <1>0, <1>1, <2>1, <2>3 DEF Same, Occupants
  <2>5. Unbound(w)' BY <1>0, <1>1, <2>1, <2>3 DEF Same
  <2> QED BY <2>2, <2>4, <2>5
<1>4. CASE Handles(w)
  <2>a. ASSUME pc'[w] \notin {"create", "bind", "detect"} PROVE There(w)' /\ Unbound(w)' /\ Last(w)'
    BY <2>a
  <2> USE DEF TypeOK, Goto
  <2>1. CASE CallStage(w)
    <3>1. pc'[w] \in {"create", "bind", "detect"} => type = "sma-nvmftcp" /\ pc'[w] = "create"
      BY <2>1 DEF CallStage
    <3> QED BY <1>0, <3>1
  <2>2. CASE CallUnstage(w) BY <2>a, <2>2 DEF CallUnstage
  <2>3. CASE Exists(w) BY <2>a, <2>3 DEF Exists
  <2>4. CASE Allocate(w)
    <3>1. \/ pc'[w] = "err"
          \/ /\ pc'[w] = "create" \/ (pc'[w] = "detect" /\ type = "sma-virtioblk")
             /\ sysfs'[pf'[w]] = None
      BY <2>4 DEF Allocate, FirstFree, Free
    <3> QED BY <1>0, <2>a, <3>1 DEF VirtioBlk
  <2>5. CASE Create(w)
    <3> DEFINE k == Creates[at[w]]
    <3>1. /\ pc[w] = "create" /\ pf' = pf /\ sysfs' = sysfs /\ objects[w] \subseteq objects'[w]
      BY <2>5 DEF Create
    <3>2. There(w)' BY <1>0, <1>1, <3>1 DEF Occupants
    <3>3. Unbound(w)' BY <1>0, <1>1, <3>1
    <3>4. ASSUME ~VirtioBlk, pc'[w] \in {"bind", "detect"}
          PROVE  <<last, SlotFor(last, pf[w])>> \in objects'[w]
      <4>1. /\ k \in Kinds /\ at[w] <= Len(Creates) /\ at[w] \in Nat /\ Len(Creates) \in Nat
        BY <2>5, <3>1, Backends DEF ControlOK, Control
      <4>2. ~(at[w] < Len(Creates)) /\ objects'[w] = objects[w] \cup Made(w, k)
        BY <2>5, <3>4 DEF Create, Undo
      <4>3. k = last BY <4>1, <4>2 DEF last
      <4>4. <<k, SlotFor(k, pf[w])>> \in Made(w, k)
        <5>1. CASE Sma BY <5>1 DEF Made
        <5>2. CASE ~Sma
          <6>1. k \notin OnFunction BY <3>4, <4>3, <5>2, Backends DEF last
          <6>2. ASSUME NEW o \in objects[w], o[1] = k PROVE o = <<k, SlotFor(k, pf[w])>>
            <7>1. o[2] = None BY <6>1, <6>2 DEF PlacedOK, Placed
            <7>2. o = <<o[1], o[2]>> BY DEF Objects
            <7> QED BY <6>1, <6>2, <7>1, <7>2 DEF SlotFor
          <6> QED BY <6>2 DEF Made
        <5> QED BY <5>1, <5>2
      <4> QED BY <4>2, <4>3, <4>4
    <3>5. Last(w)' BY <1>0, <1>l, <3>1, <3>4 DEF SlotFor
    <3> QED BY <3>2, <3>3, <3>5
  <2>6. CASE Cleanup(w) BY <2>a, <2>6 DEF Cleanup, Delete
  <2>7. CASE Bind(w)
    <3>1. /\ pc[w] = "bind" /\ pf' = pf /\ objects' = objects /\ pc'[w] \in {"detect", "err"}
          /\ pf[w] \in Slots => \/ sysfs' = sysfs
                                \/ sysfs'[pf[w]] \in Occupants(pf[w])
      BY <2>7 DEF Bind
    <3>2. There(w)' BY <1>0, <1>1, <1>2, <3>1 DEF Occupants, Working
    <3>3. Last(w)' BY <1>0, <1>1, <1>l, <3>1 DEF SlotFor
    <3> QED BY <3>1, <3>2, <3>3
  <2>8. CASE Detect(w) BY <2>a, <2>8 DEF Detect
  <2>9. CASE Save(w) BY <2>a, <2>9 DEF Save
  <2>10. CASE Mount(w) BY <2>a, <2>10 DEF Mount
  <2>11. CASE Unmount(w) BY <2>a, <2>11 DEF Unmount
  <2>12. CASE Disconnect(w) BY <2>a, <2>12 DEF Disconnect
  <2>13. CASE Teardown(w) BY <2>a, <2>13 DEF Teardown, Delete
  <2>14. CASE WaitGone(w) BY <2>a, <2>14 DEF WaitGone
  <2>15. CASE Drop(w) BY <2>a, <2>15 DEF Drop
  <2>16. CASE Return(w) BY <2>a, <2>16 DEF Return
  <2>17. CASE Stash(w) BY <2>a, <2>17 DEF Stash
  <2> QED BY <1>4, <2>1, <2>2, <2>3, <2>4, <2>5, <2>6, <2>7, <2>8, <2>9, <2>10, <2>11, <2>12,
             <2>13, <2>14, <2>15, <2>16, <2>17 DEF Handles, Step
<1>5. ASSUME NEW s \in Slots, HotPlug(s) PROVE There(w)' /\ Unbound(w)' /\ Last(w)'
  <2>1. UNCHANGED <<pc, pf, objects>> BY <1>5 DEF HotPlug
  <2>2. \A x \in Slots : \/ sysfs'[x] \in {None, sysfs[x]}
                         \/ ~ByCommand /\ sysfs'[x] \in Occupants(x)
    BY <1>5 DEF HotPlug, Unplug, TypeOK
  <2>3. There(w)' BY <1>0, <1>1, <1>2, <2>1, <2>2 DEF Occupants, Working
  <2>4. Unbound(w)' BY <1>0, <1>1, <1>2, <2>1, <2>2 DEF Working, ByCommand, Hw
  <2>5. Last(w)' BY <1>0, <1>1, <1>l, <2>1 DEF SlotFor
  <2> QED BY <2>3, <2>4, <2>5
<1>6. CASE Crash BY <1>6 DEF Crash
<1>7. CASE UNCHANGED vars
  <2>1. UNCHANGED <<pc, pf, objects, sysfs>> BY <1>7 DEF vars
  <2> QED BY <1>0, <1>1, <1>l, <2>1 DEF Occupants, SlotFor
<1> QED BY <1>3, <1>4, <1>5, <1>6, <1>7 DEF Next, Handles

(* Initially no Connect is at work.                                          *)
LEMMA FunctionInit == Init => FunctionOK
BY DEF Init, FunctionOK, Working

(* On hardware, if no failure left anything, a Connect binds its own device. *)
LEMMA BindOwn ==
  ASSUME TypeOK, ControlOK, AloneOK, TidyOK, [Next]_vars, Sound, NEW v \in Volumes, Bind(v)
  PROVE  \/ sysfs' = [sysfs EXCEPT ![pf[v]] = v] /\ pc'[v] = "detect"
         \/ "objects" \in left'
<1>1. pc[v] = "bind" /\ Hw /\ left = {} /\ pf[v] \in Slots
  BY DEF Bind, ControlOK, Control, Lock, Working, Slots, ByCommand, Hw, Sound, TypeOK
<1>2. v \in Occupants(pf[v]) BY <1>1 DEF TidyOK, Tidy, Carries
<1>3. \A w \in Occupants(pf[v]) : w = v BY <1>1, <1>2 DEF AloneOK
<1> QED BY <1>1, <1>2, <1>3 DEF Bind, Fault, Hw, Goto, TypeOK

(* Nobody else's device shows up on the function of a Connect.               *)
LEMMA FunctionStep ==
  ASSUME TypeOK, ControlOK, AloneOK, FunctionOK, ShownOK, TidyOK, [Next]_vars
  PROVE  FunctionOK'
<1>0. /\ type' = type /\ Hw' = Hw /\ left \subseteq left'
      /\ None \notin Slots /\ None \notin Volumes /\ Functions \subseteq Slots
  BY Frame, XpuAssumption DEF Slots
<1> SUFFICES ASSUME Sound, NEW w \in Volumes, pc'[w] \in Working
             PROVE  sysfs'[pf'[w]] \in {None, w}
  BY <1>0 DEF FunctionOK, Sound
<1>1. \A v \in Volumes : pc[v] \in Working =>
        sysfs[pf[v]] \in {None, v} /\ phyIDLock = v /\ pf[v] \in Slots
  BY <1>0 DEF FunctionOK, ControlOK, Lock, Sound
<1>2. ASSUME NEW v \in Volumes, Handles(v), w # v PROVE sysfs'[pf'[w]] \in {None, w}
  <2>1. Same(w) BY <1>2, Others
  <2>2. pc[w] \in Working /\ sysfs[pf[w]] \in {None, w} /\ phyIDLock = w /\ pf[w] \in Slots
    BY <1>1, <2>1 DEF Same
  <2>3. ~Bind(v) BY <1>1, <1>2, <2>2 DEF Bind, Working
  <2> QED BY <1>2, <2>1, <2>2, <2>3, SysfsSteps DEF Same, TypeOK, Unplug
<1>3. CASE Handles(w)
  <2> USE <1>0 DEF TypeOK, Goto, Working
  <2>1. CASE CallStage(w) BY <2>1 DEF CallStage, VirtioBlk, Sound
  <2>2. CASE CallUnstage(w) BY <2>2 DEF CallUnstage
  <2>3. CASE Exists(w) BY <2>3 DEF Exists
  <2>4. CASE Allocate(w) BY <2>4 DEF Allocate, FirstFree, Free
  <2>5. CASE Create(w) BY <1>1, <2>5 DEF Create
  <2>6. CASE Cleanup(w) BY <1>1, <2>6 DEF Cleanup, Delete
  <2>7. CASE Bind(w)
    <3>1. pc[w] = "bind" /\ pf' = pf BY <2>7 DEF Bind
    <3>2. sysfs[pf[w]] \in {None, w} /\ pf[w] \in Slots BY <1>1, <3>1
    <3>3. CASE sysfs' = [sysfs EXCEPT ![pf[w]] = w] BY <3>1, <3>2, <3>3
    <3>4. CASE sysfs' = sysfs BY <3>1, <3>2, <3>4
    <3>5. pc'[w] # "err" BY <2>7
    <3>6. sysfs' = sysfs \/ "objects" \notin left' BY <2>7, <3>5 DEF Bind, NoFault, Sound
    <3> QED BY <2>7, <3>3, <3>4, <3>6, BindOwn
  <2>8. CASE Detect(w) BY <1>1, <2>8 DEF Detect
  <2>9. CASE Save(w) BY <2>9 DEF Save
  <2>10. CASE Mount(w) BY <2>10 DEF Mount
  <2>11. CASE Unmount(w) BY <2>11 DEF Unmount
  <2>12. CASE Disconnect(w) BY <2>12 DEF Disconnect
  <2>13. CASE Teardown(w) BY <2>13 DEF Teardown, Delete
  <2>14. CASE WaitGone(w) BY <2>14 DEF WaitGone
  <2>15. CASE Drop(w) BY <2>15 DEF Drop
  <2>16. CASE Return(w) BY <2>16 DEF Return
  <2>17. CASE Stash(w) BY <2>17 DEF Stash
  <2> QED BY <1>3, <2>1, <2>2, <2>3, <2>4, <2>5, <2>6, <2>7, <2>8, <2>9, <2>10, <2>11, <2>12,
             <2>13, <2>14, <2>15, <2>16, <2>17 DEF Handles, Step
<1>4. ASSUME NEW s \in Slots, HotPlug(s) PROVE sysfs'[pf'[w]] \in {None, w}
  <2>1. pc[w] \in Working /\ pf'[w] = pf[w] BY <1>4 DEF HotPlug
  <2>2. ASSUME NEW v \in Occupants(s), ~ByCommand, sysfs[s] = None, pf[w] = s PROVE v = w
    <3>1. PICK k \in OnFunction : <<k, s>> \in objects[v] BY DEF Occupants
    <3>2. ~Hw BY <2>2 DEF ByCommand, Hw
    <3>3. v \in Volumes BY DEF Occupants
    <3>4. pc[v] \in Working BY <1>0, <2>2, <3>1, <3>2, <3>3 DEF ShownOK
    <3> QED BY <1>1, <2>1, <3>3, <3>4
  <2> QED BY <1>1, <1>4, <2>1, <2>2 DEF HotPlug, Unplug, TypeOK
<1>5. CASE Crash BY <1>5 DEF Crash, Working
<1>6. CASE UNCHANGED vars BY <1>1, <1>6 DEF vars
<1> QED BY <1>2, <1>3, <1>4, <1>5, <1>6 DEF Next, Handles

(* A device that is shown stays on show whatever other handlers do, and the  *)
(* host does not lose it.                                                    *)
LEMMA HereStable ==
  ASSUME TypeOK, ControlOK, BlockOK, ReadyOK, UnbindOK, ~Excepted, [Next]_vars,
         NEW w \in Volumes, NEW s \in Slots, Here(w, s),
         (\E v \in Volumes \ {w} : Handles(v)) \/ (\E x \in Slots : HotPlug(x))
  PROVE  Here(w, s)'
<1>0. Creates' = Creates /\ None \notin Volumes
  BY Frame, XpuAssumption DEF Slots
<1>1. /\ sysfs[s] = w /\ block[s] = w /\ Carries(s, w) /\ w \in Occupants(s)
  BY DEF Here, Carries
<1>a. objects'[w] = objects[w] => Carries(s, w)'
  BY <1>0, <1>1 DEF Carries, Occupants, SlotFor
<1>2. ASSUME NEW v \in Volumes \ {w}, Handles(v) PROVE Here(w, s)'
  <2>1. objects'[w] = objects[w] BY <1>2, Others DEF Same
  <2>2. ASSUME ByCommand, Bind(v) \/ (Disconnect(v) /\ (type = "sma-nvmftcp" \/ path[v] # None))
        PROVE  pf[v] # s
    <3>1. CASE type = "sma-nvmftcp"
      <4>1. pf[v] = v BY <2>2, <3>1 DEF Bind, Disconnect, ControlOK, Lock, Working
      <4>2. s = w BY <1>0, <1>1, <3>1 DEF BlockOK
      <4> QED BY <4>1, <4>2
    <3>2. CASE Hw /\ Bind(v)
      <4>1. sysfs[pf[v]] = None BY <3>2 DEF Bind, ReadyOK
      <4> QED BY <1>0, <1>1, <4>1
    <3>3. CASE Hw /\ Disconnect(v) /\ path[v] # None
      <4>1. sysfs[pf[v]] = v BY <3>3 DEF Disconnect, UnbindOK, Excepted, Here
      <4> QED BY <1>1, <4>1
    <3> QED BY <2>2, <3>1, <3>2, <3>3 DEF ByCommand, Hw
  <2>3. Bind(v) => ByCommand BY DEF Bind, ControlOK, Control
  <2>4. sysfs'[s] = w /\ block'[s] = w
    BY <1>1, <1>2, <2>2, <2>3, SysfsSteps DEF TypeOK, Unplug
  <2> QED BY <1>a, <2>1, <2>4 DEF Here
<1>3. ASSUME NEW x \in Slots, HotPlug(x) PROVE Here(w, s)'
  <2>1. sysfs'[s] = w /\ block'[s] = w /\ objects' = objects
    BY <1>0, <1>1, <1>3 DEF HotPlug, Unplug, TypeOK
  <2> QED BY <1>a, <2>1 DEF Here
<1> QED BY <1>2, <1>3

-----------------------------------------------------------------------------
(* What a Connect has made and a Disconnect has still to delete.             *)

(* While no reply is lost, a Connect has in hand what it had and what it     *)
(* makes, and its failure leads to the deletion of all of it.                *)
LEMMA CreateSteps ==
  ASSUME TypeOK, ControlOK, NEW v \in Volumes, Create(v), [Next]_vars, "objects" \notin left'
  PROVE  /\ pc'[v] \in Working \cup {"err"} /\ pf' = pf /\ sysfs' = sysfs
         /\ \A o \in names[v] : InHand(v, o) => pc'[v] \in Working /\ InHand(v, o)'
         /\ \A o \in objects'[v] \ objects[v] :
              /\ pc'[v] \in Working /\ InHand(v, o)'
              /\ o = <<Creates[at[v]], SlotFor(Creates[at[v]], pf[v])>>
<1> DEFINE k == Creates[at[v]]
<1>0. Creates' = Creates /\ Deletes' = Deletes BY Frame
<1>1. /\ at[v] \in 1..Len(Creates) /\ k \in Kinds /\ pc[v] = "create" /\ at[v] \in Nat \ {0}
      /\ Len(Creates) \in Nat \ {0} /\ Len(Deletes) \in Nat \ {0}
  BY Backends DEF Create, ControlOK, Control, TypeOK
<1>2. Made(v, k) \subseteq Objects /\ \A o \in Made(v, k) :
        o[1] = k /\ (o \in objects[v] \/ o = <<k, SlotFor(k, pf[v])>>)
  BY <1>1, MadeType
<1>3. pf' = pf /\ sysfs' = sysfs BY DEF Create
<1> HIDE DEF k
<1>4. \/ /\ objects'[v] = objects[v] \cup Made(v, k)
         /\ names'[v] = (names[v] \ Known(v, k)) \cup Made(v, k)
         /\ at'[v] = at[v] + 1 /\ pc'[v] \in {"create", "bind", "detect"}
      \/ /\ objects' = objects /\ Undo(v)
  BY <1>1 DEF Create, Fault, TypeOK, Goto, k
<1>5. CASE /\ objects'[v] = objects[v] \cup Made(v, k)
           /\ names'[v] = (names[v] \ Known(v, k)) \cup Made(v, k)
           /\ at'[v] = at[v] + 1 /\ pc'[v] \in {"create", "bind", "detect"}
  <2>1. ASSUME NEW o \in Made(v, k) PROVE InHand(v, o)'
    <3>1. o \in names'[v] /\ o[1] = k BY <1>2, <1>5
    <3>2. Before(v, o[1])' BY <1>0, <1>1, <1>5, <3>1 DEF Before, k
    <3> QED BY <1>5, <3>1, <3>2 DEF InHand
  <2>2. ASSUME NEW o \in names[v], InHand(v, o) PROVE InHand(v, o)'
    <3>1. PICK i \in 1..Len(Creates) : i < at[v] /\ Creates[i] = o[1]
      BY <1>1, <2>2 DEF InHand, Before
    <3>2. o[1] # k BY <1>1, <3>1, Backends DEF k
    <3>3. o \in names'[v] BY <1>5, <2>2, <3>2 DEF InHand, Known
    <3>4. Before(v, o[1])' BY <1>0, <1>1, <1>5, <3>1 DEF Before
    <3> QED BY <1>5, <3>3, <3>4 DEF InHand
  <2> QED BY <1>2, <1>3, <1>5, <2>1, <2>2 DEF Working, k
<1>6. CASE objects' = objects /\ Undo(v)
  <2>1. names' = names /\ pc'[v] \in {"err", "cleanup"} BY <1>6 DEF Undo, Goto, TypeOK
  <2>2. ASSUME NEW o \in names[v], InHand(v, o) PROVE pc'[v] = "cleanup" /\ InHand(v, o)'
    <3>1. PICK i \in 1..Len(Creates) : i < at[v] /\ Creates[i] = o[1]
      BY <1>1, <2>2 DEF InHand, Before
    <3>2. /\ at[v] # 1 /\ pc'[v] = "cleanup"
          /\ at'[v] = IF Sma THEN Len(Deletes) ELSE 1
      BY <1>1, <1>6, <3>1 DEF Undo, Goto, TypeOK
    <3>3. After(v, o[1])'
      <4>1. CASE Sma
        <5>1. Len(Creates) <= 2 /\ Deletes[Len(Deletes)] = Creates[1] BY <4>1, Backends
        <5>2. i = 1 BY <1>1, <3>1, <5>1
        <5> QED BY <1>0, <1>1, <3>1, <3>2, <4>1, <5>1, <5>2 DEF After
      <4>2. CASE ~Sma
        <5>1. PICK j \in 1..Len(Deletes) : Deletes[j] = Creates[i] BY Backends
        <5> QED BY <1>0, <1>1, <3>1, <3>2, <4>2, <5>1 DEF After
      <4> QED BY <4>1, <4>2
    <3> QED BY <2>1, <2>2, <3>2, <3>3 DEF InHand
  <2> QED BY <1>3, <1>6, <2>1, <2>2 DEF Working
<1> QED BY <1>4, <1>5, <1>6

(* A deletion that does not fail keeps in hand what it has not reached.      *)
LEMMA DeleteSteps ==
  ASSUME TypeOK, NEW v \in Volumes, NEW done, NEW bad, Delete(v, done, bad), [Next]_vars,
         pc[v] \in {"cleanup", "teardown"}, "objects" \notin left'
  PROVE  /\ objects'[v] \subseteq objects[v] /\ names'[v] \subseteq names[v]
         /\ pc'[v] \in {pc[v], done}
         /\ \A o \in objects'[v] \cup names'[v] :
              InHand(v, o) => pc'[v] = pc[v] /\ InHand(v, o)'
<1>0. /\ Deletes' = Deletes /\ Len(Deletes) \in Nat \ {0} /\ at[v] \in Nat \ {0}
  BY Frame, Backends DEF TypeOK
<1>1. CASE Pending(v) = {} /\ UNCHANGED <<objects, names, at>> /\ pc'[v] = done
  <2>1. ASSUME NEW o, InHand(v, o) PROVE FALSE
    BY <1>1, <2>1 DEF InHand, After, Pending, Known
  <2> QED BY <1>1, <2>1
<1>2. ASSUME NEW i \in Pending(v), \A j \in Pending(v) : i <= j,
             objects'[v] = objects[v] \ Known(v, Deletes[i]),
             names'[v] = names[v] \ Known(v, Deletes[i]),
             at'[v] = i + 1, pc'[v] = pc[v]
      PROVE  /\ objects'[v] \subseteq objects[v] /\ names'[v] \subseteq names[v]
             /\ pc'[v] \in {pc[v], done}
             /\ \A o \in objects'[v] \cup names'[v] :
                  InHand(v, o) => pc'[v] = pc[v] /\ InHand(v, o)'
  <2>1. ASSUME NEW o \in objects'[v] \cup names'[v], InHand(v, o) PROVE InHand(v, o)'
    <3>1. o \in names[v] BY <2>1 DEF InHand
    <3>2. PICK j \in at[v]..Len(Deletes) : Deletes[j] = o[1] BY <2>1 DEF InHand, After
    <3>3. j \in Pending(v) BY <3>1, <3>2 DEF Pending, Known
    <3>4. o \notin Known(v, Deletes[i]) BY <1>2, <2>1
    <3>5. j # i BY <3>1, <3>2, <3>4 DEF Known
    <3>6. i \in Nat /\ i + 1 <= j BY <1>0, <1>2, <3>2, <3>3, <3>5 DEF Pending
    <3>7. After(v, o[1])' BY <1>0, <1>2, <3>2, <3>6 DEF After
    <3>8. o \in names'[v] BY <1>2, <3>1, <3>4
    <3> QED BY <1>2, <3>7, <3>8 DEF InHand
  <2> QED BY <1>2, <2>1
<1>3. \/ Pending(v) = {} /\ UNCHANGED <<objects, names, at>> /\ pc'[v] = done
      \/ \E i \in Pending(v) :
           /\ \A j \in Pending(v) : i <= j
           /\ objects'[v] = objects[v] \ Known(v, Deletes[i])
           /\ names'[v] = names[v] \ Known(v, Deletes[i])
           /\ at'[v] = i + 1 /\ pc'[v] = pc[v]
  BY DEF Delete, Fault, Goto, TypeOK
<1> QED BY <1>1, <1>2, <1>3

(* At its start a deletion has everything in hand that has a name.           *)
LEMMA DeleteStarts ==
  ASSUME TypeOK, PlacedOK, NEW v \in Volumes, [Next]_vars, pc'[v] \in {"cleanup", "teardown"},
         at'[v] = 1, names'[v] = names[v]
  PROVE  \A o \in names[v] : InHand(v, o)'
<1> SUFFICES ASSUME NEW o \in names[v] PROVE InHand(v, o)'
  OBVIOUS
<1>1. PICK i \in 1..Len(Creates) : Creates[i] = o[1] BY DEF PlacedOK, Placed
<1>2. PICK j \in 1..Len(Deletes) : Deletes[j] = Creates[i] BY Backends
<1>3. Deletes' = Deletes BY Frame
<1>4. After(v, o[1])' BY <1>1, <1>2, <1>3 DEF After
<1> QED BY <1>4 DEF InHand

(* Initially there are no devices.                                           *)
LEMMA ShownInit == Init => ShownOK
BY DEF Init, ShownOK

(* A device on a function is shown by the host unless its handler is making  *)
(* or deleting it.                                                           *)
LEMMA ShownStep ==
  ASSUME TypeOK, ControlOK, PlacedOK, AloneOK, BlockOK, FunctionOK, ShownOK, UnbindOK, TidyOK,
         [Next]_vars
  PROVE  ShownOK'
<1> DEFINE Hidden(v, o) == o[1] \in OnFunction /\ sysfs[o[2]] # v
           Tended(v, o) == /\ InHand(v, o)
                           /\ (pc[v] \in Working /\ pf[v] = o[2]) \/ (Hw /\ pc[v] = "teardown")
<1>0. /\ type' = type /\ Creates' = Creates /\ Deletes' = Deletes /\ Hw' = Hw
      /\ left \subseteq left' /\ left' \subseteq {"objects", "context"}
      /\ None \notin Slots /\ None \notin Volumes /\ Functions \subseteq Slots
  BY Frame, XpuAssumption DEF Slots
<1> SUFFICES ASSUME Sound', NEW w \in Volumes, NEW o \in objects'[w], Hidden(w, o)'
             PROVE  Tended(w, o)'
  BY <1>0 DEF ShownOK
<1>1. /\ Sound /\ type # "sma-nvmftcp" /\ "objects" \notin left' /\ (Hw => left = {})
      /\ o \in objects[w] /\ Hidden(w, o) => Tended(w, o)
      /\ o \in objects[w] /\ o[1] \in OnFunction => o[2] \in Slots
  <2>1. /\ Sound /\ type # "sma-nvmftcp" /\ "objects" \notin left' /\ (Hw => left = {})
    BY <1>0 DEF Sound, TypeOK
  <2> QED BY <1>0, <2>1 DEF ShownOK, PlacedOK, Placed
<1>a. ASSUME Same(w), o \in objects[w], Hidden(w, o) PROVE Tended(w, o)'
  <2>1. Tended(w, o) BY <1>1, <1>a
  <2>2. InHand(w, o)' BY <1>0, <1>a, <2>1 DEF Same, InHand, Before, After
  <2> QED BY <1>0, <1>a, <2>1, <2>2 DEF Same
<1>2. ASSUME NEW v \in Volumes, Handles(v), w # v PROVE Tended(w, o)'
  <2>1. Same(w) BY <1>2, Others
  <2>2. o \in objects[w] /\ o[2] \in Slots BY <1>1, <2>1 DEF Same
  <2>3. ASSUME Bind(v) PROVE sysfs[pf[v]] \in {None, v}
    BY <1>1, <2>3 DEF Bind, FunctionOK, Working
  <2>4. ASSUME Disconnect(v), ByCommand, path[v] # None PROVE sysfs[pf[v]] = v
    BY <1>0, <1>1, <2>4 DEF Disconnect, UnbindOK, Here, ByCommand, Hw
  <2>5. Hidden(w, o) BY <1>0, <1>1, <1>2, <2>2, <2>3, <2>4, SysfsSteps DEF TypeOK, Unplug
  <2> QED BY <1>a, <2>1, <2>2, <2>5
<1>3. CASE Handles(w)
  <2>a. ASSUME objects'[w] = objects[w], sysfs' = sysfs, pc[w] \notin Working, pc[w] # "teardown"
        PROVE FALSE
    BY <1>1, <2>a
  <2> USE DEF TypeOK, Goto
  <2>1. CASE CallStage(w) BY <2>a, <2>1 DEF CallStage, Working
  <2>2. CASE CallUnstage(w) BY <2>a, <2>2 DEF CallUnstage, Working
  <2>3. CASE Exists(w) BY <2>a, <2>3 DEF Exists, Working
  <2>4. CASE Allocate(w) BY <2>a, <2>4 DEF Allocate, Working
  <2>5. CASE Create(w)
    <3>1. CASE o \in objects[w]
      <4>1. Tended(w, o) BY <1>1, <2>5, <3>1, CreateSteps
      <4>2. pc[w] = "create" BY <2>5 DEF Create
      <4>3. o \in names[w] BY <4>1 DEF InHand
      <4> QED BY <1>1, <2>5, <4>1, <4>2, <4>3, CreateSteps
    <3>2. CASE o \notin objects[w]
      <4>1. pc'[w] \in Working /\ InHand(w, o)' /\ pf' = pf
        BY <1>1, <2>5, <3>2, CreateSteps
      <4>2. o = <<Creates[at[w]], SlotFor(Creates[at[w]], pf[w])>>
        BY <1>1, <2>5, <3>2, CreateSteps
      <4>3. o[2] = pf[w] BY <4>2 DEF SlotFor
      <4> QED BY <4>1, <4>3
    <3> QED BY <3>1, <3>2
  <2>6. ASSUME NEW done, NEW bad, Delete(w, done, bad), pc[w] \in {"cleanup", "teardown"}
        PROVE  Tended(w, o)'
    <3>1. o \in objects[w] BY <1>1, <2>6, DeleteSteps
    <3>2. sysfs' = sysfs /\ pf' = pf BY <2>6 DEF Delete
    <3>3. Tended(w, o) BY <1>1, <3>1, <3>2
    <3> QED BY <1>0, <1>1, <2>6, <3>2, <3>3, DeleteSteps
  <2>7. CASE Cleanup(w) BY <2>6, <2>7 DEF Cleanup
  <2>8. CASE Teardown(w) BY <2>6, <2>8 DEF Teardown
  <2>9. CASE Bind(w)
    <3>1. sysfs' = [sysfs EXCEPT ![pf[w]] = w] /\ objects' = objects
      BY <1>1, <2>9, BindOwn DEF Bind
    <3>2. pf[w] \in Slots BY <1>0, <1>1, <2>9 DEF Bind, ControlOK, Lock, Working
    <3>3. o[2] # pf[w] BY <3>1, <3>2
    <3>4. Hidden(w, o) /\ pc[w] = "bind" BY <1>1, <2>9, <3>1, <3>3 DEF Bind
    <3> QED BY <1>1, <3>1, <3>3, <3>4
  <2>10. CASE Detect(w)
    <3>1. /\ objects' = objects /\ sysfs' = sysfs /\ pf' = pf /\ names' = names
          /\ pc[w] = "detect"
      BY <2>10 DEF Detect
    <3>2. Tended(w, o) BY <1>1, <3>1
    <3>3. o \in names[w] /\ o[2] = pf[w] BY <3>1, <3>2 DEF InHand
    <3>4. ~Shown(w)
      <4>1. sysfs[pf[w]] \in {None, w} BY <1>1, <3>1 DEF FunctionOK, Working
      <4>2. sysfs[pf[w]] = None BY <3>1, <3>3, <4>1
      <4>3. block[pf[w]] = None BY <1>1, <3>1, <3>3, <4>2 DEF BlockOK
      <4> QED BY <4>3 DEF Shown
    <3>5. pc'[w] = "cleanup" /\ at'[w] = 1 BY <2>10, <3>4 DEF Detect
    <3>6. InHand(w, o)' BY <3>1, <3>3, <3>5, DeleteStarts
    <3> QED BY <3>1, <3>3, <3>5, <3>6 DEF Working
  <2>11. CASE Save(w) BY <2>a, <2>11 DEF Save, Working
  <2>12. CASE Mount(w) BY <2>a, <2>12 DEF Mount, Working
  <2>13. CASE Unmount(w) BY <2>a, <2>13 DEF Unmount, Working
  <2>14. CASE Disconnect(w)
    <3>1. /\ objects' = objects /\ names' = names /\ pf' = pf /\ pc[w] = "disconnect"
      BY <2>14 DEF Disconnect
    <3>2. sysfs' # sysfs BY <2>a, <3>1 DEF Working
    <3>3. ByCommand /\ pc'[w] = "teardown" /\ at'[w] = 1
      BY <1>1, <2>14, <3>2 DEF Disconnect, Fault
    <3>4. Hw BY <1>1, <3>3 DEF ByCommand, Hw
    <3>5. o \in names[w] BY <1>1, <3>1, <3>4 DEF TidyOK, Tidy
    <3>6. InHand(w, o)' BY <3>1, <3>3, <3>5, DeleteStarts
    <3> QED BY <1>0, <3>3, <3>4, <3>6
  <2>15. CASE WaitGone(w) BY <2>a, <2>15 DEF WaitGone, Working
  <2>16. CASE Drop(w) BY <2>a, <2>16 DEF Drop, Working
  <2>17. CASE Return(w) BY <2>a, <2>17 DEF Return, Working
  <2>18. CASE Stash(w) BY <2>a, <2>18 DEF Stash, Working
  <2> QED BY <1>3, <2>1, <2>2, <2>3, <2>4, <2>5, <2>7, <2>8, <2>9, <2>10, <2>11, <2>12,
             <2>13, <2>14, <2>15, <2>16, <2>17, <2>18 DEF Handles, Step
<1>4. ASSUME NEW s \in Slots, HotPlug(s) PROVE Tended(w, o)'
  <2>1. Same(w) /\ o \in objects[w] BY <1>4 DEF HotPlug, Same
  <2>2. o[2] \in Slots /\ o = <<o[1], o[2]>> BY <1>1, <2>1 DEF TypeOK, Objects
  <2>3. o[2] = s => w \in Occupants(s) BY <2>1, <2>2 DEF Occupants
  <2>4. Hidden(w, o) BY <1>0, <1>4, <2>2, <2>3 DEF HotPlug, Unplug, TypeOK
  <2> QED BY <1>a, <2>1, <2>4
<1>5. CASE Crash BY <1>1, <1>5 DEF Crash, Fault
<1>6. CASE UNCHANGED vars
  <2>1. Same(w) /\ o \in objects[w] /\ Hidden(w, o) BY <1>6 DEF vars, Same
  <2> QED BY <1>a, <2>1
<1> QED BY <1>2, <1>3, <1>4, <1>5, <1>6 DEF Next, Handles

-----------------------------------------------------------------------------
(* What is mounted.                                                          *)

(* Initially nothing is mounted.                                             *)
LEMMA HereInit == Init => HereOK
BY DEF Init, HereOK, InUse

(* The device that is mounted, or about to be, is shown with its volume      *)
(* behind it.                                                                *)
LEMMA HereStep ==
  ASSUME IInv, [Next]_vars
  PROVE  HereOK'
<1>0. /\ TypeOK /\ ControlOK /\ BlockOK /\ ReadyOK /\ FunctionOK /\ UnbindOK /\ HereOK /\ TidyOK
  BY DEF IInv
<1>1. /\ Creates' = Creates /\ VirtioBlk' = VirtioBlk /\ Hw' = Hw
      /\ left \subseteq left' /\ left' \subseteq {"objects", "context"}
      /\ None \notin Slots /\ None \notin Volumes /\ Functions \subseteq Slots
      /\ Volumes \subseteq Slots
  BY <1>0, Frame, XpuAssumption DEF Slots
<1> DEFINE Good(w) == /\ pc[w] \in {"save", "mount"} /\ dev[w] # None => Here(w, dev[w])
                      /\ InUse(w) => Here(w, mounted[w])
<1> SUFFICES ASSUME ~Excepted', NEW w \in Volumes PROVE Good(w)'
  BY DEF HereOK
<1>2. ~Excepted BY <1>0, <1>1 DEF Excepted, TypeOK
<1>3. /\ Good(w)
      /\ dev[w] # None => dev[w] \in Slots
      /\ InUse(w) => mounted[w] \in Slots
      /\ InUse(w) => pc[w] \in {"idle", "stash", "unmount", "ok", "err"}
  <2>1. dev[w] \in Slots \cup {None} /\ mounted[w] \in Slots \cup {None} /\ pc[w] \in Labels
    BY <1>0 DEF TypeOK
  <2> QED BY <1>0, <1>2, <2>1 DEF HereOK, ControlOK, Control, InUse, Labels, Working, Leaving
<1>4. ASSUME objects'[w] = objects[w], sysfs' = sysfs, block' = block, NEW s, Here(w, s)
      PROVE  Here(w, s)'
  BY <1>1, <1>4 DEF Here, Carries, Occupants, SlotFor
<1>5. ASSUME NEW v \in Volumes, Handles(v), w # v PROVE Good(w)'
  <2>1. Same(w) BY <1>0, <1>5, Others
  <2>2. ASSUME NEW s \in Slots, Here(w, s) PROVE Here(w, s)'
    BY <1>0, <1>2, <1>5, <2>2, HereStable
  <2> QED BY <1>3, <2>1, <2>2 DEF Same, InUse
<1>6. CASE Handles(w)
  <2> USE <1>0 DEF TypeOK, Goto, InUse
  <2>1. CASE CallStage(w) BY <1>3, <1>4, <2>1 DEF CallStage
  <2>2. CASE CallUnstage(w) BY <1>3, <1>4, <2>2 DEF CallUnstage
  <2>3. CASE Exists(w)
    <3>1. mounted'[w] = None /\ dev'[w] = None BY <2>3 DEF Exists, ControlOK, Control
    <3> QED BY <3>1
  <2>4. CASE Allocate(w) BY <1>3, <2>4 DEF Allocate
  <2>5. CASE Create(w) BY <1>3, <2>5 DEF Create, Undo
  <2>6. CASE Cleanup(w) BY <1>3, <2>6 DEF Cleanup, Delete
  <2>7. CASE Bind(w) BY <1>3, <2>7 DEF Bind
  <2>8. CASE Detect(w)
    <3>1. mounted'[w] = None BY <2>8 DEF Detect, ControlOK, Control, Working
    <3>2. pf[w] \in Slots BY <1>1, <2>8 DEF Detect, ControlOK, Lock, Working
    <3>3. ASSUME Shown(w) PROVE Here(w, pf[w])
      <4>1. CASE VirtioBlk
        <5>1. left = {} /\ type # "sma-nvmftcp" BY <1>2, <4>1 DEF Excepted, VirtioBlk
        <5>2. sysfs[pf[w]] \in {None, w} BY <2>8, <5>1 DEF Detect, FunctionOK, Working, Sound
        <5>3. Carries(pf[w], w) BY <2>8, <5>1 DEF Detect, TidyOK, Tidy
        <5>4. block[pf[w]] \in {None, sysfs[pf[w]]} BY <3>2 DEF BlockOK
        <5> QED BY <3>2, <3>3, <5>2, <5>3, <5>4 DEF Shown, Here
      <4>2. CASE ~VirtioBlk
        <5> DEFINE last == Creates[Len(Creates)]
        <5>1. block[pf[w]] = w /\ sysfs[pf[w]] = w BY <1>1, <3>2, <3>3, <4>2 DEF Shown, BlockOK
        <5>2. <<last, SlotFor(last, pf[w])>> \in objects[w] BY <2>8, <4>2 DEF Detect, ReadyOK
        <5>3. w \in Occupants(pf[w])
          <6>1. CASE type = "sma-nvmftcp"
            <7>1. last \in OnFunction BY <4>2, <6>1, Backends DEF Sma
            <7> QED BY <5>2, <7>1 DEF SlotFor, Occupants
          <6>2. CASE type # "sma-nvmftcp" BY <2>8, <5>1, <6>2 DEF Detect, ReadyOK
          <6> QED BY <6>1, <6>2
        <5> QED BY <3>2, <5>1, <5>2, <5>3 DEF Here, Carries
      <4> QED BY <4>1, <4>2
    <3>4. pc'[w] # "mount" /\ (pc'[w] = "save" => Shown(w) /\ dev'[w] = pf[w])
      BY <2>8 DEF Detect
    <3>5. ASSUME NEW s, Here(w, s) PROVE Here(w, s)' BY <1>4, <2>8, <3>5 DEF Detect
    <3> QED BY <3>1, <3>3, <3>4, <3>5
  <2>9. CASE Save(w) BY <1>3, <1>4, <2>9 DEF Save
  <2>10. CASE Mount(w) BY <1>3, <1>4, <2>10 DEF Mount
  <2>11. CASE Unmount(w) BY <1>3, <1>4, <2>11 DEF Unmount
  <2>12. CASE Disconnect(w) BY <1>3, <2>12 DEF Disconnect
  <2>13. CASE Teardown(w)
    <3>1. /\ pc'[w] \notin {"save", "mount"} /\ mounted' = mounted /\ orphans' = orphans
          /\ pc[w] = "teardown"
      BY <2>13 DEF Teardown, Delete
    <3> QED BY <1>3, <3>1
  <2>14. CASE WaitGone(w) BY <1>3, <2>14 DEF WaitGone
  <2>15. CASE Drop(w) BY <1>3, <2>15 DEF Drop
  <2>16. CASE Return(w) BY <1>3, <1>4, <2>16 DEF Return
  <2>17. CASE Stash(w) BY <1>3, <1>4, <2>17 DEF Stash
  <2> QED BY <1>6, <2>1, <2>2, <2>3, <2>4, <2>5, <2>6, <2>7, <2>8, <2>9, <2>10, <2>11, <2>12,
             <2>13, <2>14, <2>15, <2>16, <2>17 DEF Handles, Step
<1>7. ASSUME NEW s \in Slots, HotPlug(s) PROVE Good(w)'
  <2>1. Same(w) BY <1>7 DEF HotPlug, Same
  <2>2. ASSUME NEW x \in Slots, Here(w, x) PROVE Here(w, x)'
    BY <1>0, <1>2, <1>7, <2>2, HereStable
  <2> QED BY <1>3, <2>1, <2>2 DEF Same, InUse
<1>8. CASE Crash
  <2>1. /\ pc'[w] = "idle" /\ mounted'[w] = mounted[w] /\ orphans' = orphans
        /\ UNCHANGED <<objects, sysfs, block>>
    BY <1>8 DEF Crash
  <2> QED BY <1>3, <1>4, <2>1 DEF InUse
<1>9. CASE UNCHANGED vars
  <2>1. Same(w) /\ sysfs' = sysfs /\ block' = block BY <1>9 DEF vars, Same
  <2> QED BY <1>3, <1>4, <2>1 DEF Same, InUse
<1> QED BY <1>5, <1>6, <1>7, <1>8, <1>9 DEF Next, Handles

-----------------------------------------------------------------------------
(* The context file.                                                         *)

(* Initially there are no context files.                                     *)
LEMMA ContextInit == Init => ContextOK
BY DEF Init, ContextOK, InUse

(* Unless its removal failed, a context is that of a mounted volume, or its  *)
(* handler is about to remove it.                                            *)
LEMMA ContextStep ==
  ASSUME TypeOK, ControlOK, ContextOK, [Next]_vars
  PROVE  ContextOK'
<1> DEFINE Kept(w) == /\ ctx[w] # None => InUse(w) \/ pc[w] \in Leaving \cup {"mount"}
                      /\ InUse(w) /\ pc[w] # "stash" => w \in stashed
<1> SUFFICES ASSUME "context" \notin left', NEW w \in Volumes PROVE Kept(w)'
  BY DEF ContextOK
<1>1. "context" \notin left /\ Kept(w) BY Frame DEF ContextOK
<1>2. ASSUME NEW v \in Volumes, Handles(v), w # v PROVE Kept(w)'
  BY <1>1, <1>2, Others DEF Same, InUse
<1>3. CASE Handles(w)
  <2>0. Control(w) BY DEF ControlOK
  <2> USE <1>1, <2>0 DEF TypeOK, Goto, InUse, Leaving, Working, Control
  <2>1. CASE CallStage(w) BY <2>1 DEF CallStage
  <2>2. CASE CallUnstage(w) BY <2>2 DEF CallUnstage
  <2>3. CASE Exists(w) BY <2>3 DEF Exists
  <2>4. CASE Allocate(w) BY <2>4 DEF Allocate
  <2>5. CASE Create(w) BY <2>5 DEF Create
  <2>6. CASE Cleanup(w) BY <2>6 DEF Cleanup, Delete
  <2>7. CASE Bind(w) BY <2>7 DEF Bind
  <2>8. CASE Detect(w) BY <2>8 DEF Detect
  <2>9. CASE Save(w) BY <2>9 DEF Save
  <2>10. CASE Mount(w) BY <2>10 DEF Mount
  <2>11. CASE Unmount(w) BY <2>11 DEF Unmount, Fault
  <2>12. CASE Disconnect(w) BY <2>12 DEF Disconnect
  <2>13. CASE Teardown(w) BY <2>13 DEF Teardown, Delete
  <2>14. CASE WaitGone(w) BY <2>14 DEF WaitGone
  <2>15. CASE Drop(w) BY <2>15 DEF Drop, Fault
  <2>16. CASE Return(w) BY <2>16 DEF Return
  <2>17. CASE Stash(w) BY <2>17 DEF Stash
  <2> QED BY <1>3, <2>1, <2>2, <2>3, <2>4, <2>5, <2>6, <2>7, <2>8, <2>9, <2>10, <2>11, <2>12,
             <2>13, <2>14, <2>15, <2>16, <2>17 DEF Handles, Step
<1>4. ASSUME NEW s \in Slots, HotPlug(s) PROVE Kept(w)'
  BY <1>1, <1>4 DEF HotPlug, InUse
<1>5. CASE Crash BY <1>5 DEF Crash, Fault
<1>6. CASE UNCHANGED vars BY <1>1, <1>6 DEF vars, InUse
<1> QED BY <1>2, <1>3, <1>4, <1>5, <1>6 DEF Next, Handles

(* Initially nothing is mounted or being disconnected.                       *)
LEMMA UnbindInit == Init => UnbindOK
BY DEF Init, UnbindOK, InUse

(* On hardware Disconnect unbinds the function its device is on, or none.    *)
LEMMA UnbindStep ==
  ASSUME IInv, [Next]_vars
  PROVE  UnbindOK'
<1>0. /\ TypeOK /\ ControlOK /\ BlockOK /\ ReadyOK /\ UnbindOK /\ HereOK /\ ContextOK
  BY DEF IInv
<1>1. /\ type' = type /\ Creates' = Creates /\ Hw' = Hw
      /\ left \subseteq left' /\ left' \subseteq {"objects", "context"}
      /\ None \notin Slots /\ None \notin Volumes /\ Functions \subseteq Slots
  BY <1>0, Frame, XpuAssumption DEF Slots
<1> DEFINE Good(w) ==
      /\ pc[w] \in {"save", "mount"} /\ dev[w] = None => path[w] = None
      /\ InUse(w) => Agree(Stored(w).path, Stored(w).pf, mounted[w])
      /\ pc[w] = "disconnect" => path[w] = None \/ Here(w, pf[w])
<1> SUFFICES ASSUME Hw, "context" \notin left', NEW w \in Volumes PROVE Good(w)'
  BY <1>1 DEF UnbindOK
<1>2. ~Excepted /\ "context" \notin left /\ type # "sma-nvmftcp"
  BY <1>0, <1>1 DEF Excepted, Hw, VirtioBlk
<1>3. /\ Good(w) /\ Control(w)
      /\ ctx[w] # None => InUse(w) \/ pc[w] \in Leaving \cup {"mount"}
      /\ InUse(w) => Here(w, mounted[w])
      /\ pc[w] \in {"save", "mount"} /\ dev[w] # None => Here(w, dev[w])
  BY <1>0, <1>2 DEF UnbindOK, ControlOK, ContextOK, HereOK
<1>4. ASSUME objects'[w] = objects[w], sysfs' = sysfs, block' = block, NEW s, Here(w, s)
      PROVE  Here(w, s)'
  BY <1>1, <1>4 DEF Here, Carries, Occupants, SlotFor
<1>n. ctx[w] = None => Stored(w).path = None BY DEF Stored
<1>s. ctx'[w] = ctx[w] => Stored(w)' = Stored(w) BY DEF Stored
<1>5. ASSUME NEW v \in Volumes, Handles(v), w # v PROVE Good(w)'
  <2>1. Same(w) BY <1>0, <1>5, Others
  <2>2. ASSUME NEW s \in Slots, Here(w, s) PROVE Here(w, s)'
    BY <1>0, <1>2, <1>5, <2>2, HereStable
  <2>3. Here(w, pf[w]) => pf[w] \in Slots BY DEF Here
  <2> QED BY <1>3, <1>s, <2>1, <2>2, <2>3 DEF Same, Agree, InUse
<1>6. CASE Handles(w)
  <2>0. InUse(w) => pc[w] \in {"idle", "stash", "unmount", "ok", "err"}
    <3>1. pc[w] \in Labels BY <1>0 DEF TypeOK
    <3> QED BY <1>3, <3>1 DEF Control, InUse, Labels, Working, Leaving
  <2> USE <1>0, <1>s, <2>0 DEF TypeOK, Goto, InUse
  <2>1. CASE CallStage(w) BY <1>3, <2>1 DEF CallStage, Agree
  <2>2. CASE CallUnstage(w) BY <1>3, <2>2 DEF CallUnstage, Agree
  <2>3. CASE Exists(w)
    <3>1. pc[w] = "exists" /\ path[w] = Stored(w).path /\ mounted[w] = None
      BY <1>3, <2>3 DEF Exists, Control
    <3>2. path[w] = None BY <1>3, <1>n, <3>1 DEF Leaving
    <3>3. UNCHANGED <<path, mounted>> /\ pc'[w] \in {"allocate", "save"} BY <2>3 DEF Exists
    <3> QED BY <3>1, <3>2, <3>3
  <2>4. CASE Allocate(w) BY <1>3, <2>4 DEF Allocate
  <2>5. CASE Create(w) BY <1>3, <2>5 DEF Create, Undo
  <2>6. CASE Cleanup(w)
    <3>1. /\ pc'[w] \in {"cleanup", "err"} /\ pc[w] = "cleanup" /\ UNCHANGED <<mounted, orphans>>
      BY <2>6 DEF Cleanup, Delete
    <3> QED BY <1>3, <3>1
  <2>7. CASE Bind(w) BY <1>3, <2>7 DEF Bind
  <2>8. CASE Detect(w)
    <3>1. pf[w] # None BY <1>1, <2>8 DEF Detect, ControlOK, Lock, Working
    <3> QED BY <1>3, <2>8, <3>1 DEF Detect
  <2>9. CASE Save(w) BY <1>3, <2>9 DEF Save
  <2>10. CASE Mount(w)
    <3>1. /\ pc[w] = "mount" /\ mounted[w] = None
          /\ Stored(w) = [names |-> names[w], path |-> path[w], pf |-> pf[w]]
          /\ dev[w] # None => path[w] = dev[w] /\ pf[w] = dev[w]
      BY <1>3, <2>10 DEF Mount, Control
    <3>2. /\ Stored(w)' = Stored(w) /\ UNCHANGED <<pf, path, dev, objects, sysfs, block, orphans>>
      BY <2>10 DEF Mount
    <3>3. \/ pc'[w] = "stash" /\ mounted'[w] = dev[w] /\ dev[w] # None
          \/ pc'[w] = "disconnect" /\ mounted'[w] = mounted[w]
      BY <2>10 DEF Mount
    <3>4. path[w] = None \/ Here(w, pf[w]) BY <1>3, <3>1
    <3>5. ASSUME NEW s, Here(w, s) PROVE Here(w, s)' BY <1>4, <3>2, <3>5
    <3> QED BY <3>1, <3>2, <3>3, <3>4, <3>5 DEF Agree
  <2>11. CASE Unmount(w)
    <3>1. /\ pc[w] = "unmount" /\ Stored(w)' = Stored(w) /\ UNCHANGED <<objects, sysfs, block>>
      BY <2>11 DEF Unmount
    <3>2. \/ /\ pc'[w] = "disconnect" /\ mounted'[w] = None
             /\ path'[w] = Stored(w).path /\ pf'[w] = Stored(w).pf
          \/ pc'[w] = "err" /\ mounted'[w] = None
          \/ pc'[w] = "err" /\ UNCHANGED <<mounted, orphans>>
      BY <1>2, <2>11 DEF Unmount, NewInitiator
    <3>3. ASSUME NEW s, Here(w, s) PROVE Here(w, s)' BY <1>4, <3>1, <3>3
    <3>4. Stored(w).path = None \/ Here(w, Stored(w).pf)
      BY <1>3, <1>n, <3>1 DEF Agree, Leaving
    <3> QED BY <1>3, <3>1, <3>2, <3>3, <3>4
  <2>12. CASE Disconnect(w) BY <1>3, <2>12 DEF Disconnect
  <2>13. CASE Teardown(w)
    <3>1. /\ pc'[w] \notin {"save", "mount", "disconnect"} /\ pc[w] = "teardown"
          /\ UNCHANGED <<mounted, orphans>>
      BY <2>13 DEF Teardown, Delete
    <3> QED BY <1>3, <3>1
  <2>14. CASE WaitGone(w) BY <1>3, <2>14 DEF WaitGone
  <2>15. CASE Drop(w) BY <1>3, <2>15 DEF Drop
  <2>16. CASE Return(w) BY <1>3, <2>16 DEF Return, Agree
  <2>17. CASE Stash(w)
    <3>1. /\ pc[w] = "stash" /\ mounted[w] = dev[w] /\ dev[w] # None /\ w \notin orphans
          /\ pf[w] = dev[w]
      BY <1>3, <2>17 DEF Stash, Control
    <3>2. /\ Stored(w)' = Stored(w) /\ UNCHANGED <<pf, path, mounted, objects, sysfs, block>>
          /\ pc'[w] \in {"ok", "disconnect"}
      BY <2>17 DEF Stash
    <3>3. Here(w, pf[w])' BY <1>3, <1>4, <3>1, <3>2
    <3> QED BY <1>3, <3>1, <3>2, <3>3
  <2> QED BY <1>6, <2>1, <2>2, <2>3, <2>4, <2>5, <2>6, <2>7, <2>8, <2>9, <2>10, <2>11, <2>12,
             <2>13, <2>14, <2>15, <2>16, <2>17 DEF Handles, Step
<1>7. ASSUME NEW s \in Slots, HotPlug(s) PROVE Good(w)'
  <2>1. Same(w) BY <1>7 DEF HotPlug, Same
  <2>2. ASSUME NEW x \in Slots, Here(w, x) PROVE Here(w, x)'
    BY <1>0, <1>2, <1>7, <2>2, HereStable
  <2>3. Here(w, pf[w]) => pf[w] \in Slots BY DEF Here
  <2> QED BY <1>3, <1>s, <2>1, <2>2, <2>3 DEF Same, Agree, InUse
<1>8. CASE Crash BY <1>8 DEF Crash, Fault
<1>9. CASE UNCHANGED vars
  <2>1. Same(w) /\ sysfs' = sysfs /\ block' = block BY <1>9 DEF vars, Same
  <2> QED BY <1>3, <1>4, <1>s, <2>1 DEF Same, Agree, InUse
<1> QED BY <1>5, <1>6, <1>7, <1>8, <1>9 DEF Next, Handles

-----------------------------------------------------------------------------
(* What is left behind.                                                      *)

(* Initially there is nothing to know of.                                    *)
LEMMA TidyInit == Init => TidyOK
BY DEF Init, TidyOK, Tidy, Working, InUse

(* While no reply, deletion or file operation is lost, a handler knows all   *)
(* objects of its volume.                                                    *)
LEMMA TidyStep ==
  ASSUME TypeOK, ControlOK, PlacedOK, ContextOK, UnbindOK, TidyOK, [Next]_vars
  PROVE  TidyOK'
<1>1. /\ type' = type /\ Creates' = Creates /\ Deletes' = Deletes /\ left \subseteq left'
      /\ None \notin Slots /\ None \notin Volumes
      /\ Functions \subseteq Slots /\ Volumes \subseteq Slots
  BY Frame, XpuAssumption DEF Slots
<1> SUFFICES ASSUME left' = {}, NEW w \in Volumes PROVE Tidy(w)'
  BY DEF TidyOK
<1>2. /\ left = {} /\ Tidy(w)
      /\ ctx[w] # None => InUse(w) \/ pc[w] \in Leaving \cup {"mount"}
      /\ InUse(w) /\ pc[w] # "stash" => w \in stashed
  BY <1>1 DEF TidyOK, ContextOK
<1>s. ctx'[w] = ctx[w] => Stored(w)' = Stored(w) BY DEF Stored
<1>n. ctx[w] = None => Stored(w).names = {} BY DEF Stored
<1>a. ASSUME Same(w) PROVE Tidy(w)'
  <2>1. Stored(w)' = Stored(w) BY <1>a, <1>s DEF Same
  <2>2. /\ \A k : Before(w, k)' <=> Before(w, k)
        /\ \A k : After(w, k)' <=> After(w, k)
    BY <1>1, <1>a DEF Same, Before, After
  <2>3. Carries(pf[w], w) => Carries(pf[w], w)'
    BY <1>1, <1>a DEF Same, Carries, Occupants, SlotFor
  <2> QED BY <1>1, <1>2, <1>a, <2>1, <2>2, <2>3 DEF Same, Tidy, Working, InUse
<1>3. ASSUME NEW v \in Volumes, Handles(v), w # v PROVE Tidy(w)'
  BY <1>3, <1>a, Others
<1>4. CASE Handles(w)
  <2>0. /\ InUse(w) => pc[w] \in {"idle", "stash", "unmount", "ok", "err"}
        /\ Control(w)
    <3>1. pc[w] \in Labels BY DEF TypeOK
    <3> QED BY <3>1 DEF ControlOK, Control, InUse, Labels, Working, Leaving
  <2> USE <1>1, <1>s, <2>0 DEF TypeOK, Goto, InUse
  <2>1. CASE CallStage(w)
    <3>1. CASE mounted[w] # None BY <1>2, <2>1, <3>1 DEF CallStage, Tidy, Working
    <3>2. CASE mounted[w] = None
      <4>1. ctx[w] = None /\ objects[w] = {} BY <1>2, <2>1, <3>2 DEF CallStage, Tidy, Leaving
      <4>2. /\ names'[w] = {} /\ at'[w] = 1 /\ pc'[w] \in {"create", "allocate", "exists"}
            /\ objects'[w] = {} /\ ctx'[w] = None
        BY <1>n, <2>1, <3>2, <4>1 DEF CallStage, NewInitiator
      <4>3. \A i \in 1..Len(Creates) : ~(i < at'[w]) BY <4>2, Backends
      <4> QED BY <4>2, <4>3 DEF Tidy, Working
    <3> QED BY <3>1, <3>2
  <2>2. CASE CallUnstage(w) BY <1>2, <2>2 DEF CallUnstage, Tidy, Working
  <2>3. CASE Exists(w)
    <3>1. /\ objects[w] = {} /\ pc'[w] \in {"allocate", "save"} /\ objects' = objects
      BY <1>2, <2>3 DEF Exists, Tidy
    <3> QED BY <3>1 DEF Tidy, Working
  <2>4. CASE Allocate(w)
    <3>1. objects[w] = {} /\ ctx[w] = None
      BY <1>2, <2>4 DEF Allocate, Tidy, Leaving
    <3>2. names[w] = {} /\ at[w] = 1
      BY <1>n, <2>4, <3>1 DEF Allocate, Control
    <3>3. Known(w, "device") = {} BY <3>2 DEF Known
    <3>4. /\ pc'[w] \in {"err", "create"} /\ UNCHANGED <<objects, names, at, mounted, orphans>>
      BY <2>4, <3>3 DEF Allocate
    <3>5. \A i \in 1..Len(Creates) : ~(i < at'[w]) BY <3>2, <3>4, Backends
    <3> QED BY <2>4, <3>1, <3>2, <3>4, <3>5 DEF Tidy, Working, Allocate
  <2>5. CASE Create(w)
    <3> DEFINE k == Creates[at[w]]
               it == <<k, SlotFor(k, pf[w])>>
    <3>1. /\ pc[w] = "create" /\ objects[w] \subseteq names[w]
          /\ \A o \in names[w] : InHand(w, o) /\ Before(w, o[1])
          /\ \A i \in 1..Len(Creates) :
               i < at[w] => <<Creates[i], SlotFor(Creates[i], pf[w])>> \in objects[w]
      BY <1>2, <2>5 DEF Create, Tidy, InHand, Working
    <3>2. /\ at[w] \in 1..Len(Creates) /\ k \in Kinds /\ at[w] \in Nat \ {0}
          /\ Len(Creates) \in Nat \ {0} /\ UNCHANGED <<mounted, orphans, pf>>
      BY <2>5, <3>1, Backends DEF Create, Control
    <3>3. \A o \in objects[w] : o[1] # k
      <4> SUFFICES ASSUME NEW o \in objects[w] PROVE o[1] # k
        OBVIOUS
      <4>1. PICK i \in 1..Len(Creates) : i < at[w] /\ Creates[i] = o[1] BY <3>1 DEF Before
      <4> QED BY <3>2, <4>1, Backends
    <3>4. Made(w, k) = {it} BY <3>3 DEF Made
    <3>5. /\ \A o \in names[w] : pc'[w] \in Working /\ InHand(w, o)'
          /\ \A o \in objects'[w] \ objects[w] : pc'[w] \in Working /\ InHand(w, o)'
          /\ pc'[w] \in Working \cup {"err"}
      BY <1>2, <2>5, <3>1, CreateSteps
    <3>6. objects'[w] \subseteq names'[w] BY <3>1, <3>5 DEF InHand
    <3> HIDE DEF k, it
    <3>7. \/ /\ objects'[w] = objects[w] \cup Made(w, k)
             /\ names'[w] = (names[w] \ Known(w, k)) \cup Made(w, k)
             /\ at'[w] = at[w] + 1
             /\ pc'[w] \in {"create", "bind", "detect"}
             /\ pc'[w] # "create" => at[w] = Len(Creates)
             /\ pc'[w] = "create" => at[w] < Len(Creates)
          \/ /\ objects' = objects /\ names' = names /\ pc'[w] \in {"err", "cleanup"}
      BY <2>5, <3>2 DEF Create, Undo, Fault, k
    <3>8. CASE objects' = objects /\ names' = names /\ pc'[w] \in {"err", "cleanup"}
      <4>1. CASE pc'[w] = "err"
        <5>1. names[w] = {} BY <3>5, <4>1 DEF Working
        <5> QED BY <3>1, <3>2, <3>8, <4>1, <5>1 DEF Tidy, Working
      <4>2. CASE pc'[w] = "cleanup"
        <5>1. \A o \in names'[w] : After(w, o[1])' BY <3>5, <3>8, <4>2 DEF InHand
        <5> QED BY <3>1, <3>2, <3>6, <4>2, <5>1 DEF Tidy, Working
      <4> QED BY <3>8, <4>1, <4>2
    <3>9. CASE /\ objects'[w] = objects[w] \cup Made(w, k)
               /\ names'[w] = (names[w] \ Known(w, k)) \cup Made(w, k)
               /\ at'[w] = at[w] + 1
               /\ pc'[w] \in {"create", "bind", "detect"}
               /\ pc'[w] # "create" => at[w] = Len(Creates)
               /\ pc'[w] = "create" => at[w] < Len(Creates)
      <4>1. \A i \in 1..Len(Creates) :
              i < at'[w] => <<Creates[i], SlotFor(Creates[i], pf[w])>> \in objects'[w]
        <5> SUFFICES ASSUME NEW i \in 1..Len(Creates), i < at'[w]
                     PROVE  <<Creates[i], SlotFor(Creates[i], pf[w])>> \in objects'[w]
          OBVIOUS
        <5>1. CASE i < at[w] BY <3>1, <3>9, <5>1
        <5>2. CASE i = at[w]
          <6>1. it \in objects'[w] BY <3>4, <3>9
          <6> QED BY <5>2, <6>1 DEF it, k
        <5> QED BY <3>2, <3>9, <5>1, <5>2
      <4>2. \A o \in names'[w] : Before(w, o[1])'
        <5> SUFFICES ASSUME NEW o \in names'[w] PROVE Before(w, o[1])'
          OBVIOUS
        <5>1. CASE o \in names[w]
          <6>1. PICK i \in 1..Len(Creates) : i < at[w] /\ Creates[i] = o[1]
            BY <3>1, <5>1 DEF Before
          <6> QED BY <3>2, <3>9, <6>1 DEF Before
        <5>2. CASE o \in Made(w, k)
          <6>1. o = it BY <3>4, <5>2
          <6>2. o[1] = Creates[at[w]] BY <6>1 DEF it, k
          <6>3. at[w] \in 1..Len(Creates) /\ at[w] < at'[w] BY <3>2, <3>9
          <6> QED BY <6>2, <6>3 DEF Before
        <5> QED BY <3>9, <5>1, <5>2
      <4>3. pc'[w] # "create" => Carries(pf[w], w)'
        <5>1. PICK i \in 1..Len(Creates) : Creates[i] \in OnFunction BY Backends
        <5>2. pc'[w] # "create" => <<Creates[i], pf[w]>> \in objects'[w]
          BY <3>2, <3>9, <4>1, <5>1 DEF SlotFor
        <5>3. pc'[w] # "create" =>
                <<Creates[Len(Creates)], SlotFor(Creates[Len(Creates)], pf[w])>> \in objects'[w]
          BY <3>2, <3>9, <4>1
        <5> QED BY <3>2, <5>1, <5>2, <5>3 DEF Carries, Occupants, SlotFor
      <4> QED BY <3>1, <3>2, <3>6, <3>9, <4>1, <4>2, <4>3 DEF Tidy, Working
    <3> QED BY <3>7, <3>8, <3>9
  <2>6. ASSUME NEW done, NEW bad, Delete(w, done, bad), pc[w] \in {"cleanup", "teardown"},
               done \in {"err", "dropOk", "waitGone"}, pc[w] = "cleanup" => done = "err",
               pc[w] = "teardown" => done # "err"
        PROVE  Tidy(w)'
    <3>1. /\ objects[w] \subseteq names[w] /\ \A o \in names[w] : InHand(w, o)
      BY <1>2, <2>6 DEF Tidy, InHand, Working
    <3>2. /\ objects'[w] \subseteq objects[w] /\ names'[w] \subseteq names[w]
          /\ pc'[w] \in {pc[w], done}
          /\ \A o \in objects'[w] \cup names'[w] : pc'[w] = pc[w] /\ InHand(w, o)'
      <4>1. \A o \in objects'[w] \cup names'[w] : InHand(w, o) BY <1>2, <2>6, <3>1, DeleteSteps
      <4> QED BY <1>2, <2>6, <4>1, DeleteSteps
    <3>3. UNCHANGED <<mounted, orphans>> BY <2>6 DEF Delete
    <3>4. CASE pc'[w] = pc[w]
      <4>1. /\ objects'[w] \subseteq names'[w] /\ \A o \in names'[w] : After(w, o[1])'
        BY <2>6, <3>2, <3>4 DEF InHand
      <4> QED BY <2>6, <3>1, <3>3, <3>4, <4>1 DEF Tidy, Working
    <3>5. CASE pc'[w] # pc[w]
      <4>1. objects'[w] = {} /\ pc'[w] = done BY <3>2, <3>5
      <4> QED BY <2>6, <3>1, <3>3, <4>1 DEF Tidy, Working
    <3> QED BY <3>4, <3>5
  <2>7. CASE Cleanup(w) BY <2>6, <2>7 DEF Cleanup
  <2>8. CASE Teardown(w) BY <2>6, <2>8 DEF Teardown
  <2>9. CASE Bind(w)
    <3>1. pc[w] = "bind" /\ UNCHANGED <<objects, names, pf>> BY <2>9 DEF Bind
    <3>2. Carries(pf[w], w) BY <1>2, <3>1 DEF Tidy
    <3>3. Carries(pf[w], w)' BY <3>1, <3>2 DEF Carries, Occupants, SlotFor
    <3>4. pc'[w] = "detect" BY <2>9, <3>2 DEF Bind, Fault, Carries
    <3> QED BY <1>2, <3>1, <3>3, <3>4 DEF Tidy, Working
  <2>10. CASE Detect(w)
    <3>1. pc[w] = "detect" /\ UNCHANGED <<objects, names, pf>> BY <2>10 DEF Detect
    <3>2. objects[w] \subseteq names[w] BY <1>2, <3>1 DEF Tidy, Working
    <3>3. pf[w] # None BY <3>1 DEF ControlOK, Lock, Working
    <3>4. \/ pc'[w] = "save" /\ path'[w] = pf[w]
          \/ pc'[w] = "cleanup" /\ at'[w] = 1
      BY <2>10 DEF Detect
    <3>5. pc'[w] = "cleanup" => \A o \in names'[w] : After(w, o[1])'
      BY <3>1, <3>4, DeleteStarts DEF InHand
    <3> QED BY <3>1, <3>2, <3>3, <3>4, <3>5 DEF Tidy, Working
  <2>11. CASE Save(w)
    <3>1. pc[w] = "save" /\ pc'[w] = "mount" /\ UNCHANGED <<objects, names, path>>
      BY <2>11 DEF Save, Fault
    <3> QED BY <1>2, <3>1 DEF Tidy, Working
  <2>12. CASE Mount(w)
    <3>1. /\ pc[w] = "mount" /\ pc'[w] \in {"stash", "disconnect"}
          /\ UNCHANGED <<objects, names, path>>
      BY <2>12 DEF Mount
    <3> QED BY <1>2, <3>1 DEF Tidy, Working
  <2>13. CASE Unmount(w)
    <3>1. pc[w] = "unmount" /\ objects' = objects /\ Stored(w)' = Stored(w) BY <2>13 DEF Unmount
    <3>2. \/ pc'[w] = "disconnect" /\ names'[w] = Stored(w).names /\ path'[w] = Stored(w).path
          \/ pc'[w] = "err" /\ mounted'[w] = None /\ w \notin stashed
          \/ pc'[w] = "err" /\ UNCHANGED <<mounted, orphans>>
      BY <2>13 DEF Unmount, NewInitiator, Fault
    <3>3. IF InUse(w) THEN objects[w] \subseteq Stored(w).names /\ Stored(w).path # None
          ELSE objects[w] = {}
      BY <1>2, <3>1 DEF Tidy
    <3> QED BY <1>2, <3>1, <3>2, <3>3 DEF Tidy, Working
  <2>14. CASE Disconnect(w)
    <3>1. pc[w] = "disconnect" /\ UNCHANGED <<objects, names>> BY <2>14 DEF Disconnect
    <3>2. objects[w] \subseteq names[w] /\ (path[w] # None \/ objects[w] = {})
      BY <1>2, <3>1 DEF Tidy, Working
    <3>3. Hw /\ path[w] # None => sysfs[pf[w]] # None BY <1>2, <3>1 DEF UnbindOK, Here
    <3>4. (pc'[w] = "teardown" /\ at'[w] = 1) \/ (pc'[w] = "dropErr" /\ objects[w] = {})
      BY <2>14, <3>2, <3>3 DEF Disconnect, Fault, Hw
    <3>5. pc'[w] = "teardown" => \A o \in names'[w] : After(w, o[1])'
      BY <3>1, <3>4, DeleteStarts DEF InHand
    <3> QED BY <3>1, <3>2, <3>4, <3>5 DEF Tidy, Working
  <2>15. CASE WaitGone(w)
    <3>1. /\ pc[w] = "waitGone" /\ pc'[w] \in {"dropOk", "dropErr"} /\ objects' = objects
      BY <2>15 DEF WaitGone
    <3> QED BY <1>2, <3>1 DEF Tidy, Working
  <2>16. CASE Drop(w)
    <3>1. /\ pc[w] \in {"dropOk", "dropErr"} /\ pc'[w] \in {"ok", "err"}
          /\ UNCHANGED <<objects, mounted, orphans>>
      BY <2>16 DEF Drop
    <3> QED BY <1>2, <3>1 DEF Tidy, Working
  <2>17. CASE Return(w) BY <1>2, <2>17 DEF Return, Tidy, Working
  <2>18. CASE Stash(w)
    <3>1. /\ pc[w] = "stash" /\ pc'[w] \in {"ok", "disconnect"} /\ Stored(w)' = Stored(w)
          /\ pc'[w] = "ok" => UNCHANGED <<mounted, orphans>>
          /\ UNCHANGED <<objects, names, path>>
      BY <2>18 DEF Stash
    <3>2. /\ Stored(w) = [names |-> names[w], path |-> path[w], pf |-> pf[w]]
          /\ path[w] # None /\ InUse(w)
      BY <3>1 DEF Control
    <3> QED BY <1>2, <3>1, <3>2 DEF Tidy, Working
  <2> QED BY <1>4, <2>1, <2>2, <2>3, <2>4, <2>5, <2>7, <2>8, <2>9, <2>10, <2>11, <2>12,
             <2>13, <2>14, <2>15, <2>16, <2>17, <2>18 DEF Handles, Step
<1>5. ASSUME NEW s \in Slots, HotPlug(s) PROVE Tidy(w)'
  <2>1. Same(w) BY <1>5 DEF HotPlug, Same
  <2> QED BY <1>a, <2>1
<1>6. CASE Crash BY <1>6 DEF Crash, Fault
<1>7. CASE UNCHANGED vars
  <2>1. Same(w) BY <1>7 DEF vars, Same
  <2> QED BY <1>a, <2>1
<1> QED BY <1>3, <1>4, <1>5, <1>6, <1>7 DEF Next, Handles

-----------------------------------------------------------------------------
(* The theorems.                                                             *)

(* The invariant holds in every reachable state.                             *)
LEMMA Invariance == Spec => []IInv
<1>1. Init => IInv
  BY TypeInit, ControlInit, PlacedInit, AloneInit, BlockInit, ReadyInit, FunctionInit, ShownInit,
     HereInit, ContextInit, UnbindInit, TidyInit DEF IInv
<1>2. IInv /\ [Next]_vars => IInv'
  <2> SUFFICES ASSUME IInv, [Next]_vars PROVE IInv'
    OBVIOUS
  <2>1. TypeOK' /\ ControlOK' /\ PlacedOK' /\ AloneOK' /\ BlockOK' /\ ReadyOK'
    BY TypeStep, ControlStep, PlacedStep, AloneStep, BlockStep, ReadyStep DEF IInv
  <2>2. FunctionOK' /\ ShownOK' /\ ContextOK' /\ TidyOK'
    BY FunctionStep, ShownStep, ContextStep, TidyStep DEF IInv
  <2>3. HereOK' /\ UnbindOK' BY HereStep, UnbindStep
  <2> QED BY <2>1, <2>2, <2>3 DEF IInv
<1> QED BY <1>1, <1>2, PTL DEF Spec

(* Every variable of the xPU initiator keeps its type; in particular the     *)
(* function allocated is one the host has.                                   *)
THEOREM TypeCorrect == Spec => []TypeOK
<1>1. IInv => TypeOK BY DEF IInv
<1> QED BY <1>1, Invariance, PTL

(* phyIDLock works: for any number of volumes and functions, a Connect that  *)
(* allocated a function finds no other volume's device on it.  Exceptions: an*)
(* earlier failure left it there; on hardware, a volume that is being torn   *)
(* down, or one that was unbound on account of a context file left behind.   *)
THEOREM AllocatedFunctionsAreExclusive == Spec => []FunctionsAreExclusive
<1>1. IInv => FunctionsAreExclusive
  <2> SUFFICES ASSUME IInv, "objects" \notin left, Hw => "context" \notin left,
                      NEW v \in Volumes, pc[v] = "create",
                      NEW w \in Occupants(pf[v]) \ {v}
               PROVE  type = "opi-nvme-hw" /\ pc[w] = "teardown"
    BY DEF FunctionsAreExclusive, Hw
  <2>1. PICK k \in OnFunction : w \in Volumes /\ <<k, pf[v]>> \in objects[w] BY DEF Occupants
  <2>2. Sound
    <3>1. <<k, pf[v]>>[1] = k /\ <<k, pf[v]>>[2] = pf[v] OBVIOUS
    <3>2. type = "sma-nvmftcp" => pf[v] = v /\ pf[v] = w
      BY <2>1, <3>1 DEF IInv, ControlOK, Lock, Working, PlacedOK, Placed
    <3> QED BY <3>2 DEF Sound
  <2>3. sysfs[pf[v]] # w
    BY <2>1, <2>2, XpuAssumption DEF IInv, FunctionOK, Working, Slots
  <2>4. (pc[w] \in Working) \/ (Hw /\ pc[w] = "teardown")
    BY <2>1, <2>2, <2>3 DEF IInv, ShownOK
  <2>5. pc[w] \notin Working
    BY <2>1, <2>2 DEF IInv, ControlOK, Lock, Working, Sound
  <2> QED BY <2>4, <2>5 DEF Hw
<1> QED BY <1>1, Invariance, PTL

(* What is mounted as a staged volume is the device of that volume, through  *)
(* any failures but those RightDevice excepts: the mount is of a             *)
(* NodeStageVolume that failed to stash the volume context; virtio-blk, and  *)
(* an earlier attempt left anything; hardware, and a context file was left.  *)
THEOREM StagedVolumesAreRight == Spec => []RightDevice
<1>1. IInv => RightDevice
  BY DEF IInv, RightDevice, HereOK, Here, InUse, Excepted, Hw, ControlOK, Control
<1> QED BY <1>1, Invariance, PTL

(* Wherever a NodeStageVolume fails, after its mount included, and after an  *)
(* acknowledged NodeUnstageVolume, nothing of the volume is left on the xPU  *)
(* or in a context file, as long as no reply, deletion or file operation is  *)
(* lost.                                                                     *)
THEOREM FailuresLeaveNothing == Spec => []NothingLeft
<1>1. IInv => NothingLeft
  BY DEF IInv, NothingLeft, TidyOK, Tidy, ContextOK, InUse, Leaving
<1> QED BY <1>1, Invariance, PTL
=============================================================================
