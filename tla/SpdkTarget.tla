----------------------------- MODULE SpdkTarget ------------------------------
(* The SPDK storage nodes, as pkg/util/nvmf.go and pkg/util/jsonrpc.go use   *)
(* them: logical volumes (lvols) in logical volume stores, and the NVMe-oF   *)
(* subsystem that exports an lvol.  SPDK is not part of the repository; what *)
(* each JSON-RPC method does, and when it is refused, is taken from the      *)
(* methods the driver calls, the replies it parses and the errors it tells   *)
(* apart.                                                                    *)

CONSTANTS
  Nodes,    \* storage nodes, the entries of the controller's config map
  Stores,   \* lvstores over all nodes
  NodeOf,   \* NodeOf[s]: the node of store s
  Lvols,    \* lvol UUIDs SPDK may hand out
  Names,    \* lvol names, which are the names of CreateVolume requests
  None

ASSUME TargetAssumption ==
  /\ Nodes # {} /\ NodeOf \in [Stores -> Nodes]
  /\ None \notin Lvols /\ None \notin Names /\ None \notin Stores
  /\ Lvols \cap Names = {}

VARIABLES
  status,      \* status[l]: a UUID is unborn, then live, then gone for good
  lvs,         \* lvs[l]: the store of l; with lvname[l] it makes the alias lvs/name
  lvname,      \* lvname[l]: the name l was created with
  export,      \* export[l]: the parts of l's subsystem (nqn ...:uuid:l) that exist
  transports   \* nodes that have the NVMe-oF transport

target == <<status, lvs, lvname, export, transports>>

Parts == {"subsystem", "namespace", "listener"}

TargetTypeOK ==
  /\ status \in [Lvols -> {"unborn", "live", "gone"}]
  /\ lvs \in [Lvols -> Stores \cup {None}]
  /\ lvname \in [Lvols -> Names \cup {None}]
  /\ export \in [Lvols -> SUBSET Parts]
  /\ transports \in SUBSET Nodes
  /\ \A l \in Lvols : status[l] # "unborn" => lvs[l] \in Stores /\ lvname[l] \in Names

TargetInit ==
  /\ status = [l \in Lvols |-> "unborn"]
  /\ lvs = [l \in Lvols |-> None]
  /\ lvname = [l \in Lvols |-> None]
  /\ export = [l \in Lvols |-> {}]
  /\ transports = {}

Live(l) == status[l] = "live"

(* bdev_get_bdevs with the name "s/n": the lvol with that alias, if any. *)
Alias(s, n) == {l \in Lvols : Live(l) /\ lvs[l] = s /\ lvname[l] = n}

(* isVolumePublished looks for the listener and for nothing else. *)
Published(l) == "listener" \in export[l]

Exported(l) == export[l] = Parts

-----------------------------------------------------------------------------
(* Methods that change the lvol l or the subsystem named after it.           *)

Methods == {"bdev_lvol_delete", "nvmf_create_transport", "nvmf_create_subsystem",
            "nvmf_subsystem_add_ns", "nvmf_subsystem_add_listener",
            "nvmf_subsystem_remove_ns", "nvmf_delete_subsystem"}

Accepts(m, l) ==
  CASE m = "bdev_lvol_delete" -> Live(l)
    [] m = "nvmf_create_transport" -> NodeOf[lvs[l]] \notin transports
    [] m = "nvmf_create_subsystem" -> "subsystem" \notin export[l]
    [] m = "nvmf_subsystem_add_ns" ->
         Live(l) /\ "subsystem" \in export[l] /\ "namespace" \notin export[l]
    [] m = "nvmf_subsystem_add_listener" ->
         "subsystem" \in export[l] /\ NodeOf[lvs[l]] \in transports
    [] m = "nvmf_subsystem_remove_ns" -> "namespace" \in export[l]
    [] m = "nvmf_delete_subsystem" -> "subsystem" \in export[l]

(* Deleting an lvol hot-removes the namespace that shows it; deleting a      *)
(* subsystem removes its namespaces and listeners with it.                   *)
ExportAfter(m, l) ==
  CASE m = "bdev_lvol_delete" -> export[l] \ {"namespace"}
    [] m = "nvmf_create_transport" -> export[l]
    [] m = "nvmf_create_subsystem" -> {"subsystem"}
    [] m = "nvmf_subsystem_add_ns" -> export[l] \cup {"namespace"}
    [] m = "nvmf_subsystem_add_listener" -> export[l] \cup {"listener"}
    [] m = "nvmf_subsystem_remove_ns" -> export[l] \ {"namespace"}
    [] m = "nvmf_delete_subsystem" -> {}

Serve(m, l) ==
  /\ Accepts(m, l)
  /\ status' = IF m = "bdev_lvol_delete" THEN [status EXCEPT ![l] = "gone"] ELSE status
  /\ export' = [export EXCEPT ![l] = ExportAfter(m, l)]
  /\ transports' = IF m = "nvmf_create_transport"
                     THEN transports \cup {NodeOf[lvs[l]]} ELSE transports
  /\ UNCHANGED <<lvs, lvname>>

(* bdev_lvol_create: refused when the store has that alias already, or has   *)
(* no room (here: when the model's UUIDs are used up).                       *)
AcceptsCreate(s, n) == Alias(s, n) = {} /\ \E l \in Lvols : status[l] = "unborn"

ServeCreate(s, n, l) ==
  /\ Alias(s, n) = {}
  /\ status[l] = "unborn"
  /\ status' = [status EXCEPT ![l] = "live"]
  /\ lvs' = [lvs EXCEPT ![l] = s]
  /\ lvname' = [lvname EXCEPT ![l] = n]
  /\ UNCHANGED <<export, transports>>
=============================================================================
