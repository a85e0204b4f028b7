------------------------------ MODULE KeyedLock ------------------------------
(* What a lock keyed by volume promises its callers: a client asks for the   *)
(* lock of an id, gets it when nobody has it, and gives it back.  How        *)
(* pkg/util/idlocker.go keeps that promise is module VolumeLocks; that the   *)
(* controller server uses it this way is checked from module Controller.     *)

CONSTANTS Clients, Ids, None

VARIABLES
  want,    \* want[c]: the id whose lock client c is waiting for, or None
  holder   \* holder[i]: the client that has the lock of id i, or None

vars == <<want, holder>>

TypeOK ==
  /\ want \in [Clients -> Ids \cup {None}]
  /\ holder \in [Ids -> Clients \cup {None}]

Init ==
  /\ want = [c \in Clients |-> None]
  /\ holder = [i \in Ids |-> None]

Request(c, i) ==
  /\ want[c] = None
  /\ \A j \in Ids : holder[j] # c
  /\ want' = [want EXCEPT ![c] = i]
  /\ UNCHANGED holder

Acquire(c, i) ==
  /\ want[c] = i
  /\ holder[i] = None
  /\ want' = [want EXCEPT ![c] = None]
  /\ holder' = [holder EXCEPT ![i] = c]

Release(c, i) ==
  /\ holder[i] = c
  /\ holder' = [holder EXCEPT ![i] = None]
  /\ UNCHANGED want

(* The locks live in the memory of the process: they end with it. *)
Reset ==
  /\ want' = [c \in Clients |-> None]
  /\ holder' = [i \in Ids |-> None]

Next ==
  \/ \E c \in Clients, i \in Ids : Request(c, i) \/ Acquire(c, i) \/ Release(c, i)
  \/ Reset

Spec == Init /\ [][Next]_vars
=============================================================================
