--------------------------- MODULE SchedulerProofs ---------------------------
(* Proofs about Scheduler, for any size of int64, of a MiB and of clusters,  *)
(* any nodes and stores, and any sizes asked for: CapacityIsHonest,          *)
(* PickHasRoom and FailureMeansFull.                                         *)
EXTENDS Scheduler, WellFoundedInduction, TLAPS

-----------------------------------------------------------------------------
(* Arithmetic.                                                               *)

(* The quotient q of a by b is the number with q * b <= a < (q + 1) * b.     *)
LEMMA Division ==
  ASSUME NEW a \in Int, NEW b \in Nat \ {0}
  PROVE  /\ a \div b \in Int
         /\ (a \div b) * b <= a /\ a < (a \div b) * b + b
         /\ a >= 0 => a \div b \in Nat
  OBVIOUS

(* A multiple has no remainder. *)
LEMMA MultipleHasNoRemainder ==
  ASSUME NEW k \in Int, NEW b \in Nat \ {0}
  PROVE  (k * b) % b = 0
  OBVIOUS

(* Multiplication is monotone. *)
LEMMA TimesIsMonotone ==
  ASSUME NEW a \in Int, NEW b \in Int, NEW m \in Nat, a <= b
  PROVE  a * m <= b * m
  OBVIOUS

(* A multiple of b that is at least a is at least a rounded up to b.         *)
LEMMA RoundUpIsLeast ==
  ASSUME NEW a \in Int, NEW b \in Nat \ {0}
  PROVE  /\ RoundUp(a, b) \in Int
         /\ a <= RoundUp(a, b) /\ RoundUp(a, b) < a + b
         /\ \A k \in Int : a <= k * b => RoundUp(a, b) <= k * b
<1> DEFINE q == (a + b - 1) \div b
<1>1. q \in Int /\ q * b <= a + b - 1 /\ a + b - 1 < q * b + b
  BY Division
<1>2. \A k \in Int : a <= k * b => q <= k
  <2> SUFFICES ASSUME NEW k \in Int, a <= k * b PROVE q <= k
    OBVIOUS
  <2> HIDE DEF q
  <2>1. q * b < (k + 1) * b
    BY <1>1
  <2> QED BY <1>1, <2>1
<1>3. RoundUp(a, b) = q * b
  BY DEF RoundUp
<1> HIDE DEF q
<1>4. \A k \in Int : q <= k => q * b <= k * b
  BY <1>1
<1> QED BY <1>1, <1>2, <1>3, <1>4

(* A set of numbers has a least one. *)
LEMMA LeastNumber ==
  ASSUME NEW S \in SUBSET Nat, S # {}
  PROVE  \E x \in S : \A y \in S : x <= y
<1> DEFINE R == OpToRel(<, Nat)
<1>1. IsWellFoundedOn(R, Nat)
  BY NatLessThanWellFounded, Zenon
<1>2. \A x, y \in S : <<y, x>> \in R <=> y < x
  BY DEF OpToRel
<1> HIDE DEF R
<1>3. \E x \in S : \A y \in S : ~(<<y, x>> \in R)
  BY <1>1, WFMin
<1>4. \E x \in S : \A y \in S : ~(y < x)
  BY <1>2, <1>3, Zenon
<1> QED BY <1>4

(* What the assumptions say of the constants. *)
LEMMA Constants ==
  /\ MaxInt \in Nat /\ K \in Nat \ {0} /\ Mi \in Nat \ {0} /\ Mi = K * K
  /\ Mi <= MaxInt /\ K * Mi \in 1..MaxInt
  /\ \A s \in Stores : ClusterSize[s] \in Nat \ {0} /\ Clusters[s] \in Nat
                       /\ Clusters[s] * ClusterSize[s] <= MaxInt
  BY SchedulerAssumption DEF Mi

(* An int64 is not wrapped. *)
LEMMA WrapIsIdentity == ASSUME NEW x \in Int64 PROVE Wrap(x) = x
<1>1. MaxInt \in Nat
  BY Constants
<1> QED BY <1>1 DEF Wrap, Int64

(* ToMiB rounds up to whole MiB, if adding a MiB does not overflow ...       *)
LEMMA ToMiBRoundsUp ==
  ASSUME NEW s \in 1..MaxInt, s <= MaxInt - Mi + 1
  PROVE  /\ ToMiB(s) \in Nat
         /\ s <= ToMiB(s) * Mi /\ ToMiB(s) * Mi < s + Mi
         /\ ToMiB(s) * Mi <= MaxInt
<1>0. MaxInt \in Nat /\ Mi \in Nat \ {0} /\ Mi <= MaxInt
  BY Constants
<1>1. Wrap(Wrap(s + Mi) - 1) = s + Mi - 1
  <2>1. CASE s + Mi <= MaxInt
    <3>1. Wrap(s + Mi) = s + Mi
      BY <1>0, <2>1, WrapIsIdentity DEF Int64
    <3>2. Wrap(s + Mi - 1) = s + Mi - 1
      BY <1>0, <2>1, WrapIsIdentity DEF Int64
    <3>3. Wrap(s + Mi) - 1 = s + Mi - 1
      BY <1>0, <3>1
    <3> QED BY <3>2, <3>3
  <2>2. CASE s + Mi = MaxInt + 1
    <3>1. Wrap(MaxInt + 1) = -(MaxInt + 1)
      BY <1>0 DEF Wrap
    <3>2. Wrap(-(MaxInt + 1) - 1) = MaxInt
      BY <1>0 DEF Wrap
    <3> QED BY <1>0, <2>2, <3>1, <3>2
  <2> QED BY <1>0, <2>1, <2>2
<1>2. ToMiB(s) = (s + Mi - 1) \div Mi
  BY <1>0, <1>1 DEF ToMiB, Quot
<1>3. /\ ToMiB(s) \in Nat
      /\ ToMiB(s) * Mi <= s + Mi - 1 /\ s + Mi - 1 < ToMiB(s) * Mi + Mi
  BY <1>0, <1>2, Division
<1> QED BY <1>0, <1>3

(* ... and is zero or negative if it does. *)
LEMMA ToMiBOverflows ==
  ASSUME NEW s \in 1..MaxInt, s > MaxInt - Mi + 1
  PROVE  /\ ToMiB(s) \in Int
         /\ ToMiB(s) <= 0
         /\ -(MaxInt + 1) <= ToMiB(s) * Mi /\ ToMiB(s) * Mi <= 0
<1>0. MaxInt \in Nat /\ Mi \in Nat \ {0} /\ Mi <= MaxInt
  BY Constants
<1> DEFINE v == s + Mi - 1 - 2 * (MaxInt + 1)
<1>1. v \in Int /\ -(MaxInt + 1) <= v /\ v < 0
  BY <1>0
<1>2. Wrap(s + Mi) = v + 1
  BY <1>0 DEF Wrap
<1>3. Wrap(v) = v
  BY <1>0, <1>1, WrapIsIdentity DEF Int64
<1> HIDE DEF v
<1>4. ToMiB(s) = -((-v) \div Mi)
  BY <1>0, <1>1, <1>2, <1>3 DEF ToMiB, Quot
<1>5. (-v) \div Mi \in Nat /\ ((-v) \div Mi) * Mi <= -v
  BY <1>0, <1>1, Division
<1> QED BY <1>0, <1>1, <1>4, <1>5

(* Either way the number of bytes is an int64, and so is what is computed on *)
(* the way to it.                                                            *)
LEMMA BytesFit ==
  ASSUME NEW s \in 1..MaxInt
  PROVE  /\ ToMiB(s) \in Int64
         /\ Wrap(ToMiB(s) * Mi) = ToMiB(s) * Mi /\ ToMiB(s) * Mi \in Int64
         /\ Wrap(Wrap(ToMiB(s) * K) * K) = ToMiB(s) * Mi
<1> DEFINE q == ToMiB(s)
<1>0. MaxInt \in Nat /\ K \in Nat \ {0} /\ Mi \in Nat \ {0} /\ Mi = K * K /\ Mi <= MaxInt
  BY Constants
<1>1. q \in Int /\ -(MaxInt + 1) <= q * Mi /\ q * Mi <= MaxInt
  BY <1>0, ToMiBRoundsUp, ToMiBOverflows
<1> HIDE DEF q
<1>2. q * Mi = (q * K) * K
  BY <1>0, <1>1
<1>3. -(MaxInt + 1) <= q * K /\ q * K <= MaxInt
  BY <1>0, <1>1, <1>2
<1>4. -(MaxInt + 1) <= q /\ q <= MaxInt
  BY <1>0, <1>1, <1>3
<1>5. q \in Int64 /\ q * K \in Int64 /\ q * Mi \in Int64
  BY <1>0, <1>1, <1>3, <1>4 DEF Int64
<1> QED BY <1>2, <1>5, WrapIsIdentity DEF q

-----------------------------------------------------------------------------
(* The inductive invariant.                                                  *)

(* From the first call on, the size and the capacity are those of the        *)
(* request.                                                                  *)
SizeOK ==
  /\ pc # "idle" => sizeMiB = ToMiB(Size) /\ capacity = ToMiB(Size) * Mi
  /\ pc = "clone" => snapshot # 0
  /\ pc \in {"schedule", "create", "full"} => snapshot = 0

(* A store is picked once, after its node replied. *)
PickOK ==
  /\ pc \in {"idle", "schedule", "full", "clone"} => pick = None
  /\ pc = "create" => pick \in Stores
  /\ \A s \in Stores : seen[s] <= Clusters[s]
  /\ \A s \in Stores : pick = s => seen[s] # -1

(* Every store that replied so far had too little room, until one is picked. *)
FullOK ==
  pc \in {"schedule", "full"} =>
    \A s \in Stores : seen[s] # -1 => seen[s] * ClusterSize[s] < (sizeMiB + 1) * Mi

(* What was created. *)
LvolOK ==
  pc = "ok" =>
    IF snapshot = 0
    THEN ~Overflows /\ pick \in Stores /\ lvol = RoundUp(capacity, ClusterSize[pick])
    ELSE lvol = snapshot

IInv == TypeOK /\ SizeOK /\ PickOK /\ FullOK /\ LvolOK /\ PickHasRoom

(* The request asks for a positive number of bytes. *)
LEMMA SizeRange == ASSUME TypeOK PROVE Size \in 1..MaxInt
<1>1. K * Mi \in 1..MaxInt
  BY Constants
<1> QED BY <1>1, SchedulerAssumption DEF TypeOK, Size

(* The free MiB that lvStores computes are the free bytes rounded down.      *)
LEMMA FreeSizeRoundsDown ==
  ASSUME TypeOK, NEW s \in Stores
  PROVE  /\ free[s] \in Nat /\ free[s] <= Clusters[s]
         /\ FreeSizeMiB(s) \in Nat
         /\ FreeSizeMiB(s) * Mi <= free[s] * ClusterSize[s]
         /\ free[s] * ClusterSize[s] < (FreeSizeMiB(s) + 1) * Mi
<1>0. /\ MaxInt \in Nat /\ K \in Nat \ {0} /\ Mi \in Nat \ {0} /\ Mi = K * K
      /\ ClusterSize[s] \in Nat \ {0} /\ Clusters[s] \in Nat
      /\ Clusters[s] * ClusterSize[s] <= MaxInt
  BY Constants
<1>1. free[s] \in Nat /\ free[s] <= Clusters[s]
  BY SchedulerAssumption DEF TypeOK, FreeSpace
<1> DEFINE F == free[s] * ClusterSize[s]
           a == F \div K
           q == a \div K
<1>2. F \in Nat /\ F <= MaxInt
  <2>1. F \in Nat
    BY <1>0, <1>1
  <2>2. F <= Clusters[s] * ClusterSize[s]
    BY <1>0, <1>1
  <2> QED BY <1>0, <2>1, <2>2
<1>3. Wrap(F) = F
  BY <1>0, <1>2, WrapIsIdentity DEF Int64
<1> HIDE DEF F
<1>4. a \in Nat /\ a * K <= F /\ F < a * K + K
  BY <1>0, <1>2, Division
<1> HIDE DEF a
<1>5. q \in Nat /\ q * K <= a /\ a < q * K + K
  BY <1>0, <1>4, Division
<1>6. FreeSizeMiB(s) = q
  <2>1. Quot(F, K) = a
    BY <1>2 DEF Quot, a
  <2>2. Quot(a, K) = q
    BY <1>4 DEF Quot
  <2> QED BY <1>3, <2>1, <2>2 DEF FreeSizeMiB, F
<1> HIDE DEF q
<1>7. q * Mi <= F
  <2>1. (q * K) * K <= a * K
    BY <1>0, <1>4, <1>5
  <2> QED BY <1>0, <1>2, <1>4, <1>5, <2>1
<1>8. F < (q + 1) * Mi
  <2>1. a + 1 <= (q + 1) * K
    BY <1>0, <1>4, <1>5
  <2>2. (a + 1) * K <= ((q + 1) * K) * K
    BY <1>0, <1>4, <1>5, <2>1
  <2> QED BY <1>0, <1>2, <1>4, <1>5, <2>2
<1> QED BY <1>1, <1>5, <1>6, <1>7, <1>8 DEF F

(* If schedule finds no store on a node, none has enough space: the first    *)
(* one that had would be found.                                              *)
LEMMA NoFitMeansNone ==
  ASSUME NEW nd \in Nodes, FirstFit(nd) = {}
  PROVE  \A i \in DOMAIN StoresOf[nd] : ~EnoughSpace(StoresOf[nd][i])
<1> DEFINE S == {i \in DOMAIN StoresOf[nd] : EnoughSpace(StoresOf[nd][i])}
<1> SUFFICES ASSUME S # {} PROVE FALSE
  OBVIOUS
<1>1. StoresOf[nd] \in Seq(Stores)
  BY SchedulerAssumption
<1>2. DOMAIN StoresOf[nd] \subseteq Nat \ {0} /\ \A i \in DOMAIN StoresOf[nd] : 1..i \subseteq DOMAIN StoresOf[nd]
  BY <1>1
<1>3. PICK i \in S : \A j \in S : i <= j
  BY <1>2, LeastNumber
<1>4. i \in FirstFit(nd)
  BY <1>2, <1>3 DEF FirstFit
<1> QED BY <1>4

-----------------------------------------------------------------------------
(* Steps.                                                                    *)

(* The CO calls: nothing has been asked of a node yet. *)
LEMMA CallKeepsIInv ==
  ASSUME IInv, CallCreateVolume
  PROVE  IInv'
<1> USE DEF IInv, CallCreateVolume, request
<1> DEFINE q == ToMiB(Size)
<1>0. MaxInt \in Nat /\ Mi \in Nat \ {0} /\ \A s \in Stores : Clusters[s] \in Nat
  BY Constants
<1>1. q \in Int64 /\ Wrap(q * Mi) = q * Mi /\ q * Mi \in Int64
  BY SizeRange, BytesFit
<1>2. Size' = Size /\ (Overflows' <=> Overflows)
  BY DEF Size, Overflows
<1>3. TypeOK'
  <2>1. (q * Mi) % Mi = 0
    <3> HIDE DEF q
    <3>1. q \in Int
      BY <1>0, <1>1 DEF Int64
    <3> QED BY <1>0, <3>1, MultipleHasNoRemainder
  <2> QED BY <1>1, <2>1 DEF TypeOK, FreeSpace
<1>4. SizeOK'
  BY <1>1, <1>2 DEF SizeOK
<1>5. PickOK' /\ FullOK' /\ LvolOK' /\ PickHasRoom'
  BY <1>0, SchedulerAssumption DEF PickOK, FullOK, LvolOK, PickHasRoom
<1> QED BY <1>3, <1>4, <1>5

(* schedule asks a node. *)
LEMMA VisitKeepsIInv ==
  ASSUME IInv, NEW nd \in Nodes, VisitNode(nd)
  PROVE  IInv'
<1> USE DEF IInv
<1>0. /\ MaxInt \in Nat /\ Mi \in Nat \ {0}
      /\ \A s \in Stores : ClusterSize[s] \in Nat \ {0} /\ Clusters[s] \in Nat
      /\ StoresOf[nd] \in Seq(Stores) /\ None \notin Stores
  BY Constants, SchedulerAssumption
<1>1. /\ pc = "schedule" /\ pick = None /\ snapshot = 0
      /\ UNCHANGED <<want, snapshot, free, sizeMiB, capacity, lvol, moves>>
      /\ todo' \in SUBSET Nodes
  BY DEF VisitNode, PickOK, SizeOK, TypeOK, request
<1>2. Size' = Size /\ (Overflows' <=> Overflows)
  BY <1>1 DEF Size, Overflows
<1>3. sizeMiB \in Int /\ \A s \in Stores : seen[s] \in Nat \cup {-1}
  BY <1>0 DEF TypeOK, Int64
<1>4. CASE /\ Fault
           /\ pc' = IF todo' = {} THEN "full" ELSE "schedule"
           /\ UNCHANGED <<seen, pick>>
  <2>1. faults' \in 0..MaxFaults
    BY <1>4, SchedulerAssumption DEF Fault, TypeOK
  <2>2. TypeOK'
    BY <1>1, <1>4, <2>1 DEF TypeOK, FreeSpace
  <2>3. SizeOK' /\ PickOK' /\ FullOK' /\ LvolOK' /\ PickHasRoom'
    BY <1>1, <1>2, <1>4 DEF SizeOK, PickOK, FullOK, LvolOK, PickHasRoom
  <2> QED BY <2>2, <2>3
<1>5. CASE /\ seen' = [s \in Stores |->
                IF \E i \in DOMAIN StoresOf[nd] : StoresOf[nd][i] = s THEN free[s] ELSE seen[s]]
           /\ UNCHANGED faults
           /\ \/ /\ \E i \in FirstFit(nd) : pick' = StoresOf[nd][i]
                 /\ pc' = "create"
              \/ /\ FirstFit(nd) = {}
                 /\ pc' = IF todo' = {} THEN "full" ELSE "schedule"
                 /\ UNCHANGED pick
  <2>1. \A s \in Stores : seen'[s] \in Nat \cup {-1} /\ seen'[s] <= Clusters[s]
    BY <1>0, <1>3, <1>5, FreeSizeRoundsDown DEF PickOK
  <2>2. seen' \in [Stores -> Nat \cup {-1}]
    BY <1>5, <2>1
  <2>3. CASE /\ \E i \in FirstFit(nd) : pick' = StoresOf[nd][i]
             /\ pc' = "create"
    <3>1. PICK i \in FirstFit(nd) : pick' = StoresOf[nd][i]
      BY <2>3
    <3>2. /\ i \in DOMAIN StoresOf[nd] /\ pick' \in Stores /\ EnoughSpace(pick')
      BY <1>0, <3>1 DEF FirstFit
    <3> DEFINE s == pick'
               F == free[s] * ClusterSize[s]
    <3>3. seen'[s] = free[s] /\ seen'[s] # -1
      BY <1>5, <3>1, <3>2, FreeSizeRoundsDown
    <3>4. /\ FreeSizeMiB(s) \in Nat /\ FreeSizeMiB(s) * Mi <= F /\ free[s] \in Nat
          /\ FreeSizeMiB(s) > sizeMiB
      BY <3>2, FreeSizeRoundsDown DEF EnoughSpace
    <3>5. sizeMiB * Mi <= F
      <4>1. sizeMiB * Mi <= FreeSizeMiB(s) * Mi
        <5>1. sizeMiB <= FreeSizeMiB(s) /\ FreeSizeMiB(s) \in Int
          BY <1>3, <3>4
        <5> QED BY <1>0, <1>3, <5>1, TimesIsMonotone
      <4> QED BY <1>0, <1>3, <3>2, <3>4, <4>1
    <3>6. RoundUp(sizeMiB * Mi, ClusterSize[s]) <= F
      <4>1. sizeMiB * Mi \in Int /\ ClusterSize[s] \in Nat \ {0} /\ free[s] \in Int
        BY <1>0, <1>3, <3>2, <3>4
      <4> QED BY <3>5, <4>1, RoundUpIsLeast
    <3>7. PickHasRoom'
      BY <1>0, <1>1, <1>3, <3>2, <3>3, <3>4, <3>6, RoundUpIsLeast DEF PickHasRoom
    <3>8. TypeOK'
      BY <1>1, <1>5, <2>2, <2>3, <3>2 DEF TypeOK, FreeSpace
    <3>9. SizeOK' /\ PickOK' /\ FullOK' /\ LvolOK'
      BY <1>0, <1>1, <1>2, <2>1, <2>3, <3>2, <3>3 DEF SizeOK, PickOK, FullOK, LvolOK
    <3> QED BY <3>7, <3>8, <3>9
  <2>4. CASE /\ FirstFit(nd) = {}
             /\ pc' = IF todo' = {} THEN "full" ELSE "schedule"
             /\ UNCHANGED pick
    <3>1. ASSUME NEW i \in DOMAIN StoresOf[nd]
          PROVE  free[StoresOf[nd][i]] * ClusterSize[StoresOf[nd][i]] < (sizeMiB + 1) * Mi
      <4> DEFINE s == StoresOf[nd][i]
                 f == FreeSizeMiB(s)
      <4>1. s \in Stores /\ ~EnoughSpace(s)
        BY <1>0, <2>4, NoFitMeansNone
      <4>2. /\ f \in Nat /\ free[s] \in Nat
            /\ free[s] * ClusterSize[s] < (f + 1) * Mi
        BY <4>1, FreeSizeRoundsDown
      <4>3. f <= sizeMiB
        BY <1>3, <4>1, <4>2 DEF EnoughSpace
      <4> HIDE DEF f
      <4>4. (f + 1) * Mi <= (sizeMiB + 1) * Mi
        BY <1>0, <1>3, <4>2, <4>3, TimesIsMonotone
      <4>5. free[s] * ClusterSize[s] \in Int /\ (f + 1) * Mi \in Int /\ (sizeMiB + 1) * Mi \in Int
        BY <1>0, <1>3, <4>1, <4>2
      <4> QED BY <4>2, <4>4, <4>5
    <3>2. \A s \in Stores : seen'[s] # -1 => seen'[s] * ClusterSize[s] < (sizeMiB + 1) * Mi
      BY <1>1, <1>5, <3>1 DEF FullOK
    <3>3. TypeOK'
      BY <1>1, <1>5, <2>2, <2>4 DEF TypeOK, FreeSpace
    <3>4. SizeOK' /\ PickOK' /\ FullOK' /\ LvolOK' /\ PickHasRoom'
      BY <1>0, <1>1, <1>2, <2>1, <2>4, <3>2 DEF SizeOK, PickOK, FullOK, LvolOK, PickHasRoom
    <3> QED BY <3>3, <3>4
  <2> QED BY <1>5, <2>3, <2>4
<1> QED BY <1>4, <1>5 DEF VisitNode

(* rpcClient.createVolume creates the lvol; only a size that did not         *)
(* overflow is accepted.                                                     *)
LEMMA CreateKeepsIInv ==
  ASSUME IInv, Create
  PROVE  IInv'
<1> USE DEF IInv
<1> DEFINE bytes == Wrap(Wrap(sizeMiB * K) * K)
<1>0. /\ MaxInt \in Nat /\ Mi \in Nat \ {0} /\ None \notin Stores
      /\ \A s \in Stores : /\ ClusterSize[s] \in Nat \ {0} /\ Clusters[s] \in Nat
                           /\ Clusters[s] * ClusterSize[s] <= MaxInt
  BY Constants, SchedulerAssumption
<1>1. /\ pc = "create" /\ pick \in Stores /\ snapshot = 0 /\ pc' \in {"ok", "err"}
      /\ sizeMiB = ToMiB(Size) /\ capacity = ToMiB(Size) * Mi
      /\ UNCHANGED <<want, snapshot, free, sizeMiB, capacity, todo, seen, pick, moves>>
  BY DEF Create, PickOK, SizeOK, request
<1>2. Size' = Size /\ (Overflows' <=> Overflows) /\ Size \in 1..MaxInt
  BY <1>1, SizeRange DEF Size, Overflows
<1>3. bytes = capacity
  BY <1>1, <1>2, BytesFit
<1>4. bytes > 0 => ~Overflows
  <2>1. Overflows => capacity <= 0
    BY <1>1, <1>2, ToMiBOverflows DEF Overflows
  <2>2. capacity \in Int
    BY <1>0 DEF TypeOK, Int64
  <2> QED BY <1>3, <2>1, <2>2
<1>5. SizeOK' /\ PickOK' /\ FullOK'
  BY <1>0, <1>1, <1>2 DEF SizeOK, PickOK, FullOK
<1>6. PickHasRoom'
  BY <1>1, <1>2 DEF PickHasRoom
<1>7. CASE bytes > 0 /\ lvol' = RoundUp(bytes, ClusterSize[pick]) /\ pc' = "ok" /\ UNCHANGED faults
  <2> DEFINE c == ClusterSize[pick]
  <2>1. seen[pick] * c >= RoundUp(capacity, c)
    BY <1>0, <1>1, <1>4, <1>7 DEF PickHasRoom
  <2>2. seen[pick] \in Nat \cup {-1} /\ seen[pick] <= Clusters[pick] /\ c \in Nat \ {0}
    BY <1>0, <1>1 DEF TypeOK, PickOK
  <2>3. seen[pick] * c <= Clusters[pick] * c
    BY <1>0, <1>1, <2>2, TimesIsMonotone
  <2>4. capacity \in Int /\ RoundUp(capacity, c) \in Int /\ capacity <= RoundUp(capacity, c)
    <3>1. capacity \in Int
      BY <1>0 DEF TypeOK, Int64
    <3> HIDE DEF c
    <3> QED BY <2>2, <3>1, RoundUpIsLeast
  <2>5. RoundUp(capacity, c) \in 0..MaxInt
    <3>1. seen[pick] * c \in Int /\ Clusters[pick] * c \in Int /\ Clusters[pick] * c <= MaxInt
      BY <1>0, <1>1, <2>2
    <3> QED BY <1>0, <1>3, <1>7, <2>1, <2>3, <2>4, <3>1
  <2>6. lvol' = RoundUp(capacity, c) /\ lvol' \in 0..MaxInt
    BY <1>3, <1>7, <2>5
  <2>7. TypeOK'
    BY <1>1, <1>7, <2>6 DEF TypeOK, FreeSpace
  <2>8. LvolOK'
    BY <1>1, <1>2, <1>4, <1>7, <2>6 DEF LvolOK
  <2> QED BY <1>5, <1>6, <2>7, <2>8
<1>8. CASE pc' = "err" /\ UNCHANGED lvol /\ (Fault \/ UNCHANGED faults)
  <2>1. faults' \in 0..MaxFaults
    BY <1>8, SchedulerAssumption DEF Fault, TypeOK
  <2>2. TypeOK' /\ LvolOK'
    BY <1>1, <1>8, <2>1 DEF TypeOK, FreeSpace, LvolOK
  <2> QED BY <1>5, <1>6, <2>2
<1> QED BY <1>7, <1>8 DEF Create

(* CloneVolume. *)
LEMMA CloneKeepsIInv ==
  ASSUME IInv, Clone
  PROVE  IInv'
<1> USE DEF IInv, Clone, request
<1>1. Size' = Size /\ (Overflows' <=> Overflows) /\ snapshot \in 1..MaxInt
  BY SchedulerAssumption DEF Size, Overflows, TypeOK, SizeOK
<1>2. faults' \in 0..MaxFaults
  BY SchedulerAssumption DEF Fault, TypeOK
<1>3. TypeOK'
  BY <1>1, <1>2 DEF TypeOK, FreeSpace
<1>4. SizeOK' /\ PickOK' /\ FullOK' /\ LvolOK' /\ PickHasRoom'
  BY <1>1, SchedulerAssumption DEF SizeOK, PickOK, FullOK, LvolOK, PickHasRoom
<1> QED BY <1>3, <1>4

(* Users fill or empty a store. *)
LEMMA FreeSpaceKeepsIInv ==
  ASSUME IInv, FreeSpaceChanges
  PROVE  IInv'
<1> USE DEF IInv, FreeSpaceChanges, request
<1>1. Size' = Size /\ (Overflows' <=> Overflows)
  BY DEF Size, Overflows
<1>2. free' \in FreeSpace
  BY DEF TypeOK, FreeSpace
<1>3. moves' \in 0..MaxMoves
  BY SchedulerAssumption DEF TypeOK
<1>4. TypeOK'
  BY <1>2, <1>3 DEF TypeOK
<1>5. SizeOK' /\ PickOK' /\ FullOK' /\ LvolOK' /\ PickHasRoom'
  BY <1>1 DEF SizeOK, PickOK, FullOK, LvolOK, PickHasRoom
<1> QED BY <1>4, <1>5

(* Nothing has been asked for yet. *)
LEMMA InitIInv == Init => IInv
<1> SUFFICES ASSUME Init PROVE IInv
  OBVIOUS
<1>0. MaxInt \in Nat /\ Mi \in Nat \ {0} /\ \A s \in Stores : Clusters[s] \in Nat
  BY Constants
<1>1. 0 \in Int64 /\ 0 % Mi = 0 /\ 0 \in 0..MaxInt /\ 0 \in 0..MaxFaults /\ 0 \in 0..MaxMoves
  BY <1>0, SchedulerAssumption DEF Int64
<1>2. TypeOK
  BY <1>1 DEF Init, TypeOK
<1>3. SizeOK /\ PickOK /\ FullOK /\ LvolOK /\ PickHasRoom
  BY <1>0, SchedulerAssumption DEF Init, SizeOK, PickOK, FullOK, LvolOK, PickHasRoom
<1> QED BY <1>2, <1>3 DEF IInv

(* Every step keeps the invariant. *)
LEMMA NextIInv == IInv /\ [Next]_vars => IInv'
<1> SUFFICES ASSUME IInv, [Next]_vars PROVE IInv'
  OBVIOUS
<1>1. CASE CallCreateVolume
  BY <1>1, CallKeepsIInv
<1>2. CASE \E nd \in Nodes : VisitNode(nd)
  BY <1>2, VisitKeepsIInv
<1>3. CASE Create
  BY <1>3, CreateKeepsIInv
<1>4. CASE Clone
  BY <1>4, CloneKeepsIInv
<1>5. CASE FreeSpaceChanges
  BY <1>5, FreeSpaceKeepsIInv
<1>6. CASE UNCHANGED vars
  <2>1. Size' = Size /\ (Overflows' <=> Overflows)
    BY <1>6 DEF Size, Overflows, vars, request
  <2>2. TypeOK'
    BY <1>6 DEF IInv, TypeOK, vars, request
  <2>3. SizeOK' /\ PickOK' /\ FullOK' /\ LvolOK' /\ PickHasRoom'
    BY <1>6, <2>1 DEF IInv, SizeOK, PickOK, FullOK, LvolOK, PickHasRoom, vars, request
  <2> QED BY <2>2, <2>3 DEF IInv
<1> QED BY <1>1, <1>2, <1>3, <1>4, <1>5, <1>6 DEF Next, Step, Done

-----------------------------------------------------------------------------
(* The results.                                                              *)

(* The inductive invariant holds in every reachable state. *)
THEOREM InductiveInvariant == Spec => []IInv
  BY InitIInv, NextIInv, PTL DEF Spec

(* Every variable keeps its type: no size leaves the range of an int64, and  *)
(* the capacity of a response is a number of MiB.                            *)
THEOREM TypeCorrect == Spec => []TypeOK
<1>1. IInv => TypeOK
  BY DEF IInv
<1> QED BY <1>1, InductiveInvariant, PTL

(* The store that schedule picks had room for the volume, in whole clusters. *)
THEOREM PickedStoreHasRoom == Spec => []PickHasRoom
<1>1. IInv => PickHasRoom
  BY DEF IInv
<1> QED BY <1>1, InductiveInvariant, PTL

(* schedule gives up only when every store that replied had less room than   *)
(* the volume and a MiB more.                                                *)
THEOREM GivingUpMeansFull == Spec => []FailureMeansFull
<1>1. IInv => FailureMeansFull
  BY DEF IInv, FullOK, FailureMeansFull
<1> QED BY <1>1, InductiveInvariant, PTL

(* CreateVolume's response states the size of the volume, which is what was  *)
(* asked for rounded up to a MiB, whatever the size, unless the volume is a  *)
(* clone of a smaller snapshot.                                              *)
THEOREM ReportedCapacityIsHonest == Spec => []CapacityIsHonest
<1>1. ASSUME IInv, pc = "ok", snapshot = 0 \/ Size <= snapshot
      PROVE  Size <= capacity /\ capacity < Size + Mi /\ capacity <= lvol
  <2>0. /\ MaxInt \in Nat /\ Mi \in Nat \ {0} /\ Mi <= MaxInt /\ (MaxInt + 1) % Mi = 0
        /\ \A s \in Stores : ClusterSize[s] \in Nat \ {0}
    BY Constants, SchedulerAssumption
  <2>1. Size \in 1..MaxInt /\ capacity = ToMiB(Size) * Mi
    BY <1>1, SizeRange DEF IInv, SizeOK
  <2>2. snapshot # 0 => snapshot \in 1..MaxInt /\ snapshot % Mi = 0
    BY <1>1, SchedulerAssumption DEF IInv, TypeOK
  <2>3. snapshot # 0 => snapshot <= MaxInt - Mi + 1
    <3> SUFFICES ASSUME snapshot # 0 PROVE snapshot <= MaxInt - Mi + 1
      OBVIOUS
    <3> DEFINE a == snapshot \div Mi
               b == (MaxInt + 1) \div Mi
    <3>1. a \in Int /\ b \in Int /\ snapshot = a * Mi /\ MaxInt + 1 = b * Mi
      BY <2>0, <2>2
    <3> HIDE DEF a, b
    <3>2. a < b
      BY <2>0, <2>2, <3>1
    <3>3. (a + 1) * Mi <= b * Mi
      BY <2>0, <3>1, <3>2
    <3> QED BY <2>0, <2>2, <3>1, <3>3
  <2>4. Size <= MaxInt - Mi + 1
    <3>1. CASE snapshot = 0
      BY <1>1, <2>0, <2>1, <3>1 DEF IInv, LvolOK, Overflows
    <3>2. CASE snapshot # 0
      BY <1>1, <2>0, <2>1, <2>2, <2>3, <3>2
    <3> QED BY <3>1, <3>2
  <2>5. ToMiB(Size) \in Nat /\ Size <= capacity /\ capacity < Size + Mi
    BY <2>1, <2>4, ToMiBRoundsUp
  <2>6. capacity <= lvol
    <3>1. CASE snapshot = 0
      <4>1. lvol = RoundUp(capacity, ClusterSize[pick]) /\ pick \in Stores
        BY <1>1, <3>1 DEF IInv, LvolOK
      <4>2. capacity \in Int
        BY <2>0, <2>1, <2>5
      <4> QED BY <2>0, <4>1, <4>2, RoundUpIsLeast
    <3>2. CASE snapshot # 0
      <4> DEFINE a == snapshot \div Mi
                 q == ToMiB(Size)
      <4>1. lvol = snapshot /\ Size <= snapshot
        BY <1>1, <3>2 DEF IInv, LvolOK
      <4>2. a \in Int /\ snapshot = a * Mi
        BY <2>0, <2>2, <3>2
      <4>3. q \in Int /\ q * Mi < a * Mi + Mi
        BY <2>0, <2>1, <2>2, <2>5, <3>2, <4>1, <4>2
      <4> HIDE DEF a, q
      <4>4. q <= a
        BY <2>0, <4>2, <4>3
      <4>5. q * Mi <= a * Mi
        BY <2>0, <4>2, <4>3, <4>4, TimesIsMonotone
      <4> QED BY <2>1, <4>1, <4>2, <4>5 DEF q
    <3> QED BY <3>1, <3>2
  <2> QED BY <2>5, <2>6
<1>2. IInv => CapacityIsHonest
  BY <1>1 DEF CapacityIsHonest
<1> QED BY <1>2, InductiveInvariant, PTL
=============================================================================
