---------------------- MODULE SqlExecutionQueueProofs ----------------------
(***************************************************************************)
(* Proofs about SqlExecutionQueue, for every set of requests and every cap. *)
(***************************************************************************)
EXTENDS SqlExecutionQueue, QueueLemmas, FiniteSetTheorems, TLAPS

\* A leaf that names no prover is one for Zenon.
USE ZenonT(30)

\* Each lane holds requests of its own kind, none of them twice.
LaneShape ==
  \A k \in LaneKinds : Injective(queues[k]) /\ \A r \in Range(queues[k]) : Kind[r] = k

\* A request in a lane still waits to be started.
QueuedOK(r) ==
  /\ ValidWeight(r)
  /\ caller[r] = "waiting"
  /\ completer[r] = "pending"
  /\ ~hasStarted[r] /\ ~isCancelled[r] /\ ~startedCompleter[r] /\ ~workerSlotReleased[r]

\* queuedCount counts the requests in the lanes.
CountOK ==
  /\ queuedCount = Cardinality(Queued)
  /\ queuedCount <= MaxQueueSize

\* How the fields of one request go together.
RequestOK(r) ==
  /\ hasStarted[r] => startedCompleter[r] /\ ValidWeight(r)
  /\ ~hasStarted[r] => task[r] = "idle"
  /\ hasStarted[r] /\ ~workerSlotReleased[r] => task[r] = "running"
  /\ completer[r] \in {"cancelledBeforeStart", "disposedWhileQueued"} => ~hasStarted[r]
  /\ caller[r] = "new" =>
       /\ completer[r] = "pending"
       /\ ~hasStarted[r] /\ ~isCancelled[r] /\ ~startedCompleter[r] /\ ~workerSlotReleased[r]
  /\ caller[r] \in NotStarted => ~hasStarted[r]
  /\ caller[r] \in {"new"} \cup NotStarted => r \notin Queued

\* What shutdown has reached.
ShutdownOK ==
  /\ drained # "absent" => disposed
  /\ disposed /\ loop # "flush" => queuedCount = 0
  /\ loop = "flush" => disposed /\ drained # "complete"
  /\ DrainedMeansIdle

\* The inductive invariant.
IndInv ==
  /\ TypeOK
  /\ LaneShape
  /\ \A r \in Queued : QueuedOK(r)
  /\ CountOK
  /\ \A r \in Requests : RequestOK(r)
  /\ CapacityExact
  /\ ShutdownOK
  /\ NoLostWakeup
  /\ abortRequested = {}

-----------------------------------------------------------------------------

(* Every lane has an index of the rotation and every index a lane. *)
LEMMA LanesAreIndexed ==
  /\ \A i \in LaneIndexes : LaneOrder[i + 1] \in LaneKinds
  /\ \A k \in LaneKinds : \E i \in LaneIndexes : LaneOrder[i + 1] = k
<1>1. LaneIndexes = 0 .. 5
  BY SMT DEF LaneIndexes, LaneCount
<1>2. \A i \in LaneIndexes : LaneOrder[i + 1] \in LaneKinds
  BY SMT, <1>1 DEF LaneOrder, LaneKinds
<1>3. /\ LaneOrder[0 + 1] = "query" /\ LaneOrder[1 + 1] = "shortQuery"
      /\ LaneOrder[2 + 1] = "longQuery" /\ LaneOrder[3 + 1] = "nonQuery"
      /\ LaneOrder[4 + 1] = "batch" /\ LaneOrder[5 + 1] = "streaming"
  BY SMT DEF LaneOrder
<1> QED
  BY SMT, <1>1, <1>2, <1>3 DEF LaneKinds

(* _takeNext serves one of the candidate lanes whenever there is one. *)
LEMMA NextLaneIsCandidate ==
  ASSUME NEW C \in SUBSET LaneIndexes, C # {},
         NEW last \in LaneIndexes \cup {-1}
  PROVE  /\ NextLane(C, last) \in C
         /\ \A j \in C : Offset(NextLane(C, last), last) <= Offset(j, last)
<1> DEFINE T == {Offset(j, last) : j \in C}
<1>1. \A j \in C : Offset(j, last) \in 0 .. 5
  BY SMT DEF LaneIndexes, LaneCount, Offset
<1>2. T \subseteq 0 .. 5 /\ T # {}
  BY <1>1
<1>3. PICK x \in T : \A y \in T : x <= y
  <2> HIDE DEF T
  <2>0. PICK e \in T : e = 0 \/ e = 1 \/ e = 2 \/ e = 3 \/ e = 4 \/ e = 5
    <3>1. PICK e \in T : TRUE
      BY <1>2
    <3>2. e \in 0 .. 5
      BY <1>2, <3>1
    <3> QED
      BY SMT, <3>1, <3>2
  <2>1. \/ 0 \in T
        \/ 0 \notin T /\ 1 \in T
        \/ 0 \notin T /\ 1 \notin T /\ 2 \in T
        \/ 0 \notin T /\ 1 \notin T /\ 2 \notin T /\ 3 \in T
        \/ 0 \notin T /\ 1 \notin T /\ 2 \notin T /\ 3 \notin T /\ 4 \in T
        \/ 0 \notin T /\ 1 \notin T /\ 2 \notin T /\ 3 \notin T /\ 4 \notin T /\ 5 \in T
    BY <2>0
  <2> QED
    BY SMT, <1>2, <2>1
<1>4. PICK i \in C : x = Offset(i, last)
  OBVIOUS
<1>5. \A j \in C : Offset(i, last) <= Offset(j, last)
  BY <1>3, <1>4
<1> QED
  BY <1>5 DEF NextLane

(* Starting one more holder takes exactly its slots, of its own lane only. *)
LEMMA AddHolder ==
  ASSUME NEW H \in SUBSET Requests, NEW r \in Requests, r \notin H,
         ValidWeight(r), NEW k \in CappedLanes
  PROVE  /\ IsFiniteSet(SlotSet(H, k))
         /\ Cardinality(SlotSet(H, k)) \in Nat
         /\ Cardinality(SlotSet(H \cup {r}, k)) =
              Cardinality(SlotSet(H, k)) + (IF Kind[r] = k THEN SlotsOf(r) ELSE 0)
<1>1. LaneCap[k] \in Nat \ {0} /\ IsFiniteSet(Requests)
  BY LaneConstants
<1>2. IsFiniteSet(H) /\ IsFiniteSet(1 .. LaneCap[k])
  <2>1. IsFiniteSet(H)
    BY <1>1, FS_Subset
  <2>2. 1 \in Int /\ LaneCap[k] \in Int
    BY SMT, <1>1
  <2>3. IsFiniteSet(1 .. LaneCap[k])
    BY <2>2, FS_Interval
  <2> QED
    BY <2>1, <2>3
<1>3. IsFiniteSet(H \X (1 .. LaneCap[k]))
  BY <1>2, FS_Product
<1>4. SlotSet(H, k) \subseteq H \X (1 .. LaneCap[k])
  BY DEF SlotSet
<1>5. IsFiniteSet(SlotSet(H, k)) /\ Cardinality(SlotSet(H, k)) \in Nat
  BY <1>3, <1>4, FS_Subset, FS_CardinalityType
<1>6. CASE Kind[r] # k
  <2>1. \A s : s \in SlotSet(H \cup {r}, k) <=> s \in SlotSet(H, k)
    BY <1>6 DEF SlotSet
  <2>2. SlotSet(H \cup {r}, k) = SlotSet(H, k)
    BY <2>1
  <2> QED
    BY SMTT(20), <1>5, <1>6, <2>2
<1>7. CASE Kind[r] = k
  <2> DEFINE n == SlotsOf(r)
             D == {r} \X (1 .. n)
  <2>1. n \in Nat /\ n >= 1 /\ n <= LaneCap[k]
    BY SMTT(20), <1>1, <1>7, LaneConstants DEF SlotsOf, ValidWeight
  <2>2. IsFiniteSet(1 .. n) /\ Cardinality(1 .. n) = n
    BY SMT, <2>1, FS_Interval
  <2>3. IsFiniteSet({r}) /\ Cardinality({r}) = 1
    BY FS_Singleton
  <2>4. IsFiniteSet(D) /\ Cardinality(D) = n
    <3>1. IsFiniteSet(D) /\ Cardinality(D) = 1 * n
      <4>1. /\ IsFiniteSet({r} \X (1 .. n))
            /\ Cardinality({r} \X (1 .. n)) = Cardinality({r}) * Cardinality(1 .. n)
        BY <2>2, <2>3, FS_Product
      <4> QED
        BY <2>2, <2>3, <4>1
    <3> QED
      BY SMT, <2>1, <3>1
  <2>5. SlotSet(H \cup {r}, k) = SlotSet(H, k) \cup D
    BY SMTT(20), <1>1, <1>7, <2>1 DEF SlotSet
  <2>6. SlotSet(H, k) \cap D = {}
    BY <1>4
  <2>7. Cardinality(SlotSet(H, k) \cup D) = Cardinality(SlotSet(H, k)) + Cardinality(D)
    <3> HIDE DEF D
    <3> QED
      BY <1>5, <2>4, <2>6, DisjointUnion
  <2>8. Cardinality(SlotSet(H \cup {r}, k)) = Cardinality(SlotSet(H, k)) + n
    BY <2>4, <2>5, <2>7
  <2> QED
    BY <1>5, <1>7, <2>8
<1> QED
  BY <1>5, <1>6, <1>7

-----------------------------------------------------------------------------

(* Replacing the queue of one lane changes the queued requests of that lane. *)
LEMMA ReplaceLane ==
  ASSUME TypeOK, LaneShape, NEW k \in LaneKinds, NEW q \in Seq(Requests),
         Injective(q), \A r \in Range(q) : Kind[r] = k,
         queues' = [queues EXCEPT ![k] = q]
  PROVE  /\ LaneShape'
         /\ queues' \in [LaneKinds -> Seq(Requests)]
         /\ Queued' = (Queued \ Range(queues[k])) \cup Range(q)
<1>1. /\ queues' \in [LaneKinds -> Seq(Requests)]
      /\ queues'[k] = q
      /\ \A j \in LaneKinds \ {k} : queues'[j] = queues[j]
  BY DEF TypeOK
<1>2. LaneShape'
  BY <1>1 DEF LaneShape
<1>3. ASSUME NEW r
      PROVE  r \in Queued' <=> r \in (Queued \ Range(queues[k])) \cup Range(q)
  <2>1. r \in Queued' <=> \E j \in LaneKinds : r \in Range(queues'[j])
    BY DEF Queued
  <2>2. r \in Queued <=> \E j \in LaneKinds : r \in Range(queues[j])
    BY DEF Queued
  <2>3. \A j \in LaneKinds \ {k} : r \in Range(queues[j]) => r \notin Range(queues[k])
    BY DEF LaneShape
  <2> QED
    BY <1>1, <2>1, <2>2, <2>3
<1> QED
  BY <1>1, <1>2, <1>3

(* The elements of the lanes are requests, and there are finitely many. *)
LEMMA QueuedFinite ==
  ASSUME TypeOK
  PROVE  /\ Queued \subseteq Requests
         /\ IsFiniteSet(Queued)
         /\ Cardinality(Queued) \in Nat
<1>1. \A k \in LaneKinds : Range(queues[k]) \subseteq Requests
  BY SMT DEF TypeOK, Range
<1>2. Queued \subseteq Requests
  BY <1>1 DEF Queued
<1> QED
  BY <1>2, LaneConstants, FS_Subset, FS_CardinalityType

(* takeNextEligible and takeNextQueued take one request out of the lanes. *)
LEMMA TakeHeadOfLane ==
  ASSUME TypeOK, LaneShape, NEW i \in NonEmptyLanes, TakeHead(i)
  PROVE  /\ HeadOf(i) \in Queued
         /\ HeadOf(i) \in Requests
         /\ Kind[HeadOf(i)] = LaneOrder[i + 1]
         /\ Queued' = Queued \ {HeadOf(i)}
         /\ LaneShape'
         /\ queues' \in [LaneKinds -> Seq(Requests)]
         /\ Cardinality(Queued') = Cardinality(Queued) - 1
<1> DEFINE k == LaneOrder[i + 1]
           q == queues[k]
<1>1. k \in LaneKinds /\ q # <<>>
  BY LanesAreIndexed DEF NonEmptyLanes
<1>2. q \in Seq(Requests) /\ Injective(q) /\ \A r \in Range(q) : Kind[r] = k
  BY <1>1 DEF TypeOK, LaneShape
<1> HIDE DEF q
<1>3. /\ Tail(q) \in Seq(Requests)
      /\ Head(q) \in Range(q)
      /\ Injective(Tail(q))
      /\ Range(Tail(q)) = Range(q) \ {Head(q)}
  BY <1>1, <1>2, TailOfQueue
<1>4. queues' = [queues EXCEPT ![k] = Tail(q)]
  BY DEF TakeHead, q
<1> HIDE DEF k
<1>5. /\ LaneShape'
      /\ queues' \in [LaneKinds -> Seq(Requests)]
      /\ Queued' = (Queued \ Range(queues[k])) \cup Range(Tail(q))
  BY <1>1, <1>2, <1>3, <1>4, ReplaceLane
<1>6. Range(q) \subseteq Queued
  BY <1>1 DEF Queued, q
<1>7. Queued' = Queued \ {Head(q)}
  BY <1>3, <1>5, <1>6 DEF q
<1>8. HeadOf(i) = Head(q)
  BY DEF HeadOf, q, k
<1>9. Cardinality(Queued \ {Head(q)}) = Cardinality(Queued) - 1
  BY <1>3, <1>6, QueuedFinite, FS_RemoveElement
<1> QED
  BY <1>2, <1>3, <1>5, <1>6, <1>7, <1>8, <1>9, QueuedFinite DEF k

(* SqlExecutionLaneRegistry.remove takes that request out of the lanes. *)
LEMMA RemoveFromLanes ==
  ASSUME TypeOK, LaneShape, NEW r \in Requests, r \in Range(queues[Kind[r]]), RemoveQueued(r)
  PROVE  /\ r \in Queued
         /\ Queued' = Queued \ {r}
         /\ LaneShape'
         /\ queues' \in [LaneKinds -> Seq(Requests)]
         /\ Cardinality(Queued') = Cardinality(Queued) - 1
<1> DEFINE k == Kind[r]
           q == queues[k]
<1>1. k \in LaneKinds
  BY LaneConstants
<1>2. q \in Seq(Requests) /\ Injective(q) /\ (\A e \in Range(q) : Kind[e] = k) /\ r \in Range(q)
  <2>1. q \in Seq(Requests)
    BY <1>1 DEF TypeOK
  <2>2. Injective(q) /\ \A e \in Range(q) : Kind[e] = k
    BY <1>1 DEF LaneShape
  <2> QED
    BY <2>1, <2>2
<1> HIDE DEF q
<1>3. /\ Remove(q, r) \in Seq(Requests)
      /\ Injective(Remove(q, r))
      /\ Range(Remove(q, r)) = Range(q) \ {r}
  BY <1>2, RemoveFromQueue
<1>4. queues' = [queues EXCEPT ![k] = Remove(q, r)]
  BY DEF RemoveQueued, q
<1> HIDE DEF k
<1>5. /\ LaneShape'
      /\ queues' \in [LaneKinds -> Seq(Requests)]
      /\ Queued' = (Queued \ Range(queues[k])) \cup Range(Remove(q, r))
  BY <1>1, <1>2, <1>3, <1>4, ReplaceLane
<1>6. Range(q) \subseteq Queued
  BY <1>1 DEF Queued, q
<1>7. Queued' = Queued \ {r}
  BY <1>2, <1>3, <1>5, <1>6 DEF q
<1>8. Cardinality(Queued \ {r}) = Cardinality(Queued) - 1
  BY <1>2, <1>6, QueuedFinite, FS_RemoveElement
<1> QED
  BY <1>2, <1>5, <1>6, <1>7, <1>8

(* A request that joins its lane is one more queued request. *)
LEMMA AddToLanes ==
  ASSUME TypeOK, LaneShape, NEW r \in Requests, r \notin Queued,
         queues' = [queues EXCEPT ![Kind[r]] = Append(@, r)]
  PROVE  /\ Queued' = Queued \cup {r}
         /\ LaneShape'
         /\ queues' \in [LaneKinds -> Seq(Requests)]
         /\ Cardinality(Queued') = Cardinality(Queued) + 1
<1> DEFINE k == Kind[r]
           q == queues[k]
<1>1. k \in LaneKinds
  BY LaneConstants
<1>2. q \in Seq(Requests)
  BY <1>1 DEF TypeOK
<1>3. Injective(q) /\ \A e \in Range(q) : Kind[e] = k
  BY <1>1 DEF LaneShape
<1>4. Range(q) \subseteq Queued
  BY <1>1 DEF Queued
<1> HIDE DEF q
<1>5. /\ Append(q, r) \in Seq(Requests)
      /\ Injective(Append(q, r))
      /\ Range(Append(q, r)) = Range(q) \cup {r}
  BY SMTT(20), <1>2, <1>3, <1>4, AppendToQueue
<1>6. queues' = [queues EXCEPT ![k] = Append(q, r)]
  BY DEF q
<1>7. \A e \in Range(Append(q, r)) : Kind[e] = k
  BY <1>3, <1>5
<1> HIDE DEF k
<1>8. /\ LaneShape'
      /\ queues' \in [LaneKinds -> Seq(Requests)]
      /\ Queued' = (Queued \ Range(queues[k])) \cup Range(Append(q, r))
  BY <1>1, <1>5, <1>6, <1>7, ReplaceLane
<1>9. Queued' = Queued \cup {r}
  BY <1>4, <1>5, <1>8 DEF q
<1>10. Cardinality(Queued \cup {r}) = Cardinality(Queued) + 1
  BY QueuedFinite, FS_AddElement
<1> QED
  BY <1>8, <1>9, <1>10

-----------------------------------------------------------------------------

(* Starting a request whose lane has room keeps the counters exact. *)
LEMMA StartKeepsCapacity ==
  ASSUME TypeOK, CapacityExact, NEW r \in Requests,
         ~hasStarted[r], ~workerSlotReleased[r], ValidWeight(r),
         activeWorkers < MaxWorkers, CanStart(r, laneActive), StartTask(r)
  PROVE  /\ CapacityExact'
         /\ activeWorkers' \in Nat
         /\ laneActive' \in [CappedLanes -> Nat]
<1>1. Holders \in SUBSET Requests /\ r \notin Holders
  BY DEF Holders
<1>2. Holders' = Holders \cup {r}
  BY DEF Holders, StartTask, TypeOK
<1>3. IsFiniteSet(Holders)
  BY <1>1, LaneConstants, FS_Subset
<1>4. Cardinality(Holders \cup {r}) = Cardinality(Holders) + 1
  BY <1>1, <1>3, FS_AddElement
<1>5. activeWorkers' = Cardinality(Holders') /\ activeWorkers' <= MaxWorkers /\ activeWorkers' \in Nat
  BY SMTT(20), <1>2, <1>4, QueueConstants DEF CapacityExact, StartTask, TypeOK
<1>6. SlotsOf(r) \in Nat
  BY LaneConstants DEF SlotsOf
<1>7. ASSUME NEW k \in CappedLanes
      PROVE  /\ laneActive'[k] \in Nat
             /\ laneActive'[k] = Cardinality(SlotSet(Holders, k)')
             /\ laneActive'[k] <= LaneCap[k]
  <2>1. laneActive[k] \in Nat /\ laneActive[k] = Cardinality(SlotSet(Holders, k))
        /\ laneActive[k] <= LaneCap[k]
    BY DEF CapacityExact, TypeOK
  <2>2. SlotSet(Holders, k)' = SlotSet(Holders \cup {r}, k)
    BY <1>2 DEF SlotSet
  <2>3. Cardinality(SlotSet(Holders \cup {r}, k)) =
          Cardinality(SlotSet(Holders, k)) + (IF Kind[r] = k THEN SlotsOf(r) ELSE 0)
    BY <1>1, AddHolder
  <2>4. laneActive'[k] = IF k = Kind[r] THEN laneActive[k] + SlotsOf(r) ELSE laneActive[k]
    BY DEF StartTask, TakeSlots
  <2>5. k = Kind[r] => laneActive[k] + SlotsOf(r) <= LaneCap[k]
    BY DEF CanStart
  <2> QED
    BY SMTT(20), <1>6, <2>1, <2>2, <2>3, <2>4, <2>5
<1>8. laneActive' = [k \in CappedLanes |-> laneActive'[k]]
  BY DEF StartTask, TakeSlots
<1> QED
  BY <1>5, <1>7, <1>8 DEF CapacityExact

(* Releasing the slot of a holder keeps the counters exact; the guards that *)
(* keep them from going below zero never apply.                             *)
LEMMA ReleaseKeepsCapacity ==
  ASSUME TypeOK, CapacityExact, NEW r \in Holders, ValidWeight(r),
         hasStarted' = hasStarted,
         workerSlotReleased' = [workerSlotReleased EXCEPT ![r] = TRUE],
         activeWorkers' = activeWorkers - 1,
         laneActive' = ReturnSlots(r, laneActive)
  PROVE  /\ CapacityExact'
         /\ activeWorkers' \in Nat
         /\ laneActive' \in [CappedLanes -> Nat]
<1> DEFINE H == Holders \ {r}
<1>1. Holders \in SUBSET Requests /\ r \in Requests /\ H \in SUBSET Requests /\ r \notin H
  BY DEF Holders
<1>2. Holders' = H
  BY DEF Holders, TypeOK
<1>3. IsFiniteSet(Holders)
  BY <1>1, LaneConstants, FS_Subset
<1>4. Cardinality(Holders \ {r}) = Cardinality(Holders) - 1 /\ Cardinality(Holders \ {r}) \in Nat
  BY <1>1, <1>3, FS_RemoveElement, FS_CardinalityType
<1>5. activeWorkers' = Cardinality(Holders') /\ activeWorkers' <= MaxWorkers /\ activeWorkers' \in Nat
  BY SMTT(20), <1>2, <1>4, QueueConstants DEF CapacityExact, TypeOK
<1>6. SlotsOf(r) \in Nat
  BY <1>1, LaneConstants DEF SlotsOf
<1>7. ASSUME NEW k \in CappedLanes
      PROVE  /\ laneActive'[k] \in Nat
             /\ laneActive'[k] = Cardinality(SlotSet(Holders, k)')
             /\ laneActive'[k] <= LaneCap[k]
  <2>1. laneActive[k] \in Nat /\ laneActive[k] = Cardinality(SlotSet(Holders, k))
        /\ laneActive[k] <= LaneCap[k] /\ LaneCap[k] \in Nat
    BY LaneConstants DEF CapacityExact, TypeOK
  <2>2. SlotSet(Holders, k)' = SlotSet(H, k)
    BY <1>2 DEF SlotSet
  <2>3. H \cup {r} = Holders
    BY <1>1
  <2>4. /\ Cardinality(SlotSet(H, k)) \in Nat
        /\ Cardinality(SlotSet(Holders, k)) =
             Cardinality(SlotSet(H, k)) + (IF Kind[r] = k THEN SlotsOf(r) ELSE 0)
    <3> HIDE DEF H
    <3> QED
      BY <1>1, <2>3, AddHolder
  <2>5. laneActive'[k] =
          IF k = Kind[r] /\ laneActive[k] > 0
            THEN IF laneActive[k] >= SlotsOf(r) THEN laneActive[k] - SlotsOf(r) ELSE 0
            ELSE laneActive[k]
    BY DEF ReturnSlots
  <2> HIDE DEF H
  <2> QED
    BY SMTT(20), <1>6, <2>1, <2>2, <2>4, <2>5
<1>8. laneActive' = [k \in CappedLanes |-> laneActive'[k]]
  BY DEF ReturnSlots
<1> QED
  BY <1>5, <1>7, <1>8 DEF CapacityExact

-----------------------------------------------------------------------------

(* The initial state satisfies the invariant. *)
LEMMA InitIndInv == Init => IndInv
<1> SUFFICES ASSUME Init PROVE IndInv
  OBVIOUS
<1>1. TypeOK
  <2>1. queues \in [LaneKinds -> Seq(Requests)]
    BY SMT DEF Init
  <2>2. /\ queuedCount \in Nat /\ activeWorkers \in Nat
        /\ lastServed \in LaneIndexes \cup {-1}
        /\ laneActive \in [CappedLanes -> Nat]
    BY DEF Init
  <2>3. /\ completer \in [Requests -> Outcomes \cup {"pending"}]
        /\ caller \in [Requests -> {"new", "waiting", "timeout"} \cup Rejections \cup Outcomes]
        /\ task \in [Requests -> {"idle", "running", "settled"}]
        /\ idleWaiter \in [Waiters -> {"none", "waiting", "released", "success", "timeout"}]
    BY DEF Init
  <2> QED
    BY <2>1, <2>2, <2>3 DEF Init, TypeOK
<1>2. \A k \in LaneKinds : Range(queues[k]) = {} /\ Injective(queues[k])
  BY SMT DEF Init, Range, Injective
<1>3. Queued = {} /\ LaneShape
  BY <1>2 DEF Queued, LaneShape
<1>4. CountOK
  BY SMTT(20), <1>3, FS_EmptySet, QueueConstants DEF CountOK, Init
<1>5. Holders = {}
  BY DEF Holders, Init
<1>6. CapacityExact
  <2>1. \A k \in CappedLanes : SlotSet(Holders, k) = {}
    BY <1>5 DEF SlotSet
  <2>2. Cardinality({}) = 0
    BY FS_EmptySet
  <2>3. 0 <= MaxWorkers /\ \A k \in CappedLanes : 0 <= LaneCap[k] /\ laneActive[k] = 0
    BY SMT, QueueConstants, LaneConstants DEF Init
  <2>4. activeWorkers = 0
    BY DEF Init
  <2> QED
    BY <1>5, <2>1, <2>2, <2>3, <2>4 DEF CapacityExact
<1>7. \A r \in Requests : RequestOK(r)
  BY <1>3 DEF RequestOK, Init, NotStarted, Rejections
<1> QED
  BY <1>1, <1>3, <1>4, <1>6, <1>7
  DEF IndInv, ShutdownOK, DrainedMeansIdle, NoLostWakeup, Init

(* A step that touches neither the lanes nor the workers keeps what is said *)
(* of them.                                                                 *)
LEMMA FrameLanesAndWorkers ==
  ASSUME IndInv, UNCHANGED <<laneVars, capacityVars, hasStarted, workerSlotReleased>>
  PROVE  Queued' = Queued /\ LaneShape' /\ CountOK' /\ CapacityExact'
<1>1. Queued' = Queued
  BY DEF Queued, laneVars
<1>2. Holders' = Holders
  BY DEF Holders
<1>3. \A k \in CappedLanes : SlotSet(Holders, k)' = SlotSet(Holders, k)
  BY <1>2 DEF SlotSet
<1>4. CapacityExact'
  BY <1>2, <1>3 DEF CapacityExact, IndInv, capacityVars
<1> QED
  BY <1>1, <1>4 DEF IndInv, LaneShape, CountOK, laneVars

(* submit turns a request away: nothing is queued or reserved. *)
LEMMA RejectSubmissionStep ==
  ASSUME IndInv, NEW r \in Requests, NEW internal \in BOOLEAN, RejectSubmission(r, internal)
  PROVE  IndInv'
<1> USE DEF RejectSubmission, laneVars, capacityVars, requestVars, tokenVars, shutdownVars
<1>1. Queued' = Queued /\ LaneShape' /\ CountOK' /\ CapacityExact'
  BY FrameLanesAndWorkers
<1>2. Admission(r, internal) \in Rejections \cup {"accepted"}
  BY DEF Admission, Rejections
<1>3. TypeOK'
  BY <1>2 DEF IndInv, TypeOK
<1>4. r \notin Queued /\ ~hasStarted[r]
  BY DEF IndInv, RequestOK
<1>5. \A q \in Queued' : QueuedOK(q)'
  BY <1>1, <1>4, QueuedFinite DEF IndInv, QueuedOK, TypeOK
<1>6. \A q \in Requests : RequestOK(q)'
  BY SMTT(20), <1>1, <1>2, <1>4 DEF IndInv, RequestOK, TypeOK, NotStarted, Rejections
<1> QED
  BY <1>1, <1>3, <1>5, <1>6 DEF IndInv, ShutdownOK, DrainedMeansIdle, NoLostWakeup

(* submit appends a request to its lane and the processing loop is due. *)
LEMMA AcceptSubmissionStep ==
  ASSUME IndInv, NEW r \in Requests, NEW internal \in BOOLEAN, AcceptSubmission(r, internal)
  PROVE  IndInv'
<1> USE DEF AcceptSubmission, laneVars, capacityVars, requestVars, tokenVars, shutdownVars
<1>1. r \notin Queued /\ ~hasStarted[r] /\ ~isCancelled[r] /\ ~startedCompleter[r]
      /\ ~workerSlotReleased[r] /\ completer[r] = "pending"
  BY DEF IndInv, RequestOK
<1>2. /\ Queued' = Queued \cup {r}
      /\ LaneShape'
      /\ queues' \in [LaneKinds -> Seq(Requests)]
      /\ Cardinality(Queued') = Cardinality(Queued) + 1
  BY <1>1, AddToLanes DEF IndInv
<1>3. ~disposed /\ queuedCount < MaxQueueSize /\ ValidWeight(r)
  BY SMTT(20), QueueConstants DEF Admission, IndInv, TypeOK
<1>4. CountOK'
  BY SMTT(20), <1>2, <1>3, QueueConstants DEF IndInv, CountOK, TypeOK
<1>5. TypeOK'
  BY SMT, <1>2 DEF IndInv, TypeOK, RecordSaturation
<1>6. CapacityExact'
  <2>1. Holders' = Holders
    BY DEF Holders
  <2>2. \A k \in CappedLanes : SlotSet(Holders, k)' = SlotSet(Holders, k)
    BY <2>1 DEF SlotSet
  <2> QED
    BY <2>1, <2>2 DEF CapacityExact, IndInv
<1>7. \A q \in Queued' : QueuedOK(q)'
  BY SMTT(20), <1>1, <1>2, <1>3, QueuedFinite DEF IndInv, QueuedOK, TypeOK, ValidWeight
<1>8. \A q \in Requests : RequestOK(q)'
  BY SMTT(20), <1>1, <1>2 DEF IndInv, RequestOK, TypeOK, NotStarted, Rejections, ValidWeight
<1>9. ShutdownOK' /\ NoLostWakeup' /\ (abortRequested = {})'
  BY <1>3 DEF IndInv, ShutdownOK, DrainedMeansIdle, NoLostWakeup
<1> QED
  BY <1>2, <1>4, <1>5, <1>6, <1>7, <1>8, <1>9 DEF IndInv

(* One iteration of _processQueue: the request it takes is alive, so it is *)
(* either started or cancelled before its start.                           *)
LEMMA ProcessQueueStepStep ==
  ASSUME IndInv, ProcessQueueStep
  PROVE  IndInv'
<1> DEFINE i == NextLane(EligibleLanes, lastServed)
           r == HeadOf(i)
<1>1. i \in EligibleLanes
  <2>1. EligibleLanes \in SUBSET LaneIndexes /\ EligibleLanes # {}
    BY DEF ProcessQueueStep, EligibleLanes, NonEmptyLanes
  <2>2. lastServed \in LaneIndexes \cup {-1}
    BY DEF IndInv, TypeOK
  <2> QED
    BY <2>1, <2>2, NextLaneIsCandidate
<1>2. i \in NonEmptyLanes /\ i \in LaneIndexes /\ CanStart(r, laneActive)
  BY <1>1 DEF EligibleLanes, NonEmptyLanes
<1>3. /\ loop = "process" /\ activeWorkers < MaxWorkers /\ queuedCount > 0
      /\ TakeHead(i)
      /\ IF isCancelled[r] \/ completer[r] # "pending"
           THEN UNCHANGED <<capacityVars, hasStarted, startedCompleter, completer,
                            workerSlotReleased, task, drained, idleWaiter>>
           ELSE IF IsTokenCancelled(r) THEN CancelBeforeStart(r) ELSE StartTask(r)
      /\ UNCHANGED <<isCancelled, caller, abortRequested, tokenVars, disposed, shutdown,
                     maintenance, loop>>
  BY DEF ProcessQueueStep
<1> HIDE DEF i
<1>4. /\ r \in Queued /\ r \in Requests
      /\ Queued' = Queued \ {r}
      /\ LaneShape'
      /\ queues' \in [LaneKinds -> Seq(Requests)]
      /\ Cardinality(Queued') = Cardinality(Queued) - 1
  BY <1>2, <1>3, TakeHeadOfLane DEF IndInv
<1> HIDE DEF r
<1>5. QueuedOK(r) /\ RequestOK(r)
  BY <1>4 DEF IndInv
<1>6. CountOK' /\ queuedCount' = queuedCount - 1 /\ queuedCount' \in Nat
      /\ lastServed' \in LaneIndexes /\ saturated' \subseteq Thresholds
  BY SMTT(20), <1>2, <1>3, <1>4, QueueConstants DEF TakeHead, IndInv, CountOK, TypeOK, RecordSaturation
<1>7. ~disposed /\ drained = "absent"
  BY SMT, <1>3 DEF IndInv, ShutdownOK, TypeOK
<1>8. CASE IsTokenCancelled(r)
  <2>1. CancelBeforeStart(r)
    BY <1>3, <1>5, <1>8 DEF QueuedOK
  <2> USE DEF CancelBeforeStart, Complete, capacityVars, tokenVars
  <2>2. drained' = "absent"
    BY <1>7, <2>1 DEF CompleteDrainedIfIdle
  <2>3. TypeOK'
    BY <1>3, <1>4, <1>6, <2>1, <2>2 DEF IndInv, TypeOK, Outcomes, CompleteIdleWaitersIfNeeded
  <2>4. Holders' = Holders
    BY <1>5, <2>1 DEF Holders, QueuedOK, IndInv, TypeOK
  <2>5. CapacityExact'
    <3>1. \A k \in CappedLanes : SlotSet(Holders, k)' = SlotSet(Holders, k)
      BY <2>4 DEF SlotSet
    <3> QED
      BY <2>1, <2>4, <3>1 DEF CapacityExact, IndInv
  <2>6. \A q \in Queued' : QueuedOK(q)'
    BY SMTT(20), <1>3, <1>4, <2>1, QueuedFinite DEF IndInv, QueuedOK, TypeOK, ValidWeight
  <2>7. \A q \in Requests : RequestOK(q)'
    <3> SUFFICES ASSUME NEW q \in Requests
                 PROVE  RequestOK(q)'
      OBVIOUS
    <3>1. RequestOK(q) /\ (q \notin Queued => q \notin Queued')
      BY <1>4 DEF IndInv
    <3>2. CASE q # r
      <4>1. /\ completer'[q] = completer[q] /\ startedCompleter'[q] = startedCompleter[q]
            /\ workerSlotReleased'[q] = workerSlotReleased[q]
        BY <2>1, <3>2 DEF IndInv, TypeOK
      <4> QED
        BY <1>3, <2>1, <3>1, <4>1 DEF RequestOK
    <3>3. CASE q = r
      <4>1. ~hasStarted[r] /\ caller'[r] = "waiting" /\ "waiting" \notin {"new"} \cup NotStarted
        BY <1>3, <1>5 DEF QueuedOK, NotStarted, Rejections
      <4> QED
        BY <2>1, <3>1, <3>3, <4>1 DEF RequestOK
    <3> QED
      BY <3>2, <3>3
  <2>8. ShutdownOK' /\ NoLostWakeup' /\ (abortRequested = {})'
    BY <1>3, <1>7, <2>2 DEF IndInv, ShutdownOK, DrainedMeansIdle, NoLostWakeup
  <2> QED
    BY <1>4, <1>6, <2>3, <2>5, <2>6, <2>7, <2>8 DEF IndInv
<1>9. CASE ~IsTokenCancelled(r)
  <2>1. StartTask(r)
    BY <1>3, <1>5, <1>9 DEF QueuedOK
  <2>2. /\ CapacityExact'
        /\ activeWorkers' \in Nat
        /\ laneActive' \in [CappedLanes -> Nat]
    BY <1>2, <1>3, <1>4, <1>5, <2>1, StartKeepsCapacity DEF IndInv, QueuedOK, r
  <2> USE DEF StartTask, tokenVars
  <2>3. TypeOK'
    BY <1>3, <1>4, <1>6, <2>1, <2>2 DEF IndInv, TypeOK
  <2>4. \A q \in Queued' : QueuedOK(q)'
    BY <1>3, <1>4, <2>1, QueuedFinite DEF IndInv, QueuedOK, TypeOK, ValidWeight
  <2>5. \A q \in Requests : RequestOK(q)'
    <3> SUFFICES ASSUME NEW q \in Requests PROVE RequestOK(q)'
      OBVIOUS
    <3>1. RequestOK(q)
      BY DEF IndInv
    <3>2. UNCHANGED <<workerSlotReleased, completer, caller, isCancelled>> /\ Queued' \subseteq Queued
      BY <1>3, <1>4, <2>1
    <3>3. CASE q = r
      <4>1. hasStarted'[q] /\ startedCompleter'[q] /\ task'[q] = "running"
        BY <2>1, <3>3 DEF IndInv, TypeOK
      <4>2. ValidWeight(q) /\ caller[q] = "waiting" /\ completer[q] = "pending"
        BY <1>5, <3>3 DEF QueuedOK
      <4> QED
        BY <3>2, <4>1, <4>2 DEF RequestOK, NotStarted, Rejections, ValidWeight
    <3>4. CASE q # r
      <4>1. hasStarted'[q] = hasStarted[q] /\ startedCompleter'[q] = startedCompleter[q] /\ task'[q] = task[q]
        BY <2>1, <3>4 DEF IndInv, TypeOK
      <4> QED
        BY <3>1, <3>2, <4>1 DEF RequestOK, ValidWeight
    <3> QED
      BY <3>3, <3>4
  <2>6. ShutdownOK' /\ NoLostWakeup' /\ (abortRequested = {})'
    BY <1>3, <1>7, <2>1 DEF IndInv, ShutdownOK, DrainedMeansIdle, NoLostWakeup
  <2> QED
    BY <1>4, <1>6, <2>2, <2>3, <2>4, <2>5, <2>6 DEF IndInv
<1> QED
  BY <1>8, <1>9

(* The end of _processQueue: if requests still wait, some worker is active; *)
(* with all workers free every lane is empty of slots and a head of valid   *)
(* weight could start.                                                      *)
LEMMA ProcessQueueExitStep ==
  ASSUME IndInv, ProcessQueueExit
  PROVE  IndInv'
<1> USE DEF ProcessQueueExit, laneVars, capacityVars, requestVars, tokenVars, shutdownVars
<1>1. Queued' = Queued /\ LaneShape' /\ CountOK' /\ CapacityExact'
  BY FrameLanesAndWorkers
<1>2. TypeOK'
  BY DEF IndInv, TypeOK
<1>3. \A q \in Queued' : QueuedOK(q)'
  BY <1>1 DEF IndInv, QueuedOK
<1>4. \A q \in Requests : RequestOK(q)'
  BY <1>1 DEF IndInv, RequestOK
<1>5. ASSUME queuedCount > 0, activeWorkers = 0
      PROVE  FALSE
  <2>1. EligibleLanes = {}
    BY SMTT(20), <1>5, QueueConstants
  <2>2. PICK q \in Queued : TRUE
    BY SMTT(20), <1>5, QueuedFinite, FS_EmptySet DEF IndInv, CountOK
  <2>3. PICK k \in LaneKinds : q \in Range(queues[k])
    BY <2>2 DEF Queued
  <2>4. queues[k] \in Seq(Requests) /\ queues[k] # <<>>
    BY SMTT(20), <2>3 DEF IndInv, TypeOK, Range
  <2>5. Head(queues[k]) \in Range(queues[k])
    BY SMTT(20), <2>4 DEF Range
  <2>6. Head(queues[k]) \in Queued /\ Kind[Head(queues[k])] = k
    BY <2>5 DEF Queued, IndInv, LaneShape
  <2>7. ValidWeight(Head(queues[k]))
    BY <2>6 DEF IndInv, QueuedOK
  <2>8. \A c \in CappedLanes : laneActive[c] = 0
    <3>1. Holders \subseteq Requests /\ IsFiniteSet(Holders)
      BY LaneConstants, FS_Subset DEF Holders
    <3>2. Holders = {}
      BY <1>5, <3>1, FS_EmptySet DEF IndInv, CapacityExact
    <3>3. \A c \in CappedLanes : SlotSet(Holders, c) = {}
      BY <3>2 DEF SlotSet
    <3> QED
      BY <3>3, FS_EmptySet DEF IndInv, CapacityExact
  <2>9. CanStart(Head(queues[k]), laneActive)
    <3>1. k \in CappedLanes => LaneCap[k] \in Nat \ {0}
      BY LaneConstants
    <3>2. Weight[Head(queues[k])] \in Nat
      BY <2>6, QueuedFinite, LaneConstants DEF IndInv
    <3> QED
      BY SMTT(20), <2>6, <2>7, <2>8, <3>1, <3>2 DEF CanStart, SlotsOf, ValidWeight
  <2>10. PICK i \in LaneIndexes : LaneOrder[i + 1] = k
    BY LanesAreIndexed
  <2>11. i \in EligibleLanes
    BY <2>4, <2>9, <2>10 DEF EligibleLanes, NonEmptyLanes, HeadOf
  <2> QED
    BY <2>1, <2>11
<1>6. NoLostWakeup'
  BY SMTT(20), <1>5 DEF NoLostWakeup, IndInv, TypeOK
<1>7. ShutdownOK' /\ (abortRequested = {})'
  BY DEF IndInv, ShutdownOK, DrainedMeansIdle
<1> QED
  BY <1>1, <1>2, <1>3, <1>4, <1>6, <1>7 DEF IndInv

(* A worker slot given back by a running request: the common part of the  *)
(* early release and of the end of a task.                                *)
LEMMA ReleaseStep ==
  ASSUME IndInv, NEW r \in Requests, loop = "idle", task[r] = "running",
         ReleaseWorkerSlot(r), UNCHANGED <<laneVars, hasStarted>>
  PROVE  /\ CapacityExact'
         /\ activeWorkers' \in Nat
         /\ laneActive' \in [CappedLanes -> Nat]
         /\ workerSlotReleased' = [workerSlotReleased EXCEPT ![r] = TRUE]
         /\ drained' \in {"absent", "pending", "complete"}
         /\ drained' # "absent" => drained # "absent"
         /\ drained' = "complete" => activeWorkers' = 0 /\ queuedCount = 0
         /\ idleWaiter' \in [Waiters -> {"none", "waiting", "released", "success", "timeout"}]
         /\ loop' \in {"idle", "process"}
         /\ loop' = "idle" => activeWorkers' = activeWorkers
<1>1. hasStarted[r] /\ ValidWeight(r)
  BY DEF IndInv, RequestOK
<1>2. CASE workerSlotReleased[r]
  <2>1. UNCHANGED <<workerSlotReleased, capacityVars, drained, idleWaiter, loop>>
    BY <1>2 DEF ReleaseWorkerSlot, FreeSlot
  <2>2. CapacityExact'
    BY <2>1, FrameLanesAndWorkers DEF capacityVars
  <2> QED
    BY <1>2, <2>1, <2>2 DEF IndInv, TypeOK, capacityVars, ShutdownOK, DrainedMeansIdle
<1>3. CASE ~workerSlotReleased[r]
  <2>1. /\ workerSlotReleased' = [workerSlotReleased EXCEPT ![r] = TRUE]
        /\ activeWorkers' = activeWorkers - 1
        /\ laneActive' = ReturnSlots(r, laneActive)
        /\ CompleteDrainedIfIdle(activeWorkers - 1, queuedCount)
        /\ CompleteIdleWaitersIfNeeded(activeWorkers - 1)
        /\ loop' = "process"
    BY <1>3 DEF ReleaseWorkerSlot, FreeSlot
  <2>2. r \in Holders
    BY <1>1, <1>3 DEF Holders
  <2>3. /\ CapacityExact'
        /\ activeWorkers' \in Nat
        /\ laneActive' \in [CappedLanes -> Nat]
    BY <1>1, <2>1, <2>2, ReleaseKeepsCapacity DEF IndInv
  <2>4. activeWorkers > 0
    BY SMTT(20), <2>1, <2>3 DEF IndInv, TypeOK
  <2>5. drained # "complete"
    BY SMT, <2>4 DEF IndInv, ShutdownOK, DrainedMeansIdle
  <2>6. /\ drained' \in {"absent", "pending", "complete"}
        /\ drained' # "absent" => drained # "absent"
        /\ drained' = "complete" => activeWorkers' = 0 /\ queuedCount = 0
    BY <2>1, <2>5 DEF CompleteDrainedIfIdle, IndInv, TypeOK
  <2>7. idleWaiter' \in [Waiters -> {"none", "waiting", "released", "success", "timeout"}]
    BY <2>1 DEF CompleteIdleWaitersIfNeeded, IndInv, TypeOK
  <2> QED
    BY <2>1, <2>3, <2>6, <2>7
<1> QED
  BY <1>2, <1>3

(* A streaming task gives its worker back early, through releaseWorkerSlot. *)
LEMMA TaskReleasesWorkerStep ==
  ASSUME IndInv, NEW r \in Requests, TaskReleasesWorker(r)
  PROVE  IndInv'
<1> USE DEF TaskReleasesWorker, laneVars, tokenVars
<1>1. /\ CapacityExact'
      /\ activeWorkers' \in Nat
      /\ laneActive' \in [CappedLanes -> Nat]
      /\ workerSlotReleased' = [workerSlotReleased EXCEPT ![r] = TRUE]
      /\ drained' \in {"absent", "pending", "complete"}
      /\ drained' # "absent" => drained # "absent"
      /\ drained' = "complete" => activeWorkers' = 0 /\ queuedCount = 0
      /\ idleWaiter' \in [Waiters -> {"none", "waiting", "released", "success", "timeout"}]
      /\ loop' \in {"idle", "process"}
      /\ loop' = "idle" => activeWorkers' = activeWorkers
  BY ReleaseStep
<1>2. Queued' = Queued /\ LaneShape' /\ CountOK'
  BY SMT DEF IndInv, Queued, LaneShape, CountOK
<1>3. TypeOK'
  BY <1>1 DEF IndInv, TypeOK
<1>4. r \notin Queued
  BY DEF IndInv, QueuedOK, RequestOK
<1>5. \A q \in Queued' : QueuedOK(q)'
  BY SMTT(20), <1>1, <1>2, <1>4, QueuedFinite DEF IndInv, QueuedOK, TypeOK
<1>6. \A q \in Requests : RequestOK(q)'
  BY SMTT(20), <1>1, <1>2 DEF IndInv, RequestOK, TypeOK
<1>7. ShutdownOK' /\ NoLostWakeup' /\ (abortRequested = {})'
  BY <1>1 DEF IndInv, ShutdownOK, DrainedMeansIdle, NoLostWakeup
<1> QED
  BY <1>1, <1>2, <1>3, <1>5, <1>6, <1>7 DEF IndInv

(* A task returns or throws: _executeRequest releases the worker unless it is released. *)
LEMMA TaskSettlesStep ==
  ASSUME IndInv, NEW r \in Requests, NEW outcome \in {"result", "unexpectedError"},
         TaskSettles(r, outcome)
  PROVE  IndInv'
<1> USE DEF TaskSettles, laneVars, tokenVars
<1>1. /\ CapacityExact'
      /\ activeWorkers' \in Nat
      /\ laneActive' \in [CappedLanes -> Nat]
      /\ workerSlotReleased' = [workerSlotReleased EXCEPT ![r] = TRUE]
      /\ drained' \in {"absent", "pending", "complete"}
      /\ drained' # "absent" => drained # "absent"
      /\ drained' = "complete" => activeWorkers' = 0 /\ queuedCount = 0
      /\ idleWaiter' \in [Waiters -> {"none", "waiting", "released", "success", "timeout"}]
      /\ loop' \in {"idle", "process"}
      /\ loop' = "idle" => activeWorkers' = activeWorkers
  BY ReleaseStep
<1>2. Queued' = Queued /\ LaneShape' /\ CountOK'
  BY SMTT(20) DEF IndInv, Queued, LaneShape, CountOK
<1>3. /\ completer' \in [Requests -> Outcomes \cup {"pending"}]
      /\ \A q \in Requests : q # r => completer'[q] = completer[q]
      /\ completer'[r] \in {completer[r], "result", "unexpectedError"}
  BY SMT DEF IndInv, TypeOK, Complete, Outcomes
<1>4. TypeOK'
  BY <1>1, <1>3 DEF IndInv, TypeOK
<1>5. r \notin Queued /\ hasStarted[r]
  BY DEF IndInv, QueuedOK, RequestOK
<1>6. \A q \in Queued' : QueuedOK(q)'
  BY SMTT(20), <1>1, <1>2, <1>3, <1>5, QueuedFinite DEF IndInv, QueuedOK, TypeOK
<1>7. \A q \in Requests : RequestOK(q)'
  <2> SUFFICES ASSUME NEW q \in Requests
               PROVE  RequestOK(q)'
    OBVIOUS
  <2>1. RequestOK(q)
    BY DEF IndInv
  <2>2. CASE q # r
    <3>1. /\ completer'[q] = completer[q] /\ task'[q] = task[q]
          /\ workerSlotReleased'[q] = workerSlotReleased[q]
      BY <1>1, <1>3, <2>2 DEF IndInv, TypeOK
    <3> QED
      BY <1>2, <2>1, <3>1 DEF RequestOK
  <2>3. CASE q = r
    <3>1. workerSlotReleased'[r] /\ caller[r] \notin {"new"} \cup NotStarted
      BY SMTT(20), <1>1, <1>5, <2>1, <2>3 DEF IndInv, TypeOK, RequestOK
    <3>2. completer[r] \notin {"cancelledBeforeStart", "disposedWhileQueued"}
      BY <1>5, <2>1, <2>3 DEF RequestOK
    <3>3. completer'[r] \notin {"cancelledBeforeStart", "disposedWhileQueued"}
      BY <1>3, <3>2
    <3> QED
      BY <1>2, <1>5, <2>1, <2>3, <3>1, <3>3 DEF RequestOK
  <2> QED
    BY <2>2, <2>3
<1>8. ShutdownOK' /\ NoLostWakeup' /\ (abortRequested = {})'
  BY <1>1 DEF IndInv, ShutdownOK, DrainedMeansIdle, NoLostWakeup
<1> QED
  BY <1>1, <1>2, <1>4, <1>6, <1>7, <1>8 DEF IndInv

(* The caller gets the answer its request was completed with; an answer   *)
(* that denies a start is only ever given to a request that did not start. *)
LEMMA SubmitReturnsStep ==
  ASSUME IndInv, NEW r \in Requests, SubmitReturns(r)
  PROVE  IndInv'
<1> USE DEF SubmitReturns, laneVars, capacityVars, requestVars, shutdownVars
<1>1. Queued' = Queued /\ LaneShape' /\ CountOK' /\ CapacityExact'
  BY FrameLanesAndWorkers
<1>2. completer[r] \in Outcomes
  BY DEF IndInv, TypeOK
<1>3. TypeOK'
  BY <1>2 DEF IndInv, TypeOK
<1>4. r \notin Queued
  BY DEF IndInv, QueuedOK
<1>5. \A q \in Queued' : QueuedOK(q)'
  BY <1>1, <1>4, QueuedFinite DEF IndInv, QueuedOK, TypeOK
<1>6. \A q \in Requests : RequestOK(q)'
  BY SMTT(20), <1>1, <1>2, <1>4 DEF IndInv, RequestOK, TypeOK, NotStarted, Rejections, Outcomes
<1> QED
  BY <1>1, <1>3, <1>5, <1>6 DEF IndInv, ShutdownOK, DrainedMeansIdle, NoLostWakeup

(* A removal from the lanes, whether or not the request was still in one.  *)
LEMMA RemoveQueuedStep ==
  ASSUME IndInv, NEW r \in Requests, RemoveQueued(r)
  PROVE  /\ queues' \in [LaneKinds -> Seq(Requests)]
         /\ queuedCount' \in Nat
         /\ queuedCount' <= queuedCount
         /\ Queued' = Queued \ {r}
         /\ LaneShape'
         /\ CountOK'
<1>1. Kind[r] \in LaneKinds
  BY LaneConstants
<1>2. CASE r \in Range(queues[Kind[r]])
  <2>1. /\ Queued' = Queued \ {r}
        /\ LaneShape'
        /\ queues' \in [LaneKinds -> Seq(Requests)]
        /\ Cardinality(Queued') = Cardinality(Queued) - 1
    BY <1>2, RemoveFromLanes DEF IndInv
  <2>2. queuedCount' = queuedCount - 1
    BY <1>2 DEF RemoveQueued
  <2>3. queuedCount' = Cardinality(Queued')
    BY <2>1, <2>2 DEF IndInv, CountOK
  <2>4. IsFiniteSet(Queued')
    BY <2>1, QueuedFinite, FS_Subset DEF IndInv
  <2>5. queuedCount' \in Nat
    BY <2>3, <2>4, FS_CardinalityType
  <2> QED
    BY SMTT(20), <2>1, <2>2, <2>3, <2>5, QueueConstants DEF IndInv, CountOK, TypeOK
<1>3. CASE r \notin Range(queues[Kind[r]])
  <2>1. queues \in [LaneKinds -> Seq(Requests)]
    BY DEF IndInv, TypeOK
  <2>2. Remove(queues[Kind[r]], r) = queues[Kind[r]]
    BY <1>3 DEF Remove
  <2>3. queues' = queues /\ queuedCount' = queuedCount
    BY <1>1, <1>3, <2>1, <2>2 DEF RemoveQueued
  <2>4. r \notin Queued
    BY <1>3 DEF IndInv, LaneShape, Queued
  <2>5. queuedCount' <= queuedCount
    BY SMTT(20), <2>3 DEF IndInv, TypeOK
  <2>6. Queued' = Queued
    BY <2>3 DEF Queued
  <2>7. Queued \ {r} = Queued
    BY <2>4
  <2> QED
    BY <2>3, <2>5, <2>6, <2>7 DEF IndInv, TypeOK, LaneShape, CountOK
<1> QED
  BY <1>2, <1>3

(* A queue-wait timeout only meets requests that did not start.            *)
LEMMA QueueWaitTimeoutStep ==
  ASSUME IndInv, NEW r \in Requests, QueueWaitTimeout(r)
  PROVE  IndInv'
<1> USE DEF QueueWaitTimeout, capacityVars, shutdownVars
<1>1. ~hasStarted[r]
  BY DEF IndInv, RequestOK
<1>2. RemoveQueued(r) /\ RecordSaturation(queuedCount') /\ UNCHANGED abortRequested
  BY <1>1
<1>3. /\ queues' \in [LaneKinds -> Seq(Requests)]
      /\ queuedCount' \in Nat
      /\ queuedCount' <= queuedCount
      /\ Queued' = Queued \ {r}
      /\ LaneShape'
      /\ CountOK'
  BY <1>2, RemoveQueuedStep
<1>4. Token[r] \in Tokens \cup {NoToken}
  BY QueueConstants
<1>5. CancelEventsOf(Token[r]) \subseteq Requests
  BY DEF CancelEventsOf
<1>6. TypeOK'
  BY <1>2, <1>3, <1>4, <1>5 DEF IndInv, TypeOK, RemoveQueued, RecordSaturation
<1>7. \A q \in Queued' : QueuedOK(q)'
  BY <1>3, QueuedFinite DEF IndInv, QueuedOK, TypeOK
<1>8. \A q \in Requests : RequestOK(q)'
  <2> SUFFICES ASSUME NEW q \in Requests PROVE RequestOK(q)'
    OBVIOUS
  <2>1. RequestOK(q)
    BY DEF IndInv
  <2>2. /\ UNCHANGED <<hasStarted, startedCompleter, workerSlotReleased, completer, task>>
        /\ Queued' \subseteq Queued
    BY <1>3
  <2>3. CASE q = r
    <3>1. caller[q] = "waiting" /\ caller'[q] = "timeout" /\ q \notin Queued'
      BY <1>3, <2>3 DEF IndInv, TypeOK
    <3>2. ~hasStarted[q]
      BY <1>1, <2>3
    <3> QED
      BY <2>1, <2>2, <3>1, <3>2 DEF RequestOK, ValidWeight
  <2>4. CASE q # r
    <3>1. caller'[q] = caller[q] /\ isCancelled'[q] = isCancelled[q]
      BY <2>4 DEF IndInv, TypeOK
    <3> QED
      BY <2>1, <2>2, <3>1 DEF RequestOK, ValidWeight
  <2> QED
    BY <2>3, <2>4
<1>9. Holders' = Holders
  BY DEF Holders
<1>10. CapacityExact'
  BY <1>9 DEF IndInv, CapacityExact, SlotSet
<1>11. ShutdownOK' /\ NoLostWakeup'
  BY SMT, <1>3 DEF IndInv, ShutdownOK, DrainedMeansIdle, NoLostWakeup, TypeOK
<1> QED
  BY <1>2, <1>3, <1>6, <1>7, <1>8, <1>10, <1>11 DEF IndInv

(* Cancelling a token only sends events; the lanes are untouched.          *)
LEMMA CancelTokenStep ==
  ASSUME IndInv, NEW t \in Tokens, CancelToken(t)
  PROVE  IndInv'
<1> USE DEF CancelToken, laneVars, capacityVars, requestVars, shutdownVars
<1>1. Queued' = Queued /\ LaneShape' /\ CountOK' /\ CapacityExact'
  BY FrameLanesAndWorkers
<1>2. CancelEventsOf(t) \subseteq Requests
  BY DEF CancelEventsOf
<1>3. TypeOK'
  BY <1>2 DEF IndInv, TypeOK
<1>4. \A q \in Queued' : QueuedOK(q)'
  BY <1>1 DEF IndInv, QueuedOK
<1>5. \A q \in Requests : RequestOK(q)'
  BY <1>1 DEF IndInv, RequestOK
<1> QED
  BY <1>1, <1>3, <1>4, <1>5 DEF IndInv, ShutdownOK, DrainedMeansIdle, NoLostWakeup

(* A cancellation event takes its request out of the lane, or does nothing. *)
LEMMA DeliverCancelStep ==
  ASSUME IndInv, NEW r \in Requests, DeliverCancel(r)
  PROVE  IndInv'
<1> USE DEF DeliverCancel, capacityVars
<1>1. CASE hasStarted[r] \/ completer[r] # "pending" \/ r \notin Range(queues[Kind[r]])
  <2> USE <1>1 DEF laneVars, requestVars
  <2>1. Queued' = Queued /\ LaneShape' /\ CountOK' /\ CapacityExact'
    BY FrameLanesAndWorkers
  <2>2. TypeOK'
    BY DEF IndInv, TypeOK
  <2>3. \A q \in Queued' : QueuedOK(q)'
    BY <2>1 DEF IndInv, QueuedOK
  <2>4. \A q \in Requests : RequestOK(q)'
    BY <2>1 DEF IndInv, RequestOK
  <2> QED
    BY <2>1, <2>2, <2>3, <2>4 DEF IndInv, ShutdownOK, DrainedMeansIdle, NoLostWakeup
<1>2. CASE ~(hasStarted[r] \/ completer[r] # "pending" \/ r \notin Range(queues[Kind[r]]))
  <2>1. /\ RemoveQueued(r)
        /\ isCancelled' = [isCancelled EXCEPT ![r] = TRUE]
        /\ startedCompleter' = [startedCompleter EXCEPT ![r] = TRUE]
        /\ Complete(r, "cancelledBeforeStart")
        /\ RecordSaturation(queuedCount - 1)
        /\ CompleteDrainedIfIdle(activeWorkers, queuedCount - 1)
        /\ loop' = "process"
        /\ UNCHANGED <<hasStarted, workerSlotReleased>>
    BY <1>2
  <2>2. /\ queues' \in [LaneKinds -> Seq(Requests)]
        /\ queuedCount' \in Nat
        /\ queuedCount' <= queuedCount
        /\ Queued' = Queued \ {r}
        /\ LaneShape'
        /\ CountOK'
    BY <2>1, RemoveQueuedStep
  <2>3. queuedCount' = queuedCount - 1
    BY <1>2, <2>1 DEF RemoveQueued
  <2>4. /\ completer' \in [Requests -> Outcomes \cup {"pending"}]
        /\ completer' = [completer EXCEPT ![r] = "cancelledBeforeStart"]
    BY <1>2, <2>1 DEF IndInv, TypeOK, Complete, Outcomes
  <2>5. drained = "absent" /\ drained' = "absent" /\ ~disposed
    <3>1. queuedCount # 0
      BY SMTT(20), <2>2, <2>3 DEF IndInv, TypeOK
    <3>2. ~disposed
      BY <3>1 DEF IndInv, ShutdownOK
    <3> QED
      BY <2>1, <3>2 DEF IndInv, ShutdownOK, CompleteDrainedIfIdle
  <2>6. TypeOK'
    BY <2>1, <2>2, <2>4, <2>5 DEF IndInv, TypeOK, RemoveQueued, RecordSaturation
  <2>7. ASSUME NEW q \in Queued' PROVE QueuedOK(q)'
    <3>1. q \in Queued /\ q # r /\ q \in Requests
      BY <2>2, <2>7, QueuedFinite DEF IndInv
    <3>2. QueuedOK(q)
      BY <3>1 DEF IndInv
    <3>3. completer'[q] = completer[q]
      BY <2>4, <3>1 DEF IndInv, TypeOK
    <3>4. isCancelled'[q] = isCancelled[q] /\ startedCompleter'[q] = startedCompleter[q]
      BY <2>1, <3>1 DEF IndInv, TypeOK
    <3> QED
      BY <2>1, <3>2, <3>3, <3>4 DEF QueuedOK
  <2>8. r \in Queued
    BY <1>2, LaneConstants DEF Queued
  <2>9. caller[r] = "waiting"
    BY <2>8 DEF IndInv, QueuedOK
  <2>10. \A q \in Requests : RequestOK(q)'
    <3> SUFFICES ASSUME NEW q \in Requests
                 PROVE  RequestOK(q)'
      OBVIOUS
    <3>1. RequestOK(q)
      BY DEF IndInv
    <3>2. q \notin Queued => q \notin Queued'
      BY <2>2
    <3>3. CASE q # r
      <4>1. completer'[q] = completer[q] /\ startedCompleter'[q] = startedCompleter[q]
            /\ isCancelled'[q] = isCancelled[q]
        BY <2>1, <2>4, <3>3 DEF IndInv, TypeOK
      <4> QED
        BY <2>1, <3>1, <3>2, <4>1 DEF RequestOK
    <3>4. CASE q = r
      <4>1. startedCompleter'[r] /\ caller'[r] = "waiting" /\ "waiting" \notin {"new"} \cup NotStarted
        BY <2>1, <2>9 DEF IndInv, TypeOK, NotStarted, Rejections
      <4> QED
        BY <1>2, <2>1, <3>1, <3>4, <4>1 DEF RequestOK
    <3> QED
      BY <3>3, <3>4
  <2>11. Holders' = Holders
    BY <2>1 DEF Holders
  <2>12. CapacityExact'
    BY <2>11 DEF IndInv, CapacityExact, SlotSet
  <2>13. ShutdownOK' /\ NoLostWakeup' /\ (abortRequested = {})'
    BY <2>1, <2>5 DEF IndInv, ShutdownOK, DrainedMeansIdle, NoLostWakeup
  <2> QED
    BY <2>2, <2>6, <2>7, <2>10, <2>12, <2>13 DEF IndInv
<1> QED
  BY <1>1, <1>2

(* A step that leaves the lanes, the workers and the requests alone keeps  *)
(* what the invariant says about them.                                     *)
LEMMA FrameRequests ==
  ASSUME IndInv,
         UNCHANGED <<laneVars, capacityVars, requestVars, caller, task, abortRequested>>
  PROVE  /\ Queued' = Queued /\ LaneShape' /\ CountOK' /\ CapacityExact'
         /\ \A q \in Queued' : QueuedOK(q)'
         /\ \A q \in Requests : RequestOK(q)'
         /\ (abortRequested = {})'
<1>1. Queued' = Queued /\ LaneShape' /\ CountOK' /\ CapacityExact'
  BY FrameLanesAndWorkers DEF requestVars
<1> QED
  BY <1>1 DEF IndInv, QueuedOK, RequestOK, requestVars

(* dispose and disposeGracefully close admission and start the flush.      *)
LEMMA DisposeStep ==
  ASSUME IndInv, Dispose \/ DisposeGracefully
  PROVE  IndInv'
<1> USE DEF Dispose, DisposeGracefully, laneVars, capacityVars, requestVars, tokenVars
<1>1. /\ Queued' = Queued /\ LaneShape' /\ CountOK' /\ CapacityExact'
      /\ \A q \in Queued' : QueuedOK(q)'
      /\ \A q \in Requests : RequestOK(q)'
      /\ (abortRequested = {})'
  BY FrameRequests
<1>2. TypeOK'
  BY DEF IndInv, TypeOK
<1> QED
  BY <1>1, <1>2 DEF IndInv, ShutdownOK, DrainedMeansIdle, NoLostWakeup

(* An iteration of the flush completes the head it takes from a lane.      *)
LEMMA FlushStepStep ==
  ASSUME IndInv, FlushStep
  PROVE  IndInv'
<1> USE DEF FlushStep, capacityVars, tokenVars, shutdownVars
<1> DEFINE i == NextLane(NonEmptyLanes, lastServed)
           r == HeadOf(i)
<1>1. i \in NonEmptyLanes /\ i \in LaneIndexes
  <2>1. NonEmptyLanes \in SUBSET LaneIndexes
    BY DEF NonEmptyLanes
  <2> QED
    BY <2>1, NextLaneIsCandidate DEF IndInv, TypeOK
<1>2. /\ TakeHead(i)
      /\ Complete(r, "disposedWhileQueued")
      /\ startedCompleter' =
           [startedCompleter EXCEPT ![r] = @ \/ (completer[r] = "pending" /\ ~hasStarted[r])]
  OBVIOUS
<1> HIDE DEF i
<1>3. /\ r \in Queued
      /\ r \in Requests
      /\ Queued' = Queued \ {r}
      /\ LaneShape'
      /\ queues' \in [LaneKinds -> Seq(Requests)]
      /\ Cardinality(Queued') = Cardinality(Queued) - 1
  BY <1>1, <1>2, TakeHeadOfLane DEF IndInv
<1> HIDE DEF r
<1>4. queuedCount' = queuedCount - 1 /\ lastServed' = i /\ RecordSaturation(queuedCount - 1)
  BY <1>2 DEF TakeHead
<1>5. queuedCount' \in Nat /\ queuedCount' <= queuedCount /\ CountOK'
  BY SMTT(20), <1>3, <1>4, QueueConstants DEF IndInv, TypeOK, CountOK
<1>6. QueuedOK(r)
  BY <1>3 DEF IndInv
<1>7. /\ completer' = [completer EXCEPT ![r] = "disposedWhileQueued"]
      /\ startedCompleter' = [startedCompleter EXCEPT ![r] = TRUE]
  BY <1>2, <1>6 DEF Complete, QueuedOK
<1>8. TypeOK'
  <2>1. /\ completer' \in [Requests -> Outcomes \cup {"pending"}]
        /\ startedCompleter' \in [Requests -> BOOLEAN]
    <3> HIDE DEF FlushStep
    <3>1. /\ completer \in [Requests -> Outcomes \cup {"pending"}]
          /\ startedCompleter \in [Requests -> BOOLEAN]
      BY DEF IndInv, TypeOK
    <3> QED
      BY <1>3, <1>7, <3>1 DEF Outcomes
  <2>2. saturated' \subseteq Thresholds
    BY <1>4 DEF RecordSaturation
  <2> QED
    BY <1>1, <1>3, <1>4, <1>5, <2>1, <2>2 DEF IndInv, TypeOK
<1>9. \A q \in Queued' : QueuedOK(q)'
  BY <1>3, <1>7, QueuedFinite DEF IndInv, QueuedOK, TypeOK
<1>10. \A q \in Requests : RequestOK(q)'
  <2> SUFFICES ASSUME NEW q \in Requests
               PROVE  RequestOK(q)'
    OBVIOUS
  <2>1. RequestOK(q) /\ (q \notin Queued => q \notin Queued')
    BY <1>3 DEF IndInv
  <2>2. CASE q # r
    <3>1. completer'[q] = completer[q] /\ startedCompleter'[q] = startedCompleter[q]
      BY <1>7, <2>2 DEF IndInv, TypeOK
    <3> QED
      BY <2>1, <3>1 DEF RequestOK
  <2>3. CASE q = r
    <3>1. startedCompleter'[r] /\ ~hasStarted[r]
      BY <1>3, <1>6, <1>7 DEF IndInv, TypeOK, QueuedOK
    <3>2. caller'[r] = "waiting" /\ "waiting" \notin {"new"} \cup NotStarted
      BY <1>6 DEF QueuedOK, NotStarted, Rejections
    <3> QED
      BY <2>1, <2>3, <3>1, <3>2 DEF RequestOK
  <2> QED
    BY <2>2, <2>3
<1>11. Holders' = Holders
  BY DEF Holders
<1>12. CapacityExact'
  BY <1>11 DEF IndInv, CapacityExact, SlotSet
<1> QED
  BY <1>3, <1>5, <1>8, <1>9, <1>10, <1>12
     DEF IndInv, ShutdownOK, DrainedMeansIdle, NoLostWakeup

(* The flush ends with empty lanes: queuedCount is zero.                   *)
LEMMA FlushExitStep ==
  ASSUME IndInv, FlushExit
  PROVE  IndInv'
<1> USE DEF FlushExit, laneVars, capacityVars, requestVars, tokenVars
<1>1. /\ Queued' = Queued /\ LaneShape' /\ CountOK' /\ CapacityExact'
      /\ \A q \in Queued' : QueuedOK(q)'
      /\ \A q \in Requests : RequestOK(q)'
      /\ (abortRequested = {})'
  BY FrameRequests
<1>2. TypeOK'
  BY DEF IndInv, TypeOK, CompleteDrainedIfIdle
<1>3. queuedCount = 0
  <2>1. CASE NonEmptyLanes = {}
    <3>1. \A k \in LaneKinds : queues[k] = <<>>
      BY <2>1, LanesAreIndexed DEF NonEmptyLanes
    <3>2. \A k \in LaneKinds : Range(queues[k]) = {}
      BY <3>1, EmptyQueue
    <3>3. Queued = {}
      BY <3>2 DEF Queued
    <3> QED
      BY <3>3, FS_EmptySet DEF IndInv, CountOK
  <2> QED
    BY <2>1
<1> QED
  BY SMTT(20), <1>1, <1>2, <1>3
     DEF IndInv, ShutdownOK, DrainedMeansIdle, NoLostWakeup, CompleteDrainedIfIdle

(* The waiters of the queue and the maintenance owner touch nothing else.  *)
LEMMA WaiterStep ==
  ASSUME IndInv,
         \/ ShutdownReturns
         \/ \E w \in Waiters : WaitForActiveWorkers(w) \/ IdleWaitReturns(w)
         \/ \E op \in Operations : PauseAdmission(op) \/ ResumeAdmission(op)
         \/ UNCHANGED vars
  PROVE  IndInv'
<1> USE DEF laneVars, capacityVars, requestVars, tokenVars, shutdownVars, vars,
            ShutdownReturns, WaitForActiveWorkers, IdleWaitReturns, PauseAdmission,
            ResumeAdmission
<1>1. /\ Queued' = Queued /\ LaneShape' /\ CountOK' /\ CapacityExact'
      /\ \A q \in Queued' : QueuedOK(q)'
      /\ \A q \in Requests : RequestOK(q)'
      /\ (abortRequested = {})'
  BY FrameRequests
<1>2. TypeOK'
  <2>1. CASE ShutdownReturns
    BY <2>1 DEF IndInv, TypeOK
  <2>2. CASE \E w \in Waiters : WaitForActiveWorkers(w) \/ IdleWaitReturns(w)
    <3>1. UNCHANGED <<laneVars, capacityVars, requestVars, caller, task, abortRequested, tokenVars,
                      shutdownVars, maintenance, saturated, loop>>
      BY <2>2
    <3>2. idleWaiter' \in [Waiters -> {"none", "waiting", "released", "success", "timeout"}]
      <4>1. idleWaiter \in [Waiters -> {"none", "waiting", "released", "success", "timeout"}]
        BY DEF IndInv, TypeOK
      <4>2. PICK w \in Waiters, v \in {"success", "waiting", "timeout"} :
              idleWaiter' = [idleWaiter EXCEPT ![w] = v]
        BY <2>2
      <4> QED
        BY <4>1, <4>2
    <3> QED
      BY <3>1, <3>2 DEF IndInv, TypeOK
  <2>3. CASE \E op \in Operations : PauseAdmission(op) \/ ResumeAdmission(op)
    BY <2>3 DEF IndInv, TypeOK
  <2>4. CASE UNCHANGED vars
    BY <2>4 DEF IndInv, TypeOK
  <2> QED
    BY <2>1, <2>2, <2>3, <2>4
<1>3. UNCHANGED <<disposed, drained, queuedCount, activeWorkers, loop>>
  OBVIOUS
<1>4. ShutdownOK' /\ NoLostWakeup'
  BY <1>3 DEF IndInv, ShutdownOK, DrainedMeansIdle, NoLostWakeup
<1> QED
  BY <1>1, <1>2, <1>4 DEF IndInv

(* Every step of the queue keeps the invariant.                            *)
LEMMA IndInvNext == IndInv /\ [Next]_vars => IndInv'
<1> SUFFICES ASSUME IndInv, [Next]_vars
             PROVE  IndInv'
  OBVIOUS
<1>1. ASSUME NEW r \in Requests, RequestStep(r)
      PROVE  IndInv'
  BY <1>1, RejectSubmissionStep, AcceptSubmissionStep, TaskReleasesWorkerStep,
     TaskSettlesStep, SubmitReturnsStep, QueueWaitTimeoutStep, DeliverCancelStep
     DEF RequestStep
<1>2. ASSUME NEW t \in Tokens, CancelToken(t)
      PROVE  IndInv'
  BY <1>2, CancelTokenStep
<1>3. CASE LoopStep
  BY <1>3, ProcessQueueStepStep, ProcessQueueExitStep, FlushStepStep, FlushExitStep
     DEF LoopStep
<1>4. CASE Dispose \/ DisposeGracefully
  BY <1>4, DisposeStep
<1>5. CASE \/ ShutdownReturns
           \/ \E w \in Waiters : WaitForActiveWorkers(w) \/ IdleWaitReturns(w)
           \/ \E op \in Operations : PauseAdmission(op) \/ ResumeAdmission(op)
           \/ UNCHANGED vars
  BY <1>5, WaiterStep
<1> QED
  BY <1>1, <1>2, <1>3, <1>4, <1>5 DEF Next, LifecycleStep

(* The invariant holds in every reachable state.                           *)
THEOREM Invariance == Spec => []IndInv
<1> QED
  BY InitIndInv, IndInvNext, PTL DEF Spec

(* The state of the queue keeps its types.                                 *)
THEOREM TypeCorrect == Spec => []TypeOK
<1>1. IndInv => TypeOK
  BY DEF IndInv
<1> QED
  BY <1>1, Invariance, PTL

(* For any number of requests and any caps, the worker counters of the     *)
(* lanes equal the slots held and no cap is exceeded.                      *)
THEOREM CapacityIsExact == Spec => []CapacityExact
<1>1. IndInv => CapacityExact
  BY DEF IndInv
<1> QED
  BY <1>1, Invariance, PTL

(* A caller told that its SQL did not start can rely on it.                *)
THEOREM GhostQueriesCannotHappen == Spec => []NoGhostQuery
<1>1. IndInv => NoGhostQuery
  BY DEF IndInv, RequestOK, NoGhostQuery
<1> QED
  BY <1>1, Invariance, PTL

(* Requests never wait for a queue that has no reason to look at them      *)
(* again.                                                                  *)
THEOREM WakeupsAreNotLost == Spec => []NoLostWakeup
<1>1. IndInv => NoLostWakeup
  BY DEF IndInv
<1> QED
  BY <1>1, Invariance, PTL

(* The drained signal of a graceful shutdown tells the truth for ever.     *)
THEOREM DrainIsFinal == Spec => []DrainedMeansIdle
<1>1. IndInv => DrainedMeansIdle
  BY DEF IndInv, ShutdownOK
<1> QED
  BY <1>1, Invariance, PTL

(* queuedCount counts the queued requests, which all still wait.           *)
THEOREM QueueIsExact == Spec => []QueueExact
<1>1. IndInv => QueueExact
  <2> SUFFICES ASSUME IndInv PROVE QueueExact
    OBVIOUS
  <2>1. \A k \in LaneKinds : Len(queues[k]) = Cardinality(Range(queues[k]))
    BY InjectiveLength DEF IndInv, TypeOK, LaneShape
  <2> QED
    BY <2>1 DEF IndInv, CountOK, QueuedOK, QueueExact
<1> QED
  BY <1>1, Invariance, PTL

(* Every path that changes the length of the queue reports it: the flags of *)
(* the saturation tracker agree with queuedCount in every state.           *)
THEOREM SaturationIsFresh == Spec => []SaturationFresh
<1>1. Init => SaturationFresh
  BY SMT, QueueConstants DEF Init, SaturationFresh, Thresholds
<1>2. SaturationFresh /\ [Next]_vars => SaturationFresh'
  <2> SUFFICES ASSUME SaturationFresh, [Next]_vars
               PROVE  SaturationFresh'
    OBVIOUS
  <2> USE DEF SaturationFresh, RecordSaturation, laneVars
  <2>1. ASSUME NEW r \in Requests, RequestStep(r)
        PROVE  SaturationFresh'
    <3>1. CASE \E internal \in BOOLEAN : RejectSubmission(r, internal) \/ AcceptSubmission(r, internal)
      BY <3>1 DEF RejectSubmission, AcceptSubmission
    <3>2. CASE TaskReleasesWorker(r) \/ SubmitReturns(r)
      BY <3>2 DEF TaskReleasesWorker, SubmitReturns
    <3>3. CASE \E outcome \in {"result", "unexpectedError"} : TaskSettles(r, outcome)
      BY <3>3 DEF TaskSettles
    <3>4. CASE QueueWaitTimeout(r)
      BY <3>4 DEF QueueWaitTimeout
    <3>5. CASE DeliverCancel(r)
      BY <3>5 DEF DeliverCancel, RemoveQueued
    <3> QED
      BY <2>1, <3>1, <3>2, <3>3, <3>4, <3>5 DEF RequestStep
  <2>2. CASE LoopStep
    BY <2>2 DEF LoopStep, ProcessQueueStep, ProcessQueueExit, FlushStep, FlushExit, TakeHead
  <2>3. CASE LifecycleStep
    BY <2>3 DEF LifecycleStep, Dispose, DisposeGracefully, ShutdownReturns
  <2>4. ASSUME NEW t \in Tokens, CancelToken(t)
        PROVE  SaturationFresh'
    BY <2>4 DEF CancelToken
  <2>5. CASE \/ \E w \in Waiters : WaitForActiveWorkers(w) \/ IdleWaitReturns(w)
             \/ \E op \in Operations : PauseAdmission(op) \/ ResumeAdmission(op)
             \/ UNCHANGED vars
    BY <2>5 DEF WaitForActiveWorkers, IdleWaitReturns, PauseAdmission, ResumeAdmission, vars
  <2> QED
    BY <2>1, <2>2, <2>3, <2>4, <2>5 DEF Next
<1> QED
  BY <1>1, <1>2, PTL DEF Spec

(* The rotation: a lane behind the one that is served moves forward.       *)
LEMMA RotationAdvances ==
  ASSUME NEW i \in LaneIndexes, NEW j \in LaneIndexes, i # j,
         NEW last \in LaneIndexes \cup {-1},
         Offset(i, last) <= Offset(j, last)
  PROVE  Offset(j, i) < Offset(j, last)
<1>1. i \in 0 .. 5 /\ j \in 0 .. 5 /\ last \in -1 .. 5
  BY SMT DEF LaneIndexes, LaneCount
<1>2. ASSUME NEW a \in 0 .. 5, NEW b \in -1 .. 5
      PROVE  Offset(a, b) = IF a > b THEN a - b - 1 ELSE a - b + 5
  BY SMT, <1>2 DEF Offset, LaneCount
<1> QED
  BY SMTT(20), <1>1, <1>2

(* An eligible lane that is passed over comes closer to its turn.          *)
THEOREM RoundRobinIsFair == Spec => PassedOverLaneAdvances
<1>1. ASSUME IndInv, NEW j \in EligibleLanes, ProcessQueueStep, lastServed' # j
      PROVE  Offset(j, lastServed') < Offset(j, lastServed)
  <2> DEFINE i == NextLane(EligibleLanes, lastServed)
  <2>1. EligibleLanes \in SUBSET LaneIndexes /\ EligibleLanes # {}
    BY DEF EligibleLanes, NonEmptyLanes
  <2>2. lastServed \in LaneIndexes \cup {-1}
    BY <1>1 DEF IndInv, TypeOK
  <2>3. i \in EligibleLanes /\ \A e \in EligibleLanes : Offset(i, lastServed) <= Offset(e, lastServed)
    BY <2>1, <2>2, NextLaneIsCandidate
  <2>4. lastServed' = i
    BY <1>1 DEF ProcessQueueStep, TakeHead
  <2> HIDE DEF i
  <2> QED
    BY <1>1, <2>1, <2>2, <2>3, <2>4, RotationAdvances
<1>2. IndInv /\ [Next]_vars =>
        [\A j \in EligibleLanes :
           ProcessQueueStep /\ lastServed' # j => Offset(j, lastServed') < Offset(j, lastServed)]_vars
  BY <1>1
<1> QED
  BY <1>2, Invariance, PTL DEF PassedOverLaneAdvances, Spec

=============================================================================
