--------------------------- MODULE SqlQueueLanes ---------------------------
(***************************************************************************)
(* Lanes of the SQL execution queue: one FIFO queue for each kind of SQL   *)
(* work, the worker caps of the lanes and the round-robin rule that picks  *)
(* the next lane head to start.                                            *)
(*                                                                         *)
(* lib/application/queue/sql_queue_lane_scheduler.dart,                    *)
(* lib/application/queue/sql_execution/sql_execution_lane_capacity.dart.   *)
(***************************************************************************)
EXTENDS Integers, Sequences, FiniteSets

CONSTANTS
  Requests,      \* the requests submitted to the queue
  Kind,          \* the lane of each request
  Weight,        \* the slot weight of each request
  LaneCap        \* the worker cap of each capped lane

\* SqlQueueLaneScheduler.laneOrder: the lanes in the order of the enum.
LaneOrder == <<"query", "shortQuery", "longQuery", "nonQuery", "batch", "streaming">>

LaneCount == 6

LaneIndexes == 0 .. LaneCount - 1

LaneKinds == {"query", "shortQuery", "longQuery", "nonQuery", "batch", "streaming"}

CappedLanes == {"longQuery", "nonQuery", "batch", "streaming"}

ASSUME LaneConstants ==
  /\ IsFiniteSet(Requests)
  /\ Kind \in [Requests -> LaneKinds]
  /\ Weight \in [Requests -> Nat]
  /\ LaneCap \in [CappedLanes -> Nat \ {0}]

-----------------------------------------------------------------------------

\* The slots of its lane that a request takes: only batches are weighted.
SlotsOf(r) == IF Kind[r] = "batch" THEN Weight[r] ELSE 1

\* A weight the queue accepts: positive, and a batch must fit its lane.
ValidWeight(r) ==
  /\ Weight[r] >= 1
  /\ Kind[r] = "batch" => Weight[r] <= LaneCap["batch"]

\* Faulty canStart: a batch is admitted as if it took one slot.
CanStartUnweighted(r, laneActive) ==
  Kind[r] \in CappedLanes => laneActive[Kind[r]] + 1 <= LaneCap[Kind[r]]

\* SqlExecutionLaneCapacity.canStart, given the slots taken in each lane.
CanStart(r, laneActive) ==
  Kind[r] \in CappedLanes => laneActive[Kind[r]] + SlotsOf(r) <= LaneCap[Kind[r]]

\* SqlExecutionLaneCapacity.onWorkerStarted: the slots of r's lane are taken.
TakeSlots(r, laneActive) ==
  [k \in CappedLanes |-> IF k = Kind[r] THEN laneActive[k] + SlotsOf(r) ELSE laneActive[k]]

\* SqlExecutionLaneCapacity.onWorkerReleased: they are given back, never
\* below zero.
ReturnSlots(r, laneActive) ==
  [k \in CappedLanes |->
     IF k = Kind[r] /\ laneActive[k] > 0
       THEN IF laneActive[k] >= SlotsOf(r) THEN laneActive[k] - SlotsOf(r) ELSE 0
       ELSE laneActive[k]]

-----------------------------------------------------------------------------

\* The position of lane i in the rotation that starts after the lane served last.
Offset(i, lastServed) == (i - lastServed - 1) % LaneCount

\* The lane SqlQueueLaneScheduler._takeNext serves: of the candidate lanes,
\* the first one of the rotation.
NextLane(candidates, lastServed) ==
  CHOOSE i \in candidates :
    \A j \in candidates : Offset(i, lastServed) <= Offset(j, lastServed)

=============================================================================
