----------------------- MODULE MCActionExecutionQueue -----------------------
(* An instance of ActionExecutionQueue for TLC: one action, edited between *)
(* the requests.  r1 and r2 queue, in a line of one and of two; r3 runs in *)
(* parallel; r4 carries the key of r1 and is turned away rather than queue. *)
EXTENDS ActionExecutionQueue, TLC

CONSTANTS r1, r2, r3, r4, a1, k1

QueuePolicy(b, c, q) == [behavior |-> b, maxConcurrent |-> c, maxQueued |-> q]

Edits == (r1 :> QueuePolicy("enqueue", 1, 1)) @@ (r2 :> QueuePolicy("enqueue", 1, 2))
           @@ (r3 :> QueuePolicy("allowParallel", 1, 1)) @@ (r4 :> QueuePolicy("reject", 2, 1))

OneAction == [r \in Requests |-> a1]
EditedKey == [r \in Requests |-> IF r \in {r1, r4} THEN k1 ELSE NoKey]
EditedPolicy == [r \in Requests |-> Edits[r]]

=============================================================================
