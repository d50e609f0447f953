------------------------ MODULE MCSqlExecutionQueue ------------------------
(* Instances of SqlExecutionQueue for TLC. *)
EXTENDS SqlExecutionQueue, TLC

CONSTANTS r1, r2, r3, r4, t1

Cap == [k \in CappedLanes |-> IF k = "batch" THEN 3 ELSE 1]

\* Mix: two batches that compete for the weighted lane and share a token, a
\* streaming request that may release its worker early, and the batch r4.  Two
\* batches of weight two do not fit, and the one that waits holds back a batch
\* behind it that would fit.
MixKind == (r1 :> "batch") @@ (r2 :> "batch") @@ (r3 :> "streaming") @@ (r4 :> "batch")
MixWeight == (r1 :> 2) @@ (r2 :> 1) @@ (r3 :> 1) @@ (r4 :> 2)
MixToken == (r1 :> t1) @@ (r2 :> t1) @@ (r3 :> NoToken) @@ (r4 :> NoToken)

\* The scenario of Mix: r4 comes first and does not throw, and a pause of the
\* admission meets neither a waitForActiveWorkers nor a shutdown.
Scenario ==
  /\ caller[r4] = "new" => caller'[r4] # "new"
  /\ completer'[r4] # "unexpectedError"
  /\ maintenance' # NoOperation => ~disposed' /\ \A w \in Waiters : idleWaiter'[w] = "none"

MixNext == Next /\ Scenario

MixSpec == Init /\ [][MixNext]_vars /\ Fairness

\* Idle: two requests of one lane on one worker and a caller that waits for it.
IdleKind == [r \in Requests |-> "query"]
IdleWeight == [r \in Requests |-> 1]
IdleToken == [r \in Requests |-> NoToken]

=============================================================================
