---------------------- MODULE ConnectionCircuitBreaker ----------------------
(***************************************************************************)
(* The circuit breakers in front of the ODBC operations                    *)
(* (lib/infrastructure/circuit_breaker).  A breaker is looked up in an LRU *)
(* cache by connection string; execute() then decides synchronously        *)
(* whether the call may run, awaits the database operation, and records    *)
(* the outcome when the operation returns; when it throws, nothing.        *)
(* Callers are concurrent: many operations of one breaker can be in        *)
(* flight, each begun in a different circuit state, and a breaker that     *)
(* left the cache lives on for the calls that hold it.                     *)
(*                                                                         *)
(* The clock is one bit per breaker: cooled says whether the reset timeout *)
(* has elapsed since the breaker opened.  Logging and the rejection        *)
(* counter (a diagnostic) are left out.  The field threw is a history that *)
(* no step reads: a probe has thrown since the flag was last cleared.      *)
(***************************************************************************)
EXTENDS DartQueue

CONSTANTS Callers,          \* concurrent callers; each calls again and again
          Keys,             \* connection strings
          Breakers,         \* breaker objects
          FailureThreshold, \* _failureThreshold
          MaxSize,          \* the cache's _maxSize
          MaxFailures,      \* bound: the failures one breaker counts
          NoBreaker         \* what a caller between two calls holds

ASSUME ThresholdAssumption ==
  FailureThreshold \in Nat /\ FailureThreshold >= 1
ASSUME CacheAssumption == MaxSize \in Nat /\ MaxSize >= 1
ASSUME BoundAssumption == MaxFailures \in Nat /\ NoBreaker \notin Breakers

VARIABLES
  entries,   \* the keys of _entries, least recently used first
  cached,    \* the values of _entries
  breaker,   \* the fields of each breaker object
  caller,    \* "idle", "running", or "probing" if admitted in half-open
  on,        \* the breaker a running call holds
  databaseUp \* the database answers: no operation fails any more

breakerVars == <<entries, cached, breaker, caller, on, databaseUp>>

Fresh ==
  [state |-> "closed", failures |-> 0, cooled |-> FALSE, probe |-> FALSE,
   threw |-> FALSE]

BreakerInit ==
  /\ entries = << >>
  /\ cached = [k \in Keys |-> NoBreaker]
  /\ breaker = [b \in Breakers |-> Fresh]
  /\ caller = [c \in Callers |-> "idle"]
  /\ on = [c \in Callers |-> NoBreaker]
  /\ databaseUp = FALSE

-----------------------------------------------------------------------------
(* The cache.                                                              *)

CachedBreakers == {cached[k] : k \in Range(entries)}
Running == {c \in Callers : caller[c] # "idle"}

(* An object nothing refers to: what the factory's new object can be.      *)
Unused == Breakers \ (CachedBreakers \cup {on[c] : c \in Callers})

Reinsert(k) ==
  /\ entries' = Append(Remove(entries, k), k)
  /\ UNCHANGED cached

(* A new key: the least recently used entry is evicted at capacity.        *)
Insert(k, b) ==
  LET full == Len(entries) >= MaxSize
      rest == IF full THEN [cached EXCEPT ![Head(entries)] = NoBreaker]
                      ELSE cached
  IN  /\ entries' = Append(IF full THEN Tail(entries) ELSE entries, k)
      /\ cached' = [rest EXCEPT ![k] = b]

GetOrCreate(k, b) ==
  IF k \in Range(entries) THEN b = cached[k] /\ Reinsert(k)
                          ELSE b \in Unused /\ Insert(k, b)

(* The fields of the breaker getOrCreate returned: the factory's object is *)
(* fresh.                                                                  *)
Obtained(k, b) == IF k \in Range(entries) THEN breaker[b] ELSE Fresh

-----------------------------------------------------------------------------
(* ConnectionCircuitBreaker.execute up to the await of the operation.      *)

(* An open breaker whose reset timeout has elapsed enters half-open.       *)
Awakened(f) ==
  IF f.state = "open" /\ f.cooled THEN [f EXCEPT !.state = "halfOpen"] ELSE f

Rejects(f) == f.state = "open" \/ (f.state = "halfOpen" /\ f.probe)

Execute(c, k) ==
  /\ caller[c] = "idle"
  /\ \E b \in Breakers :
       /\ GetOrCreate(k, b)
       /\ LET f == Awakened(Obtained(k, b)) IN
          IF Rejects(f)
          THEN /\ breaker' = [breaker EXCEPT ![b] = f]
               /\ UNCHANGED <<caller, on>>
          ELSE /\ breaker' = [breaker EXCEPT ![b] =
                                [f EXCEPT !.probe = @ \/ f.state = "halfOpen"]]
               /\ caller' = [caller EXCEPT ![c] =
                               IF f.state = "halfOpen" THEN "probing"
                                                       ELSE "running"]
               /\ on' = [on EXCEPT ![c] = b]
  /\ UNCHANGED databaseUp

-----------------------------------------------------------------------------
(* execute after the operation returned: whichever state the call was      *)
(* admitted in, its result clears the probe flag.                          *)

\* Faulty: the circuit stays half-open after a successful probe.
OnSuccessStillTesting(f) == [f EXCEPT !.failures = 0]

OnSuccess(f) ==
  [f EXCEPT !.failures = 0,
            !.state = IF @ = "halfOpen" THEN "closed" ELSE @]

OnFailure(f) ==
  LET n == f.failures + 1 IN
  IF n >= FailureThreshold /\ f.state # "open"
  THEN [f EXCEPT !.failures = n, !.state = "open", !.cooled = FALSE]
  ELSE [f EXCEPT !.failures = n]

Complete(c, f) ==
  /\ breaker' = [breaker EXCEPT ![on[c]] = f]
  /\ caller' = [caller EXCEPT ![c] = "idle"]
  /\ on' = [on EXCEPT ![c] = NoBreaker]
  /\ UNCHANGED <<entries, cached, databaseUp>>

ProbeCleared(f) == [f EXCEPT !.probe = FALSE, !.threw = FALSE]

OperationSucceeds(c) ==
  /\ c \in Running
  /\ Complete(c, OnSuccess(ProbeCleared(breaker[on[c]])))

(* A failure _shouldRecordFailure accepts: the connection was lost.        *)
OperationLosesConnection(c) ==
  /\ c \in Running
  /\ ~databaseUp
  /\ breaker[on[c]].failures < MaxFailures
  /\ Complete(c, OnFailure(ProbeCleared(breaker[on[c]])))

\* Faulty: an ignored failure leaves the probe flag set.
OperationFailsOtherwiseEarly(c) ==
  /\ c \in Running
  /\ ~databaseUp
  /\ Complete(c, breaker[on[c]])

(* A failure it ignores: local pressure, authentication, a query error.    *)
OperationFailsOtherwise(c) ==
  /\ c \in Running
  /\ ~databaseUp
  /\ Complete(c, ProbeCleared(breaker[on[c]]))

(* The operation throws.  execute awaits it without a try, so the caller   *)
(* gets the exception and the breaker keeps its fields.                    *)
OperationThrows(c) ==
  /\ c \in Running
  /\ ~databaseUp
  /\ Complete(c, [breaker[on[c]] EXCEPT !.threw = @ \/ caller[c] = "probing"])

-----------------------------------------------------------------------------
(* Recovery: the clock, resetCircuitBreaker, clearAllCircuitBreakers.      *)

ResetTimeoutElapses(b) ==
  /\ breaker[b].state = "open" /\ ~breaker[b].cooled
  /\ breaker' = [breaker EXCEPT ![b].cooled = TRUE]
  /\ UNCHANGED <<entries, cached, caller, on, databaseUp>>

(* Saving or activating a database configuration resets its breaker.       *)
Reset(k) ==
  /\ k \in Range(entries)
  /\ breaker' = [breaker EXCEPT ![cached[k]] = Fresh]
  /\ UNCHANGED <<entries, cached, caller, on, databaseUp>>

Clear ==
  /\ entries # << >>
  /\ entries' = << >>
  /\ cached' = [k \in Keys |-> NoBreaker]
  /\ UNCHANGED <<breaker, caller, on, databaseUp>>

(* The database comes back for good (the environment's step).              *)
DatabaseRecovers ==
  /\ ~databaseUp
  /\ databaseUp' = TRUE
  /\ UNCHANGED <<entries, cached, breaker, caller, on>>

BreakerNext ==
  \/ \E c \in Callers : \/ \E k \in Keys : Execute(c, k)
                        \/ OperationSucceeds(c)
                        \/ OperationLosesConnection(c)
                        \/ OperationFailsOtherwise(c)
                        \/ OperationThrows(c)
  \/ \E b \in Breakers : ResetTimeoutElapses(b)
  \/ \E k \in Keys : Reset(k)
  \/ Clear
  \/ DatabaseRecovers

BreakerSpec == BreakerInit /\ [][BreakerNext]_breakerVars

(* Clients keep calling for every connection string, operations end, and   *)
(* clocks advance.  Nothing forces a reset or the database's recovery. *)
FairBreakerSpec ==
  /\ BreakerSpec
  /\ \A c \in Callers :
       /\ \A k \in Keys : SF_breakerVars(Execute(c, k))
       /\ WF_breakerVars(OperationSucceeds(c) \/ OperationLosesConnection(c)
                    \/ OperationFailsOtherwise(c) \/ OperationThrows(c))
  /\ \A b \in Breakers : WF_breakerVars(ResetTimeoutElapses(b))

-----------------------------------------------------------------------------
(* The types of the cache, the breakers and the callers.                   *)
BreakerTypeOK ==
  /\ entries \in Seq(Keys)
  /\ cached \in [Keys -> Breakers \cup {NoBreaker}]
  /\ breaker \in [Breakers -> [state : {"closed", "open", "halfOpen"},
                               failures : Nat,
                               cooled : BOOLEAN, probe : BOOLEAN,
                               threw : BOOLEAN]]
  /\ caller \in [Callers -> {"idle", "running", "probing"}]
  /\ on \in [Callers -> Breakers \cup {NoBreaker}]
  /\ databaseUp \in BOOLEAN

(* _halfOpenProbeInProgress is set only while a probe of that breaker is   *)
(* in flight, or after one threw: no other interleaving of late results,   *)
(* second probes, resets and evictions leaves the flag behind, which makes *)
(* execute reject every call.                                              *)
ProbeFlagIsHeld ==
  \A b \in Breakers :
    breaker[b].probe =>
      breaker[b].threw \/ \E c \in Callers : caller[c] = "probing" /\ on[c] = b

(* A closed breaker has seen fewer than _failureThreshold recorded         *)
(* failures since its last success, whatever the order in which the calls  *)
(* begun before, during and after an open episode complete.                *)
ClosedBelowThreshold ==
  \A b \in Breakers :
    breaker[b].state = "closed" => breaker[b].failures < FailureThreshold

(* The LRU cache holds at most _maxSize breakers, one for each key, and no *)
(* breaker serves two keys.                                                *)
CacheIsBounded ==
  /\ Len(entries) <= MaxSize
  /\ \A i, j \in 1 .. Len(entries) : entries[i] = entries[j] => i = j
  /\ \A k \in Keys : k \in Range(entries) <=> cached[k] # NoBreaker
  /\ \A k, l \in Range(entries) : cached[k] = cached[l] => k = l

(* Left set by a probe that threw, with no call in flight to clear it.     *)
Abandoned(b) == breaker[b].probe /\ \A c \in Callers : on[c] # b

(* Once operations stop failing, a breaker that callers use closes (or     *)
(* leaves the cache), unless its probe flag is abandoned by then: that is  *)
(* the only way in which execute gets stuck in open or half-open.          *)
RecoversWithTheDatabase ==
  \A b \in Breakers :
    (databaseUp /\ b \in CachedBreakers /\ ~Abandoned(b))
      ~> (b \notin CachedBreakers \/ breaker[b].state = "closed")

(* What docs/architecture/QUICKSTART.md says of a breaker that rejects     *)
(* calls while the database is up: it is in its reset interval, and to     *)
(* wait is enough.                                                         *)
WaitingIsEnough ==
  \A b \in Breakers :
    (databaseUp /\ b \in CachedBreakers)
      ~> (b \notin CachedBreakers \/ breaker[b].state = "closed")

(* "In half-open: allow exactly one probe": of the calls a half-open       *)
(* breaker admitted as probes at most one is in flight.                    *)
SingleProbe ==
  \A b \in Breakers :
    breaker[b].state = "halfOpen" =>
      Cardinality({c \in Callers : caller[c] = "probing" /\ on[c] = b}) <= 1
=============================================================================
