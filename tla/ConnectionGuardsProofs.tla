----------------------- MODULE ConnectionGuardsProofs -----------------------
(***************************************************************************)
(* What stands between a query and the opening of an ODBC connection: the  *)
(* circuit breakers and the limiter of direct connections.  They share no  *)
(* state; each is proved safe on its own.                                  *)
(*                                                                         *)
(* The breakers: for any number of callers, connection strings and breaker *)
(* objects, any threshold and any cache size.                              *)
(*                                                                         *)
(* The limiter: for any operations, classes of operations and limits.  The *)
(* global semaphore and that of a class keep the same kind of books, so    *)
(* the argument is made once, for a stage of the acquisition: who passes   *)
(* it, where they wait, where their wait expires, and where they own its   *)
(* permit.                                                                 *)
(***************************************************************************)
EXTENDS ConnectionCircuitBreaker, DirectOdbcConnectionLimiter, QueueLemmas, TLAPS

\* A leaf that names no prover is one for Zenon.
USE ZenonT(30)

-----------------------------------------------------------------------------
(* The circuit breakers.                                                   *)

(* Exactly the callers between two calls hold no breaker.                  *)
HoldsWhileCalling ==
  \A c \in Callers : caller[c] = "idle" <=> on[c] = NoBreaker

IndInv ==
  /\ BreakerTypeOK
  /\ HoldsWhileCalling
  /\ ProbeFlagIsHeld
  /\ ClosedBelowThreshold
  /\ CacheIsBounded

Fields == [state : {"closed", "open", "halfOpen"}, failures : Nat,
           cooled : BOOLEAN, probe : BOOLEAN, threw : BOOLEAN]

(* What execute does to a breaker's fields keeps a closed breaker below    *)
(* the threshold, and only a success, a recorded failure or reset moves it *)
(* out of a state.                                                         *)
Sound(f) == f \in Fields /\ (f.state = "closed" => f.failures < FailureThreshold)

(* A new breaker is closed and below the threshold.                        *)
LEMMA FreshIsSound == Sound(Fresh) /\ ~Fresh.probe
BY SMT, ThresholdAssumption DEF Sound, Fields, Fresh

(* Entering half-open keeps the failure count, the flag and its history.   *)
LEMMA AwakenedIsSound ==
  ASSUME NEW f, Sound(f)
  PROVE  /\ Sound(Awakened(f))
         /\ Awakened(f).probe = f.probe /\ Awakened(f).threw = f.threw
BY DEF Sound, Fields, Awakened

(* What an operation that throws leaves, p when it was the probe.          *)
Thrown(f, p) == [f EXCEPT !.threw = @ \/ p]

(* An operation that throws changes nothing but the history.               *)
LEMMA ThrownIsSound ==
  ASSUME NEW f, Sound(f), NEW p \in BOOLEAN
  PROVE  /\ Sound(Thrown(f, p)) /\ Thrown(f, p).probe = f.probe
         /\ f.threw => Thrown(f, p).threw
         /\ p => Thrown(f, p).threw
<1> DEFINE g == Thrown(f, p)
<1>1. f \in Fields /\ (f.threw \/ p) \in BOOLEAN
  BY DEF Sound, Fields
<1>2. /\ g \in Fields /\ g.state = f.state /\ g.failures = f.failures /\ g.probe = f.probe
      /\ g.threw = (f.threw \/ p)
  BY <1>1 DEF Fields, Thrown
<1> QED
  BY <1>1, <1>2 DEF Sound

(* Recording a success closes a half-open breaker with no failures.        *)
LEMMA OnSuccessIsSound ==
  ASSUME NEW f, Sound(f)
  PROVE  Sound(OnSuccess(f)) /\ OnSuccess(f).probe = f.probe
<1> DEFINE g == OnSuccess(f)
<1>1. f \in Fields
  BY DEF Sound
<1>2. /\ g.failures = 0 /\ g.cooled = f.cooled /\ g.probe = f.probe
      /\ g.state = IF f.state = "halfOpen" THEN "closed" ELSE f.state
  BY <1>1 DEF Fields, OnSuccess
<1>3. g \in Fields
  BY <1>1 DEF Fields, OnSuccess
<1> QED
  BY SMT, <1>1, <1>2, <1>3, ThresholdAssumption DEF Sound

(* The failure that reaches the threshold opens the breaker.               *)
LEMMA OnFailureIsSound ==
  ASSUME NEW f, Sound(f)
  PROVE  Sound(OnFailure(f)) /\ OnFailure(f).probe = f.probe
<1> DEFINE g == OnFailure(f)
           n == f.failures + 1
<1>1. f \in Fields /\ n \in Nat
  BY SMT DEF Sound, Fields
<1>2. CASE n >= FailureThreshold /\ f.state # "open"
  <2>1. g = [f EXCEPT !.failures = n, !.state = "open", !.cooled = FALSE]
    BY <1>2 DEF OnFailure
  <2>2. g \in Fields
    BY <1>1, <2>1 DEF Fields
  <2>3. g.state = "open" /\ g.probe = f.probe
    BY <1>1, <2>1 DEF Fields
  <2> QED
    BY <2>2, <2>3 DEF Sound
<1>3. CASE ~(n >= FailureThreshold /\ f.state # "open")
  <2>1. g = [f EXCEPT !.failures = n]
    BY <1>3 DEF OnFailure
  <2>2. g \in Fields
    BY <1>1, <2>1 DEF Fields
  <2>3. g.state = f.state /\ g.probe = f.probe /\ g.failures = n
    BY <1>1, <2>1 DEF Fields
  <2> QED
    BY SMT, <1>1, <1>3, <2>2, <2>3, ThresholdAssumption DEF Sound
<1> QED
  BY <1>2, <1>3

(* Every result clears the probe flag.                                     *)
LEMMA ProbeClearedIsSound ==
  ASSUME NEW f, Sound(f)
  PROVE  Sound(ProbeCleared(f)) /\ ~ProbeCleared(f).probe
BY DEF Sound, Fields, ProbeCleared

(* The inductive invariant says of every breaker that it is sound.         *)
LEMMA BreakersAreSound ==
  (breaker \in [Breakers -> Fields] /\ ClosedBelowThreshold)
    <=> (breaker \in [Breakers -> Fields] /\ \A b \in Breakers : Sound(breaker[b]))
BY DEF Sound, ClosedBelowThreshold

(* The initial state: an empty cache and fresh breakers.                   *)
LEMMA InitIndInv == BreakerInit => IndInv
<1> SUFFICES ASSUME BreakerInit PROVE IndInv
  OBVIOUS
<1> USE DEF BreakerInit
<1>1. BreakerTypeOK
  <2>1. Fresh \in Fields
    BY DEF Fields, Fresh
  <2>2. entries \in Seq(Keys)
    BY SMT
  <2> QED
    BY <2>1, <2>2 DEF BreakerTypeOK, Fields
<1>2. HoldsWhileCalling
  BY DEF HoldsWhileCalling
<1>3. ProbeFlagIsHeld
  BY DEF ProbeFlagIsHeld, Fresh
<1>4. ClosedBelowThreshold
  BY SMT, ThresholdAssumption DEF ClosedBelowThreshold, Fresh
<1>5. CacheIsBounded
  <2>1. Len(entries) = 0 /\ Range(entries) = {}
    BY EmptyQueue
  <2> QED
    BY SMT, <2>1, CacheAssumption DEF CacheIsBounded
<1> QED
  BY <1>1, <1>2, <1>3, <1>4, <1>5 DEF IndInv

(* getOrCreate of a cached key moves it to the end of the line.            *)
LEMMA ReinsertKeepsCache ==
  ASSUME BreakerTypeOK, CacheIsBounded, NEW k \in Range(entries), Reinsert(k)
  PROVE  /\ entries' \in Seq(Keys)
         /\ cached' = cached
         /\ CacheIsBounded'
<1> DEFINE s == Remove(entries, k)
<1>1. entries \in Seq(Keys) /\ Injective(entries) /\ k \in Keys
  BY SMT DEF BreakerTypeOK, CacheIsBounded, Injective, Range
<1>2. s \in Seq(Keys) /\ Injective(s) /\ Range(s) = Range(entries) \ {k}
  BY <1>1, RemoveFromQueue
<1>3. Len(s) = Len(entries) - 1
  BY <1>1, RemoveShortens
<1>4. entries' = Append(s, k) /\ cached' = cached
  BY DEF Reinsert
<1> HIDE DEF s
<1>5. k \notin Range(s)
  BY <1>2
<1>6. entries' \in Seq(Keys) /\ Injective(entries') /\ Range(entries') = Range(s) \cup {k}
  <2>1. /\ Append(s, k) \in Seq(Keys) /\ Injective(Append(s, k))
        /\ Range(Append(s, k)) = Range(s) \cup {k}
    BY SMTT(20), <1>1, <1>2, <1>5, AppendToQueue
  <2> QED
    BY <1>4, <2>1
<1>7. Len(entries') = Len(entries)
  BY SMT, <1>1, <1>2, <1>3, <1>4
<1>8. Range(entries') = Range(entries)
  BY <1>2, <1>6
<1> QED
  BY <1>4, <1>6, <1>7, <1>8 DEF CacheIsBounded, Injective

(* getOrCreate of a new key evicts the least recently used one at          *)
(* capacity, and gives the new key an object no other key has.             *)
LEMMA InsertKeepsCache ==
  ASSUME BreakerTypeOK, CacheIsBounded, NEW k \in Keys \ Range(entries),
         NEW b \in Unused, Insert(k, b)
  PROVE  /\ entries' \in Seq(Keys)
         /\ cached' \in [Keys -> Breakers \cup {NoBreaker}]
         /\ CacheIsBounded'
<1> DEFINE full == Len(entries) >= MaxSize
           s == IF full THEN Tail(entries) ELSE entries
           rest == IF full THEN [cached EXCEPT ![Head(entries)] = NoBreaker]
                           ELSE cached
<1>1. entries \in Seq(Keys) /\ Injective(entries) /\ Len(entries) <= MaxSize
  BY DEF BreakerTypeOK, CacheIsBounded, Injective
<1>2. entries' = Append(s, k) /\ cached' = [rest EXCEPT ![k] = b]
  BY DEF Insert
<1>3. /\ s \in Seq(Keys) /\ Injective(s) /\ Len(s) < MaxSize
      /\ Range(s) = {l \in Range(entries) : full => l # Head(entries)}
      /\ full => Head(entries) \in Range(entries)
  <2>1. CASE full
    <3>1. entries # << >>
      BY SMTT(20), <2>1, CacheAssumption, <1>1
    <3>2. Len(Tail(entries)) = Len(entries) - 1
      BY SMT, <1>1, <3>1
    <3>3. /\ Tail(entries) \in Seq(Keys) /\ Injective(Tail(entries))
          /\ Range(Tail(entries)) = Range(entries) \ {Head(entries)}
          /\ Head(entries) \in Range(entries)
      BY <1>1, <3>1, TailOfQueue
    <3>4. Len(Tail(entries)) < MaxSize
      BY SMTT(20), <1>1, <3>2, CacheAssumption
    <3> QED
      BY <2>1, <3>3, <3>4
  <2>2. CASE ~full
    <3>1. Len(entries) < MaxSize
      BY SMT, <1>1, <2>2, CacheAssumption
    <3>2. s = entries
      BY <2>2
    <3> QED
      BY <1>1, <2>2, <3>1, <3>2
  <2> QED
    BY <2>1, <2>2
<1>4. /\ cached \in [Keys -> Breakers \cup {NoBreaker}]
      /\ b \in Breakers /\ b # NoBreaker
      /\ \A l \in Range(entries) : cached[l] # b
      /\ Range(entries) \subseteq Keys
  <2>1. b \in Breakers /\ \A l \in Range(entries) : cached[l] # b
    BY DEF Unused, CachedBreakers
  <2>2. Range(entries) \subseteq Keys
    BY SMT, <1>1 DEF Range
  <2> QED
    BY BoundAssumption, <2>1, <2>2 DEF BreakerTypeOK
<1>5. rest \in [Keys -> Breakers \cup {NoBreaker}]
  BY <1>4
<1>6. \A l \in Keys : rest[l] = IF full /\ l = Head(entries) THEN NoBreaker ELSE cached[l]
  BY <1>3, <1>4
<1>7. cached' \in [Keys -> Breakers \cup {NoBreaker}]
  BY <1>2, <1>4, <1>5
<1>8. \A l \in Keys : cached'[l] = IF l = k THEN b ELSE rest[l]
  BY <1>2, <1>5
<1> HIDE DEF s, rest, full
<1>9. /\ entries' \in Seq(Keys) /\ Injective(entries')
      /\ Range(entries') = Range(s) \cup {k}
  <2>1. k \notin Range(s)
    BY <1>3
  <2>2. /\ Append(s, k) \in Seq(Keys) /\ Injective(Append(s, k))
        /\ Range(Append(s, k)) = Range(s) \cup {k}
    BY SMT, <1>3, <2>1, AppendToQueue
  <2> QED
    BY <1>2, <2>2
<1>10. Len(entries') <= MaxSize
  BY SMT, <1>2, <1>3, CacheAssumption
<1>11. \A l \in Keys : l \in Range(entries) <=> cached[l] # NoBreaker
  BY DEF CacheIsBounded
<1>12. \A l \in Keys : l \in Range(entries') <=> cached'[l] # NoBreaker
  BY <1>3, <1>4, <1>6, <1>8, <1>9, <1>11
<1>13. \A l, m \in Range(entries') : cached'[l] = cached'[m] => l = m
  <2>1. \A l \in Range(s) : l \in Keys /\ l # k /\ cached'[l] = cached[l] /\ l \in Range(entries)
    BY <1>3, <1>4, <1>6, <1>8
  <2>2. cached'[k] = b
    BY <1>8
  <2>3. \A l, m \in Range(entries) : cached[l] = cached[m] => l = m
    BY DEF CacheIsBounded
  <2> QED
    BY <1>4, <1>9, <2>1, <2>2, <2>3
<1> QED
  BY <1>7, <1>9, <1>10, <1>12, <1>13 DEF CacheIsBounded, Injective


(* A call is rejected, or admitted as a normal call or as the probe.       *)
LEMMA ExecuteStep ==
  ASSUME IndInv, NEW c \in Callers, NEW k \in Keys, Execute(c, k)
  PROVE  IndInv'
<1>1. PICK b \in Breakers :
        /\ GetOrCreate(k, b)
        /\ LET f == Awakened(Obtained(k, b)) IN
           IF Rejects(f)
           THEN /\ breaker' = [breaker EXCEPT ![b] = f]
                /\ UNCHANGED <<caller, on>>
           ELSE /\ breaker' = [breaker EXCEPT ![b] =
                                 [f EXCEPT !.probe = @ \/ f.state = "halfOpen"]]
                /\ caller' = [caller EXCEPT ![c] =
                                IF f.state = "halfOpen" THEN "probing"
                                                        ELSE "running"]
                /\ on' = [on EXCEPT ![c] = b]
  BY DEF Execute
<1>2. caller[c] = "idle" /\ databaseUp' = databaseUp
  BY DEF Execute
<1> DEFINE f == Awakened(Obtained(k, b))
           g == [f EXCEPT !.probe = @ \/ f.state = "halfOpen"]
<1>3. BreakerTypeOK /\ HoldsWhileCalling /\ ProbeFlagIsHeld /\ ClosedBelowThreshold /\ CacheIsBounded
  BY DEF IndInv
<1>4. /\ breaker \in [Breakers -> Fields]
      /\ caller \in [Callers -> {"idle", "running", "probing"}]
      /\ on \in [Callers -> Breakers \cup {NoBreaker}]
      /\ \A x \in Breakers : Sound(breaker[x])
  BY <1>3, BreakersAreSound DEF BreakerTypeOK, Fields
<1>5. /\ entries' \in Seq(Keys)
      /\ cached' \in [Keys -> Breakers \cup {NoBreaker}]
      /\ CacheIsBounded'
  <2>1. CASE k \in Range(entries)
    BY <1>1, <1>3, <2>1, ReinsertKeepsCache DEF GetOrCreate, BreakerTypeOK
  <2>2. CASE k \notin Range(entries)
    <3>1. b \in Unused /\ Insert(k, b)
      BY <1>1, <2>2 DEF GetOrCreate
    <3> QED
      BY <1>3, <2>2, <3>1, InsertKeepsCache
  <2> QED
    BY <2>1, <2>2
<1>6. /\ Sound(f)
      /\ f.probe => f.threw \/ \E d \in Callers : caller[d] = "probing" /\ on[d] = b
  <2>1. CASE k \in Range(entries)
    <3>1. Obtained(k, b) = breaker[b]
      BY <2>1 DEF Obtained
    <3> QED
      BY <1>3, <1>4, <3>1, AwakenedIsSound DEF ProbeFlagIsHeld
  <2>2. CASE k \notin Range(entries)
    <3>1. Obtained(k, b) = Fresh
      BY <2>2 DEF Obtained
    <3> QED
      BY <3>1, FreshIsSound, AwakenedIsSound
  <2> QED
    BY <2>1, <2>2
<1> HIDE DEF f
<1>7. Sound(g) /\ g.state = f.state /\ g.threw = f.threw /\ (g.probe => f.probe \/ f.state = "halfOpen")
  BY <1>6 DEF Sound, Fields
<1>8. CASE Rejects(f)
  <2>1. /\ breaker' = [breaker EXCEPT ![b] = f]
        /\ caller' = caller /\ on' = on
    BY <1>1, <1>8 DEF f
  <2>2. /\ breaker' \in [Breakers -> Fields]
        /\ \A x \in Breakers : Sound(breaker'[x])
    BY <1>4, <1>6, <2>1 DEF Sound
  <2>3. BreakerTypeOK'
    BY <1>2, <1>3, <1>5, <2>1, <2>2 DEF BreakerTypeOK, Fields
  <2>4. ClosedBelowThreshold'
    BY <2>2 DEF ClosedBelowThreshold, Sound
  <2>5. HoldsWhileCalling'
    BY <1>3, <2>1 DEF HoldsWhileCalling
  <2>6. ProbeFlagIsHeld'
    <3>1. \A x \in Breakers : breaker'[x] = IF x = b THEN f ELSE breaker[x]
      BY <1>4, <2>1
    <3> QED
      BY SMTT(20), <1>3, <1>6, <2>1, <3>1 DEF ProbeFlagIsHeld
  <2> QED
    BY <1>5, <2>3, <2>4, <2>5, <2>6 DEF IndInv
<1>9. CASE ~Rejects(f)
  <2>1. /\ breaker' = [breaker EXCEPT ![b] = g]
        /\ caller' = [caller EXCEPT ![c] = IF f.state = "halfOpen" THEN "probing"
                                                                   ELSE "running"]
        /\ on' = [on EXCEPT ![c] = b]
    BY <1>1, <1>9 DEF f
  <2>2. /\ breaker' \in [Breakers -> Fields]
        /\ \A x \in Breakers : Sound(breaker'[x])
    BY <1>4, <1>7, <2>1 DEF Sound
  <2>3. BreakerTypeOK'
    <3>1. caller' \in [Callers -> {"idle", "running", "probing"}]
      BY <1>4, <2>1
    <3>2. on' \in [Callers -> Breakers \cup {NoBreaker}]
      BY <1>4, <2>1
    <3> QED
      BY <1>2, <1>3, <1>5, <2>2, <3>1, <3>2 DEF BreakerTypeOK, Fields
  <2>4. ClosedBelowThreshold'
    BY <2>2 DEF ClosedBelowThreshold, Sound
  <2>5. /\ \A d \in Callers : on'[d] = IF d = c THEN b ELSE on[d]
        /\ \A d \in Callers : d # c => caller'[d] = caller[d]
        /\ caller'[c] # "idle"
    BY <1>4, <2>1
  <2>6. HoldsWhileCalling'
    BY <1>3, <2>5, BoundAssumption DEF HoldsWhileCalling
  <2>7. ProbeFlagIsHeld'
    <3> SUFFICES ASSUME NEW x \in Breakers, breaker'[x].probe, ~breaker'[x].threw
                 PROVE  \E d \in Callers : caller'[d] = "probing" /\ on'[d] = x
      BY DEF ProbeFlagIsHeld
    <3>1. CASE x = b /\ f.state = "halfOpen"
      <4>1. caller'[c] = "probing"
        BY <1>4, <2>1, <3>1
      <4> QED
        BY <2>5, <3>1, <4>1
    <3>2. CASE ~(x = b /\ f.state = "halfOpen")
      <4>1. PICK d \in Callers : caller[d] = "probing" /\ on[d] = x
        <5>1. CASE x = b
          <6>1. breaker'[x] = g
            BY <1>4, <2>1, <5>1
          <6>2. f.probe /\ ~f.threw
            BY <1>7, <3>2, <5>1, <6>1
          <6> QED
            BY <1>6, <5>1, <6>2
        <5>2. CASE x # b
          <6>1. breaker'[x] = breaker[x]
            BY <1>4, <2>1, <5>2
          <6> QED
            BY <1>3, <6>1 DEF ProbeFlagIsHeld
        <5> QED
          BY <5>1, <5>2
      <4>2. d # c
        BY <1>2, <4>1
      <4> QED
        BY <2>5, <4>1, <4>2
    <3> QED
      BY <3>1, <3>2
  <2> QED
    BY <1>5, <2>3, <2>4, <2>6, <2>7 DEF IndInv
<1> QED
  BY <1>8, <1>9


(* A call ends and leaves its breaker sound, with a probe flag that is     *)
(* clear, that another probe holds, or that a probe abandoned; the flags   *)
(* of the other breakers keep the calls that hold them.                    *)
LEMMA CompleteStep ==
  ASSUME IndInv, NEW c \in Running, NEW f, Complete(c, f),
         Sound(f),
         f.probe => \/ f.threw
                    \/ \E d \in Callers : d # c /\ caller[d] = "probing" /\ on[d] = on[c]
  PROVE  IndInv'
<1>1. BreakerTypeOK /\ HoldsWhileCalling /\ ProbeFlagIsHeld /\ ClosedBelowThreshold /\ CacheIsBounded
  BY DEF IndInv
<1>2. c \in Callers /\ on[c] # NoBreaker
  BY <1>1 DEF Running, HoldsWhileCalling
<1>3. /\ breaker \in [Breakers -> Fields]
      /\ caller \in [Callers -> {"idle", "running", "probing"}]
      /\ on \in [Callers -> Breakers \cup {NoBreaker}]
      /\ \A x \in Breakers : Sound(breaker[x])
  BY <1>1, BreakersAreSound DEF BreakerTypeOK, Fields
<1>4. on[c] \in Breakers
  BY <1>2, <1>3
<1>5. /\ breaker' = [breaker EXCEPT ![on[c]] = f]
      /\ caller' = [caller EXCEPT ![c] = "idle"]
      /\ on' = [on EXCEPT ![c] = NoBreaker]
      /\ entries' = entries /\ cached' = cached /\ databaseUp' = databaseUp
  BY DEF Complete
<1>6. /\ breaker' \in [Breakers -> Fields]
      /\ \A x \in Breakers : Sound(breaker'[x])
  BY <1>3, <1>4, <1>5 DEF Sound
<1>7. BreakerTypeOK'
  <2>1. caller' \in [Callers -> {"idle", "running", "probing"}]
    BY <1>3, <1>5
  <2>2. on' \in [Callers -> Breakers \cup {NoBreaker}]
    BY <1>3, <1>5
  <2> QED
    BY <1>1, <1>5, <1>6, <2>1, <2>2 DEF BreakerTypeOK, Fields
<1>8. ClosedBelowThreshold'
  BY <1>6 DEF ClosedBelowThreshold, Sound
<1>9. /\ \A d \in Callers : d # c => on'[d] = on[d] /\ caller'[d] = caller[d]
      /\ caller'[c] = "idle" /\ on'[c] = NoBreaker
  BY <1>2, <1>3, <1>5
<1>10. HoldsWhileCalling'
  BY <1>1, <1>9 DEF HoldsWhileCalling
<1>11. ProbeFlagIsHeld'
  <2> SUFFICES ASSUME NEW x \in Breakers, breaker'[x].probe, ~breaker'[x].threw
               PROVE  \E d \in Callers : caller'[d] = "probing" /\ on'[d] = x
    BY DEF ProbeFlagIsHeld
  <2>1. CASE x = on[c]
    <3>1. breaker'[x] = f
      BY <1>3, <1>4, <1>5, <2>1
    <3>2. PICK d \in Callers : d # c /\ caller[d] = "probing" /\ on[d] = on[c]
      BY <3>1
    <3> QED
      BY <1>9, <2>1, <3>2
  <2>2. CASE x # on[c]
    <3>1. breaker'[x] = breaker[x]
      BY <1>3, <1>4, <1>5, <2>2
    <3>2. PICK d \in Callers : caller[d] = "probing" /\ on[d] = x
      BY <1>1, <3>1 DEF ProbeFlagIsHeld
    <3> QED
      BY <1>9, <2>2, <3>2
  <2> QED
    BY <2>1, <2>2
<1>12. CacheIsBounded'
  BY <1>1, <1>5 DEF CacheIsBounded
<1> QED
  BY <1>7, <1>8, <1>10, <1>11, <1>12 DEF IndInv

(* The ways an operation ends.                                             *)
LEMMA OperationStep ==
  ASSUME IndInv, NEW c \in Callers,
         \/ OperationSucceeds(c) \/ OperationLosesConnection(c)
         \/ OperationFailsOtherwise(c) \/ OperationThrows(c)
  PROVE  IndInv'
<1>1. c \in Running
  BY DEF OperationSucceeds, OperationLosesConnection, OperationFailsOtherwise, OperationThrows
<1>2. Sound(breaker[on[c]])
  <2>1. breaker \in [Breakers -> Fields] /\ on \in [Callers -> Breakers \cup {NoBreaker}]
    BY DEF IndInv, BreakerTypeOK, Fields
  <2>2. on[c] \in Breakers
    BY <1>1, <2>1 DEF IndInv, HoldsWhileCalling, Running
  <2> QED
    BY <2>1, <2>2, BreakersAreSound DEF IndInv
<1> DEFINE f == ProbeCleared(breaker[on[c]])
<1>3. Sound(f) /\ ~f.probe
  BY <1>2, ProbeClearedIsSound
<1>4. CASE OperationSucceeds(c)
  BY <1>1, <1>3, <1>4, OnSuccessIsSound, CompleteStep DEF OperationSucceeds
<1>5. CASE OperationLosesConnection(c)
  BY <1>1, <1>3, <1>5, OnFailureIsSound, CompleteStep DEF OperationLosesConnection
<1>6. CASE OperationFailsOtherwise(c)
  BY <1>1, <1>3, <1>6, CompleteStep DEF OperationFailsOtherwise
<1>7. CASE OperationThrows(c)
  <2> DEFINE g == Thrown(breaker[on[c]], caller[c] = "probing")
  <2>1. /\ Sound(g)
        /\ g.probe = breaker[on[c]].probe
        /\ breaker[on[c]].threw => g.threw
        /\ caller[c] = "probing" => g.threw
    <3>1. (caller[c] = "probing") \in BOOLEAN
      OBVIOUS
    <3> QED
      BY <1>2, <3>1, ThrownIsSound
  <2>2. ASSUME g.probe, ~g.threw
        PROVE  \E d \in Callers : d # c /\ caller[d] = "probing" /\ on[d] = on[c]
    <3>1. on[c] \in Breakers
      BY <1>1 DEF IndInv, HoldsWhileCalling, BreakerTypeOK, Running
    <3>2. breaker[on[c]].probe /\ ~breaker[on[c]].threw /\ caller[c] # "probing"
      BY <2>1, <2>2
    <3>3. PICK d \in Callers : caller[d] = "probing" /\ on[d] = on[c]
      BY <3>1, <3>2 DEF IndInv, ProbeFlagIsHeld
    <3> QED
      BY <3>2, <3>3
  <2>3. Complete(c, g)
    BY <1>7 DEF OperationThrows, Thrown
  <2> HIDE DEF g
  <2> QED
    BY <1>1, <2>1, <2>2, <2>3, CompleteStep
<1> QED
  BY <1>4, <1>5, <1>6, <1>7

(* The reset timeout elapses, or the breaker of a key is reset: one        *)
(* breaker gets sound fields and no new probe flag.                        *)
LEMMA BreakerStep ==
  ASSUME IndInv, NEW b \in Breakers, NEW f, Sound(f),
         f.probe => breaker[b].probe /\ f.threw = breaker[b].threw,
         breaker' = [breaker EXCEPT ![b] = f],
         UNCHANGED <<entries, cached, caller, on, databaseUp>>
  PROVE  IndInv'
<1>1. /\ breaker \in [Breakers -> Fields]
      /\ \A x \in Breakers : Sound(breaker[x])
  BY BreakersAreSound DEF IndInv, BreakerTypeOK, Fields
<1>2. /\ breaker' \in [Breakers -> Fields]
      /\ \A x \in Breakers : Sound(breaker'[x])
      /\ \A x \in Breakers :
           breaker'[x].probe => breaker[x].probe /\ breaker'[x].threw = breaker[x].threw
  BY <1>1 DEF Sound
<1>3. BreakerTypeOK'
  BY <1>2 DEF IndInv, BreakerTypeOK, Fields
<1>4. HoldsWhileCalling' /\ CacheIsBounded'
  BY DEF IndInv, HoldsWhileCalling, CacheIsBounded
<1>5. ClosedBelowThreshold'
  BY <1>2 DEF ClosedBelowThreshold, Sound
<1>6. ProbeFlagIsHeld'
  BY <1>2 DEF IndInv, ProbeFlagIsHeld
<1> QED
  BY <1>3, <1>4, <1>5, <1>6 DEF IndInv

(* Every step of the breakers and their callers preserves the invariant.   *)
LEMMA NextStep == IndInv /\ [BreakerNext]_breakerVars => IndInv'
<1> SUFFICES ASSUME IndInv, [BreakerNext]_breakerVars PROVE IndInv'
  OBVIOUS
<1>1. ASSUME NEW c \in Callers, NEW k \in Keys, Execute(c, k) PROVE IndInv'
  BY <1>1, ExecuteStep
<1>2. ASSUME NEW c \in Callers,
             \/ OperationSucceeds(c) \/ OperationLosesConnection(c)
             \/ OperationFailsOtherwise(c) \/ OperationThrows(c)
      PROVE  IndInv'
  BY <1>2, OperationStep
<1>3. ASSUME NEW b \in Breakers, ResetTimeoutElapses(b) PROVE IndInv'
  <2> DEFINE f == [breaker[b] EXCEPT !.cooled = TRUE]
  <2>1. Sound(breaker[b])
    BY BreakersAreSound DEF IndInv, BreakerTypeOK, Fields
  <2>2. Sound(f) /\ f.probe = breaker[b].probe /\ f.threw = breaker[b].threw
    BY <2>1 DEF Sound, Fields
  <2>3. breaker' = [breaker EXCEPT ![b] = f]
    BY <1>3 DEF ResetTimeoutElapses
  <2>4. UNCHANGED <<entries, cached, caller, on, databaseUp>>
    BY <1>3 DEF ResetTimeoutElapses
  <2> QED
    BY <2>2, <2>3, <2>4, BreakerStep
<1>4. ASSUME NEW k \in Keys, Reset(k) PROVE IndInv'
  <2>1. cached[k] \in Breakers
    BY SMT, <1>4 DEF IndInv, BreakerTypeOK, CacheIsBounded, Reset
  <2>2. /\ breaker' = [breaker EXCEPT ![cached[k]] = Fresh]
        /\ UNCHANGED <<entries, cached, caller, on, databaseUp>>
    BY <1>4 DEF Reset
  <2> QED
    BY <2>1, <2>2, FreshIsSound, BreakerStep
<1>5. ASSUME Clear PROVE IndInv'
  <2> USE <1>5 DEF Clear
  <2>1. entries' = << >> /\ Range(entries') = {} /\ Len(entries') = 0
    BY EmptyQueue
  <2>2. CacheIsBounded'
    BY SMT, <2>1, CacheAssumption DEF CacheIsBounded
  <2>3. BreakerTypeOK'
    <3>1. entries' \in Seq(Keys)
      BY SMT, <2>1
    <3> QED
      BY <3>1 DEF IndInv, BreakerTypeOK
  <2> QED
    BY <2>2, <2>3 DEF IndInv, HoldsWhileCalling, ProbeFlagIsHeld, ClosedBelowThreshold
<1>6. ASSUME DatabaseRecovers PROVE IndInv'
  BY SMT, <1>6 DEF DatabaseRecovers, IndInv, BreakerTypeOK, HoldsWhileCalling,
     ProbeFlagIsHeld, ClosedBelowThreshold, CacheIsBounded
<1>7. ASSUME UNCHANGED breakerVars PROVE IndInv'
  BY SMT, <1>7 DEF breakerVars, IndInv, BreakerTypeOK, HoldsWhileCalling,
     ProbeFlagIsHeld, ClosedBelowThreshold, CacheIsBounded
<1> QED
  BY <1>1, <1>2, <1>3, <1>4, <1>5, <1>6, <1>7 DEF BreakerNext

(* The invariant holds in every reachable state.                           *)
THEOREM BreakerInvariance == BreakerSpec => []IndInv
BY InitIndInv, NextStep, PTL DEF BreakerSpec

(* The cache, the breakers and the callers keep their types.               *)
THEOREM BreakerTypeCorrect == BreakerSpec => []BreakerTypeOK
<1>1. IndInv => BreakerTypeOK
  BY DEF IndInv
<1> QED
  BY <1>1, BreakerInvariance, PTL

(* Only an operation that throws leaves _halfOpenProbeInProgress behind:   *)
(* no interleaving of the calls that return does.                          *)
THEOREM ProbeFlagIsNeverStuck == BreakerSpec => []ProbeFlagIsHeld
<1>1. IndInv => ProbeFlagIsHeld
  BY DEF IndInv
<1> QED
  BY <1>1, BreakerInvariance, PTL

(* A closed breaker has counted fewer failures than the threshold.         *)
THEOREM ThresholdOpensTheCircuit == BreakerSpec => []ClosedBelowThreshold
<1>1. IndInv => ClosedBelowThreshold
  BY DEF IndInv
<1> QED
  BY <1>1, BreakerInvariance, PTL

(* The LRU cache never exceeds its size nor shares a breaker.              *)
THEOREM CacheNeverOverflows == BreakerSpec => []CacheIsBounded
<1>1. IndInv => CacheIsBounded
  BY DEF IndInv
<1> QED
  BY <1>1, BreakerInvariance, PTL

-----------------------------------------------------------------------------
(* The limiter of direct connections.                                      *)

\* The permits out are those of the owners; none of them waits as well, and
\* nobody is in the line twice.
Booked(s, owners) ==
  /\ IsFiniteSet(owners)
  /\ s.active = Cardinality(owners)
  /\ Injective(s.waiters)
  /\ Range(s.waiters) \cap owners = {}

\* A semaphore whose permits and line change, or its line only; and its fields.
Edited(s, a, q) == [s EXCEPT !.active = a, !.waiters = q]
Requeued(s, q) == [s EXCEPT !.waiters = q]
SemaphoreOf(max, a, q) == [max |-> max, active |-> a, waiters |-> q]

(* A semaphore with its permits and its line replaced.                     *)
LEMMA SemaphoreUpdate ==
  ASSUME NEW S, NEW s \in Semaphores(S), NEW a \in Nat, NEW q \in Seq(S)
  PROVE  /\ Edited(s, a, q) = SemaphoreOf(s.max, a, q)
         /\ Requeued(s, q) = SemaphoreOf(s.max, s.active, q)
<1>1. Edited(s, a, q) = SemaphoreOf(s.max, a, q)
  <2> DEFINE l == [s EXCEPT !.active = a, !.waiters = q]
             r == [max |-> s.max, active |-> a, waiters |-> q]
  <2>1. s = [x \in {"max", "active", "waiters"} |-> s[x]]
    BY DEF Semaphores
  <2>2. l = [x \in {"max", "active", "waiters"} |->
                IF x = "waiters" THEN q ELSE IF x = "active" THEN a ELSE s[x]]
    BY <2>1
  <2>3. r = [x \in {"max", "active", "waiters"} |->
                IF x = "waiters" THEN q ELSE IF x = "active" THEN a ELSE s[x]]
    BY SMT
  <2>4. l = Edited(s, a, q) /\ r = SemaphoreOf(s.max, a, q)
    BY DEF Edited, SemaphoreOf
  <2> QED
    BY <2>2, <2>3, <2>4
<1>2. Requeued(s, q) = SemaphoreOf(s.max, s.active, q)
  BY SMT DEF Semaphores, Requeued, SemaphoreOf
<1> QED
  BY <1>1, <1>2

(* Min and Max of two numbers.                                             *)
LEMMA MinMax ==
  ASSUME NEW a \in Int, NEW b \in Int
  PROVE  /\ Min({a, b}) = IF a <= b THEN a ELSE b
         /\ Max({a, b}) = IF a >= b THEN a ELSE b
<1>1. ASSUME NEW x \in {a, b}, \A y \in {a, b} : x <= y
      PROVE  x = IF a <= b THEN a ELSE b
  BY SMT, <1>1
<1>2. ASSUME NEW x \in {a, b}, \A y \in {a, b} : x >= y
      PROVE  x = IF a >= b THEN a ELSE b
  BY SMT, <1>2
<1>3. \E x \in {a, b} : \A y \in {a, b} : x <= y
  BY SMT
<1>4. \E x \in {a, b} : \A y \in {a, b} : x >= y
  BY SMT
<1>5. Min({a, b}) \in {a, b} /\ \A y \in {a, b} : Min({a, b}) <= y
  BY <1>3 DEF Min
<1>6. Max({a, b}) \in {a, b} /\ \A y \in {a, b} : Max({a, b}) >= y
  BY <1>4 DEF Max
<1> QED
  BY <1>1, <1>2, <1>5, <1>6

\* How many waiters _drainWaiters serves.
Count(s) == Min({Len(s.waiters), Max({0, s.max - s.active})})

(* The lesser of the waiters and of the free permits.                      *)
LEMMA LesserCount ==
  ASSUME NEW l \in Nat, NEW max \in Nat, NEW active \in Nat, NEW m, NEW c,
         m = IF 0 >= max - active THEN 0 ELSE max - active,
         c = IF l <= m THEN l ELSE m
  PROVE  /\ c \in 0 .. l
         /\ c > 0 => active + c <= max
         /\ c < l => active + c >= max
BY SMT

(* _drainWaiters serves as many as there are permits and waiters.          *)
LEMMA ServedCount ==
  ASSUME NEW S, NEW s \in Semaphores(S)
  PROVE  /\ Count(s) \in 0 .. Len(s.waiters)
         /\ Count(s) > 0 => s.active + Count(s) <= s.max
         /\ Count(s) < Len(s.waiters) => s.active + Count(s) >= s.max
<1> DEFINE l == Len(s.waiters)
           r == s.max - s.active
           m == Max({0, r})
<1>1. l \in Nat /\ s.max \in Nat /\ s.active \in Nat
  BY SMT DEF Semaphores
<1>2. r \in Int /\ 0 \in Int
  BY SMT, <1>1
<1> HIDE DEF r
<1>3. m = IF 0 >= r THEN 0 ELSE r
  BY <1>2, MinMax
<1>4. m \in Nat /\ m \in Int /\ l \in Int
  BY SMT, <1>1, <1>2, <1>3
<1> HIDE DEF l, m
<1>5. Min({l, m}) = IF l <= m THEN l ELSE m
  BY <1>4, MinMax
<1>6. Count(s) = Min({l, m})
  BY DEF Count, l, m, r
<1>7. Count(s) = IF l <= m THEN l ELSE m
  BY <1>5, <1>6
<1> QED
  BY <1>1, <1>3, <1>7, LesserCount DEF l, r

\* What holds of a semaphore s that became t by serving the waiters W.
ServedFrom(S, s, t, W) ==
  /\ t \in Semaphores(S)
  /\ W \subseteq Range(s.waiters)
  /\ Range(t.waiters) = Range(s.waiters) \ W
  /\ NobodyStranded(t)

(* _drainWaiters hands each waiter it wakes a permit, leaves no waiter over   *)
(* a free permit, and gives out none over the limit.                       *)
LEMMA DrainBooked ==
  ASSUME NEW S, NEW s \in Semaphores(S), NEW owners, Booked(s, owners)
  PROVE  LET t == DrainWaiters(s)
             W == Woken(s, t)
         IN  /\ ServedFrom(S, s, t, W)
             /\ Booked(t, owners \cup W)
             /\ W = {} \/ t.active <= t.max
<1> DEFINE q == s.waiters
           n == Count(s)
           b == SubSeq(q, n + 1, Len(q))
           t == DrainWaiters(s)
           W == Range(q) \ Range(b)
<1>1. q \in Seq(S) /\ Injective(q) /\ s.max \in Nat \ {0} /\ s.active \in Nat
  BY DEF Semaphores, Booked
<1>2. /\ n \in 0 .. Len(q)
      /\ n > 0 => s.active + n <= s.max
      /\ n < Len(q) => s.active + n >= s.max
  BY ServedCount
<1>3. Len(q) \in Nat /\ n \in Nat
  BY SMT, <1>1, <1>2
<1>4. Len(Served(s)) = n
  <2>1. Served(s) = SubSeq(q, 1, n)
    BY DEF Served, Count
  <2> HIDE DEF q, n
  <2> QED
    BY SMT, <1>1, <1>2, <2>1
<1> HIDE DEF n
<1>5. /\ b \in Seq(S) /\ Len(b) = Len(q) - n /\ Injective(b)
      /\ Range(b) \subseteq Range(q)
      /\ IsFiniteSet(W) /\ Cardinality(W) = n
  <2> HIDE DEF q
  <2>a. q \in Seq(S)
    BY <1>1
  <2>b. Injective(q)
    BY <1>1
  <2>c. n \in 0 .. Len(q)
    BY <1>2
  <2>1. Split(S, q, n, {q[i] : i \in 1 .. n}, b)
    BY <2>a, <2>b, <2>c, SplitQueue DEF b
  <2> HIDE DEF b
  <2>2. W = {q[i] : i \in 1 .. n}
    BY <2>1 DEF Split
  <2> HIDE DEF W
  <2> QED
    BY <2>1, <2>2 DEF Split
<1>6. t = [max |-> s.max, active |-> s.active + n, waiters |-> b]
  <2>1. t = Edited(s, s.active + n, b)
    BY <1>4 DEF DrainWaiters, Edited
  <2>2. s.active + n \in Nat
    BY SMT, <1>1, <1>3
  <2> HIDE DEF b, t
  <2> QED
    <3>1. b \in Seq(S)
      BY <1>5
    <3>2. Edited(s, s.active + n, b) = SemaphoreOf(s.max, s.active + n, b)
      BY <2>2, <3>1, SemaphoreUpdate
    <3> QED
      BY <2>1, <3>2 DEF SemaphoreOf
<1> HIDE DEF t
<1> HIDE DEF b
<1>7. Woken(s, t) = W
  BY <1>6 DEF Woken
<1>8. t \in Semaphores(S)
  BY SMTT(20), <1>1, <1>3, <1>6, <1>5 DEF Semaphores
<1>9. W \subseteq Range(q) /\ Range(t.waiters) = Range(q) \ W
  BY <1>6, <1>5
<1>10. NobodyStranded(t)
  <2>1. b # << >> => n < Len(q)
    BY SMT, <1>3, <1>5
  <2> QED
    BY <1>2, <1>6, <2>1 DEF NobodyStranded
<1>11. Booked(t, owners \cup W)
  <2>1. /\ IsFiniteSet(owners) /\ s.active = Cardinality(owners)
        /\ Range(q) \cap owners = {}
    BY DEF Booked
  <2>2. owners \cap W = {}
    BY <2>1
  <2>3. IsFiniteSet(owners \cup W)
    BY <1>5, <2>1, FS_Union
  <2>4. Cardinality(owners \cup W) = s.active + n
    BY <1>5, <2>1, <2>2, DisjointUnion
  <2>5. Range(b) \cap (owners \cup W) = {}
    BY <1>5, <2>1
  <2> QED
    BY <1>6, <1>5, <2>3, <2>4, <2>5 DEF Booked
<1>12. W = {} \/ t.active <= t.max
  <2>1. CASE n = 0
    BY <1>5, <2>1, FS_EmptySet
  <2>2. CASE n # 0
    <3>1. n > 0
      BY SMT, <1>3, <2>2
    <3> QED
      BY <1>2, <1>6, <3>1
  <2> QED
    BY <2>1, <2>2
<1> QED
  BY <1>7, <1>8, <1>9, <1>10, <1>11, <1>12 DEF ServedFrom, t

(* release takes the permit of its caller out of the books and serves the  *)
(* line.                                                                   *)
LEMMA ReleaseBooked ==
  ASSUME NEW S, NEW s \in Semaphores(S), NEW owners, Booked(s, owners), NEW o \in owners
  PROVE  LET t == Release(s)
             W == Woken(s, t)
         IN  /\ ServedFrom(S, s, t, W)
             /\ Booked(t, (owners \ {o}) \cup W)
             /\ W = {} \/ t.active <= t.max
<1> DEFINE g == GiveBack(s)
<1>1. /\ s.max \in Nat \ {0} /\ s.active \in Nat /\ s.waiters \in Seq(S)
      /\ IsFiniteSet(owners) /\ s.active = Cardinality(owners)
      /\ Injective(s.waiters) /\ Range(s.waiters) \cap owners = {}
  BY DEF Semaphores, Booked
<1>2. /\ IsFiniteSet(owners \ {o})
      /\ Cardinality(owners \ {o}) = Cardinality(owners) - 1
  BY <1>1, FS_RemoveElement
<1>3. Cardinality(owners \ {o}) \in Nat
  BY <1>2, FS_CardinalityType
<1>4. s.active > 0
  BY SMTT(20), <1>1, <1>2, <1>3
<1>5. g = [max |-> s.max, active |-> s.active - 1, waiters |-> s.waiters]
  BY SMTT(20), <1>1, <1>4 DEF GiveBack, Semaphores
<1>6. g \in Semaphores(S)
  BY SMTT(20), <1>1, <1>4, <1>5 DEF Semaphores
<1>7. Booked(g, owners \ {o})
  BY SMT, <1>1, <1>2, <1>5 DEF Booked
<1> HIDE DEF g
<1>8. /\ ServedFrom(S, g, DrainWaiters(g), Woken(g, DrainWaiters(g)))
      /\ Booked(DrainWaiters(g), (owners \ {o}) \cup Woken(g, DrainWaiters(g)))
      /\ Woken(g, DrainWaiters(g)) = {} \/ DrainWaiters(g).active <= DrainWaiters(g).max
  BY <1>6, <1>7, DrainBooked
<1>9. Release(s) = DrainWaiters(g)
  BY DEF Release, g
<1>10. Woken(g, DrainWaiters(g)) = Woken(s, DrainWaiters(g))
  BY <1>5 DEF Woken
<1> DEFINE t == DrainWaiters(g)
<1> HIDE DEF t
<1>11. g.waiters = s.waiters
  BY <1>5
<1>12. Woken(s, t) = {} \/ t.active <= t.max
  BY <1>8, <1>10 DEF t
<1>13. ServedFrom(S, s, t, Woken(s, t))
  BY <1>8, <1>10, <1>11 DEF ServedFrom, t
<1>14. Booked(t, (owners \ {o}) \cup Woken(s, t))
  BY <1>8, <1>10 DEF t
<1>15. Release(s) = t
  BY <1>9 DEF t
<1> QED
  BY <1>12, <1>13, <1>14, <1>15

(* resize keeps the owners and serves the line.                            *)
LEMMA ResizeBooked ==
  ASSUME NEW S, NEW s \in Semaphores(S), NEW owners, Booked(s, owners),
         NEW max \in Nat \ {0}
  PROVE  LET t == Resize(s, max)
             W == Woken(s, t)
         IN  /\ ServedFrom(S, s, t, W)
             /\ Booked(t, owners \cup W)
             /\ W = {} \/ t.active <= t.max
<1> DEFINE g == Resized(s, max)
<1>1. g = [max |-> max, active |-> s.active, waiters |-> s.waiters]
  BY SMT DEF Resized, Semaphores
<1>2. g \in Semaphores(S) /\ Booked(g, owners)
  BY SMT, <1>1 DEF Semaphores, Booked
<1>3. Resize(s, max) = DrainWaiters(g)
  BY DEF Resize
<1> HIDE DEF g
<1>4. /\ ServedFrom(S, g, DrainWaiters(g), Woken(g, DrainWaiters(g)))
      /\ Booked(DrainWaiters(g), owners \cup Woken(g, DrainWaiters(g)))
      /\ Woken(g, DrainWaiters(g)) = {} \/ DrainWaiters(g).active <= DrainWaiters(g).max
  BY <1>2, DrainBooked
<1>5. Woken(g, DrainWaiters(g)) = Woken(s, DrainWaiters(g))
  BY <1>1 DEF Woken
<1> QED
  BY <1>1, <1>3, <1>4, <1>5 DEF ServedFrom

(* A free permit is taken by somebody who neither owns one nor waits.      *)
LEMMA TakeBooked ==
  ASSUME NEW S, NEW s \in Semaphores(S), NEW owners, Booked(s, owners),
         NobodyStranded(s), HasPermit(s), NEW w, w \notin owners
  PROVE  LET t == TakePermit(s)
         IN  /\ t \in Semaphores(S)
             /\ t.waiters = s.waiters
             /\ Range(t.waiters) = {}
             /\ Booked(t, owners \cup {w})
             /\ NobodyStranded(t)
             /\ t.active <= t.max
<1> DEFINE t == TakePermit(s)
<1>1. /\ s.max \in Nat \ {0} /\ s.active \in Nat /\ s.waiters \in Seq(S)
      /\ IsFiniteSet(owners) /\ s.active = Cardinality(owners)
      /\ Injective(s.waiters)
  BY DEF Semaphores, Booked
<1>2. t = [max |-> s.max, active |-> s.active + 1, waiters |-> s.waiters]
  BY SMT DEF TakePermit, Semaphores
<1>3. s.active < s.max
  BY DEF HasPermit
<1>4. s.waiters = << >>
  BY SMT, <1>1, <1>3 DEF NobodyStranded
<1>5. Range(s.waiters) = {}
  BY <1>4, EmptyQueue
<1>6. IsFiniteSet(owners \cup {w}) /\ Cardinality(owners \cup {w}) = s.active + 1
  BY <1>1, FS_AddElement
<1>7. Booked(t, owners \cup {w})
  BY SMTT(20), <1>1, <1>2, <1>5, <1>6 DEF Booked
<1>8. t \in Semaphores(S)
  BY SMTT(20), <1>1, <1>2 DEF Semaphores
<1> QED
  BY SMTT(20), <1>1, <1>2, <1>3, <1>4, <1>5, <1>7, <1>8 DEF NobodyStranded

(* Who finds no permit stands at the end of the line.                      *)
LEMMA WaitBooked ==
  ASSUME NEW S, NEW s \in Semaphores(S), NEW owners, Booked(s, owners),
         ~HasPermit(s), NEW w \in S, w \notin owners, w \notin Range(s.waiters)
  PROVE  LET t == Wait(s, w)
         IN  /\ t \in Semaphores(S)
             /\ Range(t.waiters) = Range(s.waiters) \cup {w}
             /\ Booked(t, owners)
             /\ NobodyStranded(t)
             /\ t.active = s.active
<1> DEFINE t == Wait(s, w)
<1>1. /\ s.max \in Nat \ {0} /\ s.active \in Nat /\ s.waiters \in Seq(S)
      /\ IsFiniteSet(owners) /\ s.active = Cardinality(owners)
      /\ Injective(s.waiters) /\ Range(s.waiters) \cap owners = {}
  BY DEF Semaphores, Booked
<1>2. t = [max |-> s.max, active |-> s.active, waiters |-> Append(s.waiters, w)]
  <2> DEFINE q == Append(s.waiters, w)
  <2>1. t = Requeued(s, q) /\ q \in Seq(S)
    BY SMT, <1>1 DEF Wait, Requeued
  <2> HIDE DEF t, q
  <2>2. Requeued(s, q) = SemaphoreOf(s.max, s.active, q)
    BY <2>1, SemaphoreUpdate
  <2> QED
    BY <2>1, <2>2 DEF q, SemaphoreOf
<1>3. /\ Append(s.waiters, w) \in Seq(S)
      /\ Injective(Append(s.waiters, w))
      /\ Range(Append(s.waiters, w)) = Range(s.waiters) \cup {w}
  BY SMTT(20), <1>1, AppendToQueue
<1>4. s.active >= s.max
  BY SMTT(20), <1>1 DEF HasPermit
<1>5. Booked(t, owners)
  BY SMTT(20), <1>1, <1>2, <1>3 DEF Booked
<1>6. t \in Semaphores(S)
  BY SMTT(20), <1>1, <1>2, <1>3 DEF Semaphores
<1> QED
  BY SMTT(20), <1>2, <1>3, <1>4, <1>5, <1>6 DEF NobodyStranded

(* Who times out leaves the line.                                          *)
LEMMA LeaveBooked ==
  ASSUME NEW S, NEW s \in Semaphores(S), NEW owners, Booked(s, owners),
         NobodyStranded(s), NEW w, IsWaiting(s, w)
  PROVE  LET t == Leave(s, w)
         IN  /\ t \in Semaphores(S)
             /\ Range(t.waiters) = Range(s.waiters) \ {w}
             /\ Booked(t, owners)
             /\ NobodyStranded(t)
             /\ t.active = s.active
<1> DEFINE t == Leave(s, w)
<1>1. /\ s.max \in Nat \ {0} /\ s.active \in Nat /\ s.waiters \in Seq(S)
      /\ IsFiniteSet(owners) /\ s.active = Cardinality(owners)
      /\ Injective(s.waiters) /\ Range(s.waiters) \cap owners = {}
      /\ w \in Range(s.waiters)
  BY DEF Semaphores, Booked, IsWaiting
<1>2. /\ Remove(s.waiters, w) \in Seq(S)
      /\ Injective(Remove(s.waiters, w))
      /\ Range(Remove(s.waiters, w)) = Range(s.waiters) \ {w}
  BY SMT, <1>1, RemoveFromQueue
<1>3. t = [max |-> s.max, active |-> s.active, waiters |-> Remove(s.waiters, w)]
  <2> DEFINE q == Remove(s.waiters, w)
  <2>1. t = Requeued(s, q) /\ q \in Seq(S)
    BY <1>2 DEF Leave, Requeued
  <2> HIDE DEF t, q
  <2>2. Requeued(s, q) = SemaphoreOf(s.max, s.active, q)
    BY <2>1, SemaphoreUpdate
  <2> QED
    BY <2>1, <2>2 DEF q, SemaphoreOf
<1>4. s.waiters # << >>
  BY <1>1, EmptyQueue
<1>5. s.active >= s.max
  BY <1>4 DEF NobodyStranded
<1>6. Booked(t, owners)
  BY SMTT(20), <1>1, <1>2, <1>3 DEF Booked
<1>7. t \in Semaphores(S)
  BY SMTT(20), <1>1, <1>2, <1>3 DEF Semaphores
<1> QED
  BY SMTT(20), <1>2, <1>3, <1>5, <1>6, <1>7 DEF NobodyStranded

-----------------------------------------------------------------------------

GlobalStage ==
  [of |-> Operations, wait |-> "globalWait", expired |-> "globalExpired",
   own |-> {"globalGranted", "leased"}]

ClassStage(k) ==
  [of |-> {o \in Operations : ClassOf[o] = k},
   wait |-> "classWait", expired |-> "classExpired",
   own |-> {"classGranted", "globalWait", "globalExpired", "globalGranted", "leased"}]

IsStage(st) ==
  /\ st.of \subseteq Operations
  /\ st.wait # st.expired
  /\ st.wait \notin st.own
  /\ st.expired \notin st.own

\* Before the stage, or after it.
Elsewhere(st, l) == l \notin st.own /\ l # st.wait /\ l # st.expired

\* A move that this stage does not notice.
Alike(st, l, m) ==
  \/ l = m
  \/ l \in st.own /\ m \in st.own
  \/ Elsewhere(st, l) /\ Elsewhere(st, m)

Owners(st, p, s) ==
  {o \in st.of : p[o] \in st.own \/ (p[o] = st.expired /\ ~IsWaiting(s, o))}

\* The line holds operations that wait, expired or not, and all who have
\* not expired.
InLine(st, p, s) ==
  /\ \A o \in Range(s.waiters) : o \in st.of /\ p[o] \in {st.wait, st.expired}
  /\ \A o \in st.of : p[o] = st.wait => IsWaiting(s, o)

Books(st, p, s) ==
  /\ s \in Semaphores(Operations)
  /\ Booked(s, Owners(st, p, s))
  /\ NobodyStranded(s)
  /\ InLine(st, p, s)

\* Nobody becomes an owner over the limit in force.
Within(st, p, s, q, t) ==
  Owners(st, q, t) \subseteq Owners(st, p, s) \/ t.active <= t.max

(* A move within the stage: a timer fires, or a continuation finds that it *)
(* was handed the permit.                                                  *)
LEMMA MoveKeepsBooks ==
  ASSUME NEW st, IsStage(st), NEW p, NEW q, NEW s, Books(st, p, s),
         \A o \in st.of : \/ Alike(st, p[o], q[o])
                          \/ p[o] = st.wait /\ q[o] = st.expired
                          \/ p[o] = st.expired /\ ~IsWaiting(s, o) /\ q[o] \in st.own
  PROVE  Books(st, q, s) /\ Within(st, p, s, q, s)
<1>1. InLine(st, q, s)
  BY DEF Books, InLine, IsStage, Alike, Elsewhere, IsWaiting
<1>2. Owners(st, q, s) = Owners(st, p, s)
  BY DEF Books, InLine, Owners, IsStage, Alike, Elsewhere
<1> QED
  BY <1>1, <1>2 DEF Books, Within

(* acquire with a free permit.                                             *)
LEMMA TakeKeepsBooks ==
  ASSUME NEW st, IsStage(st), NEW p, NEW q, NEW s, Books(st, p, s), HasPermit(s),
         NEW o \in st.of, Elsewhere(st, p[o]), q[o] \in st.own,
         \A x \in st.of \ {o} : Alike(st, p[x], q[x])
  PROVE  Books(st, q, TakePermit(s)) /\ Within(st, p, s, q, TakePermit(s))
<1> DEFINE t == TakePermit(s)
           W == Owners(st, p, s)
<1>1. o \notin W
  BY DEF Owners, Elsewhere
<1>2. s \in Semaphores(Operations) /\ Booked(s, W) /\ NobodyStranded(s) /\ InLine(st, p, s)
  BY DEF Books
<1> HIDE DEF W
<1>3. /\ t \in Semaphores(Operations) /\ t.waiters = s.waiters /\ Range(t.waiters) = {}
      /\ Booked(t, W \cup {o}) /\ NobodyStranded(t) /\ t.active <= t.max
  BY <1>1, <1>2, TakeBooked
<1> HIDE DEF t
<1>4. \A x : ~IsWaiting(s, x) /\ ~IsWaiting(t, x)
  BY <1>3 DEF IsWaiting
<1>5. \A x \in st.of : p[x] # st.wait
  BY <1>2, <1>4 DEF InLine
<1>6. Owners(st, q, t) = W \cup {o}
  BY <1>4, <1>5 DEF Owners, W, Alike, Elsewhere, IsStage
<1>7. InLine(st, q, t)
  BY <1>3, <1>5 DEF InLine, Alike, Elsewhere, IsStage
<1> QED
  BY <1>3, <1>6, <1>7 DEF Books, Within, t

(* acquire without one.                                                    *)
LEMMA WaitKeepsBooks ==
  ASSUME NEW st, IsStage(st), NEW p, NEW q, NEW s, Books(st, p, s), ~HasPermit(s),
         NEW o \in st.of, Elsewhere(st, p[o]), q[o] = st.wait,
         \A x \in st.of \ {o} : Alike(st, p[x], q[x])
  PROVE  Books(st, q, Wait(s, o)) /\ Within(st, p, s, q, Wait(s, o))
<1> DEFINE t == Wait(s, o)
           W == Owners(st, p, s)
<1>1. o \notin W /\ o \in Operations
  BY DEF Owners, Elsewhere, IsStage
<1>2. s \in Semaphores(Operations) /\ Booked(s, W) /\ NobodyStranded(s) /\ InLine(st, p, s)
  BY DEF Books
<1>3. o \notin Range(s.waiters)
  BY <1>2 DEF InLine, Elsewhere
<1> HIDE DEF W
<1>4. /\ t \in Semaphores(Operations) /\ Range(t.waiters) = Range(s.waiters) \cup {o}
      /\ Booked(t, W) /\ NobodyStranded(t) /\ t.active = s.active
  BY SMTT(20), <1>1, <1>2, <1>3, WaitBooked
<1> HIDE DEF t
<1>5. \A x : IsWaiting(t, x) <=> IsWaiting(s, x) \/ x = o
  BY <1>4 DEF IsWaiting
<1>6. Owners(st, q, t) = W
  BY SMT, <1>5 DEF Owners, W, Alike, Elsewhere, IsStage
<1>7. InLine(st, q, t)
  BY <1>2, <1>4, <1>5 DEF InLine, Alike, Elsewhere, IsStage
<1> QED
  BY <1>4, <1>6, <1>7 DEF Books, Within, W, t

(* The continuation of an expired wait that is still in the line.          *)
LEMMA LeaveKeepsBooks ==
  ASSUME NEW st, IsStage(st), NEW p, NEW q, NEW s, Books(st, p, s),
         NEW o \in st.of, p[o] = st.expired, IsWaiting(s, o), Elsewhere(st, q[o]),
         \A x \in st.of \ {o} : Alike(st, p[x], q[x])
  PROVE  Books(st, q, Leave(s, o)) /\ Within(st, p, s, q, Leave(s, o))
<1> DEFINE t == Leave(s, o)
           W == Owners(st, p, s)
<1>1. s \in Semaphores(Operations) /\ Booked(s, W) /\ NobodyStranded(s) /\ InLine(st, p, s)
  BY DEF Books
<1>2. o \notin W
  BY DEF Owners, IsStage
<1> HIDE DEF W
<1>3. /\ t \in Semaphores(Operations) /\ Range(t.waiters) = Range(s.waiters) \ {o}
      /\ Booked(t, W) /\ NobodyStranded(t) /\ t.active = s.active
  BY SMTT(20), <1>1, LeaveBooked
<1> HIDE DEF t
<1>4. \A x : IsWaiting(t, x) <=> IsWaiting(s, x) /\ x # o
  BY <1>3 DEF IsWaiting
<1>5. Owners(st, q, t) = W
  BY <1>2, <1>4 DEF Owners, W, Alike, Elsewhere, IsStage
<1>6. InLine(st, q, t)
  BY <1>1, <1>3, <1>4 DEF InLine, Alike, Elsewhere, IsStage
<1> QED
  BY <1>3, <1>5, <1>6 DEF Books, Within, W, t

\* Those in W, whom the semaphore wakes, own its permit if they still wait.
Handed(st, p, q, W, x) ==
  IF x \in W
    THEN IF p[x] = st.wait THEN q[x] \in st.own ELSE q[x] = p[x]
    ELSE Alike(st, p[x], q[x])

(* release, by an owner that leaves the stage.                             *)
LEMMA ReleaseKeepsBooks ==
  ASSUME NEW st, IsStage(st), NEW p, NEW q, NEW s, Books(st, p, s),
         NEW o \in st.of, p[o] \in st.own, Elsewhere(st, q[o]),
         \A x \in st.of \ {o} : Handed(st, p, q, Woken(s, Release(s)), x)
  PROVE  Books(st, q, Release(s)) /\ Within(st, p, s, q, Release(s))
<1> DEFINE t == Release(s)
           O == Owners(st, p, s)
           W == Woken(s, t)
<1>1. s \in Semaphores(Operations) /\ Booked(s, O) /\ InLine(st, p, s)
  BY DEF Books
<1>2. o \in O
  BY DEF Owners
<1> HIDE DEF O
<1>3. /\ ServedFrom(Operations, s, t, W)
      /\ Booked(t, (O \ {o}) \cup W)
      /\ W = {} \/ t.active <= t.max
  BY <1>1, <1>2, ReleaseBooked
<1>4. \A x \in st.of \ {o} : Handed(st, p, q, W, x)
  OBVIOUS
<1> HIDE DEF t, W
<1>5. \A x : IsWaiting(t, x) <=> IsWaiting(s, x) /\ x \notin W
  BY <1>3 DEF IsWaiting, ServedFrom
<1>6. \A x \in W : x \in st.of /\ p[x] \in {st.wait, st.expired} /\ IsWaiting(s, x)
  BY <1>1, <1>3 DEF InLine, ServedFrom, IsWaiting
<1>7. o \notin W
  BY <1>6 DEF IsStage
<1>8. Owners(st, q, t) = (O \ {o}) \cup W
  BY <1>4, <1>5, <1>6, <1>7 DEF Owners, O, Handed, Alike, Elsewhere, IsStage
<1>9. InLine(st, q, t)
  BY <1>1, <1>3, <1>4, <1>5, <1>6 DEF InLine, Handed, Alike, Elsewhere, IsStage, ServedFrom, IsWaiting
<1>10. Within(st, p, s, q, t)
  BY <1>3, <1>8 DEF Within, O
<1> QED
  BY <1>3, <1>8, <1>9, <1>10 DEF Books, ServedFrom, t

(* resize.                                                                 *)
LEMMA ResizeKeepsBooks ==
  ASSUME NEW st, IsStage(st), NEW p, NEW q, NEW s, Books(st, p, s), NEW max \in Nat \ {0},
         \A x \in st.of : Handed(st, p, q, Woken(s, Resize(s, max)), x)
  PROVE  Books(st, q, Resize(s, max)) /\ Within(st, p, s, q, Resize(s, max))
<1> DEFINE t == Resize(s, max)
           O == Owners(st, p, s)
           W == Woken(s, t)
<1>1. s \in Semaphores(Operations) /\ Booked(s, O) /\ InLine(st, p, s)
  BY DEF Books
<1> HIDE DEF O
<1>2. /\ ServedFrom(Operations, s, t, W)
      /\ Booked(t, O \cup W)
      /\ W = {} \/ t.active <= t.max
  BY <1>1, ResizeBooked
<1>3. \A x \in st.of : Handed(st, p, q, W, x)
  OBVIOUS
<1> HIDE DEF t, W
<1>4. \A x : IsWaiting(t, x) <=> IsWaiting(s, x) /\ x \notin W
  BY <1>2 DEF IsWaiting, ServedFrom
<1>5. \A x \in W : x \in st.of /\ p[x] \in {st.wait, st.expired} /\ IsWaiting(s, x)
  BY <1>1, <1>2 DEF InLine, ServedFrom, IsWaiting
<1>6. Owners(st, q, t) = O \cup W
  BY <1>3, <1>4, <1>5 DEF Owners, O, Handed, Alike, Elsewhere, IsStage
<1>7. InLine(st, q, t)
  BY <1>1, <1>2, <1>3, <1>4, <1>5 DEF InLine, Handed, Alike, Elsewhere, IsStage, ServedFrom, IsWaiting
<1>8. Within(st, p, s, q, t)
  BY <1>2, <1>6 DEF Within, O
<1> QED
  BY <1>2, <1>6, <1>7, <1>8 DEF Books, ServedFrom, t

-----------------------------------------------------------------------------
Leased(p) == {o \in Operations : p[o] = "leased"}
LeasedOf(p, k) == {o \in Operations : ClassOf[o] = k /\ p[o] = "leased"}

Counted(p, n, c) ==
  /\ n = Cardinality(Leased(p))
  /\ c \in [Classes -> Nat]
  /\ \A k \in Classes : c[k] = Cardinality(LeasedOf(p, k))

(* The inductive invariant: the books of every stage, and the counts of    *)
(* leases.                                                                 *)
IInv ==
  /\ pc \in [Operations -> PCs]
  /\ class \in [Classes -> Semaphores(Operations)]
  /\ Books(GlobalStage, pc, global)
  /\ \A k \in Classes : Books(ClassStage(k), pc, class[k])
  /\ Counted(pc, activeCount, classActive)

\* What a step does to the semaphores.
GlobalStep ==
  /\ Books(GlobalStage, pc', global')
  /\ Within(GlobalStage, pc, global, pc', global')
ClassSteps ==
  /\ class' \in [Classes -> Semaphores(Operations)]
  /\ \A k \in Classes : /\ Books(ClassStage(k), pc', class'[k])
                        /\ Within(ClassStage(k), pc, class[k], pc', class'[k])

\* What a step does to the books, for the invariant and the limits.
GoodStep ==
  /\ pc' \in [Operations -> PCs]
  /\ GlobalStep
  /\ ClassSteps
  /\ Counted(pc', activeCount', classActive')

(* Both kinds of stage are stages.                                         *)
LEMMA Stages ==
  /\ IsStage(GlobalStage)
  /\ \A k \in Classes : IsStage(ClassStage(k))
BY DEF IsStage, GlobalStage, ClassStage

(* Every cap is at least one.                                              *)
LEMMA CapIsPositive ==
  ASSUME NEW k \in Classes, NEW max \in Nat \ {0}
  PROVE  ClassCap(k, max) \in Nat \ {0}
<1>1. (max + 1) \div 2 \in Int /\ max \div 2 \in Int
  BY SMT
<1>2. \A n \in Int : Max({1, n}) \in Nat \ {0}
  <2> TAKE n \in Int
  <2>1. Max({1, n}) = IF 1 >= n THEN 1 ELSE n
    BY SMT, MinMax
  <2> QED
    BY SMT, <2>1
<1> QED
  BY <1>1, <1>2 DEF ClassCap, Classes

(* Whoever is woken was in the line of that semaphore.                     *)
LEMMA WokenWaited ==
  ASSUME NEW st, NEW p, NEW s, NEW t, Books(st, p, s), NEW x \in Woken(s, t)
  PROVE  x \in st.of /\ p[x] \in {st.wait, st.expired}
BY DEF Books, InLine, Woken

(* What Granted does to one operation.                                     *)
LEMMA GrantedTo ==
  ASSUME NEW p \in [Operations -> PCs], NEW W
  PROVE  /\ Granted(p, W) \in [Operations -> PCs]
         /\ \A x \in Operations :
              Granted(p, W)[x] = IF x \notin W THEN p[x]
                                 ELSE IF p[x] = "classWait" THEN "classGranted"
                                 ELSE IF p[x] = "globalWait" THEN "globalGranted" ELSE p[x]
BY DEF Granted, PCs

(* A semaphore that stays as it is, seen by an operation that moves        *)
(* elsewhere.                                                              *)
LEMMA GlobalUntouched ==
  ASSUME IInv, UNCHANGED global,
         \A x \in Operations : Alike(GlobalStage, pc[x], pc'[x])
  PROVE  GlobalStep
<1>1. GlobalStage.of = Operations
  BY DEF GlobalStage
<1>2. Books(GlobalStage, pc', global) /\ Within(GlobalStage, pc, global, pc', global)
  BY <1>1, Stages, MoveKeepsBooks DEF IInv
<1> QED
  BY <1>2 DEF GlobalStep

(* The same of the semaphores of the classes.                              *)
LEMMA ClassesUntouched ==
  ASSUME IInv, UNCHANGED class,
         \A k \in Classes : \A x \in ClassStage(k).of : Alike(ClassStage(k), pc[x], pc'[x])
  PROVE  ClassSteps
<1> SUFFICES ASSUME NEW k \in Classes
             PROVE  Books(ClassStage(k), pc', class[k]) /\ Within(ClassStage(k), pc, class[k], pc', class[k])
  BY DEF IInv, ClassSteps
<1> QED
  BY Stages, MoveKeepsBooks DEF IInv

(* A step on the semaphore of one class.                                   *)
LEMMA OneClassSteps ==
  ASSUME IInv, NEW h \in Classes, NEW s, class' = [class EXCEPT ![h] = s],
         Books(ClassStage(h), pc', s), Within(ClassStage(h), pc, class[h], pc', s),
         \A k \in Classes \ {h} :
           \A x \in ClassStage(k).of : Alike(ClassStage(k), pc[x], pc'[x])
  PROVE  ClassSteps
<1>1. class' \in [Classes -> Semaphores(Operations)]
  BY DEF IInv, Books
<1>2. class'[h] = s /\ \A k \in Classes \ {h} : class'[k] = class[k]
  BY DEF IInv
<1>3. ASSUME NEW k \in Classes \ {h}
      PROVE  Books(ClassStage(k), pc', class[k]) /\ Within(ClassStage(k), pc, class[k], pc', class[k])
  BY <1>3, Stages, MoveKeepsBooks DEF IInv
<1> QED
  BY <1>1, <1>2, <1>3 DEF ClassSteps

(* A step that neither makes nor ends a lease.                             *)
LEMMA LeasesUntouched ==
  ASSUME IInv, LeasesUnchanged,
         \A x \in Operations : pc'[x] = "leased" <=> pc[x] = "leased"
  PROVE  Counted(pc', activeCount', classActive')
<1>1. Leased(pc') = Leased(pc) /\ \A k \in Classes : LeasedOf(pc', k) = LeasedOf(pc, k)
  BY DEF Leased, LeasedOf
<1> QED
  BY <1>1 DEF IInv, Counted, LeasesUnchanged

(* acquire asks for the permit of the class, and has it or waits.          *)
LEMMA AcquireClassStep ==
  ASSUME IInv, NEW o \in Operations, AcquireClass(o)
  PROVE  GoodStep
<1> DEFINE h == ClassOf[o]
<1>1. h \in Classes /\ o \in ClassStage(h).of /\ pc[o] = "idle"
  BY LimiterAssumption DEF ClassStage, AcquireClass
<1>2. /\ Books(ClassStage(h), pc, class[h]) /\ IsStage(ClassStage(h))
      /\ pc \in [Operations -> PCs]
  BY <1>1, Stages DEF IInv
<1>3. /\ pc' \in [Operations -> PCs]
      /\ \A x \in Operations \ {o} : pc'[x] = pc[x]
      /\ HasPermit(class[h]) => pc'[o] = "classGranted"
      /\ ~HasPermit(class[h]) => pc'[o] = "classWait"
  BY <1>2 DEF AcquireClass, Goto, PCs
<1>4. GlobalStep
  <2>1. \A x \in Operations : Alike(GlobalStage, pc[x], pc'[x])
    BY <1>1, <1>3 DEF GlobalStage, Alike, Elsewhere
  <2> QED
    BY <2>1, GlobalUntouched DEF AcquireClass
<1>5. \A k \in Classes \ {h} : \A x \in ClassStage(k).of : Alike(ClassStage(k), pc[x], pc'[x])
  BY <1>3 DEF ClassStage, Alike
<1>6. \A x \in ClassStage(h).of \ {o} : Alike(ClassStage(h), pc[x], pc'[x])
  BY <1>3 DEF ClassStage, Alike
<1>7. Elsewhere(ClassStage(h), pc[o])
  BY <1>1 DEF ClassStage, Elsewhere
<1>8. ClassSteps
  <2>1. CASE HasPermit(class[h])
    <3>1. class' = [class EXCEPT ![h] = TakePermit(class[h])]
      BY <2>1 DEF AcquireClass
    <3>2. pc'[o] \in ClassStage(h).own
      BY <1>3, <2>1 DEF ClassStage
    <3> HIDE DEF h
    <3>3. /\ Books(ClassStage(h), pc', TakePermit(class[h]))
          /\ Within(ClassStage(h), pc, class[h], pc', TakePermit(class[h]))
      BY <1>1, <1>2, <1>6, <1>7, <2>1, <3>2, TakeKeepsBooks
    <3> QED
      BY <1>1, <1>5, <3>1, <3>3, OneClassSteps
  <2>2. CASE ~HasPermit(class[h])
    <3>1. class' = [class EXCEPT ![h] = Wait(class[h], o)]
      BY <2>2 DEF AcquireClass
    <3>2. pc'[o] = ClassStage(h).wait
      BY <1>3, <2>2 DEF ClassStage
    <3> HIDE DEF h
    <3>3. /\ Books(ClassStage(h), pc', Wait(class[h], o))
          /\ Within(ClassStage(h), pc, class[h], pc', Wait(class[h], o))
      BY <1>1, <1>2, <1>6, <1>7, <2>2, <3>2, WaitKeepsBooks
    <3> QED
      BY <1>1, <1>5, <3>1, <3>3, OneClassSteps
  <2> QED
    BY <2>1, <2>2
<1>9. Counted(pc', activeCount', classActive')
  BY <1>1, <1>3, LeasesUntouched DEF AcquireClass
<1> QED
  BY <1>3, <1>4, <1>8, <1>9 DEF GoodStep

(* A timer fires: the operation is still in its line.                      *)
LEMMA ExpireStep ==
  ASSUME IInv, NEW o \in Operations, Expire(o)
  PROVE  GoodStep
<1>1. /\ pc \in [Operations -> PCs] /\ pc' \in [Operations -> PCs]
      /\ \A x \in Operations \ {o} : pc'[x] = pc[x]
      /\ \/ pc[o] = "classWait" /\ pc'[o] = "classExpired"
         \/ pc[o] = "globalWait" /\ pc'[o] = "globalExpired"
  BY DEF IInv, Expire, Goto, PCs
<1>2. UNCHANGED <<global, class>>
  BY DEF Expire
<1>3. GlobalStep
  <2>1. \A x \in GlobalStage.of : \/ Alike(GlobalStage, pc[x], pc'[x])
                                  \/ pc[x] = GlobalStage.wait /\ pc'[x] = GlobalStage.expired
    BY <1>1 DEF GlobalStage, Alike, Elsewhere
  <2>2. Books(GlobalStage, pc', global) /\ Within(GlobalStage, pc, global, pc', global)
    BY <2>1, Stages, MoveKeepsBooks DEF IInv
  <2> QED
    BY <1>2, <2>2 DEF GlobalStep
<1>4. ClassSteps
  <2> SUFFICES ASSUME NEW k \in Classes
               PROVE  Books(ClassStage(k), pc', class[k]) /\ Within(ClassStage(k), pc, class[k], pc', class[k])
    BY <1>2 DEF IInv, ClassSteps
  <2>1. \A x \in ClassStage(k).of :
           \/ Alike(ClassStage(k), pc[x], pc'[x])
           \/ pc[x] = ClassStage(k).wait /\ pc'[x] = ClassStage(k).expired
    BY <1>1 DEF ClassStage, Alike, Elsewhere
  <2> QED
    BY <2>1, Stages, MoveKeepsBooks DEF IInv
<1>5. Counted(pc', activeCount', classActive')
  BY <1>1, LeasesUntouched DEF Expire
<1> QED
  BY <1>1, <1>3, <1>4, <1>5 DEF GoodStep

(* The class timeout leaves the line, or finds it holds the permit.        *)
LEMMA ClassExpiredStep ==
  ASSUME IInv, NEW o \in Operations, ClassExpired(o)
  PROVE  GoodStep
<1> DEFINE h == ClassOf[o]
<1>1. h \in Classes /\ o \in ClassStage(h).of /\ pc[o] = "classExpired"
  BY LimiterAssumption DEF ClassStage, ClassExpired
<1>2. /\ Books(ClassStage(h), pc, class[h]) /\ IsStage(ClassStage(h))
      /\ pc \in [Operations -> PCs]
  BY <1>1, Stages DEF IInv
<1>3. /\ pc' \in [Operations -> PCs]
      /\ \A x \in Operations \ {o} : pc'[x] = pc[x]
      /\ IsWaiting(class[h], o) => pc'[o] = "idle"
      /\ ~IsWaiting(class[h], o) => pc'[o] = "classGranted"
  BY <1>2 DEF ClassExpired, Goto, PCs
<1>4. GlobalStep
  <2>1. \A x \in Operations : Alike(GlobalStage, pc[x], pc'[x])
    BY <1>1, <1>3 DEF GlobalStage, Alike, Elsewhere
  <2> QED
    BY <2>1, GlobalUntouched DEF ClassExpired
<1>5. \A k \in Classes \ {h} : \A x \in ClassStage(k).of : Alike(ClassStage(k), pc[x], pc'[x])
  BY <1>3 DEF ClassStage, Alike
<1>6. \A x \in ClassStage(h).of \ {o} : Alike(ClassStage(h), pc[x], pc'[x])
  BY <1>3 DEF ClassStage, Alike
<1>7. pc[o] = ClassStage(h).expired
  BY <1>1 DEF ClassStage
<1>8. ClassSteps
  <2>1. CASE IsWaiting(class[h], o)
    <3>1. class' = [class EXCEPT ![h] = Leave(class[h], o)]
      BY <2>1 DEF ClassExpired
    <3>2. Elsewhere(ClassStage(h), pc'[o])
      BY <1>3, <2>1 DEF ClassStage, Elsewhere
    <3> HIDE DEF h
    <3>3. /\ Books(ClassStage(h), pc', Leave(class[h], o))
          /\ Within(ClassStage(h), pc, class[h], pc', Leave(class[h], o))
      BY <1>1, <1>2, <1>6, <1>7, <2>1, <3>2, LeaveKeepsBooks
    <3> QED
      BY <1>1, <1>5, <3>1, <3>3, OneClassSteps
  <2>2. CASE ~IsWaiting(class[h], o)
    <3>1. class' = class /\ class = [class EXCEPT ![h] = class[h]]
      BY <2>2 DEF ClassExpired, ClassUnchanged, IInv
    <3>2. pc'[o] \in ClassStage(h).own
      BY <1>3, <2>2 DEF ClassStage
    <3> HIDE DEF h
    <3>3. Books(ClassStage(h), pc', class[h]) /\ Within(ClassStage(h), pc, class[h], pc', class[h])
      BY <1>1, <1>2, <1>6, <1>7, <2>2, <3>2, MoveKeepsBooks
    <3> QED
      BY <1>1, <1>5, <3>1, <3>3, OneClassSteps
  <2> QED
    BY <2>1, <2>2
<1>9. Counted(pc', activeCount', classActive')
  BY <1>1, <1>3, LeasesUntouched DEF ClassExpired
<1> QED
  BY <1>3, <1>4, <1>8, <1>9 DEF GoodStep

(* acquire asks for the global permit, and has it or waits.                *)
LEMMA AcquireGlobalStep ==
  ASSUME IInv, NEW o \in Operations, AcquireGlobal(o)
  PROVE  GoodStep
<1>1. /\ pc \in [Operations -> PCs] /\ pc' \in [Operations -> PCs]
      /\ pc[o] = "classGranted"
      /\ \A x \in Operations \ {o} : pc'[x] = pc[x]
      /\ HasPermit(global) => pc'[o] = "globalGranted" /\ global' = TakePermit(global)
      /\ ~HasPermit(global) => pc'[o] = "globalWait" /\ global' = Wait(global, o)
  BY DEF IInv, AcquireGlobal, Goto, PCs
<1>2. o \in GlobalStage.of /\ Elsewhere(GlobalStage, pc[o])
  BY <1>1 DEF GlobalStage, Elsewhere
<1>3. \A x \in GlobalStage.of \ {o} : Alike(GlobalStage, pc[x], pc'[x])
  BY <1>1 DEF GlobalStage, Alike
<1>4. GlobalStep
  <2>1. CASE HasPermit(global)
    <3>1. pc'[o] \in GlobalStage.own
      BY <1>1, <2>1 DEF GlobalStage
    <3>2. /\ Books(GlobalStage, pc', TakePermit(global))
          /\ Within(GlobalStage, pc, global, pc', TakePermit(global))
      BY <1>2, <1>3, <2>1, <3>1, Stages, TakeKeepsBooks DEF IInv
    <3> QED
      BY <1>1, <2>1, <3>2 DEF GlobalStep
  <2>2. CASE ~HasPermit(global)
    <3>1. pc'[o] = GlobalStage.wait
      BY <1>1, <2>2 DEF GlobalStage
    <3>2. /\ Books(GlobalStage, pc', Wait(global, o))
          /\ Within(GlobalStage, pc, global, pc', Wait(global, o))
      BY <1>2, <1>3, <2>2, <3>1, Stages, WaitKeepsBooks DEF IInv
    <3> QED
      BY <1>1, <2>2, <3>2 DEF GlobalStep
  <2> QED
    BY <2>1, <2>2
<1>5. ClassSteps
  <2>1. \A k \in Classes : \A x \in ClassStage(k).of : Alike(ClassStage(k), pc[x], pc'[x])
    BY <1>1 DEF ClassStage, Alike
  <2> QED
    BY <2>1, ClassesUntouched DEF AcquireGlobal
<1>6. Counted(pc', activeCount', classActive')
  BY <1>1, LeasesUntouched DEF AcquireGlobal
<1> QED
  BY <1>1, <1>4, <1>5, <1>6 DEF GoodStep

(* An owner of the class permit gives it back: every class is in order     *)
(* once the waiters that were woken have moved.  p is where the other      *)
(* operations stand, seen from the classes as before.                      *)
LEMMA ReleaseClassSteps ==
  ASSUME IInv, NEW o \in Operations, NEW p \in [Operations -> PCs],
         pc[o] \in ClassStage(ClassOf[o]).own, p[o] = "idle", ReleaseClass(o, p),
         \A x \in Operations \ {o} :
           \/ p[x] = pc[x]
           \/ pc[x] = "globalWait" /\ p[x] = "globalGranted"
  PROVE  /\ ClassSteps
         /\ pc' \in [Operations -> PCs]
         /\ pc'[o] = "idle"
         /\ \A x \in Operations \ {o} :
              pc'[x] = p[x] \/ (pc[x] = "classWait" /\ pc'[x] = "classGranted")
<1> DEFINE h == ClassOf[o]
           W == Woken(class[h], Release(class[h]))
<1>1. h \in Classes /\ o \in ClassStage(h).of
  BY LimiterAssumption DEF ClassStage
<1>2. Books(ClassStage(h), pc, class[h]) /\ IsStage(ClassStage(h))
  BY <1>1, Stages DEF IInv
<1>3. pc' = Granted(p, W) /\ class' = [class EXCEPT ![h] = Release(class[h])]
  BY DEF ReleaseClass
<1>4. \A x \in W : x \in Operations /\ ClassOf[x] = h /\ pc[x] \in {"classWait", "classExpired"}
  <2> HIDE DEF h
  <2>1. \A x \in W : x \in ClassStage(h).of /\ pc[x] \in {ClassStage(h).wait, ClassStage(h).expired}
    BY <1>2, WokenWaited
  <2> QED
    BY <2>1 DEF ClassStage
<1> HIDE DEF W
<1>5. /\ pc' \in [Operations -> PCs]
      /\ \A x \in Operations :
           pc'[x] = IF x \notin W THEN p[x]
                    ELSE IF p[x] = "classWait" THEN "classGranted"
                    ELSE IF p[x] = "globalWait" THEN "globalGranted" ELSE p[x]
  BY <1>3, GrantedTo
<1>6. o \notin W /\ pc'[o] = "idle"
  BY <1>4, <1>5 DEF ClassStage
<1>7. \A x \in Operations \ {o} :
         /\ x \notin W => pc'[x] = p[x]
         /\ x \in W => IF pc[x] = "classWait" THEN pc'[x] = "classGranted"
                                              ELSE pc'[x] = pc[x] /\ pc[x] = p[x]
  BY <1>4, <1>5
<1>8. \A x \in ClassStage(h).of \ {o} : Handed(ClassStage(h), pc, pc', W, x)
  BY <1>4, <1>7 DEF ClassStage, Handed, Alike
<1>9. Elsewhere(ClassStage(h), pc'[o])
  BY <1>6 DEF ClassStage, Elsewhere
<1>10. \A k \in Classes \ {h} : \A x \in ClassStage(k).of : Alike(ClassStage(k), pc[x], pc'[x])
  BY <1>4, <1>7 DEF ClassStage, Alike
<1>11. ClassSteps
  <2> HIDE DEF h
  <2>1. pc[o] \in ClassStage(h).own
    BY DEF h
  <2>2. /\ Books(ClassStage(h), pc', Release(class[h]))
        /\ Within(ClassStage(h), pc, class[h], pc', Release(class[h]))
    BY <1>1, <1>2, <1>8, <1>9, <2>1, ReleaseKeepsBooks DEF W
  <2> QED
    BY <1>1, <1>3, <1>10, <2>2, OneClassSteps
<1> QED
  BY <1>5, <1>6, <1>7, <1>11

(* A class permit that came too late is given back.                        *)
LEMMA BudgetExhaustedStep ==
  ASSUME IInv, NEW o \in Operations, BudgetExhausted(o)
  PROVE  GoodStep
<1> DEFINE p == [pc EXCEPT ![o] = "idle"]
<1>1. /\ p \in [Operations -> PCs] /\ p[o] = "idle" /\ pc[o] = "classGranted"
      /\ \A x \in Operations \ {o} : p[x] = pc[x]
      /\ ReleaseClass(o, p)
  BY DEF IInv, BudgetExhausted, PCs
<1>2. pc[o] \in ClassStage(ClassOf[o]).own
  BY <1>1 DEF ClassStage
<1> HIDE DEF p
<1>3. /\ ClassSteps /\ pc' \in [Operations -> PCs] /\ pc'[o] = "idle"
      /\ \A x \in Operations \ {o} :
           pc'[x] = p[x] \/ (pc[x] = "classWait" /\ pc'[x] = "classGranted")
  BY <1>1, <1>2, ReleaseClassSteps
<1>4. GlobalStep
  <2>1. \A x \in Operations : Alike(GlobalStage, pc[x], pc'[x])
    BY <1>1, <1>3 DEF GlobalStage, Alike, Elsewhere
  <2> QED
    BY <2>1, GlobalUntouched DEF BudgetExhausted
<1>5. Counted(pc', activeCount', classActive')
  BY <1>1, <1>3, LeasesUntouched DEF BudgetExhausted
<1> QED
  BY <1>3, <1>4, <1>5 DEF GoodStep

(* The global timeout leaves the line and gives the class permit back, or  *)
(* finds it holds the global one.                                          *)
LEMMA GlobalExpiredStep ==
  ASSUME IInv, NEW o \in Operations, GlobalExpired(o)
  PROVE  GoodStep
<1>1. pc \in [Operations -> PCs] /\ pc[o] = "globalExpired" /\ LeasesUnchanged
  BY DEF IInv, GlobalExpired
<1>2. o \in GlobalStage.of /\ pc[o] = GlobalStage.expired
  BY <1>1 DEF GlobalStage
<1>3. CASE IsWaiting(global, o)
  <2> DEFINE p == [pc EXCEPT ![o] = "idle"]
  <2>1. /\ p \in [Operations -> PCs] /\ p[o] = "idle"
        /\ \A x \in Operations \ {o} : p[x] = pc[x]
    BY <1>1 DEF PCs
  <2>2. ReleaseClass(o, p) /\ global' = Leave(global, o)
    BY <1>3 DEF GlobalExpired
  <2>3. pc[o] \in ClassStage(ClassOf[o]).own
    BY <1>1 DEF ClassStage
  <2> HIDE DEF p
  <2>4. /\ ClassSteps /\ pc' \in [Operations -> PCs] /\ pc'[o] = "idle"
        /\ \A x \in Operations \ {o} :
             pc'[x] = p[x] \/ (pc[x] = "classWait" /\ pc'[x] = "classGranted")
    BY <2>1, <2>2, <2>3, ReleaseClassSteps
  <2>5. GlobalStep
    <3>1. Elsewhere(GlobalStage, pc'[o])
      BY <2>4 DEF GlobalStage, Elsewhere
    <3>2. \A x \in GlobalStage.of \ {o} : Alike(GlobalStage, pc[x], pc'[x])
      BY <2>1, <2>4 DEF GlobalStage, Alike, Elsewhere
    <3>3. /\ Books(GlobalStage, pc', Leave(global, o))
          /\ Within(GlobalStage, pc, global, pc', Leave(global, o))
      BY <1>2, <1>3, <3>1, <3>2, Stages, LeaveKeepsBooks DEF IInv
    <3> QED
      BY <2>2, <3>3 DEF GlobalStep
  <2>6. Counted(pc', activeCount', classActive')
    BY <1>1, <2>1, <2>4, LeasesUntouched
  <2> QED
    BY <2>4, <2>5, <2>6 DEF GoodStep
<1>4. CASE ~IsWaiting(global, o)
  <2>1. /\ pc' \in [Operations -> PCs] /\ pc'[o] = "globalGranted"
        /\ \A x \in Operations \ {o} : pc'[x] = pc[x]
        /\ UNCHANGED global /\ UNCHANGED class
    BY <1>1, <1>4 DEF GlobalExpired, Goto, PCs, GlobalUnchanged, ClassUnchanged
  <2>2. GlobalStep
    <3>1. pc'[o] \in GlobalStage.own
      BY <2>1 DEF GlobalStage
    <3>2. \A x \in GlobalStage.of \ {o} : Alike(GlobalStage, pc[x], pc'[x])
      BY <2>1 DEF GlobalStage, Alike
    <3>3. Books(GlobalStage, pc', global) /\ Within(GlobalStage, pc, global, pc', global)
      BY <1>2, <1>4, <3>1, <3>2, Stages, MoveKeepsBooks DEF IInv
    <3> QED
      BY <2>1, <3>3 DEF GlobalStep
  <2>3. ClassSteps
    <3>1. \A k \in Classes : \A x \in ClassStage(k).of : Alike(ClassStage(k), pc[x], pc'[x])
      BY <1>1, <2>1 DEF ClassStage, Alike
    <3> QED
      BY <2>1, <3>1, ClassesUntouched
  <2>4. Counted(pc', activeCount', classActive')
    BY <1>1, <2>1, LeasesUntouched
  <2> QED
    BY <2>1, <2>2, <2>3, <2>4 DEF GoodStep
<1> QED
  BY <1>3, <1>4

(* The lease is made and counted.                                          *)
LEMMA LeaseStep ==
  ASSUME IInv, NEW o \in Operations, Lease(o)
  PROVE  GoodStep
<1> DEFINE h == ClassOf[o]
<1>1. /\ pc \in [Operations -> PCs] /\ pc' \in [Operations -> PCs] /\ h \in Classes
      /\ pc[o] = "globalGranted" /\ pc'[o] = "leased"
      /\ \A x \in Operations \ {o} : pc'[x] = pc[x]
      /\ UNCHANGED global /\ UNCHANGED class
  BY LimiterAssumption DEF IInv, Lease, Goto, PCs
<1>2. GlobalStep
  <2>1. \A x \in Operations : Alike(GlobalStage, pc[x], pc'[x])
    BY <1>1 DEF GlobalStage, Alike
  <2> QED
    BY <1>1, <2>1, GlobalUntouched
<1>3. ClassSteps
  <2>1. \A k \in Classes : \A x \in ClassStage(k).of : Alike(ClassStage(k), pc[x], pc'[x])
    BY <1>1 DEF ClassStage, Alike
  <2> QED
    BY <1>1, <2>1, ClassesUntouched
<1>4. Counted(pc', activeCount', classActive')
  <2>1. /\ IsFiniteSet(Leased(pc)) /\ o \notin Leased(pc)
        /\ Leased(pc') = Leased(pc) \cup {o}
    BY <1>1, LimiterAssumption, FS_Subset DEF Leased
  <2>2. /\ IsFiniteSet(LeasedOf(pc, h)) /\ o \notin LeasedOf(pc, h)
        /\ LeasedOf(pc', h) = LeasedOf(pc, h) \cup {o}
        /\ \A k \in Classes \ {h} : LeasedOf(pc', k) = LeasedOf(pc, k)
    BY <1>1, LimiterAssumption, FS_Subset DEF LeasedOf
  <2> HIDE DEF h
  <2>3. Cardinality(Leased(pc')) = Cardinality(Leased(pc)) + 1
    BY <2>1, FS_AddElement
  <2>4. Cardinality(LeasedOf(pc', h)) = Cardinality(LeasedOf(pc, h)) + 1
    <3>1. IsFiniteSet(LeasedOf(pc, h)) /\ o \notin LeasedOf(pc, h)
      BY <2>2
    <3>2. Cardinality(LeasedOf(pc, h) \cup {o}) = Cardinality(LeasedOf(pc, h)) + 1
      BY <3>1, FS_AddElement
    <3> QED
      BY <2>2, <3>2
  <2>5. activeCount' = activeCount + 1 /\ classActive' = [classActive EXCEPT ![h] = classActive[h] + 1]
    BY DEF Lease, h
  <2> QED
    <3>1. /\ activeCount = Cardinality(Leased(pc)) /\ classActive \in [Classes -> Nat]
          /\ \A k \in Classes : classActive[k] = Cardinality(LeasedOf(pc, k))
      BY DEF IInv, Counted
    <3>2. classActive[h] + 1 \in Nat
      BY SMTT(20), <1>1, <3>1
    <3>3. classActive' \in [Classes -> Nat]
      BY <2>5, <3>1, <3>2
    <3>4. ASSUME NEW k \in Classes PROVE classActive'[k] = Cardinality(LeasedOf(pc', k))
      <4>1. CASE k = h
        BY <2>4, <2>5, <3>1, <4>1
      <4>2. CASE k # h
        BY <2>2, <2>5, <3>1, <4>2
      <4> QED
        BY <4>1, <4>2
    <3> QED
      BY <2>3, <2>5, <3>1, <3>3, <3>4 DEF Counted
<1> QED
  BY <1>1, <1>2, <1>3, <1>4 DEF GoodStep

(* onRelease gives both permits back and serves both lines.                *)
LEMMA LeaseReleaseStep ==
  ASSUME IInv, NEW o \in Operations, LeaseRelease(o)
  PROVE  GoodStep
<1> DEFINE h == ClassOf[o]
           W == Woken(global, Release(global))
           r == [pc EXCEPT ![o] = "idle"]
           p == Granted(r, W)
<1>1. /\ pc \in [Operations -> PCs] /\ pc[o] = "leased" /\ h \in Classes
      /\ r \in [Operations -> PCs] /\ r[o] = "idle"
      /\ \A x \in Operations \ {o} : r[x] = pc[x]
  BY LimiterAssumption DEF IInv, LeaseRelease, PCs
<1>2. global' = Release(global) /\ ReleaseClass(o, p)
  BY DEF LeaseRelease, OnRelease
<1>3. /\ activeCount' = Decremented(activeCount)
      /\ classActive' = [classActive EXCEPT ![h] = Decremented(classActive[h])]
  BY DEF LeaseRelease, OnRelease
<1>4. \A x \in W : x \in Operations /\ pc[x] \in {"globalWait", "globalExpired"}
  <2>1. \A x \in W : x \in GlobalStage.of /\ pc[x] \in {GlobalStage.wait, GlobalStage.expired}
    BY WokenWaited DEF IInv
  <2> QED
    BY <2>1 DEF GlobalStage
<1> HIDE DEF W, r
<1>5. /\ p \in [Operations -> PCs]
      /\ \A x \in Operations :
           p[x] = IF x \notin W THEN r[x]
                  ELSE IF r[x] = "classWait" THEN "classGranted"
                  ELSE IF r[x] = "globalWait" THEN "globalGranted" ELSE r[x]
  BY SMTT(20), <1>1, GrantedTo
<1> HIDE DEF p
<1>6. /\ p[o] = "idle"
      /\ \A x \in Operations \ {o} :
           /\ x \notin W => p[x] = pc[x]
           /\ x \in W => IF pc[x] = "globalWait" THEN p[x] = "globalGranted" ELSE p[x] = pc[x]
  BY <1>1, <1>4, <1>5
<1>7. pc[o] \in ClassStage(ClassOf[o]).own
  BY <1>1 DEF ClassStage
<1>8. /\ ClassSteps /\ pc' \in [Operations -> PCs] /\ pc'[o] = "idle"
      /\ \A x \in Operations \ {o} :
           pc'[x] = p[x] \/ (pc[x] = "classWait" /\ pc'[x] = "classGranted")
  <2>1. \A x \in Operations \ {o} :
           \/ p[x] = pc[x]
           \/ pc[x] = "globalWait" /\ p[x] = "globalGranted"
    BY <1>6
  <2> QED
    BY <1>2, <1>5, <1>6, <1>7, <2>1, ReleaseClassSteps
<1>9. GlobalStep
  <2>1. o \in GlobalStage.of /\ pc[o] \in GlobalStage.own /\ Elsewhere(GlobalStage, pc'[o])
    BY <1>1, <1>8 DEF GlobalStage, Elsewhere
  <2>2. \A x \in GlobalStage.of \ {o} : Handed(GlobalStage, pc, pc', W, x)
    BY <1>4, <1>6, <1>8 DEF GlobalStage, Handed, Alike, Elsewhere
  <2>3. /\ Books(GlobalStage, pc', Release(global))
        /\ Within(GlobalStage, pc, global, pc', Release(global))
    BY <2>1, <2>2, Stages, ReleaseKeepsBooks DEF IInv, W
  <2> QED
    BY <1>2, <2>3 DEF GlobalStep
<1>10. Counted(pc', activeCount', classActive')
  <2>1. \A x \in Operations \ {o} : pc'[x] = "leased" <=> pc[x] = "leased"
    BY <1>4, <1>6, <1>8
  <2>2. /\ IsFiniteSet(Leased(pc)) /\ o \in Leased(pc)
        /\ Leased(pc') = Leased(pc) \ {o}
    BY <1>1, <1>8, <2>1, LimiterAssumption, FS_Subset DEF Leased
  <2>3. /\ IsFiniteSet(LeasedOf(pc, h)) /\ o \in LeasedOf(pc, h)
        /\ LeasedOf(pc', h) = LeasedOf(pc, h) \ {o}
        /\ \A k \in Classes \ {h} : LeasedOf(pc', k) = LeasedOf(pc, k)
    BY <1>1, <1>8, <2>1, LimiterAssumption, FS_Subset DEF LeasedOf
  <2> HIDE DEF h
  <2>4. /\ Cardinality(Leased(pc')) = Cardinality(Leased(pc)) - 1
        /\ Cardinality(Leased(pc)) \in Nat /\ Cardinality(Leased(pc')) \in Nat
    BY <2>2, FS_RemoveElement, FS_CardinalityType
  <2>5. /\ Cardinality(LeasedOf(pc', h)) = Cardinality(LeasedOf(pc, h)) - 1
        /\ Cardinality(LeasedOf(pc, h)) \in Nat /\ Cardinality(LeasedOf(pc', h)) \in Nat
    BY <2>3, FS_RemoveElement, FS_CardinalityType
  <2>6. /\ activeCount = Cardinality(Leased(pc)) /\ classActive \in [Classes -> Nat]
        /\ \A k \in Classes : classActive[k] = Cardinality(LeasedOf(pc, k))
    BY DEF IInv, Counted
  <2>7. activeCount' = Cardinality(Leased(pc'))
    BY SMTT(20), <1>3, <2>4, <2>6 DEF Decremented
  <2>8. Decremented(classActive[h]) = Cardinality(LeasedOf(pc', h))
    BY SMTT(20), <1>1, <2>5, <2>6 DEF Decremented
  <2>9. /\ classActive'[h] = Decremented(classActive[h])
        /\ \A k \in Classes \ {h} : classActive'[k] = classActive[k]
        /\ classActive' \in [Classes -> Nat]
    BY <1>1, <1>3, <2>5, <2>6, <2>8
  <2> QED
    BY <2>3, <2>6, <2>7, <2>8, <2>9 DEF Counted
<1> QED
  BY <1>8, <1>9, <1>10 DEF GoodStep

(* reconfigureMaxConcurrent resizes and serves all the lines.              *)
LEMMA ReconfigureStep ==
  ASSUME IInv, NEW max \in Limits, Reconfigure(max)
  PROVE  GoodStep
<1> DEFINE t(k) == Resize(class[k], ClassCap(k, max))
           G == Woken(global, Resize(global, max))
           C(k) == Woken(class[k], t(k))
           W == G \cup UNION {C(k) : k \in Classes}
<1>1. pc \in [Operations -> PCs] /\ max \in Nat \ {0}
  BY LimiterAssumption DEF IInv
<1>2. /\ global' = Resize(global, max)
      /\ class' = [k \in Classes |-> t(k)]
      /\ pc' = Granted(pc, W)
      /\ LeasesUnchanged
  BY DEF Reconfigure
<1>3. \A x \in G : x \in Operations /\ pc[x] \in {"globalWait", "globalExpired"}
  <2>1. \A x \in G : x \in GlobalStage.of /\ pc[x] \in {GlobalStage.wait, GlobalStage.expired}
    BY WokenWaited DEF IInv
  <2> QED
    BY <2>1 DEF GlobalStage
<1>4. \A k \in Classes : \A x \in C(k) :
         x \in Operations /\ ClassOf[x] = k /\ pc[x] \in {"classWait", "classExpired"}
  <2>1. \A k \in Classes : \A x \in C(k) :
           x \in ClassStage(k).of /\ pc[x] \in {ClassStage(k).wait, ClassStage(k).expired}
    BY WokenWaited DEF IInv
  <2> QED
    BY <2>1 DEF ClassStage
<1> HIDE DEF G, C, t
<1>5. /\ pc' \in [Operations -> PCs]
      /\ \A x \in Operations :
           pc'[x] = IF x \notin W THEN pc[x]
                    ELSE IF pc[x] = "classWait" THEN "classGranted"
                    ELSE IF pc[x] = "globalWait" THEN "globalGranted" ELSE pc[x]
  BY SMTT(20), <1>1, <1>2, GrantedTo
<1>6. \A x : x \in W <=> x \in G \/ \E k \in Classes : x \in C(k)
  OBVIOUS
<1> HIDE DEF W
<1>7. \A x \in Operations :
         /\ pc'[x] = pc[x] \/ (pc[x] = "classWait" /\ pc'[x] = "classGranted")
                           \/ (pc[x] = "globalWait" /\ pc'[x] = "globalGranted")
         /\ pc[x] = "globalWait" => (x \in G <=> pc'[x] = "globalGranted")
         /\ pc[x] = "classWait" => (x \in C(ClassOf[x]) <=> pc'[x] = "classGranted")
  <2> TAKE x \in Operations
  <2>1. ClassOf[x] \in Classes
    BY LimiterAssumption
  <2>2. pc[x] = "globalWait" => (x \in W <=> x \in G)
    BY <1>4, <1>6
  <2>3. pc[x] = "classWait" => (x \in W <=> x \in C(ClassOf[x]))
    BY <1>3, <1>4, <1>6, <2>1
  <2> QED
    BY <1>5, <2>2, <2>3
<1>8. GlobalStep
  <2>1. \A x \in GlobalStage.of : Handed(GlobalStage, pc, pc', G, x)
    BY <1>3, <1>7 DEF GlobalStage, Handed, Alike, Elsewhere
  <2>2. /\ Books(GlobalStage, pc', Resize(global, max))
        /\ Within(GlobalStage, pc, global, pc', Resize(global, max))
    BY <1>1, <2>1, Stages, ResizeKeepsBooks DEF IInv, G
  <2> QED
    BY <1>2, <2>2 DEF GlobalStep
<1>9. \A k \in Classes : Books(ClassStage(k), pc', t(k)) /\ Within(ClassStage(k), pc, class[k], pc', t(k))
  <2> TAKE k \in Classes
  <2>1. \A x \in ClassStage(k).of : Handed(ClassStage(k), pc, pc', C(k), x)
    BY <1>4, <1>7 DEF ClassStage, Handed, Alike, Elsewhere
  <2>2. ClassCap(k, max) \in Nat \ {0}
    BY <1>1, CapIsPositive
  <2> QED
    BY <2>1, <2>2, Stages, ResizeKeepsBooks DEF IInv, C, t
<1>10. ClassSteps
  <2>1. \A k \in Classes : class'[k] = t(k) /\ t(k) \in Semaphores(Operations)
    BY <1>2, <1>9 DEF Books
  <2> QED
    BY <1>2, <1>9, <2>1 DEF ClassSteps
<1>11. Counted(pc', activeCount', classActive')
  BY <1>2, <1>7, LeasesUntouched
<1> QED
  BY <1>5, <1>8, <1>10, <1>11 DEF GoodStep

-----------------------------------------------------------------------------
(* A new semaphore has no owner and nobody in its line.                    *)
LEMMA NewIsBooked ==
  ASSUME NEW st, NEW p, NEW max \in Nat \ {0}, \A o \in st.of : Elsewhere(st, p[o])
  PROVE  Books(st, p, NewSemaphore(max))
<1> DEFINE s == NewSemaphore(max)
<1>1. s = [max |-> max, active |-> 0, waiters |-> << >>]
  BY DEF NewSemaphore
<1>2. s \in Semaphores(Operations) /\ s.active = 0 /\ s.waiters = << >>
  BY SMT, <1>1 DEF Semaphores
<1>3. Owners(st, p, s) = {}
  BY DEF Owners, Elsewhere
<1>4. IsFiniteSet({}) /\ Cardinality({}) = 0
  BY FS_EmptySet
<1>5. Range(s.waiters) = {} /\ Injective(s.waiters)
  BY SMT, <1>2, EmptyQueue DEF Injective
<1> HIDE DEF s
<1>6. Booked(s, Owners(st, p, s))
  BY <1>2, <1>3, <1>4, <1>5 DEF Booked
<1>7. InLine(st, p, s)
  BY <1>5 DEF InLine, Elsewhere
<1> QED
  BY <1>2, <1>6, <1>7 DEF Books, NobodyStranded, s

(* The limiter starts with its books in order.                             *)
LEMMA InitIInv == Init => IInv
<1> SUFFICES ASSUME Init PROVE IInv
  OBVIOUS
<1>1. PICK max \in Limits : /\ global = NewSemaphore(max)
                            /\ class = [k \in Classes |-> NewSemaphore(ClassCap(k, max))]
  BY DEF Init
<1>2. max \in Nat \ {0}
  BY LimiterAssumption
<1>3. pc = [o \in Operations |-> "idle"] /\ activeCount = 0 /\ classActive = [k \in Classes |-> 0]
  BY DEF Init
<1>4. \A o \in GlobalStage.of : Elsewhere(GlobalStage, pc[o])
  BY <1>3 DEF GlobalStage, Elsewhere
<1>5. \A k \in Classes : \A o \in ClassStage(k).of : Elsewhere(ClassStage(k), pc[o])
  BY <1>3 DEF ClassStage, Elsewhere
<1>6. Books(GlobalStage, pc, global)
  BY <1>1, <1>2, <1>4, NewIsBooked
<1>7. \A k \in Classes : Books(ClassStage(k), pc, class[k])
  <2> TAKE k \in Classes
  <2>1. ClassCap(k, max) \in Nat \ {0} /\ class[k] = NewSemaphore(ClassCap(k, max))
    BY <1>1, <1>2, CapIsPositive
  <2> QED
    BY <1>5, <2>1, NewIsBooked
<1>8. class \in [Classes -> Semaphores(Operations)]
  BY <1>1, <1>7 DEF Books
<1>9. Counted(pc, activeCount, classActive)
  <2>1. Leased(pc) = {} /\ \A k \in Classes : LeasedOf(pc, k) = {}
    BY <1>3 DEF Leased, LeasedOf
  <2>2. Cardinality({}) = 0
    BY FS_EmptySet
  <2> QED
    BY <1>3, <2>1, <2>2 DEF Counted
<1> QED
  BY <1>3, <1>6, <1>7, <1>8, <1>9 DEF IInv, PCs

(* One step per action.                                                    *)
LEMMA NextIsGood == IInv /\ Next => GoodStep
<1> SUFFICES ASSUME IInv, Next PROVE GoodStep
  OBVIOUS
<1>1. ASSUME NEW o \in Operations, AcquireClass(o) PROVE GoodStep
  BY <1>1, AcquireClassStep
<1>2. ASSUME NEW o \in Operations, Expire(o) PROVE GoodStep
  BY <1>2, ExpireStep
<1>3. ASSUME NEW o \in Operations, ClassExpired(o) PROVE GoodStep
  BY <1>3, ClassExpiredStep
<1>4. ASSUME NEW o \in Operations, BudgetExhausted(o) PROVE GoodStep
  BY <1>4, BudgetExhaustedStep
<1>5. ASSUME NEW o \in Operations, AcquireGlobal(o) PROVE GoodStep
  BY <1>5, AcquireGlobalStep
<1>6. ASSUME NEW o \in Operations, GlobalExpired(o) PROVE GoodStep
  BY <1>6, GlobalExpiredStep
<1>7. ASSUME NEW o \in Operations, Lease(o) PROVE GoodStep
  BY <1>7, LeaseStep
<1>8. ASSUME NEW o \in Operations, LeaseRelease(o) PROVE GoodStep
  BY <1>8, LeaseReleaseStep
<1>9. ASSUME NEW max \in Limits, Reconfigure(max) PROVE GoodStep
  BY <1>9, ReconfigureStep
<1> QED
  BY <1>1, <1>2, <1>3, <1>4, <1>5, <1>6, <1>7, <1>8, <1>9 DEF Next

(* The books of every stage, and the counts of leases, are always right.   *)
THEOREM BooksAreKept == Spec => []IInv
<1>1. Init => IInv
  BY InitIInv
<1>2. IInv /\ [Next]_vars => IInv'
  <2>1. IInv /\ Next => IInv'
    BY NextIsGood DEF GoodStep, GlobalStep, ClassSteps, IInv
  <2>2. IInv /\ UNCHANGED vars => IInv'
    BY DEF vars, IInv
  <2> QED
    BY <2>1, <2>2
<1> QED
  BY <1>1, <1>2, PTL DEF Spec

(* Every permit that is out has exactly one owner, in whatever order       *)
(* releases, timeouts and changes of the limit come, and the counts that   *)
(* are reported are those of the leases.                                   *)
THEOREM PermitsAreExact == Spec => []PermitsExact
<1>1. IInv => PermitsExact
  <2> SUFFICES ASSUME IInv PROVE PermitsExact
    OBVIOUS
  <2>1. Owners(GlobalStage, pc, global) = {o \in Operations : OwnsGlobal(o)}
    BY DEF Owners, GlobalStage, OwnsGlobal
  <2>2. \A k \in Classes : Owners(ClassStage(k), pc, class[k])
                             = {o \in Operations : ClassOf[o] = k /\ OwnsClass(o)}
    BY DEF Owners, ClassStage, OwnsClass
  <2>3. global.active = Cardinality({o \in Operations : OwnsGlobal(o)})
    BY <2>1 DEF IInv, Books, Booked
  <2>4. \A k \in Classes : class[k].active =
                             Cardinality({o \in Operations : ClassOf[o] = k /\ OwnsClass(o)})
    BY <2>2 DEF IInv, Books, Booked
  <2>5. /\ activeCount = Cardinality({o \in Operations : pc[o] = "leased"})
        /\ \A k \in Classes : classActive[k] =
             Cardinality({o \in Operations : ClassOf[o] = k /\ pc[o] = "leased"})
    BY DEF IInv, Counted, Leased, LeasedOf
  <2>6. TypeOK
    <3>1. IsFiniteSet(Leased(pc))
      BY LimiterAssumption, FS_Subset DEF Leased
    <3>2. activeCount \in Nat
      BY <3>1, FS_CardinalityType DEF IInv, Counted
    <3> QED
      BY <3>2 DEF TypeOK, IInv, Books, Counted
  <2> QED
    BY <2>3, <2>4, <2>5, <2>6 DEF PermitsExact
<1> QED
  BY <1>1, BooksAreKept, PTL

(* No waiter stays in the line of a semaphore that has a permit for it.    *)
THEOREM NobodyIsStranded == Spec => []NoStrandedWaiter
<1>1. IInv => NoStrandedWaiter
  BY DEF IInv, Books, NoStrandedWaiter
<1> QED
  BY <1>1, BooksAreKept, PTL

\* The owners of the stages are those the property speaks of.
OwnersAgree ==
  /\ \A o \in Operations : o \in Owners(GlobalStage, pc, global) <=> OwnsGlobal(o)
  /\ \A o \in Operations :
       o \in Owners(ClassStage(ClassOf[o]), pc, class[ClassOf[o]]) <=> OwnsClass(o)

(* Whoever comes to own a permit, of the operation's class or of all, does *)
(* so within the limit in force, although the limits shrink under the      *)
(* leases.                                                                 *)
THEOREM LimitsAreKept == Spec => OpensWithinLimits
<1> DEFINE Limited ==
             \A o \in Operations :
               /\ ~OwnsGlobal(o) /\ OwnsGlobal(o)' => global'.active <= global'.max
               /\ ~OwnsClass(o) /\ OwnsClass(o)' =>
                    class'[ClassOf[o]].active <= class'[ClassOf[o]].max
<1>1. OwnersAgree /\ OwnersAgree'
  BY DEF OwnersAgree, Owners, GlobalStage, ClassStage, OwnsGlobal, OwnsClass
<1>2. ASSUME IInv, Next PROVE Limited
  <2>1. GoodStep
    BY <1>2, NextIsGood
  <2> TAKE o \in Operations
  <2>2. ASSUME ~OwnsGlobal(o), OwnsGlobal(o)' PROVE global'.active <= global'.max
    BY <1>1, <2>1, <2>2 DEF OwnersAgree, GoodStep, GlobalStep, Within
  <2>3. ASSUME ~OwnsClass(o), OwnsClass(o)'
        PROVE  class'[ClassOf[o]].active <= class'[ClassOf[o]].max
    <3>1. ClassOf[o] \in Classes
      BY LimiterAssumption
    <3> QED
      BY <1>1, <2>1, <2>3, <3>1 DEF OwnersAgree, GoodStep, ClassSteps, Within
  <2> QED
    BY <2>2, <2>3
<1>3. IInv /\ [Next]_vars => [Limited]_vars
  BY <1>2
<1> QED
  BY <1>3, BooksAreKept, PTL DEF Spec, OpensWithinLimits
=============================================================================
