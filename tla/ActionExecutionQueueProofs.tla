--------------------- MODULE ActionExecutionQueueProofs ---------------------
(***************************************************************************)
(* The safety of the action queue, for any requests, actions, keys and     *)
(* policies.  What the queue keeps in running, runningIds and pending is   *)
(* its books on future and task; one lemma for each thing that can happen  *)
(* to a request says that the books stay right, and each handler is a      *)
(* sequence of such things.                                                *)
(***************************************************************************)
EXTENDS ActionExecutionQueue, QueueLemmas, TLAPS

\* A leaf that names no prover is one for Zenon.
USE ZenonT(30)

Tasks == {"idle", "direct", "queued", "completed", "done"}

Futures == {"new", "pending", "replaying"} \cup Outcomes

\* Owners, of any task function t and any set u of unconfirmed executions.
Holders(a, t, u) ==
  {r \in Requests : ActionOf[r] = a /\ (t[r] \in {"direct", "queued", "completed"} \/ r \in u)}

SlotsOf(a, n, ids, t, u) ==
  /\ ids = Holders(a, t, u)
  /\ IsFiniteSet(ids)
  /\ n = Cardinality(ids)

\* The requests of action a that are open and have not begun.
Open(a, f, t) == {r \in Requests : ActionOf[r] = a /\ f[r] = "pending" /\ t[r] = "idle"}

\* The i-th in the line found room for i: QueueExact is about the last one only,
\* and when that one leaves the next to last takes its place.
LineOf(a, q, f, t) ==
  /\ Injective(q)
  /\ Range(q) = Open(a, f, t)
  /\ \A i \in 1 .. Len(q) : Policy[q[i]].behavior = "enqueue" /\ i <= Policy[q[i]].maxQueued

Phase(r, f, t, u) ==
  /\ f[r] \in {"new", "replaying"} => t[r] = "idle"
  /\ t[r] \in {"direct", "queued"} => f[r] = "pending"
  /\ f[r] = "pending" => t[r] \in {"idle", "direct", "queued"}
  /\ r \in u => t[r] # "idle"

BooksType(n, ids, q, f, t, u) ==
  /\ n \in [Actions -> Nat]
  /\ ids \in [Actions -> SUBSET Requests]
  /\ q \in [Actions -> Seq(Requests)]
  /\ f \in [Requests -> Futures]
  /\ t \in [Requests -> Tasks]
  /\ u \subseteq Requests

Books(n, ids, q, f, t, u) ==
  /\ BooksType(n, ids, q, f, t, u)
  /\ \A a \in Actions : SlotsOf(a, n[a], ids[a], t, u)
  /\ \A a \in Actions : LineOf(a, q[a], f, t)
  /\ \A r \in Requests : Phase(r, f, t, u)

-----------------------------------------------------------------------------

(* A request that begins without queueing takes a slot of its action.                *)
LEMMA DirectBooks ==
  ASSUME NEW n, NEW ids, NEW q, NEW f, NEW t, NEW u, Books(n, ids, q, f, t, u),
         NEW r \in Requests, f[r] = "new"
  PROVE  LET a == ActionOf[r]
         IN  Books([n EXCEPT ![a] = n[a] + 1], [ids EXCEPT ![a] = ids[a] \cup {r}], q,
                   [f EXCEPT ![r] = "pending"], [t EXCEPT ![r] = "direct"], u)
<1> DEFINE a == ActionOf[r]
           n2 == [n EXCEPT ![a] = n[a] + 1]
           ids2 == [ids EXCEPT ![a] = ids[a] \cup {r}]
           f2 == [f EXCEPT ![r] = "pending"]
           t2 == [t EXCEPT ![r] = "direct"]
<1>1. BooksType(n, ids, q, f, t, u) /\ a \in Actions
  BY ActionRequestAssumption DEF Books
<1>2. t[r] = "idle" /\ r \notin u
  BY DEF Books, Phase
<1>3. BooksType(n2, ids2, q, f2, t2, u)
  BY SMT, <1>1 DEF BooksType, Tasks, Futures
<1>4. ASSUME NEW b \in Actions PROVE SlotsOf(b, n2[b], ids2[b], t2, u)
  <2>1. SlotsOf(b, n[b], ids[b], t, u)
    BY DEF Books
  <2>2. CASE b = a
    <3>1. ids2[b] = ids[b] \cup {r} /\ n2[b] = n[b] + 1
      BY <1>1, <2>2 DEF BooksType
    <3>2. ids2[b] = Holders(b, t2, u)
      BY <1>1, <2>1, <2>2, <3>1 DEF SlotsOf, Holders, BooksType
    <3>3. r \notin ids[b]
      BY <1>2, <2>1 DEF SlotsOf, Holders
    <3>4. IsFiniteSet(ids[b] \cup {r}) /\ Cardinality(ids[b] \cup {r}) = Cardinality(ids[b]) + 1
      BY <2>1, <3>3, FS_AddElement DEF SlotsOf
    <3> QED
      BY <2>1, <3>1, <3>2, <3>4 DEF SlotsOf
  <2>3. CASE b # a
    <3>1. ids2[b] = ids[b] /\ n2[b] = n[b]
      BY <1>1, <2>3 DEF BooksType
    <3>2. Holders(b, t2, u) = Holders(b, t, u)
      BY <1>1, <2>3 DEF Holders, BooksType
    <3> QED
      BY <2>1, <3>1, <3>2 DEF SlotsOf
  <2> QED
    BY <2>2, <2>3
<1>5. ASSUME NEW b \in Actions PROVE LineOf(b, q[b], f2, t2)
  <2>1. LineOf(b, q[b], f, t)
    BY DEF Books
  <2>2. Open(b, f2, t2) = Open(b, f, t)
    BY <1>1 DEF Open, BooksType
  <2> QED
    BY <2>1, <2>2 DEF LineOf
<1>6. ASSUME NEW s \in Requests PROVE Phase(s, f2, t2, u)
  BY <1>1, <1>2 DEF Books, Phase, BooksType
<1> QED
  BY <1>3, <1>4, <1>5, <1>6 DEF Books

(* A request that finds room in the line of its action joins it.                     *)
LEMMA JoinBooks ==
  ASSUME NEW n, NEW ids, NEW q, NEW f, NEW t, NEW u, Books(n, ids, q, f, t, u),
         NEW r \in Requests, f[r] = "new", Policy[r].behavior = "enqueue",
         Len(q[ActionOf[r]]) < Policy[r].maxQueued
  PROVE  LET a == ActionOf[r]
         IN  Books(n, ids, [q EXCEPT ![a] = Append(q[a], r)], [f EXCEPT ![r] = "pending"], t, u)
<1> DEFINE a == ActionOf[r]
           q2 == [q EXCEPT ![a] = Append(q[a], r)]
           f2 == [f EXCEPT ![r] = "pending"]
<1>1. BooksType(n, ids, q, f, t, u) /\ a \in Actions
  BY ActionRequestAssumption DEF Books
<1>2. t[r] = "idle" /\ r \notin u
  BY DEF Books, Phase
<1>3. LineOf(a, q[a], f, t) /\ q[a] \in Seq(Requests)
  BY <1>1 DEF Books, BooksType
<1>4. r \notin Range(q[a])
  BY <1>3 DEF LineOf, Open
<1>5. /\ Append(q[a], r) \in Seq(Requests)
      /\ Injective(Append(q[a], r))
      /\ Range(Append(q[a], r)) = Range(q[a]) \cup {r}
  BY SMT, <1>3, <1>4, AppendToQueue DEF LineOf
<1>6. BooksType(n, ids, q2, f2, t, u)
  BY <1>1, <1>5 DEF BooksType, Futures
<1>7. ASSUME NEW b \in Actions PROVE LineOf(b, q2[b], f2, t)
  <2>1. CASE b = a
    <3>1. q2[b] = Append(q[a], r)
      BY <1>1, <2>1 DEF BooksType
    <3>2. Open(b, f2, t) = Open(b, f, t) \cup {r}
      BY <1>1, <1>2, <2>1 DEF Open, BooksType
    <3>3. /\ Len(q2[b]) = Len(q[a]) + 1 /\ q2[b][Len(q[a]) + 1] = r
          /\ \A i \in 1 .. Len(q[a]) : q2[b][i] = q[a][i]
      BY SMTT(20), <1>3, <3>1
    <3>4. Len(q[a]) \in Nat /\ Policy[r].maxQueued \in Nat
      BY SMT, <1>3, ActionRequestAssumption
    <3>5. \A i \in 1 .. Len(q2[b]) :
            Policy[q2[b][i]].behavior = "enqueue" /\ i <= Policy[q2[b][i]].maxQueued
      <4> SUFFICES ASSUME NEW i \in 1 .. Len(q2[b])
                   PROVE  Policy[q2[b][i]].behavior = "enqueue" /\ i <= Policy[q2[b][i]].maxQueued
        OBVIOUS
      <4>1. i \in 1 .. Len(q[a]) \/ i = Len(q[a]) + 1
        BY SMTT(20), <3>3, <3>4
      <4>2. CASE i \in 1 .. Len(q[a])
        BY <1>3, <3>3, <4>2 DEF LineOf
      <4>3. CASE i = Len(q[a]) + 1
        <5>1. i <= Policy[r].maxQueued
          BY SMT, <3>4, <4>3
        <5> QED
          BY <3>3, <4>3, <5>1
      <4> QED
        BY <4>1, <4>2, <4>3
    <3> QED
      BY <1>3, <1>5, <2>1, <3>1, <3>2, <3>5 DEF LineOf
  <2>2. CASE b # a
    <3>1. q2[b] = q[b]
      BY <1>1, <2>2 DEF BooksType
    <3>2. Open(b, f2, t) = Open(b, f, t)
      BY <1>1, <2>2 DEF Open, BooksType
    <3> QED
      BY <3>1, <3>2 DEF LineOf, Books
  <2> QED
    BY <2>1, <2>2
<1>8. ASSUME NEW s \in Requests PROVE Phase(s, f2, t, u)
  BY <1>1, <1>2 DEF Books, Phase, BooksType
<1> QED
  BY <1>6, <1>7, <1>8 DEF Books

\* The books once the first k of the line of an action have begun.
BooksOnceBegun(n, ids, q, f, t, u, a, k) ==
  LET started == {q[a][j] : j \in 1 .. k}
  IN  Books([n EXCEPT ![a] = n[a] + k], [ids EXCEPT ![a] = ids[a] \cup started],
            [q EXCEPT ![a] = SubSeq(q[a], k + 1, Len(q[a]))], f,
            [s \in Requests |-> IF s \in started THEN "queued" ELSE t[s]], u)

(* The first k of the line of an action begin: each takes a slot.                    *)
LEMMA BeginBooks ==
  ASSUME NEW n, NEW ids, NEW q, NEW f, NEW t, NEW u, Books(n, ids, q, f, t, u),
         NEW a \in Actions, NEW k \in 0 .. Len(q[a])
  PROVE  BooksOnceBegun(n, ids, q, f, t, u, a, k)
<1> DEFINE started == {q[a][j] : j \in 1 .. k}
           rest == SubSeq(q[a], k + 1, Len(q[a]))
           n2 == [n EXCEPT ![a] = n[a] + k]
           ids2 == [ids EXCEPT ![a] = ids[a] \cup started]
           q2 == [q EXCEPT ![a] = rest]
           t2 == [s \in Requests |-> IF s \in started THEN "queued" ELSE t[s]]
<1>1. BooksType(n, ids, q, f, t, u) /\ LineOf(a, q[a], f, t) /\ SlotsOf(a, n[a], ids[a], t, u)
  BY DEF Books
<1>2. q[a] \in Seq(Requests) /\ Injective(q[a]) /\ Range(q[a]) = Open(a, f, t) /\ n[a] \in Nat
  BY <1>1 DEF BooksType, LineOf
<1>3. rest = SubSeq(q[a], k + 1, Len(q[a])) /\ started = {q[a][i] : i \in 1 .. k}
  OBVIOUS
<1> HIDE DEF rest, started
<1>4. /\ rest \in Seq(Requests) /\ Len(rest) = Len(q[a]) - k /\ Injective(rest)
      /\ \A i \in 1 .. Len(q[a]) - k : rest[i] = q[a][k + i]
      /\ Range(rest) = Range(q[a]) \ started /\ started \subseteq Range(q[a])
      /\ IsFiniteSet(started) /\ Cardinality(started) = k
  <2>1. Split(Requests, q[a], k, {q[a][i] : i \in 1 .. k}, SubSeq(q[a], k + 1, Len(q[a])))
    BY <1>2, SplitQueue
  <2> QED
    BY <1>3, <2>1 DEF Split
<1>5. /\ started \subseteq Requests
      /\ \A s \in started : ActionOf[s] = a /\ f[s] = "pending" /\ t[s] = "idle" /\ s \notin u
  BY <1>2, <1>4 DEF Open, Books, Phase
<1>6. BooksType(n2, ids2, q2, f, t2, u)
  BY SMTT(20), <1>1, <1>4, <1>5 DEF BooksType, Tasks
<1>7. ASSUME NEW b \in Actions PROVE SlotsOf(b, n2[b], ids2[b], t2, u)
  <2>1. SlotsOf(b, n[b], ids[b], t, u)
    BY DEF Books
  <2>2. CASE b = a
    <3>1. ids2[b] = ids[a] \cup started /\ n2[b] = n[a] + k
      BY <1>1, <2>2 DEF BooksType
    <3>2. ids2[b] = Holders(b, t2, u)
      BY <1>1, <1>5, <2>1, <2>2, <3>1 DEF SlotsOf, Holders, BooksType
    <3>3. ids[a] \cap started = {} /\ IsFiniteSet(ids[a]) /\ IsFiniteSet(started)
      BY <1>1, <1>4, <1>5 DEF SlotsOf, Holders
    <3>4. Cardinality(ids[a] \cup started) = Cardinality(ids[a]) + Cardinality(started)
      BY <3>3, DisjointUnion
    <3>5. IsFiniteSet(ids[a] \cup started)
      BY <3>3, FS_Union
    <3> QED
      BY <1>1, <1>4, <2>2, <3>1, <3>2, <3>4, <3>5 DEF SlotsOf
  <2>3. CASE b # a
    <3>1. ids2[b] = ids[b] /\ n2[b] = n[b]
      BY <1>1, <2>3 DEF BooksType
    <3>2. Holders(b, t2, u) = Holders(b, t, u)
      BY <1>1, <1>5, <2>3 DEF Holders, BooksType
    <3> QED
      BY <2>1, <3>1, <3>2 DEF SlotsOf
  <2> QED
    BY <2>2, <2>3
<1>8. ASSUME NEW b \in Actions PROVE LineOf(b, q2[b], f, t2)
  <2>1. CASE b = a
    <3>1. q2[b] = rest
      BY <1>1, <2>1 DEF BooksType
    <3>2. Open(b, f, t2) = Open(b, f, t) \ started
      BY <1>1, <2>1 DEF Open, BooksType
    <3>3. Range(rest) = Open(b, f, t2)
      BY <1>2, <1>4, <2>1, <3>2
    <3>4. ASSUME NEW i \in 1 .. Len(rest)
          PROVE  Policy[rest[i]].behavior = "enqueue" /\ i <= Policy[rest[i]].maxQueued
      <4>1. rest[i] = q[a][k + i] /\ k + i \in 1 .. Len(q[a]) /\ q[a][k + i] \in Requests
        <5>1. Len(rest) = Len(q[a]) - k /\ q[a] \in Seq(Requests)
          BY <1>2, <1>4
        <5>2. k + i \in 1 .. Len(q[a]) /\ i \in 1 .. Len(q[a]) - k
          BY SMT, <5>1
        <5>3. rest[i] = q[a][k + i]
          BY <1>4, <5>2
        <5>4. q[a][k + i] \in Requests
          BY SMT, <5>1, <5>2
        <5> QED
          BY <5>2, <5>3, <5>4
      <4>2. Policy[q[a][k + i]].behavior = "enqueue" /\ k + i <= Policy[q[a][k + i]].maxQueued
        BY <1>1, <4>1 DEF LineOf
      <4>3. Policy[q[a][k + i]].maxQueued \in Nat
        BY <4>1, ActionRequestAssumption
      <4> QED
        BY SMTT(20), <4>1, <4>2, <4>3
    <3> QED
      BY <1>4, <3>1, <3>3, <3>4 DEF LineOf
  <2>2. CASE b # a
    <3>1. q2[b] = q[b]
      BY <1>1, <2>2 DEF BooksType
    <3>2. Open(b, f, t2) = Open(b, f, t)
      BY <1>1, <1>5, <2>2 DEF Open, BooksType
    <3> QED
      BY <3>1, <3>2 DEF LineOf, Books
  <2> QED
    BY <2>1, <2>2
<1>9. ASSUME NEW s \in Requests PROVE Phase(s, f, t2, u)
  BY <1>1, <1>5 DEF Books, Phase, BooksType
<1> QED
  BY <1>6, <1>7, <1>8, <1>9 DEF Books, BooksOnceBegun, rest, started

(* A task that is over gives its slot back, unless its cleanup is unconfirmed.       *)
LEMMA FinishBooks ==
  ASSUME NEW n, NEW ids, NEW q, NEW f, NEW t, NEW u, Books(n, ids, q, f, t, u),
         NEW r \in Requests, t[r] \in {"direct", "completed"}, NEW o \in Outcomes,
         NEW c, NEW l,
         r \in u => c = n[ActionOf[r]] /\ l = ids[ActionOf[r]],
         r \notin u => /\ c = IF n[ActionOf[r]] > 1 THEN n[ActionOf[r]] - 1 ELSE 0
                       /\ l = ids[ActionOf[r]] \ {r}
  PROVE  LET a == ActionOf[r]
         IN  Books([n EXCEPT ![a] = c], [ids EXCEPT ![a] = l], q,
                   [f EXCEPT ![r] = o], [t EXCEPT ![r] = "done"], u)
<1> DEFINE a == ActionOf[r]
           n2 == [n EXCEPT ![a] = c]
           ids2 == [ids EXCEPT ![a] = l]
           f2 == [f EXCEPT ![r] = o]
           t2 == [t EXCEPT ![r] = "done"]
<1>1. BooksType(n, ids, q, f, t, u) /\ a \in Actions /\ n[a] \in Nat
  BY ActionRequestAssumption DEF Books, BooksType
<1>2. o \notin {"new", "replaying", "pending"}
  BY DEF Outcomes, Rejections
<1>3. SlotsOf(a, n[a], ids[a], t, u) /\ r \in ids[a] /\ l \subseteq Requests
  BY <1>1 DEF Books, SlotsOf, Holders
<1>4. /\ r \notin u => c = n[a] - 1
      /\ c \in Nat /\ IsFiniteSet(l) /\ c = Cardinality(l)
  <2>1. CASE r \in u
    BY <1>1, <1>3, <2>1 DEF SlotsOf
  <2>2. CASE r \notin u
    <3>1. IsFiniteSet(ids[a] \ {r}) /\ Cardinality(ids[a] \ {r}) = Cardinality(ids[a]) - 1
      BY <1>3, FS_RemoveElement DEF SlotsOf
    <3>2. Cardinality(ids[a] \ {r}) \in Nat
      BY <3>1, FS_CardinalityType
    <3>3. n[a] - 1 \in Nat
      BY <1>3, <3>1, <3>2 DEF SlotsOf
    <3>4. c = n[a] - 1
      BY SMT, <1>1, <2>2, <3>3
    <3> QED
      BY <1>3, <2>2, <3>1, <3>3, <3>4 DEF SlotsOf
  <2> QED
    BY <2>1, <2>2
<1>5. BooksType(n2, ids2, q, f2, t2, u)
  BY <1>1, <1>3, <1>4 DEF BooksType, Tasks, Futures
<1>6. ASSUME NEW b \in Actions PROVE SlotsOf(b, n2[b], ids2[b], t2, u)
  <2>1. SlotsOf(b, n[b], ids[b], t, u)
    BY DEF Books
  <2>2. CASE b = a
    <3>1. ids2[b] = l /\ n2[b] = c
      BY <1>1, <2>2 DEF BooksType
    <3>2. l = Holders(a, t2, u)
      BY <1>1, <1>3 DEF SlotsOf, Holders, BooksType
    <3> QED
      BY <1>4, <2>2, <3>1, <3>2 DEF SlotsOf
  <2>3. CASE b # a
    <3>1. ids2[b] = ids[b] /\ n2[b] = n[b]
      BY <1>1, <2>3 DEF BooksType
    <3>2. Holders(b, t2, u) = Holders(b, t, u)
      BY <1>1, <2>3 DEF Holders, BooksType
    <3> QED
      BY <2>1, <3>1, <3>2 DEF SlotsOf
  <2> QED
    BY <2>2, <2>3
<1>7. ASSUME NEW b \in Actions PROVE LineOf(b, q[b], f2, t2)
  <2>1. LineOf(b, q[b], f, t)
    BY DEF Books
  <2>2. Open(b, f2, t2) = Open(b, f, t)
    BY <1>1, <1>2 DEF Open, BooksType
  <2> QED
    BY <2>1, <2>2 DEF LineOf
<1>8. ASSUME NEW s \in Requests PROVE Phase(s, f2, t2, u)
  BY <1>1, <1>2 DEF Books, Phase, BooksType
<1> QED
  BY <1>5, <1>6, <1>7, <1>8 DEF Books

(* A queued task completes its completer and keeps its slot.                         *)
LEMMA SettleBooks ==
  ASSUME NEW n, NEW ids, NEW q, NEW f, NEW t, NEW u, Books(n, ids, q, f, t, u),
         NEW r \in Requests, t[r] = "queued", NEW o \in Outcomes
  PROVE  Books(n, ids, q, [f EXCEPT ![r] = o], [t EXCEPT ![r] = "completed"], u)
<1> DEFINE f2 == [f EXCEPT ![r] = o]
           t2 == [t EXCEPT ![r] = "completed"]
<1>1. BooksType(n, ids, q, f, t, u)
  BY DEF Books
<1>2. o \notin {"new", "replaying", "pending"}
  BY DEF Outcomes, Rejections
<1>3. BooksType(n, ids, q, f2, t2, u)
  BY <1>1 DEF BooksType, Tasks, Futures
<1>4. ASSUME NEW b \in Actions PROVE Holders(b, t2, u) = Holders(b, t, u)
  BY <1>1 DEF Holders, BooksType
<1>5. ASSUME NEW b \in Actions PROVE Open(b, f2, t2) = Open(b, f, t)
  BY <1>1, <1>2 DEF Open, BooksType
<1>6. ASSUME NEW s \in Requests PROVE Phase(s, f2, t2, u)
  BY <1>1, <1>2 DEF Books, Phase, BooksType
<1> QED
  BY <1>3, <1>4, <1>5, <1>6 DEF Books, SlotsOf, LineOf

(* A running task is marked as one whose cleanup is unconfirmed.                     *)
LEMMA RetainBooks ==
  ASSUME NEW n, NEW ids, NEW q, NEW f, NEW t, NEW u, Books(n, ids, q, f, t, u),
         NEW r \in Requests, t[r] \in {"direct", "queued"}
  PROVE  Books(n, ids, q, f, t, u \cup {r})
<1>1. BooksType(n, ids, q, f, t, u \cup {r})
  BY DEF Books, BooksType
<1>2. ASSUME NEW b \in Actions PROVE Holders(b, t, u \cup {r}) = Holders(b, t, u)
  BY DEF Holders
<1>3. ASSUME NEW s \in Requests PROVE Phase(s, f, t, u \cup {r})
  BY DEF Books, Phase
<1> QED
  BY <1>1, <1>2, <1>3 DEF Books, SlotsOf

(* A request that queues is completed and leaves the line.                           *)
LEMMA LeaveBooks ==
  ASSUME NEW n, NEW ids, NEW q, NEW f, NEW t, NEW u, Books(n, ids, q, f, t, u),
         NEW r \in Requests, r \in Range(q[ActionOf[r]]), NEW o \in Outcomes
  PROVE  LET a == ActionOf[r]
         IN  Books(n, ids, [q EXCEPT ![a] = Remove(q[a], r)], [f EXCEPT ![r] = o], t, u)
<1> DEFINE a == ActionOf[r]
           q2 == [q EXCEPT ![a] = Remove(q[a], r)]
           f2 == [f EXCEPT ![r] = o]
<1>1. BooksType(n, ids, q, f, t, u) /\ a \in Actions
  BY ActionRequestAssumption DEF Books
<1>2. o \notin {"new", "replaying", "pending"}
  BY DEF Outcomes, Rejections
<1>3. LineOf(a, q[a], f, t) /\ q[a] \in Seq(Requests) /\ Injective(q[a])
  BY <1>1 DEF Books, BooksType, LineOf
<1>4. /\ Remove(q[a], r) \in Seq(Requests) /\ Injective(Remove(q[a], r))
      /\ Range(Remove(q[a], r)) = Range(q[a]) \ {r}
  BY <1>3, RemoveFromQueue
<1>5. f[r] = "pending" /\ t[r] = "idle"
  BY <1>3 DEF LineOf, Open
<1>6. BooksType(n, ids, q2, f2, t, u)
  BY <1>1, <1>4 DEF BooksType, Futures
<1>7. ASSUME NEW b \in Actions PROVE LineOf(b, q2[b], f2, t)
  <2>1. CASE b = a
    <3>1. q2[b] = Remove(q[a], r)
      BY <1>1, <2>1 DEF BooksType
    <3>2. Open(b, f2, t) = Open(b, f, t) \ {r}
      BY <1>1, <1>2, <2>1 DEF Open, BooksType
    <3>3. \A i \in 1 .. Len(Remove(q[a], r)) :
            \E j \in 1 .. Len(q[a]) : i <= j /\ Remove(q[a], r)[i] = q[a][j]
      BY SMTT(20), <1>3, RemoveKeepsOrder
    <3>4. ASSUME NEW i \in 1 .. Len(q2[b])
          PROVE  Policy[q2[b][i]].behavior = "enqueue" /\ i <= Policy[q2[b][i]].maxQueued
      <4>1. PICK j \in 1 .. Len(q[a]) : i <= j /\ q2[b][i] = q[a][j]
        BY <3>1, <3>3
      <4>2. Policy[q[a][j]].behavior = "enqueue" /\ j <= Policy[q[a][j]].maxQueued
        BY <1>3 DEF LineOf
      <4>3. Policy[q[a][j]].maxQueued \in Nat /\ i \in Nat
        <5>1. q[a][j] \in Requests /\ Len(q2[b]) \in Nat
          BY SMT, <1>3, <1>4, <3>1
        <5>2. Policy[q[a][j]].maxQueued \in Nat
          BY <5>1, ActionRequestAssumption
        <5>3. i \in Nat
          BY SMT, <5>1
        <5> QED
          BY <5>2, <5>3
      <4> QED
        BY SMTT(20), <4>1, <4>2, <4>3
    <3> QED
      BY <1>3, <1>4, <2>1, <3>1, <3>2, <3>4 DEF LineOf
  <2>2. CASE b # a
    <3>1. q2[b] = q[b]
      BY <1>1, <2>2 DEF BooksType
    <3>2. Open(b, f2, t) = Open(b, f, t)
      BY <1>1, <2>2 DEF Open, BooksType
    <3> QED
      BY <3>1, <3>2 DEF LineOf, Books
  <2> QED
    BY <2>1, <2>2
<1>8. ASSUME NEW s \in Requests PROVE Phase(s, f2, t, u)
  BY <1>1, <1>2, <1>5 DEF Books, Phase, BooksType
<1> QED
  BY <1>6, <1>7, <1>8 DEF Books

(* Everyone who queues is completed, and the lines are emptied.                      *)
LEMMA ClearBooks ==
  ASSUME NEW n, NEW ids, NEW q, NEW f, NEW t, NEW u, Books(n, ids, q, f, t, u),
         NEW o \in Outcomes
  PROVE  Books(n, ids, [a \in Actions |-> <<>>],
               [r \in Requests |-> IF r \in Range(q[ActionOf[r]]) THEN o ELSE f[r]], t, u)
<1> DEFINE q2 == [a \in Actions |-> <<>>]
           f2 == [r \in Requests |-> IF r \in Range(q[ActionOf[r]]) THEN o ELSE f[r]]
<1>1. BooksType(n, ids, q, f, t, u)
  BY DEF Books
<1>2. o \notin {"new", "replaying", "pending"}
  BY DEF Outcomes, Rejections
<1>3. ASSUME NEW r \in Requests
      PROVE  r \in Range(q[ActionOf[r]]) <=> f[r] = "pending" /\ t[r] = "idle"
  BY SMT, ActionRequestAssumption DEF Books, LineOf, Open
<1>4. BooksType(n, ids, q2, f2, t, u)
  BY SMT, <1>1 DEF BooksType, Futures
<1>5. ASSUME NEW b \in Actions PROVE LineOf(b, q2[b], f2, t)
  <2>1. q2[b] = <<>> /\ Len(<<>>) = 0
    OBVIOUS
  <2>2. Open(b, f2, t) = {}
    BY <1>2, <1>3 DEF Open
  <2>3. Injective(<<>>) /\ 1 .. Len(<<>>) = {}
    BY SMT, <2>1 DEF Injective
  <2> QED
    BY <2>1, <2>2, <2>3, EmptyQueue DEF LineOf
<1>6. ASSUME NEW s \in Requests PROVE Phase(s, f2, t, u)
  BY <1>1, <1>2, <1>3 DEF Books, Phase, BooksType
<1> QED
  BY <1>4, <1>5, <1>6 DEF Books

(* A request that never began is answered, or waits for the answer to another.       *)
LEMMA AnswerBooks ==
  ASSUME NEW n, NEW ids, NEW q, NEW f, NEW t, NEW u, Books(n, ids, q, f, t, u),
         NEW r \in Requests, f[r] \in {"new", "replaying"}, NEW o \in Outcomes \cup {"replaying"}
  PROVE  Books(n, ids, q, [f EXCEPT ![r] = o], t, u)
<1> DEFINE f2 == [f EXCEPT ![r] = o]
<1>1. BooksType(n, ids, q, f, t, u)
  BY DEF Books
<1>2. o \notin {"new", "pending"}
  BY DEF Outcomes, Rejections
<1>3. BooksType(n, ids, q, f2, t, u)
  BY <1>1 DEF BooksType, Futures
<1>4. ASSUME NEW b \in Actions PROVE Open(b, f2, t) = Open(b, f, t)
  BY <1>1, <1>2 DEF Open, BooksType
<1>5. ASSUME NEW s \in Requests PROVE Phase(s, f2, t, u)
  BY <1>1, <1>2 DEF Books, Phase, BooksType
<1> QED
  BY <1>3, <1>4, <1>5 DEF Books, LineOf

-----------------------------------------------------------------------------

\* When the loop of _drain stops, with k requests taken from queue q.
Stops(q, n, ids, k) ==
  /\ k > 0 => ids \cap unconfirmed = {}
  /\ \A j \in 1 .. k : n + j - 1 < Policy[q[j]].maxConcurrent
  /\ k < Len(q) => ids \cap unconfirmed # {} \/ n + k >= Policy[q[k + 1]].maxConcurrent

(* The loop of _drain stops: at once when a cleanup is unconfirmed, otherwise at the *)
(* first request that finds its limit reached, or at the end of the queue.           *)
LEMMA StartableStops ==
  ASSUME NEW a, NEW q \in Seq(Requests), NEW n \in Nat, NEW ids
  PROVE  /\ Startable(a, q, n, ids) \in 0 .. Len(q)
         /\ Stops(q, n, ids, Startable(a, q, n, ids))
<1>1. Len(q) \in Nat /\ \A j \in 1 .. Len(q) : q[j] \in Requests /\ Policy[q[j]].maxConcurrent \in Nat
  BY SMT, ActionRequestAssumption
<1>2. \E k \in 0 .. Len(q) : Stops(q, n, ids, k)
  <2>1. CASE ids \cap unconfirmed # {}
    <3>1. 0 \in 0 .. Len(q) /\ Stops(q, n, ids, 0)
      BY SMT, <1>1, <2>1 DEF Stops
    <3> QED
      BY <3>1
  <2>2. CASE ids \cap unconfirmed = {}
    <3> DEFINE Ends == {k \in 0 .. Len(q) : k < Len(q) => n + k >= Policy[q[k + 1]].maxConcurrent}
    <3>1. Ends \in SUBSET Nat /\ Len(q) \in Ends
      BY SMT, <1>1
    <3> HIDE DEF Ends
    <3>2. PICK k \in Ends : \A m \in Ends : k <= m
      BY <3>1, LeastNumber
    <3>3. k \in 0 .. Len(q) /\ (k < Len(q) => n + k >= Policy[q[k + 1]].maxConcurrent)
      BY DEF Ends
    <3>4. ASSUME NEW j \in 1 .. k PROVE n + j - 1 < Policy[q[j]].maxConcurrent
      <4>1. j - 1 \in 0 .. Len(q) /\ j - 1 < Len(q) /\ j - 1 < k /\ (j - 1) + 1 = j
        BY SMT, <1>1, <3>3
      <4>2. j - 1 \notin Ends
        BY SMTT(20), <3>1, <3>2, <3>3, <4>1
      <4>3. ~(n + (j - 1) >= Policy[q[j]].maxConcurrent)
        BY <4>1, <4>2 DEF Ends
      <4>4. Policy[q[j]].maxConcurrent \in Nat
        BY SMT, <1>1, <3>3
      <4> QED
        BY SMTT(20), <4>3, <4>4
    <3>5. Stops(q, n, ids, k)
      BY <2>2, <3>3, <3>4 DEF Stops
    <3> QED
      BY <3>3, <3>5
  <2> QED
    BY <2>1, <2>2
<1>3. Startable(a, q, n, ids) = CHOOSE k \in 0 .. Len(q) : Stops(q, n, ids, k)
  BY DEF Startable, Stops
<1> QED
  BY <1>2, <1>3

-----------------------------------------------------------------------------

\* The first in the line of action a is turned down by _canRunNow.
Waits(a, q, n, ids, u) ==
  q[a] # <<>> => ids[a] \cap u # {} \/ n[a] >= Policy[Head(q[a])].maxConcurrent

\* Those that queue for action a agree on its limit.
Agree(a) == \A r, s \in Queuing(a) : Policy[r].maxConcurrent = Policy[s].maxConcurrent

Booked == Books(running, runningIds, pending, future, task, unconfirmed)

Rested ==
  /\ idempotent \in [Keys -> Requests \cup {NoRequest}]
  /\ replayOf \in [Requests -> Requests \cup {NoRequest}]
  /\ disposed \in BOOLEAN
  /\ maintenance \in Operations \cup {NoOperation}
  /\ drained \in {"absent", "pending", "complete"}
  /\ shutdown \in {"none", "waiting", "success", "timeout"}
  /\ idleWaiter \in [Waiters -> {"none", "waiting", "released", "success", "timeout"}]

\* The future of a request that is open is the one its key finds.
Keyed == \A r \in Requests : future[r] = "pending" /\ Key[r] # NoKey => idempotent[Key[r]] = r

Closing ==
  /\ disposed => NothingPending(pending)
  /\ drained # "absent" => disposed
  /\ drained = "complete" => Idle(running)

Waking == \A a \in Actions : Agree(a) => Waits(a, pending, running, runningIds, unconfirmed)

(* The inductive invariant.                                                          *)
Inv == Booked /\ Rested /\ Keyed /\ Closing /\ Waking

(* The queue starts with its books in order.                                         *)
LEMMA InitInv == Init => Inv
<1> SUFFICES ASSUME Init PROVE Inv
  OBVIOUS
<1>1. BooksType(running, runningIds, pending, future, task, unconfirmed)
  BY SMT DEF Init, BooksType, Futures, Tasks
<1>2. ASSUME NEW a \in Actions PROVE SlotsOf(a, running[a], runningIds[a], task, unconfirmed)
  <2>1. runningIds[a] = {} /\ running[a] = 0 /\ Holders(a, task, unconfirmed) = {}
    BY DEF Init, Holders
  <2> QED
    BY <2>1, FS_EmptySet DEF SlotsOf
<1>3. ASSUME NEW a \in Actions PROVE LineOf(a, pending[a], future, task)
  <2>1. pending[a] = <<>> /\ Len(<<>>) = 0 /\ Open(a, future, task) = {}
    BY DEF Init, Open
  <2>2. Injective(<<>>) /\ 1 .. Len(<<>>) = {}
    BY SMT, <2>1 DEF Injective
  <2> QED
    BY <2>1, <2>2, EmptyQueue DEF LineOf
<1>4. ASSUME NEW r \in Requests PROVE Phase(r, future, task, unconfirmed)
  BY DEF Init, Phase
<1>5. Booked
  BY <1>1, <1>2, <1>3, <1>4 DEF Booked, Books
<1>6. Rested /\ Keyed /\ Closing /\ Waking
  BY DEF Init, Rested, Keyed, Closing, Waking, Waits, NothingPending, Idle
<1> QED
  BY <1>5, <1>6 DEF Inv

-----------------------------------------------------------------------------

(* What _drain begins, it books.                                                     *)
LEMMA BeginStep ==
  ASSUME BooksType(running, runningIds, pending, future, task, unconfirmed),
         NEW a \in Actions, NEW q, NEW k \in 0 .. Len(q), NEW n, NEW ids, NEW tasks, NEW f,
         Books([running EXCEPT ![a] = n], [runningIds EXCEPT ![a] = ids],
               [pending EXCEPT ![a] = q], f, tasks, unconfirmed),
         Begin(a, q, k, n, ids, tasks)
  PROVE  Books(running', runningIds', pending', f, task', unconfirmed)
<1> DEFINE n1 == [running EXCEPT ![a] = n]
           ids1 == [runningIds EXCEPT ![a] = ids]
           q1 == [pending EXCEPT ![a] = q]
           started == {q[j] : j \in 1 .. k}
<1>1. n1[a] = n /\ ids1[a] = ids /\ q1[a] = q
  BY DEF BooksType
<1>2. /\ running' = [n1 EXCEPT ![a] = n + k]
      /\ runningIds' = [ids1 EXCEPT ![a] = ids \cup started]
      /\ pending' = [q1 EXCEPT ![a] = SubSeq(q, k + 1, Len(q))]
      /\ task' = [s \in Requests |-> IF s \in started THEN "queued" ELSE tasks[s]]
  BY DEF Begin, BooksType
<1> HIDE DEF n1, ids1, q1
<1>3. Books(n1, ids1, q1, f, tasks, unconfirmed)
  BY DEF n1, ids1, q1
<1>4. k \in 0 .. Len(q1[a])
  BY <1>1
<1>5. BooksOnceBegun(n1, ids1, q1, f, tasks, unconfirmed, a, k)
  BY <1>3, <1>4, BeginBooks
<1> QED
  BY <1>1, <1>2, <1>5 DEF BooksOnceBegun

(* After _drain the first in the line, if any, cannot run.                           *)
LEMMA BeginWakes ==
  ASSUME BooksType(running, runningIds, pending, future, task, unconfirmed),
         NEW a \in Actions, NEW q \in Seq(Requests), NEW k \in 0 .. Len(q),
         NEW n \in Nat, NEW ids, NEW tasks,
         Begin(a, q, k, n, ids, tasks), Stops(q, n, ids, k)
  PROVE  Waits(a, pending', running', runningIds', unconfirmed)
<1> SUFFICES ASSUME pending'[a] # <<>>
             PROVE  \/ runningIds'[a] \cap unconfirmed # {}
                    \/ running'[a] >= Policy[Head(pending'[a])].maxConcurrent
  BY DEF Waits
<1>1. /\ running'[a] = n + k /\ ids \subseteq runningIds'[a]
      /\ pending'[a] = SubSeq(q, k + 1, Len(q))
  BY DEF Begin, BooksType
<1>2. k < Len(q)
  <2>1. SubSeq(q, k + 1, Len(q)) # <<>>
    BY <1>1
  <2>2. Len(SubSeq(q, k + 1, Len(q))) = Len(q) - k
    BY SMT
  <2> QED
    BY SMT, <2>1, <2>2
<1>3. Head(pending'[a]) = q[k + 1]
  BY SMT, <1>1, <1>2
<1>4. ids \cap unconfirmed # {} \/ n + k >= Policy[q[k + 1]].maxConcurrent
  BY <1>2 DEF Stops
<1> QED
  BY <1>1, <1>3, <1>4

(* _runNow, _enqueuePending, or the refusal of a request keep the books.             *)
LEMMA ScheduleStep ==
  ASSUME Inv, NEW r \in Requests, future[r] = "new", Schedule(r), ~HasUnconfirmedCleanup(ActionOf[r]),
         unconfirmed' = unconfirmed
  PROVE  /\ Booked' /\ Waking'
         /\ future' \in [Requests -> Futures]
         /\ \A s \in Requests : s # r => future'[s] = future[s]
<1> DEFINE a == ActionOf[r]
<1>1. /\ Booked /\ Waking /\ a \in Actions
      /\ BooksType(running, runningIds, pending, future, task, unconfirmed)
      /\ Policy[r].maxConcurrent \in Nat /\ Policy[r].behavior \in Behaviors
  BY ActionRequestAssumption DEF Inv, Booked, Books
<1>2. /\ pending[a] \in Seq(Requests) /\ running[a] \in Nat
      /\ running = [running EXCEPT ![a] = running[a]]
      /\ runningIds = [runningIds EXCEPT ![a] = runningIds[a]]
      /\ pending = [pending EXCEPT ![a] = pending[a]]
  BY <1>1 DEF BooksType
<1> USE DEF a
<1>3. CASE RunNow(r)
  <2> DEFINE n == running[a] + 1
             ids == runningIds[a] \cup {r}
             f == [future EXCEPT ![r] = "pending"]
             t == [task EXCEPT ![r] = "direct"]
  <2>1. Begin(a, pending[a], 0, n, ids, t) /\ future' = f
    BY <1>3 DEF RunNow
  <2>2. Books([running EXCEPT ![a] = n], [runningIds EXCEPT ![a] = ids], pending, f, t, unconfirmed)
    BY <1>1, DirectBooks DEF Booked
  <2>3. 0 \in 0 .. Len(pending[a])
    BY SMT, <1>2
  <2>4. Books(running', runningIds', pending', f, task', unconfirmed)
    <3> HIDE DEF a, n, ids, f, t
    <3>1. Books([running EXCEPT ![a] = n], [runningIds EXCEPT ![a] = ids],
                [pending EXCEPT ![a] = pending[a]], f, t, unconfirmed)
      BY <1>2, <2>2
    <3> QED
      BY <1>1, <2>1, <2>3, <3>1, BeginStep
  <2>5. Booked'
    BY <2>1, <2>4 DEF Booked
  <2>6. Waking'
    <3> SUFFICES ASSUME NEW b \in Actions, Agree(b)
                 PROVE  Waits(b, pending', running', runningIds', unconfirmed)
      BY DEF Waking, Agree, Queuing
    <3>1. Waits(b, pending, running, runningIds, unconfirmed)
      BY <1>1 DEF Waking
    <3>2. CASE b = a
      <4>1. /\ running'[b] = running[b] + 1 /\ runningIds[b] \subseteq runningIds'[b]
            /\ pending'[b] = SubSeq(pending[b], 1, Len(pending[b]))
        BY SMTT(20), <1>1, <1>2, <2>1, <3>2 DEF Begin, BooksType
      <4>2. pending'[b] = pending[b]
        BY SMTT(20), <1>2, <3>2, <4>1
      <4>3. pending[b] # <<>> => Policy[Head(pending[b])].maxConcurrent \in Nat
        BY SMTT(20), <1>2, <3>2, ActionRequestAssumption
      <4> QED
        BY SMTT(20), <1>2, <3>1, <3>2, <4>1, <4>2, <4>3 DEF Waits
    <3>3. CASE b # a
      <4>1. running'[b] = running[b] /\ runningIds'[b] = runningIds[b] /\ pending'[b] = pending[b]
        BY <1>1, <2>1, <3>3 DEF Begin, BooksType
      <4> QED
        BY <3>1, <4>1 DEF Waits
    <3> QED
      BY <3>2, <3>3
  <2> QED
    BY <1>1, <2>1, <2>5, <2>6 DEF BooksType, Futures
<1>4. CASE Policy[r].behavior = "enqueue" /\ EnqueuePending(r)
  <2> DEFINE q == Append(pending[a], r)
             k == Startable(a, q, running[a], runningIds[a])
             f == [future EXCEPT ![r] = "pending"]
  <2>1. /\ Begin(a, q, k, running[a], runningIds[a], task) /\ future' = f
        /\ Len(pending[a]) < Policy[r].maxQueued
    BY <1>4 DEF EnqueuePending
  <2>2. Books(running, runningIds, [pending EXCEPT ![a] = q], f, task, unconfirmed)
    BY <1>1, <1>4, <2>1, JoinBooks DEF Booked
  <2>3. q \in Seq(Requests)
    BY SMT, <1>2
  <2>4. k \in 0 .. Len(q) /\ Stops(q, running[a], runningIds[a], k)
    BY <1>2, <2>3, StartableStops
  <2> HIDE DEF a, q, k, f
  <2>5. Books(running', runningIds', pending', f, task', unconfirmed)
    <3>1. Books([running EXCEPT ![a] = running[a]], [runningIds EXCEPT ![a] = runningIds[a]],
                [pending EXCEPT ![a] = q], f, task, unconfirmed)
      BY <1>2, <2>2
    <3> QED
      BY <1>1, <2>1, <2>4, <3>1, BeginStep
  <2>6. Booked'
    BY <2>1, <2>5 DEF Booked
  <2>7. Waking'
    <3> SUFFICES ASSUME NEW b \in Actions, Agree(b)
                 PROVE  Waits(b, pending', running', runningIds', unconfirmed)
      BY DEF Waking, Agree, Queuing
    <3>1. CASE b = a
      BY <1>1, <1>2, <2>1, <2>3, <2>4, <3>1, BeginWakes
    <3>2. CASE b # a
      <4>1. running'[b] = running[b] /\ runningIds'[b] = runningIds[b] /\ pending'[b] = pending[b]
        BY <1>1, <2>1, <3>2 DEF Begin, BooksType
      <4> QED
        BY <1>1, <4>1 DEF Waits, Waking
    <3> QED
      BY <3>1, <3>2
  <2> QED
    BY <1>1, <2>1, <2>6, <2>7 DEF BooksType, Futures, f
<1>5. ASSUME NEW o \in Rejections, Refuse(r, o)
      PROVE  /\ Booked' /\ Waking'
             /\ future' \in [Requests -> Futures]
             /\ \A s \in Requests : s # r => future'[s] = future[s]
  <2>1. o \in Outcomes \cup {"replaying"}
    BY DEF Outcomes
  <2>2. Books(running, runningIds, pending, [future EXCEPT ![r] = o], task, unconfirmed)
    BY <1>1, <2>1, AnswerBooks DEF Booked
  <2>3. Booked' /\ Waking'
    BY <1>1, <1>5, <2>2 DEF Refuse, Booked, slotVars, Waking, Waits, Agree, Queuing
  <2> QED
    BY <1>1, <1>5, <2>1, <2>3 DEF Refuse, BooksType, Futures
<1>6. \/ RunNow(r)
      \/ Policy[r].behavior = "enqueue" /\ EnqueuePending(r)
      \/ \E o \in Rejections : Refuse(r, o)
  <2>1. \A b \in DOMAIN Turned : Turned[b] \in Rejections
    BY SMT DEF Turned, Rejections
  <2>2. "full" \in Rejections
    BY DEF Rejections
  <2> QED
    BY <2>1, <2>2 DEF Schedule
<1> QED
  BY <1>3, <1>4, <1>5, <1>6

(* enqueue of a new request keeps the invariant.                                     *)
LEMMA EnqueueNewInv ==
  ASSUME Inv, NEW r \in Requests, NEW internal \in BOOLEAN, EnqueueNew(r, internal)
  PROVE  Inv'
<1>1. /\ future[r] = "new" /\ Schedule(r) /\ Store(r) /\ Existing(r) = NoRequest
      /\ unconfirmed' = unconfirmed
      /\ UNCHANGED <<replayOf, shutdownVars, maintenance, idleWaiter>>
  BY DEF EnqueueNew, Unscheduled
<1>2. ~HasUnconfirmedCleanup(ActionOf[r]) /\ ~disposed
  BY DEF EnqueueNew, DisposedFailure
<1>3. /\ Booked' /\ Waking'
      /\ future' \in [Requests -> Futures]
      /\ \A s \in Requests : s # r => future'[s] = future[s]
  BY <1>1, <1>2, ScheduleStep
<1>4. Rested /\ Key \in [Requests -> Keys \cup {NoKey}] /\ NoRequest \notin Requests
  BY ActionRequestAssumption DEF Inv
<1>5. Rested'
  BY <1>1, <1>4 DEF Rested, Store, shutdownVars
<1>6. Keyed'
  <2> SUFFICES ASSUME NEW s \in Requests, future'[s] = "pending", Key[s] # NoKey
               PROVE  idempotent'[Key[s]] = s
    BY DEF Keyed
  <2>1. CASE s = r
    BY <1>1, <1>4, <2>1 DEF Store, Rested
  <2>2. CASE s # r
    <3>1. idempotent[Key[s]] = s
      BY <1>3, <2>2 DEF Inv, Keyed
    <3>2. Key[s] # Key[r]
      BY <1>1, <1>4, <3>1 DEF Existing
    <3> QED
      BY <1>1, <1>4, <3>1, <3>2 DEF Store, Rested
  <2> QED
    BY <2>1, <2>2
<1>7. Closing'
  BY <1>1, <1>2 DEF Inv, Closing, shutdownVars
<1> QED
  BY <1>3, <1>5, <1>6, <1>7 DEF Inv

(* The end of a task, which frees its slot and runs _drain, keeps the invariant.     *)
LEMMA ReleaseInv ==
  ASSUME Inv, NEW r \in Requests, task[r] \in {"direct", "completed"}, NEW o \in Outcomes,
         future' = [future EXCEPT ![r] = o], ReleaseSlot(r),
         UNCHANGED <<unconfirmed, idempotent, replayOf, disposed, shutdown, maintenance>>
  PROVE  Inv'
<1> DEFINE a == ActionOf[r]
           c == EndRunning(r).count
           l == EndRunning(r).ids
           f == [future EXCEPT ![r] = o]
           t == [task EXCEPT ![r] = "done"]
           counts == [running EXCEPT ![a] = c]
           k == IF disposed THEN 0 ELSE Startable(a, pending[a], c, l)
<1>1. /\ Booked /\ Rested /\ Keyed /\ Closing /\ Waking /\ a \in Actions
      /\ BooksType(running, runningIds, pending, future, task, unconfirmed)
  BY ActionRequestAssumption DEF Inv, Booked, Books
<1>2. /\ Begin(a, pending[a], k, c, l, t)
      /\ CompleteIdleWaiters(counts)
      /\ drained' = CompleteDrainedIfIdle(drained, counts, pending)
  BY DEF ReleaseSlot
<1>3. /\ r \in unconfirmed => c = running[a] /\ l = runningIds[a]
      /\ r \notin unconfirmed => /\ c = IF running[a] > 1 THEN running[a] - 1 ELSE 0
                                 /\ l = runningIds[a] \ {r}
  BY DEF EndRunning
<1> HIDE DEF c, l
<1>4. Books([running EXCEPT ![a] = c], [runningIds EXCEPT ![a] = l], pending, f, t, unconfirmed)
  BY <1>1, <1>3, FinishBooks DEF Booked
<1>5. pending[a] \in Seq(Requests) /\ c \in Nat /\ pending = [pending EXCEPT ![a] = pending[a]]
  <2>1. [running EXCEPT ![a] = c] \in [Actions -> Nat] /\ [running EXCEPT ![a] = c][a] = c
    BY <1>1, <1>4 DEF Books, BooksType
  <2> QED
    BY <1>1, <2>1 DEF BooksType
<1>6. k \in 0 .. Len(pending[a])
  BY SMTT(20), <1>5, StartableStops
<1> HIDE DEF a, f, t, counts
<1>7. disposed => k = 0 /\ pending[a] = <<>>
  BY <1>1 DEF Closing, NothingPending
<1>8. ~disposed => Stops(pending[a], c, l, k)
  BY <1>5, StartableStops
<1> HIDE DEF k
<1>9. Booked'
  <2>1. Books([running EXCEPT ![a] = c], [runningIds EXCEPT ![a] = l],
              [pending EXCEPT ![a] = pending[a]], f, t, unconfirmed)
    BY <1>4, <1>5
  <2>2. Books(running', runningIds', pending', f, task', unconfirmed)
    BY <1>1, <1>2, <1>6, <2>1, BeginStep
  <2> QED
    BY <2>2 DEF Booked, f
<1>10. Rested'
  <2>1. drained' \in {"absent", "pending", "complete"}
    BY <1>1, <1>2 DEF CompleteDrainedIfIdle, Rested
  <2>2. idleWaiter' \in [Waiters -> {"none", "waiting", "released", "success", "timeout"}]
    BY <1>1, <1>2 DEF CompleteIdleWaiters, Rested
  <2> QED
    BY <1>1, <2>1, <2>2 DEF Rested
<1>11. Keyed'
  <2>1. o # "pending"
    BY DEF Outcomes, Rejections
  <2> QED
    BY <1>1, <2>1 DEF Keyed, BooksType
<1>12. Closing'
  <2>1. \A b \in Actions : b # a => pending'[b] = pending[b]
    BY <1>1, <1>2 DEF Begin, BooksType
  <2>2. disposed => pending'[a] = <<>>
    <3>1. pending'[a] = SubSeq(pending[a], k + 1, Len(pending[a]))
      BY <1>1, <1>2 DEF Begin, BooksType
    <3>2. disposed => SubSeq(<<>>, 0 + 1, Len(<<>>)) = <<>>
      BY SMT
    <3> QED
      BY <1>7, <3>1, <3>2
  <2>3. disposed => NothingPending(pending')
    BY <1>1, <2>1, <2>2 DEF Closing, NothingPending
  <2>4. disposed => running' = counts
    BY SMTT(20), <1>1, <1>2, <1>5, <1>7 DEF Begin, BooksType, counts
  <2>5. drained' # "absent" => disposed
    BY <1>1, <1>2 DEF Closing, CompleteDrainedIfIdle
  <2>6. ASSUME drained' = "complete" PROVE Idle(running')
    <3>1. CASE drained = "pending"
      <4>1. Idle(counts)
        BY <1>2, <2>6, <3>1 DEF CompleteDrainedIfIdle
      <4> QED
        BY <2>4, <2>5, <2>6, <4>1
    <3>2. CASE drained # "pending"
      <4>1. drained = "complete" /\ Idle(running)
        BY <1>1, <1>2, <2>6, <3>2 DEF CompleteDrainedIfIdle, Closing
      <4>2. running[a] = 0
        BY <1>1, <4>1 DEF Idle
      <4>3. c = 0
        BY SMTT(20), <1>3, <4>2 DEF a
      <4>4. Idle(counts)
        BY <1>1, <4>1, <4>3 DEF Idle, counts, BooksType
      <4> QED
        BY <2>4, <2>5, <2>6, <4>4
    <3> QED
      BY <3>1, <3>2
  <2> QED
    BY <2>3, <2>5, <2>6 DEF Closing
<1>13. Waking'
  <2> SUFFICES ASSUME NEW b \in Actions, Agree(b)
               PROVE  Waits(b, pending', running', runningIds', unconfirmed)
    BY DEF Waking, Agree, Queuing
  <2>1. CASE disposed
    <3>1. pending'[b] = <<>>
      BY <1>12, <2>1 DEF Closing, NothingPending
    <3> QED
      BY <3>1 DEF Waits
  <2>2. CASE ~disposed /\ b = a
    BY <1>1, <1>2, <1>5, <1>6, <1>8, <2>2, BeginWakes
  <2>3. CASE b # a
    <3>1. running'[b] = running[b] /\ runningIds'[b] = runningIds[b] /\ pending'[b] = pending[b]
      BY <1>1, <1>2, <2>3 DEF Begin, BooksType
    <3> QED
      BY <1>1, <3>1 DEF Waits, Waking
  <2> QED
    BY <2>1, <2>2, <2>3
<1> QED
  BY <1>9, <1>10, <1>11, <1>12, <1>13 DEF Inv

(* The end of a task that ran at once keeps the invariant.                           *)
LEMMA DirectTaskSettlesInv ==
  ASSUME Inv, NEW r \in Requests, DirectTaskSettles(r)
  PROVE  Inv'
<1>1. PICK o \in {"result", "unexpectedError"} : future' = [future EXCEPT ![r] = o]
  BY DEF DirectTaskSettles, Settle
<1>2. o \in Outcomes
  BY DEF Outcomes
<1>3. /\ task[r] \in {"direct", "completed"} /\ ReleaseSlot(r)
      /\ UNCHANGED <<unconfirmed, idempotent, replayOf, disposed, shutdown, maintenance>>
  BY DEF DirectTaskSettles
<1> QED
  BY <1>1, <1>2, <1>3, ReleaseInv

(* The whenComplete callback of a queued task keeps the invariant.                   *)
LEMMA QueuedTaskReleasesInv ==
  ASSUME Inv, NEW r \in Requests, QueuedTaskReleases(r)
  PROVE  Inv'
<1>1. /\ task[r] = "completed" /\ ReleaseSlot(r) /\ future' = future
      /\ UNCHANGED <<unconfirmed, idempotent, replayOf, disposed, shutdown, maintenance>>
  BY DEF QueuedTaskReleases
<1>2. future \in [Requests -> Futures] /\ Phase(r, future, task, unconfirmed)
  BY DEF Inv, Booked, Books, BooksType
<1>3. future[r] \in Outcomes
  BY <1>1, <1>2 DEF Phase, Futures
<1>4. future' = [future EXCEPT ![r] = future[r]]
  BY <1>1, <1>2
<1> QED
  BY <1>1, <1>3, <1>4, ReleaseInv

(* A change of the books that leaves the rest of the queue alone.                    *)
LEMMA BooksOnlyInv ==
  ASSUME Inv, Booked', UNCHANGED <<running, runningIds, pending, unconfirmed>>, Rested',
         UNCHANGED <<disposed, drained>>,
         \A s \in Requests : future'[s] = "pending" => future[s] = "pending",
         \A s \in Requests : future'[s] = "pending" /\ Key[s] # NoKey =>
                               idempotent'[Key[s]] = idempotent[Key[s]]
  PROVE  Inv'
<1>1. Keyed'
  BY DEF Inv, Keyed
<1>2. Closing' /\ Waking'
  BY DEF Inv, Closing, Waking, Waits, NothingPending, Idle, Agree, Queuing
<1> QED
  BY <1>1, <1>2 DEF Inv

(* Replaying a request, and turning one away, keep the invariant.                    *)
LEMMA AnswerInv ==
  ASSUME Inv, NEW r \in Requests, future[r] \in {"new", "replaying"},
         NEW o \in Outcomes \cup {"replaying"}, future' = [future EXCEPT ![r] = o], Rested',
         UNCHANGED <<slotVars, unconfirmed, pending, idempotent, task, disposed, drained>>
  PROVE  Inv'
<1>1. future \in [Requests -> Futures] /\ o # "pending"
  BY DEF Inv, Booked, Books, BooksType, Outcomes, Rejections
<1>2. Books(running, runningIds, pending, [future EXCEPT ![r] = o], task, unconfirmed)
  BY AnswerBooks DEF Inv, Booked
<1>3. Booked'
  BY <1>2 DEF Booked, slotVars
<1>4. \A s \in Requests : future'[s] = "pending" => future[s] = "pending"
  BY <1>1
<1> QED
  BY <1>3, <1>4, BooksOnlyInv DEF slotVars

(* enqueue of a request that replays another one.                                    *)
LEMMA EnqueueReplayInv ==
  ASSUME Inv, NEW r \in Requests, NEW internal \in BOOLEAN, EnqueueReplay(r, internal)
  PROVE  Inv'
<1>1. Existing(r) \in Requests \cup {NoRequest}
  BY SMT, ActionRequestAssumption DEF Inv, Rested, Existing
<1>2. Rested'
  BY <1>1 DEF Inv, Rested, EnqueueReplay, shutdownVars
<1> QED
  BY <1>2, AnswerInv DEF EnqueueReplay, shutdownVars

(* enqueue of a request that is turned away.                                         *)
LEMMA EnqueueRefusedInv ==
  ASSUME Inv, NEW r \in Requests, NEW internal \in BOOLEAN, EnqueueRefused(r, internal)
  PROVE  Inv'
<1>1. DisposedFailure(ActionOf[r], internal) \in Outcomes \cup {"replaying"}
  BY DEF EnqueueRefused, DisposedFailure, Outcomes, Rejections
<1>2. Rested'
  BY DEF Inv, Rested, EnqueueRefused, Unscheduled, shutdownVars
<1> QED
  BY <1>1, <1>2, AnswerInv DEF EnqueueRefused, Refuse, Unscheduled, shutdownVars

(* A replayed request returns.                                                       *)
LEMMA ReplayReturnsInv ==
  ASSUME Inv, NEW r \in Requests, ReplayReturns(r)
  PROVE  Inv'
<1>1. future[replayOf[r]] \in Outcomes \cup {"replaying"}
  BY DEF ReplayReturns
<1>2. Rested'
  BY DEF Inv, Rested, ReplayReturns, shutdownVars
<1> QED
  BY <1>1, <1>2, AnswerInv DEF ReplayReturns, shutdownVars

(* The eviction of a stored future keeps the invariant: the request whose future it  *)
(* was is closed, and no other open request has its key.                             *)
LEMMA EvictInv ==
  ASSUME Inv, NEW k \in Keys, Evict(k)
  PROVE  Inv'
<1>1. Rested'
  BY DEF Inv, Rested, Evict, shutdownVars
<1>2. Booked'
  BY DEF Inv, Booked, Evict, slotVars
<1>3. ASSUME NEW s \in Requests, future'[s] = "pending", Key[s] # NoKey
      PROVE  idempotent'[Key[s]] = idempotent[Key[s]]
  <2>1. idempotent[Key[s]] = s
    BY <1>3 DEF Inv, Keyed, Evict
  <2>2. Key[s] # k
    BY <1>3, <2>1 DEF Evict, Outcomes, Rejections
  <2> QED
    <3>1. idempotent' = [idempotent EXCEPT ![k] = NoRequest] /\ DOMAIN idempotent = Keys
      BY DEF Inv, Rested, Evict
    <3>2. Key[s] \in Keys
      BY <1>3, ActionRequestAssumption
    <3> QED
      BY <2>2, <3>1, <3>2
<1> QED
  BY <1>1, <1>2, <1>3, BooksOnlyInv DEF Evict, slotVars, shutdownVars

(* Who is first in a line queues for its action.                                     *)
LEMMA HeadQueues ==
  ASSUME NEW a \in Actions, NEW q \in Seq(Requests), q # <<>>, NEW f, NEW t, LineOf(a, q, f, t)
  PROVE  Head(q) \in Queuing(a)
<1>1. 1 \in 1 .. Len(q) /\ Head(q) = q[1] /\ q[1] \in Requests
  BY SMT
<1>2. q[1] \in Range(q)
  BY SMT, <1>1 DEF Range
<1> QED
  BY <1>1, <1>2 DEF LineOf, Open, Queuing

(* A queued task that completes its completer keeps the invariant.                   *)
LEMMA QueuedTaskSettlesInv ==
  ASSUME Inv, NEW r \in Requests, QueuedTaskSettles(r)
  PROVE  Inv'
<1>1. PICK o \in {"result", "unexpectedError"} : future' = [future EXCEPT ![r] = o]
  BY DEF QueuedTaskSettles, Settle
<1>2. o \in Outcomes /\ o # "pending" /\ future \in [Requests -> Futures]
  BY DEF Outcomes, Inv, Booked, Books, BooksType
<1>3. Books(running, runningIds, pending, [future EXCEPT ![r] = o],
            [task EXCEPT ![r] = "completed"], unconfirmed)
  BY <1>2, SettleBooks DEF Inv, Booked, QueuedTaskSettles
<1>4. Booked'
  BY <1>1, <1>3 DEF Booked, QueuedTaskSettles, slotVars
<1>5. Rested'
  BY DEF Inv, Rested, QueuedTaskSettles, shutdownVars
<1>6. \A s \in Requests : future'[s] = "pending" => future[s] = "pending"
  BY <1>1, <1>2
<1> QED
  BY <1>4, <1>5, <1>6, BooksOnlyInv DEF QueuedTaskSettles, slotVars, shutdownVars

(* Marking an execution as unconfirmed keeps the invariant: it can only hold the     *)
(* queue of its action back.                                                         *)
LEMMA RetainUnconfirmedExecutionInv ==
  ASSUME Inv, NEW r \in Requests, RetainUnconfirmedExecution(r)
  PROVE  Inv'
<1>1. Books(running, runningIds, pending, future, task, unconfirmed \cup {r})
  BY RetainBooks DEF Inv, Booked, RetainUnconfirmedExecution
<1>2. Booked'
  BY <1>1 DEF Booked, RetainUnconfirmedExecution, slotVars
<1>3. Rested' /\ Keyed' /\ Closing'
  BY DEF Inv, Rested, Keyed, Closing, NothingPending, Idle, RetainUnconfirmedExecution,
         slotVars, shutdownVars
<1>4. Waking'
  BY DEF Inv, Waking, Waits, Agree, Queuing, RetainUnconfirmedExecution, slotVars
<1> QED
  BY <1>2, <1>3, <1>4 DEF Inv

(* A request that leaves the queue without _drain keeps the invariant: the next one  *)
(* in the line has the same limit where the policies agree.                          *)
LEMMA LeaveQueueInv ==
  ASSUME Inv, NEW r \in Requests, NEW o \in Outcomes, IsPending(r), LeaveQueue(r, o)
  PROVE  Inv'
<1> DEFINE a == ActionOf[r]
<1>1. /\ Booked /\ Rested /\ Keyed /\ Closing /\ Waking /\ a \in Actions
      /\ BooksType(running, runningIds, pending, future, task, unconfirmed)
  BY ActionRequestAssumption DEF Inv, Booked, Books
<1>2. /\ pending' = [pending EXCEPT ![a] = Remove(pending[a], r)]
      /\ future' = [future EXCEPT ![r] = o]
      /\ UNCHANGED <<slotVars, unconfirmed, idempotent, replayOf, task, shutdownVars, maintenance, idleWaiter>>
  BY DEF LeaveQueue
<1>3. Books(running, runningIds, [pending EXCEPT ![a] = Remove(pending[a], r)],
            [future EXCEPT ![r] = o], task, unconfirmed)
  BY <1>1, LeaveBooks DEF Booked, IsPending
<1>4. Booked'
  BY <1>2, <1>3 DEF Booked, slotVars
<1>5. o # "pending"
  BY DEF Outcomes, Rejections
<1>6. Rested' /\ Keyed'
  BY <1>1, <1>2, <1>5 DEF Rested, Keyed, shutdownVars, BooksType
<1>7. pending[a] # <<>> /\ ~disposed
  <2>1. pending[a] # <<>>
    BY EmptyQueue DEF IsPending
  <2> QED
    BY <1>1, <2>1 DEF Closing, NothingPending
<1>8. Closing'
  BY <1>1, <1>2, <1>7 DEF Closing, shutdownVars
<1>9. Waking'
  <2> SUFFICES ASSUME NEW b \in Actions, Agree(b), pending'[b] # <<>>
               PROVE  \/ runningIds[b] \cap unconfirmed # {}
                      \/ running[b] >= Policy[Head(pending'[b])].maxConcurrent
    BY <1>2 DEF Waking, Agree, Queuing, Waits, slotVars
  <2>1. Waits(b, pending, running, runningIds, unconfirmed)
    BY <1>1 DEF Waking
  <2>2. CASE b # a
    <3>1. pending'[b] = pending[b]
      BY <1>1, <1>2, <2>2 DEF BooksType
    <3> QED
      BY <2>1, <3>1 DEF Waits
  <2>3. CASE b = a
    <3>1. LineOf(a, pending[a], future, task) /\ LineOf(a, pending'[a], future', task')
      BY <1>1, <1>4 DEF Booked, Books
    <3>2. pending[a] \in Seq(Requests) /\ pending'[a] \in Seq(Requests)
      BY <1>1, <1>4 DEF Booked, Books, BooksType
    <3>3. Head(pending[a]) \in Queuing(a)
      BY <1>1, <1>7, <3>1, <3>2, HeadQueues
    <3>4. Head(pending'[a]) \in Queuing(a)
      BY <2>3, <3>1, <3>2, HeadQueues
    <3>5. Policy[Head(pending[a])].maxConcurrent = Policy[Head(pending'[a])].maxConcurrent
      BY <2>3, <3>3, <3>4 DEF Agree
    <3> QED
      BY <1>7, <2>1, <2>3, <3>5 DEF Waits
  <2> QED
    BY <2>2, <2>3
<1> QED
  BY <1>4, <1>6, <1>8, <1>9 DEF Inv

(* dispose keeps the invariant.                                                      *)
LEMMA DoDisposeInv ==
  ASSUME Inv, NEW completer, completer \in {drained, "pending"}, DoDispose(completer),
         drained = "complete" => completer = "complete",
         shutdown' \in {"none", "waiting", "success", "timeout"},
         UNCHANGED <<slotVars, unconfirmed, idempotent, replayOf, task, maintenance>>
  PROVE  Inv'
<1>1. /\ Booked /\ Rested /\ Keyed /\ Closing /\ Waking
      /\ BooksType(running, runningIds, pending, future, task, unconfirmed)
  BY DEF Inv, Booked, Books
<1>2. /\ disposed' = TRUE
      /\ pending' = [a \in Actions |-> IF disposed THEN pending[a] ELSE <<>>]
      /\ future' = [r \in Requests |-> IF ~disposed /\ IsPending(r) THEN "failDisposed" ELSE future[r]]
      /\ drained' = CompleteDrainedIfIdle(completer, running, pending')
  BY DEF DoDispose
<1>3. pending' = [a \in Actions |-> <<>>]
  BY <1>1, <1>2 DEF Closing, NothingPending
<1>4. Booked'
  <2>1. CASE disposed
    <3>1. pending' = pending /\ future' = future
      BY <1>1, <1>2, <2>1 DEF BooksType
    <3> QED
      BY <1>1, <3>1 DEF Booked, slotVars
  <2>2. CASE ~disposed
    <3>1. "failDisposed" \in Outcomes
      BY DEF Outcomes
    <3>2. Books(running, runningIds, [a \in Actions |-> <<>>],
                [r \in Requests |-> IF r \in Range(pending[ActionOf[r]]) THEN "failDisposed" ELSE future[r]],
                task, unconfirmed)
      BY SMTT(20), <1>1, <3>1, ClearBooks DEF Booked
    <3>3. future' = [r \in Requests |->
                       IF r \in Range(pending[ActionOf[r]]) THEN "failDisposed" ELSE future[r]]
      BY <1>2, <2>2 DEF IsPending
    <3> QED
      BY <1>3, <3>2, <3>3 DEF Booked, slotVars
  <2> QED
    BY <2>1, <2>2
<1>5. Rested'
  <2>1. drained' \in {"absent", "pending", "complete"}
    BY <1>1, <1>2 DEF CompleteDrainedIfIdle, Rested
  <2>2. idleWaiter' \in [Waiters -> {"none", "waiting", "released", "success", "timeout"}]
    BY <1>1 DEF DoDispose, CompleteIdleWaiters, Rested
  <2> QED
    BY <1>1, <1>2, <2>1, <2>2 DEF Rested
<1>6. Keyed'
  BY <1>1, <1>2 DEF Keyed
<1>7. Closing'
  <2>1. drained' = "complete" => Idle(running)
    BY <1>1, <1>2 DEF CompleteDrainedIfIdle, Closing
  <2> QED
    BY <1>2, <1>3, <2>1 DEF Closing, NothingPending, slotVars, Idle
<1>8. Waking'
  BY <1>3 DEF Waking, Waits
<1> QED
  BY <1>4, <1>5, <1>6, <1>7, <1>8 DEF Inv

(* A step that only concerns the waiters, the shutdown or the maintenance.           *)
LEMMA QuietInv ==
  ASSUME Inv, Rested',
         UNCHANGED <<slotVars, unconfirmed, pending, idempotent, future, task, disposed, drained>>
  PROVE  Inv'
<1>1. Booked'
  BY DEF Inv, Booked, slotVars
<1> QED
  BY <1>1, BooksOnlyInv DEF slotVars

(* Every step of the queue keeps the invariant.                                      *)
LEMMA NextInv == Inv /\ [Next]_vars => Inv'
<1> SUFFICES ASSUME Inv, [Next]_vars PROVE Inv'
  OBVIOUS
<1>1. ASSUME NEW r \in Requests, QueueTimeout(r) PROVE Inv'
  <2>1. "timeout" \in Outcomes
    BY DEF Outcomes
  <2> QED
    BY <1>1, <2>1, LeaveQueueInv DEF QueueTimeout
<1>2. ASSUME NEW r \in Requests, CancelQueued(r) PROVE Inv'
  <2>1. "cancelled" \in Outcomes
    BY DEF Outcomes
  <2> QED
    BY <1>2, <2>1, LeaveQueueInv DEF CancelQueued
<1>3. CASE Dispose
  BY <1>3, DoDisposeInv DEF Dispose, Inv, Rested
<1>4. CASE DisposeGracefully
  <2> DEFINE completer == IF drained = "absent" THEN "pending" ELSE drained
  <2>1. completer \in {drained, "pending"} /\ (drained = "complete" => completer = "complete")
    OBVIOUS
  <2>2. /\ DoDispose(completer) /\ shutdown' \in {"none", "waiting", "success", "timeout"}
        /\ UNCHANGED <<slotVars, unconfirmed, idempotent, replayOf, task, maintenance>>
    BY <1>4 DEF DisposeGracefully
  <2> HIDE DEF completer
  <2> QED
    BY <2>1, <2>2, DoDisposeInv
<1>5. CASE DisposeReturns
  <2>1. Rested'
    BY <1>5 DEF DisposeReturns, Inv, Rested
  <2> QED
    BY <1>5, <2>1, QuietInv DEF DisposeReturns
<1>6. ASSUME NEW w \in Waiters, WaitForActiveWorkers(w) \/ IdleWaitReturns(w) PROVE Inv'
  <2>1. Rested'
    BY <1>6 DEF WaitForActiveWorkers, IdleWaitReturns, Inv, Rested, shutdownVars
  <2> QED
    BY <1>6, <2>1, QuietInv DEF WaitForActiveWorkers, IdleWaitReturns, shutdownVars
<1>7. ASSUME NEW o \in Operations, PauseAdmission(o) \/ ResumeAdmission(o) PROVE Inv'
  <2>1. Rested'
    BY <1>7 DEF PauseAdmission, ResumeAdmission, Inv, Rested, shutdownVars
  <2> QED
    BY <1>7, <2>1, QuietInv DEF PauseAdmission, ResumeAdmission, shutdownVars
<1>8. CASE UNCHANGED vars
  <2>1. Rested'
    BY <1>8 DEF vars, Inv, Rested, shutdownVars
  <2> QED
    BY <1>8, <2>1, QuietInv DEF vars, shutdownVars
<1> QED
  BY <1>1, <1>2, <1>3, <1>4, <1>5, <1>6, <1>7, <1>8, EnqueueNewInv, EnqueueReplayInv,
     EnqueueRefusedInv, ReplayReturnsInv, EvictInv, DirectTaskSettlesInv, QueuedTaskSettlesInv,
     QueuedTaskReleasesInv, RetainUnconfirmedExecutionInv DEF Next

(* The inductive invariant holds of every reachable state.                           *)
THEOREM InvHolds == Spec => []Inv
BY InitInv, NextInv, PTL DEF Spec

-----------------------------------------------------------------------------

(* SlotsExact, for any requests: what _beginRunning and _endRunning keep in two maps *)
(* is exactly who owns a slot.                                                       *)
THEOREM SlotsExactHolds == Spec => []SlotsExact
<1>1. Inv => SlotsExact
  <2> SUFFICES ASSUME Inv PROVE SlotsExact
    OBVIOUS
  <2>1. TypeOK
    BY DEF Inv, Booked, Books, BooksType, Rested, TypeOK, Futures, Tasks
  <2>2. ASSUME NEW a \in Actions
        PROVE  runningIds[a] = Owners(a) /\ running[a] = Cardinality(Owners(a))
    <3>1. SlotsOf(a, running[a], runningIds[a], task, unconfirmed)
      BY DEF Inv, Booked, Books
    <3> QED
      BY <3>1 DEF SlotsOf, Holders, Owners
  <2> QED
    BY <2>1, <2>2 DEF SlotsExact
<1> QED
  BY <1>1, InvHolds, PTL

(* QueueExact, for any requests: the queues hold the open requests that have not     *)
(* begun, each once, and never more than the newest of a queue allows.               *)
THEOREM QueueExactHolds == Spec => []QueueExact
<1>1. Inv => QueueExact
  <2> SUFFICES ASSUME Inv PROVE QueueExact
    OBVIOUS
  <2>1. ASSUME NEW r \in Requests
        PROVE  IsPending(r) <=> future[r] = "pending" /\ task[r] = "idle"
    BY SMT, ActionRequestAssumption DEF Inv, Booked, Books, LineOf, Open, IsPending
  <2>2. ASSUME NEW a \in Actions
        PROVE  /\ \A i, j \in DOMAIN pending[a] : pending[a][i] = pending[a][j] => i = j
               /\ pending[a] # <<>> =>
                    Len(pending[a]) <= Policy[pending[a][Len(pending[a])]].maxQueued
    <3>1. LineOf(a, pending[a], future, task) /\ pending[a] \in Seq(Requests)
      BY DEF Inv, Booked, Books, BooksType
    <3>2. DOMAIN pending[a] = 1 .. Len(pending[a])
      BY SMT, <3>1
    <3>3. pending[a] # <<>> => Len(pending[a]) \in 1 .. Len(pending[a])
      BY SMTT(20), <3>1
    <3> QED
      BY <3>1, <3>2, <3>3 DEF LineOf, Injective
  <2> QED
    BY <2>1, <2>2 DEF QueueExact
<1> QED
  BY <1>1, InvHolds, PTL

(* SingleFlight, for any requests and keys.                                          *)
THEOREM SingleFlightHolds == Spec => []SingleFlight
<1>1. Inv => SingleFlight
  BY DEF Inv, Keyed, SingleFlight
<1> QED
  BY <1>1, InvHolds, PTL

(* NoLostWakeup, for any requests and policies: where the policies of an action      *)
(* agree, nobody waits for a slot that is free.                                      *)
THEOREM NoLostWakeupHolds == Spec => []NoLostWakeup
<1>1. Inv => NoLostWakeup
  <2> SUFFICES ASSUME Inv, NEW a \in Actions, pending[a] # <<>>, Agree(a)
               PROVE  ~CanRunNow(a, Policy[Head(pending[a])])
    BY DEF NoLostWakeup, Agree
  <2>1. /\ Waits(a, pending, running, runningIds, unconfirmed)
        /\ pending[a] \in Seq(Requests) /\ running[a] \in Nat
    BY DEF Inv, Waking, Booked, Books, BooksType
  <2>2. Policy[Head(pending[a])].maxConcurrent \in Nat
    BY SMTT(20), <2>1, ActionRequestAssumption
  <2> QED
    BY SMTT(20), <2>1, <2>2 DEF Waits, CanRunNow, HasUnconfirmedCleanup
<1> QED
  BY <1>1, InvHolds, PTL

(* DrainedMeansIdle, for any requests: a graceful disposal that reports success      *)
(* leaves nothing running and nothing queued.                                        *)
THEOREM DrainedMeansIdleHolds == Spec => []DrainedMeansIdle
<1>1. Inv => DrainedMeansIdle
  BY DEF Inv, Closing, DrainedMeansIdle
<1> QED
  BY <1>1, InvHolds, PTL

-----------------------------------------------------------------------------

\* The requests behind r in queue q.
Behind(q, r) == {q[j] : j \in {j \in DOMAIN q : \E i \in 1 .. j - 1 : q[i] = r}}

\* What StartsAdmitted says of a request that starts in this step.
Admitted(r) ==
  /\ ~HasUnconfirmedCleanup(ActionOf[r])
  /\ \/ Policy[r].behavior = "allowParallel"
     \/ Cardinality(runningIds'[ActionOf[r]] \ Behind(pending[ActionOf[r]], r)) <= Policy[r].maxConcurrent

(* Each request that the loop of _drain starts finds fewer executions than its       *)
(* policy allows: those before the loop and those the loop started earlier.          *)
LEMMA DrainAdmits ==
  ASSUME NEW p \in Seq(Requests), Injective(p), NEW q \in Seq(Requests),
         NEW k \in 0 .. Len(p), k <= Len(q), \A i \in 1 .. k : q[i] = p[i],
         NEW ids, IsFiniteSet(ids), NEW n, n = Cardinality(ids),
         Stops(q, n, ids, k), NEW j \in 1 .. k
  PROVE  Cardinality((ids \cup {q[i] : i \in 1 .. k}) \ Behind(p, q[j])) <= Policy[q[j]].maxConcurrent
<1> DEFINE T == {p[i] : i \in 1 .. j}
           L == (ids \cup {q[i] : i \in 1 .. k}) \ Behind(p, q[j])
<1>1. j \in 0 .. Len(p) /\ DOMAIN p = 1 .. Len(p) /\ n \in Nat
  BY SMT, FS_CardinalityType
<1>2. Split(Requests, p, j, T, SubSeq(p, j + 1, Len(p)))
  BY <1>1, SplitQueue
<1>3. IsFiniteSet(T) /\ Cardinality(T) = j
  BY <1>2 DEF Split
<1>4. L \subseteq ids \cup T
  <2>1. ASSUME NEW i \in 1 .. k, i > j PROVE q[i] \in Behind(p, q[j])
    <3>1. i \in DOMAIN p /\ j \in 1 .. i - 1 /\ p[j] = q[j] /\ p[i] = q[i]
      BY SMTT(20), <1>1, <2>1
    <3> QED
      BY <3>1 DEF Behind
  <2>2. ASSUME NEW i \in 1 .. k, ~(i > j) PROVE q[i] \in T
    BY SMTT(20), <2>2
  <2> QED
    BY <2>1, <2>2
<1> HIDE DEF T, L
<1>5. /\ IsFiniteSet(ids \cup T)
      /\ Cardinality(ids \cup T) = Cardinality(ids) + Cardinality(T) - Cardinality(ids \cap T)
  BY <1>3, FS_Union
<1>6. IsFiniteSet(ids \cap T)
  BY <1>3, FS_Subset
<1>7. Cardinality(ids \cap T) \in Nat
  BY <1>6, FS_CardinalityType
<1>8. IsFiniteSet(L) /\ Cardinality(L) <= Cardinality(ids \cup T)
  BY <1>4, <1>5, FS_Subset
<1>9. Cardinality(L) \in Nat
  BY <1>8, FS_CardinalityType
<1>10. n + j - 1 < Policy[q[j]].maxConcurrent /\ Policy[q[j]].maxConcurrent \in Nat
  <2>1. q[j] \in Requests
    BY SMT
  <2> QED
    BY <2>1, ActionRequestAssumption DEF Stops
<1>11. Cardinality(L) <= n + j
  BY SMTT(20), <1>1, <1>3, <1>5, <1>7, <1>8, <1>9
<1>12. Cardinality(L) <= Policy[q[j]].maxConcurrent
  BY SMTT(20), <1>1, <1>9, <1>10, <1>11
<1> QED
  BY <1>12 DEF L

(* The executions that enqueue starts are admitted.                                  *)
LEMMA EnqueueAdmits ==
  ASSUME Inv, NEW x \in Requests, NEW internal \in BOOLEAN, EnqueueNew(x, internal),
         NEW r \in Requests, task[r] = "idle", task'[r] \in {"direct", "queued"}
  PROVE  Admitted(r)
<1> DEFINE a == ActionOf[x]
           p == pending[a]
           n == running[a]
           ids == runningIds[a]
<1>1. /\ Schedule(x) /\ ~HasUnconfirmedCleanup(a) /\ a \in Actions /\ future[x] = "new"
      /\ Policy[x].maxConcurrent \in Nat
  BY ActionRequestAssumption DEF EnqueueNew, DisposedFailure
<1>2. /\ BooksType(running, runningIds, pending, future, task, unconfirmed)
      /\ SlotsOf(a, n, ids, task, unconfirmed) /\ LineOf(a, p, future, task)
  BY <1>1 DEF Inv, Booked, Books
<1>3. p \in Seq(Requests) /\ Injective(p) /\ n \in Nat /\ IsFiniteSet(ids) /\ n = Cardinality(ids)
  BY <1>1, <1>2 DEF BooksType, SlotsOf, LineOf
<1>4. CASE (Policy[x].behavior = "allowParallel" \/ CanRunNow(a, Policy[x])) /\ RunNow(x)
  <2>1. /\ task' = [s \in Requests |-> IF s \in {p[j] : j \in 1 .. 0} THEN "queued"
                                       ELSE [task EXCEPT ![x] = "direct"][s]]
        /\ runningIds'[a] = (ids \cup {x}) \cup {p[j] : j \in 1 .. 0}
    BY <1>1, <1>2, <1>4 DEF RunNow, Begin, BooksType
  <2>2. {p[j] : j \in 1 .. 0} = {}
    BY SMT
  <2>3. r = x /\ runningIds'[a] = ids \cup {x}
    BY <1>2, <2>1, <2>2 DEF BooksType
  <2>4. Policy[x].behavior = "allowParallel" \/ n < Policy[x].maxConcurrent
    BY <1>4 DEF CanRunNow
  <2>5. CASE Policy[x].behavior = "allowParallel"
    BY <1>1, <2>3, <2>5 DEF Admitted
  <2>6. CASE n < Policy[x].maxConcurrent
    <3>1. IsFiniteSet(ids \cup {x}) /\ Cardinality(ids \cup {x}) <= n + 1
      <4>1. /\ IsFiniteSet(ids \cup {x})
            /\ Cardinality(ids \cup {x}) = IF x \in ids THEN Cardinality(ids) ELSE Cardinality(ids) + 1
        BY <1>3, FS_AddElement
      <4> QED
        BY SMTT(20), <1>3, <4>1
    <3> DEFINE L == (ids \cup {x}) \ Behind(p, x)
    <3>2. IsFiniteSet(L) /\ Cardinality(L) <= Cardinality(ids \cup {x})
      BY <3>1, FS_Subset
    <3>3. Cardinality(L) \in Nat /\ Cardinality(ids \cup {x}) \in Nat
      BY <3>1, <3>2, FS_CardinalityType
    <3> HIDE DEF L
    <3>4. Cardinality(L) <= Policy[x].maxConcurrent
      BY SMTT(20), <1>1, <1>3, <2>6, <3>1, <3>2, <3>3
    <3> QED
      BY <1>1, <2>3, <3>4 DEF Admitted, L
  <2> QED
    BY <2>4, <2>5, <2>6
<1>5. CASE ~CanRunNow(a, Policy[x]) /\ EnqueuePending(x)
  <2> DEFINE q == Append(p, x)
             k == Startable(a, q, n, ids)
             started == {q[j] : j \in 1 .. k}
  <2>1. /\ task' = [s \in Requests |-> IF s \in started THEN "queued" ELSE task[s]]
        /\ runningIds'[a] = ids \cup started
    BY <1>1, <1>2, <1>5 DEF EnqueuePending, Begin, BooksType
  <2>2. q \in Seq(Requests) /\ Len(q) = Len(p) + 1 /\ q[Len(q)] = x
    BY SMT, <1>3
  <2>3. \A i \in 1 .. Len(p) : q[i] = p[i]
    BY SMT, <1>3
  <2>4. k \in 0 .. Len(q) /\ Stops(q, n, ids, k)
    BY <1>3, <2>2, StartableStops
  <2> HIDE DEF q, k
  <2>5. PICK j \in 1 .. k : r = q[j]
    BY <2>1
  <2>6. n >= Policy[x].maxConcurrent
    BY SMTT(20), <1>1, <1>3, <1>5 DEF CanRunNow
  <2>7. k # Len(q)
    <3> SUFFICES ASSUME k = Len(q) PROVE FALSE
      OBVIOUS
    <3>1. Len(q) \in 1 .. k /\ Len(q) >= 1
      BY SMTT(20), <1>3, <2>2
    <3>2. n + Len(q) - 1 < Policy[x].maxConcurrent
      BY <2>2, <2>4, <3>1 DEF Stops
    <3> QED
      BY SMTT(20), <1>1, <1>3, <2>6, <3>1, <3>2
  <2>8. k \in 0 .. Len(p) /\ k <= Len(q) /\ \A i \in 1 .. k : q[i] = p[i]
    BY SMTT(20), <1>3, <2>2, <2>3, <2>4, <2>7
  <2>9. Cardinality((ids \cup started) \ Behind(p, q[j])) <= Policy[q[j]].maxConcurrent
    <3> HIDE DEF p, n, ids
    <3> QED
      BY <1>3, <2>2, <2>4, <2>8, DrainAdmits
  <2>10. ActionOf[r] = a
    <3>1. j \in DOMAIN p /\ r = p[j]
      BY SMTT(20), <1>3, <2>5, <2>8
    <3>2. r \in Range(p)
      BY <3>1 DEF Range
    <3> QED
      BY <1>2, <3>2 DEF LineOf, Open
  <2> QED
    BY <1>1, <2>1, <2>5, <2>9, <2>10 DEF Admitted
<1>6. ~(UNCHANGED task)
  OBVIOUS
<1> QED
  BY <1>1, <1>4, <1>5, <1>6 DEF Schedule, Refuse

(* The executions that the end of another one starts are admitted.                   *)
LEMMA ReleaseAdmits ==
  ASSUME Inv, NEW x \in Requests, task[x] \in {"direct", "completed"}, ReleaseSlot(x),
         NEW r \in Requests, task[r] = "idle", task'[r] \in {"direct", "queued"}
  PROVE  Admitted(r)
<1> DEFINE a == ActionOf[x]
           p == pending[a]
           c == EndRunning(x).count
           l == EndRunning(x).ids
           k == IF disposed THEN 0 ELSE Startable(a, p, c, l)
           started == {p[j] : j \in 1 .. k}
<1>1. /\ Booked /\ a \in Actions
      /\ BooksType(running, runningIds, pending, future, task, unconfirmed)
      /\ LineOf(a, p, future, task)
  BY ActionRequestAssumption DEF Inv, Booked, Books
<1>2. Begin(a, p, k, c, l, [task EXCEPT ![x] = "done"])
  BY DEF ReleaseSlot
<1>3. /\ x \in unconfirmed => c = running[a] /\ l = runningIds[a]
      /\ x \notin unconfirmed => /\ c = IF running[a] > 1 THEN running[a] - 1 ELSE 0
                                 /\ l = runningIds[a] \ {x}
  BY DEF EndRunning
<1> HIDE DEF c, l
<1>4. Books([running EXCEPT ![a] = c], [runningIds EXCEPT ![a] = l], pending,
            [future EXCEPT ![x] = "result"], [task EXCEPT ![x] = "done"], unconfirmed)
  <2>1. "result" \in Outcomes
    BY DEF Outcomes
  <2> QED
    BY <1>1, <1>3, <2>1, FinishBooks DEF Booked
<1>5. c \in Nat /\ IsFiniteSet(l) /\ c = Cardinality(l)
  <2>1. [running EXCEPT ![a] = c][a] = c /\ [runningIds EXCEPT ![a] = l][a] = l
    BY <1>1 DEF BooksType
  <2>2. SlotsOf(a, c, l, [task EXCEPT ![x] = "done"], unconfirmed)
    BY <1>1, <1>4, <2>1 DEF Books
  <2> QED
    BY <2>2, FS_CardinalityType DEF SlotsOf
<1>6. p \in Seq(Requests) /\ Injective(p)
  BY <1>1 DEF BooksType, LineOf
<1>7. k \in 0 .. Len(p) /\ (k > 0 => Stops(p, c, l, k))
  BY SMTT(20), <1>5, <1>6, StartableStops
<1> HIDE DEF k
<1>8. /\ task' = [s \in Requests |-> IF s \in started THEN "queued"
                                     ELSE [task EXCEPT ![x] = "done"][s]]
      /\ runningIds'[a] = l \cup started
  BY <1>1, <1>2 DEF Begin, BooksType
<1>9. PICK j \in 1 .. k : r = p[j]
  <2>1. r # x
    OBVIOUS
  <2> QED
    BY <1>1, <1>8, <2>1 DEF BooksType
<1>10. k > 0 /\ Stops(p, c, l, k)
  BY SMTT(20), <1>7, <1>9
<1>11. ActionOf[r] = a
  <2>1. j \in DOMAIN p
    BY SMTT(20), <1>6, <1>7
  <2>2. r \in Range(p)
    BY <1>9, <2>1 DEF Range
  <2> QED
    BY <1>1, <2>2 DEF LineOf, Open
<1>12. ~HasUnconfirmedCleanup(a)
  BY <1>3, <1>10 DEF Stops, HasUnconfirmedCleanup
<1>13. Cardinality((l \cup started) \ Behind(p, p[j])) <= Policy[p[j]].maxConcurrent
  <2>1. k <= Len(p) /\ \A i \in 1 .. k : p[i] = p[i]
    BY SMTT(20), <1>6, <1>7
  <2> HIDE DEF p
  <2> QED
    BY <1>5, <1>6, <1>7, <1>10, <2>1, DrainAdmits
<1> QED
  BY <1>8, <1>9, <1>11, <1>12, <1>13 DEF Admitted

(* StartsAdmitted, for any requests and policies: every execution that starts finds  *)
(* room under its own policy, and no process that may still live.                    *)
THEOREM StartsAdmittedHolds == Spec => StartsAdmitted
<1> DEFINE A == \A r \in Requests :
                  task[r] = "idle" /\ task'[r] \in {"direct", "queued"} => Admitted(r)
<1>1. Inv /\ [Next]_vars => [A]_vars
  <2> SUFFICES ASSUME Inv, Next, NEW r \in Requests, task[r] = "idle", task'[r] \in {"direct", "queued"}
               PROVE  Admitted(r)
    OBVIOUS
  <2>1. task \in [Requests -> Tasks]
    BY DEF Inv, Booked, Books, BooksType
  <2>2. ASSUME NEW x \in Requests, NEW internal \in BOOLEAN, EnqueueNew(x, internal) PROVE Admitted(r)
    BY <2>2, EnqueueAdmits
  <2>3. ASSUME NEW x \in Requests, DirectTaskSettles(x) \/ QueuedTaskReleases(x) PROVE Admitted(r)
    BY <2>3, ReleaseAdmits DEF DirectTaskSettles, QueuedTaskReleases
  <2>4. ASSUME NEW x \in Requests, QueuedTaskSettles(x) PROVE FALSE
    BY <2>1, <2>4 DEF QueuedTaskSettles
  <2>5. ~(UNCHANGED task)
    OBVIOUS
  <2> QED
    BY <2>2, <2>3, <2>4, <2>5 DEF Next, EnqueueReplay, EnqueueRefused, Refuse, ReplayReturns,
       RetainUnconfirmedExecution, QueueTimeout, CancelQueued, LeaveQueue, Evict, Dispose,
       DisposeGracefully, DisposeReturns, WaitForActiveWorkers, IdleWaitReturns, PauseAdmission,
       ResumeAdmission
<1>2. [][A]_vars => StartsAdmitted
  BY DEF StartsAdmitted, Admitted, Behind
<1> QED
  BY <1>1, <1>2, InvHolds, PTL DEF Spec

\* What ValidationAgrees says of a request that is answered in this step.
Foretold(r) ==
  \E internal \in BOOLEAN :
    ValidateRemoteAdmission(r, internal) = IF future'[r] \in Rejections THEN future'[r] ELSE "none"

(* A real enqueue answers what validateRemoteAdmission would have answered.          *)
LEMMA EnqueueForetold ==
  ASSUME Inv, NEW r \in Requests, NEW internal \in BOOLEAN,
         EnqueueNew(r, internal) \/ EnqueueRefused(r, internal)
  PROVE  Foretold(r)
<1> DEFINE a == ActionOf[r]
           answer == IF future'[r] \in Rejections THEN future'[r] ELSE "none"
<1>1. /\ future \in [Requests -> Futures] /\ Policy[r].behavior \in Behaviors
      /\ Policy[r].maxQueued \in Nat /\ Len(pending[a]) \in Nat
  BY SMT, ActionRequestAssumption DEF Inv, Booked, Books, BooksType
<1>2. CASE EnqueueRefused(r, internal)
  <2>1. DisposedFailure(a, internal) # "none" /\ future'[r] = DisposedFailure(a, internal)
    BY <1>1, <1>2 DEF EnqueueRefused, Refuse
  <2>2. DisposedFailure(a, internal) \in Rejections
    BY <2>1 DEF DisposedFailure, Rejections
  <2>3. ValidateRemoteAdmission(r, internal) = answer
    BY <2>1, <2>2 DEF ValidateRemoteAdmission
  <2> QED
    BY <2>3 DEF Foretold
<1>3. CASE EnqueueNew(r, internal)
  <2>1. DisposedFailure(a, internal) = "none" /\ Schedule(r)
    BY <1>3 DEF EnqueueNew
  <2> DEFINE now == Policy[r].behavior = "allowParallel" \/ CanRunNow(a, Policy[r])
  <2>2. "pending" \notin Rejections
    BY DEF Rejections
  <2>3. CASE now /\ RunNow(r)
    <3>1. future'[r] = "pending"
      BY <1>1, <2>3 DEF RunNow
    <3>2. ValidateRemoteAdmission(r, internal) = "none"
      BY <2>1, <2>3 DEF ValidateRemoteAdmission
    <3> QED
      BY <2>2, <3>1, <3>2 DEF Foretold
  <2>4. CASE ~now /\ Policy[r].behavior \in DOMAIN Turned /\ Refuse(r, Turned[Policy[r].behavior])
    <3>1. Policy[r].behavior \in {"reject", "ignore"}
      BY <2>4 DEF Turned
    <3>2. future'[r] = Turned[Policy[r].behavior] /\ Turned[Policy[r].behavior] \in Rejections
      BY SMTT(20), <1>1, <2>4, <3>1 DEF Refuse, Turned, Rejections
    <3>3. ValidateRemoteAdmission(r, internal) = Turned[Policy[r].behavior]
      BY <2>1, <2>4, <3>1 DEF ValidateRemoteAdmission
    <3> QED
      BY <3>2, <3>3 DEF Foretold
  <2>5. CASE ~now /\ Policy[r].behavior = "enqueue" /\ EnqueuePending(r)
    <3>1. future'[r] = "pending" /\ Len(pending[a]) < Policy[r].maxQueued
      BY <1>1, <2>5 DEF EnqueuePending
    <3>2. ValidateRemoteAdmission(r, internal) = "none"
      BY SMTT(20), <1>1, <2>1, <2>5, <3>1 DEF ValidateRemoteAdmission
    <3> QED
      BY <2>2, <3>1, <3>2 DEF Foretold
  <2>6. CASE /\ ~now /\ Policy[r].behavior = "enqueue"
             /\ Len(pending[a]) >= Policy[r].maxQueued /\ Refuse(r, "full")
    <3>1. future'[r] = "full" /\ "full" \in Rejections
      BY <1>1, <2>6 DEF Refuse, Rejections
    <3>2. ValidateRemoteAdmission(r, internal) = "full"
      BY <2>1, <2>6 DEF ValidateRemoteAdmission
    <3> QED
      BY <3>1, <3>2 DEF Foretold
  <2> QED
    BY <2>1, <2>3, <2>4, <2>5, <2>6 DEF Schedule
<1> QED
  BY <1>2, <1>3

(* Only enqueue answers a new request.                                               *)
LEMMA OnlyEnqueueAnswers ==
  ASSUME Inv, Next, NEW r \in Requests, future[r] = "new", future'[r] \notin {"new", "replaying"}
  PROVE  \E internal \in BOOLEAN : EnqueueNew(r, internal) \/ EnqueueRefused(r, internal)
<1>1. /\ future \in [Requests -> Futures]
      /\ \A x \in Requests : Phase(x, future, task, unconfirmed)
      /\ \A x \in Requests : IsPending(x) => future[x] = "pending"
  BY SMT, ActionRequestAssumption DEF Inv, Booked, Books, BooksType, LineOf, Open, IsPending
<1>2. ASSUME NEW x \in Requests, NEW o, x # r, future' = [future EXCEPT ![x] = o] PROVE FALSE
  BY <1>1, <1>2
<1>3. ASSUME NEW x \in Requests, NEW internal \in BOOLEAN,
             EnqueueNew(x, internal) \/ EnqueueReplay(x, internal) \/ EnqueueRefused(x, internal)
      PROVE  EnqueueNew(r, internal) \/ EnqueueRefused(r, internal)
  <2>1. \E o : future' = [future EXCEPT ![x] = o]
    BY <1>3 DEF EnqueueNew, Schedule, RunNow, Refuse, EnqueuePending, EnqueueReplay, EnqueueRefused
  <2>2. x = r
    BY <1>2, <2>1
  <2>3. ~EnqueueReplay(r, internal)
    BY <1>1 DEF EnqueueReplay
  <2> QED
    BY <1>3, <2>2, <2>3
<1>4. ASSUME NEW x \in Requests, DirectTaskSettles(x) \/ QueuedTaskSettles(x) PROVE FALSE
  <2>1. future[x] = "pending"
    BY <1>1, <1>4 DEF DirectTaskSettles, QueuedTaskSettles, Phase
  <2> QED
    BY <1>2, <1>4, <2>1 DEF DirectTaskSettles, QueuedTaskSettles, Settle
<1>5. ASSUME NEW x \in Requests, ReplayReturns(x) PROVE FALSE
  BY <1>2, <1>5 DEF ReplayReturns
<1>6. ASSUME NEW x \in Requests, QueueTimeout(x) \/ CancelQueued(x) PROVE FALSE
  <2>1. future[x] = "pending"
    BY <1>1, <1>6 DEF QueueTimeout, CancelQueued
  <2> QED
    BY <1>2, <1>6, <2>1 DEF QueueTimeout, CancelQueued, LeaveQueue
<1>7. ASSUME Dispose \/ DisposeGracefully PROVE FALSE
  BY <1>1, <1>7 DEF Dispose, DisposeGracefully, DoDispose
<1>8. ~(UNCHANGED future)
  OBVIOUS
<1> QED
  BY <1>3, <1>4, <1>5, <1>6, <1>7, <1>8 DEF Next, QueuedTaskReleases, RetainUnconfirmedExecution,
     Evict, DisposeReturns, WaitForActiveWorkers, IdleWaitReturns, PauseAdmission, ResumeAdmission

(* ValidationAgrees, for any requests and policies: "the same concurrency and depth  *)
(* limits as a real enqueue call".                                                   *)
THEOREM ValidationAgreesHolds == Spec => ValidationAgrees
<1> DEFINE A == \A r \in Requests :
                  future[r] = "new" /\ future'[r] \notin {"new", "replaying"} => Foretold(r)
<1>1. Inv /\ [Next]_vars => [A]_vars
  BY EnqueueForetold, OnlyEnqueueAnswers
<1>2. [][A]_vars => ValidationAgrees
  BY DEF ValidationAgrees, Foretold
<1> QED
  BY <1>1, <1>2, InvHolds, PTL DEF Spec

=============================================================================
