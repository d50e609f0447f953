-------------------- MODULE DirectOdbcConnectionLimiter --------------------
(***************************************************************************)
(* DirectOdbcConnectionLimiter                                             *)
(* (lib/infrastructure/pool/direct_odbc_connection_limiter.dart): direct   *)
(* connections are admitted by two semaphores, that of the operation's     *)
(* class and then the global one, under one timeout budget.  The limits    *)
(* follow the pool size, which can change while connections are open.      *)
(***************************************************************************)
EXTENDS PoolSemaphore

CONSTANTS Operations,  \* what acquires direct connections, one at a time
          ClassOf,     \* the operation class of each
          Limits       \* the values maxConcurrent takes

Classes == {"streaming", "bulk", "batchTransaction", "general"}

ASSUME LimiterAssumption ==
  /\ ClassOf \in [Operations -> Classes]
  /\ Limits \subseteq Nat \ {0}
  /\ IsFiniteSet(Operations)

VARIABLES
  global,        \* _globalSemaphore
  class,         \* _classSemaphores
  pc,            \* where each operation's acquisition stands
  activeCount,   \* _activeCount
  classActive    \* _classActiveCounts

vars == <<global, class, pc, activeCount, classActive>>

(***************************************************************************)
(* An acquisition goes                                                     *)
(*   idle -> [classWait -> [classExpired ->]] classGranted                  *)
(*       -> [globalWait -> [globalExpired ->]] globalGranted               *)
(*       -> leased -> idle                                                 *)
(* or fails, back to idle.  Granted: the permit is the acquisition's and its  *)
(* continuation has still to run.  Expired: the timer has fired and the    *)
(* continuation that leaves the line has still to run.                     *)
(***************************************************************************)
PCs == {"idle", "classWait", "classExpired", "classGranted", "globalWait",
        "globalExpired", "globalGranted", "leased"}

(* directOdbcOperationClassCap                                             *)
ClassCap(k, max) ==
  CASE k = "streaming" -> Max({1, (max + 1) \div 2})
    [] k \in {"bulk", "batchTransaction"} -> Max({1, max \div 2})
    [] k = "general" -> max

Init ==
  /\ \E max \in Limits :
       /\ global = NewSemaphore(max)
       /\ class = [k \in Classes |-> NewSemaphore(ClassCap(k, max))]
  /\ pc = [o \in Operations |-> "idle"]
  /\ activeCount = 0
  /\ classActive = [k \in Classes |-> 0]

Goto(o, l) == pc' = [pc EXCEPT ![o] = l]

(* The acquisitions in woken have been handed the permit they waited for:  *)
(* their completers are completed.                                         *)
Granted(p, woken) ==
  [o \in Operations |->
     IF o \notin woken THEN p[o]
     ELSE IF p[o] = "classWait" THEN "classGranted"
     ELSE IF p[o] = "globalWait" THEN "globalGranted" ELSE p[o]]

ClassUnchanged == UNCHANGED class
GlobalUnchanged == UNCHANGED global
LeasesUnchanged == UNCHANGED <<activeCount, classActive>>

-----------------------------------------------------------------------------
(* acquire: first the semaphore of the class.                              *)

AcquireClass(o) ==
  LET k == ClassOf[o] IN
  /\ pc[o] = "idle"
  /\ IF HasPermit(class[k])
     THEN class' = [class EXCEPT ![k] = TakePermit(@)] /\ Goto(o, "classGranted")
     ELSE class' = [class EXCEPT ![k] = Wait(@, o)] /\ Goto(o, "classWait")
  /\ LeasesUnchanged
  /\ UNCHANGED global

(* A timer fires for a waiter whose completer is not completed.            *)
Expire(o) ==
  /\ \/ pc[o] = "classWait" /\ Goto(o, "classExpired")
     \/ pc[o] = "globalWait" /\ Goto(o, "globalExpired")
  /\ LeasesUnchanged
  /\ UNCHANGED <<global, class>>

(* The continuation of an expired wait: leave the line and fail, or go on  *)
(* with the permit that release handed over in the meantime.               *)
ClassExpired(o) ==
  LET k == ClassOf[o] IN
  /\ pc[o] = "classExpired"
  /\ IF IsWaiting(class[k], o)
     THEN class' = [class EXCEPT ![k] = Leave(@, o)] /\ Goto(o, "idle")
     ELSE ClassUnchanged /\ Goto(o, "classGranted")
  /\ LeasesUnchanged
  /\ UNCHANGED global

(* Then the global semaphore, with what is left of the budget; a class     *)
(* permit that came too late is given back.                                *)
ReleaseClass(o, p) ==
  LET k == ClassOf[o]
      s == Release(class[k])
  IN  /\ class' = [class EXCEPT ![k] = s]
      /\ pc' = Granted(p, Woken(class[k], s))

BudgetExhausted(o) ==
  /\ pc[o] = "classGranted"
  /\ ReleaseClass(o, [pc EXCEPT ![o] = "idle"])
  /\ LeasesUnchanged
  /\ UNCHANGED global

AcquireGlobal(o) ==
  /\ pc[o] = "classGranted"
  /\ IF HasPermit(global)
     THEN global' = TakePermit(global) /\ Goto(o, "globalGranted")
     ELSE global' = Wait(global, o) /\ Goto(o, "globalWait")
  /\ LeasesUnchanged
  /\ UNCHANGED class

\* Faulty: does not look whether the permit was granted meanwhile.
GlobalExpiredForgetful(o) ==
  /\ pc[o] = "globalExpired"
  /\ global' = Leave(global, o)
  /\ ReleaseClass(o, [pc EXCEPT ![o] = "idle"])
  /\ LeasesUnchanged

GlobalExpired(o) ==
  /\ pc[o] = "globalExpired"
  /\ IF IsWaiting(global, o)
     THEN /\ global' = Leave(global, o)
          /\ ReleaseClass(o, [pc EXCEPT ![o] = "idle"])
     ELSE GlobalUnchanged /\ ClassUnchanged /\ Goto(o, "globalGranted")
  /\ LeasesUnchanged

-----------------------------------------------------------------------------
(* The lease.                                                              *)

Lease(o) ==
  /\ pc[o] = "globalGranted"
  /\ Goto(o, "leased")
  /\ activeCount' = activeCount + 1
  /\ classActive' = [classActive EXCEPT ![ClassOf[o]] = @ + 1]
  /\ UNCHANGED <<global, class>>

Decremented(n) == IF n > 0 THEN n - 1 ELSE n

(* onRelease: the global permit, the class permit, the counts.             *)
OnRelease(o) ==
  LET g == Release(global)
  IN  /\ global' = g
      /\ ReleaseClass(o, Granted([pc EXCEPT ![o] = "idle"], Woken(global, g)))
      /\ activeCount' = Decremented(activeCount)
      /\ classActive' = [classActive EXCEPT ![ClassOf[o]] = Decremented(@)]

(* DirectOdbcConnectionLease.release: a second call does nothing.          *)
LeaseRelease(o) ==
  /\ pc[o] = "leased"
  /\ OnRelease(o)

-----------------------------------------------------------------------------
(* reconfigureMaxConcurrent: the global semaphore is resized and drained   *)
(* first, then those of the classes.                                       *)
Reconfigure(max) ==
  LET g == Resize(global, max)
      s == [k \in Classes |-> Resize(class[k], ClassCap(k, max))]
  IN  /\ max # global.max
      /\ global' = g
      /\ class' = s
      /\ pc' = Granted(pc, Woken(global, g)
                             \cup UNION {Woken(class[k], s[k]) : k \in Classes})
      /\ LeasesUnchanged

Next ==
  \/ \E o \in Operations : \/ AcquireClass(o)
                           \/ Expire(o)
                           \/ ClassExpired(o)
                           \/ BudgetExhausted(o)
                           \/ AcquireGlobal(o)
                           \/ GlobalExpired(o)
                           \/ Lease(o)
                           \/ LeaseRelease(o)
  \/ \E max \in Limits : Reconfigure(max)

Spec == Init /\ [][Next]_vars

(* Continuations run and connections are closed; nothing makes a timer     *)
(* fire, an operation start or the limit change.                           *)
FairSpec ==
  /\ Spec
  /\ \A o \in Operations :
       /\ WF_vars(ClassExpired(o))
       /\ WF_vars(BudgetExhausted(o) \/ AcquireGlobal(o))
       /\ WF_vars(GlobalExpired(o))
       /\ WF_vars(Lease(o))
       /\ WF_vars(LeaseRelease(o))

-----------------------------------------------------------------------------
(* The types of the semaphores and the counters.                           *)
TypeOK ==
  /\ global \in Semaphores(Operations)
  /\ class \in [Classes -> Semaphores(Operations)]
  /\ pc \in [Operations -> PCs]
  /\ activeCount \in Nat
  /\ classActive \in [Classes -> Nat]

(* The operations that own a permit of the class k, or the global one:     *)
(* handed over, whether or not their continuation has seen it.             *)
OwnsGlobal(o) ==
  \/ pc[o] \in {"globalGranted", "leased"}
  \/ pc[o] = "globalExpired" /\ ~IsWaiting(global, o)
OwnsClass(o) ==
  \/ pc[o] \in {"classGranted", "globalWait", "globalExpired", "globalGranted", "leased"}
  \/ pc[o] = "classExpired" /\ ~IsWaiting(class[ClassOf[o]], o)

(* Every permit that is out has exactly one owner: a timeout that races a  *)
(* release neither leaks the permit it was handed nor takes one twice, and *)
(* the counts reported to the health endpoint are those of the leases.     *)
PermitsExact ==
  /\ TypeOK
  /\ global.active = Cardinality({o \in Operations : OwnsGlobal(o)})
  /\ activeCount = Cardinality({o \in Operations : pc[o] = "leased"})
  /\ \A k \in Classes :
       /\ class[k].active =
            Cardinality({o \in Operations : ClassOf[o] = k /\ OwnsClass(o)})
       /\ classActive[k] =
            Cardinality({o \in Operations : ClassOf[o] = k /\ pc[o] = "leased"})

(* No waiter stays in a line while a permit of that semaphore is free,     *)
(* after releases, timeouts and changes of the limit in any order.         *)
NoStrandedWaiter ==
  /\ NobodyStranded(global)
  /\ \A k \in Classes : NobodyStranded(class[k])

(* Connections are opened only within the limits in force: shrinking the   *)
(* limit leaves leases over it, but nobody comes to own a permit, not even *)
(* one that another gives back in the same step, until enough of them are  *)
(* back.                                                                   *)
OpensWithinLimits ==
  [][\A o \in Operations :
       /\ ~OwnsGlobal(o) /\ OwnsGlobal(o)' => global'.active <= global'.max
       /\ ~OwnsClass(o) /\ OwnsClass(o)' =>
            class'[ClassOf[o]].active <= class'[ClassOf[o]].max]_vars

(* Two semaphores held one after the other do not deadlock and starve      *)
(* nobody: even if no timer ever fires, an operation that waits gets its   *)
(* lease or fails.                                                         *)
WaitersAreServed ==
  \A o \in Operations : (pc[o] # "idle") ~> (pc[o] \in {"idle", "leased"})

=============================================================================
