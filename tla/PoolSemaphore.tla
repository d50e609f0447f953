--------------------------- MODULE PoolSemaphore ---------------------------
(***************************************************************************)
(* PoolSemaphore (lib/core/utils/pool_semaphore.dart): a FIFO semaphore    *)
(* whose limit can be changed while permits are out.  A semaphore is a     *)
(* record: its limit, the permits out, and the line of waiters (the        *)
(* completers of _waitQueue, each named by the acquirer that waits on it). *)
(* Every operation below runs to completion between two awaits.            *)
(***************************************************************************)
EXTENDS DartQueue, FiniteSetsExt

\* The semaphores on which members of S may wait.
Semaphores(S) == [max : Nat \ {0}, active : Nat, waiters : Seq(S)]

NewSemaphore(max) == [max |-> max, active |-> 0, waiters |-> << >>]

(* The waiters _drainWaiters hands a permit to: as many as there are       *)
(* permits, from the head of the line.                                     *)
Served(s) ==
  SubSeq(s.waiters, 1, Min({Len(s.waiters), Max({0, s.max - s.active})}))

DrainWaiters(s) ==
  [s EXCEPT !.active = @ + Len(Served(s)),
            !.waiters = SubSeq(@, Len(Served(s)) + 1, Len(@))]

HasPermit(s) == s.active < s.max

(* acquire without waiting, and with.                                      *)
TakePermit(s) == [s EXCEPT !.active = @ + 1]

\* Faulty: a new waiter goes to the front of the line.
WaitInFront(s, w) == [s EXCEPT !.waiters = << w >> \o @]

Wait(s, w) == [s EXCEPT !.waiters = Append(@, w)]

(* acquire's timeout: the waiter leaves the line, if it is still in it.    *)
IsWaiting(s, w) == w \in Range(s.waiters)
Leave(s, w) == [s EXCEPT !.waiters = Remove(@, w)]

(* release and resize, before they drain the line of waiters.              *)
GiveBack(s) == [s EXCEPT !.active = IF @ > 0 THEN @ - 1 ELSE @]
Resized(s, max) == [s EXCEPT !.max = max]

\* Faulty: hands its permit to the next waiter, whatever the limit is now.
ReleaseHandsOver(s) ==
  IF s.waiters = << >> THEN GiveBack(s) ELSE [s EXCEPT !.waiters = Tail(@)]

Release(s) == DrainWaiters(GiveBack(s))

(* Those whom release or resize woke up.                                   *)
Woken(before, after) == Range(before.waiters) \ Range(after.waiters)

\* Faulty: nobody is served when the limit grows.
ResizeUndrained(s, max) == Resized(s, max)

Resize(s, max) == DrainWaiters(Resized(s, max))

(* No waiter is left in the line while a permit is free.                   *)
NobodyStranded(s) == s.waiters # << >> => s.active >= s.max

=============================================================================
