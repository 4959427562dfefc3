--------------------------- MODULE AsyncSemaphore ---------------------------
(***************************************************************************)
(* asyncio.Semaphore of the Python 3.11 the project pins, as values.  The  *)
(* client never looks inside it: scheduler.run_mixed and executor.run_scan *)
(* only enter and leave it with "async with".  It is modelled because both *)
(* take their back-pressure from its waiting order.                        *)
(*                                                                         *)
(* A semaphore is a record: value counts the free permits, waiters is the  *)
(* queue of suspended acquirers, oldest first, and woken holds those of    *)
(* them a release has already given its permit to and that have not run    *)
(* since.  A woken acquirer stays in waiters until it runs.                *)
(***************************************************************************)
EXTENDS Naturals, Sequences

Members(s) == {s[k] : k \in DOMAIN s}

NewSemaphore(permits) == [value |-> permits, waiters |-> <<>>, woken |-> {}]

(* An acquire suspends when no permit is free or when anyone is queued.    *)
Locked(sem) == sem.value = 0 \/ sem.waiters # <<>>

Take(sem) == [sem EXCEPT !.value = @ - 1]

Enqueue(sem, i) == [sem EXCEPT !.waiters = Append(@, i)]

(* Positions of the waiters no release has served yet.                     *)
Pending(sem) == {k \in DOMAIN sem.waiters : sem.waiters[k] \notin sem.woken}

FirstPending(sem) ==
  sem.waiters[CHOOSE k \in Pending(sem) : \A j \in Pending(sem) : k <= j]

(* The permit goes straight to the oldest unserved waiter.                 *)
WakeNext(sem) ==
  IF sem.value > 0 /\ Pending(sem) # {}
  THEN [sem EXCEPT !.value = @ - 1, !.woken = @ \cup {FirstPending(sem)}]
  ELSE sem

(* Slip: a release that wakes nobody.                                      *)
ReleaseWithoutWake(sem) == [sem EXCEPT !.value = @ + 1]

Release(sem) == WakeNext([sem EXCEPT !.value = @ + 1])

(* deque.remove of one entry: the others close up.                         *)
Without(s, i) ==
  LET k == CHOOSE k \in DOMAIN s : s[k] = i
  IN  [j \in 1 .. Len(s) - 1 |-> IF j < k THEN s[j] ELSE s[j + 1]]

(* A woken acquirer leaves the queue with its permit.                      *)
Dequeue(sem, i) == [value   |-> sem.value,
                    waiters |-> Without(sem.waiters, i),
                    woken   |-> sem.woken \ {i}]

(* It also passes on a permit freed while only woken acquirers queued.     *)
Resume(sem, i) == WakeNext(Dequeue(sem, i))

(* Who a change from sem to next puts on the event loop's ready queue: at  *)
(* most one waiter, as the operations above serve at most one.             *)
QueueOf(W) == IF W = {} THEN <<>> ELSE <<CHOOSE i \in W : TRUE>>

NewlyWoken(sem, next) == QueueOf(next.woken \ sem.woken)

-----------------------------------------------------------------------------
(* What every operation above keeps: nobody queues twice, and only queued  *)
(* acquirers are served.                                                   *)
Distinct(s) == \A j, k \in DOMAIN s : s[j] = s[k] => j = k

WellFormed(sem, S) ==
  /\ sem \in [value : Nat, waiters : Seq(S), woken : SUBSET S]
  /\ Distinct(sem.waiters)
  /\ sem.woken \subseteq Members(sem.waiters)
=============================================================================
