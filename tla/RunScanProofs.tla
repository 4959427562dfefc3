---------------------------- MODULE RunScanProofs ----------------------------
(* run_scan keeps its promises for every schedule of segments, every list  *)
(* of cases and every limit.                                               *)
EXTENDS RunScan, SharedLemmas

LEMMA EventsAreNumbers ==
  /\ Events = 1 .. Len(Arrivals)
  /\ Len(Arrivals) \in Nat
  /\ Events \subseteq Nat
  /\ IsFiniteSet(Events)
  /\ Main \notin Events
  /\ \A i \in Events : /\ Arrivals[i].nominal \in Nat
                       /\ Arrivals[i].segment \in Nat
                       /\ Arrivals[i].position \in Nat
<1>1. /\ Len(Arrivals) \in Nat
      /\ Events = 1 .. Len(Arrivals)
      /\ Arrivals \in [1 .. Len(Arrivals) ->
                         [segment : Nat, position : Nat, nominal : Nat]]
  BY SegmentsAssumption, LenProperties DEF Events
<1>2. IsFiniteSet(1 .. Len(Arrivals))
  BY <1>1, FS_Interval
<1>. QED  BY <1>1, <1>2 DEF Main

LEMMA CaseOfEvent ==
  ASSUME NEW i \in Events
  PROVE  CaseNo(i) \in Nat /\ CaseOf(i).session \in SessionIds \cup {NoSession}
<1> DEFINE n == Len(Cases)
           p == Arrivals[i].position
<1>1. n \in Nat \ {0} /\ DOMAIN Cases = 1 .. n
  BY CasesAssumption, LenProperties, EmptySeq
<1>2. p \in Nat
  BY EventsAreNumbers
<1>3. CaseNo(i) = (p % n) + 1
  BY DEF CaseNo
<1> HIDE DEF n, p
<1>4. p % n \in 0 .. n - 1
  BY <1>1, <1>2
<1>5. CaseNo(i) \in 1 .. n
  BY <1>1, <1>3, <1>4
<1>6. Cases[CaseNo(i)] \in [session : SessionIds \cup {NoSession}]
  BY <1>1, <1>5, CasesAssumption, ElementOfSeq DEF n
<1>. QED  BY <1>1, <1>5, <1>6 DEF CaseOf

-----------------------------------------------------------------------------
(* The inductive invariant.                                                *)

(* Tasks suspended in the semaphore, inside its block, not started yet.    *)
Wait == {i \in Events : pc[i] = "waiting"}
Hold == {i \in Events : pc[i] \in {"sleeping", "in_flight"}}
Fresh == {i \in Events : pc[i] = "new"}

Accounts == Balanced(sem, Events, Wait, Hold, MaxConc) /\ NoneIdle(sem)

(* A task is made runnable only when what it awaited has happened.         *)
MayRun(i) ==
  \/ pc[i] \in {"new", "in_flight"}
  \/ pc[i] = "waiting" /\ i \in sem.woken
  \/ pc[i] = "sleeping" /\ now >= Arrivals[i].nominal

GatherCompleted == \/ \E i \in Events : pc[i] = "raised"
                   \/ \A i \in Events : pc[i] = "done"

ReadyQueue ==
  /\ Distinct(ready)
  /\ \A i \in Events : IsReady(i) => MayRun(i)
  /\ IsReady(Main) => GatherCompleted

(* All tasks take their first step, in their order, before any permit can  *)
(* come back.                                                              *)
Startup ==
  /\ Fresh \subseteq Members(ready)
  /\ Leading(ready, Fresh)
  /\ Fresh # {} => sem.woken = {}

(* The tasks no permit was given to yet: permits go to them in order.      *)
Outside == Fresh \cup (Wait \ sem.woken)

UpClosed(X) == \A i, j \in Events : i < j /\ i \in X => j \in X

InOrder == Ascending(sem.waiters) /\ UpClosed(Fresh) /\ UpClosed(Outside)

SentOnce ==
  \A i \in Events : sentAt[i] = Unsent <=> pc[i] \in {"new", "waiting", "sleeping"}

IInv ==
  /\ TypeOK
  /\ outcome = "running" =>
       Accounts /\ ReadyQueue /\ Startup /\ InOrder /\ SentOnce

-----------------------------------------------------------------------------
(* Moving one task to stage x changes the three sets by that task alone.   *)
LEMMA MoveTask ==
  ASSUME TypeOK, NEW i \in Events, NEW x \in Stages,
         pc' = [pc EXCEPT ![i] = x]
  PROVE  /\ pc' \in [Events -> Stages]
         /\ pc'[i] = x
         /\ \A j \in Events \ {i} : pc'[j] = pc[j]
         /\ Wait' = IF x = "waiting" THEN Wait \cup {i} ELSE Wait \ {i}
         /\ Hold' = IF x \in {"sleeping", "in_flight"}
                    THEN Hold \cup {i} ELSE Hold \ {i}
         /\ Fresh' = IF x = "new" THEN Fresh \cup {i} ELSE Fresh \ {i}
<1>1. /\ pc' \in [Events -> Stages]
      /\ pc'[i] = x
      /\ \A j \in Events \ {i} : pc'[j] = pc[j]
  BY DEF TypeOK
<1>2. Wait' = IF x = "waiting" THEN Wait \cup {i} ELSE Wait \ {i}
  BY <1>1 DEF Wait
<1>3. Hold' = IF x \in {"sleeping", "in_flight"}
              THEN Hold \cup {i} ELSE Hold \ {i}
  BY <1>1 DEF Hold
<1>4. Fresh' = IF x = "new" THEN Fresh \cup {i} ELSE Fresh \ {i}
  BY <1>1 DEF Fresh
<1>. QED  BY <1>1, <1>2, <1>3, <1>4

(* While there are tasks to start, the next one runs.                      *)
LEMMA FreshRunFirst ==
  ASSUME TypeOK, Startup, NEW i, Running(i), NEW j \in Fresh
  PROVE  i \in Fresh /\ i <= j
<1>1. ready \in Seq(Events \cup {Main}) /\ Head(ready) = i
  BY DEF TypeOK, Running
<1>2. j \in Fresh \cap Members(ready) /\ Fresh \subseteq Nat
  BY EventsAreNumbers DEF Startup, Fresh
<1>. QED  BY <1>1, <1>2, HeadLeads DEF Startup

(* The ready queue after the task at its head has run, q being what the    *)
(* step made runnable.                                                     *)
LEMMA RunHead ==
  ASSUME TypeOK, ReadyQueue, Startup,
         NEW i \in Events, Running(i), pc[i] \notin {"done", "raised"},
         NEW x \in Stages \ {"new"}, pc' = [pc EXCEPT ![i] = x],
         NEW q \in Seq(Events \cup {Main}), Distinct(q),
         ready' = Tail(ready) \o q,
         \A j \in Events \ {i} : MayRun(j) => MayRun(j)',
         \A j \in Members(q) \cap Events : MayRun(j)' /\ ~MayRun(j),
         Main \in Members(q) => GatherCompleted' /\ ~GatherCompleted,
         pc[i] = "new" => sem'.woken = sem.woken
  PROVE  ready' \in Seq(Events \cup {Main}) /\ ReadyQueue' /\ Startup'
<1>1. ready \in Seq(Events \cup {Main}) /\ ready # <<>> /\ Head(ready) = i
  BY DEF TypeOK, Running
<1>2. /\ Tail(ready) \in Seq(Events \cup {Main})
      /\ Distinct(Tail(ready))
      /\ Members(Tail(ready)) = Members(ready) \ {i}
  BY <1>1, TailMembers DEF ReadyQueue
<1>3. Members(Tail(ready)) \cap Members(q) = {}
  <2>1. Members(q) \subseteq Events \cup {Main}
    BY MembersOfSeq
  <2>. QED  BY <1>2, <2>1 DEF ReadyQueue, IsReady
<1>4. /\ ready' \in Seq(Events \cup {Main})
      /\ Members(ready') = (Members(ready) \ {i}) \cup Members(q)
      /\ Distinct(ready')
  <2> DEFINE rest == Tail(ready)
  <2>1. rest \in Seq(Events \cup {Main}) /\ Distinct(rest)
        /\ Members(rest) = Members(ready) \ {i}
    BY <1>2
  <2>2. Members(rest) \cap Members(q) = {} /\ ready' = rest \o q
    BY <1>3
  <2> HIDE DEF rest
  <2>3. /\ rest \o q \in Seq(Events \cup {Main})
        /\ Members(rest \o q) = Members(rest) \cup Members(q)
        /\ Distinct(rest \o q)
    BY <2>1, <2>2, ConcatMembers
  <2>. QED  BY <2>1, <2>2, <2>3
<1>5. \A j \in Events : IsReady(j)' => MayRun(j)'
  <2> SUFFICES ASSUME NEW j \in Events, j \in Members(ready')
               PROVE  MayRun(j)'
    BY DEF IsReady
  <2>1. CASE j \in Members(q)
    BY <2>1
  <2>2. CASE j \in Members(ready) \ {i}
    BY <2>2 DEF ReadyQueue, IsReady
  <2>. QED  BY <1>4, <2>1, <2>2
<1>6. IsReady(Main)' => GatherCompleted'
  <2>1. GatherCompleted => GatherCompleted'
    <3>1. /\ \A j \in Events \ {i} : pc'[j] = pc[j]
          /\ pc[i] # "raised" /\ pc[i] # "done"
      BY DEF TypeOK
    <3>. QED  BY <3>1 DEF GatherCompleted
  <2>2. Main \in Members(ready') => Main \in Members(ready) \cup Members(q)
    BY <1>4
  <2>. QED  BY <2>1, <2>2 DEF ReadyQueue, IsReady
<1>7. Startup'
  <2>1. Fresh' = Fresh \ {i}
    BY MoveTask
  <2>2. Members(q) \cap Fresh = {}
    BY DEF Fresh, MayRun
  <2>3. Leading(ready', Fresh')
    <3>1. Fresh \subseteq Nat
      BY EventsAreNumbers DEF Fresh
    <3>2. Leading(Tail(ready) \o q, Fresh \ {Head(ready)})
      BY <1>1, <2>2, <3>1, RestLeads DEF Startup, ReadyQueue
    <3>. QED  BY <1>1, <2>1, <3>2
  <2>4. Fresh' \subseteq Members(ready')
    BY <1>4, <2>1 DEF Startup
  <2>5. Fresh' # {} => sem'.woken = {}
    <3> SUFFICES ASSUME NEW j \in Fresh' PROVE sem'.woken = {}
      OBVIOUS
    <3>1. j \in Fresh
      BY <2>1
    <3>2. pc[i] = "new"
      BY <3>1, FreshRunFirst DEF Fresh
    <3>. QED  BY <3>1, <3>2 DEF Startup
  <2>. QED  BY <2>3, <2>4, <2>5 DEF Startup
<1>. QED  BY <1>4, <1>5, <1>6, <1>7 DEF ReadyQueue

-----------------------------------------------------------------------------
(* Those who leave a set that is closed upwards in their order leave it so. *)
LEMMA LeaveInOrder ==
  ASSUME NEW X, X \subseteq Events, UpClosed(X),
         NEW Y, Y \subseteq X, \A d \in X \ Y, j \in X : d <= j
  PROVE  UpClosed(Y)
<1> SUFFICES ASSUME NEW i \in Events, NEW j \in Events, i < j, i \in Y
             PROVE  j \in Y
  BY DEF UpClosed
<1>1. j \in X
  BY DEF UpClosed
<1>2. i \in Nat /\ j \in Nat
  BY EventsAreNumbers
<1>. QED  BY <1>1, <1>2

(* The receipt of a step for the send times: x is where task i went.       *)
SendsOnce(i, x) ==
  \/ /\ pc[i] \in {"new", "waiting", "sleeping"}
     /\ x \in {"waiting", "sleeping"} /\ sentAt' = sentAt
  \/ x = "in_flight" /\ sentAt' = [sentAt EXCEPT ![i] = now]
  \/ pc[i] = "in_flight" /\ x \in {"done", "raised"} /\ sentAt' = sentAt

(* A step of task i keeps the invariant if it keeps the semaphore's        *)
(* account and queue, and if those who got a permit were first in turn.    *)
LEMMA TaskKeepsIInv ==
  ASSUME TypeOK, Startup, InOrder, SentOnce, outcome = "running",
         NEW i \in Events, Running(i),
         NEW x \in Stages \ {"new"}, pc' = [pc EXCEPT ![i] = x],
         Accounts', Ascending(sem'.waiters),
         Outside' \subseteq Outside,
         \A d \in Outside \ Outside', j \in Outside : d <= j,
         ready' \in Seq(Events \cup {Main}), ReadyQueue', Startup',
         SendsOnce(i, x), prompt' \in [Events -> Seq(Messages)],
         now' = now, verdict' = verdict, outcome' = outcome,
         sessions' \in [SessionIds -> Seq(Messages)],
         records' \in Seq(Receipts)
  PROVE  IInv'
<1>1. /\ pc' \in [Events -> Stages] /\ Fresh' = Fresh \ {i}
      /\ pc'[i] = x /\ \A j \in Events \ {i} : pc'[j] = pc[j]
  BY MoveTask
<1>2. UpClosed(Fresh')
  <2>1. CASE i \in Fresh
    <3>1. \A d \in Fresh \ Fresh', j \in Fresh : d <= j
      BY <1>1, FreshRunFirst
    <3>2. Fresh \subseteq Events
      BY DEF Fresh
    <3>3. Fresh' \subseteq Fresh
      BY <1>1
    <3>. QED  BY <3>1, <3>2, <3>3, LeaveInOrder DEF InOrder
  <2>2. CASE i \notin Fresh
    <3>1. Fresh \ {i} = Fresh
      BY <2>2
    <3>. QED  BY <1>1, <3>1 DEF InOrder
  <2>. QED  BY <2>1, <2>2
<1>3. UpClosed(Outside')
  <2>1. Outside \subseteq Events
    BY DEF Outside, Fresh, Wait
  <2>. QED  BY <2>1, LeaveInOrder DEF InOrder
<1>4. InOrder'
  BY <1>2, <1>3 DEF InOrder, UpClosed
<1>5. sentAt' \in [Events -> Nat \cup {Unsent}] /\ SentOnce'
  <2>1. now \in Nat /\ Unsent \notin Nat
    BY ScanLimitsAssumption DEF TypeOK, Unsent
  <2>2. sentAt \in [Events -> Nat \cup {Unsent}]
    BY DEF TypeOK
  <2>3. CASE /\ pc[i] \in {"new", "waiting", "sleeping"}
             /\ x \in {"waiting", "sleeping"} /\ sentAt' = sentAt
    BY <1>1, <2>2, <2>3 DEF SentOnce
  <2>4. CASE x = "in_flight" /\ sentAt' = [sentAt EXCEPT ![i] = now]
    <3>1. sentAt' \in [Events -> Nat \cup {Unsent}] /\ sentAt'[i] # Unsent
          /\ \A j \in Events \ {i} : sentAt'[j] = sentAt[j]
      BY <2>1, <2>2, <2>4
    <3>. QED  BY <1>1, <2>4, <3>1 DEF SentOnce
  <2>5. CASE pc[i] = "in_flight" /\ x \in {"done", "raised"} /\ sentAt' = sentAt
    BY <1>1, <2>2, <2>5 DEF SentOnce
  <2>. QED  BY <2>3, <2>4, <2>5 DEF SendsOnce
<1>6. sem' \in Semaphores
  BY DEF Accounts, Balanced, WellFormed, Semaphores
<1>7. TypeOK'
  BY <1>1, <1>5, <1>6 DEF TypeOK
<1>. QED  BY <1>4, <1>5, <1>7 DEF IInv

-----------------------------------------------------------------------------
(* The steps of a task.                                                    *)
LEMMA HistoryType ==
  ASSUME TypeOK, NEW i \in Events
  PROVE  History(i) \in Seq(Messages)
<1>1. CaseOf(i).session \in SessionIds \cup {NoSession}
  BY CaseOfEvent
<1>2. <<>> \in Seq(Messages)
  BY EmptySeq
<1>. QED  BY <1>1, <1>2 DEF History, TypeOK

LEMMA SendEffect ==
  ASSUME TypeOK, NEW i \in Events, Send(i)
  PROVE  /\ pc' = [pc EXCEPT ![i] = "in_flight"]
         /\ SendsOnce(i, "in_flight")
         /\ prompt' \in [Events -> Seq(Messages)]
BY HistoryType DEF Send, SendsOnce, TypeOK

(* A task with a permit is inside the block, whether it sends or sleeps.   *)
LEMMA ProceedEffect ==
  ASSUME TypeOK, NEW i \in Events, Proceed(i), pc[i] \in {"new", "waiting"}
  PROVE  \E x \in {"sleeping", "in_flight"} :
           /\ pc' = [pc EXCEPT ![i] = x]
           /\ SendsOnce(i, x)
           /\ prompt' \in [Events -> Seq(Messages)]
<1>1. CASE now < Arrivals[i].nominal
  BY <1>1 DEF Proceed, SendsOnce, TypeOK
<1>2. CASE ~(now < Arrivals[i].nominal)
  BY <1>2, SendEffect DEF Proceed
<1>. QED  BY <1>1, <1>2

(* What a step without wake-ups does to the queue.                         *)
LEMMA RunHeadAlone ==
  ASSUME TypeOK, ReadyQueue, Startup,
         NEW i \in Events, Running(i), pc[i] \notin {"done", "raised"},
         NEW x \in Stages \ {"new"}, pc' = [pc EXCEPT ![i] = x],
         ready' = Tail(ready), sem'.woken = sem.woken, now' = now
  PROVE  ready' \in Seq(Events \cup {Main}) /\ ReadyQueue' /\ Startup'
<1>1. /\ <<>> \in Seq(Events \cup {Main}) /\ Distinct(<<>>)
      /\ Members(<<>>) = {}
  BY EmptySeq DEF Distinct, Members
<1>2. ready' = Tail(ready) \o <<>>
  <2>1. Tail(ready) \in Seq(Events \cup {Main})
    BY HeadTailProperties DEF TypeOK, Running
  <2>. QED  BY <2>1, ConcatEmptySeq
<1>3. \A j \in Events \ {i} : MayRun(j) => MayRun(j)'
  <2>1. \A j \in Events \ {i} : pc'[j] = pc[j]
    BY DEF TypeOK
  <2>. QED  BY <2>1 DEF MayRun
<1>. QED  BY <1>1, <1>2, <1>3, RunHead

LEMMA StartTaskStep ==
  ASSUME IInv, outcome = "running", NEW i \in Events, StartTask(i)
  PROVE  IInv'
<1>1. /\ TypeOK /\ Accounts /\ ReadyQueue /\ Startup /\ InOrder /\ SentOnce
      /\ IsFiniteSet(Events) /\ Events \subseteq Nat
  BY EventsAreNumbers DEF IInv
<1>2. /\ Running(i) /\ pc[i] = "new" /\ ready' = Tail(ready)
      /\ UNCHANGED <<now, sessions, verdict, records, outcome>>
  BY DEF StartTask
<1>3. /\ i \in Fresh /\ i \notin Wait /\ i \notin Hold
      /\ \A j \in Fresh : i <= j
      /\ Wait \ {i} = Wait
  BY <1>1, <1>2, FreshRunFirst DEF Fresh, Wait, Hold
<1>4. /\ Balanced(sem, Events, Wait, Hold, MaxConc) /\ NoneIdle(sem)
      /\ WellFormed(sem, Events) /\ Members(sem.waiters) = Wait
      /\ Unserved(sem) = Wait \ sem.woken
  BY <1>1 DEF Accounts, Balanced, Unserved
<1>5. CASE Locked(sem)
  <2>1. /\ sem' = Enqueue(sem, i)
        /\ pc' = [pc EXCEPT ![i] = "waiting"]
        /\ sentAt' = sentAt /\ prompt' = prompt
    BY <1>5 DEF StartTask
  <2>2. Wait' = Wait \cup {i} /\ Hold' = Hold /\ Fresh' = Fresh \ {i}
    <3>1. /\ Wait' = Wait \cup {i} /\ Hold' = Hold \ {i}
          /\ Fresh' = Fresh \ {i}
      BY <1>1, <2>1, MoveTask DEF Stages
    <3>2. Hold \ {i} = Hold
      BY <1>3
    <3>. QED  BY <3>1, <3>2
  <2>3. /\ Balanced(sem', Events, Wait', Hold', MaxConc)
        /\ sem'.woken = sem.woken
    BY <1>3, <1>4, <1>5, <2>1, <2>2, EnqueueBalanced
  <2>4. sem.woken = {}
    BY <1>1, <1>3 DEF Startup
  <2>5. NoneIdle(sem')
    <3>1. sem.value = 0
      BY <1>4, <1>5, <2>4, WaitersAndPending DEF NoneIdle, Locked
    <3>2. sem'.value = sem.value
      BY <2>1 DEF Enqueue
    <3>. QED  BY <3>1, <3>2 DEF NoneIdle
  <2>6. Ascending(sem'.waiters)
    <3>1. \A j \in Wait : j < i
      <4> SUFFICES ASSUME NEW j \in Wait PROVE j < i
        OBVIOUS
      <4>1. j \in Events /\ j \notin Fresh
        BY DEF Wait, Fresh
      <4>2. ~(i < j) /\ i # j
        BY <1>1, <1>3, <4>1 DEF InOrder, UpClosed
      <4>. QED  BY <1>1, <4>1, <4>2
    <3>. QED  BY <1>1, <1>4, <2>1, <3>1, EnqueueInTurn DEF InOrder
  <2>7. Outside' = Outside
    BY <1>3, <2>2, <2>3, <2>4 DEF Outside
  <2>8. "waiting" \in Stages \ {"new"} /\ SendsOnce(i, "waiting")
    BY <1>2, <2>1 DEF Stages, SendsOnce
  <2>9. ready' \in Seq(Events \cup {Main}) /\ ReadyQueue' /\ Startup'
    BY <1>1, <1>2, <2>1, <2>3, <2>8, RunHeadAlone
  <2>10. /\ Accounts' /\ prompt' \in [Events -> Seq(Messages)]
         /\ sessions' \in [SessionIds -> Seq(Messages)]
         /\ records' \in Seq(Receipts)
    BY <1>1, <1>2, <2>1, <2>3, <2>5 DEF Accounts, TypeOK
  <2>. QED
    BY <1>1, <1>2, <2>1, <2>6, <2>7, <2>8, <2>9, <2>10, TaskKeepsIInv
<1>6. CASE ~Locked(sem)
  <2>1. sem' = Take(sem) /\ Proceed(i)
    BY <1>6 DEF StartTask
  <2>2. PICK x \in {"sleeping", "in_flight"} :
          /\ pc' = [pc EXCEPT ![i] = x]
          /\ SendsOnce(i, x)
          /\ prompt' \in [Events -> Seq(Messages)]
    BY <1>1, <1>2, <2>1, ProceedEffect
  <2>3. x \in Stages \ {"new"} /\ x # "waiting"
    BY DEF Stages
  <2>4. /\ Wait' = Wait /\ Hold' = Hold \cup {i} /\ Fresh' = Fresh \ {i}
    BY <1>1, <1>3, <2>2, <2>3, MoveTask
  <2>5. /\ Balanced(sem', Events, Wait', Hold', MaxConc)
        /\ sem'.woken = sem.woken /\ sem'.waiters = sem.waiters
    BY <1>1, <1>3, <1>4, <1>6, <2>1, <2>4, TakeBalanced, TakeEffect
  <2>6. Wait = {}
    BY <1>4, <1>6, WaitersAndPending DEF Locked
  <2>7. NoneIdle(sem') /\ Ascending(sem'.waiters)
    BY <1>1, <1>4, <2>5, <2>6 DEF NoneIdle, Unserved, InOrder
  <2>8. /\ Outside' \subseteq Outside
        /\ \A d \in Outside \ Outside', j \in Outside : d <= j
    BY <1>3, <2>4, <2>5, <2>6 DEF Outside
  <2>9. ready' \in Seq(Events \cup {Main}) /\ ReadyQueue' /\ Startup'
    BY <1>1, <1>2, <2>2, <2>3, <2>5, RunHeadAlone
  <2>10. /\ Accounts'
         /\ sessions' \in [SessionIds -> Seq(Messages)]
         /\ records' \in Seq(Receipts)
    BY <1>1, <1>2, <2>5, <2>7 DEF Accounts, TypeOK
  <2>. QED
    BY <1>1, <1>2, <2>2, <2>3, <2>7, <2>8, <2>9, <2>10, TaskKeepsIInv
<1>. QED  BY <1>5, <1>6

(* Waiters the semaphore serves could not run before, and were the first   *)
(* of all who had no permit.                                               *)
LEMMA ServedFirst ==
  ASSUME Accounts, InOrder, NEW next,
         Served(sem, next, Events, Wait), InTurn(sem, next)
  PROVE  /\ NewlyWoken(sem, next) \in Seq(Events \cup {Main})
         /\ Distinct(NewlyWoken(sem, next))
         /\ \A j \in Members(NewlyWoken(sem, next)) :
              /\ j \in Events /\ pc[j] = "waiting"
              /\ ~MayRun(j) /\ j \in next.woken
         /\ \A d \in next.woken \ sem.woken, j \in Outside : d <= j
<1>1. \A j \in Members(NewlyWoken(sem, next)) :
        j \in Wait /\ j \notin sem.woken /\ j \in next.woken
  BY DEF Served
<1>2. \A j \in Members(NewlyWoken(sem, next)) :
        /\ j \in Events /\ pc[j] = "waiting"
        /\ ~MayRun(j) /\ j \in next.woken
  BY <1>1 DEF MayRun, Wait
<1>3. NewlyWoken(sem, next) \in Seq(Events \cup {Main})
  BY SeqMonotonic DEF Served
<1>4. ASSUME NEW d \in next.woken \ sem.woken, NEW j \in Outside
      PROVE  d <= j
  <2>1. d \in Wait
    BY <1>1 DEF Served
  <2>2. CASE j \in Wait \ sem.woken
    <3>1. j \in Unserved(sem)
      BY <2>2 DEF Unserved, Accounts, Balanced
    <3>. QED  BY <3>1 DEF InTurn
  <2>3. CASE j \in Fresh
    <3>1. d \in Events /\ j \in Events /\ d \notin Fresh
      BY <2>1, <2>3 DEF Wait, Fresh
    <3>2. ~(j < d)
      BY <2>3, <3>1 DEF InOrder, UpClosed
    <3>. QED  BY <3>1, <3>2, EventsAreNumbers
  <2>. QED  BY <2>2, <2>3 DEF Outside
<1>. QED  BY <1>2, <1>3, <1>4 DEF Served

LEMMA GetPermitStep ==
  ASSUME IInv, outcome = "running", NEW i \in Events, GetPermit(i)
  PROVE  IInv'
<1> DEFINE q == NewlyWoken(sem, Resume(sem, i))
<1>1. /\ TypeOK /\ Accounts /\ ReadyQueue /\ Startup /\ InOrder /\ SentOnce
      /\ IsFiniteSet(Events) /\ Events \subseteq Nat
  BY EventsAreNumbers DEF IInv
<1>2. /\ Running(i) /\ pc[i] = "waiting"
      /\ sem' = Resume(sem, i)
      /\ ready' = Tail(ready) \o q
      /\ Proceed(i)
      /\ UNCHANGED <<now, sessions, verdict, records, outcome>>
  BY DEF GetPermit
<1>3. /\ Balanced(sem, Events, Wait, Hold, MaxConc) /\ NoneIdle(sem)
      /\ WellFormed(sem, Events) /\ Ascending(sem.waiters)
  BY <1>1 DEF Accounts, Balanced, InOrder
<1>4. i \in sem.woken
  <2>1. i \in Members(ready)
    BY <1>1, <1>2, TailMembers DEF Running, TypeOK, ReadyQueue
  <2>. QED  BY <1>1, <1>2, <2>1 DEF ReadyQueue, IsReady, MayRun
<1>5. /\ Balanced(Resume(sem, i), Events, Wait \ {i}, Hold \cup {i}, MaxConc)
      /\ Served(sem, Resume(sem, i), Events, Wait)
      /\ i \notin Resume(sem, i).woken
  BY <1>1, <1>3, <1>4, ResumeBalanced
<1>6. /\ InTurn(sem, Resume(sem, i)) /\ NoneIdle(Resume(sem, i))
      /\ sem.woken \ {i} \subseteq Resume(sem, i).woken
  BY <1>1, <1>3, <1>4, ResumeInTurn, ResumeKeepsWoken
<1>7. PICK x \in {"sleeping", "in_flight"} :
        /\ pc' = [pc EXCEPT ![i] = x]
        /\ SendsOnce(i, x)
        /\ prompt' \in [Events -> Seq(Messages)]
  BY <1>1, <1>2, ProceedEffect
<1>8. x \in Stages \ {"new"} /\ x # "waiting"
  BY DEF Stages
<1>9. /\ Wait' = Wait \ {i} /\ Hold' = Hold \cup {i} /\ Fresh' = Fresh
  <2>1. i \notin Fresh /\ Fresh \ {i} = Fresh
    BY <1>2 DEF Fresh
  <2>. QED  BY <1>1, <1>7, <1>8, <2>1, MoveTask
<1>10. Accounts' /\ Ascending(sem'.waiters)
  BY <1>2, <1>5, <1>6, <1>9 DEF Accounts, InTurn
<1>11. /\ q \in Seq(Events \cup {Main}) /\ Distinct(q)
       /\ \A j \in Members(q) :
            /\ j \in Events /\ pc[j] = "waiting"
            /\ ~MayRun(j) /\ j \in sem'.woken
       /\ \A d \in sem'.woken \ sem.woken, j \in Outside : d <= j
  BY <1>1, <1>2, <1>5, <1>6, ServedFirst
<1>12. /\ Outside' \subseteq Outside
       /\ Outside \ Outside' \subseteq sem'.woken \ sem.woken
  BY <1>2, <1>4, <1>6, <1>9 DEF Outside
<1> HIDE DEF q
<1>13. \A j \in Events \ {i} : pc'[j] = pc[j]
  BY <1>1, <1>7 DEF TypeOK
<1>14. \A j \in Events \ {i} : MayRun(j) => MayRun(j)'
  BY <1>2, <1>6, <1>13 DEF MayRun
<1>15. \A j \in Members(q) \cap Events : MayRun(j)' /\ ~MayRun(j)
  <2> SUFFICES ASSUME NEW j \in Members(q) \cap Events
               PROVE  MayRun(j)' /\ ~MayRun(j)
    OBVIOUS
  <2>1. i \notin Members(q)
    BY <1>5, <1>2, <1>11
  <2>2. pc'[j] = "waiting" /\ ~MayRun(j) /\ j \in sem'.woken
    BY <1>11, <1>13, <2>1
  <2>. QED  BY <2>2 DEF MayRun
<1>16. Main \notin Members(q)
  BY <1>11, EventsAreNumbers
<1>17. ready' \in Seq(Events \cup {Main}) /\ ReadyQueue' /\ Startup'
  BY <1>1, <1>2, <1>7, <1>8, <1>11, <1>14, <1>15, <1>16, RunHead
<1>18. /\ sessions' \in [SessionIds -> Seq(Messages)]
       /\ records' \in Seq(Receipts)
       /\ \A d \in Outside \ Outside', j \in Outside : d <= j
  BY <1>1, <1>2, <1>11, <1>12 DEF TypeOK
<1>. QED
  BY <1>1, <1>2, <1>7, <1>8, <1>10, <1>12, <1>17, <1>18, TaskKeepsIInv

LEMMA WakeAndSendStep ==
  ASSUME IInv, outcome = "running", NEW i \in Events, WakeAndSend(i)
  PROVE  IInv'
<1>1. /\ TypeOK /\ Accounts /\ ReadyQueue /\ Startup /\ InOrder /\ SentOnce
  BY DEF IInv
<1>2. /\ Running(i) /\ pc[i] = "sleeping"
      /\ ready' = Tail(ready)
      /\ Send(i)
      /\ UNCHANGED <<now, sem, sessions, verdict, records, outcome>>
  BY DEF WakeAndSend
<1>3. /\ pc' = [pc EXCEPT ![i] = "in_flight"] /\ SendsOnce(i, "in_flight")
      /\ prompt' \in [Events -> Seq(Messages)]
      /\ "in_flight" \in Stages \ {"new"}
  BY <1>1, <1>2, SendEffect DEF Stages
<1>4. Wait' = Wait /\ Hold' = Hold /\ Fresh' = Fresh
  <2>1. Wait \ {i} = Wait /\ Fresh \ {i} = Fresh
    BY <1>2 DEF Wait, Fresh
  <2>2. Hold \cup {i} = Hold
    BY <1>2 DEF Hold
  <2>. QED  BY <1>1, <1>3, <2>1, <2>2, MoveTask
<1>5. Accounts' /\ Ascending(sem'.waiters) /\ Outside' = Outside
  BY <1>1, <1>2, <1>4 DEF Accounts, InOrder, Outside
<1>6. ready' \in Seq(Events \cup {Main}) /\ ReadyQueue' /\ Startup'
  BY <1>1, <1>2, <1>3, RunHeadAlone
<1>7. /\ sessions' \in [SessionIds -> Seq(Messages)]
      /\ records' \in Seq(Receipts)
  BY <1>1, <1>2 DEF TypeOK
<1>. QED
  BY <1>1, <1>2, <1>3, <1>5, <1>6, <1>7, TaskKeepsIInv

(* The permit is given back in the step that ends the request, with a      *)
(* receipt or with an exception.                                           *)
LEMMA EndRequestStep ==
  ASSUME IInv, outcome = "running", NEW i \in Events,
         Running(i), pc[i] = "in_flight",
         NEW x \in {"done", "raised"}, pc' = [pc EXCEPT ![i] = x],
         x = "raised" <=> verdict[i] = "exception",
         ReleasePermit(i),
         UNCHANGED <<now, sentAt, prompt, verdict, outcome>>,
         sessions' \in [SessionIds -> Seq(Messages)],
         records' \in Seq(Receipts)
  PROVE  IInv'
<1> DEFINE qS == NewlyWoken(sem, Release(sem))
           qM == IF GatherDone(i) THEN <<Main>> ELSE <<>>
           q == qS \o qM
           Runnable == Events \cup {Main}
<1>1. /\ TypeOK /\ Accounts /\ ReadyQueue /\ Startup /\ InOrder /\ SentOnce
      /\ IsFiniteSet(Events) /\ Events \subseteq Nat
  BY EventsAreNumbers DEF IInv
<1>2. sem' = Release(sem) /\ ready' = Tail(ready) \o qS \o qM
  BY DEF ReleasePermit
<1>3. /\ Balanced(sem, Events, Wait, Hold, MaxConc) /\ NoneIdle(sem)
      /\ WellFormed(sem, Events) /\ Ascending(sem.waiters)
  BY <1>1 DEF Accounts, Balanced, InOrder
<1>4. i \notin Wait /\ i \in Hold /\ i \notin Fresh
  BY DEF Wait, Hold, Fresh
<1>5. x \in Stages \ {"new"} /\ x \notin {"waiting", "sleeping", "in_flight"}
  BY DEF Stages
<1>6. Wait' = Wait /\ Hold' = Hold \ {i} /\ Fresh' = Fresh
  <2>1. Wait \ {i} = Wait /\ Fresh \ {i} = Fresh
    BY <1>4
  <2>. QED  BY <1>1, <1>5, <2>1, MoveTask
<1>7. /\ Balanced(Release(sem), Events, Wait, Hold \ {i}, MaxConc)
      /\ Served(sem, Release(sem), Events, Wait)
  BY <1>1, <1>3, <1>4, ReleaseBalanced
<1>8. /\ InTurn(sem, Release(sem)) /\ NoneIdle(Release(sem))
      /\ sem.woken \subseteq Release(sem).woken
  BY <1>1, <1>3, ReleaseInTurn, ReleaseKeepsWoken
<1>9. Accounts' /\ Ascending(sem'.waiters)
  BY <1>2, <1>6, <1>7, <1>8 DEF Accounts, InTurn
<1>10. /\ qS \in Seq(Runnable) /\ Distinct(qS)
       /\ \A j \in Members(qS) :
            /\ j \in Events /\ pc[j] = "waiting"
            /\ ~MayRun(j) /\ j \in sem'.woken
       /\ \A d \in sem'.woken \ sem.woken, j \in Outside : d <= j
  BY <1>1, <1>2, <1>7, <1>8, ServedFirst
<1>11. /\ Outside' \subseteq Outside
       /\ \A d \in Outside \ Outside', j \in Outside : d <= j
  <2>1. /\ Outside' \subseteq Outside
        /\ Outside \ Outside' \subseteq sem'.woken \ sem.woken
    BY <1>2, <1>6, <1>8 DEF Outside
  <2>. QED  BY <1>10, <2>1
<1>12. /\ qM \in Seq(Runnable) /\ Distinct(qM)
       /\ Members(qM) \subseteq {Main}
       /\ Main \in Members(qM) => GatherDone(i)
  <2>1. CASE GatherDone(i)
    <3>1. <<Main>> \in Seq(Runnable) /\ DOMAIN <<Main>> = {1} /\ <<Main>>[1] = Main
      OBVIOUS
    <3>. QED  BY <2>1, <3>1 DEF Distinct, Members
  <2>2. CASE ~GatherDone(i)
    <3>1. <<>> \in Seq(Runnable) /\ DOMAIN <<>> = {}
      BY EmptySeq
    <3>. QED  BY <2>2, <3>1 DEF Distinct, Members
  <2>. QED  BY <2>1, <2>2
<1> HIDE DEF qS, qM
<1>13. /\ q \in Seq(Runnable) /\ Distinct(q)
       /\ Members(q) = Members(qS) \cup Members(qM)
  <2>1. Members(qS) \cap Members(qM) = {}
    BY <1>10, <1>12, EventsAreNumbers
  <2>. QED  BY <1>10, <1>12, <2>1, ConcatMembers
<1>14. ready' = Tail(ready) \o q
  <2> DEFINE rest == Tail(ready)
  <2>1. rest \in Seq(Runnable) /\ ready' = (rest \o qS) \o qM
    BY <1>1, <1>2, HeadTailProperties DEF TypeOK, Running
  <2> HIDE DEF rest, Runnable
  <2>2. ready' = rest \o (qS \o qM)
    BY <1>10, <1>12, <2>1, ConcatAssociative
  <2>. QED  BY <2>2 DEF rest
<1> HIDE DEF q
<1>15. \A j \in Events \ {i} : pc'[j] = pc[j]
  BY <1>1 DEF TypeOK
<1>16. \A j \in Events \ {i} : MayRun(j) => MayRun(j)'
  BY <1>2, <1>8, <1>15 DEF MayRun
<1>17. \A j \in Members(q) \cap Events : MayRun(j)' /\ ~MayRun(j)
  <2> SUFFICES ASSUME NEW j \in Members(q) \cap Events
               PROVE  MayRun(j)' /\ ~MayRun(j)
    OBVIOUS
  <2>1. j \in Members(qS)
    BY <1>12, <1>13, EventsAreNumbers
  <2>2. pc'[j] = "waiting" /\ ~MayRun(j) /\ j \in sem'.woken
    BY <1>10, <1>15, <2>1
  <2>. QED  BY <2>2 DEF MayRun
<1>18. Main \in Members(q) => GatherCompleted' /\ ~GatherCompleted
  <2> SUFFICES ASSUME Main \in Members(q)
               PROVE  GatherCompleted' /\ ~GatherCompleted
    OBVIOUS
  <2>1. GatherDone(i)
    BY <1>10, <1>12, <1>13, EventsAreNumbers
  <2>2. pc'[i] = x
    BY <1>1 DEF TypeOK
  <2>3. CASE verdict[i] = "exception" /\ \A j \in Events : pc[j] # "raised"
    BY <2>2, <2>3 DEF GatherCompleted
  <2>4. CASE verdict[i] # "exception" /\ \A j \in Events \ {i} : pc[j] = "done"
    BY <1>15, <2>2, <2>4 DEF GatherCompleted
  <2>. QED  BY <2>1, <2>3, <2>4 DEF GatherDone
<1>19. ready' \in Seq(Events \cup {Main}) /\ ReadyQueue' /\ Startup'
  BY <1>1, <1>5, <1>13, <1>14, <1>16, <1>17, <1>18, RunHead
<1>20. SendsOnce(i, x) /\ prompt' \in [Events -> Seq(Messages)]
  BY <1>1 DEF SendsOnce, TypeOK
<1>. QED  BY <1>1, <1>5, <1>9, <1>11, <1>19, <1>20, TaskKeepsIInv

LEMMA TurnsType ==
  ASSUME NEW i \in Events, NEW v
  PROVE  Turns(i, v) \in Seq(Messages)
<1> DEFINE user == [role |-> "user", case |-> CaseNo(i)]
           reply == [role |-> "assistant", case |-> CaseNo(i)]
<1>1. user \in Messages /\ reply \in Messages
  BY CaseOfEvent DEF Messages
<1>2. Turns(i, v) = IF v = "ok" THEN <<user, reply>> ELSE <<user>>
  BY DEF Turns
<1> HIDE DEF user, reply
<1>. QED  BY <1>1, <1>2

(* The history stays a list of messages.                                   *)
LEMMA UpdateHistoryType ==
  ASSUME TypeOK, NEW i \in Events, UpdateHistory(i)
  PROVE  sessions' \in [SessionIds -> Seq(Messages)]
<1> DEFINE s == CaseOf(i).session
           turns == Turns(i, verdict[i])
<1>1. s \in SessionIds \cup {NoSession} /\ turns \in Seq(Messages)
  BY CaseOfEvent, TurnsType
<1>2. CASE s = NoSession
  BY <1>2 DEF UpdateHistory, TypeOK
<1>3. CASE s # NoSession
  <2>1. sessions' = [sessions EXCEPT ![s] = @ \o turns]
    BY <1>3 DEF UpdateHistory
  <2> HIDE DEF s, turns
  <2>2. sessions[s] \o turns \in Seq(Messages)
    BY <1>1, <1>3, ConcatProperties DEF TypeOK
  <2>. QED  BY <2>1, <2>2 DEF TypeOK
<1>. QED  BY <1>2, <1>3

LEMMA RecordReceiptStep ==
  ASSUME IInv, outcome = "running", NEW i \in Events, RecordReceipt(i)
  PROVE  IInv'
<1> DEFINE r == [event |-> i, sendlag |-> now - Arrivals[i].nominal,
              verdict |-> verdict[i]]
<1>1. /\ Running(i) /\ pc[i] = "in_flight"
      /\ verdict[i] \in {"ok", "failed"} /\ verdict[i] # "exception"
      /\ pc' = [pc EXCEPT ![i] = "done"]
      /\ ReleasePermit(i)
      /\ UNCHANGED <<now, sentAt, prompt, verdict, outcome>>
      /\ UpdateHistory(i)
      /\ records' = Append(records, r)
  BY DEF RecordReceipt
<1>2. sessions' \in [SessionIds -> Seq(Messages)]
  BY <1>1, UpdateHistoryType DEF IInv
<1>3. r \in Receipts
  <2>1. now \in Int /\ Arrivals[i].nominal \in Int
    BY EventsAreNumbers DEF IInv, TypeOK
  <2>. QED  BY <1>1, <2>1 DEF Receipts
<1> HIDE DEF r
<1>4. records' \in Seq(Receipts)
  BY <1>1, <1>3, AppendProperties DEF IInv, TypeOK
<1>5. "done" \in {"done", "raised"} /\ ~("done" = "raised")
  OBVIOUS
<1>. QED  BY <1>1, <1>2, <1>4, <1>5, EndRequestStep

LEMMA RaiseOutStep ==
  ASSUME IInv, outcome = "running", NEW i \in Events, RaiseOut(i)
  PROVE  IInv'
<1>1. /\ Running(i) /\ pc[i] = "in_flight"
      /\ verdict[i] = "exception"
      /\ pc' = [pc EXCEPT ![i] = "raised"]
      /\ ReleasePermit(i)
      /\ UNCHANGED <<now, sentAt, prompt, verdict, outcome>>
      /\ sessions' = sessions /\ records' = records
  BY DEF RaiseOut
<1>2. /\ sessions' \in [SessionIds -> Seq(Messages)]
      /\ records' \in Seq(Receipts)
  BY <1>1 DEF IInv, TypeOK
<1>3. "raised" \in {"done", "raised"}
  OBVIOUS
<1>. QED  BY <1>1, <1>2, <1>3, EndRequestStep

-----------------------------------------------------------------------------
(* The end of run_scan and the environment.                                *)
LEMMA FinishGatherStep ==
  ASSUME IInv, FinishGather
  PROVE  IInv'
<1>1. /\ TypeOK /\ ready' = <<>> /\ outcome' \in {"returned", "raised"}
      /\ UNCHANGED <<now, sem, sentAt, prompt, sessions, verdict, records>>
  BY DEF IInv, FinishGather
<1>2. ready' \in Seq(Events \cup {Main})
  BY <1>1, EmptySeq
<1>3. pc' \in [Events -> Stages]
  BY DEF IInv, FinishGather, TypeOK, Stages
<1>. QED  BY <1>1, <1>2, <1>3 DEF TypeOK, IInv

(* Timers and answers put one more task on the queue.                      *)
LEMMA BecomesReady ==
  ASSUME IInv, outcome = "running", NEW i \in Events,
         ~IsReady(i), MayRun(i), i \notin Fresh,
         ready' = Append(ready, i),
         verdict' \in [Events -> Verdicts],
         UNCHANGED <<now, pc, sem, sentAt, prompt, sessions, records, outcome>>
  PROVE  IInv'
<1>1. TypeOK /\ Accounts /\ ReadyQueue /\ Startup /\ InOrder /\ SentOnce
  BY DEF IInv
<1>2. /\ ready' \in Seq(Events \cup {Main})
      /\ Members(ready') = Members(ready) \cup {i}
      /\ Distinct(ready) /\ i \notin Members(ready) => Distinct(Append(ready, i))
  BY <1>1, AppendMembers DEF TypeOK
<1>3. Distinct(ready')
  BY <1>1, <1>2 DEF ReadyQueue, IsReady
<1>4. \A j \in Events : MayRun(j)' <=> MayRun(j)
  BY DEF MayRun
<1>5. GatherCompleted' <=> GatherCompleted
  BY DEF GatherCompleted
<1>6. ReadyQueue'
  BY <1>1, <1>2, <1>3, <1>4, <1>5, EventsAreNumbers DEF ReadyQueue, IsReady
<1>7. /\ Wait' = Wait /\ Hold' = Hold /\ Fresh' = Fresh
      /\ Outside' = Outside
  BY DEF Wait, Hold, Fresh, Outside
<1>8. Startup'
  <2>1. Leading(Append(ready, i), Fresh)
    BY <1>1, LongerLeads DEF Startup, TypeOK
  <2>. QED  BY <1>1, <1>2, <1>7, <2>1 DEF Startup
<1>9. Accounts' /\ InOrder' /\ SentOnce'
  BY <1>1, <1>7 DEF Accounts, InOrder, UpClosed, SentOnce
<1>. QED  BY <1>1, <1>2, <1>6, <1>8, <1>9 DEF TypeOK, IInv

LEMMA TickStep ==
  ASSUME IInv, Tick
  PROVE  IInv'
<1>1. TypeOK /\ Accounts /\ ReadyQueue /\ Startup /\ InOrder /\ SentOnce
  BY DEF IInv, Tick
<1>2. /\ now < Horizon /\ now' = now + 1
      /\ UNCHANGED <<ready, pc, sem, sentAt, prompt, sessions, verdict,
                     records, outcome>>
  BY DEF Tick
<1>3. now' \in 0 .. Horizon
  BY <1>1, <1>2, ScanLimitsAssumption DEF TypeOK
<1>4. \A j \in Events : MayRun(j) => MayRun(j)'
  BY <1>1, <1>2, EventsAreNumbers DEF MayRun, TypeOK
<1>5. GatherCompleted' <=> GatherCompleted
  BY <1>2 DEF GatherCompleted
<1>6. ReadyQueue'
  BY <1>1, <1>2, <1>4, <1>5 DEF ReadyQueue, IsReady
<1>7. Wait' = Wait /\ Hold' = Hold /\ Fresh' = Fresh /\ Outside' = Outside
  BY <1>2 DEF Wait, Hold, Fresh, Outside
<1>8. Accounts' /\ Startup' /\ InOrder' /\ SentOnce'
  BY <1>1, <1>2, <1>7 DEF Accounts, Startup, InOrder, UpClosed, SentOnce
<1>. QED  BY <1>1, <1>2, <1>3, <1>6, <1>8 DEF TypeOK, IInv

-----------------------------------------------------------------------------
LEMMA InitIInv == Init => IInv
<1> SUFFICES ASSUME Init PROVE IInv
  OBVIOUS
<1>1. /\ pc = [i \in Events |-> "new"] /\ outcome = "running" /\ now = 0
      /\ sem = NewSemaphore(MaxConc)
      /\ ready = IF Arrivals = <<>> THEN <<Main>> ELSE [i \in Events |-> i]
      /\ sentAt = [i \in Events |-> Unsent]
  BY DEF Init, FirstSteps
<1>2. Wait = {} /\ Hold = {} /\ Fresh = Events
  BY <1>1 DEF Wait, Hold, Fresh
<1>3. /\ Balanced(sem, Events, Wait, Hold, MaxConc) /\ sem.woken = {}
      /\ Members(sem.waiters) = {} /\ sem.waiters = <<>>
  <2>1. MaxConc \in Nat
    BY ScanLimitsAssumption
  <2>. QED
    BY <1>1, <1>2, <2>1, NewBalanced, NewIsWellFormed DEF NewSemaphore
<1>4. Accounts
  BY <1>3 DEF Accounts, NoneIdle, Unserved
<1>5. ready \in Seq(Events \cup {Main}) /\ ReadyQueue /\ Startup
  <2>1. CASE Arrivals = <<>>
    <3>1. ready = <<Main>> /\ Events = {}
      BY <1>1, <2>1 DEF Events
    <3>2. <<Main>> \in Seq(Events \cup {Main}) /\ DOMAIN <<Main>> = {1}
      OBVIOUS
    <3>. QED
      BY <1>2, <3>1, <3>2
      DEF ReadyQueue, GatherCompleted, Distinct, Startup, Leading
  <2>2. CASE Arrivals # <<>>
    <3>1. ready = [i \in 1 .. Len(Arrivals) |-> i]
      BY <1>1, <2>2, EventsAreNumbers
    <3>2. /\ ready \in [1 .. Len(Arrivals) -> Events \cup {Main}]
          /\ DOMAIN ready = Events
          /\ \A i \in Events : ready[i] = i
      BY <3>1, EventsAreNumbers
    <3>3. ready \in Seq(Events \cup {Main})
      BY <3>2, EventsAreNumbers, SeqDef
    <3>4. Distinct(ready) /\ ~IsReady(Main)
      BY <3>2, EventsAreNumbers DEF Distinct, IsReady, Members
    <3>5. \A i \in Events : MayRun(i)
      BY <1>1 DEF MayRun
    <3>6. Leading(ready, Fresh)
      BY <1>2, <3>2, EventsAreNumbers DEF Leading
    <3>7. Fresh \subseteq Members(ready)
      BY <1>2, <3>2 DEF Members
    <3>. QED  BY <1>3, <3>3, <3>4, <3>5, <3>6, <3>7 DEF ReadyQueue, Startup
  <2>. QED  BY <2>1, <2>2
<1>6. InOrder /\ SentOnce
  <2>1. Ascending(<<>>)
    BY EmptySeq DEF Ascending
  <2>. QED  BY <1>1, <1>2, <1>3, <2>1 DEF InOrder, UpClosed, Outside, SentOnce
<1>7. TypeOK
  <2>1. <<>> \in Seq(Messages) /\ <<>> \in Seq(Receipts) /\ now \in 0 .. Horizon
    BY <1>1, EmptySeq, ScanLimitsAssumption
  <2>2. sem \in Semaphores
    BY <1>3 DEF Balanced, WellFormed, Semaphores
  <2>. QED
    BY <1>1, <1>5, <2>1, <2>2 DEF Init, FirstSteps, TypeOK, Stages, Verdicts
<1>. QED  BY <1>1, <1>4, <1>5, <1>6, <1>7 DEF IInv

LEMMA NextIInv == IInv /\ [Next]_vars => IInv'
<1> SUFFICES ASSUME IInv, [Next]_vars PROVE IInv'
  OBVIOUS
<1>1. CASE UNCHANGED vars
  BY <1>1 DEF IInv, vars, TypeOK, Accounts, ReadyQueue, Startup, InOrder,
              SentOnce, Wait, Hold, Fresh, Outside, UpClosed, MayRun,
              GatherCompleted, IsReady
<1>2. ASSUME NEW i \in Events, TaskStep(i)
      PROVE  IInv'
  <2>1. outcome = "running"
    BY <1>2 DEF TaskStep, StartTask, GetPermit, WakeAndSend, RecordReceipt,
                RaiseOut, Running
  <2>. QED
    BY <1>2, <2>1, StartTaskStep, GetPermitStep, WakeAndSendStep,
       RecordReceiptStep, RaiseOutStep DEF TaskStep
<1>3. ASSUME NEW i \in Events, TimerFires(i)
      PROVE  IInv'
  <2>1. MayRun(i) /\ verdict' \in [Events -> Verdicts] /\ i \notin Fresh
    BY <1>3 DEF TimerFires, MayRun, IInv, TypeOK, Fresh
  <2>. QED  BY <1>3, <2>1, BecomesReady DEF TimerFires
<1>4. ASSUME NEW i \in Events, ServerAnswers(i)
      PROVE  IInv'
  <2>1. MayRun(i) /\ verdict' \in [Events -> Verdicts] /\ i \notin Fresh
    BY <1>4 DEF ServerAnswers, MayRun, IInv, TypeOK, Fresh
  <2>. QED  BY <1>4, <2>1, BecomesReady DEF ServerAnswers
<1>5. CASE FinishGather
  BY <1>5, FinishGatherStep
<1>6. CASE Tick
  BY <1>6, TickStep
<1>7. CASE Ended
  BY <1>1, <1>7 DEF Ended
<1>. QED  BY <1>1, <1>2, <1>3, <1>4, <1>5, <1>6, <1>7 DEF Next

(* For every schedule, list of cases and limit, run_scan keeps its         *)
(* semaphore, queue, histories and receipts in the shapes the code gives   *)
(* them.                                                                   *)
THEOREM TypeCorrect == Spec => []TypeOK
<1>1. IInv => TypeOK
  BY DEF IInv
<1>. QED  BY <1>1, InitIInv, NextIInv, PTL DEF Spec

-----------------------------------------------------------------------------
(* The arrivals stand segment by segment, and in time order within one.    *)
Follows(i, j) ==
  /\ Arrivals[i].segment <= Arrivals[j].segment
  /\ Arrivals[i].segment = Arrivals[j].segment =>
       Arrivals[i].nominal <= Arrivals[j].nominal

LEMMA ArrivalsFollow ==
  ASSUME NEW i \in Events, NEW j \in Events, i <= j
  PROVE  Follows(i, j)
<1> DEFINE T == {d \in Nat : \E k \in Events : k + d \in Events /\ ~Follows(k, k + d)}
<1> SUFFICES ASSUME T # {} PROVE FALSE
  <2>1. j - i \in Nat /\ i + (j - i) = j
    BY EventsAreNumbers
  <2>. QED  BY <2>1
<1>1. T \subseteq Nat
  OBVIOUS
<1> HIDE DEF T
<1>2. PICK d \in T : \A e \in T : d <= e
  BY <1>1, LeastOfNaturals
<1>3. PICK k \in Events : k + d \in Events /\ ~Follows(k, k + d)
  BY <1>2 DEF T
<1>4. d \in Nat /\ k \in Nat
  BY <1>1, <1>2, EventsAreNumbers
<1>5. CASE d = 0
  <2>1. k + d = k /\ Arrivals[k].segment \in Nat /\ Arrivals[k].nominal \in Nat
    BY <1>4, <1>5, EventsAreNumbers
  <2>. QED  BY <1>3, <2>1 DEF Follows
<1>6. CASE d # 0
  <2> DEFINE m == k + (d - 1)
  <2>1. d - 1 \in Nat /\ ~(d <= d - 1) /\ m \in Events /\ m + 1 = k + d
    BY <1>3, <1>4, <1>6, EventsAreNumbers
  <2>2. d - 1 \notin T
    BY <1>2, <2>1
  <2>3. Follows(k, m)
    BY <2>1, <2>2 DEF T
  <2> HIDE DEF m
  <2>4. \/ /\ Arrivals[m + 1].segment = Arrivals[m].segment
           /\ Arrivals[m + 1].nominal >= Arrivals[m].nominal
        \/ Arrivals[m + 1].segment = Arrivals[m].segment + 1
    BY <1>3, <2>1, SegmentsAssumption
  <2>5. /\ Arrivals[k].segment \in Nat /\ Arrivals[k].nominal \in Nat
        /\ Arrivals[m].segment \in Nat /\ Arrivals[m].nominal \in Nat
        /\ Arrivals[m + 1].segment \in Nat /\ Arrivals[m + 1].nominal \in Nat
    BY <1>3, <2>1, EventsAreNumbers
  <2>6. Follows(k, m + 1)
    BY <2>3, <2>4, <2>5 DEF Follows
  <2>. QED  BY <1>3, <2>1, <2>6
<1>. QED  BY <1>5, <1>6

LEMMA HoldersOfPermits ==
  ASSUME IInv, outcome = "running"
  PROVE  /\ Holders = Hold \cup sem.woken
         /\ Holders \subseteq Events /\ IsFiniteSet(Holders)
         /\ Holders \cap Outside = {}
         /\ sem.value \in Nat /\ sem.value + Cardinality(Holders) = MaxConc
<1>1. /\ sem.woken \subseteq Wait /\ sem.value \in Nat
      /\ sem.value + Cardinality(Hold \cup sem.woken) = MaxConc
  BY DEF IInv, Accounts, Balanced, WellFormed
<1>2. Holders = Hold \cup sem.woken
  BY <1>1 DEF Holders, HoldsPermit, Hold, Wait
<1>3. Holders \subseteq Events
  BY DEF Holders
<1>4. Holders \cap Outside = {}
  BY <1>1, <1>2 DEF Hold, Outside, Fresh, Wait
<1>. QED  BY <1>1, <1>2, <1>3, <1>4, EventsAreNumbers, FS_Subset

(* When a request is in flight, fewer than max_concurrency of those before *)
(* it have yet to be sent, in whatever order permits come back, timers     *)
(* fire and answers arrive: executor.py:6.                                 *)
THEOREM OvertakingIsBounded == Spec => []OvertakingBounded
<1>1. IInv => OvertakingBounded
  <2> SUFFICES ASSUME IInv, outcome = "running",
                      NEW j \in Events, pc[j] = "in_flight"
               PROVE  Cardinality({i \in 1 .. j - 1 : sentAt[i] = Unsent}) < MaxConc
    BY DEF OvertakingBounded
  <2> DEFINE late == {i \in 1 .. j - 1 : sentAt[i] = Unsent}
  <2>1. /\ Holders \subseteq Events /\ IsFiniteSet(Holders)
        /\ Holders = Hold \cup sem.woken
        /\ sem.value \in Nat /\ sem.value + Cardinality(Holders) = MaxConc
    BY HoldersOfPermits
  <2>2. j \in Holders /\ j \notin Outside
    BY <2>1, HoldersOfPermits DEF Hold
  <2>3. late \subseteq Holders \ {j}
    <3> SUFFICES ASSUME NEW i \in 1 .. j - 1, sentAt[i] = Unsent
                 PROVE  i \in Holders \ {j}
      OBVIOUS
    <3>1. i \in Events /\ i < j
      BY EventsAreNumbers
    <3>2. i \notin Outside
      BY <2>2, <3>1 DEF IInv, InOrder, UpClosed
    <3>3. pc[i] \in {"new", "waiting", "sleeping"}
      BY <3>1 DEF IInv, SentOnce
    <3>4. i \in Holders
      BY <2>1, <3>1, <3>2, <3>3 DEF Outside, Fresh, Wait, Hold
    <3>. QED  BY <3>1, <3>4, EventsAreNumbers
  <2> HIDE DEF late
  <2>4. /\ IsFiniteSet(Holders \ {j})
        /\ Cardinality(Holders \ {j}) = Cardinality(Holders) - 1
        /\ Cardinality(Holders) \in Nat
    BY <2>1, <2>2, FS_RemoveElement, FS_CardinalityType
  <2>5. Cardinality(late) <= Cardinality(Holders \ {j}) /\ Cardinality(late) \in Nat
    BY <2>3, <2>4, FS_Subset, FS_CardinalityType
  <2>6. Cardinality(late) < MaxConc
    BY <2>1, <2>4, <2>5, ScanLimitsAssumption
  <2>. QED  BY <2>6 DEF late
<1>. QED  BY <1>1, InitIInv, NextIInv, PTL DEF Spec

(* A due request waits only while all permits are taken, by requests that  *)
(* are due or belong to an earlier segment: executor.py:5.                 *)
THEOREM WaitingMeansSaturated == Spec => []WaitsOnlyWhenSaturated
<1>1. IInv => WaitsOnlyWhenSaturated
  <2> SUFFICES ASSUME IInv, outcome = "running",
                      NEW i \in Events, WaitsForPermit(i),
                      Arrivals[i].nominal <= now
               PROVE  /\ Cardinality(Holders) = MaxConc
                      /\ \A j \in Holders :
                           \/ Arrivals[j].nominal <= now
                           \/ Arrivals[j].segment < Arrivals[i].segment
    BY DEF WaitsOnlyWhenSaturated
  <2>1. i \in Wait \ sem.woken
    BY DEF WaitsForPermit, Wait
  <2>2. sem.value = 0
    BY <2>1 DEF IInv, Accounts, Balanced, NoneIdle, Unserved
  <2>3. Cardinality(Holders) = MaxConc
    BY <2>2, HoldersOfPermits, FS_CardinalityType
  <2>4. ASSUME NEW j \in Holders
        PROVE  \/ Arrivals[j].nominal <= now
               \/ Arrivals[j].segment < Arrivals[i].segment
    <3>1. j \in Events /\ j \notin Outside /\ i \in Outside
      BY <2>1, HoldersOfPermits DEF Outside
    <3>2. ~(i < j)
      BY <3>1 DEF IInv, InOrder, UpClosed
    <3>3. Follows(j, i)
      BY <3>1, <3>2, EventsAreNumbers, ArrivalsFollow
    <3>4. /\ Arrivals[i].segment \in Nat /\ Arrivals[i].nominal \in Nat
          /\ Arrivals[j].segment \in Nat /\ Arrivals[j].nominal \in Nat
          /\ now \in Int
      BY <3>1, EventsAreNumbers DEF IInv, TypeOK
    <3>. QED  BY <3>3, <3>4 DEF Follows
  <2>. QED  BY <2>3, <2>4
<1>. QED  BY <1>1, InitIInv, NextIInv, PTL DEF Spec

-----------------------------------------------------------------------------
(* What a step means to the conversations and to the pool of requests: one *)
(* still waits, is sent, recorded or lost; the scan returns or raises;     *)
(* time passes.                                                            *)
WaitStages == {"new", "waiting", "sleeping"}

Waits(i) ==
  /\ pc[i] \in WaitStages
  /\ \E x \in WaitStages : pc' = [pc EXCEPT ![i] = x]
  /\ UNCHANGED <<now, prompt, sessions, records, outcome>>

Sends(i) ==
  /\ pc[i] \in WaitStages
  /\ now >= Arrivals[i].nominal
  /\ pc' = [pc EXCEPT ![i] = "in_flight"]
  /\ prompt' = [prompt EXCEPT ![i] = History(i)]
  /\ UNCHANGED <<now, sessions, records, outcome>>

Records(i) ==
  /\ pc[i] = "in_flight"
  /\ verdict[i] \in {"ok", "failed"}
  /\ pc' = [pc EXCEPT ![i] = "done"]
  /\ records' = Append(records, [event   |-> i,
                                 sendlag |-> now - Arrivals[i].nominal,
                                 verdict |-> verdict[i]])
  /\ UpdateHistory(i)
  /\ UNCHANGED <<now, prompt, outcome>>

Raises(i) ==
  /\ pc[i] = "in_flight"
  /\ pc' = [pc EXCEPT ![i] = "raised"]
  /\ UNCHANGED <<now, prompt, sessions, records, outcome>>

Returns ==
  /\ \A i \in Events : pc[i] = "done"
  /\ outcome' = "returned"
  /\ UNCHANGED <<now, pc, prompt, sessions, records>>

GivesUp ==
  /\ \E i \in Events : pc[i] = "raised"
  /\ pc' = [i \in Events |-> IF pc[i] \in {"done", "raised"} THEN pc[i]
                             ELSE "cancelled"]
  /\ outcome' = "raised"
  /\ UNCHANGED <<now, prompt, sessions, records>>

Passes ==
  /\ now' = now + 1
  /\ UNCHANGED <<pc, prompt, sessions, records, outcome>>

Invisible == UNCHANGED <<now, pc, prompt, sessions, records, outcome>>

Visible ==
  \/ \E i \in Events : Waits(i) \/ Sends(i) \/ Records(i) \/ Raises(i)
  \/ Returns
  \/ GivesUp
  \/ Passes

LEMMA ProceedWaitsOrSends ==
  ASSUME TypeOK, NEW i \in Events, pc[i] \in WaitStages, Proceed(i),
         UNCHANGED <<now, sessions, records, outcome>>
  PROVE  Waits(i) \/ Sends(i)
<1>1. CASE now < Arrivals[i].nominal
  BY <1>1 DEF Proceed, Waits, WaitStages
<1>2. CASE ~(now < Arrivals[i].nominal)
  <2>1. now \in Int /\ Arrivals[i].nominal \in Int
    BY EventsAreNumbers DEF TypeOK
  <2>2. now >= Arrivals[i].nominal
    BY <1>2, <2>1
  <2>. QED  BY <1>2, <2>2 DEF Proceed, Send, Sends
<1>. QED  BY <1>1, <1>2

LEMMA HeadIsReady ==
  ASSUME TypeOK, NEW i, Running(i)
  PROVE  IsReady(i)
<1>1. /\ ready # <<>> /\ Head(ready) = i
      /\ ready \in Seq(Events \cup {Main})
  BY DEF Running, TypeOK
<1>2. 1 \in DOMAIN ready /\ ready[1] = i
  BY <1>1
<1>. QED  BY <1>1, <1>2 DEF IsReady, Members

LEMMA StepIsVisible ==
  ASSUME IInv, [Next]_vars
  PROVE  Invisible \/ (outcome = "running" /\ Visible)
<1>1. TypeOK
  BY DEF IInv
<1>2. CASE UNCHANGED vars
  BY <1>2 DEF vars, Invisible
<1>3. ASSUME NEW i \in Events, StartTask(i)
      PROVE  outcome = "running" /\ (Waits(i) \/ Sends(i))
  <2>1. /\ outcome = "running" /\ pc[i] \in WaitStages
        /\ UNCHANGED <<now, sessions, records, outcome>>
    BY <1>3 DEF StartTask, Running, WaitStages
  <2>2. CASE Locked(sem)
    BY <1>3, <2>1, <2>2 DEF StartTask, Waits, WaitStages
  <2>3. CASE ~Locked(sem)
    <3>1. Proceed(i)
      BY <1>3, <2>3 DEF StartTask
    <3>. QED  BY <1>1, <2>1, <3>1, ProceedWaitsOrSends
  <2>. QED  BY <2>1, <2>2, <2>3
<1>4. ASSUME NEW i \in Events, GetPermit(i)
      PROVE  outcome = "running" /\ (Waits(i) \/ Sends(i))
  <2>1. /\ outcome = "running" /\ pc[i] \in WaitStages
        /\ Proceed(i) /\ UNCHANGED <<now, sessions, records, outcome>>
    BY <1>4 DEF GetPermit, Running, WaitStages
  <2>. QED  BY <1>1, <2>1, ProceedWaitsOrSends
<1>5. ASSUME NEW i \in Events, WakeAndSend(i)
      PROVE  outcome = "running" /\ Sends(i)
  <2>1. /\ Running(i) /\ outcome = "running" /\ pc[i] = "sleeping" /\ Send(i)
        /\ UNCHANGED <<now, sessions, records, outcome>>
    BY <1>5 DEF WakeAndSend, Running
  <2>2. now >= Arrivals[i].nominal
    BY <1>1, <2>1, HeadIsReady DEF IInv, ReadyQueue, MayRun
  <2>. QED  BY <2>1, <2>2 DEF Send, Sends, WaitStages
<1>6. ASSUME NEW i \in Events, RecordReceipt(i)
      PROVE  outcome = "running" /\ Records(i)
  BY <1>6 DEF RecordReceipt, Running, Records
<1>7. ASSUME NEW i \in Events, RaiseOut(i)
      PROVE  outcome = "running" /\ Raises(i)
  BY <1>7 DEF RaiseOut, Running, Raises
<1>8. ASSUME NEW i \in Events, TimerFires(i) \/ ServerAnswers(i)
      PROVE  Invisible
  BY <1>8 DEF TimerFires, ServerAnswers, Invisible
<1>9. CASE FinishGather
  <2>1. outcome = "running" /\ GatherCompleted
    BY <1>1, <1>9, HeadIsReady DEF FinishGather, Running, IInv, ReadyQueue
  <2>2. CASE \E i \in Events : pc[i] = "raised"
    BY <1>9, <2>1, <2>2 DEF FinishGather, GivesUp, Visible
  <2>3. CASE ~\E i \in Events : pc[i] = "raised"
    BY <1>9, <2>1, <2>3 DEF FinishGather, GatherCompleted, Returns, Visible
  <2>. QED  BY <2>2, <2>3
<1>10. CASE Tick
  BY <1>10 DEF Tick, Passes, Visible
<1>11. CASE Ended
  BY <1>2, <1>11 DEF Ended
<1>. QED
  BY <1>2, <1>3, <1>4, <1>5, <1>6, <1>7, <1>8, <1>9, <1>10, <1>11
  DEF Next, TaskStep, Visible

-----------------------------------------------------------------------------
(* Conversations only grow at their end.                                   *)
IsPrefix(p, q) == Len(p) <= Len(q) /\ p = SubSeq(q, 1, Len(p))

LEMMA PrefixOfItself ==
  ASSUME NEW S, NEW q \in Seq(S)
  PROVE  IsPrefix(q, q) /\ IsPrefix(<<>>, q)
<1>1. q = SubSeq(q, 1, Len(q)) /\ Len(q) \in Nat
  BY SubSeqFull, LenProperties
<1>2. SubSeq(q, 1, 0) = <<>> /\ Len(<<>>) = 0
  BY SubSeqEmpty, EmptySeq
<1>. QED  BY <1>1, <1>2 DEF IsPrefix

LEMMA PrefixOfLonger ==
  ASSUME NEW S, NEW p \in Seq(S), NEW q \in Seq(S), NEW t \in Seq(S),
         IsPrefix(p, q)
  PROVE  IsPrefix(p, q \o t)
<1> DEFINE n == Len(p)
           m == Len(q)
<1>1. /\ n \in Nat /\ m \in Nat /\ Len(t) \in Nat /\ n <= m
      /\ p = SubSeq(q, 1, n)
  BY LenProperties DEF IsPrefix
<1>2. Len(q \o t) = m + Len(t)
  BY ConcatProperties
<1>3. SubSeq(q \o t, 1, n) = SubSeq(q, 1, n)
  <2>1. CASE n = 0
    BY <2>1, SubSeqEmpty
  <2>2. CASE n # 0
    <3>1. 1 \in 1 .. m /\ n \in 1 .. m
      BY <1>1, <2>2
    <3> HIDE DEF n, m
    <3>. QED  BY <3>1, SubSeqOfConcat1 DEF m
  <2>. QED  BY <2>1, <2>2
<1> HIDE DEF n, m
<1>4. n <= Len(q \o t)
  BY <1>1, <1>2
<1>. QED  BY <1>1, <1>3, <1>4 DEF IsPrefix, n

(* What was sent as history stays a prefix of its conversation, though     *)
(* other requests of the session are answered, whole or by half, while it  *)
(* is in flight: executor.py 283, 322.                                     *)
THEOREM PromptsArePrefixes == Spec => []PromptIsPrefix
<1> DEFINE P(i) == CaseOf(i).session # NoSession =>
                     IsPrefix(prompt[i], sessions[CaseOf(i).session])
<1>1. PromptIsPrefix <=> \A i \in Events : P(i)
  BY DEF PromptIsPrefix, IsPrefix
<1>2. Init => PromptIsPrefix
  <2> SUFFICES ASSUME Init, NEW i \in Events, CaseOf(i).session # NoSession
               PROVE  IsPrefix(prompt[i], sessions[CaseOf(i).session])
    BY <1>1
  <2>1. prompt[i] = <<>> /\ sessions[CaseOf(i).session] = <<>>
    BY CaseOfEvent DEF Init
  <2>2. <<>> \in Seq(Messages)
    BY EmptySeq
  <2>. QED  BY <2>1, <2>2, PrefixOfItself
<1>3. ASSUME IInv, IInv', PromptIsPrefix, [Next]_vars
      PROVE  PromptIsPrefix'
  <2>1. /\ prompt \in [Events -> Seq(Messages)]
        /\ sessions \in [SessionIds -> Seq(Messages)]
    BY <1>3 DEF IInv, TypeOK
  <2>2. CASE prompt' = prompt /\ sessions' = sessions
    BY <1>3, <2>2 DEF PromptIsPrefix
  <2>3. ASSUME NEW i \in Events, Sends(i)
        PROVE  PromptIsPrefix'
    <3>1. prompt' = [prompt EXCEPT ![i] = History(i)] /\ sessions' = sessions
      BY <2>3 DEF Sends
    <3> SUFFICES ASSUME NEW j \in Events, CaseOf(j).session # NoSession
                 PROVE  IsPrefix(prompt'[j], sessions[CaseOf(j).session])
      BY <3>1 DEF PromptIsPrefix, IsPrefix
    <3>2. CASE j = i
      <4>1. CaseOf(i).session \in SessionIds
        BY <3>2, CaseOfEvent
      <4>2. prompt'[i] = sessions[CaseOf(i).session]
        BY <2>1, <3>1, <3>2 DEF History
      <4>3. sessions[CaseOf(i).session] \in Seq(Messages)
        BY <2>1, <4>1
      <4>. QED  BY <3>2, <4>2, <4>3, PrefixOfItself
    <3>3. CASE j # i
      BY <1>1, <1>3, <2>1, <3>1, <3>3
    <3>. QED  BY <3>2, <3>3
  <2>4. ASSUME NEW i \in Events, Records(i)
        PROVE  PromptIsPrefix'
    <3> DEFINE s == CaseOf(i).session
               t == Turns(i, verdict[i])
    <3>1. prompt' = prompt /\ UpdateHistory(i)
      BY <2>4 DEF Records
    <3>2. CASE s = NoSession
      BY <2>2, <3>1, <3>2 DEF UpdateHistory
    <3>3. CASE s # NoSession
      <4>1. sessions' = [sessions EXCEPT ![s] = sessions[s] \o t] /\ s \in SessionIds
        BY <3>1, <3>3, CaseOfEvent DEF UpdateHistory
      <4>2. t \in Seq(Messages)
        BY TurnsType
      <4> HIDE DEF s, t
      <4> SUFFICES ASSUME NEW j \in Events, CaseOf(j).session # NoSession
                   PROVE  IsPrefix(prompt[j], sessions'[CaseOf(j).session])
        BY <3>1 DEF PromptIsPrefix, IsPrefix
      <4>3. /\ CaseOf(j).session \in SessionIds
            /\ IsPrefix(prompt[j], sessions[CaseOf(j).session])
        BY <1>1, <1>3, CaseOfEvent
      <4>4. CASE CaseOf(j).session = s
        <5>1. sessions'[s] = sessions[s] \o t
          BY <2>1, <4>1
        <5>2. IsPrefix(prompt[j], sessions[s] \o t)
          BY <2>1, <4>2, <4>3, <4>4, PrefixOfLonger
        <5>. QED  BY <4>4, <5>1, <5>2
      <4>5. CASE CaseOf(j).session # s
        BY <2>1, <4>1, <4>3, <4>5
      <4>. QED  BY <4>4, <4>5
    <3>. QED  BY <3>2, <3>3
  <2>5. CASE Invisible \/ Returns \/ GivesUp \/ Passes
    BY <2>2, <2>5 DEF Invisible, Returns, GivesUp, Passes
  <2>6. ASSUME NEW i \in Events, Waits(i) \/ Raises(i)
        PROVE  PromptIsPrefix'
    BY <2>2, <2>6 DEF Waits, Raises
  <2>. QED  BY <1>3, <2>3, <2>4, <2>5, <2>6, StepIsVisible DEF Visible
<1>. QED  BY <1>2, <1>3, InitIInv, NextIInv, PTL DEF Spec

-----------------------------------------------------------------------------
(* A number beyond a set of numbers gets the next rank and moves no other. *)
LEMMA NextRank ==
  ASSUME NEW n \in Nat, NEW K, K \subseteq 1 .. n
  PROVE  /\ Cardinality(K) \in Nat
         /\ Cardinality(K \cup {n + 1}) = Cardinality(K) + 1
         /\ Rank(K \cup {n + 1}, n + 1) = Cardinality(K) + 1
         /\ \A k \in K : /\ Rank(K \cup {n + 1}, k) = Rank(K, k)
                         /\ Rank(K, k) \in Nat
                         /\ Rank(K, k) <= Cardinality(K)
<1>1. IsFiniteSet(1 .. n)
  BY FS_Interval
<1>2. IsFiniteSet(K)
  BY <1>1, FS_Subset
<1>3. Cardinality(K) \in Nat /\ Cardinality(K \cup {n + 1}) = Cardinality(K) + 1
  BY <1>2, FS_CardinalityType, FS_AddElement
<1>4. {k \in K \cup {n + 1} : k <= n + 1} = K \cup {n + 1}
  <2>1. \A k \in K \cup {n + 1} : k <= n + 1
    OBVIOUS
  <2>. QED  BY <2>1
<1>5. ASSUME NEW m \in K
      PROVE  /\ Rank(K \cup {n + 1}, m) = Rank(K, m)
             /\ Rank(K, m) \in Nat /\ Rank(K, m) <= Cardinality(K)
  <2> DEFINE upto == {k \in K : k <= m}
  <2>1. {k \in K \cup {n + 1} : k <= m} = upto
    OBVIOUS
  <2>2. upto \subseteq K
    OBVIOUS
  <2>3. IsFiniteSet(upto) /\ Cardinality(upto) <= Cardinality(K)
    BY <1>2, <2>2, FS_Subset
  <2>4. Cardinality(upto) \in Nat
    BY <2>3, FS_CardinalityType
  <2>. QED  BY <2>1, <2>3, <2>4 DEF Rank
<1>. QED  BY <1>3, <1>4, <1>5 DEF Rank

(* What the turns of a request add to a conversation: its user turn, and   *)
(* behind it the reply to an ok one.                                       *)
LEMMA MoreTurns ==
  ASSUME NEW q \in Seq(Messages), NEW i \in Events, NEW v
  PROVE  LET p == q \o Turns(i, v)
             n == Len(q)
         IN  /\ \A k \in 1 .. n : p[k] = q[k]
             /\ v # "ok" => DOMAIN p = 1 .. n + 1
             /\ v = "ok" => /\ DOMAIN p = 1 .. n + 2
                            /\ p[n + 2].case = CaseNo(i)
                            /\ p[n + 2].role = "assistant"
             /\ p[n + 1].case = CaseNo(i) /\ p[n + 1].role = "user"
<1> DEFINE user == [role |-> "user", case |-> CaseNo(i)]
           reply == [role |-> "assistant", case |-> CaseNo(i)]
           t == Turns(i, v)
           n == Len(q)
<1>1. t \in Seq(Messages) /\ n \in Nat /\ DOMAIN q = 1 .. n
  BY TurnsType, LenProperties
<1>2. t = IF v = "ok" THEN <<user, reply>> ELSE <<user>>
  BY DEF Turns
<1>3. /\ v = "ok" => Len(t) = 2
      /\ v # "ok" => Len(t) = 1
      /\ t[1].role = "user" /\ t[1].case = CaseNo(i)
      /\ v = "ok" => t[2].role = "assistant" /\ t[2].case = CaseNo(i)
  BY <1>2
<1> HIDE DEF t
<1>4. /\ q \o t \in Seq(Messages) /\ Len(q \o t) = n + Len(t)
      /\ \A k \in 1 .. n + Len(t) :
           (q \o t)[k] = IF k <= n THEN q[k] ELSE t[k - n]
  BY <1>1, ConcatProperties
<1>5. DOMAIN (q \o t) = 1 .. n + Len(t)
  BY <1>4, LenProperties
<1> HIDE DEF n
<1>6. \A k \in 1 .. n : (q \o t)[k] = q[k]
  BY <1>1, <1>3, <1>4
<1>7. (q \o t)[n + 1] = t[1] /\ (v = "ok" => (q \o t)[n + 2] = t[2])
  BY <1>1, <1>3, <1>4
<1>. QED  BY <1>3, <1>5, <1>6, <1>7 DEF n, t

LEMMA OneMoreReceipt ==
  ASSUME TypeOK, NEW i \in Events, NEW s \in SessionIds, NEW r \in Receipts,
         r.event = i, records' = Append(records, r)
  PROVE  /\ AnswersOf(s) \subseteq 1 .. Len(records)
         /\ \A k \in 1 .. Len(records) : records'[k] = records[k]
         /\ records'[Len(records) + 1] = r
         /\ AnswersOf(s)' = IF CaseOf(i).session = s /\ r.verdict = "ok"
                            THEN AnswersOf(s) \cup {Len(records) + 1}
                            ELSE AnswersOf(s)
<1> DEFINE n == Len(records)
<1>1. records \in Seq(Receipts) /\ n \in Nat /\ DOMAIN records = 1 .. n
  BY LenProperties DEF TypeOK
<1>2. /\ records' \in Seq(Receipts) /\ Len(records') = n + 1
      /\ \A k \in 1 .. n : records'[k] = records[k]
      /\ records'[n + 1] = r
  BY <1>1, AppendProperties
<1>3. DOMAIN records' = 1 .. n + 1
  BY <1>2, LenProperties
<1> HIDE DEF n
<1>4. DOMAIN records' = DOMAIN records \cup {n + 1}
  BY <1>1, <1>3
<1>. QED  BY <1>1, <1>2, <1>4 DEF AnswersOf, n

(* A receipt and the turns it adds keep a conversation the log of its      *)
(* answered requests.                                                      *)
LEMMA RecordKeepsLog ==
  ASSUME TypeOK, NEW i \in Events, NEW s \in SessionIds, LogOf(s), Records(i)
  PROVE  LogOf(s)'
<1> DEFINE v == verdict[i]
           t == Turns(i, v)
           n == Len(sessions[s])
           m == Len(records)
           U == AskedAt(s)
           A == RepliedAt(s)
           D == AnswersOf(s)
<1>1. UpdateHistory(i)
  BY DEF Records
<1>2. PICK r \in Receipts :
        r.event = i /\ r.verdict = v /\ records' = Append(records, r)
  <2> DEFINE r == [event |-> i, sendlag |-> now - Arrivals[i].nominal,
                   verdict |-> v]
  <2>1. now \in Int /\ Arrivals[i].nominal \in Int
    BY EventsAreNumbers DEF TypeOK
  <2>2. /\ r \in Receipts /\ r.event = i /\ r.verdict = v
        /\ records' = Append(records, r)
    BY <2>1 DEF Receipts, Records
  <2> HIDE DEF r
  <2>. QED  BY <2>2, Zenon
<1>3. /\ D \subseteq 1 .. m /\ m \in Nat
      /\ \A k \in 1 .. m : records'[k] = records[k]
      /\ records'[m + 1].event = i
      /\ D' = IF CaseOf(i).session = s /\ v = "ok" THEN D \cup {m + 1} ELSE D
  <2>1. m \in Nat
    BY LenProperties DEF TypeOK
  <2>. QED  BY <1>2, <2>1, OneMoreReceipt
<1>4. sessions[s] \in Seq(Messages) /\ sessions \in [SessionIds -> Seq(Messages)]
  BY DEF TypeOK
<1>5. /\ A \subseteq 1 .. n /\ U \subseteq 1 .. n /\ n \in Nat
      /\ DOMAIN sessions[s] = 1 .. n
  BY <1>4, LenProperties DEF AskedAt, RepliedAt
<1>6. /\ Cardinality(A) = Cardinality(D)
      /\ \A a \in A, d \in D : Rank(A, a) = Rank(D, d)
           => AnswersTurn(s, a, CaseNo(records[d].event))
  BY DEF LogOf
<1>7. LogOf(s)' <=>
        /\ Cardinality(A') = Cardinality(D')
        /\ \A a \in A', d \in D' : Rank(A', a) = Rank(D', d)
             => AnswersTurn(s, a, CaseNo(records[d].event))'
  BY DEF LogOf, Rank
<1>8. CASE CaseOf(i).session # s
  <2>1. sessions'[s] = sessions[s]
    BY <1>1, <1>4, <1>8 DEF UpdateHistory
  <2>2. U' = U
    BY <2>1 DEF AskedAt
  <2>3. A' = A /\ D' = D
    BY <1>3, <1>8, <2>1, <2>2 DEF RepliedAt
  <2> HIDE DEF m, A, D, U
  <2>4. \A a \in A, d \in D :
          AnswersTurn(s, a, CaseNo(records[d].event))
            => AnswersTurn(s, a, CaseNo(records[d].event))'
    <3>1. \A d \in D : records'[d] = records[d]
      BY <1>3
    <3>. QED  BY <2>1, <2>2, <3>1 DEF AnswersTurn, U
  <2>. QED  BY <1>6, <1>7, <2>3, <2>4
<1>9. CASE CaseOf(i).session = s
  <2>1. sessions' = [sessions EXCEPT ![s] = sessions[s] \o t]
    <3>1. s # NoSession
      BY CasesAssumption
    <3>. QED  BY <1>1, <1>9, <3>1 DEF UpdateHistory
  <2>2. sessions'[s] = sessions[s] \o t
    BY <1>4, <2>1
  <2>3. /\ \A k \in 1 .. n : sessions'[s][k] = sessions[s][k]
        /\ v # "ok" => DOMAIN sessions'[s] = 1 .. n + 1
        /\ v = "ok" => /\ DOMAIN sessions'[s] = 1 .. n + 2
                       /\ sessions'[s][n + 2].case = CaseNo(i)
                       /\ sessions'[s][n + 2].role = "assistant"
        /\ sessions'[s][n + 1].case = CaseNo(i)
        /\ sessions'[s][n + 1].role = "user"
    BY <1>4, <2>2, MoreTurns
  <2>4. U' = {k \in DOMAIN sessions'[s] : sessions'[s][k].role = "user"}
    BY DEF AskedAt
  <2>5. U = {k \in 1 .. n : sessions[s][k].role = "user"} /\ A = (1 .. n) \ U
    BY <1>5 DEF AskedAt, RepliedAt
  <2>6. A' = DOMAIN sessions'[s] \ U'
    BY DEF RepliedAt
  <2>7. U \subseteq U' /\ n + 1 \in U'
    <3>1. 1 .. n + 1 \subseteq DOMAIN sessions'[s]
      BY <1>5, <2>3
    <3>. QED  BY <1>5, <2>3, <2>4, <2>5, <3>1
  <2>8. \A a \in A, d \in D :
          AnswersTurn(s, a, CaseNo(records[d].event))
            => AnswersTurn(s, a, CaseNo(records[d].event))'
    <3> SUFFICES ASSUME NEW a \in A, NEW d \in D,
                        AnswersTurn(s, a, CaseNo(records[d].event))
                 PROVE  AnswersTurn(s, a, CaseNo(records[d].event))'
      OBVIOUS
    <3>1. a \in 1 .. n /\ a - 1 \in U /\ a - 1 \in 1 .. n /\ d \in 1 .. m
      BY <1>3, <1>5 DEF AnswersTurn
    <3>2. /\ sessions'[s][a] = sessions[s][a]
          /\ sessions'[s][a - 1] = sessions[s][a - 1]
          /\ records'[d] = records[d] /\ a - 1 \in U'
      BY <1>3, <2>3, <2>7, <3>1
    <3>. QED  BY <3>2 DEF AnswersTurn, U
  <2>9. CASE v # "ok"
    <3>1. DOMAIN sessions'[s] = (1 .. n) \cup {n + 1}
      BY <1>5, <2>3, <2>9
    <3>2. A' = A
      BY <1>5, <2>3, <2>4, <2>5, <2>6, <3>1
    <3>. QED  BY <1>3, <1>6, <1>7, <2>8, <2>9, <3>2
  <2>10. CASE v = "ok"
    <3>1. DOMAIN sessions'[s] = (1 .. n) \cup {n + 1, n + 2}
      BY <1>5, <2>3, <2>10
    <3>2. A' = A \cup {n + 2}
      BY <1>5, <2>3, <2>4, <2>5, <2>6, <2>10, <3>1
    <3>3. D' = D \cup {m + 1}
      BY <1>3, <1>9, <2>10
    <3>4. ASSUME NEW a, a = n + 2, NEW d, d = m + 1
          PROVE  AnswersTurn(s, a, CaseNo(records[d].event))'
      <4>1. n + 2 - 1 = n + 1
        BY <1>5
      <4>. QED  BY <1>3, <2>3, <2>7, <2>10, <3>4, <4>1 DEF AnswersTurn, U
    <3> HIDE DEF n, m, A, D, U, v
    <3>5. /\ A \subseteq 1 .. n + 1 /\ n + 1 \in Nat
          /\ A' = A \cup {(n + 1) + 1} /\ n + 2 = (n + 1) + 1
      <4>1. n + 2 = (n + 1) + 1
        BY <1>5
      <4>. QED  BY <1>5, <3>2, <4>1
    <3>6. /\ Cardinality(A) \in Nat
          /\ Cardinality(A') = Cardinality(A) + 1
          /\ Rank(A', n + 2) = Cardinality(A) + 1
          /\ \A a \in A : /\ Rank(A', a) = Rank(A, a) /\ Rank(A, a) \in Nat
                          /\ Rank(A, a) <= Cardinality(A)
      BY <3>5, NextRank
    <3>7. /\ Cardinality(D') = Cardinality(D) + 1
          /\ Rank(D', m + 1) = Cardinality(D) + 1
          /\ \A d \in D : /\ Rank(D', d) = Rank(D, d) /\ Rank(D, d) \in Nat
                          /\ Rank(D, d) <= Cardinality(D)
      <4>1. D \subseteq 1 .. m /\ m \in Nat
        BY <1>3
      <4>. QED  BY <3>3, <4>1, NextRank
    <3>8. ASSUME NEW a \in A', NEW d \in D', Rank(A', a) = Rank(D', d)
          PROVE  AnswersTurn(s, a, CaseNo(records[d].event))'
      <4>1. CASE a \in A /\ d \in D
        <5>1. Rank(A, a) = Rank(D, d)
          BY <3>6, <3>7, <3>8, <4>1
        <5>. QED  BY <1>6, <2>8, <4>1, <5>1
      <4>2. CASE a = n + 2 /\ d = m + 1
        BY <3>4, <4>2
      <4>3. CASE a \in A /\ d = m + 1
        BY <1>6, <3>6, <3>7, <3>8, <4>3
      <4>4. CASE a = n + 2 /\ d \in D
        BY <1>6, <3>6, <3>7, <3>8, <4>4
      <4>. QED  BY <3>2, <3>3, <3>8, <4>1, <4>2, <4>3, <4>4
    <3>. QED  BY <1>6, <1>7, <3>6, <3>7, <3>8
  <2>. QED  BY <2>9, <2>10
<1>. QED  BY <1>8, <1>9

(* A conversation's history holds its answered turns in the order of their *)
(* receipts, each reply behind its user turn, and every request was sent   *)
(* with a prefix of it: executor.py 283-288, 321.                          *)
THEOREM HistoriesAreLogs == Spec => []HistoryIsLog
<1>1. Init => NoAnswerLost
  <2> SUFFICES ASSUME Init, NEW s \in SessionIds
               PROVE  LogOf(s)
    BY DEF NoAnswerLost
  <2>1. sessions[s] = <<>> /\ records = <<>> /\ DOMAIN <<>> = {}
    BY EmptySeq DEF Init
  <2>2. RepliedAt(s) = {} /\ AnswersOf(s) = {}
    BY <2>1 DEF RepliedAt, AnswersOf
  <2>. QED  BY <2>2 DEF LogOf
<1>2. ASSUME IInv, NoAnswerLost, [Next]_vars
      PROVE  NoAnswerLost'
  <2>1. CASE records' = records /\ sessions' = sessions
    BY <1>2, <2>1 DEF NoAnswerLost, LogOf, AnswersTurn, AskedAt,
                         RepliedAt, AnswersOf, Rank
  <2>2. ASSUME NEW i \in Events, Records(i)
        PROVE  NoAnswerLost'
    <3>1. \A s \in SessionIds : LogOf(s)
      BY <1>2 DEF NoAnswerLost
    <3>2. \A s \in SessionIds : LogOf(s)'
      BY <1>2, <2>2, <3>1, RecordKeepsLog DEF IInv
    <3>. QED  BY <3>2 DEF NoAnswerLost
  <2>3. CASE Invisible \/ Returns \/ GivesUp \/ Passes
    BY <2>1, <2>3 DEF Invisible, Returns, GivesUp, Passes
  <2>4. ASSUME NEW i \in Events, Waits(i) \/ Sends(i) \/ Raises(i)
        PROVE  NoAnswerLost'
    BY <2>1, <2>4 DEF Waits, Sends, Raises
  <2>. QED  BY <1>2, <2>2, <2>3, <2>4, StepIsVisible DEF Visible
<1>3. Spec => []NoAnswerLost
  BY <1>1, <1>2, InitIInv, NextIInv, PTL DEF Spec
<1>4. NoAnswerLost /\ PromptIsPrefix => HistoryIsLog
  BY DEF HistoryIsLog
<1>. QED  BY <1>3, <1>4, PromptsArePrefixes, PTL

-----------------------------------------------------------------------------
(* The refinement mapping.                                                 *)
Status == [i \in Events |-> AbstractStatus(i)]
Flying == {i \in Events : pc[i] = "in_flight"}

LEMMA StatusCases ==
  ASSUME TypeOK, NEW i \in Events
  PROVE  /\ pc[i] \in WaitStages => AbstractStatus(i) = "waiting"
         /\ pc[i] = "in_flight" <=> AbstractStatus(i) = "in_flight"
         /\ pc[i] = "done" <=> AbstractStatus(i) = "recorded"
         /\ pc[i] \in {"raised", "cancelled"} => AbstractStatus(i) = "lost"
<1>1. pc[i] \in Stages
  BY DEF TypeOK
<1>. QED  BY <1>1 DEF AbstractStatus, WaitStages, Stages

(* A step of one task changes the status of its request alone.             *)
LEMMA StatusMoves ==
  ASSUME TypeOK, NEW i \in Events, NEW x, pc' = [pc EXCEPT ![i] = x],
         NEW a, AbstractStatus(i)' = a
  PROVE  Status' = [Status EXCEPT ![i] = a]
<1>1. \A j \in Events \ {i} : AbstractStatus(j)' = AbstractStatus(j)
  BY DEF TypeOK, AbstractStatus
<1>. QED  BY <1>1 DEF Status

(* The instance has its own name for the library's operator.               *)
LEMMA SameCardinality == \A S : Abstract!Cardinality(S) = Cardinality(S)
BY DEF Abstract!Cardinality, Cardinality

FlyingBounded == outcome = "running" => Cardinality(Flying) <= MaxConc

LEMMA FlyingHaveRoom == IInv => FlyingBounded
<1> SUFFICES ASSUME IInv, outcome = "running"
             PROVE  Cardinality(Flying) <= MaxConc
  BY DEF FlyingBounded
<1>1. /\ IsFiniteSet(Holders) /\ Holders = Hold \cup sem.woken
      /\ sem.value \in Nat /\ sem.value + Cardinality(Holders) = MaxConc
  BY HoldersOfPermits
<1>2. Flying \subseteq Holders
  BY <1>1 DEF Flying, Hold
<1>3. /\ Cardinality(Flying) <= Cardinality(Holders)
      /\ Cardinality(Flying) \in Nat /\ Cardinality(Holders) \in Nat
  BY <1>1, <1>2, FS_Subset, FS_CardinalityType
<1>. QED  BY <1>1, <1>3, ScanLimitsAssumption

(* A task that sends has one of the permits, so the pool had room for it.  *)
LEMMA SendIsAllowed ==
  ASSUME IInv, IInv', NEW i \in Events, outcome = "running", Sends(i)
  PROVE  Abstract!SendRequest(i)
<1>1. TypeOK /\ TypeOK' /\ MaxConc \in Nat
  BY ScanLimitsAssumption DEF IInv
<1>2. /\ pc[i] \in WaitStages /\ now >= Arrivals[i].nominal
      /\ pc' = [pc EXCEPT ![i] = "in_flight"]
      /\ UNCHANGED <<now, records, outcome>>
  BY DEF Sends
<1>3. Flying' = Flying \cup {i} /\ i \notin Flying
  BY <1>1, <1>2 DEF TypeOK, Flying, WaitStages
<1>4. Cardinality(Flying) < MaxConc
  <2>1. FlyingBounded'
    BY FlyingHaveRoom, PTL
  <2>2. IsFiniteSet(Flying)
    BY EventsAreNumbers, FS_Subset DEF Flying
  <2>3. /\ Cardinality(Flying) \in Nat
        /\ Cardinality(Flying') = Cardinality(Flying) + 1
    BY <1>3, <2>2, FS_AddElement, FS_CardinalityType
  <2>4. Cardinality(Flying') <= MaxConc
    BY <1>2, <2>1 DEF FlyingBounded
  <2>. QED  BY <1>1, <2>3, <2>4
<1>5. AbstractStatus(i) = "waiting" /\ AbstractStatus(i)' = "in_flight"
  BY <1>1, <1>2, StatusCases DEF TypeOK, AbstractStatus
<1>6. Status' = [Status EXCEPT ![i] = "in_flight"]
  BY <1>1, <1>2, <1>5, StatusMoves
<1>7. Abstract!Flying = Flying
  BY <1>1, StatusCases DEF Abstract!Flying, Flying
<1>8. {q \in Flying : [j \in Events |-> 0][q] = [j \in Events |-> 0][i]} = Flying
  BY DEF Flying
<1>9. /\ Status[i] = "waiting"
      /\ [j \in Events |-> Arrivals[j].nominal][i] = Arrivals[i].nominal
  BY <1>5 DEF Status
<1>. QED
  BY <1>2, <1>4, <1>6, <1>7, <1>8, <1>9, SameCardinality
  DEF Abstract!SendRequest, Status

LEMMA WaitIsInvisible ==
  ASSUME TypeOK, NEW i \in Events, Waits(i)
  PROVE  UNCHANGED Abstract!poolVars
<1>1. AbstractStatus(i)' = "waiting" /\ AbstractStatus(i) = "waiting"
  BY DEF Waits, WaitStages, AbstractStatus, TypeOK
<1>2. PICK x : pc' = [pc EXCEPT ![i] = x]
  BY DEF Waits
<1>3. Status' = [Status EXCEPT ![i] = "waiting"]
  BY <1>1, <1>2, StatusMoves
<1>4. Status' = Status
  BY <1>1, <1>3 DEF Status
<1>. QED  BY <1>4 DEF Waits, Abstract!poolVars, Status

(* The pool keeps of a receipt which request it is of.                     *)
Logged == [k \in DOMAIN records |-> records[k].event]

LEMMA RecordIsReceive ==
  ASSUME TypeOK, NEW i \in Events, outcome = "running", Records(i)
  PROVE  Abstract!Receive(i)
<1> DEFINE r == [event |-> i, sendlag |-> now - Arrivals[i].nominal,
              verdict |-> verdict[i]]
           n == Len(records)
<1>1. AbstractStatus(i)' = "recorded" /\ AbstractStatus(i) = "in_flight"
  BY DEF Records, AbstractStatus, TypeOK
<1>2. Status' = [Status EXCEPT ![i] = "recorded"] /\ Status[i] = "in_flight"
  BY <1>1, StatusMoves DEF Records, Status
<1>3. Logged' = Append(Logged, i)
  <2>1. records \in Seq(Receipts) /\ records' = Append(records, r) /\ r.event = i
    BY DEF TypeOK, Records
  <2>2. r \in Receipts
    <3>1. now \in Int /\ Arrivals[i].nominal \in Int
      BY EventsAreNumbers DEF TypeOK
    <3>. QED  BY <3>1 DEF Receipts, Records
  <2> HIDE DEF r
  <2>3. /\ records' \in Seq(Receipts) /\ Len(records') = n + 1
        /\ \A k \in 1 .. n : records'[k] = records[k]
        /\ records'[n + 1] = r
    BY <2>1, <2>2, AppendProperties
  <2>4. /\ n \in Nat /\ DOMAIN records = 1 .. n /\ DOMAIN records' = 1 .. n + 1
        /\ \A k \in 1 .. n : records[k].event \in Events
    <3>1. n \in Nat /\ DOMAIN records = 1 .. n /\ DOMAIN records' = 1 .. n + 1
      BY <2>1, <2>3, LenProperties
    <3>2. \A k \in 1 .. n : records[k] \in Receipts
      BY <2>1, <3>1, ElementOfSeq
    <3>. QED  BY <3>1, <3>2 DEF Receipts
  <2>5. Logged \in Seq(Events) /\ Len(Logged) = n
    <3>1. Logged \in [1 .. n -> Events]
      BY <2>4 DEF Logged
    <3>. QED  BY <2>4, <3>1, IsASeq
  <2>6. /\ Append(Logged, i) \in Seq(Events) /\ Len(Append(Logged, i)) = n + 1
        /\ \A k \in 1 .. n : Append(Logged, i)[k] = Logged[k]
        /\ Append(Logged, i)[n + 1] = i
    BY <2>5, AppendProperties
  <2> HIDE DEF n
  <2>7. /\ \A k \in 1 .. n + 1 : Append(Logged, i)[k] = Logged'[k]
        /\ Logged' \in Seq(Events) /\ Len(Logged') = n + 1
    <3>1. \A k \in 1 .. n : Logged'[k] = Logged[k]
      BY <2>3, <2>4 DEF Logged
    <3>2. Logged'[n + 1] = i
      BY <2>1, <2>3, <2>4 DEF Logged
    <3>3. Logged' \in [1 .. n + 1 -> Events]
      <4>1. \A k \in 1 .. n + 1 : records'[k].event \in Events
        BY <2>1, <2>3, <2>4
      <4>. QED  BY <2>4, <4>1 DEF Logged
    <3>4. \A k \in 1 .. n + 1 : k \in 1 .. n \/ k = n + 1
      BY <2>4
    <3>5. Logged' \in Seq(Events) /\ Len(Logged') = n + 1
      BY <2>4, <3>3, IsASeq
    <3>. QED  BY <2>6, <3>1, <3>2, <3>4, <3>5
  <2>. QED  BY <2>6, <2>7, SeqEqual
<1>. QED  BY <1>2, <1>3 DEF Records, Abstract!Receive, Status, Logged

LEMMA RaiseIsLose ==
  ASSUME TypeOK, NEW i \in Events, outcome = "running", Raises(i)
  PROVE  Abstract!Lose(i)
<1>1. AbstractStatus(i)' = "lost" /\ AbstractStatus(i) = "in_flight"
  BY DEF Raises, AbstractStatus, TypeOK
<1>2. Status' = [Status EXCEPT ![i] = "lost"] /\ Status[i] = "in_flight"
  BY <1>1, StatusMoves DEF Raises, Status
<1>. QED  BY <1>2 DEF Raises, Abstract!Lose, Status

LEMMA GiveUpIsRaise ==
  ASSUME TypeOK, outcome = "running", GivesUp
  PROVE  Abstract!Raise
<1>1. \E i \in Events : Status[i] = "lost"
  BY StatusCases DEF GivesUp, Status
<1>2. ASSUME NEW i \in Events
      PROVE  AbstractStatus(i)'
               = IF AbstractStatus(i) = "recorded" THEN "recorded" ELSE "lost"
  <2>1. pc[i] = "done" <=> AbstractStatus(i) = "recorded"
    BY StatusCases
  <2>2. CASE pc[i] = "done"
    BY <2>1, <2>2 DEF GivesUp, AbstractStatus
  <2>3. CASE pc[i] # "done"
    <3>1. pc'[i] \in {"raised", "cancelled"}
      BY <2>3 DEF GivesUp
    <3>. QED  BY <2>1, <2>3, <3>1 DEF AbstractStatus
  <2>. QED  BY <2>2, <2>3
<1>3. Status' = [i \in Events |->
                   IF Status[i] = "recorded" THEN "recorded" ELSE "lost"]
  BY <1>2 DEF Status
<1>. QED  BY <1>1, <1>3 DEF GivesUp, Abstract!Raise, Status

LEMMA StepOfPool ==
  ASSUME IInv, IInv', [Next]_vars
  PROVE  [Abstract!PoolNext]_(Abstract!poolVars)
<1>1. TypeOK
  BY DEF IInv
<1>2. CASE Invisible
  <2>1. Status' = Status
    BY <1>2 DEF Invisible, Status, AbstractStatus
  <2>. QED  BY <1>2, <2>1 DEF Invisible, Abstract!poolVars, Status
<1>3. ASSUME NEW i \in Events, outcome = "running",
             Waits(i) \/ Sends(i) \/ Records(i) \/ Raises(i)
      PROVE  [Abstract!PoolNext]_(Abstract!poolVars)
  <2>1. CASE Waits(i)
    BY <1>1, <2>1, WaitIsInvisible
  <2>2. CASE Sends(i)
    <3>1. Abstract!SendRequest(i)
      BY <1>3, <2>2, SendIsAllowed
    <3>. QED  BY <3>1 DEF Abstract!PoolNext
  <2>3. CASE Records(i)
    <3>1. Abstract!Receive(i)
      BY <1>1, <1>3, <2>3, RecordIsReceive
    <3>. QED  BY <3>1 DEF Abstract!PoolNext
  <2>4. CASE Raises(i)
    <3>1. Abstract!Lose(i)
      BY <1>1, <1>3, <2>4, RaiseIsLose
    <3>. QED  BY <3>1 DEF Abstract!PoolNext
  <2>. QED  BY <1>3, <2>1, <2>2, <2>3, <2>4
<1>4. CASE outcome = "running" /\ Returns
  <2>1. \A i \in Events : Status[i] = "recorded"
    BY <1>1, <1>4, StatusCases DEF Returns, Status
  <2>2. Status' = Status
    BY <1>4 DEF Returns, Status, AbstractStatus
  <2>3. Abstract!Return
    BY <1>4, <2>1, <2>2 DEF Returns, Abstract!Return, Status
  <2>. QED  BY <2>3 DEF Abstract!PoolNext
<1>5. CASE outcome = "running" /\ GivesUp
  BY <1>1, <1>5, GiveUpIsRaise DEF Abstract!PoolNext
<1>6. CASE outcome = "running" /\ Passes
  <2>1. Status' = Status
    BY <1>6 DEF Passes, Status, AbstractStatus
  <2>2. Abstract!Advance
    BY <1>6, <2>1 DEF Passes, Abstract!Advance, Status
  <2>. QED  BY <2>2 DEF Abstract!PoolNext
<1>. QED
  BY <1>2, <1>3, <1>4, <1>5, <1>6, StepIsVisible DEF Visible

(* The scan with its semaphore, its timers and its event loop does nothing *)
(* the pool of requests does not allow: no request is sent early or beyond *)
(* the limit, none is recorded twice, and the scan returns only with a     *)
(* receipt of each.                                                        *)
THEOREM RunScanImplementsPool == Spec => ImplementsRequestPool
<1>1. Init => Abstract!Init
  <2>1. DOMAIN <<>> = {} /\ [k \in {} |-> records[k].event] = <<>>
    BY EmptySeq
  <2>. QED  BY <2>1 DEF Init, Abstract!Init, AbstractStatus
<1>. QED
  BY <1>1, InitIInv, NextIInv, StepOfPool, PTL
  DEF Spec, ImplementsRequestPool, Abstract!PoolSpec
=============================================================================
