--------------------------- MODULE RunMixedProofs ---------------------------
(* run_mixed keeps its promises for every arrival sequence, pool and limit. *)
EXTENDS RunMixed, SharedLemmas

LEMMA EventsAreNumbers ==
  /\ Events = 1 .. Len(Arrivals)
  /\ Len(Arrivals) \in Nat
  /\ IsFiniteSet(Events)
  /\ Main \notin Events
  /\ \A i \in Events : TenantOf(i) \in Tenants /\ Arrivals[i].nominal \in Nat
<1>1. /\ Len(Arrivals) \in Nat
      /\ Events = 1 .. Len(Arrivals)
      /\ Arrivals \in [1 .. Len(Arrivals) -> [tenant : Tenants, nominal : Nat]]
  BY ArrivalsAssumption, LenProperties DEF Events
<1>2. IsFiniteSet(1 .. Len(Arrivals))
  BY <1>1, FS_Interval
<1>. QED  BY <1>1, <1>2 DEF TenantOf, Main

LEMMA LimitsArePositive ==
  GlobalConc \in Nat \ {0} /\ TenantLimit \in Nat \ {0}
BY LimitsAssumption DEF TenantLimit

-----------------------------------------------------------------------------
(* The inductive invariant.                                                *)

(* Tasks suspended in a semaphore and tasks inside its block.              *)
WaitT(t) == {i \in Events : TenantOf(i) = t /\ pc[i] = "wait_t"}
HoldT(t) == {i \in Events : /\ TenantOf(i) = t
                            /\ pc[i] \in {"wait_g", "sleeping", "in_flight"}}
WaitG == {i \in Events : pc[i] = "wait_g"}
HoldG == {i \in Events : pc[i] \in {"sleeping", "in_flight"}}

Accounts ==
  /\ Balanced(semG, Events, WaitG, HoldG, GlobalConc)
  /\ \A t \in Tenants :
       Balanced(semT[t], Events, WaitT(t), HoldT(t), TenantLimit)

(* A task is made runnable only when what it awaited has happened.         *)
MayRun(i) ==
  \/ pc[i] \in {"new", "in_flight"}
  \/ pc[i] = "wait_t" /\ i \in semT[TenantOf(i)].woken
  \/ pc[i] = "wait_g" /\ i \in semG.woken
  \/ pc[i] = "sleeping" /\ now >= Arrivals[i].nominal

GatherCompleted == \/ \E i \in Events : pc[i] = "raised"
                   \/ \A i \in Events : pc[i] = "done"

ReadyQueue ==
  /\ Distinct(ready)
  /\ \A i \in Events : IsReady(i) => MayRun(i)
  /\ IsReady(Main) => GatherCompleted

Stopped == \A i \in Events : pc[i] \in {"done", "raised", "cancelled"}

IInv ==
  /\ TypeOK
  /\ outcome = "running" => Accounts /\ ReadyQueue
  /\ outcome # "running" => Stopped

-----------------------------------------------------------------------------
(* Moving one task to stage x changes the four sets by that task alone.    *)
LEMMA MoveTask ==
  ASSUME TypeOK, NEW i \in Events, NEW x \in Stages,
         pc' = [pc EXCEPT ![i] = x]
  PROVE  /\ pc' \in [Events -> Stages]
         /\ pc'[i] = x
         /\ \A j \in Events \ {i} : pc'[j] = pc[j]
         /\ WaitG' = IF x = "wait_g" THEN WaitG \cup {i} ELSE WaitG \ {i}
         /\ HoldG' = IF x \in {"sleeping", "in_flight"}
                     THEN HoldG \cup {i} ELSE HoldG \ {i}
         /\ \A t \in Tenants :
              /\ WaitT(t)' = IF x = "wait_t" /\ TenantOf(i) = t
                             THEN WaitT(t) \cup {i} ELSE WaitT(t) \ {i}
              /\ HoldT(t)' = IF /\ x \in {"wait_g", "sleeping", "in_flight"}
                                /\ TenantOf(i) = t
                             THEN HoldT(t) \cup {i} ELSE HoldT(t) \ {i}
<1>1. /\ pc' \in [Events -> Stages]
      /\ pc'[i] = x
      /\ \A j \in Events \ {i} : pc'[j] = pc[j]
  BY DEF TypeOK
<1>2. WaitG' = IF x = "wait_g" THEN WaitG \cup {i} ELSE WaitG \ {i}
  BY <1>1 DEF WaitG
<1>3. HoldG' = IF x \in {"sleeping", "in_flight"}
               THEN HoldG \cup {i} ELSE HoldG \ {i}
  BY <1>1 DEF HoldG
<1>4. \A t \in Tenants :
        WaitT(t)' = IF x = "wait_t" /\ TenantOf(i) = t
                    THEN WaitT(t) \cup {i} ELSE WaitT(t) \ {i}
  BY <1>1 DEF WaitT
<1>5. \A t \in Tenants :
        HoldT(t)' = IF /\ x \in {"wait_g", "sleeping", "in_flight"}
                       /\ TenantOf(i) = t
                    THEN HoldT(t) \cup {i} ELSE HoldT(t) \ {i}
  BY <1>1 DEF HoldT
<1>. QED  BY <1>1, <1>2, <1>3, <1>4, <1>5

(* The ready queue after the task at its head has run, q being what the    *)
(* step made runnable.                                                     *)
LEMMA RunHead ==
  ASSUME TypeOK, ReadyQueue,
         NEW i \in Events, Running(i), pc[i] \notin {"done", "raised"},
         NEW x \in Stages, pc' = [pc EXCEPT ![i] = x],
         NEW q \in Seq(Events \cup {Main}), Distinct(q),
         ready' = Tail(ready) \o q,
         \A j \in Events \ {i} : MayRun(j) => MayRun(j)',
         \A j \in Members(q) \cap Events : MayRun(j)' /\ ~MayRun(j),
         Main \in Members(q) => GatherCompleted' /\ ~GatherCompleted
  PROVE  ready' \in Seq(Events \cup {Main}) /\ ReadyQueue'
<1>1. ready \in Seq(Events \cup {Main}) /\ ready # <<>> /\ Head(ready) = i
  BY DEF TypeOK, Running
<1>2. /\ Tail(ready) \in Seq(Events \cup {Main})
      /\ Distinct(Tail(ready))
      /\ Members(Tail(ready)) = Members(ready) \ {i}
  BY <1>1, TailMembers DEF ReadyQueue
<1>3. Members(Tail(ready)) \cap Members(q) = {}
  <2>1. Members(q) \subseteq Events \cup {Main}
    BY MembersOfSeq
  <2>. QED  BY <1>2, <2>1 DEF ReadyQueue, IsReady
<1>4. /\ ready' \in Seq(Events \cup {Main})
      /\ Members(ready') = (Members(ready) \ {i}) \cup Members(q)
      /\ Distinct(ready')
  <2> DEFINE rest == Tail(ready)
  <2>1. rest \in Seq(Events \cup {Main}) /\ Distinct(rest)
        /\ Members(rest) = Members(ready) \ {i}
    BY <1>2
  <2>2. Members(rest) \cap Members(q) = {} /\ ready' = rest \o q
    BY <1>3
  <2> HIDE DEF rest
  <2>3. /\ rest \o q \in Seq(Events \cup {Main})
        /\ Members(rest \o q) = Members(rest) \cup Members(q)
        /\ Distinct(rest \o q)
    BY <2>1, <2>2, ConcatMembers
  <2>. QED  BY <2>1, <2>2, <2>3
<1>5. \A j \in Events : IsReady(j)' => MayRun(j)'
  <2> SUFFICES ASSUME NEW j \in Events, j \in Members(ready')
               PROVE  MayRun(j)'
    BY DEF IsReady
  <2>1. CASE j \in Members(q)
    BY <2>1
  <2>2. CASE j \in Members(ready) \ {i}
    BY <2>2 DEF ReadyQueue, IsReady
  <2>. QED  BY <1>4, <2>1, <2>2
<1>6. IsReady(Main)' => GatherCompleted'
  <2>1. GatherCompleted => GatherCompleted'
    <3>1. /\ \A j \in Events \ {i} : pc'[j] = pc[j]
          /\ pc[i] # "raised" /\ pc[i] # "done"
      BY DEF TypeOK
    <3>. QED  BY <3>1 DEF GatherCompleted
  <2>2. Main \in Members(ready') => Main \in Members(ready) \cup Members(q)
    BY <1>4
  <2>. QED  BY <2>1, <2>2 DEF ReadyQueue, IsReady
<1>. QED  BY <1>4, <1>5, <1>6 DEF ReadyQueue

-----------------------------------------------------------------------------
(* What sending does, whatever the rest of the step is.                    *)
SlotTypes == /\ counts \in [Tenants -> Nat]
             /\ caseOf \in [Events -> Nat]
             /\ prompt \in [Events -> Seq(Messages)]

LEMMA PoolIndex ==
  ASSUME NEW t \in Tenants, NEW n \in Nat
  PROVE  /\ (n % Len(Pool[t])) + 1 \in DOMAIN Pool[t]
         /\ \A c \in DOMAIN Pool[t] :
              Pool[t][c].session \in SessionIds \cup {NoSession}
<1>1. Pool[t] \in Seq([session : SessionIds \cup {NoSession}]) /\ Pool[t] # <<>>
  BY PoolAssumption
<1>2. /\ Len(Pool[t]) \in Nat \ {0}
      /\ DOMAIN Pool[t] = 1 .. Len(Pool[t])
  BY <1>1, LenProperties, EmptySeq
<1>5. (n % Len(Pool[t])) + 1 \in 1 .. Len(Pool[t])
  <2> DEFINE m == Len(Pool[t])
  <2>1. m \in Nat /\ m > 0
    BY <1>2
  <2> HIDE DEF m
  <2>2. n % m \in 0 .. m - 1
    BY <2>1
  <2>3. (n % m) + 1 \in 1 .. m
    BY <2>1, <2>2
  <2>. QED  BY <2>3 DEF m
<1>4. \A c \in 1 .. Len(Pool[t]) :
        Pool[t][c] \in [session : SessionIds \cup {NoSession}]
  BY <1>1, ElementOfSeq
<1>6. \A c \in 1 .. Len(Pool[t]) :
        Pool[t][c].session \in SessionIds \cup {NoSession}
  BY <1>4
<1>. QED  BY <1>2, <1>5, <1>6

LEMMA SendEffect ==
  ASSUME TypeOK, NEW i \in Events, Send(i)
  PROVE  /\ pc' = [pc EXCEPT ![i] = "in_flight"]
         /\ SlotTypes'
         /\ \A j \in Events \ {i} : caseOf'[j] = caseOf[j]
<1> DEFINE t == TenantOf(i)
           c == (counts[t] % Len(Pool[t])) + 1
<1>1. t \in Tenants /\ counts[t] \in Nat
  BY EventsAreNumbers DEF TypeOK
<1>2. c \in DOMAIN Pool[t] /\ DOMAIN Pool[t] = 1 .. Len(Pool[t])
  BY <1>1, PoolIndex, PoolAssumption, LenProperties
<1>3. c \in Nat
  BY <1>2
<1>4. Pool[t][c].session \in SessionIds \cup {NoSession}
  BY <1>1, <1>2, PoolIndex
<1>5. <<>> \in Seq(Messages)
  BY EmptySeq
<1>6. History(t, c) \in Seq(Messages)
  BY <1>1, <1>4, <1>5 DEF History, TypeOK
<1>7. /\ pc' = [pc EXCEPT ![i] = "in_flight"]
      /\ caseOf' = [caseOf EXCEPT ![i] = c]
      /\ counts' = [counts EXCEPT ![t] = @ + 1]
      /\ prompt' = [prompt EXCEPT ![i] = History(t, c)]
  BY DEF Send
<1> HIDE DEF t, c
<1>. QED  BY <1>1, <1>3, <1>6, <1>7 DEF TypeOK, SlotTypes

(* Whether a task with both permits sends or sleeps, it is inside the      *)
(* global block.                                                           *)
LEMMA ProceedEffect ==
  ASSUME TypeOK, NEW i \in Events, Proceed(i)
  PROVE  /\ \E x \in {"sleeping", "in_flight"} : pc' = [pc EXCEPT ![i] = x]
         /\ SlotTypes'
<1>1. CASE now < Arrivals[i].nominal
  BY <1>1 DEF Proceed, TypeOK, SlotTypes
<1>2. CASE ~(now < Arrivals[i].nominal)
  BY <1>2, SendEffect DEF Proceed
<1>. QED  BY <1>1, <1>2

(* `async with sem_g`, entered by a task that is outside of it.            *)
LEMMA EnterGlobalEffect ==
  ASSUME TypeOK, NEW i \in Events, EnterGlobal(i),
         pc[i] \in {"new", "wait_t"},
         Balanced(semG, Events, WaitG, HoldG, GlobalConc)
  PROVE  /\ \E x \in {"wait_g", "sleeping", "in_flight"} :
              pc' = [pc EXCEPT ![i] = x]
         /\ SlotTypes'
         /\ Balanced(semG, Events, WaitG, HoldG, GlobalConc)'
         /\ semG'.woken = semG.woken
<1>1. /\ i \notin WaitG /\ i \notin HoldG
      /\ WaitG \ {i} = WaitG /\ HoldG \ {i} = HoldG
  BY DEF WaitG, HoldG
<1>2. IsFiniteSet(Events)
  BY EventsAreNumbers
<1>3. CASE Locked(semG)
  <2>1. /\ semG' = Enqueue(semG, i)
        /\ pc' = [pc EXCEPT ![i] = "wait_g"]
        /\ UNCHANGED <<counts, caseOf, prompt>>
    BY <1>3 DEF EnterGlobal
  <2>2. WaitG' = WaitG \cup {i} /\ HoldG' = HoldG
    BY <1>1, <2>1, MoveTask DEF Stages
  <2>3. /\ Balanced(semG', Events, WaitG', HoldG', GlobalConc)
        /\ semG'.woken = semG.woken
    BY <1>1, <1>3, <2>1, <2>2, EnqueueBalanced
  <2>. QED  BY <2>1, <2>3 DEF SlotTypes, TypeOK
<1>4. CASE ~Locked(semG)
  <2>1. semG' = Take(semG) /\ Proceed(i)
    BY <1>4 DEF EnterGlobal
  <2>2. PICK x \in {"sleeping", "in_flight"} : pc' = [pc EXCEPT ![i] = x]
    BY <2>1, ProceedEffect
  <2>3. WaitG' = WaitG /\ HoldG' = HoldG \cup {i}
    BY <1>1, <2>2, MoveTask DEF Stages
  <2>4. /\ Balanced(semG', Events, WaitG', HoldG', GlobalConc)
        /\ semG'.woken = semG.woken
    BY <1>1, <1>2, <1>4, <2>1, <2>3, TakeBalanced
  <2>. QED  BY <2>1, <2>2, <2>4, ProceedEffect
<1>. QED  BY <1>3, <1>4

-----------------------------------------------------------------------------
(* The steps of a task.                                                    *)

(* A step of task i that touches its own tenant's semaphore and the global *)
(* one keeps the invariant if it keeps these two accounts and the queue.   *)
LEMMA TaskKeepsIInv ==
  ASSUME TypeOK, Accounts, NEW i \in Events, NEW t \in Tenants, t = TenantOf(i),
         NEW x \in Stages, pc' = [pc EXCEPT ![i] = x],
         semT' = [semT EXCEPT ![t] = semT'[t]],
         Balanced(semT[t], Events, WaitT(t), HoldT(t), TenantLimit)',
         Balanced(semG, Events, WaitG, HoldG, GlobalConc)',
         ready' \in Seq(Events \cup {Main}), ReadyQueue',
         SlotTypes', now' = now, verdict' = verdict, outcome' = outcome,
         sessions' \in [Tenants \X SessionIds -> Seq(Messages)],
         records' \in Seq(Events),
         outcome = "running"
  PROVE  IInv'
<1>1. ASSUME NEW u \in Tenants, u # t
      PROVE  Balanced(semT[u], Events, WaitT(u), HoldT(u), TenantLimit)'
  <2>1. semT'[u] = semT[u]
    BY <1>1 DEF TypeOK
  <2>2. i \notin WaitT(u) /\ i \notin HoldT(u)
    BY <1>1 DEF WaitT, HoldT
  <2>3. WaitT(u) \ {i} = WaitT(u) /\ HoldT(u) \ {i} = HoldT(u)
    BY <2>2
  <2>4. WaitT(u)' = WaitT(u) /\ HoldT(u)' = HoldT(u)
    BY <1>1, <2>3, MoveTask
  <2>. QED  BY <1>1, <2>1, <2>4 DEF Accounts
<1>2. Accounts'
  <2>1. \A u \in Tenants :
          Balanced(semT[u], Events, WaitT(u), HoldT(u), TenantLimit)'
    BY <1>1
  <2>. QED  BY <2>1 DEF Accounts
<1>3. semG' \in Semaphores /\ semT'[t] \in Semaphores
  BY DEF Balanced, WellFormed, Semaphores
<1>4. semT' \in [Tenants -> Semaphores]
  BY <1>3 DEF TypeOK
<1>5. pc' \in [Events -> Stages]
  BY MoveTask
<1>6. TypeOK'
  BY <1>3, <1>4, <1>5 DEF TypeOK, SlotTypes
<1>. QED  BY <1>2, <1>6 DEF IInv

(* Waiters a semaphore serves could not run before.                        *)
LEMMA ServedByTenant ==
  ASSUME NEW t \in Tenants, NEW next, Served(semT[t], next, Events, WaitT(t))
  PROVE  \A j \in Members(NewlyWoken(semT[t], next)) :
           /\ j \in Events /\ pc[j] = "wait_t" /\ TenantOf(j) = t
           /\ ~MayRun(j) /\ j \in next.woken
<1>1. \A j \in Members(NewlyWoken(semT[t], next)) :
        j \in WaitT(t) /\ j \notin semT[t].woken /\ j \in next.woken
  BY DEF Served
<1>. QED  BY <1>1 DEF MayRun, WaitT

LEMMA ServedByGlobal ==
  ASSUME NEW next, Served(semG, next, Events, WaitG)
  PROVE  \A j \in Members(NewlyWoken(semG, next)) :
           /\ j \in Events /\ pc[j] = "wait_g"
           /\ ~MayRun(j) /\ j \in next.woken
<1>1. \A j \in Members(NewlyWoken(semG, next)) :
        j \in WaitG /\ j \notin semG.woken /\ j \in next.woken
  BY DEF Served
<1>. QED  BY <1>1 DEF MayRun, WaitG

LEMMA SeqOfMore ==
  ASSUME NEW q \in Seq(Events)
  PROVE  q \in Seq(Events \cup {Main})
BY SeqMonotonic

LEMMA StartTaskStep ==
  ASSUME IInv, outcome = "running", NEW i \in Events, StartTask(i)
  PROVE  IInv'
<1> DEFINE t == TenantOf(i)
<1>1. TypeOK /\ Accounts /\ ReadyQueue /\ t \in Tenants /\ IsFiniteSet(Events)
  BY EventsAreNumbers DEF IInv
<1>2. /\ Running(i) /\ pc[i] = "new" /\ ready' = Tail(ready)
      /\ UNCHANGED <<now, sessions, verdict, records, outcome>>
  BY DEF StartTask
<1>3. Balanced(semT[t], Events, WaitT(t), HoldT(t), TenantLimit)
  BY <1>1 DEF Accounts
<1>4. /\ i \notin WaitT(t) /\ i \notin HoldT(t)
      /\ i \notin WaitG /\ i \notin HoldG
      /\ \A u \in Tenants : WaitT(u) \ {i} = WaitT(u) /\ HoldT(u) \ {i} = HoldT(u)
      /\ WaitG \ {i} = WaitG /\ HoldG \ {i} = HoldG
  BY <1>2 DEF WaitT, HoldT, WaitG, HoldG
<1>5. /\ \E x \in {"wait_t", "wait_g", "sleeping", "in_flight"} :
            pc' = [pc EXCEPT ![i] = x]
      /\ semT' = [semT EXCEPT ![t] = semT'[t]]
      /\ DOMAIN semT' = Tenants
      /\ semT'[t].woken = semT[t].woken
      /\ semG'.woken = semG.woken
      /\ Balanced(semT[t], Events, WaitT(t), HoldT(t), TenantLimit)'
      /\ Balanced(semG, Events, WaitG, HoldG, GlobalConc)'
      /\ SlotTypes'
  <2>1. CASE Locked(semT[t])
    <3>1. /\ semT' = [semT EXCEPT ![t] = Enqueue(@, i)]
          /\ pc' = [pc EXCEPT ![i] = "wait_t"]
          /\ UNCHANGED <<semG, counts, caseOf, prompt>>
      BY <2>1 DEF StartTask
    <3>2. semT'[t] = Enqueue(semT[t], i) /\ DOMAIN semT' = Tenants
      BY <1>1, <3>1 DEF TypeOK
    <3>3. /\ WaitT(t)' = WaitT(t) \cup {i} /\ HoldT(t)' = HoldT(t)
          /\ WaitG' = WaitG /\ HoldG' = HoldG
      BY <1>1, <1>4, <3>1, MoveTask DEF Stages
    <3>4. /\ Balanced(semT'[t], Events, WaitT(t)', HoldT(t)', TenantLimit)
          /\ semT'[t].woken = semT[t].woken
      BY <1>3, <1>4, <2>1, <3>2, <3>3, EnqueueBalanced
    <3>5. Balanced(semG', Events, WaitG', HoldG', GlobalConc)
      BY <1>1, <3>1, <3>3 DEF Accounts
    <3>. QED  BY <1>1, <3>1, <3>2, <3>4, <3>5 DEF TypeOK, SlotTypes
  <2>2. CASE ~Locked(semT[t])
    <3>1. semT' = [semT EXCEPT ![t] = Take(@)] /\ EnterGlobal(i)
      BY <2>2 DEF StartTask
    <3>2. semT'[t] = Take(semT[t]) /\ DOMAIN semT' = Tenants
      BY <1>1, <3>1 DEF TypeOK
    <3>3. /\ \E x \in {"wait_g", "sleeping", "in_flight"} :
                pc' = [pc EXCEPT ![i] = x]
          /\ SlotTypes'
          /\ Balanced(semG, Events, WaitG, HoldG, GlobalConc)'
          /\ semG'.woken = semG.woken
      BY <1>1, <1>2, <3>1, EnterGlobalEffect DEF Accounts
    <3>4. WaitT(t)' = WaitT(t) /\ HoldT(t)' = HoldT(t) \cup {i}
      <4> PICK x \in {"wait_g", "sleeping", "in_flight"} :
                 pc' = [pc EXCEPT ![i] = x]
        BY <3>3
      <4>1. x \in Stages /\ x # "wait_t"
        BY DEF Stages
      <4>. QED  BY <1>1, <1>4, <4>1, MoveTask
    <3>5. /\ Balanced(semT'[t], Events, WaitT(t)', HoldT(t)', TenantLimit)
          /\ semT'[t].woken = semT[t].woken
      BY <1>1, <1>3, <1>4, <2>2, <3>2, <3>4, TakeBalanced
    <3>. QED  BY <3>1, <3>2, <3>3, <3>5
  <2>. QED  BY <2>1, <2>2
<1>6. PICK x \in {"wait_t", "wait_g", "sleeping", "in_flight"} :
        pc' = [pc EXCEPT ![i] = x]
  BY <1>5
<1>7. ready' \in Seq(Events \cup {Main}) /\ ReadyQueue'
  <2>1. /\ <<>> \in Seq(Events \cup {Main}) /\ Distinct(<<>>)
        /\ Members(<<>>) = {}
    BY EmptySeq DEF Distinct, Members
  <2>2. ready' = Tail(ready) \o <<>>
    <3>1. Tail(ready) \in Seq(Events \cup {Main})
      BY <1>1, <1>2, HeadTailProperties DEF TypeOK, Running
    <3>. QED  BY <1>2, <3>1, ConcatEmptySeq
  <2>3. \A j \in Events \ {i} : MayRun(j) => MayRun(j)'
    <3>1. \A u \in Tenants : semT'[u].woken = semT[u].woken
      BY <1>1, <1>5 DEF TypeOK
    <3>2. \A j \in Events \ {i} : pc'[j] = pc[j]
      BY <1>1, <1>6 DEF TypeOK
    <3>. QED
      BY <1>2, <1>5, <3>1, <3>2, EventsAreNumbers DEF MayRun
  <2>. QED  BY <1>1, <1>2, <1>6, <2>1, <2>2, <2>3, RunHead DEF Stages
<1>8. x \in Stages /\ t = TenantOf(i)
  BY DEF Stages
<1>9. /\ now' = now /\ verdict' = verdict /\ outcome' = outcome
      /\ sessions' \in [Tenants \X SessionIds -> Seq(Messages)]
      /\ records' \in Seq(Events)
  BY <1>1, <1>2 DEF TypeOK
<1> HIDE DEF t
<1>. QED  BY <1>1, <1>5, <1>6, <1>7, <1>8, <1>9, TaskKeepsIInv

LEMMA GetTenantPermitStep ==
  ASSUME IInv, outcome = "running", NEW i \in Events, GetTenantPermit(i)
  PROVE  IInv'
<1> DEFINE t == TenantOf(i)
           q == NewlyWoken(semT[t], Resume(semT[t], i))
<1>1. TypeOK /\ Accounts /\ ReadyQueue /\ t \in Tenants /\ IsFiniteSet(Events)
  BY EventsAreNumbers DEF IInv
<1>2. /\ Running(i) /\ pc[i] = "wait_t"
      /\ semT' = [semT EXCEPT ![t] = Resume(semT[t], i)]
      /\ ready' = Tail(ready) \o q
      /\ EnterGlobal(i)
      /\ UNCHANGED <<now, sessions, verdict, records, outcome>>
  BY DEF GetTenantPermit
<1>3. Balanced(semT[t], Events, WaitT(t), HoldT(t), TenantLimit)
  BY <1>1 DEF Accounts
<1>4. i \in semT[t].woken
  <2>1. i \in Members(ready)
    BY <1>1, <1>2, TailMembers DEF Running, TypeOK, ReadyQueue
  <2>. QED  BY <1>1, <1>2, <2>1 DEF ReadyQueue, IsReady, MayRun
<1>5. /\ Balanced(Resume(semT[t], i), Events, WaitT(t) \ {i}, HoldT(t) \cup {i},
                  TenantLimit)
      /\ Served(semT[t], Resume(semT[t], i), Events, WaitT(t))
      /\ i \notin Resume(semT[t], i).woken
  BY <1>1, <1>3, <1>4, ResumeBalanced
<1>6. /\ SlotTypes'
      /\ Balanced(semG, Events, WaitG, HoldG, GlobalConc)'
      /\ semG'.woken = semG.woken
  BY <1>1, <1>2, EnterGlobalEffect DEF Accounts
<1>7. PICK x \in {"wait_g", "sleeping", "in_flight"} : pc' = [pc EXCEPT ![i] = x]
  BY <1>1, <1>2, EnterGlobalEffect DEF Accounts
<1>8. x \in Stages /\ x # "wait_t"
  BY DEF Stages
<1>9. WaitT(t)' = WaitT(t) \ {i} /\ HoldT(t)' = HoldT(t) \cup {i}
  BY <1>1, <1>7, <1>8, MoveTask
<1>10. semT'[t] = Resume(semT[t], i)
  BY <1>1, <1>2 DEF TypeOK
<1>11. Balanced(semT[t], Events, WaitT(t), HoldT(t), TenantLimit)'
  BY <1>5, <1>9, <1>10
<1>12. /\ q \in Seq(Events \cup {Main}) /\ Distinct(q)
       /\ \A j \in Members(q) :
            /\ j \in Events /\ pc[j] = "wait_t" /\ TenantOf(j) = t
            /\ ~MayRun(j) /\ j \in semT'[t].woken
       /\ i \notin Members(q)
  BY <1>1, <1>5, <1>10, ServedByTenant, SeqOfMore DEF Served
<1> HIDE DEF q
<1>13. \A j \in Events \ {i} : pc'[j] = pc[j]
  BY <1>1, <1>7 DEF TypeOK
<1>14. \A j \in Events \ {i} : MayRun(j) => MayRun(j)'
  <2>1. \A u \in Tenants : semT[u].woken \ {i} \subseteq semT'[u].woken
    <3>1. \A u \in Tenants \ {t} : semT'[u] = semT[u]
      BY <1>1, <1>2 DEF TypeOK
    <3>2. semT[t].woken \ {i} \subseteq semT'[t].woken
      BY <1>1, <1>3, <1>4, <1>10, ResumeKeepsWoken DEF Balanced
    <3>. QED  BY <3>1, <3>2
  <2>. QED  BY <1>2, <1>6, <1>13, <2>1, EventsAreNumbers DEF MayRun
<1>15. \A j \in Members(q) \cap Events : MayRun(j)' /\ ~MayRun(j)
  <2> SUFFICES ASSUME NEW j \in Members(q) \cap Events
               PROVE  MayRun(j)' /\ ~MayRun(j)
    OBVIOUS
  <2>1. /\ pc'[j] = "wait_t" /\ TenantOf(j) = t
        /\ ~MayRun(j) /\ j \in semT'[t].woken
    BY <1>12, <1>13
  <2>. QED  BY <2>1 DEF MayRun
<1>16. Main \notin Members(q)
  BY <1>12, EventsAreNumbers
<1>17. ready' \in Seq(Events \cup {Main}) /\ ReadyQueue'
  BY <1>1, <1>2, <1>7, <1>8, <1>12, <1>14, <1>15, <1>16, RunHead
<1>18. /\ now' = now /\ verdict' = verdict /\ outcome' = outcome
       /\ sessions' \in [Tenants \X SessionIds -> Seq(Messages)]
       /\ records' \in Seq(Events)
  BY <1>1, <1>2 DEF TypeOK
<1>19. semT' = [semT EXCEPT ![t] = semT'[t]] /\ t = TenantOf(i)
  BY <1>2, <1>10
<1> HIDE DEF t
<1>. QED
  BY <1>1, <1>6, <1>7, <1>8, <1>11, <1>17, <1>18, <1>19, TaskKeepsIInv

LEMMA GetGlobalPermitStep ==
  ASSUME IInv, outcome = "running", NEW i \in Events, GetGlobalPermit(i)
  PROVE  IInv'
<1> DEFINE t == TenantOf(i)
           q == NewlyWoken(semG, Resume(semG, i))
<1>1. TypeOK /\ Accounts /\ ReadyQueue /\ t \in Tenants /\ IsFiniteSet(Events)
  BY EventsAreNumbers DEF IInv
<1>2. /\ Running(i) /\ pc[i] = "wait_g"
      /\ semG' = Resume(semG, i)
      /\ ready' = Tail(ready) \o q
      /\ Proceed(i)
      /\ UNCHANGED <<now, semT, sessions, verdict, records, outcome>>
  BY DEF GetGlobalPermit
<1>3. Balanced(semG, Events, WaitG, HoldG, GlobalConc)
  BY <1>1 DEF Accounts
<1>4. i \in semG.woken
  <2>1. i \in Members(ready)
    BY <1>1, <1>2, TailMembers DEF Running, TypeOK, ReadyQueue
  <2>. QED  BY <1>1, <1>2, <2>1 DEF ReadyQueue, IsReady, MayRun
<1>5. /\ Balanced(Resume(semG, i), Events, WaitG \ {i}, HoldG \cup {i}, GlobalConc)
      /\ Served(semG, Resume(semG, i), Events, WaitG)
      /\ i \notin Resume(semG, i).woken
  BY <1>1, <1>3, <1>4, ResumeBalanced
<1>6. SlotTypes'
  BY <1>1, <1>2, ProceedEffect
<1>7. PICK x \in {"sleeping", "in_flight"} : pc' = [pc EXCEPT ![i] = x]
  BY <1>1, <1>2, ProceedEffect
<1>8. x \in Stages /\ x # "wait_g" /\ x # "wait_t"
  BY DEF Stages
<1>9. /\ WaitG' = WaitG \ {i} /\ HoldG' = HoldG \cup {i}
      /\ WaitT(t)' = WaitT(t) \ {i} /\ HoldT(t)' = HoldT(t) \cup {i}
  BY <1>1, <1>7, <1>8, MoveTask
<1>10. i \notin WaitT(t) /\ i \in HoldT(t)
  BY <1>2 DEF WaitT, HoldT
<1>11. Balanced(semT[t], Events, WaitT(t), HoldT(t), TenantLimit)'
  <2>1. WaitT(t)' = WaitT(t) /\ HoldT(t)' = HoldT(t) /\ semT' = semT
    BY <1>2, <1>9, <1>10
  <2>. QED  BY <1>1, <2>1 DEF Accounts
<1>12. Balanced(semG, Events, WaitG, HoldG, GlobalConc)'
  BY <1>2, <1>5, <1>9
<1>13. /\ q \in Seq(Events \cup {Main}) /\ Distinct(q)
       /\ \A j \in Members(q) :
            /\ j \in Events /\ pc[j] = "wait_g"
            /\ ~MayRun(j) /\ j \in semG'.woken
       /\ i \notin Members(q)
  BY <1>1, <1>2, <1>5, ServedByGlobal, SeqOfMore DEF Served
<1> HIDE DEF q
<1>14. \A j \in Events \ {i} : pc'[j] = pc[j]
  BY <1>1, <1>7 DEF TypeOK
<1>15. \A j \in Events \ {i} : MayRun(j) => MayRun(j)'
  <2>1. semG.woken \ {i} \subseteq semG'.woken
    BY <1>2, <1>3, <1>4, ResumeKeepsWoken DEF Balanced
  <2>. QED  BY <1>2, <1>14, <2>1 DEF MayRun
<1>16. \A j \in Members(q) \cap Events : MayRun(j)' /\ ~MayRun(j)
  <2> SUFFICES ASSUME NEW j \in Members(q) \cap Events
               PROVE  MayRun(j)' /\ ~MayRun(j)
    OBVIOUS
  <2>1. pc'[j] = "wait_g" /\ ~MayRun(j) /\ j \in semG'.woken
    BY <1>13, <1>14
  <2>. QED  BY <2>1 DEF MayRun
<1>17. Main \notin Members(q)
  BY <1>13, EventsAreNumbers
<1>18. ready' \in Seq(Events \cup {Main}) /\ ReadyQueue'
  BY <1>1, <1>2, <1>7, <1>8, <1>13, <1>15, <1>16, <1>17, RunHead
<1>19. /\ now' = now /\ verdict' = verdict /\ outcome' = outcome
       /\ sessions' \in [Tenants \X SessionIds -> Seq(Messages)]
       /\ records' \in Seq(Events)
       /\ semT' = [semT EXCEPT ![t] = semT'[t]] /\ t = TenantOf(i)
  BY <1>1, <1>2 DEF TypeOK
<1> HIDE DEF t
<1>. QED
  BY <1>1, <1>6, <1>7, <1>8, <1>11, <1>12, <1>18, <1>19, TaskKeepsIInv

LEMMA WakeAndSendStep ==
  ASSUME IInv, outcome = "running", NEW i \in Events, WakeAndSend(i)
  PROVE  IInv'
<1> DEFINE t == TenantOf(i)
<1>1. TypeOK /\ Accounts /\ ReadyQueue /\ t \in Tenants /\ IsFiniteSet(Events)
  BY EventsAreNumbers DEF IInv
<1>2. /\ Running(i) /\ pc[i] = "sleeping"
      /\ ready' = Tail(ready)
      /\ Send(i)
      /\ UNCHANGED <<now, semT, semG, sessions, verdict, records, outcome>>
  BY DEF WakeAndSend
<1>3. SlotTypes' /\ pc' = [pc EXCEPT ![i] = "in_flight"] /\ "in_flight" \in Stages
  BY <1>1, <1>2, SendEffect DEF Stages
<1>4. i \notin WaitT(t) /\ i \in HoldT(t) /\ i \notin WaitG /\ i \in HoldG
  BY <1>2 DEF WaitT, HoldT, WaitG, HoldG
<1>5. /\ WaitG' = WaitG /\ HoldG' = HoldG
      /\ WaitT(t)' = WaitT(t) /\ HoldT(t)' = HoldT(t)
  <2>1. /\ WaitG \ {i} = WaitG /\ HoldG \cup {i} = HoldG
        /\ WaitT(t) \ {i} = WaitT(t) /\ HoldT(t) \cup {i} = HoldT(t)
    BY <1>4
  <2>. QED  BY <1>1, <1>3, <2>1, MoveTask
<1>6. /\ Balanced(semT[t], Events, WaitT(t), HoldT(t), TenantLimit)'
      /\ Balanced(semG, Events, WaitG, HoldG, GlobalConc)'
  <2>1. semT' = semT /\ semG' = semG
    BY <1>2
  <2>. QED  BY <1>1, <1>5, <2>1 DEF Accounts
<1>7. ready' \in Seq(Events \cup {Main}) /\ ReadyQueue'
  <2>1. /\ <<>> \in Seq(Events \cup {Main}) /\ Distinct(<<>>)
        /\ Members(<<>>) = {}
    BY EmptySeq DEF Distinct, Members
  <2>2. ready' = Tail(ready) \o <<>>
    <3>1. Tail(ready) \in Seq(Events \cup {Main})
      BY <1>1, <1>2, HeadTailProperties DEF TypeOK, Running
    <3>. QED  BY <1>2, <3>1, ConcatEmptySeq
  <2>3. \A j \in Events \ {i} : MayRun(j) => MayRun(j)'
    <3>1. \A j \in Events \ {i} : pc'[j] = pc[j]
      BY <1>1, <1>3 DEF TypeOK
    <3>. QED  BY <1>2, <3>1 DEF MayRun
  <2>. QED  BY <1>1, <1>2, <1>3, <2>1, <2>2, <2>3, RunHead
<1>8. /\ now' = now /\ verdict' = verdict /\ outcome' = outcome
      /\ sessions' \in [Tenants \X SessionIds -> Seq(Messages)]
      /\ records' \in Seq(Events)
      /\ semT' = [semT EXCEPT ![t] = semT'[t]] /\ t = TenantOf(i)
  BY <1>1, <1>2 DEF TypeOK
<1> HIDE DEF t
<1>. QED  BY <1>1, <1>3, <1>6, <1>7, <1>8, TaskKeepsIInv

(* Both permits are given back in the step that ends the request, with a   *)
(* receipt or with an exception.                                           *)
LEMMA EndRequestStep ==
  ASSUME IInv, outcome = "running", NEW i \in Events,
         Running(i), pc[i] = "in_flight",
         NEW x \in {"done", "raised"}, pc' = [pc EXCEPT ![i] = x],
         x = "raised" <=> verdict[i] = "exception",
         ReleaseBoth(i),
         UNCHANGED <<now, counts, caseOf, prompt, verdict, outcome>>,
         sessions' \in [Tenants \X SessionIds -> Seq(Messages)],
         records' \in Seq(Events)
  PROVE  IInv'
<1> DEFINE t == TenantOf(i)
           qG == NewlyWoken(semG, Release(semG))
           qT == NewlyWoken(semT[t], Release(semT[t]))
           qM == IF GatherDone(i) THEN <<Main>> ELSE <<>>
           q == (qG \o qT) \o qM
           Runnable == Events \cup {Main}
<1>1. TypeOK /\ Accounts /\ ReadyQueue /\ t \in Tenants /\ IsFiniteSet(Events)
  BY EventsAreNumbers DEF IInv
<1>2. /\ semG' = Release(semG)
      /\ semT' = [semT EXCEPT ![t] = Release(semT[t])]
      /\ ready' = Tail(ready) \o (qG \o qT) \o qM
  BY DEF ReleaseBoth
<1>3. /\ Balanced(semT[t], Events, WaitT(t), HoldT(t), TenantLimit)
      /\ Balanced(semG, Events, WaitG, HoldG, GlobalConc)
  BY <1>1 DEF Accounts
<1>4. i \notin WaitT(t) /\ i \in HoldT(t) /\ i \notin WaitG /\ i \in HoldG
  BY DEF WaitT, HoldT, WaitG, HoldG
<1>5. x \in Stages /\ x \notin {"wait_t", "wait_g", "sleeping", "in_flight"}
  BY DEF Stages
<1>6. /\ WaitG' = WaitG /\ HoldG' = HoldG \ {i}
      /\ WaitT(t)' = WaitT(t) /\ HoldT(t)' = HoldT(t) \ {i}
  <2>1. WaitG \ {i} = WaitG /\ WaitT(t) \ {i} = WaitT(t)
    BY <1>4
  <2>. QED  BY <1>1, <1>5, <2>1, MoveTask
<1>7. /\ Balanced(Release(semG), Events, WaitG, HoldG \ {i}, GlobalConc)
      /\ Served(semG, Release(semG), Events, WaitG)
  BY <1>1, <1>3, <1>4, ReleaseBalanced
<1>8. /\ Balanced(Release(semT[t]), Events, WaitT(t), HoldT(t) \ {i}, TenantLimit)
      /\ Served(semT[t], Release(semT[t]), Events, WaitT(t))
  BY <1>1, <1>3, <1>4, ReleaseBalanced
<1>9. semT'[t] = Release(semT[t]) /\ semT' = [semT EXCEPT ![t] = semT'[t]]
  BY <1>1, <1>2 DEF TypeOK
<1>10. /\ Balanced(semT[t], Events, WaitT(t), HoldT(t), TenantLimit)'
       /\ Balanced(semG, Events, WaitG, HoldG, GlobalConc)'
  BY <1>2, <1>6, <1>7, <1>8, <1>9
<1>11. /\ qG \in Seq(Runnable) /\ Distinct(qG)
       /\ \A j \in Members(qG) :
            /\ j \in Events /\ pc[j] = "wait_g"
            /\ ~MayRun(j) /\ j \in semG'.woken
  BY <1>2, <1>7, ServedByGlobal, SeqOfMore DEF Served
<1>12. /\ qT \in Seq(Runnable) /\ Distinct(qT)
       /\ \A j \in Members(qT) :
            /\ j \in Events /\ pc[j] = "wait_t" /\ TenantOf(j) = t
            /\ ~MayRun(j) /\ j \in semT'[t].woken
  BY <1>1, <1>8, <1>9, ServedByTenant, SeqOfMore DEF Served
<1>13. /\ qM \in Seq(Runnable) /\ Distinct(qM)
       /\ Members(qM) \subseteq {Main}
       /\ Main \in Members(qM) => GatherDone(i)
  <2>1. CASE GatherDone(i)
    <3>1. <<Main>> \in Seq(Runnable) /\ DOMAIN <<Main>> = {1} /\ <<Main>>[1] = Main
      OBVIOUS
    <3>. QED  BY <2>1, <3>1 DEF Distinct, Members
  <2>2. CASE ~GatherDone(i)
    <3>1. <<>> \in Seq(Runnable) /\ DOMAIN <<>> = {}
      BY EmptySeq
    <3>. QED  BY <2>2, <3>1 DEF Distinct, Members
  <2>. QED  BY <2>1, <2>2
<1> HIDE DEF qG, qT, qM
<1>14. /\ q \in Seq(Runnable) /\ Distinct(q)
       /\ Members(q) = Members(qG) \cup Members(qT) \cup Members(qM)
  <2>1. Members(qG) \cap Members(qT) = {}
    BY <1>11, <1>12
  <2> DEFINE both == qG \o qT
  <2>2. /\ both \in Seq(Runnable) /\ Distinct(both)
        /\ Members(both) = Members(qG) \cup Members(qT)
    BY <1>11, <1>12, <2>1, ConcatMembers
  <2>3. Members(both) \cap Members(qM) = {}
    BY <1>11, <1>12, <1>13, <2>2, EventsAreNumbers
  <2>4. q = both \o qM
    OBVIOUS
  <2> HIDE DEF both, q, Runnable
  <2>5. /\ both \o qM \in Seq(Runnable) /\ Distinct(both \o qM)
        /\ Members(both \o qM) = Members(both) \cup Members(qM)
    BY <1>13, <2>2, <2>3, ConcatMembers
  <2>. QED  BY <2>2, <2>4, <2>5
<1>15. ready' = Tail(ready) \o q
  <2>1. Tail(ready) \in Seq(Runnable)
    BY <1>1, HeadTailProperties DEF TypeOK, Running
  <2>2. qG \o qT \in Seq(Runnable)
    BY <1>11, <1>12, ConcatProperties
  <2> DEFINE both == qG \o qT
             rest == Tail(ready)
  <2>3. rest \in Seq(Runnable) /\ both \in Seq(Runnable)
        /\ ready' = (rest \o both) \o qM /\ q = both \o qM
    BY <1>2, <2>1, <2>2
  <2> HIDE DEF both, rest, q, Runnable
  <2>4. ready' = rest \o q
    BY <1>13, <2>3, ConcatAssociative, SMTT(60)
  <2>. QED  BY <2>4 DEF rest
<1> HIDE DEF q
<1>16. \A j \in Events \ {i} : pc'[j] = pc[j]
  BY <1>1 DEF TypeOK
<1>17. \A j \in Events \ {i} : MayRun(j) => MayRun(j)'
  <2>1. semG.woken \subseteq semG'.woken
    BY <1>2, <1>3, ReleaseKeepsWoken DEF Balanced
  <2>2. \A u \in Tenants : semT[u].woken \subseteq semT'[u].woken
    <3>1. \A u \in Tenants \ {t} : semT'[u] = semT[u]
      BY <1>1, <1>2 DEF TypeOK
    <3>2. semT[t].woken \subseteq semT'[t].woken
      BY <1>3, <1>9, ReleaseKeepsWoken DEF Balanced
    <3>. QED  BY <3>1, <3>2
  <2>. QED  BY <1>16, <2>1, <2>2, EventsAreNumbers DEF MayRun
<1>18. \A j \in Members(q) \cap Events : MayRun(j)' /\ ~MayRun(j)
  <2> SUFFICES ASSUME NEW j \in Members(q) \cap Events
               PROVE  MayRun(j)' /\ ~MayRun(j)
    OBVIOUS
  <2>1. j \in Members(qG) \/ j \in Members(qT)
    BY <1>13, <1>14, EventsAreNumbers
  <2>2. CASE j \in Members(qG)
    <3>1. pc'[j] = "wait_g" /\ ~MayRun(j) /\ j \in semG'.woken
      BY <1>11, <1>16, <2>2
    <3>. QED  BY <3>1 DEF MayRun
  <2>3. CASE j \in Members(qT)
    <3>1. /\ pc'[j] = "wait_t" /\ TenantOf(j) = t
          /\ ~MayRun(j) /\ j \in semT'[t].woken
      BY <1>12, <1>16, <2>3
    <3>. QED  BY <3>1 DEF MayRun
  <2>. QED  BY <2>1, <2>2, <2>3
<1>19. Main \in Members(q) => GatherCompleted' /\ ~GatherCompleted
  <2> SUFFICES ASSUME Main \in Members(q)
               PROVE  GatherCompleted' /\ ~GatherCompleted
    OBVIOUS
  <2>1. GatherDone(i)
    BY <1>11, <1>12, <1>13, <1>14, EventsAreNumbers
  <2>2. pc'[i] = x
    BY <1>1 DEF TypeOK
  <2>3. CASE verdict[i] = "exception" /\ \A j \in Events : pc[j] # "raised"
    BY <2>2, <2>3 DEF GatherCompleted
  <2>4. CASE verdict[i] # "exception" /\ \A j \in Events \ {i} : pc[j] = "done"
    BY <1>16, <2>2, <2>4 DEF GatherCompleted
  <2>. QED  BY <2>1, <2>3, <2>4 DEF GatherDone
<1>20. ready' \in Seq(Events \cup {Main}) /\ ReadyQueue'
  BY <1>1, <1>5, <1>14, <1>15, <1>17, <1>18, <1>19, RunHead
<1>21. SlotTypes' /\ t = TenantOf(i)
  BY <1>1 DEF TypeOK, SlotTypes
<1> HIDE DEF t
<1>. QED  BY <1>1, <1>5, <1>9, <1>10, <1>20, <1>21, TaskKeepsIInv

(* The history stays a list of messages.                                   *)
LEMMA UpdateHistoryType ==
  ASSUME TypeOK, NEW i \in Events, UpdateHistory(i)
  PROVE  sessions' \in [Tenants \X SessionIds -> Seq(Messages)]
<1> DEFINE t == TenantOf(i)
           s == Pool[t][caseOf[i]].session
           user == [role |-> "user", tenant |-> t, case |-> caseOf[i]]
           reply == [user EXCEPT !.role = "assistant"]
           turn == IF verdict[i] = "ok" THEN <<user, reply>> ELSE <<user>>
<1>1. t \in Tenants /\ caseOf[i] \in Nat
  BY EventsAreNumbers DEF TypeOK
<1>2. user \in Messages /\ reply \in Messages
  BY <1>1 DEF Messages
<1> HIDE DEF user, reply
<1>3. turn \in Seq(Messages)
  BY <1>2
<1>4. CASE s = NoSession
  BY <1>4 DEF UpdateHistory, TypeOK
<1>5. CASE s # NoSession
  <2>1. sessions' = [sessions EXCEPT ![<<t, s>>] = @ \o turn]
    BY <1>5 DEF UpdateHistory, user, reply
  <2> HIDE DEF t, s, turn
  <2>2. CASE <<t, s>> \in Tenants \X SessionIds
    <3> DEFINE k == <<t, s>>
    <3>1. sessions[k] \in Seq(Messages)
      BY <2>2 DEF TypeOK
    <3>2. sessions[k] \o turn \in Seq(Messages)
      BY <1>3, <3>1, ConcatProperties
    <3>. QED  BY <2>1, <3>2 DEF TypeOK
  <2>3. CASE <<t, s>> \notin Tenants \X SessionIds
    BY <2>1, <2>3 DEF TypeOK
  <2>. QED  BY <2>2, <2>3
<1>. QED  BY <1>4, <1>5

LEMMA RecordReceiptStep ==
  ASSUME IInv, outcome = "running", NEW i \in Events, RecordReceipt(i)
  PROVE  IInv'
<1>1. /\ Running(i) /\ pc[i] = "in_flight"
      /\ verdict[i] # "exception"
      /\ pc' = [pc EXCEPT ![i] = "done"]
      /\ ReleaseBoth(i)
      /\ UNCHANGED <<now, counts, caseOf, prompt, verdict, outcome>>
      /\ UpdateHistory(i)
      /\ records' = Append(records, i)
  BY DEF RecordReceipt
<1>2. sessions' \in [Tenants \X SessionIds -> Seq(Messages)]
  BY <1>1, UpdateHistoryType DEF IInv
<1>3. records' \in Seq(Events)
  BY <1>1, AppendProperties DEF IInv, TypeOK
<1>4. "done" \in {"done", "raised"} /\ ~("done" = "raised")
  OBVIOUS
<1>. QED  BY <1>1, <1>2, <1>3, <1>4, EndRequestStep

LEMMA RaiseOutStep ==
  ASSUME IInv, outcome = "running", NEW i \in Events, RaiseOut(i)
  PROVE  IInv'
<1>1. /\ Running(i) /\ pc[i] = "in_flight"
      /\ verdict[i] = "exception"
      /\ pc' = [pc EXCEPT ![i] = "raised"]
      /\ ReleaseBoth(i)
      /\ UNCHANGED <<now, counts, caseOf, prompt, verdict, outcome>>
      /\ sessions' = sessions /\ records' = records
  BY DEF RaiseOut
<1>2. /\ sessions' \in [Tenants \X SessionIds -> Seq(Messages)]
      /\ records' \in Seq(Events)
  BY <1>1 DEF IInv, TypeOK
<1>3. "raised" \in {"done", "raised"}
  OBVIOUS
<1>. QED  BY <1>1, <1>2, <1>3, EndRequestStep

-----------------------------------------------------------------------------
(* The end of run_mixed and the environment.                               *)
LEMMA FinishGatherStep ==
  ASSUME IInv, outcome = "running", FinishGather
  PROVE  IInv'
<1>1. TypeOK /\ ReadyQueue
  BY DEF IInv
<1>2. /\ Running(Main) /\ ready' = <<>>
      /\ UNCHANGED <<now, semT, semG, counts, caseOf, prompt, sessions,
                     verdict, records>>
  BY DEF FinishGather
<1>3. GatherCompleted
  <2>1. Main \in Members(ready)
    BY <1>1, <1>2, TailMembers DEF Running, TypeOK, ReadyQueue
  <2>. QED  BY <1>1, <2>1 DEF ReadyQueue, IsReady
<1>4. ready' \in Seq(Events \cup {Main})
  BY <1>2, EmptySeq
<1>5. CASE \E i \in Events : pc[i] = "raised"
  <2>1. /\ outcome' = "raised"
        /\ pc' = [i \in Events |->
                    IF pc[i] \in {"done", "raised"} THEN pc[i]
                    ELSE "cancelled"]
    BY <1>5 DEF FinishGather
  <2>2. pc' \in [Events -> Stages] /\ Stopped'
    BY <1>1, <2>1 DEF TypeOK, Stages, Stopped
  <2>. QED  BY <1>1, <1>2, <1>4, <2>1, <2>2 DEF TypeOK, IInv
<1>6. CASE ~\E i \in Events : pc[i] = "raised"
  <2>1. outcome' = "returned" /\ pc' = pc
    BY <1>6 DEF FinishGather
  <2>2. Stopped'
    BY <1>3, <1>6, <2>1 DEF GatherCompleted, Stopped
  <2>. QED  BY <1>1, <1>2, <1>4, <2>1, <2>2 DEF TypeOK, IInv
<1>. QED  BY <1>5, <1>6

(* Timers and answers put one more task on the queue.                      *)
LEMMA BecomesReady ==
  ASSUME IInv, outcome = "running", NEW i \in Events,
         ~IsReady(i), MayRun(i),
         ready' = Append(ready, i),
         verdict' \in [Events -> Verdicts],
         UNCHANGED <<now, pc, semT, semG, counts, caseOf, prompt, sessions,
                     records, outcome>>
  PROVE  IInv'
<1>1. TypeOK /\ Accounts /\ ReadyQueue
  BY DEF IInv
<1>2. /\ ready' \in Seq(Events \cup {Main})
      /\ Members(ready') = Members(ready) \cup {i}
      /\ Distinct(ready) /\ i \notin Members(ready) => Distinct(Append(ready, i))
  BY <1>1, AppendMembers DEF TypeOK
<1>3. Distinct(ready')
  BY <1>1, <1>2 DEF ReadyQueue, IsReady
<1>4. \A j \in Events : MayRun(j)' <=> MayRun(j)
  BY DEF MayRun
<1>5. GatherCompleted' <=> GatherCompleted
  BY DEF GatherCompleted
<1>6. ReadyQueue'
  BY <1>1, <1>2, <1>3, <1>4, <1>5, EventsAreNumbers DEF ReadyQueue, IsReady
<1>7. Accounts'
  <2>1. /\ WaitG' = WaitG /\ HoldG' = HoldG
        /\ \A t \in Tenants : WaitT(t)' = WaitT(t) /\ HoldT(t)' = HoldT(t)
    BY DEF WaitG, HoldG, WaitT, HoldT
  <2>. QED  BY <1>1, <2>1 DEF Accounts
<1>. QED  BY <1>1, <1>2, <1>6, <1>7 DEF TypeOK, IInv

LEMMA TickStep ==
  ASSUME IInv, outcome = "running", Tick
  PROVE  IInv'
<1>1. TypeOK /\ Accounts /\ ReadyQueue
  BY DEF IInv
<1>2. /\ now < Horizon /\ now' = now + 1
      /\ UNCHANGED <<ready, pc, semT, semG, counts, caseOf, prompt, sessions,
                     verdict, records, outcome>>
  BY DEF Tick
<1>3. now' \in 0 .. Horizon
  BY <1>1, <1>2, LimitsAssumption DEF TypeOK
<1>4. \A j \in Events : MayRun(j) => MayRun(j)'
  BY <1>1, <1>2, EventsAreNumbers DEF MayRun, TypeOK
<1>5. GatherCompleted' <=> GatherCompleted
  BY <1>2 DEF GatherCompleted
<1>6. ReadyQueue'
  BY <1>1, <1>2, <1>4, <1>5 DEF ReadyQueue, IsReady
<1>7. Accounts'
  <2>1. /\ WaitG' = WaitG /\ HoldG' = HoldG
        /\ \A t \in Tenants : WaitT(t)' = WaitT(t) /\ HoldT(t)' = HoldT(t)
    BY <1>2 DEF WaitG, HoldG, WaitT, HoldT
  <2>. QED  BY <1>1, <1>2, <2>1 DEF Accounts
<1>. QED  BY <1>1, <1>2, <1>3, <1>6, <1>7 DEF TypeOK, IInv

-----------------------------------------------------------------------------
LEMMA InitIInv == Init => IInv
<1> SUFFICES ASSUME Init PROVE IInv
  OBVIOUS
<1>1. /\ pc = [i \in Events |-> "new"] /\ outcome = "running" /\ now = 0
      /\ semT = [t \in Tenants |-> NewSemaphore(TenantLimit)]
      /\ semG = NewSemaphore(GlobalConc)
      /\ ready = IF Arrivals = <<>> THEN <<Main>> ELSE [i \in Events |-> i]
  BY DEF Init, FirstSteps
<1>2. /\ WaitG = {} /\ HoldG = {}
      /\ \A t \in Tenants : WaitT(t) = {} /\ HoldT(t) = {}
  BY <1>1 DEF WaitG, HoldG, WaitT, HoldT
<1>3. Accounts
  <2>1. Balanced(NewSemaphore(GlobalConc), Events, {}, {}, GlobalConc)
    BY LimitsArePositive, NewBalanced
  <2>2. Balanced(NewSemaphore(TenantLimit), Events, {}, {}, TenantLimit)
    BY LimitsArePositive, NewBalanced
  <2>. QED  BY <1>1, <1>2, <2>1, <2>2 DEF Accounts
<1>4. ready \in Seq(Events \cup {Main}) /\ ReadyQueue
  <2>1. CASE Arrivals = <<>>
    <3>1. ready = <<Main>> /\ Events = {}
      BY <1>1, <2>1 DEF Events
    <3>2. <<Main>> \in Seq(Events \cup {Main}) /\ DOMAIN <<Main>> = {1}
      OBVIOUS
    <3>. QED  BY <3>1, <3>2 DEF ReadyQueue, GatherCompleted, Distinct
  <2>2. CASE Arrivals # <<>>
    <3>1. ready = [i \in 1 .. Len(Arrivals) |-> i]
      BY <1>1, <2>2, EventsAreNumbers
    <3>2. /\ ready \in [1 .. Len(Arrivals) -> Events \cup {Main}]
          /\ DOMAIN ready = Events
          /\ \A i \in Events : ready[i] = i
      BY <3>1, EventsAreNumbers
    <3>3. ready \in Seq(Events \cup {Main})
      BY <3>2, EventsAreNumbers, SeqDef
    <3>4. Distinct(ready) /\ ~IsReady(Main)
      BY <3>2, EventsAreNumbers DEF Distinct, IsReady, Members
    <3>5. \A i \in Events : MayRun(i)
      BY <1>1 DEF MayRun
    <3>. QED  BY <3>3, <3>4, <3>5 DEF ReadyQueue
  <2>. QED  BY <2>1, <2>2
<1>5. semG \in Semaphores /\ semT \in [Tenants -> Semaphores]
  <2>1. /\ NewSemaphore(GlobalConc) \in Semaphores
        /\ NewSemaphore(TenantLimit) \in Semaphores
    BY LimitsArePositive, EmptySeq DEF NewSemaphore, Semaphores
  <2>. QED  BY <1>1, <2>1
<1>6. TypeOK
  <2>1. <<>> \in Seq(Messages) /\ <<>> \in Seq(Events)
    BY EmptySeq
  <2>2. now \in 0 .. Horizon
    BY <1>1, LimitsAssumption
  <2>. QED
    BY <1>1, <1>4, <1>5, <2>1, <2>2 DEF Init, FirstSteps, TypeOK, Stages, Verdicts
<1>. QED  BY <1>1, <1>3, <1>4, <1>6 DEF IInv

LEMMA NextIInv == IInv /\ [Next]_vars => IInv'
<1> SUFFICES ASSUME IInv, [Next]_vars PROVE IInv'
  OBVIOUS
<1>1. CASE UNCHANGED vars
  BY <1>1 DEF IInv, vars, TypeOK, Accounts, ReadyQueue, Stopped, WaitG, HoldG,
              WaitT, HoldT, MayRun, GatherCompleted, IsReady
<1>2. ASSUME NEW i \in Events, TaskStep(i)
      PROVE  IInv'
  <2>1. outcome = "running"
    BY <1>2 DEF TaskStep, StartTask, GetTenantPermit, GetGlobalPermit,
                WakeAndSend, RecordReceipt, RaiseOut, Running
  <2>. QED
    BY <1>2, <2>1, StartTaskStep, GetTenantPermitStep, GetGlobalPermitStep,
       WakeAndSendStep, RecordReceiptStep, RaiseOutStep DEF TaskStep
<1>3. ASSUME NEW i \in Events, TimerFires(i)
      PROVE  IInv'
  <2>1. MayRun(i) /\ verdict' \in [Events -> Verdicts]
    BY <1>3 DEF TimerFires, MayRun, IInv, TypeOK
  <2>. QED  BY <1>3, <2>1, BecomesReady DEF TimerFires
<1>4. ASSUME NEW i \in Events, ServerAnswers(i)
      PROVE  IInv'
  <2>1. MayRun(i) /\ verdict' \in [Events -> Verdicts]
    BY <1>4 DEF ServerAnswers, MayRun, IInv, TypeOK
  <2>. QED  BY <1>4, <2>1, BecomesReady DEF ServerAnswers
<1>5. CASE FinishGather
  BY <1>5, FinishGatherStep DEF FinishGather, Running
<1>6. CASE Tick
  BY <1>6, TickStep DEF Tick
<1>7. CASE Ended
  BY <1>1, <1>7 DEF Ended
<1>. QED  BY <1>1, <1>2, <1>3, <1>4, <1>5, <1>6, <1>7 DEF Next

(* For every arrival sequence, pool and pair of limits, run_mixed keeps    *)
(* its semaphores, queue and histories in the shapes the code gives them.  *)
THEOREM TypeCorrect == Spec => []TypeOK
<1>1. IInv => TypeOK
  BY DEF IInv
<1>. QED  BY <1>1, InitIInv, NextIInv, PTL DEF Spec

LEMMA HoldersOfPermits ==
  ASSUME IInv, outcome = "running"
  PROVE  /\ GlobalHolders = HoldG \cup semG.woken
         /\ \A t \in Tenants : TenantHolders(t) = HoldT(t) \cup semT[t].woken
<1>1. semG.woken \subseteq Events
  BY DEF IInv, Accounts, Balanced, WellFormed
<1>2. \A t \in Tenants : semT[t].woken \subseteq WaitT(t)
  BY DEF IInv, Accounts, Balanced, WellFormed
<1>3. GlobalHolders = HoldG \cup semG.woken
  BY <1>1 DEF GlobalHolders, HoldsGlobal, HoldG
<1>4. \A t \in Tenants : TenantHolders(t) = HoldT(t) \cup semT[t].woken
  BY <1>2 DEF TenantHolders, HoldsTenant, HoldT, WaitT
<1>. QED  BY <1>3, <1>4

LEMMA PermitsBoundSubset ==
  ASSUME NEW H, H \subseteq Events, NEW F, F \subseteq H,
         NEW v \in Nat, NEW limit, v + Cardinality(H) = limit
  PROVE  Cardinality(F) <= limit
<1>1. IsFiniteSet(H)
  BY EventsAreNumbers, FS_Subset
<1>2. /\ IsFiniteSet(F) /\ Cardinality(F) <= Cardinality(H)
      /\ Cardinality(F) \in Nat /\ Cardinality(H) \in Nat
  BY <1>1, FS_Subset, FS_CardinalityType
<1>. QED  BY <1>2

(* No permit is lost or made up by the hand-over between tasks, whatever   *)
(* order requests end in and exceptions included.                          *)
THEOREM PermitsAreConserved == Spec => []PermitsConserved
<1>1. IInv => PermitsConserved
  BY HoldersOfPermits DEF PermitsConserved, IInv, Accounts, Balanced
<1>. QED  BY <1>1, InitIInv, NextIInv, PTL DEF Spec

LEMMA LimitsAreKept == IInv => ConcurrencyBounded
<1> SUFFICES ASSUME IInv PROVE ConcurrencyBounded
  OBVIOUS
<1>1. CASE outcome = "running"
  <2>1. InFlight \subseteq HoldG \cup semG.woken
    BY DEF InFlight, HoldG
  <2>2. /\ semG.value + Cardinality(HoldG \cup semG.woken) = GlobalConc
        /\ semG.value \in Nat
        /\ HoldG \cup semG.woken \subseteq Events
    BY <1>1 DEF IInv, Accounts, Balanced, WellFormed
  <2>3. Cardinality(InFlight) <= GlobalConc
    BY <2>1, <2>2, PermitsBoundSubset
  <2>4. ASSUME NEW t \in Tenants
        PROVE  Cardinality({i \in InFlight : TenantOf(i) = t}) <= TenantLimit
    <3> DEFINE F == {i \in InFlight : TenantOf(i) = t}
    <3>1. F \subseteq HoldT(t) \cup semT[t].woken
      BY DEF InFlight, HoldT
    <3>2. /\ semT[t].value + Cardinality(HoldT(t) \cup semT[t].woken)
               = TenantLimit
          /\ semT[t].value \in Nat
          /\ HoldT(t) \cup semT[t].woken \subseteq Events
      BY <1>1 DEF IInv, Accounts, Balanced, WellFormed
    <3>. QED  BY <3>1, <3>2, PermitsBoundSubset
  <2>. QED  BY <2>3, <2>4 DEF ConcurrencyBounded
<1>2. CASE outcome # "running"
  <2>1. InFlight = {}
    BY <1>2 DEF IInv, Stopped, InFlight
  <2>. QED  BY <2>1, FS_EmptySet, LimitsArePositive DEF ConcurrencyBounded
<1>. QED  BY <1>1, <1>2

(* The server never sees more concurrent requests than the workload allows. *)
THEOREM ConcurrencyIsBounded == Spec => []ConcurrencyBounded
BY LimitsAreKept, InitIInv, NextIInv, PTL DEF Spec

-----------------------------------------------------------------------------
(* The order in which permits are given: a tenant's are given in the order *)
(* of its arrivals.                                                        *)

(* Tasks that have not started, and those of tenant t that no permit of    *)
(* the tenant was given to yet.                                            *)
Fresh == {i \in Events : pc[i] = "new"}
Outside(t) == {i \in Fresh : TenantOf(i) = t} \cup (WaitT(t) \ semT[t].woken)

(* All tasks take their first step, in their order, before any permit of a *)
(* tenant can come back.                                                   *)
Startup ==
  /\ Fresh \subseteq Members(ready)
  /\ Leading(ready, Fresh)
  /\ \A i, j \in Events : i < j /\ i \in Fresh => j \in Fresh
  /\ Fresh # {} => \A t \in Tenants : semT[t].woken = {}

(* A tenant's permits are given in the order of its arrivals, and none is  *)
(* kept back.                                                              *)
GivenInOrder(t) ==
  /\ NoneIdle(semT[t])
  /\ Ascending(semT[t].waiters)
  /\ \A i, j \in Events :
       i < j /\ i \in Outside(t) /\ TenantOf(j) = t => j \in Outside(t)

Ordered ==
  outcome = "running" => Startup /\ \A t \in Tenants : GivenInOrder(t)

-----------------------------------------------------------------------------
LEMMA EventsAreNats == Events \subseteq Nat
BY EventsAreNumbers

LEMMA MembersOfConcat ==
  ASSUME NEW S, NEW s \in Seq(S), NEW q \in Seq(S)
  PROVE  /\ s \o q \in Seq(S)
         /\ Members(s \o q) = Members(s) \cup Members(q)
<1> DEFINE m == Len(s)
           n == Len(q)
<1>1. /\ m \in Nat /\ n \in Nat
      /\ DOMAIN s = 1 .. m /\ DOMAIN q = 1 .. n
  BY LenProperties
<1>2. /\ s \o q \in Seq(S) /\ Len(s \o q) = m + n
      /\ \A k \in 1 .. m + n : (s \o q)[k] = IF k <= m THEN s[k] ELSE q[k - m]
  BY ConcatProperties
<1>3. DOMAIN (s \o q) = 1 .. m + n
  BY <1>2, LenProperties
<1> HIDE DEF m, n
<1>4. ASSUME NEW k \in 1 .. m
      PROVE  s[k] \in Members(s \o q)
  <2>1. k \in 1 .. m + n /\ (s \o q)[k] = s[k]
    BY <1>1, <1>2
  <2>. QED  BY <1>3, <2>1 DEF Members
<1>5. ASSUME NEW k \in 1 .. n
      PROVE  q[k] \in Members(s \o q)
  <2>1. m + k \in 1 .. m + n /\ ~(m + k <= m) /\ (m + k) - m = k
    BY <1>1
  <2>2. (s \o q)[m + k] = q[k]
    BY <1>2, <2>1
  <2>. QED  BY <1>3, <2>1, <2>2 DEF Members
<1>6. ASSUME NEW k \in 1 .. m + n
      PROVE  (s \o q)[k] \in Members(s) \cup Members(q)
  <2>1. CASE k <= m
    <3>1. k \in 1 .. m
      BY <1>1, <2>1
    <3>. QED  BY <1>1, <1>2, <2>1, <3>1 DEF Members
  <2>2. CASE ~(k <= m)
    <3>1. k - m \in 1 .. n
      BY <1>1, <2>2
    <3>. QED  BY <1>1, <1>2, <2>2, <3>1 DEF Members
  <2>. QED  BY <2>1, <2>2
<1>. QED  BY <1>1, <1>2, <1>3, <1>4, <1>5, <1>6 DEF Members

(* A step of task i of tenant t keeps the order if those who got a permit  *)
(* of the tenant by it were the first of all who had none.                 *)
LEMMA TaskKeepsOrder ==
  ASSUME TypeOK, ReadyQueue, Startup, \A u \in Tenants : GivenInOrder(u),
         NEW i \in Events, Running(i), NEW t \in Tenants, t = TenantOf(i),
         NEW x \in Stages \ {"new"}, pc' = [pc EXCEPT ![i] = x],
         NEW q \in Seq(Events \cup {Main}), Members(q) \cap Fresh = {},
         ready' = Tail(ready) \o q,
         semT' = [semT EXCEPT ![t] = semT'[t]],
         pc[i] = "new" => semT'[t].woken = semT[t].woken,
         NoneIdle(semT'[t]), Ascending(semT'[t].waiters),
         Outside(t)' \subseteq Outside(t),
         \A d \in Outside(t) \ Outside(t)', j \in Outside(t) : d <= j
  PROVE  Ordered'
<1>1. /\ ready \in Seq(Events \cup {Main}) /\ ready # <<>> /\ Head(ready) = i
      /\ Distinct(ready)
  BY DEF TypeOK, Running, ReadyQueue
<1>2. /\ Tail(ready) \in Seq(Events \cup {Main})
      /\ Members(Tail(ready)) = Members(ready) \ {i}
  BY <1>1, TailMembers
<1>3. /\ \A j \in Events \ {i} : pc'[j] = pc[j]
      /\ pc'[i] = x
      /\ Fresh' = Fresh \ {i}
  BY DEF TypeOK, Fresh
<1>4. Fresh \subseteq Nat /\ Fresh \subseteq Events
  BY EventsAreNats DEF Fresh
<1>5. \A j \in Fresh : i \in Fresh /\ i <= j
  BY <1>1, <1>4, HeadLeads DEF Startup
<1>6. \A u \in Tenants \ {t} : semT'[u] = semT[u]
  BY DEF TypeOK
<1>7. Startup'
  <2>1. Fresh' \subseteq Members(ready')
    <3> DEFINE rest == Tail(ready)
    <3>1. rest \in Seq(Events \cup {Main}) /\ Members(rest) = Members(ready) \ {i}
      BY <1>2
    <3>2. ready' = rest \o q
      OBVIOUS
    <3> HIDE DEF rest
    <3>3. Members(rest \o q) = Members(rest) \cup Members(q)
      BY <3>1, MembersOfConcat
    <3>. QED  BY <1>3, <3>1, <3>2, <3>3 DEF Startup
  <2>2. Leading(ready', Fresh')
    BY <1>1, <1>3, <1>4, RestLeads DEF Startup
  <2>3. ASSUME NEW j \in Events, NEW k \in Events, j < k, j \in Fresh'
        PROVE  k \in Fresh'
    <3>1. i <= j /\ k \in Fresh
      BY <1>3, <1>5, <2>3 DEF Startup
    <3>2. k # i
      BY <2>3, <3>1, EventsAreNats
    <3>. QED  BY <1>3, <3>1, <3>2
  <2>4. ASSUME NEW u \in Tenants, Fresh' # {}
        PROVE  semT'[u].woken = {}
    <3>1. Fresh # {} /\ i \in Fresh
      BY <1>3, <1>5, <2>4
    <3>2. semT[u].woken = {} /\ pc[i] = "new"
      BY <3>1 DEF Startup, Fresh
    <3>. QED  BY <1>6, <3>2
  <2>. QED  BY <2>1, <2>2, <2>3, <2>4 DEF Startup
<1>8. GivenInOrder(t)'
  <2> SUFFICES ASSUME NEW j \in Events, NEW k \in Events, j < k,
                      j \in Outside(t)', TenantOf(k) = t
               PROVE  k \in Outside(t)'
    BY DEF GivenInOrder
  <2>1. j \in Outside(t) /\ k \in Outside(t)
    BY DEF GivenInOrder
  <2>. QED  BY <2>1, EventsAreNats
<1>9. ASSUME NEW u \in Tenants, u # t
      PROVE  GivenInOrder(u)'
  <2>1. semT'[u] = semT[u]
    BY <1>6, <1>9
  <2>2. Outside(u)' = Outside(u)
    BY <1>3, <1>9, <2>1 DEF Outside, WaitT, Fresh
  <2>. QED  BY <2>1, <2>2 DEF GivenInOrder
<1>. QED  BY <1>7, <1>8, <1>9 DEF Ordered

(* A step that leaves the tenant's semaphore and the tasks it knows alone. *)
LEMMA StageKeepsOrder ==
  ASSUME TypeOK, ReadyQueue, Startup, \A u \in Tenants : GivenInOrder(u),
         NEW i \in Events, Running(i), pc[i] \in {"wait_g", "sleeping"},
         NEW x \in {"sleeping", "in_flight"}, pc' = [pc EXCEPT ![i] = x],
         NEW q \in Seq(Events \cup {Main}), Members(q) \cap Fresh = {},
         ready' = Tail(ready) \o q, semT' = semT
  PROVE  Ordered'
<1> DEFINE t == TenantOf(i)
<1>1. t \in Tenants
  BY EventsAreNumbers
<1>2. x \in Stages \ {"new"} /\ pc[i] # "new"
  BY DEF Stages
<1>3. semT' = [semT EXCEPT ![t] = semT'[t]]
  BY <1>1 DEF TypeOK
<1>4. Outside(t)' = Outside(t)
  <2>1. pc'[i] = x /\ \A j \in Events \ {i} : pc'[j] = pc[j]
    BY DEF TypeOK
  <2>. QED  BY <2>1 DEF Outside, WaitT, Fresh
<1>5. NoneIdle(semT'[t]) /\ Ascending(semT'[t].waiters)
  BY <1>1 DEF GivenInOrder
<1> HIDE DEF t
<1>6. t = TenantOf(i)
  BY DEF t
<1>7. /\ Outside(t)' \subseteq Outside(t)
      /\ \A d \in Outside(t) \ Outside(t)', j \in Outside(t) : d <= j
  BY <1>4
<1>. QED  BY <1>1, <1>2, <1>3, <1>5, <1>6, <1>7, TaskKeepsOrder

-----------------------------------------------------------------------------
(* The steps of a task.                                                    *)
LEMMA QueueAlone ==
  ASSUME TypeOK, NEW i, Running(i), ready' = Tail(ready)
  PROVE  /\ <<>> \in Seq(Events \cup {Main})
         /\ Members(<<>>) \cap Fresh = {}
         /\ ready' = Tail(ready) \o <<>>
<1>1. <<>> \in Seq(Events \cup {Main}) /\ Members(<<>>) = {}
  BY EmptySeq DEF Members
<1>2. Tail(ready) \in Seq(Events \cup {Main})
  BY HeadTailProperties DEF TypeOK, Running
<1>. QED  BY <1>1, <1>2, ConcatEmptySeq

LEMMA StartTaskOrder ==
  ASSUME IInv, Ordered, outcome = "running", NEW i \in Events, StartTask(i)
  PROVE  Ordered'
<1> DEFINE t == TenantOf(i)
<1>1. /\ TypeOK /\ ReadyQueue /\ t \in Tenants
      /\ Startup /\ \A u \in Tenants : GivenInOrder(u)
  BY EventsAreNumbers DEF IInv, Ordered
<1>2. Running(i) /\ pc[i] = "new" /\ ready' = Tail(ready)
  BY DEF StartTask
<1>3. /\ i \in Fresh /\ \A j \in Fresh : i <= j
      /\ semT[t].woken = {} /\ WaitT(t) \ {i} = WaitT(t)
      /\ i \notin WaitT(t) /\ i \notin HoldT(t)
  <2>1. /\ ready \in Seq(Events \cup {Main}) /\ Head(ready) = i
        /\ Fresh \subseteq Nat
    BY <1>1, <1>2, EventsAreNats DEF TypeOK, Running, Fresh
  <2>2. \A j \in Fresh : i <= j
    BY <1>1, <2>1, HeadLeads DEF Startup
  <2>. QED  BY <1>1, <1>2, <2>2 DEF Fresh, Startup, WaitT, HoldT
<1>4. /\ Balanced(semT[t], Events, WaitT(t), HoldT(t), TenantLimit)
      /\ WellFormed(semT[t], Events) /\ Members(semT[t].waiters) = WaitT(t)
      /\ NoneIdle(semT[t]) /\ Ascending(semT[t].waiters)
  BY <1>1 DEF IInv, Accounts, Balanced, GivenInOrder
<1>5. CASE Locked(semT[t])
  <2>1. /\ semT' = [semT EXCEPT ![t] = Enqueue(@, i)]
        /\ pc' = [pc EXCEPT ![i] = "wait_t"]
    BY <1>5 DEF StartTask
  <2>2. /\ semT'[t] = Enqueue(semT[t], i)
        /\ semT' = [semT EXCEPT ![t] = semT'[t]]
    BY <1>1, <2>1 DEF TypeOK
  <2>3. "wait_t" \in Stages \ {"new"}
    BY DEF Stages
  <2>4. WaitT(t)' = WaitT(t) \cup {i} /\ Fresh' = Fresh \ {i}
    <3>1. pc'[i] = "wait_t" /\ \A j \in Events \ {i} : pc'[j] = pc[j]
      BY <1>1, <2>1 DEF TypeOK
    <3>. QED  BY <3>1 DEF WaitT, Fresh
  <2>5. /\ semT'[t].woken = semT[t].woken /\ semT'[t].value = semT[t].value
    BY <1>3, <1>4, <2>2, EnqueueEffect
  <2>6. Outside(t)' = Outside(t)
    BY <1>3, <2>4, <2>5 DEF Outside
  <2>7. NoneIdle(semT'[t])
    <3>1. semT[t].value = 0
      BY <1>3, <1>4, <1>5, WaitersAndPending DEF NoneIdle, Unserved, Locked
    <3>. QED  BY <2>5, <3>1 DEF NoneIdle
  <2>8. Ascending(semT'[t].waiters)
    <3>1. \A j \in WaitT(t) : j < i
      <4> SUFFICES ASSUME NEW j \in WaitT(t) PROVE j < i
        OBVIOUS
      <4>1. j \in Events /\ j \notin Fresh
        BY DEF WaitT, Fresh
      <4>2. ~(i < j) /\ i # j
        BY <1>1, <1>3, <4>1 DEF Startup
      <4>. QED  BY <4>1, <4>2, EventsAreNats
    <3>2. \A j \in Members(semT[t].waiters) : j < i
      BY <1>4, <3>1
    <3>3. WellFormed(semT[t], Events) /\ Ascending(semT[t].waiters) /\ i \in Events
      BY <1>4
    <3> HIDE DEF t
    <3>4. Ascending(Enqueue(semT[t], i).waiters)
      BY <3>2, <3>3, EventsAreNats, EnqueueInTurn
    <3>. QED  BY <2>2, <3>4
  <2> HIDE DEF t
  <2>9. /\ Outside(t)' \subseteq Outside(t)
        /\ \A d \in Outside(t) \ Outside(t)', j \in Outside(t) : d <= j
        /\ t = TenantOf(i)
    BY <2>6 DEF t
  <2>10. PICK x \in Stages \ {"new"} : pc' = [pc EXCEPT ![i] = x]
    BY <2>1, <2>3
  <2>. QED
    BY <1>1, <1>2, <2>2, <2>5, <2>7, <2>8, <2>9, <2>10, QueueAlone,
       TaskKeepsOrder
<1>6. CASE ~Locked(semT[t])
  <2>1. semT' = [semT EXCEPT ![t] = Take(@)] /\ EnterGlobal(i)
    BY <1>6 DEF StartTask
  <2>2. /\ semT'[t] = Take(semT[t])
        /\ semT' = [semT EXCEPT ![t] = semT'[t]]
    BY <1>1, <2>1 DEF TypeOK
  <2>3. PICK x \in {"wait_g", "sleeping", "in_flight"} : pc' = [pc EXCEPT ![i] = x]
    BY <1>1, <1>2, <2>1, EnterGlobalEffect DEF IInv, Accounts
  <2>4. x \in Stages \ {"new"} /\ x # "wait_t"
    BY DEF Stages
  <2>5. WaitT(t)' = WaitT(t) /\ Fresh' = Fresh \ {i}
    <3>1. pc'[i] = x /\ \A j \in Events \ {i} : pc'[j] = pc[j]
      BY <1>1, <2>3 DEF TypeOK
    <3>. QED  BY <1>3, <2>4, <3>1 DEF WaitT, Fresh
  <2>6. WaitT(t) = {}
    BY <1>4, <1>6, WaitersAndPending DEF Locked
  <2>7. /\ semT'[t].woken = semT[t].woken /\ semT'[t].waiters = semT[t].waiters
    BY <1>4, <1>6, <2>2, TakeEffect
  <2>8. NoneIdle(semT'[t]) /\ Ascending(semT'[t].waiters)
    BY <1>4, <2>6, <2>7 DEF NoneIdle, Unserved
  <2>9. /\ Outside(t)' \subseteq Outside(t)
        /\ \A d \in Outside(t) \ Outside(t)', j \in Outside(t) : d <= j
    BY <1>3, <2>5, <2>6, <2>7 DEF Outside
  <2> HIDE DEF t
  <2>10. t = TenantOf(i)
    BY DEF t
  <2>. QED
    BY <1>1, <1>2, <2>2, <2>3, <2>4, <2>7, <2>8, <2>9, <2>10, QueueAlone,
       TaskKeepsOrder
<1>. QED  BY <1>5, <1>6

(* Whoever the tenant's semaphore serves comes before all who still have   *)
(* no permit of the tenant.                                                *)
LEMMA ServedFirst ==
  ASSUME IInv, outcome = "running", Startup, NEW t \in Tenants, GivenInOrder(t),
         NEW next, Served(semT[t], next, Events, WaitT(t)), InTurn(semT[t], next)
  PROVE  /\ NewlyWoken(semT[t], next) \in Seq(Events \cup {Main})
         /\ Members(NewlyWoken(semT[t], next)) \cap Fresh = {}
         /\ \A d \in next.woken \ semT[t].woken, j \in Outside(t) : d <= j
<1>1. Members(NewlyWoken(semT[t], next)) \subseteq WaitT(t)
  BY DEF Served
<1>2. Members(NewlyWoken(semT[t], next)) \cap Fresh = {}
  BY <1>1 DEF WaitT, Fresh
<1>3. ASSUME NEW d \in next.woken \ semT[t].woken, NEW j \in Outside(t)
      PROVE  d <= j
  <2>1. d \in WaitT(t)
    BY <1>1 DEF Served
  <2>2. CASE j \in WaitT(t) \ semT[t].woken
    <3>1. j \in Unserved(semT[t])
      BY <2>2 DEF Unserved, IInv, Accounts, Balanced
    <3>. QED  BY <3>1 DEF InTurn
  <2>3. CASE j \in Fresh
    <3>1. d \in Events /\ j \in Events /\ d \notin Fresh
      BY <2>1, <2>3 DEF WaitT, Fresh
    <3>2. ~(j < d)
      BY <2>3, <3>1 DEF Startup
    <3>. QED  BY <3>1, <3>2, EventsAreNats
  <2>. QED  BY <2>2, <2>3 DEF Outside
<1>. QED  BY <1>2, <1>3, SeqOfMore DEF Served

LEMMA GetTenantPermitOrder ==
  ASSUME IInv, Ordered, outcome = "running", NEW i \in Events,
         GetTenantPermit(i)
  PROVE  Ordered'
<1> DEFINE t == TenantOf(i)
           next == Resume(semT[t], i)
           q == NewlyWoken(semT[t], next)
<1>1. /\ TypeOK /\ ReadyQueue /\ t \in Tenants /\ IsFiniteSet(Events)
      /\ Startup /\ \A u \in Tenants : GivenInOrder(u)
  BY EventsAreNumbers DEF IInv, Ordered
<1>2. /\ Running(i) /\ pc[i] = "wait_t"
      /\ semT' = [semT EXCEPT ![t] = next]
      /\ ready' = Tail(ready) \o q
      /\ EnterGlobal(i)
  BY DEF GetTenantPermit
<1>3. /\ Balanced(semT[t], Events, WaitT(t), HoldT(t), TenantLimit)
      /\ WellFormed(semT[t], Events)
      /\ NoneIdle(semT[t]) /\ Ascending(semT[t].waiters)
  BY <1>1 DEF IInv, Accounts, Balanced, GivenInOrder
<1>4. i \in semT[t].woken
  <2>1. i \in Members(ready)
    BY <1>1, <1>2, TailMembers DEF Running, TypeOK, ReadyQueue
  <2>. QED  BY <1>1, <1>2, <2>1 DEF ReadyQueue, IsReady, MayRun
<1>5. /\ Served(semT[t], next, Events, WaitT(t))
      /\ InTurn(semT[t], next) /\ NoneIdle(next)
      /\ semT[t].woken \ {i} \subseteq next.woken
  BY <1>1, <1>3, <1>4, EventsAreNats, ResumeBalanced, ResumeInTurn,
     ResumeKeepsWoken
<1>6. PICK x \in {"wait_g", "sleeping", "in_flight"} : pc' = [pc EXCEPT ![i] = x]
  BY <1>1, <1>2, EnterGlobalEffect DEF IInv, Accounts
<1>7. x \in Stages \ {"new"} /\ x # "wait_t"
  BY DEF Stages
<1>8. WaitT(t)' = WaitT(t) \ {i} /\ Fresh' = Fresh
  <2>1. pc'[i] = x /\ \A j \in Events \ {i} : pc'[j] = pc[j]
    BY <1>1, <1>6 DEF TypeOK
  <2>. QED  BY <1>2, <1>7, <2>1 DEF WaitT, Fresh
<1>9. semT'[t] = next /\ semT' = [semT EXCEPT ![t] = semT'[t]]
  BY <1>1, <1>2 DEF TypeOK
<1>10. /\ q \in Seq(Events \cup {Main}) /\ Members(q) \cap Fresh = {}
       /\ \A d \in next.woken \ semT[t].woken, j \in Outside(t) : d <= j
  BY <1>1, <1>5, ServedFirst
<1> HIDE DEF next, q
<1>11. /\ Outside(t)' \subseteq Outside(t)
       /\ \A d \in Outside(t) \ Outside(t)', j \in Outside(t) : d <= j
  <2>1. /\ Outside(t)' \subseteq Outside(t)
        /\ Outside(t) \ Outside(t)' \subseteq next.woken \ semT[t].woken
    BY <1>4, <1>5, <1>8, <1>9 DEF Outside
  <2>. QED  BY <1>10, <2>1
<1>12. /\ NoneIdle(semT'[t]) /\ Ascending(semT'[t].waiters) /\ pc[i] # "new"
  BY <1>2, <1>5, <1>9 DEF InTurn
<1> HIDE DEF t
<1>13. t = TenantOf(i)
  BY DEF t
<1>. QED
  BY <1>1, <1>2, <1>6, <1>7, <1>9, <1>10, <1>11, <1>12, <1>13, TaskKeepsOrder

LEMMA GetGlobalPermitOrder ==
  ASSUME IInv, Ordered, outcome = "running", NEW i \in Events,
         GetGlobalPermit(i)
  PROVE  Ordered'
<1> DEFINE q == NewlyWoken(semG, Resume(semG, i))
<1>1. /\ TypeOK /\ ReadyQueue /\ IsFiniteSet(Events)
      /\ Balanced(semG, Events, WaitG, HoldG, GlobalConc)
      /\ Startup /\ \A u \in Tenants : GivenInOrder(u)
  BY EventsAreNumbers DEF IInv, Ordered, Accounts
<1>2. /\ Running(i) /\ pc[i] = "wait_g" /\ semT' = semT
      /\ ready' = Tail(ready) \o q
      /\ Proceed(i)
  BY DEF GetGlobalPermit
<1>3. i \in semG.woken
  <2>1. i \in Members(ready)
    BY <1>1, <1>2, TailMembers DEF Running, TypeOK, ReadyQueue
  <2>. QED  BY <1>1, <1>2, <2>1 DEF ReadyQueue, IsReady, MayRun
<1>4. PICK x \in {"sleeping", "in_flight"} : pc' = [pc EXCEPT ![i] = x]
  BY <1>1, <1>2, ProceedEffect
<1>5. q \in Seq(Events \cup {Main}) /\ Members(q) \cap Fresh = {}
  <2>1. Served(semG, Resume(semG, i), Events, WaitG)
    BY <1>1, <1>3, ResumeBalanced
  <2>2. Members(q) \subseteq WaitG /\ q \in Seq(Events)
    BY <2>1 DEF Served
  <2>. QED  BY <2>2, SeqOfMore DEF WaitG, Fresh
<1> HIDE DEF q
<1>. QED  BY <1>1, <1>2, <1>4, <1>5, StageKeepsOrder

LEMMA WakeAndSendOrder ==
  ASSUME IInv, Ordered, outcome = "running", NEW i \in Events, WakeAndSend(i)
  PROVE  Ordered'
<1>1. /\ TypeOK /\ ReadyQueue
      /\ Startup /\ \A u \in Tenants : GivenInOrder(u)
  BY DEF IInv, Ordered
<1>2. /\ Running(i) /\ pc[i] = "sleeping" /\ semT' = semT
      /\ ready' = Tail(ready)
      /\ pc' = [pc EXCEPT ![i] = "in_flight"]
  BY DEF WakeAndSend, Send
<1>. QED  BY <1>1, <1>2, QueueAlone, StageKeepsOrder

LEMMA EndRequestOrder ==
  ASSUME IInv, Ordered, outcome = "running", NEW i \in Events,
         Running(i), pc[i] = "in_flight",
         NEW x \in {"done", "raised"}, pc' = [pc EXCEPT ![i] = x],
         ReleaseBoth(i)
  PROVE  Ordered'
<1> DEFINE t == TenantOf(i)
           next == Release(semT[t])
           qG == NewlyWoken(semG, Release(semG))
           qT == NewlyWoken(semT[t], next)
           qM == IF GatherDone(i) THEN <<Main>> ELSE <<>>
           Runnable == Events \cup {Main}
<1>1. /\ TypeOK /\ ReadyQueue /\ t \in Tenants /\ IsFiniteSet(Events)
      /\ Startup /\ \A u \in Tenants : GivenInOrder(u)
  BY EventsAreNumbers DEF IInv, Ordered
<1>2. /\ semT' = [semT EXCEPT ![t] = next]
      /\ ready' = Tail(ready) \o (qG \o qT) \o qM
  BY DEF ReleaseBoth
<1>3. /\ Balanced(semT[t], Events, WaitT(t), HoldT(t), TenantLimit)
      /\ Balanced(semG, Events, WaitG, HoldG, GlobalConc)
      /\ WellFormed(semT[t], Events)
      /\ NoneIdle(semT[t]) /\ Ascending(semT[t].waiters)
  BY <1>1 DEF IInv, Accounts, Balanced, GivenInOrder
<1>4. i \in HoldT(t) /\ i \in HoldG
  BY DEF HoldT, HoldG
<1>5. /\ Served(semT[t], next, Events, WaitT(t))
      /\ InTurn(semT[t], next) /\ NoneIdle(next)
      /\ semT[t].woken \subseteq next.woken
  BY <1>1, <1>3, <1>4, EventsAreNats, ReleaseBalanced, ReleaseInTurn,
     ReleaseKeepsWoken
<1>6. x \in Stages \ {"new"} /\ x # "wait_t"
  BY DEF Stages
<1>7. WaitT(t)' = WaitT(t) /\ Fresh' = Fresh
  <2>1. pc'[i] = x /\ \A j \in Events \ {i} : pc'[j] = pc[j]
    BY <1>1 DEF TypeOK
  <2>. QED  BY <1>6, <2>1 DEF WaitT, Fresh
<1>8. semT'[t] = next /\ semT' = [semT EXCEPT ![t] = semT'[t]]
  BY <1>1, <1>2 DEF TypeOK
<1>9. /\ qT \in Seq(Runnable) /\ Members(qT) \cap Fresh = {}
      /\ \A d \in next.woken \ semT[t].woken, j \in Outside(t) : d <= j
  BY <1>1, <1>5, ServedFirst
<1>10. qG \in Seq(Runnable) /\ Members(qG) \cap Fresh = {}
  <2>1. Served(semG, Release(semG), Events, WaitG)
    BY <1>1, <1>3, <1>4, ReleaseBalanced
  <2>2. Members(qG) \subseteq WaitG /\ qG \in Seq(Events)
    BY <2>1 DEF Served
  <2>. QED  BY <2>2, SeqOfMore DEF WaitG, Fresh
<1>11. qM \in Seq(Runnable) /\ Members(qM) \cap Fresh = {}
  <2>1. /\ <<Main>> \in Seq(Runnable) /\ DOMAIN <<Main>> = {1} /\ <<Main>>[1] = Main
        /\ <<>> \in Seq(Runnable) /\ DOMAIN <<>> = {}
    BY EmptySeq
  <2>2. Members(<<Main>>) = {Main} /\ Members(<<>>) = {}
    BY <2>1 DEF Members
  <2>3. Main \notin Fresh
    BY EventsAreNumbers DEF Fresh
  <2>. QED  BY <2>1, <2>2, <2>3
<1> HIDE DEF next, qG, qT, qM, Runnable
<1>12. PICK q \in Seq(Runnable) :
         Members(q) \cap Fresh = {} /\ ready' = Tail(ready) \o q
  <2> DEFINE both == qG \o qT
             rest == Tail(ready)
             q == both \o qM
  <2>1. both \in Seq(Runnable) /\ Members(both) = Members(qG) \cup Members(qT)
    BY <1>9, <1>10, MembersOfConcat
  <2>2. rest \in Seq(Runnable)
    BY <1>1, HeadTailProperties DEF TypeOK, Running, Runnable
  <2>3. ready' = (rest \o both) \o qM
    BY <1>2
  <2> HIDE DEF both, rest
  <2>4. q \in Seq(Runnable) /\ Members(q) = Members(both) \cup Members(qM)
    BY <1>11, <2>1, MembersOfConcat
  <2>5. ready' = rest \o q
    BY <1>11, <2>1, <2>2, <2>3, ConcatAssociative
  <2> HIDE DEF q
  <2>. QED  BY <1>9, <1>10, <1>11, <2>1, <2>4, <2>5 DEF rest
<1>13. /\ Outside(t)' \subseteq Outside(t)
       /\ \A d \in Outside(t) \ Outside(t)', j \in Outside(t) : d <= j
  <2>1. /\ Outside(t)' \subseteq Outside(t)
        /\ Outside(t) \ Outside(t)' \subseteq next.woken \ semT[t].woken
    BY <1>5, <1>7, <1>8 DEF Outside
  <2>. QED  BY <1>9, <2>1
<1>14. /\ NoneIdle(semT'[t]) /\ Ascending(semT'[t].waiters) /\ pc[i] # "new"
  BY <1>5, <1>8 DEF InTurn
<1> HIDE DEF t
<1>15. t = TenantOf(i)
  BY DEF t
<1>. QED
  BY <1>1, <1>6, <1>8, <1>12, <1>13, <1>14, <1>15, TaskKeepsOrder DEF Runnable

-----------------------------------------------------------------------------
LEMMA InitOrdered == Init => Ordered
<1> SUFFICES ASSUME Init PROVE Ordered
  OBVIOUS
<1>1. /\ pc = [i \in Events |-> "new"]
      /\ semT = [t \in Tenants |-> NewSemaphore(TenantLimit)]
      /\ ready = IF Arrivals = <<>> THEN <<Main>> ELSE [i \in Events |-> i]
  BY DEF Init, FirstSteps
<1>2. Fresh = Events
  BY <1>1 DEF Fresh
<1>3. ASSUME NEW t \in Tenants
      PROVE  semT[t].woken = {} /\ GivenInOrder(t)
  <2>1. semT[t] = NewSemaphore(TenantLimit)
    BY <1>1
  <2>2. /\ semT[t].woken = {} /\ semT[t].waiters = <<>>
        /\ Members(semT[t].waiters) = {}
    BY <2>1, EmptySeq DEF NewSemaphore, Members
  <2>3. Ascending(<<>>)
    BY EmptySeq DEF Ascending
  <2>4. Outside(t) = {i \in Events : TenantOf(i) = t}
    BY <1>1, <1>2 DEF Outside, WaitT
  <2>. QED  BY <2>2, <2>3, <2>4 DEF GivenInOrder, NoneIdle, Unserved
<1>4. Leading(ready, Fresh) /\ Fresh \subseteq Members(ready)
  <2>1. CASE Arrivals = <<>>
    <3>1. Events = {}
      BY <2>1 DEF Events
    <3>. QED  BY <1>2, <3>1 DEF Leading
  <2>2. CASE Arrivals # <<>>
    <3>1. ready = [i \in 1 .. Len(Arrivals) |-> i]
      BY <1>1, <2>2, EventsAreNumbers
    <3>2. DOMAIN ready = Events /\ \A i \in Events : ready[i] = i
      BY <3>1, EventsAreNumbers
    <3>3. Leading(ready, Fresh)
      BY <1>2, <3>2, EventsAreNumbers DEF Leading
    <3>. QED  BY <1>2, <3>2, <3>3 DEF Members
  <2>. QED  BY <2>1, <2>2
<1>. QED  BY <1>2, <1>3, <1>4 DEF Ordered, Startup

LEMMA NextOrdered == IInv /\ Ordered /\ [Next]_vars => Ordered'
<1> SUFFICES ASSUME IInv, Ordered, [Next]_vars PROVE Ordered'
  OBVIOUS
<1>1. CASE UNCHANGED <<ready, pc, semT, outcome>>
  BY <1>1 DEF Ordered, Startup, GivenInOrder, Fresh, Outside, WaitT
<1>2. ASSUME NEW i \in Events, TaskStep(i)
      PROVE  Ordered'
  <2>1. outcome = "running"
    BY <1>2 DEF TaskStep, StartTask, GetTenantPermit, GetGlobalPermit,
                WakeAndSend, RecordReceipt, RaiseOut, Running
  <2>2. CASE RecordReceipt(i)
    <3>1. /\ Running(i) /\ pc[i] = "in_flight" /\ ReleaseBoth(i)
          /\ pc' = [pc EXCEPT ![i] = "done"]
      BY <2>2 DEF RecordReceipt
    <3>. QED  BY <2>1, <3>1, EndRequestOrder
  <2>3. CASE RaiseOut(i)
    <3>1. /\ Running(i) /\ pc[i] = "in_flight" /\ ReleaseBoth(i)
          /\ pc' = [pc EXCEPT ![i] = "raised"]
      BY <2>3 DEF RaiseOut
    <3>. QED  BY <2>1, <3>1, EndRequestOrder
  <2>. QED
    BY <1>2, <2>1, <2>2, <2>3, StartTaskOrder, GetTenantPermitOrder,
       GetGlobalPermitOrder, WakeAndSendOrder DEF TaskStep
<1>3. ASSUME NEW i \in Events, TimerFires(i) \/ ServerAnswers(i)
      PROVE  Ordered'
  <2>1. /\ outcome = "running" /\ i \notin Fresh
        /\ ready' = Append(ready, i)
        /\ UNCHANGED <<pc, semT, outcome>>
    BY <1>3 DEF TimerFires, ServerAnswers, Fresh
  <2>2. Fresh' = Fresh /\ \A t \in Tenants : Outside(t)' = Outside(t)
    BY <2>1 DEF Fresh, Outside, WaitT
  <2>3. ready \in Seq(Events \cup {Main}) /\ Startup
    BY <2>1 DEF IInv, TypeOK, Ordered
  <2>4. Members(ready') = Members(ready) \cup {i} /\ Leading(ready', Fresh)
    BY <2>1, <2>3, AppendMembers, LongerLeads DEF Startup
  <2>5. Startup'
    BY <2>1, <2>2, <2>3, <2>4 DEF Startup
  <2>. QED  BY <2>1, <2>2, <2>5 DEF Ordered, GivenInOrder
<1>4. CASE FinishGather
  BY <1>4 DEF FinishGather, Ordered
<1>5. CASE Tick
  BY <1>1, <1>5 DEF Tick
<1>6. CASE Ended
  BY <1>1, <1>6 DEF Ended, vars
<1>. QED  BY <1>1, <1>2, <1>3, <1>4, <1>5, <1>6 DEF Next, vars

-----------------------------------------------------------------------------
(* A task waits for its tenant only while all the tenant's permits are     *)
(* held, and for a global one only while all are or one is on its way.     *)
THEOREM NoPermitIsIdle == Spec => []NoIdlePermit
<1>1. IInv /\ Ordered => NoIdlePermit
  <2> SUFFICES ASSUME IInv, Ordered, outcome = "running" PROVE NoIdlePermit
    BY DEF NoIdlePermit
  <2>1. Accounts
    BY DEF IInv
  <2>2. Pending(semG) # {} => semG.value = 0 \/ semG.woken # {}
    BY <2>1, WaitersAndPending DEF Accounts, Balanced
  <2>3. ASSUME NEW t \in Tenants
        PROVE  Pending(semT[t]) # {} => semT[t].value = 0
    BY <2>1, WaitersAndPending
    DEF Accounts, Balanced, Ordered, GivenInOrder, NoneIdle, Unserved
  <2>. QED  BY <2>2, <2>3 DEF NoIdlePermit
<1>. QED
  BY <1>1, InitIInv, NextIInv, InitOrdered, NextOrdered, PTL DEF Spec

LEMMA WaitingIsOutside ==
  ASSUME IInv, outcome = "running", NEW i \in Events, Waiting(i)
  PROVE  i \in Outside(TenantOf(i)) /\ i \in Unserved(semT[TenantOf(i)])
<1> DEFINE t == TenantOf(i)
<1>1. t \in Tenants
  BY EventsAreNumbers
<1>2. pc[i] = "wait_t" /\ i \notin semT[t].woken
  BY DEF Waiting, HoldsTenant
<1>3. Members(semT[t].waiters) = WaitT(t)
  BY <1>1 DEF IInv, Accounts, Balanced
<1>. QED  BY <1>2, <1>3 DEF Outside, WaitT, Unserved

(* A due request waits for its tenant only while the tenant's permits are  *)
(* with due requests, whatever the other tenants do.                       *)
THEOREM DueRequestsGoFirst == Spec => []DuePermitsOnly
<1>1. IInv /\ Ordered => DuePermitsOnly
  <2> SUFFICES ASSUME IInv, Ordered, NEW i \in Events, Waiting(i),
                      Arrivals[i].nominal <= now,
                      NEW j \in TenantHolders(TenantOf(i))
               PROVE  Arrivals[j].nominal <= now
    BY DEF DuePermitsOnly
  <2>1. outcome = "running"
    BY DEF IInv, Stopped, Waiting
  <2> DEFINE t == TenantOf(i)
  <2>2. t \in Tenants /\ i \in Outside(t) /\ j \in Events /\ TenantOf(j) = t
    BY <2>1, WaitingIsOutside, EventsAreNumbers DEF TenantHolders
  <2>3. j \notin Outside(t)
    <3>1. j \in HoldT(t) \cup semT[t].woken
      BY <2>1, <2>2, HoldersOfPermits
    <3>2. semT[t].woken \subseteq WaitT(t)
      BY <2>1, <2>2 DEF IInv, Accounts, Balanced, WellFormed
    <3>. QED  BY <3>1, <3>2 DEF Outside, Fresh, WaitT, HoldT
  <2>4. ~(i < j)
    BY <2>1, <2>2, <2>3 DEF Ordered, GivenInOrder
  <2>5. j < i \/ j = i
    BY <2>2, <2>4, EventsAreNats
  <2>6. Arrivals[j].nominal <= Arrivals[i].nominal
    BY <2>2, <2>5, ArrivalsAssumption, EventsAreNumbers
  <2>. QED  BY <2>2, <2>6, EventsAreNumbers DEF IInv, TypeOK
<1>. QED
  BY <1>1, InitIInv, NextIInv, InitOrdered, NextOrdered, PTL DEF Spec

(* The isolation baseline lifts the tenant's limit: a request is held back *)
(* only while its tenant holds the whole global concurrency.               *)
THEOREM BaselineReachesFullLoad == Spec => []FullLoadReached
<1>1. IInv /\ Ordered => FullLoadReached
  <2> SUFFICES ASSUME IInv, Ordered, FullLoad, outcome = "running",
                      NEW i \in Events, Waiting(i)
               PROVE  Cardinality(TenantHolders(TenantOf(i))) = GlobalConc
    BY DEF FullLoadReached
  <2> DEFINE t == TenantOf(i)
  <2>1. t \in Tenants /\ i \in Unserved(semT[t])
    BY WaitingIsOutside, EventsAreNumbers
  <2>2. semT[t].value = 0
    BY <2>1 DEF Ordered, GivenInOrder, NoneIdle
  <2>3. /\ TenantHolders(t) = HoldT(t) \cup semT[t].woken
        /\ semT[t].value + Cardinality(HoldT(t) \cup semT[t].woken) = TenantLimit
        /\ HoldT(t) \cup semT[t].woken \subseteq Events
    BY <2>1, HoldersOfPermits DEF IInv, Accounts, Balanced, WellFormed
  <2>4. Cardinality(TenantHolders(t)) \in Nat
    BY <2>3, EventsAreNumbers, FS_Subset, FS_CardinalityType
  <2>. QED  BY <2>2, <2>3, <2>4 DEF TenantLimit
<1>. QED
  BY <1>1, InitIInv, NextIInv, InitOrdered, NextOrdered, PTL DEF Spec

-----------------------------------------------------------------------------
(* run_mixed implements TenantPool: every step of the scheduler is a step  *)
(* of the pool or invisible in it.  What the same few steps keep is proved *)
(* here too: nominal times, conversations, the use of the cases, receipts. *)

(* What a step means to the pool: a request still waits, is sent, recorded *)
(* or lost; the scan returns or raises; time passes.                       *)
WaitStages == {"new", "wait_t", "wait_g", "sleeping"}

Waits(i) ==
  /\ pc[i] \in WaitStages
  /\ \E x \in WaitStages : pc' = [pc EXCEPT ![i] = x]
  /\ UNCHANGED <<now, counts, caseOf, prompt, sessions, records, outcome>>

Sends(i) ==
  /\ pc[i] \in WaitStages
  /\ now >= Arrivals[i].nominal
  /\ Send(i)
  /\ UNCHANGED <<now, sessions, records, outcome>>

Records(i) ==
  /\ pc[i] = "in_flight"
  /\ pc' = [pc EXCEPT ![i] = "done"]
  /\ records' = Append(records, i)
  /\ UpdateHistory(i)
  /\ UNCHANGED <<now, counts, caseOf, prompt, outcome>>

Raises(i) ==
  /\ pc[i] = "in_flight"
  /\ pc' = [pc EXCEPT ![i] = "raised"]
  /\ UNCHANGED <<now, counts, caseOf, prompt, sessions, records, outcome>>

Returns ==
  /\ \A i \in Events : pc[i] = "done"
  /\ outcome' = "returned"
  /\ UNCHANGED <<now, pc, counts, caseOf, prompt, sessions, records>>

GivesUp ==
  /\ \E i \in Events : pc[i] = "raised"
  /\ pc' = [i \in Events |-> IF pc[i] \in {"done", "raised"} THEN pc[i]
                             ELSE "cancelled"]
  /\ outcome' = "raised"
  /\ UNCHANGED <<now, counts, caseOf, prompt, sessions, records>>

Passes ==
  /\ now' = now + 1
  /\ UNCHANGED <<pc, counts, caseOf, prompt, sessions, records, outcome>>

Invisible ==
  UNCHANGED <<now, pc, counts, caseOf, prompt, sessions, records, outcome>>

Visible ==
  \/ \E i \in Events : Waits(i) \/ Sends(i) \/ Records(i) \/ Raises(i)
  \/ Returns
  \/ GivesUp
  \/ Passes

-----------------------------------------------------------------------------
LEMMA ProceedWaitsOrSends ==
  ASSUME TypeOK, NEW i \in Events, pc[i] \in WaitStages, Proceed(i),
         UNCHANGED <<now, sessions, records, outcome>>
  PROVE  Waits(i) \/ Sends(i)
<1>1. CASE now < Arrivals[i].nominal
  BY <1>1 DEF Proceed, Waits, WaitStages
<1>2. CASE ~(now < Arrivals[i].nominal)
  <2>1. now >= Arrivals[i].nominal
    BY <1>2, EventsAreNumbers DEF TypeOK
  <2>. QED  BY <1>2, <2>1, SendEffect DEF Proceed, Sends
<1>. QED  BY <1>1, <1>2

LEMMA EnterGlobalWaitsOrSends ==
  ASSUME TypeOK, NEW i \in Events, pc[i] \in WaitStages, EnterGlobal(i),
         UNCHANGED <<now, sessions, records, outcome>>
  PROVE  Waits(i) \/ Sends(i)
<1>1. CASE Locked(semG)
  BY <1>1 DEF EnterGlobal, Waits, WaitStages
<1>2. CASE ~Locked(semG)
  BY <1>2, ProceedWaitsOrSends DEF EnterGlobal
<1>. QED  BY <1>1, <1>2

LEMMA StepIsVisible ==
  ASSUME IInv, [Next]_vars
  PROVE  Invisible \/ (outcome = "running" /\ Visible)
<1>1. TypeOK
  BY DEF IInv
<1>2. CASE UNCHANGED vars
  BY <1>2 DEF vars, Invisible
<1>3. ASSUME NEW i \in Events, StartTask(i)
      PROVE  outcome = "running" /\ (Waits(i) \/ Sends(i))
  <2>1. outcome = "running" /\ pc[i] \in WaitStages
    BY <1>3 DEF StartTask, Running, WaitStages
  <2>2. CASE Locked(semT[TenantOf(i)])
    BY <1>3, <2>1, <2>2 DEF StartTask, Waits, WaitStages
  <2>3. CASE ~Locked(semT[TenantOf(i)])
    <3>1. EnterGlobal(i) /\ UNCHANGED <<now, sessions, records, outcome>>
      BY <1>3, <2>3 DEF StartTask
    <3>. QED  BY <1>1, <2>1, <3>1, EnterGlobalWaitsOrSends
  <2>. QED  BY <2>1, <2>2, <2>3
<1>4. ASSUME NEW i \in Events, GetTenantPermit(i)
      PROVE  outcome = "running" /\ (Waits(i) \/ Sends(i))
  <2>1. /\ outcome = "running" /\ pc[i] \in WaitStages
        /\ EnterGlobal(i) /\ UNCHANGED <<now, sessions, records, outcome>>
    BY <1>4 DEF GetTenantPermit, Running, WaitStages
  <2>. QED  BY <1>1, <2>1, EnterGlobalWaitsOrSends
<1>5. ASSUME NEW i \in Events, GetGlobalPermit(i)
      PROVE  outcome = "running" /\ (Waits(i) \/ Sends(i))
  <2>1. /\ outcome = "running" /\ pc[i] \in WaitStages
        /\ Proceed(i) /\ UNCHANGED <<now, sessions, records, outcome>>
    BY <1>5 DEF GetGlobalPermit, Running, WaitStages
  <2>. QED  BY <1>1, <2>1, ProceedWaitsOrSends
<1>6. ASSUME NEW i \in Events, WakeAndSend(i)
      PROVE  outcome = "running" /\ Sends(i)
  <2>1. /\ Running(i) /\ pc[i] = "sleeping" /\ Send(i)
        /\ UNCHANGED <<now, sessions, records, outcome>>
    BY <1>6 DEF WakeAndSend
  <2>2. outcome = "running" /\ IsReady(i)
    <3>1. /\ outcome = "running" /\ ready # <<>> /\ Head(ready) = i
          /\ ready \in Seq(Events \cup {Main})
      BY <1>1, <2>1 DEF Running, TypeOK
    <3>2. 1 \in DOMAIN ready /\ ready[1] = i
      BY <3>1
    <3>. QED  BY <3>1, <3>2 DEF IsReady, Members
  <2>3. now >= Arrivals[i].nominal
    BY <2>1, <2>2 DEF IInv, ReadyQueue, MayRun
  <2>. QED  BY <1>1, <2>1, <2>2, <2>3, SendEffect DEF Sends, WaitStages
<1>7. ASSUME NEW i \in Events, RecordReceipt(i)
      PROVE  outcome = "running" /\ Records(i)
  BY <1>7 DEF RecordReceipt, Running, Records
<1>8. ASSUME NEW i \in Events, RaiseOut(i)
      PROVE  outcome = "running" /\ Raises(i)
  BY <1>8 DEF RaiseOut, Running, Raises
<1>9. ASSUME NEW i \in Events, TimerFires(i) \/ ServerAnswers(i)
      PROVE  Invisible
  BY <1>9 DEF TimerFires, ServerAnswers, Invisible
<1>10. CASE FinishGather
  <2>1. outcome = "running" /\ IsReady(Main)
    <3>1. /\ outcome = "running" /\ ready # <<>> /\ Head(ready) = Main
          /\ ready \in Seq(Events \cup {Main})
      BY <1>1, <1>10 DEF FinishGather, Running, TypeOK
    <3>2. 1 \in DOMAIN ready /\ ready[1] = Main
      BY <3>1
    <3>. QED  BY <3>1, <3>2 DEF IsReady, Members
  <2>2. GatherCompleted
    BY <2>1 DEF IInv, ReadyQueue
  <2>3. CASE \E i \in Events : pc[i] = "raised"
    BY <1>10, <2>1, <2>3 DEF FinishGather, GivesUp, Visible
  <2>4. CASE ~\E i \in Events : pc[i] = "raised"
    BY <1>10, <2>1, <2>2, <2>4 DEF FinishGather, GatherCompleted, Returns, Visible
  <2>. QED  BY <2>3, <2>4
<1>11. CASE Tick
  BY <1>11 DEF Tick, Passes, Visible
<1>12. CASE Ended
  BY <1>2, <1>12 DEF Ended
<1>. QED
  BY <1>2, <1>3, <1>4, <1>5, <1>6, <1>7, <1>8, <1>9, <1>10, <1>11, <1>12
  DEF Next, TaskStep, Visible

-----------------------------------------------------------------------------
(* No request is sent before its nominal time: a permit that comes early   *)
(* is slept on, in whatever order permits and timers come.                 *)
THEOREM NothingIsEarly == Spec => []NeverEarly
<1>1. Init => NeverEarly
  BY DEF Init, NeverEarly
<1>2. ASSUME IInv, NeverEarly, [Next]_vars
      PROVE  NeverEarly'
  <2>1. now \in Nat /\ TypeOK
    BY <1>2, LimitsAssumption DEF IInv, TypeOK
  <2>2. ASSUME NEW i \in Events, Waits(i) \/ Sends(i) \/ Records(i) \/ Raises(i)
        PROVE  NeverEarly'
    <3>1. CASE Sends(i)
      <4>1. \A j \in Events \ {i} : caseOf'[j] = caseOf[j]
        BY <2>1, <3>1, SendEffect DEF Sends
      <4>. QED  BY <1>2, <2>1, <3>1, <4>1 DEF Sends, NeverEarly
    <3>2. CASE Waits(i) \/ Records(i) \/ Raises(i)
      BY <1>2, <2>1, <3>2 DEF Waits, Records, Raises, NeverEarly
    <3>. QED  BY <2>2, <3>1, <3>2
  <2>3. CASE Returns \/ GivesUp \/ Invisible
    BY <1>2, <2>3 DEF Returns, GivesUp, Invisible, NeverEarly
  <2>4. CASE Passes
    BY <1>2, <2>1, <2>4, EventsAreNumbers DEF Passes, NeverEarly
  <2>. QED  BY <1>2, <2>2, <2>3, <2>4, StepIsVisible DEF Visible
<1>. QED  BY <1>1, <1>2, InitIInv, NextIInv, PTL DEF Spec

-----------------------------------------------------------------------------
(* Every message of a conversation was sent by its tenant, in its session. *)
Own(m, t, s) == m.tenant = t /\ Pool[t][m.case].session = s

OwnConversations ==
  /\ \A t \in Tenants, s \in SessionIds :
       \A m \in Members(sessions[<<t, s>>]) : Own(m, t, s)
  /\ PromptIsOwnSession

LEMMA ConcatFromBoth ==
  ASSUME NEW S, NEW s \in Seq(S), NEW q \in Seq(S)
  PROVE  Members(s \o q) \subseteq Members(s) \cup Members(q)
<1> DEFINE c == s \o q
           m == Len(s)
           n == Len(q)
<1>1. /\ m \in Nat /\ n \in Nat
      /\ DOMAIN s = 1 .. m /\ DOMAIN q = 1 .. n /\ DOMAIN c = 1 .. m + n
      /\ \A k \in 1 .. m + n : c[k] = IF k <= m THEN s[k] ELSE q[k - m]
  BY LenProperties, ConcatProperties
<1> HIDE DEF c, m, n
<1>2. ASSUME NEW k \in 1 .. m + n
      PROVE  c[k] \in Members(s) \cup Members(q)
  <2>1. CASE k <= m
    <3>1. k \in DOMAIN s /\ c[k] = s[k]
      BY <1>1, <2>1
    <3>. QED  BY <3>1 DEF Members
  <2>2. CASE ~(k <= m)
    <3>1. k - m \in DOMAIN q /\ c[k] = q[k - m]
      BY <1>1, <2>2
    <3>. QED  BY <3>1 DEF Members
  <2>. QED  BY <2>1, <2>2
<1>3. Members(c) \subseteq Members(s) \cup Members(q)
  BY <1>1, <1>2 DEF Members
<1>. QED  BY <1>3 DEF c

LEMMA SendsOwn ==
  ASSUME TypeOK, OwnConversations, NEW i \in Events, Sends(i)
  PROVE  OwnConversations'
<1> DEFINE t == TenantOf(i)
           c == (counts[t] % Len(Pool[t])) + 1
<1>1. t \in Tenants /\ counts[t] \in Nat
  BY EventsAreNumbers DEF TypeOK
<1>2. Pool[t][c].session \in SessionIds \cup {NoSession}
  BY <1>1, PoolIndex
<1>3. /\ caseOf' = [caseOf EXCEPT ![i] = c]
      /\ prompt' = [prompt EXCEPT ![i] = History(t, c)]
      /\ sessions' = sessions
  BY DEF Sends, Send
<1> HIDE DEF c
<1>4. \A m \in Members(History(t, c)) : Own(m, t, Pool[t][c].session)
  <2>1. CASE Pool[t][c].session = NoSession
    BY <2>1, EmptySeq DEF History, Members
  <2>2. CASE Pool[t][c].session # NoSession
    BY <1>1, <1>2, <2>2 DEF History, OwnConversations
  <2>. QED  BY <2>1, <2>2
<1>5. ASSUME NEW j \in Events, NEW m \in Members(prompt'[j])
      PROVE  /\ m.tenant = TenantOf(j)
             /\ Pool[m.tenant][m.case].session
                  = Pool[TenantOf(j)][caseOf'[j]].session
  <2>1. CASE j = i
    BY <1>3, <1>4, <1>5, <2>1 DEF TypeOK, Own
  <2>2. CASE j # i
    BY <1>3, <1>5, <2>2 DEF TypeOK, OwnConversations, PromptIsOwnSession
  <2>. QED  BY <2>1, <2>2
<1>. QED  BY <1>3, <1>5 DEF OwnConversations, PromptIsOwnSession

LEMMA RecordsOwn ==
  ASSUME TypeOK, OwnConversations, NEW i \in Events, Records(i)
  PROVE  OwnConversations'
<1> DEFINE t == TenantOf(i)
           c == caseOf[i]
           s == Pool[t][c].session
           user == [role |-> "user", tenant |-> t, case |-> c]
           reply == [user EXCEPT !.role = "assistant"]
           more == IF verdict[i] = "ok" THEN <<user, reply>> ELSE <<user>>
<1>1. t \in Tenants /\ c \in Nat
  BY EventsAreNumbers DEF TypeOK
<1>2. prompt' = prompt /\ caseOf' = caseOf
  BY DEF Records
<1>3. CASE s = NoSession
  <2>1. sessions' = sessions
    BY <1>3 DEF Records, UpdateHistory
  <2>. QED  BY <1>2, <2>1 DEF OwnConversations, PromptIsOwnSession
<1>4. CASE s # NoSession
  <2>1. sessions' = [sessions EXCEPT ![<<t, s>>] = @ \o more]
    BY <1>4 DEF Records, UpdateHistory
  <2>2. user \in Messages /\ reply \in Messages
    BY <1>1 DEF Messages
  <2>3. Own(user, t, s) /\ Own(reply, t, s)
    BY DEF Own
  <2>4. more \in Seq(Messages) /\ \A m \in Members(more) : Own(m, t, s)
    <3> HIDE DEF user, reply
    <3>1. /\ <<user, reply>> \in Seq(Messages) /\ <<user>> \in Seq(Messages)
          /\ DOMAIN <<user, reply>> = {1, 2} /\ DOMAIN <<user>> = {1}
      BY <2>2
    <3>2. /\ Members(<<user, reply>>) = {user, reply}
          /\ Members(<<user>>) = {user}
      BY <3>1 DEF Members
    <3>. QED  BY <2>3, <3>1, <3>2
  <2> HIDE DEF more
  <2>5. ASSUME NEW u \in Tenants, NEW r \in SessionIds,
               NEW m \in Members(sessions'[<<u, r>>])
        PROVE  Own(m, u, r)
    <3>1. sessions[<<u, r>>] \in Seq(Messages)
      BY DEF TypeOK
    <3>2. CASE u = t /\ r = s
      <4>1. sessions'[<<u, r>>] = sessions[<<u, r>>] \o more
        BY <2>1, <3>2 DEF TypeOK
      <4>2. m \in Members(sessions[<<u, r>>]) \cup Members(more)
        BY <2>4, <2>5, <3>1, <4>1, ConcatFromBoth
      <4>. QED  BY <2>4, <3>2, <4>2 DEF OwnConversations
    <3>3. CASE ~(u = t /\ r = s)
      <4>1. sessions'[<<u, r>>] = sessions[<<u, r>>]
        BY <2>1, <3>3 DEF TypeOK
      <4>. QED  BY <2>5, <4>1 DEF OwnConversations
    <3>. QED  BY <3>2, <3>3
  <2>. QED  BY <1>2, <2>5 DEF OwnConversations, PromptIsOwnSession
<1>. QED  BY <1>3, <1>4

LEMMA OwnUnchanged ==
  ASSUME OwnConversations, UNCHANGED <<caseOf, prompt, sessions>>
  PROVE  OwnConversations'
BY DEF OwnConversations, PromptIsOwnSession

(* A request's body carries its own conversation only, however requests of *)
(* the same session overlap and whatever session ids tenants share.        *)
THEOREM ConversationsStayApart == Spec => []PromptIsOwnSession
<1>1. Init => OwnConversations
  <2> SUFFICES ASSUME Init PROVE OwnConversations
    OBVIOUS
  <2>1. Members(<<>>) = {}
    BY EmptySeq DEF Members
  <2>. QED  BY <2>1 DEF Init, OwnConversations, PromptIsOwnSession
<1>2. IInv /\ OwnConversations /\ [Next]_vars => OwnConversations'
  <2> SUFFICES ASSUME IInv, OwnConversations, [Next]_vars
               PROVE  OwnConversations'
    OBVIOUS
  <2>1. ASSUME NEW i \in Events, Waits(i) \/ Sends(i) \/ Records(i) \/ Raises(i)
        PROVE  OwnConversations'
    <3>1. CASE Sends(i)
      BY <3>1, SendsOwn DEF IInv
    <3>2. CASE Records(i)
      BY <3>2, RecordsOwn DEF IInv
    <3>3. CASE Waits(i) \/ Raises(i)
      BY <3>3, OwnUnchanged DEF Waits, Raises
    <3>. QED  BY <2>1, <3>1, <3>2, <3>3
  <2>2. CASE Returns \/ GivesUp \/ Passes \/ Invisible
    BY <2>2, OwnUnchanged DEF Returns, GivesUp, Passes, Invisible
  <2>. QED  BY <2>1, <2>2, StepIsVisible DEF Visible
<1>3. OwnConversations => PromptIsOwnSession
  BY DEF OwnConversations
<1>. QED  BY <1>1, <1>2, <1>3, InitIInv, NextIInv, PTL DEF Spec

-----------------------------------------------------------------------------
(* The round robin: the cases up to the tenant's counter, modulo the pool, *)
(* were sent once more than the others.                                    *)
LEMMA RemainderOf ==
  ASSUME NEW L \in Nat, L > 0, NEW n \in Nat, NEW q \in Nat,
         NEW r \in 0 .. L - 1, n = L * q + r
  PROVE  n % L = r
OBVIOUS

LEMMA RemainderLeft ==
  ASSUME NEW L \in Nat, L > 0, NEW n \in Nat
  PROVE  \E q \in Nat : n = L * q + (n % L)
<1>1. n = L * (n \div L) + (n % L)
  OBVIOUS
<1>2. n \div L \in Nat
  OBVIOUS
<1>. QED  BY <1>1, <1>2

LEMMA NextRemainder ==
  ASSUME NEW L \in Nat, L > 0, NEW n \in Nat
  PROVE  /\ n % L \in 0 .. L - 1
         /\ (n + 1) % L = IF n % L = L - 1 THEN 0 ELSE (n % L) + 1
<1>1. n % L \in 0 .. L - 1
  OBVIOUS
<1>2. PICK q \in Nat : n = L * q + (n % L)
  BY RemainderLeft
<1>3. CASE n % L = L - 1
  <2>1. n + 1 = L * q + L
    BY <1>2, <1>3
  <2>2. L * q + L = L * (q + 1) + 0
    OBVIOUS
  <2>3. q + 1 \in Nat /\ n + 1 \in Nat /\ 0 \in 0 .. L - 1 /\ n + 1 = L * (q + 1) + 0
    BY <2>1, <2>2
  <2>4. (n + 1) % L = 0
    BY <2>3, RemainderOf
  <2>. QED  BY <1>1, <1>3, <2>4
<1>4. CASE n % L # L - 1
  <2>1. PICK r \in 0 .. L - 1 : r = (n % L) + 1
    BY <1>1, <1>4
  <2>2. n + 1 = L * q + r /\ n + 1 \in Nat
    BY <1>1, <1>2, <2>1
  <2>3. (n + 1) % L = r
    BY <2>2, RemainderOf
  <2>. QED  BY <2>1, <2>3, <1>4
<1>. QED  BY <1>1, <1>3, <1>4
SentTo(t, c) == {i \in Events : TenantOf(i) = t /\ caseOf[i] = c}

RoundRobin ==
  /\ \A i \in Events : pc[i] \in WaitStages => caseOf[i] = 0
  /\ \A t \in Tenants : \E q \in Nat : \A c \in DOMAIN Pool[t] :
       SentCount(t, c) = q + IF c <= counts[t] % Len(Pool[t]) THEN 1 ELSE 0

LEMMA PoolPositions ==
  ASSUME NEW t \in Tenants
  PROVE  /\ Len(Pool[t]) \in Nat /\ Len(Pool[t]) > 0
         /\ DOMAIN Pool[t] = 1 .. Len(Pool[t])
BY PoolAssumption, LenProperties, EmptySeq

LEMMA SendsInTurn ==
  ASSUME TypeOK, RoundRobin, NEW i \in Events, Sends(i)
  PROVE  RoundRobin'
<1> DEFINE t == TenantOf(i)
           L == Len(Pool[t])
           n == counts[t]
<1>1. t \in Tenants /\ n \in Nat
  BY EventsAreNumbers DEF TypeOK
<1>2. L \in Nat /\ L > 0 /\ DOMAIN Pool[t] = 1 .. L
  BY <1>1, PoolPositions
<1>3. PICK k \in Nat : k = (n % L) + 1
  BY <1>1, <1>2, NextRemainder
<1>4. /\ pc' = [pc EXCEPT ![i] = "in_flight"]
      /\ caseOf' = [caseOf EXCEPT ![i] = k]
      /\ counts' = [counts EXCEPT ![t] = n + 1]
  BY <1>3 DEF Sends, Send
<1>5. k \in 1 .. L /\ (n + 1) % L = IF k = L THEN 0 ELSE k
  <2>1. PICK m \in Nat, x \in Nat : m = L /\ x = n
    BY <1>1, <1>2
  <2>2. /\ x % m \in 0 .. m - 1 /\ m > 0
        /\ (x + 1) % m = IF x % m = m - 1 THEN 0 ELSE (x % m) + 1
    BY <1>2, <2>1, NextRemainder
  <2>3. k = (x % m) + 1
    BY <1>3, <2>1
  <2>4. k \in 1 .. m /\ (x + 1) % m = IF k = m THEN 0 ELSE k
    BY <2>2, <2>3
  <2>. QED  BY <2>1, <2>4
<1>6. caseOf[i] = 0 /\ caseOf'[i] = k /\ \A j \in Events \ {i} : caseOf'[j] = caseOf[j]
  BY <1>4 DEF Sends, RoundRobin, TypeOK
<1>7. \A j \in Events : pc'[j] \in WaitStages => caseOf'[j] = 0
  BY <1>4, <1>6 DEF RoundRobin, TypeOK, WaitStages
<1>8. ASSUME NEW u \in Tenants, u # t
      PROVE  \A c \in DOMAIN Pool[u] : SentCount(u, c)' = SentCount(u, c)
  <2>1. \A c : SentTo(u, c)' = SentTo(u, c)
    BY <1>6, <1>8 DEF SentTo
  <2>. QED  BY <2>1 DEF SentCount, SentTo
<1>9. ASSUME NEW c \in 1 .. L
      PROVE  SentCount(t, c)' = SentCount(t, c) + IF c = k THEN 1 ELSE 0
  <2>1. IsFiniteSet(SentTo(t, c)) /\ i \notin SentTo(t, c)
    BY <1>6, EventsAreNumbers, FS_Subset DEF SentTo
  <2>2. SentTo(t, c)' = IF c = k THEN SentTo(t, c) \cup {i} ELSE SentTo(t, c)
    BY <1>6, <2>1 DEF SentTo
  <2>3. Cardinality(SentTo(t, c)) \in Nat
    BY <2>1, FS_CardinalityType
  <2>4. Cardinality(SentTo(t, c) \cup {i}) = Cardinality(SentTo(t, c)) + 1
    BY <2>1, FS_AddElement
  <2>5. /\ SentCount(t, c) = Cardinality(SentTo(t, c))
        /\ SentCount(t, c)' = Cardinality(SentTo(t, c)')
    BY DEF SentCount, SentTo
  <2>. QED  BY <2>2, <2>3, <2>4, <2>5
<1>10. ASSUME NEW u \in Tenants
       PROVE  \E q \in Nat : \A c \in DOMAIN Pool[u] :
                SentCount(u, c)'
                  = q + IF c <= counts'[u] % Len(Pool[u]) THEN 1 ELSE 0
  <2>1. CASE u # t
    <3>1. counts'[u] = counts[u]
      BY <1>4, <2>1 DEF TypeOK
    <3>. QED  BY <1>8, <2>1, <3>1 DEF RoundRobin
  <2>2. CASE u = t
    <3>1. PICK q \in Nat : \A c \in 1 .. L :
            SentCount(t, c) = q + IF c <= n % L THEN 1 ELSE 0
      BY <1>1, <1>2 DEF RoundRobin
    <3>2. \A c \in 1 .. L :
            SentCount(t, c)' = q + IF c <= k THEN 1 ELSE 0
      <4> SUFFICES ASSUME NEW c \in 1 .. L
                   PROVE  SentCount(t, c)' = q + IF c <= k THEN 1 ELSE 0
        OBVIOUS
      <4>1. n % L = k - 1
        BY <1>1, <1>2, <1>3, NextRemainder
      <4>. QED  BY <1>9, <3>1, <4>1
    <3>3. counts'[t] = n + 1
      BY <1>1, <1>4 DEF TypeOK
    <3>4. CASE k = L
      <4>1. PICK p \in Nat : p = q + 1
        OBVIOUS
      <4>2. \A c \in 1 .. L : SentCount(t, c)'
              = p + IF c <= (n + 1) % L THEN 1 ELSE 0
        BY <1>2, <1>5, <3>2, <3>4, <4>1
      <4>. QED  BY <1>2, <2>2, <3>3, <4>2
    <3>5. CASE k # L
      <4>1. \A c \in 1 .. L : SentCount(t, c)'
              = q + IF c <= (n + 1) % L THEN 1 ELSE 0
        BY <1>5, <3>2, <3>5
      <4>. QED  BY <1>2, <2>2, <3>3, <4>1
    <3>. QED  BY <3>4, <3>5
  <2>. QED  BY <2>1, <2>2
<1>. QED  BY <1>7, <1>10 DEF RoundRobin

LEMMA RoundRobinUnchanged ==
  ASSUME RoundRobin, UNCHANGED <<counts, caseOf>>,
         \A i \in Events : pc'[i] \in WaitStages => pc[i] \in WaitStages
  PROVE  RoundRobin'
BY DEF RoundRobin, SentCount

(* After any prefix of the scan the cases of a pool were sent equally      *)
(* often, give or take one, in whatever order permits and timers let the   *)
(* tenant's tasks send.                                                    *)
THEOREM PoolsAreUsedEvenly == Spec => []PoolUsedEvenly
<1>1. Init => RoundRobin
  <2> SUFFICES ASSUME Init PROVE RoundRobin
    OBVIOUS
  <2>1. /\ \A i \in Events : caseOf[i] = 0
        /\ \A t \in Tenants : counts[t] = 0
    BY DEF Init
  <2>2. ASSUME NEW t \in Tenants
        PROVE  \A c \in DOMAIN Pool[t] :
                 SentCount(t, c) = 0 + IF c <= counts[t] % Len(Pool[t])
                                       THEN 1 ELSE 0
    <3> DEFINE L == Len(Pool[t])
    <3>1. L \in Nat /\ L > 0 /\ DOMAIN Pool[t] = 1 .. L
      BY PoolPositions
    <3>2. 0 % L = 0
      <4>1. 0 \in 0 .. L - 1 /\ 0 = L * 0 + 0
        BY <3>1
      <4>. QED  BY <3>1, <4>1, RemainderOf
    <3>3. \A c \in 1 .. L : SentTo(t, c) = {}
      BY <2>1, <3>1 DEF SentTo
    <3>4. \A c \in 1 .. L : SentCount(t, c) = 0
      BY <3>3, FS_EmptySet DEF SentTo, SentCount
    <3>. QED  BY <2>1, <3>1, <3>2, <3>4
  <2>. QED  BY <2>1, <2>2 DEF RoundRobin
<1>2. IInv /\ RoundRobin /\ [Next]_vars => RoundRobin'
  <2> SUFFICES ASSUME IInv, RoundRobin, [Next]_vars
               PROVE  RoundRobin'
    OBVIOUS
  <2>1. ASSUME NEW i \in Events, Waits(i) \/ Sends(i) \/ Records(i) \/ Raises(i)
        PROVE  RoundRobin'
    <3>1. CASE Sends(i)
      BY <3>1, SendsInTurn DEF IInv
    <3>2. CASE Waits(i) \/ Records(i) \/ Raises(i)
      <4>1. UNCHANGED <<counts, caseOf>>
        BY <3>2 DEF Waits, Records, Raises
      <4>2. \A j \in Events : pc'[j] \in WaitStages => pc[j] \in WaitStages
        BY <3>2 DEF Waits, Records, Raises, IInv, TypeOK, WaitStages
      <4>. QED  BY <4>1, <4>2, RoundRobinUnchanged
    <3>. QED  BY <2>1, <3>1, <3>2
  <2>2. CASE Returns \/ GivesUp \/ Passes \/ Invisible
    <3>1. UNCHANGED <<counts, caseOf>>
      BY <2>2 DEF Returns, GivesUp, Passes, Invisible
    <3>2. \A j \in Events : pc'[j] \in WaitStages => pc[j] \in WaitStages
      BY <2>2 DEF Returns, GivesUp, Passes, Invisible, WaitStages
    <3>. QED  BY <3>1, <3>2, RoundRobinUnchanged
  <2>. QED  BY <2>1, <2>2, StepIsVisible DEF Visible
<1>3. IInv /\ RoundRobin => PoolUsedEvenly
  <2> SUFFICES ASSUME IInv, RoundRobin, NEW t \in Tenants,
                      NEW c \in DOMAIN Pool[t], NEW d \in DOMAIN Pool[t], c <= d
               PROVE  SentCount(t, c) - SentCount(t, d) \in {0, 1}
    BY DEF PoolUsedEvenly
  <2>1. PICK q \in Nat : \A b \in DOMAIN Pool[t] :
          SentCount(t, b) = q + IF b <= counts[t] % Len(Pool[t]) THEN 1 ELSE 0
    BY DEF RoundRobin
  <2>2. counts[t] \in Nat
    BY DEF IInv, TypeOK
  <2>3. PICK r \in Nat : r = counts[t] % Len(Pool[t])
    BY <2>2, PoolPositions, NextRemainder
  <2>4. c \in Nat /\ d \in Nat
    BY PoolPositions
  <2>. QED  BY <2>1, <2>3, <2>4
<1>. QED  BY <1>1, <1>2, <1>3, InitIInv, NextIInv, PTL DEF Spec

-----------------------------------------------------------------------------
(* The receipts are those of the requests that are done, each once.        *)
Logged ==
  /\ Distinct(records)
  /\ Members(records) = {i \in Events : pc[i] = "done"}
  /\ outcome = "returned" => \A i \in Events : pc[i] = "done"

LEMMA InitLogged == Init => Logged
<1> SUFFICES ASSUME Init PROVE Logged
  OBVIOUS
<1>1. records = <<>> /\ outcome = "running" /\ \A i \in Events : pc[i] = "new"
  BY DEF Init
<1>2. Distinct(<<>>) /\ Members(<<>>) = {}
  BY EmptySeq DEF Distinct, Members
<1>. QED  BY <1>1, <1>2 DEF Logged

LEMMA NextLogged == IInv /\ Logged /\ [Next]_vars => Logged'
<1> SUFFICES ASSUME IInv, Logged, [Next]_vars PROVE Logged'
  OBVIOUS
<1>1. pc \in [Events -> Stages] /\ records \in Seq(Events)
  BY DEF IInv, TypeOK
<1>2. ASSUME NEW i \in Events, outcome = "running",
             Waits(i) \/ Sends(i) \/ Raises(i)
      PROVE  Logged'
  <2>1. records' = records /\ outcome' = outcome
    BY <1>2 DEF Waits, Sends, Raises
  <2>2. \A j \in Events : pc'[j] = "done" <=> pc[j] = "done"
    BY <1>1, <1>2 DEF Waits, Sends, Send, Raises, WaitStages
  <2>3. {j \in Events : pc'[j] = "done"} = {j \in Events : pc[j] = "done"}
    BY <2>2
  <2>. QED  BY <1>2, <2>1, <2>3 DEF Logged
<1>3. ASSUME NEW i \in Events, outcome = "running", Records(i)
      PROVE  Logged'
  <2>1. /\ records' = Append(records, i) /\ outcome' = outcome
        /\ i \notin Members(records)
    BY <1>3 DEF Records, Logged
  <2>2. Members(records') = Members(records) \cup {i} /\ Distinct(records')
    BY <1>1, <2>1, AppendMembers DEF Logged
  <2>3. {j \in Events : pc'[j] = "done"} = {j \in Events : pc[j] = "done"} \cup {i}
    BY <1>1, <1>3 DEF Records
  <2>. QED  BY <1>3, <2>1, <2>2, <2>3 DEF Logged
<1>4. CASE outcome = "running" /\ Returns
  BY <1>4 DEF Returns, Logged
<1>5. CASE outcome = "running" /\ GivesUp
  <2>1. records' = records /\ outcome' = "raised"
    BY <1>5 DEF GivesUp
  <2>2. {j \in Events : pc'[j] = "done"} = {j \in Events : pc[j] = "done"}
    BY <1>5 DEF GivesUp
  <2>. QED  BY <2>1, <2>2 DEF Logged
<1>6. CASE Passes
  BY <1>6 DEF Passes, Logged
<1>7. CASE Invisible
  BY <1>7 DEF Invisible, Logged
<1>. QED
  BY <1>2, <1>3, <1>4, <1>5, <1>6, <1>7, StepIsVisible DEF Visible

LEMMA LengthOfDistinct ==
  ASSUME NEW S, NEW s \in Seq(S), Distinct(s)
  PROVE  Len(s) = Cardinality(Members(s))
<1>1. Len(s) \in Nat /\ DOMAIN s = 1 .. Len(s)
  BY LenProperties
<1>2. s \in Bijection(1 .. Len(s), Members(s))
  <2>1. s \in [1 .. Len(s) -> Members(s)]
    BY <1>1, ElementOfSeq, SeqDef DEF Members
  <2>2. \A j, k \in 1 .. Len(s) : s[j] = s[k] => j = k
    BY <1>1 DEF Distinct
  <2>3. \A x \in Members(s) : \E k \in 1 .. Len(s) : s[k] = x
    BY <1>1 DEF Members
  <2>. QED  BY <2>1, <2>2, <2>3
       DEF Bijection, Injection, Surjection, IsInjective
<1>3. IsFiniteSet(1 .. Len(s)) /\ Cardinality(1 .. Len(s)) = Len(s)
  BY <1>1, FS_Interval
<1>4. ExistsBijection(1 .. Len(s), Members(s))
  BY <1>2 DEF ExistsBijection
<1>. QED  BY <1>3, <1>4, FS_Bijection

(* The scan returns only with one receipt of every arrival.                *)
THEOREM AllReceiptsReturned == Spec => []ReturnsAllReceipts
<1>1. IInv /\ Logged => ReturnsAllReceipts
  <2> SUFFICES ASSUME IInv, Logged, outcome = "returned"
               PROVE  /\ Len(records) = Cardinality(Events)
                      /\ Members(records) = Events
    BY DEF ReturnsAllReceipts
  <2>1. Members(records) = Events
    BY DEF Logged
  <2>2. records \in Seq(Events) /\ Distinct(records)
    BY DEF IInv, TypeOK, Logged
  <2>. QED  BY <2>1, <2>2, LengthOfDistinct
<1>. QED  BY <1>1, InitIInv, NextIInv, InitLogged, NextLogged, PTL DEF Spec

-----------------------------------------------------------------------------
(* The refinement mapping.                                                 *)
Status == [i \in Events |-> AbstractStatus(i)]

LEMMA StatusCases ==
  ASSUME TypeOK, NEW i \in Events
  PROVE  /\ pc[i] \in WaitStages => AbstractStatus(i) = "waiting"
         /\ pc[i] = "in_flight" <=> AbstractStatus(i) = "in_flight"
         /\ pc[i] = "done" <=> AbstractStatus(i) = "recorded"
         /\ pc[i] \in {"raised", "cancelled"} => AbstractStatus(i) = "lost"
<1>1. pc[i] \in Stages
  BY DEF TypeOK
<1>. QED  BY <1>1 DEF AbstractStatus, WaitStages, Stages

(* A step of one task changes the status of its request alone.             *)
LEMMA StatusMoves ==
  ASSUME TypeOK, NEW i \in Events, NEW x, pc' = [pc EXCEPT ![i] = x],
         NEW a, AbstractStatus(i)' = a
  PROVE  Status' = [Status EXCEPT ![i] = a]
<1>1. \A j \in Events \ {i} : AbstractStatus(j)' = AbstractStatus(j)
  BY DEF TypeOK, AbstractStatus
<1>. QED  BY <1>1 DEF Status

LEMMA FlyingIsInFlight ==
  ASSUME TypeOK
  PROVE  Abstract!Flying = InFlight
BY StatusCases DEF Abstract!Flying, InFlight

(* The instance has its own name for the library's operator.               *)
LEMMA SameCardinality == \A S : Abstract!Cardinality(S) = Cardinality(S)
BY DEF Abstract!Cardinality, Cardinality

(* The limits of the pool follow from those of the state after the send.   *)
LEMMA OneMore ==
  ASSUME NEW F, NEW G, NEW i, F = G \cup {i}, i \notin G, IsFiniteSet(G),
         NEW limit \in Nat, Cardinality(F) <= limit
  PROVE  Cardinality(G) < limit
<1>1. Cardinality(F) = Cardinality(G) + 1 /\ Cardinality(G) \in Nat
  BY FS_AddElement, FS_CardinalityType
<1>. QED  BY <1>1

LEMMA SendIsAllowed ==
  ASSUME IInv, IInv', NEW i \in Events, outcome = "running", Sends(i)
  PROVE  Abstract!SendRequest(i)
<1> DEFINE t == TenantOf(i)
           own == {q \in InFlight : TenantOf(q) = t}
<1>1. TypeOK /\ TypeOK' /\ t \in Tenants
  BY EventsAreNumbers DEF IInv
<1>2. /\ pc[i] \in WaitStages /\ now >= Arrivals[i].nominal
      /\ pc' = [pc EXCEPT ![i] = "in_flight"]
      /\ UNCHANGED <<now, records, outcome>>
  BY DEF Sends, Send
<1>3. InFlight' = InFlight \cup {i} /\ i \notin InFlight
  BY <1>1, <1>2 DEF TypeOK, InFlight, WaitStages
<1>4. {q \in InFlight' : TenantOf(q) = t} = own \cup {i}
  BY <1>3
<1>5. IsFiniteSet(InFlight) /\ IsFiniteSet(own)
  BY EventsAreNumbers, FS_Subset DEF InFlight
<1>6. ConcurrencyBounded'
  BY LimitsAreKept, PTL
<1>7. Cardinality(InFlight) < GlobalConc
  BY <1>3, <1>5, <1>6, LimitsArePositive, OneMore DEF ConcurrencyBounded
<1>8. Cardinality(own) < TenantLimit
  <2>1. Cardinality(own \cup {i}) <= TenantLimit
    BY <1>1, <1>4, <1>6 DEF ConcurrencyBounded
  <2>. QED  BY <1>3, <1>5, <2>1, LimitsArePositive, OneMore
<1>9. AbstractStatus(i) = "waiting" /\ AbstractStatus(i)' = "in_flight"
  BY <1>1, <1>2, StatusCases DEF TypeOK, AbstractStatus
<1>10. Status' = [Status EXCEPT ![i] = "in_flight"]
  BY <1>1, <1>2, <1>9, StatusMoves
<1>11. {q \in InFlight :
          [j \in Events |-> Arrivals[j].tenant][q]
            = [j \in Events |-> Arrivals[j].tenant][i]} = own
  <2>1. \A q \in Events : [j \in Events |-> Arrivals[j].tenant][q] = TenantOf(q)
    BY DEF TenantOf
  <2>2. InFlight \subseteq Events
    BY DEF InFlight
  <2>. QED  BY <2>1, <2>2
<1>12. /\ Status[i] = "waiting"
       /\ [j \in Events |-> Arrivals[j].nominal][i] = Arrivals[i].nominal
  BY <1>9 DEF Status
<1>13. Abstract!Flying = InFlight
  BY <1>1, FlyingIsInFlight
<1>. QED
  BY <1>2, <1>7, <1>8, <1>10, <1>11, <1>12, <1>13, SameCardinality
  DEF Abstract!SendRequest, Status

LEMMA WaitIsInvisible ==
  ASSUME TypeOK, NEW i \in Events, Waits(i)
  PROVE  UNCHANGED Abstract!poolVars
<1>1. AbstractStatus(i)' = "waiting" /\ AbstractStatus(i) = "waiting"
  BY DEF Waits, WaitStages, AbstractStatus, TypeOK
<1>2. PICK x : pc' = [pc EXCEPT ![i] = x]
  BY DEF Waits
<1>3. Status' = [Status EXCEPT ![i] = "waiting"]
  BY <1>1, <1>2, StatusMoves
<1>4. Status' = Status
  BY <1>1, <1>3 DEF Status
<1>. QED  BY <1>4 DEF Waits, Abstract!poolVars, Status

LEMMA RecordIsReceive ==
  ASSUME TypeOK, NEW i \in Events, outcome = "running", Records(i)
  PROVE  Abstract!Receive(i)
<1>1. AbstractStatus(i)' = "recorded" /\ AbstractStatus(i) = "in_flight"
  BY DEF Records, AbstractStatus, TypeOK
<1>2. Status' = [Status EXCEPT ![i] = "recorded"] /\ Status[i] = "in_flight"
  BY <1>1, StatusMoves DEF Records, Status
<1>. QED  BY <1>2 DEF Records, Abstract!Receive, Status

LEMMA RaiseIsLose ==
  ASSUME TypeOK, NEW i \in Events, outcome = "running", Raises(i)
  PROVE  Abstract!Lose(i)
<1>1. AbstractStatus(i)' = "lost" /\ AbstractStatus(i) = "in_flight"
  BY DEF Raises, AbstractStatus, TypeOK
<1>2. Status' = [Status EXCEPT ![i] = "lost"] /\ Status[i] = "in_flight"
  BY <1>1, StatusMoves DEF Raises, Status
<1>. QED  BY <1>2 DEF Raises, Abstract!Lose, Status

LEMMA GiveUpIsRaise ==
  ASSUME TypeOK, outcome = "running", GivesUp
  PROVE  Abstract!Raise
<1>1. \E i \in Events : Status[i] = "lost"
  BY StatusCases DEF GivesUp, Status
<1>2. ASSUME NEW i \in Events
      PROVE  AbstractStatus(i)'
               = IF AbstractStatus(i) = "recorded" THEN "recorded" ELSE "lost"
  <2>1. pc[i] = "done" <=> AbstractStatus(i) = "recorded"
    BY StatusCases
  <2>2. CASE pc[i] = "done"
    BY <2>1, <2>2 DEF GivesUp, AbstractStatus
  <2>3. CASE pc[i] # "done"
    <3>1. pc'[i] \in {"raised", "cancelled"}
      BY <2>3 DEF GivesUp
    <3>. QED  BY <2>1, <2>3, <3>1 DEF AbstractStatus
  <2>. QED  BY <2>2, <2>3
<1>3. Status' = [i \in Events |->
                   IF Status[i] = "recorded" THEN "recorded" ELSE "lost"]
  BY <1>2 DEF Status
<1>. QED  BY <1>1, <1>3 DEF GivesUp, Abstract!Raise, Status

LEMMA StepOfPool ==
  ASSUME IInv, IInv', [Next]_vars
  PROVE  [Abstract!PoolNext]_(Abstract!poolVars)
<1>1. TypeOK
  BY DEF IInv
<1>2. CASE Invisible
  <2>1. Status' = Status
    BY <1>2 DEF Invisible, Status, AbstractStatus
  <2>. QED  BY <1>2, <2>1 DEF Invisible, Abstract!poolVars, Status
<1>3. ASSUME NEW i \in Events, outcome = "running",
             Waits(i) \/ Sends(i) \/ Records(i) \/ Raises(i)
      PROVE  [Abstract!PoolNext]_(Abstract!poolVars)
  <2>1. CASE Waits(i)
    BY <1>1, <2>1, WaitIsInvisible
  <2>2. CASE Sends(i)
    <3>1. Abstract!SendRequest(i)
      BY <1>3, <2>2, SendIsAllowed
    <3>. QED  BY <3>1 DEF Abstract!PoolNext
  <2>3. CASE Records(i)
    <3>1. Abstract!Receive(i)
      BY <1>1, <1>3, <2>3, RecordIsReceive
    <3>. QED  BY <3>1 DEF Abstract!PoolNext
  <2>4. CASE Raises(i)
    <3>1. Abstract!Lose(i)
      BY <1>1, <1>3, <2>4, RaiseIsLose
    <3>. QED  BY <3>1 DEF Abstract!PoolNext
  <2>. QED  BY <1>3, <2>1, <2>2, <2>3, <2>4
<1>4. CASE outcome = "running" /\ Returns
  <2>1. \A i \in Events : Status[i] = "recorded"
    BY <1>1, <1>4, StatusCases DEF Returns, Status
  <2>2. Status' = Status
    BY <1>4 DEF Returns, Status, AbstractStatus
  <2>3. Abstract!Return
    BY <1>4, <2>1, <2>2 DEF Returns, Abstract!Return, Status
  <2>. QED  BY <2>3 DEF Abstract!PoolNext
<1>5. CASE outcome = "running" /\ GivesUp
  BY <1>1, <1>5, GiveUpIsRaise DEF Abstract!PoolNext
<1>6. CASE outcome = "running" /\ Passes
  <2>1. Status' = Status
    BY <1>6 DEF Passes, Status, AbstractStatus
  <2>2. Abstract!Advance
    BY <1>6, <2>1 DEF Passes, Abstract!Advance, Status
  <2>. QED  BY <2>2 DEF Abstract!PoolNext
<1>. QED
  BY <1>2, <1>3, <1>4, <1>5, <1>6, StepIsVisible DEF Visible

(* The scheduler with its two semaphores, its timers and its event loop    *)
(* does nothing the pool of requests does not allow, for every arrival     *)
(* sequence and pair of limits.                                            *)
THEOREM RunMixedImplementsPool == Spec => ImplementsTenantPool
<1>1. Init => Abstract!Init
  BY DEF Init, Abstract!Init, AbstractStatus
<1>. QED
  BY <1>1, InitIInv, NextIInv, StepOfPool, PTL
  DEF Spec, ImplementsTenantPool, Abstract!PoolSpec
=============================================================================
