------------------------------ MODULE RunMixed ------------------------------
(***************************************************************************)
(* scheduler.run_mixed: one task per arrival of the merged four-tenant     *)
(* sequence, admitted by a semaphore per tenant and then by a global one,  *)
(* sent no earlier than its nominal time, answered by the server, recorded *)
(* in completion order.                                                    *)
(*                                                                         *)
(* Everything runs on one asyncio loop.  `ready` is the loop's FIFO of     *)
(* callbacks; a task runs from one await to the next without interruption, *)
(* so each action below is the code between two awaits of fire().  What    *)
(* the code waits for outside (timers, the server, the clock) are actions  *)
(* of the environment.  A done-callback that only schedules another one    *)
(* (timer to task, task to gather) is folded into the step that causes it. *)
(***************************************************************************)
EXTENDS AsyncSemaphore, FiniteSets, Integers

CONSTANTS
  Tenants,      (* names of workload.tenants with a case pool              *)
  Arrivals,     (* contract["arrivals"]: [tenant, nominal], time-ordered   *)
  Pool,         (* Pool[t]: the tenant's cases, each [session]             *)
  SessionIds,   (* session_id values of the cases                          *)
  NoSession,    (* session_id of a single-turn case: None                  *)
  GlobalConc,   (* workload.global_concurrency                             *)
  TenantConc,   (* workload.per_tenant_concurrency                         *)
  FullLoad,     (* run_mixed(full_load=...): the isolation baseline        *)
  Horizon       (* bound of the modelled clock                             *)

Events == DOMAIN Arrivals

(* The loop's callback that resumes run_mixed itself after the gather.     *)
Main == 0

ASSUME ArrivalsAssumption ==
  /\ Arrivals \in Seq([tenant : Tenants, nominal : Nat])
  /\ \A i, j \in Events : i < j => Arrivals[i].nominal <= Arrivals[j].nominal
  /\ \A i \in Events : Arrivals[i].nominal <= Horizon

ASSUME PoolAssumption ==
  /\ NoSession \notin SessionIds
  /\ Pool \in [Tenants -> Seq([session : SessionIds \cup {NoSession}])]
  /\ \A t \in Tenants : Pool[t] # <<>>

ASSUME LimitsAssumption ==
  /\ IsFiniteSet(Tenants)
  /\ GlobalConc \in Nat \ {0}
  /\ TenantConc \in Nat \ {0}
  /\ FullLoad \in BOOLEAN
  /\ Horizon \in Nat

(* Slip: the baseline keeps the limit tuned for the mixed load.            *)
TenantLimitAlways == TenantConc

(* _concurrency_limits: the baseline lifts the tenant's limit.             *)
TenantLimit == IF FullLoad THEN GlobalConc ELSE TenantConc

TenantOf(i) == Arrivals[i].tenant

VARIABLES
  now,       (* time.monotonic() - start                                   *)
  ready,     (* the event loop's queue of runnable tasks, and of Main      *)
  pc,        (* where each fire() is suspended                             *)
  semT,      (* sem_t: tenant -> semaphore                                 *)
  semG,      (* sem_g                                                      *)
  counts,    (* counts: tenant -> requests sent so far                     *)
  caseOf,    (* event -> index in Pool of the case it sent, 0 before       *)
  prompt,    (* event -> the history its request body carried              *)
  sessions,  (* sessions: (tenant, session_id) -> list of messages         *)
  verdict,   (* event -> how its execute_one ended                         *)
  records,   (* records: events in the order they were appended            *)
  outcome    (* how run_mixed ended                                        *)

vars == <<now, ready, pc, semT, semG, counts, caseOf, prompt, sessions,
          verdict, records, outcome>>

Stages == {"new", "wait_t", "wait_g", "sleeping", "in_flight", "done",
           "raised", "cancelled"}
Verdicts == {"none", "ok", "failed", "exception"}
Messages == [role : {"user", "assistant"}, tenant : Tenants, case : Nat]

(* sessions.get(_history_key(case), []): the tenant is part of the key.    *)
History(t, c) ==
  LET s == Pool[t][c].session
  IN  IF s = NoSession THEN <<>> ELSE sessions[<<t, s>>]

IsReady(i) == i \in Members(ready)

-----------------------------------------------------------------------------
(* Slip: the tasks are created in the reverse order.                       *)
FirstStepsReversed == [i \in Events |-> Len(Arrivals) + 1 - i]

(* All tasks are created before the gather suspends run_mixed, so their    *)
(* first steps are queued in arrival order.                                *)
FirstSteps == IF Arrivals = <<>> THEN <<Main>> ELSE [i \in Events |-> i]

Init ==
  /\ now = 0
  /\ ready = FirstSteps
  /\ pc = [i \in Events |-> "new"]
  /\ semT = [t \in Tenants |-> NewSemaphore(TenantLimit)]
  /\ semG = NewSemaphore(GlobalConc)
  /\ counts = [t \in Tenants |-> 0]
  /\ caseOf = [i \in Events |-> 0]
  /\ prompt = [i \in Events |-> <<>>]
  /\ sessions = [k \in Tenants \X SessionIds |-> <<>>]
  /\ verdict = [i \in Events |-> "none"]
  /\ records = <<>>
  /\ outcome = "running"

(* The task at the head of the ready queue is the one that runs.           *)
Running(i) == /\ outcome = "running"
              /\ ready # <<>>
              /\ Head(ready) = i

-----------------------------------------------------------------------------
(* Slip: the case picked by the arrival's position, not by the count.      *)
SendByPosition(i) ==
  LET t == TenantOf(i)
      c == (i % Len(Pool[t])) + 1
  IN  /\ pc' = [pc EXCEPT ![i] = "in_flight"]
      /\ caseOf' = [caseOf EXCEPT ![i] = c]
      /\ counts' = [counts EXCEPT ![t] = @ + 1]
      /\ prompt' = [prompt EXCEPT ![i] = History(t, c)]

(* The case is chosen only now, by the tenant's running count: the read    *)
(* and the increment are on the same side of execute_one's first await.    *)
Send(i) ==
  LET t == TenantOf(i)
      c == (counts[t] % Len(Pool[t])) + 1
  IN  /\ pc' = [pc EXCEPT ![i] = "in_flight"]
      /\ caseOf' = [caseOf EXCEPT ![i] = c]
      /\ counts' = [counts EXCEPT ![t] = @ + 1]
      /\ prompt' = [prompt EXCEPT ![i] = History(t, c)]

(* Slip: no wait for the nominal time.                                     *)
ProceedAtOnce(i) == Send(i)

(* With both permits in hand a task waits for its nominal time.            *)
Proceed(i) ==
  IF now < Arrivals[i].nominal
  THEN /\ pc' = [pc EXCEPT ![i] = "sleeping"]
       /\ UNCHANGED <<counts, caseOf, prompt>>
  ELSE Send(i)

(* `async with sem_g`: suspend, or take the permit and go on.              *)
EnterGlobal(i) ==
  IF Locked(semG)
  THEN /\ semG' = Enqueue(semG, i)
       /\ pc' = [pc EXCEPT ![i] = "wait_g"]
       /\ UNCHANGED <<counts, caseOf, prompt>>
  ELSE /\ semG' = Take(semG)
       /\ Proceed(i)

-----------------------------------------------------------------------------
(* First step of fire(): `async with sem_t[t]`, from the task's creation.  *)
StartTask(i) ==
  LET t == TenantOf(i)
  IN  /\ Running(i)
      /\ pc[i] = "new"
      /\ ready' = Tail(ready)
      /\ IF Locked(semT[t])
         THEN /\ semT' = [semT EXCEPT ![t] = Enqueue(@, i)]
              /\ pc' = [pc EXCEPT ![i] = "wait_t"]
              /\ UNCHANGED <<semG, counts, caseOf, prompt>>
         ELSE /\ semT' = [semT EXCEPT ![t] = Take(@)]
              /\ EnterGlobal(i)
      /\ UNCHANGED <<now, sessions, verdict, records, outcome>>

(* A waiter of the tenant's semaphore runs with the permit it was given.   *)
GetTenantPermit(i) ==
  LET t == TenantOf(i)
      next == Resume(semT[t], i)
  IN  /\ Running(i)
      /\ pc[i] = "wait_t"
      /\ semT' = [semT EXCEPT ![t] = next]
      /\ ready' = Tail(ready) \o NewlyWoken(semT[t], next)
      /\ EnterGlobal(i)
      /\ UNCHANGED <<now, sessions, verdict, records, outcome>>

(* A waiter of the global semaphore runs with the permit it was given.     *)
GetGlobalPermit(i) ==
  LET next == Resume(semG, i)
  IN  /\ Running(i)
      /\ pc[i] = "wait_g"
      /\ semG' = next
      /\ ready' = Tail(ready) \o NewlyWoken(semG, next)
      /\ Proceed(i)
      /\ UNCHANGED <<now, semT, sessions, verdict, records, outcome>>

(* The sleep to the nominal time is over.                                  *)
WakeAndSend(i) ==
  /\ Running(i)
  /\ pc[i] = "sleeping"
  /\ ready' = Tail(ready)
  /\ Send(i)
  /\ UNCHANGED <<now, semT, semG, sessions, verdict, records, outcome>>

-----------------------------------------------------------------------------
(* gather() completes with the first exception or the last result.         *)
GatherDone(i) ==
  \/ verdict[i] = "exception" /\ \A j \in Events : pc[j] # "raised"
  \/ verdict[i] # "exception" /\ \A j \in Events \ {i} : pc[j] = "done"

(* Slip: only one of the two permits is given back.                        *)
ReleaseGlobalOnly(i) ==
  LET next == Release(semG)
  IN  /\ semG' = next
      /\ UNCHANGED semT
      /\ ready' = Tail(ready) \o NewlyWoken(semG, next)
                    \o (IF GatherDone(i) THEN <<Main>> ELSE <<>>)

(* Leaving both `async with` blocks: the global permit first.              *)
ReleaseBoth(i) ==
  LET t == TenantOf(i)
      nextG == Release(semG)
      nextT == Release(semT[t])
  IN  /\ semG' = nextG
      /\ semT' = [semT EXCEPT ![t] = nextT]
      /\ LET woken == NewlyWoken(semG, nextG) \o NewlyWoken(semT[t], nextT)
         IN  ready' = Tail(ready) \o woken
                        \o (IF GatherDone(i) THEN <<Main>> ELSE <<>>)

(* Slip: histories kept by session id alone.                               *)
UpdateSharedHistory(i) ==
  LET t == TenantOf(i)
      s == Pool[t][caseOf[i]].session
      user == [role |-> "user", tenant |-> t, case |-> caseOf[i]]
  IN  sessions' = [k \in DOMAIN sessions |->
                     IF k[2] = s THEN Append(sessions[k], user)
                     ELSE sessions[k]]

(* executor._update_history: the user turn always, the reply only if ok.   *)
UpdateHistory(i) ==
  LET t == TenantOf(i)
      s == Pool[t][caseOf[i]].session
      user == [role |-> "user", tenant |-> t, case |-> caseOf[i]]
      reply == [user EXCEPT !.role = "assistant"]
  IN  IF s = NoSession
      THEN UNCHANGED sessions
      ELSE sessions' = [sessions EXCEPT ![<<t, s>>] =
             @ \o (IF verdict[i] = "ok" THEN <<user, reply>> ELSE <<user>>)]

(* execute_one returned a receipt: history, record, permits, in this step. *)
RecordReceipt(i) ==
  /\ Running(i)
  /\ pc[i] = "in_flight"
  /\ verdict[i] \in {"ok", "failed"}
  /\ UpdateHistory(i)
  /\ records' = Append(records, i)
  /\ pc' = [pc EXCEPT ![i] = "done"]
  /\ ReleaseBoth(i)
  /\ UNCHANGED <<now, counts, caseOf, prompt, verdict, outcome>>

(* execute_one raised something other than an httpx error: no receipt, and *)
(* the gather is told.                                                     *)
RaiseOut(i) ==
  /\ Running(i)
  /\ pc[i] = "in_flight"
  /\ verdict[i] = "exception"
  /\ pc' = [pc EXCEPT ![i] = "raised"]
  /\ ReleaseBoth(i)
  /\ UNCHANGED <<now, counts, caseOf, prompt, sessions, verdict, records,
                 outcome>>

(* gather() is done.  After an exception the coroutine raises, the loop    *)
(* shuts down and every task that is still suspended is cancelled.         *)
FinishGather ==
  /\ Running(Main)
  /\ IF \E i \in Events : pc[i] = "raised"
     THEN /\ outcome' = "raised"
          /\ pc' = [i \in Events |->
                      IF pc[i] \in {"done", "raised"} THEN pc[i]
                      ELSE "cancelled"]
     ELSE /\ outcome' = "returned"
          /\ UNCHANGED pc
  /\ ready' = <<>>
  /\ UNCHANGED <<now, semT, semG, counts, caseOf, prompt, sessions, verdict,
                 records>>

-----------------------------------------------------------------------------
(* The environment.                                                        *)

(* asyncio's timer heap fires in deadline order.                           *)
TimerFires(i) ==
  /\ outcome = "running"
  /\ pc[i] = "sleeping"
  /\ ~IsReady(i)
  /\ now >= Arrivals[i].nominal
  /\ \A j \in Events : pc[j] = "sleeping" /\ ~IsReady(j)
                         => Arrivals[i].nominal <= Arrivals[j].nominal
  /\ ready' = Append(ready, i)
  /\ UNCHANGED <<now, pc, semT, semG, counts, caseOf, prompt, sessions,
                 verdict, records, outcome>>

(* The stream of a request ends, in any order between requests.            *)
ServerAnswers(i) ==
  /\ outcome = "running"
  /\ pc[i] = "in_flight"
  /\ ~IsReady(i)
  /\ \E v \in Verdicts \ {"none"} : verdict' = [verdict EXCEPT ![i] = v]
  /\ ready' = Append(ready, i)
  /\ UNCHANGED <<now, pc, semT, semG, counts, caseOf, prompt, sessions,
                 records, outcome>>

Tick ==
  /\ outcome = "running"
  /\ now < Horizon
  /\ now' = now + 1
  /\ UNCHANGED <<ready, pc, semT, semG, counts, caseOf, prompt, sessions,
                 verdict, records, outcome>>

(* run_mixed has ended: nothing happens any more.                          *)
Ended == outcome # "running" /\ UNCHANGED vars

-----------------------------------------------------------------------------
TaskStep(i) == \/ StartTask(i)
               \/ GetTenantPermit(i)
               \/ GetGlobalPermit(i)
               \/ WakeAndSend(i)
               \/ RecordReceipt(i)
               \/ RaiseOut(i)

Next == \/ \E i \in Events : TaskStep(i) \/ TimerFires(i) \/ ServerAnswers(i)
        \/ FinishGather
        \/ Tick
        \/ Ended

Spec == Init /\ [][Next]_vars

(* The loop runs what is ready, timers fire, the clock advances, and the   *)
(* server ends every stream: max_tokens bounds its length, and a server    *)
(* that falls silent is cut off by the httpx read timeout.                 *)
Fairness ==
  /\ WF_vars(\E i \in Events : TaskStep(i))
  /\ WF_vars(FinishGather)
  /\ WF_vars(Tick)
  /\ \A i \in Events : WF_vars(TimerFires(i)) /\ WF_vars(ServerAnswers(i))

FairSpec == Spec /\ Fairness
-----------------------------------------------------------------------------
(* Who holds a permit: those past the semaphore, and waiters a release has *)
(* served.                                                                 *)
HoldsGlobal(i) == \/ pc[i] \in {"sleeping", "in_flight"}
                  \/ i \in semG.woken

HoldsTenant(i) == \/ pc[i] \in {"wait_g", "sleeping", "in_flight"}
                  \/ i \in semT[TenantOf(i)].woken

GlobalHolders == {i \in Events : HoldsGlobal(i)}
TenantHolders(t) == {i \in Events : TenantOf(i) = t /\ HoldsTenant(i)}
InFlight == {i \in Events : pc[i] = "in_flight"}

Semaphores == [value : Nat, waiters : Seq(Events), woken : SUBSET Events]

TypeOK ==
  /\ now \in 0 .. Horizon
  /\ ready \in Seq(Events \cup {Main})
  /\ pc \in [Events -> Stages]
  /\ semT \in [Tenants -> Semaphores]
  /\ semG \in Semaphores
  /\ counts \in [Tenants -> Nat]
  /\ caseOf \in [Events -> Nat]
  /\ prompt \in [Events -> Seq(Messages)]
  /\ sessions \in [Tenants \X SessionIds -> Seq(Messages)]
  /\ verdict \in [Events -> Verdicts]
  /\ records \in Seq(Events)
  /\ outcome \in {"running", "returned", "raised"}

(* While the scan runs no permit is lost or made up: what a semaphore has  *)
(* left and what is held add up to its limit.                              *)
PermitsConserved ==
  outcome = "running" =>
    /\ semG.value + Cardinality(GlobalHolders) = GlobalConc
    /\ \A t \in Tenants :
         semT[t].value + Cardinality(TenantHolders(t)) = TenantLimit

(* The server never sees more concurrent requests than the two limits of   *)
(* the workload, over all tenants and of one tenant.                       *)
ConcurrencyBounded ==
  /\ Cardinality(InFlight) <= GlobalConc
  /\ \A t \in Tenants :
       Cardinality({i \in InFlight : TenantOf(i) = t}) <= TenantLimit

(* Back-pressure is only applied when it must be: a task waits for its     *)
(* tenant only while others hold all the tenant's permits, and for the     *)
(* global permit only while others hold them all or one that was served    *)
(* before is about to run.                                                 *)
NoIdlePermit ==
  outcome = "running" =>
    /\ Pending(semG) # {} => semG.value = 0 \/ semG.woken # {}
    /\ \A t \in Tenants : Pending(semT[t]) # {} => semT[t].value = 0

(* No request is sent before its nominal time.                             *)
NeverEarly ==
  \A i \in Events : caseOf[i] # 0 => now >= Arrivals[i].nominal

(* The round robin over a tenant's pool: after any prefix of the scan the  *)
(* cases of a pool were sent equally often, give or take one, although     *)
(* which task sends next is decided by permits and timers.                 *)
SentCount(t, c) ==
  Cardinality({i \in Events : TenantOf(i) = t /\ caseOf[i] = c})

PoolUsedEvenly ==
  \A t \in Tenants : \A c, d \in DOMAIN Pool[t] :
    c <= d => SentCount(t, c) - SentCount(t, d) \in {0, 1}

(* When run_mixed returns, every arrival has exactly one receipt.          *)
ReturnsAllReceipts ==
  outcome = "returned" =>
    /\ Len(records) = Cardinality(Events)
    /\ Members(records) = Events

(* While a due request waits for its tenant, the tenant's permits are with *)
(* requests that are due themselves: none is parked on a request that is   *)
(* still early.  The global semaphore promises no such thing: its permits  *)
(* go to requests in the order in which the tenants let them through.      *)
Waiting(i) == pc[i] \in {"wait_t", "wait_g"} /\ ~HoldsTenant(i)

DuePermitsOnly ==
  \A i \in Events : Waiting(i) /\ Arrivals[i].nominal <= now =>
    \A j \in TenantHolders(TenantOf(i)) : Arrivals[j].nominal <= now

(* A request's body carries its own conversation only: session ids repeat  *)
(* between tenants, histories never mix.                                   *)
PromptIsOwnSession ==
  \A i \in Events : \A m \in Members(prompt[i]) :
    /\ m.tenant = TenantOf(i)
    /\ Pool[m.tenant][m.case].session
         = Pool[TenantOf(i)][caseOf[i]].session

(* The isolation baseline really loads the server: a request is held back  *)
(* only while its tenant has the whole global concurrency to itself.       *)
FullLoadReached ==
  FullLoad /\ outcome = "running" =>
    \A i \in Events :
      Waiting(i) =>
        Cardinality(TenantHolders(TenantOf(i))) = GlobalConc

(* run_mixed implements the abstract pool of requests.                     *)
AbstractStatus(i) ==
  CASE pc[i] \in {"new", "wait_t", "wait_g", "sleeping"} -> "waiting"
    [] pc[i] = "in_flight" -> "in_flight"
    [] pc[i] = "done" -> "recorded"
    [] pc[i] \in {"raised", "cancelled"} -> "lost"

Abstract == INSTANCE TenantPool WITH
  Requests <- Events,
  Owner <- [i \in Events |-> Arrivals[i].tenant],
  Due <- [i \in Events |-> Arrivals[i].nominal],
  GlobalLimit <- GlobalConc,
  OwnerLimit <- TenantLimit,
  clock <- now,
  status <- [i \in Events |-> AbstractStatus(i)],
  receipts <- records,
  result <- outcome

ImplementsTenantPool == Abstract!PoolSpec

(* Nobody waits on everybody: run_mixed ends, whatever the answers are.    *)
Terminates == <>(outcome # "running")
=============================================================================
