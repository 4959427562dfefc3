------------------------------- MODULE RunScan -------------------------------
(***************************************************************************)
(* executor.run_scan: the capacity scan of the poisson cells.  One task    *)
(* per arrival of every rate segment, all created up front, one semaphore, *)
(* conversation histories kept by session id over the whole scan.          *)
(*                                                                         *)
(* The event loop, the stages of a task and the environment are those of   *)
(* RunMixed; what differs is that a task knows its case from the start,    *)
(* that the times of successive segments may overlap, and that the receipt *)
(* carries a measured send lag.                                            *)
(***************************************************************************)
EXTENDS AsyncSemaphore, FiniteSets, Integers

CONSTANTS
  Arrivals,     (* the segments' nominal_ts_s in the order of the two      *)
                (* loops: [segment, position, nominal]                     *)
  Cases,        (* generate_cases: [session]                               *)
  SessionIds,   (* session_id values of the cases                          *)
  NoSession,    (* session_id of a single-turn case: None                  *)
  MaxConc,      (* workload.max_concurrency                                *)
  Horizon       (* bound of the modelled clock                             *)

Events == DOMAIN Arrivals

(* The loop's callback that resumes run_scan itself after the gather.      *)
Main == 0

(* Within a segment times ascend and positions count from 0; segments may  *)
(* overlap in time: a segment ends when its last request is drawn, not     *)
(* when its duration is over.                                              *)
ASSUME SegmentsAssumption ==
  /\ Arrivals \in Seq([segment : Nat, position : Nat, nominal : Nat])
  /\ \A i \in Events : Arrivals[i].nominal <= Horizon
  /\ \A i \in Events : i + 1 \in Events =>
       \/ /\ Arrivals[i + 1].segment = Arrivals[i].segment
          /\ Arrivals[i + 1].position = Arrivals[i].position + 1
          /\ Arrivals[i + 1].nominal >= Arrivals[i].nominal
       \/ /\ Arrivals[i + 1].segment = Arrivals[i].segment + 1
          /\ Arrivals[i + 1].position = 0

ASSUME CasesAssumption ==
  /\ NoSession \notin SessionIds
  /\ Cases \in Seq([session : SessionIds \cup {NoSession}])
  /\ Cases # <<>>

ASSUME ScanLimitsAssumption ==
  /\ MaxConc \in Nat \ {0}
  /\ Horizon \in Nat

(* cases[i % len(cases)], restarting with every segment.                   *)
CaseNo(i) == (Arrivals[i].position % Len(Cases)) + 1
CaseOf(i) == Cases[CaseNo(i)]

VARIABLES
  now,       (* time.monotonic() - start                                   *)
  ready,     (* the event loop's queue of runnable tasks, and of Main      *)
  pc,        (* where each fire() is suspended                             *)
  sem,       (* sem                                                        *)
  sentAt,    (* event -> the time its request went out, Unsent before      *)
  prompt,    (* event -> the history its request body carried              *)
  sessions,  (* sessions: session_id -> list of messages                   *)
  verdict,   (* event -> how its execute_one ended                         *)
  records,   (* records: [event, sendlag, verdict] as they were completed  *)
  outcome    (* how run_scan ended                                         *)

vars == <<now, ready, pc, sem, sentAt, prompt, sessions, verdict, records,
          outcome>>

Stages == {"new", "waiting", "sleeping", "in_flight", "done", "raised",
           "cancelled"}
Verdicts == {"none", "ok", "failed", "exception"}
Messages == [role : {"user", "assistant"}, case : Nat]
Unsent == -1

(* sessions.get(_history_key(case), []): poisson cases have no tenant.     *)
History(i) == LET s == CaseOf(i).session
              IN  IF s = NoSession THEN <<>> ELSE sessions[s]

(* The turns a finished request adds to its conversation.                  *)
Turns(i, v) ==
  LET user == [role |-> "user", case |-> CaseNo(i)]
      reply == [role |-> "assistant", case |-> CaseNo(i)]
  IN  IF v = "ok" THEN <<user, reply>> ELSE <<user>>

IsReady(i) == i \in Members(ready)

-----------------------------------------------------------------------------
(* Slip: the segments' tasks are created in the reverse order.             *)
FirstStepsReversed == [i \in Events |-> Len(Arrivals) + 1 - i]

(* All tasks of all segments are created before the gather.                *)
FirstSteps == IF Arrivals = <<>> THEN <<Main>> ELSE [i \in Events |-> i]

Init ==
  /\ now = 0
  /\ ready = FirstSteps
  /\ pc = [i \in Events |-> "new"]
  /\ sem = NewSemaphore(MaxConc)
  /\ sentAt = [i \in Events |-> Unsent]
  /\ prompt = [i \in Events |-> <<>>]
  /\ sessions = [s \in SessionIds |-> <<>>]
  /\ verdict = [i \in Events |-> "none"]
  /\ records = <<>>
  /\ outcome = "running"

Running(i) == /\ outcome = "running"
              /\ ready # <<>>
              /\ Head(ready) = i

(* The history is read here, in the step that sends.                       *)
Send(i) ==
  /\ pc' = [pc EXCEPT ![i] = "in_flight"]
  /\ sentAt' = [sentAt EXCEPT ![i] = now]
  /\ prompt' = [prompt EXCEPT ![i] = History(i)]

(* A task waits for its nominal time inside the semaphore.                 *)
Proceed(i) ==
  IF now < Arrivals[i].nominal
  THEN /\ pc' = [pc EXCEPT ![i] = "sleeping"]
       /\ UNCHANGED <<sentAt, prompt>>
  ELSE Send(i)

-----------------------------------------------------------------------------
(* First step of fire(): `async with sem`.                                 *)
StartTask(i) ==
  /\ Running(i)
  /\ pc[i] = "new"
  /\ ready' = Tail(ready)
  /\ IF Locked(sem)
     THEN /\ sem' = Enqueue(sem, i)
          /\ pc' = [pc EXCEPT ![i] = "waiting"]
          /\ UNCHANGED <<sentAt, prompt>>
     ELSE /\ sem' = Take(sem)
          /\ Proceed(i)
  /\ UNCHANGED <<now, sessions, verdict, records, outcome>>

GetPermit(i) ==
  LET next == Resume(sem, i)
  IN  /\ Running(i)
      /\ pc[i] = "waiting"
      /\ sem' = next
      /\ ready' = Tail(ready) \o NewlyWoken(sem, next)
      /\ Proceed(i)
      /\ UNCHANGED <<now, sessions, verdict, records, outcome>>

WakeAndSend(i) ==
  /\ Running(i)
  /\ pc[i] = "sleeping"
  /\ ready' = Tail(ready)
  /\ Send(i)
  /\ UNCHANGED <<now, sem, sessions, verdict, records, outcome>>

(* Slip: the gather returns with the first result.                         *)
GatherFirstDone(i) == ~IsReady(Main)

(* gather() completes with the first exception or the last result.         *)
GatherDone(i) ==
  \/ verdict[i] = "exception" /\ \A j \in Events : pc[j] # "raised"
  \/ verdict[i] # "exception" /\ \A j \in Events \ {i} : pc[j] = "done"

(* Slip: a failed request keeps its permit.                                *)
ReleaseAfterSuccess(i) ==
  LET next == IF verdict[i] = "ok" THEN Release(sem) ELSE sem
  IN  /\ sem' = next
      /\ ready' = Tail(ready) \o NewlyWoken(sem, next)
                    \o (IF GatherDone(i) THEN <<Main>> ELSE <<>>)

(* Leaving `async with sem`, however the request ended.                    *)
ReleasePermit(i) ==
  LET next == Release(sem)
  IN  /\ sem' = next
      /\ ready' = Tail(ready) \o NewlyWoken(sem, next)
                    \o (IF GatherDone(i) THEN <<Main>> ELSE <<>>)

(* Slip: the history that was sent is extended and stored back.            *)
UpdateFromPrompt(i) ==
  LET s == CaseOf(i).session
  IN  IF s = NoSession
      THEN UNCHANGED sessions
      ELSE sessions' = [sessions EXCEPT ![s] = prompt[i] \o Turns(i, verdict[i])]

(* _update_history: the user turn always, the reply only if ok.            *)
UpdateHistory(i) ==
  LET s == CaseOf(i).session
  IN  IF s = NoSession
      THEN UNCHANGED sessions
      ELSE sessions' = [sessions EXCEPT ![s] = @ \o Turns(i, verdict[i])]

(* The receipt: sendlag_s is taken from the clock after the answer.        *)
RecordReceipt(i) ==
  /\ Running(i)
  /\ pc[i] = "in_flight"
  /\ verdict[i] \in {"ok", "failed"}
  /\ records' = Append(records, [event   |-> i,
                                 sendlag |-> now - Arrivals[i].nominal,
                                 verdict |-> verdict[i]])
  /\ UpdateHistory(i)
  /\ pc' = [pc EXCEPT ![i] = "done"]
  /\ ReleasePermit(i)
  /\ UNCHANGED <<now, sentAt, prompt, verdict, outcome>>

(* execute_one raised something other than an httpx error.                 *)
RaiseOut(i) ==
  /\ Running(i)
  /\ pc[i] = "in_flight"
  /\ verdict[i] = "exception"
  /\ pc' = [pc EXCEPT ![i] = "raised"]
  /\ ReleasePermit(i)
  /\ UNCHANGED <<now, sentAt, prompt, sessions, verdict, records, outcome>>

(* The gather is done; after an exception the loop's shutdown cancels what *)
(* is still suspended.                                                     *)
FinishGather ==
  /\ Running(Main)
  /\ IF \E i \in Events : pc[i] = "raised"
     THEN /\ outcome' = "raised"
          /\ pc' = [i \in Events |->
                      IF pc[i] \in {"done", "raised"} THEN pc[i]
                      ELSE "cancelled"]
     ELSE /\ outcome' = "returned"
          /\ UNCHANGED pc
  /\ ready' = <<>>
  /\ UNCHANGED <<now, sem, sentAt, prompt, sessions, verdict, records>>

-----------------------------------------------------------------------------
(* The environment.                                                        *)
TimerFires(i) ==
  /\ outcome = "running"
  /\ pc[i] = "sleeping"
  /\ ~IsReady(i)
  /\ now >= Arrivals[i].nominal
  /\ \A j \in Events : pc[j] = "sleeping" /\ ~IsReady(j)
                         => Arrivals[i].nominal <= Arrivals[j].nominal
  /\ ready' = Append(ready, i)
  /\ UNCHANGED <<now, pc, sem, sentAt, prompt, sessions, verdict, records,
                 outcome>>

ServerAnswers(i) ==
  /\ outcome = "running"
  /\ pc[i] = "in_flight"
  /\ ~IsReady(i)
  /\ \E v \in Verdicts \ {"none"} : verdict' = [verdict EXCEPT ![i] = v]
  /\ ready' = Append(ready, i)
  /\ UNCHANGED <<now, pc, sem, sentAt, prompt, sessions, records, outcome>>

Tick ==
  /\ outcome = "running"
  /\ now < Horizon
  /\ now' = now + 1
  /\ UNCHANGED <<ready, pc, sem, sentAt, prompt, sessions, verdict, records,
                 outcome>>

(* run_scan has ended: nothing happens any more.                           *)
Ended == outcome # "running" /\ UNCHANGED vars

TaskStep(i) == \/ StartTask(i)
               \/ GetPermit(i)
               \/ WakeAndSend(i)
               \/ RecordReceipt(i)
               \/ RaiseOut(i)

Next == \/ \E i \in Events : TaskStep(i) \/ TimerFires(i) \/ ServerAnswers(i)
        \/ FinishGather
        \/ Tick
        \/ Ended

Spec == Init /\ [][Next]_vars
-----------------------------------------------------------------------------
HoldsPermit(i) == pc[i] \in {"sleeping", "in_flight"} \/ i \in sem.woken
Holders == {i \in Events : HoldsPermit(i)}
WaitsForPermit(i) == pc[i] = "waiting" /\ i \notin sem.woken

Semaphores == [value : Nat, waiters : Seq(Events), woken : SUBSET Events]
Receipts == [event : Events, sendlag : Int, verdict : {"ok", "failed"}]

TypeOK ==
  /\ now \in 0 .. Horizon
  /\ ready \in Seq(Events \cup {Main})
  /\ pc \in [Events -> Stages]
  /\ sem \in Semaphores
  /\ sentAt \in [Events -> Nat \cup {Unsent}]
  /\ prompt \in [Events -> Seq(Messages)]
  /\ sessions \in [SessionIds -> Seq(Messages)]
  /\ verdict \in [Events -> Verdicts]
  /\ records \in Seq(Receipts)
  /\ outcome \in {"running", "returned", "raised"}

(* Where a conversation has its user turns and its replies, which receipts *)
(* are answers of its own, and the rank a position has among positions.    *)
AskedAt(s) == {k \in DOMAIN sessions[s] : sessions[s][k].role = "user"}
RepliedAt(s) == DOMAIN sessions[s] \ AskedAt(s)
AnswersOf(s) == {k \in DOMAIN records :
                   /\ CaseOf(records[k].event).session = s
                   /\ records[k].verdict = "ok"}
Rank(K, n) == Cardinality({k \in K : k <= n})

(* A reply stands behind the user turn it answers.                         *)
AnswersTurn(s, k, c) == /\ sessions[s][k].case = c
                        /\ k - 1 \in AskedAt(s)
                        /\ sessions[s][k - 1].case = c

(* Though several requests of a session are in flight at once, no answered *)
(* turn is lost, doubled or torn apart, and they stand in the order of the *)
(* receipts: the n-th reply of a conversation is that of its n-th ok       *)
(* receipt, directly behind the user turn of the same case.                *)
LogOf(s) ==
  /\ Cardinality(RepliedAt(s)) = Cardinality(AnswersOf(s))
  /\ \A a \in RepliedAt(s), d \in AnswersOf(s) :
       Rank(RepliedAt(s), a) = Rank(AnswersOf(s), d)
         => AnswersTurn(s, a, CaseNo(records[d].event))

NoAnswerLost == \A s \in SessionIds : LogOf(s)

(* What a request sent as history stays a prefix of its conversation: the  *)
(* prefix cache the dialogue cell measures can hit it again.               *)
PromptIsPrefix ==
  \A i \in Events :
    LET s == CaseOf(i).session
    IN  s # NoSession =>
          /\ Len(prompt[i]) <= Len(sessions[s])
          /\ prompt[i] = SubSeq(sessions[s], 1, Len(prompt[i]))

(* A conversation's history holds its answered turns in the order of the  *)
(* receipts, and every request was sent with a prefix of it:               *)
(* executor.py 283-288, 321.  What else it holds: HistoryOnlyAfterSuccess. *)
HistoryIsLog == NoAnswerLost /\ PromptIsPrefix

(* executor.py:278: user and assistant are appended after a success.  The  *)
(* code appends the user turn first and whatever the verdict (283).        *)
HistoryOnlyAfterSuccess ==
  \A s \in SessionIds : \A k \in AskedAt(s) :
    k + 1 \in RepliedAt(s) /\ AnswersTurn(s, k + 1, sessions[s][k].case)

(* executor.py:10: a session accumulates its history in the order of its   *)
(* rounds.  A request of a session is sent with the earlier rounds of the  *)
(* segment in its prompt; the code sends it as soon as it has a permit.    *)
RoundsAccumulate ==
  \A i \in Events : \A j \in 1 .. i - 1 :
    /\ sentAt[i] # Unsent
    /\ CaseOf(i).session # NoSession
    /\ CaseOf(j).session = CaseOf(i).session
    /\ Arrivals[j].segment = Arrivals[i].segment
    => \E k \in DOMAIN prompt[i] :
         prompt[i][k] = [role |-> "user", case |-> CaseNo(j)]

(* How far requests can be reordered locally: when one is in flight, fewer *)
(* than max_concurrency of those before it have yet to be sent.            *)
OvertakingBounded ==
  outcome = "running" =>
    \A j \in Events : pc[j] = "in_flight" =>
      Cardinality({i \in 1 .. j - 1 : sentAt[i] = Unsent}) < MaxConc

(* executor.py:5: requests wait locally when the concurrency is saturated. *)
(* A due request that waits finds every permit taken: no permit is lost,   *)
(* and none is parked with a request that still sleeps until its nominal   *)
(* time, unless that one closes an earlier segment which runs late.        *)
WaitsOnlyWhenSaturated ==
  outcome = "running" =>
    \A i \in Events : WaitsForPermit(i) /\ Arrivals[i].nominal <= now =>
      /\ Cardinality(Holders) = MaxConc
      /\ \A j \in Holders : \/ Arrivals[j].nominal <= now
                             \/ Arrivals[j].segment < Arrivals[i].segment

(* run_scan implements the abstract pool of requests, with one owner.      *)
AbstractStatus(i) ==
  CASE pc[i] \in {"new", "waiting", "sleeping"} -> "waiting"
    [] pc[i] = "in_flight" -> "in_flight"
    [] pc[i] = "done" -> "recorded"
    [] pc[i] \in {"raised", "cancelled"} -> "lost"

Abstract == INSTANCE TenantPool WITH
  Requests <- Events,
  Owner <- [i \in Events |-> 0],
  Due <- [i \in Events |-> Arrivals[i].nominal],
  GlobalLimit <- MaxConc,
  OwnerLimit <- MaxConc,
  clock <- now,
  status <- [i \in Events |-> AbstractStatus(i)],
  receipts <- [k \in DOMAIN records |-> records[k].event],
  result <- outcome

ImplementsRequestPool == Abstract!PoolSpec
=============================================================================
