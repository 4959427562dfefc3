----------------------------- MODULE ClosedLoop -----------------------------
(***************************************************************************)
(* The closed loops of run.py: _scan_closed_loop (A3, window.py) sends one *)
(* request after the other and cuts the measured time into windows;        *)
(* _scan_closed_loop_a1 (A1, closedloop.py and mfu.py) sends batches of    *)
(* fixed shapes, round after round, behind a semaphore.  _scan chooses by  *)
(* workload.window_count.                                                  *)
(*                                                                         *)
(* Time is counted in ticks.  In the windows loop a request is one step    *)
(* that takes its service time, as nothing else runs; in the rounds loop   *)
(* the requests of a batch interleave.                                     *)
(***************************************************************************)
EXTENDS Receipts

CONSTANTS
  Answers,       (* what execute_one may return; measure_ts, round and     *)
                 (* shape are filled in by the loops                       *)
  ServiceTimes,  (* ticks a serial request may take                        *)
  WarmupS, MeasureS, MaxRequests,             (* workload of the A3 cell   *)
  WindowCount, WindowS, MinCompleted, InputTokens, OutputLen,
  Shapes,        (* A1: sequence of [input_len, output_len, batch]         *)
  WarmupRounds, MeasureRounds,
  Concurrent     (* _CONCURRENT *)

ASSUME ClosedLoopAssumption ==
  /\ ServiceTimes \subseteq Nat \ {0}
  /\ {WarmupS, MeasureS, MaxRequests, MinCompleted, WarmupRounds, MeasureRounds} \subseteq Nat
  /\ {WindowCount, WindowS, Concurrent} \subseteq Nat \ {0}
  /\ Shapes \in Seq([input_len : Nat, output_len : Nat, batch : Nat])
  /\ Shapes # <<>>

ASSUME AnswersAssumption ==
  Answers \subseteq
    [verdict : CompletedVerdicts \cup FailedVerdicts,
     ttft : Nat \cup {None}, tpot : Seq(Nat), output_tokens : Nat,
     prompt_tokens : Nat \cup {None}, completion_tokens : Nat \cup {None},
     measure_ts : {None}, round : {None}, shape : {None}]

VARIABLES
  loop,     (* "windows" (A3) or "rounds" (A1) *)
  phase,    (* "warmup", "measure", "judged", "raised" *)
  clock,    (* A3: time since start, then since mstart                     *)
  meas,     (* measured receipts, with measure_ts_s (A3) or round and      *)
            (* shape index (A1)                                            *)
  rnd, si,  (* A1: round and shape under way, from 0 and from 1            *)
  started,  (* A1: tasks of the batch that got through the semaphore       *)
  recs,     (* A1: task -> its receipt, for the tasks that ended           *)
  stats,    (* A1: rounds_stats *)
  result    (* windows: overall.pass; rounds: mfu_summary                  *)

vars == <<loop, phase, clock, meas, rnd, si, started, recs, stats, result>>
a1 == <<rnd, si, started, recs, stats>>

(***************************************************************************)
(* window.py                                                               *)
(***************************************************************************)

Windows == 0 .. WindowCount - 1

(* split_windows: a receipt belongs to the window it was received in.      *)
InWindow(rs, w) ==
  {i \in DOMAIN rs : w * WindowS <= rs[i].measure_ts /\ rs[i].measure_ts < (w + 1) * WindowS}

WindowTokens(rs, w) == MapThenSumSet(LAMBDA i : rs[i].output_tokens, InWindow(rs, w))

(* pstdev / mean <= 0.05, squared; an idle run has no such ratio.          *)
CvOk(rs) ==
  LET sum     == MapThenSumSet(LAMBDA w : WindowTokens(rs, w), Windows)
      squares == MapThenSumSet(LAMBDA w : WindowTokens(rs, w) * WindowTokens(rs, w), Windows)
  IN  sum > 0 /\ 400 * (WindowCount * squares - sum * sum) <= sum * sum

(* |_drift(got, base)| <= 1/part; what has no value does not drift.        *)
DriftWithin(got, base, part) ==
  (got # None /\ base \notin {None, 0}) => part * Abs(got - base) <= base

(* Against the first window with a sample of TTFT, the medians within a    *)
(* tenth and the p99 within a fifth.                                       *)
DriftOk(rs) ==
  LET ttft(w) == TtftOf(rs, InWindow(rs, w))
      tpot(w) == TpotOf(rs, InWindow(rs, w))
      stable  == {w \in Windows : DOMAIN ttft(w) # {}}
      base    == Min(stable)
  IN  /\ stable # {}
      /\ \A w \in Windows \ {base} :
           /\ DriftWithin(MedianTwice(ttft(w)), MedianTwice(ttft(base)), 10)
           /\ DriftWithin(MedianTwice(tpot(w)), MedianTwice(tpot(base)), 10)
           /\ DriftWithin(P99(ttft(w)), P99(ttft(base)), 5)
           /\ DriftWithin(P99(tpot(w)), P99(tpot(base)), 5)

(* _token_gates, over the ok receipts: usage that is not reported passes.  *)
TokenGates(rs) ==
  \A i \in Completed(rs, DOMAIN rs) :
    /\ rs[i].prompt_tokens # None /\ InputTokens # 0 =>
         20 * Abs(rs[i].prompt_tokens - InputTokens) <= InputTokens
    /\ rs[i].completion_tokens # None => rs[i].completion_tokens = OutputLen

(* Slip: failures are counted window by window.                            *)
ZeroFailureOfWindows(rs) == \A w \in Windows : FailedOf(rs, InWindow(rs, w)) = 0

ZeroFailure(rs) == FailedOf(rs, DOMAIN rs) = 0

(* evaluate_windows(...)["overall"]["pass"] *)
EvaluateWindows(rs) ==
  /\ CvOk(rs)
  /\ DriftOk(rs)
  /\ ZeroFailure(rs)
  /\ CompletedOf(rs, DOMAIN rs) >= MinCompleted
  /\ TokenGates(rs)

(* run_closed_loop, its first while: answers are thrown away.              *)
Warm ==
  /\ loop = "windows" /\ phase = "warmup"
  /\ clock < WarmupS
  /\ \E d \in ServiceTimes : clock' = clock + d
  /\ UNCHANGED <<loop, phase, meas, result, a1>>

(* mstart is taken when the last warmup request has ended.                 *)
BeginMeasure ==
  /\ loop = "windows" /\ phase = "warmup"
  /\ clock >= WarmupS
  /\ phase' = "measure"
  /\ clock' = 0
  /\ UNCHANGED <<loop, meas, result, a1>>

MayFire == clock < MeasureS /\ (MaxRequests = 0 \/ Len(meas) < MaxRequests)

(* Slip: the request starts as long as max_requests allows.                *)
FireLate(d, r) ==
  /\ loop = "windows" /\ phase = "measure"
  /\ Len(meas) < MaxRequests
  /\ clock' = clock + d
  /\ meas' = Append(meas, [r EXCEPT !.measure_ts = clock'])
  /\ UNCHANGED <<loop, phase, result, a1>>

Fire(d, r) ==
  /\ loop = "windows" /\ phase = "measure"
  /\ MayFire
  /\ clock' = clock + d
  /\ meas' = Append(meas, [r EXCEPT !.measure_ts = clock'])
  /\ UNCHANGED <<loop, phase, result, a1>>

JudgeWindows ==
  /\ loop = "windows" /\ phase = "measure"
  /\ ~MayFire
  /\ phase' = "judged"
  /\ result' = EvaluateWindows(meas)
  /\ UNCHANGED <<loop, clock, meas, a1>>

(***************************************************************************)
(* closedloop.py                                                           *)
(***************************************************************************)

InLoop ==
  /\ loop = "rounds" /\ phase \in {"warmup", "measure"}
  /\ rnd < WarmupRounds + MeasureRounds

Batch == Shapes[si].batch
InFlight == (1 .. started) \ DOMAIN recs
Usage(field) == {recs[i][field] : i \in DOMAIN recs} \ {None}

(* The largest usage any receipt of the batch reports; without one (or     *)
(* with 0) the declared length.                                            *)
TokensOr(field, declared) ==
  IF Usage(field) \subseteq {0} THEN declared ELSE Max(Usage(field))

(* The tasks pass the semaphore in the order they were created.            *)
Admit ==
  /\ InLoop
  /\ started < Batch
  /\ Cardinality(InFlight) < Concurrent
  /\ started' = started + 1
  /\ UNCHANGED <<loop, phase, clock, meas, rnd, si, recs, stats, result>>

Finish(i, r) ==
  /\ InLoop
  /\ i \in InFlight
  /\ recs' = [j \in DOMAIN recs \cup {i} |-> IF j = i THEN r ELSE recs[j]]
  /\ UNCHANGED <<loop, phase, clock, meas, rnd, si, started, stats, result>>

BatchDone == InLoop /\ DOMAIN recs = 1 .. Batch

Tagged == [i \in 1 .. Batch |-> [recs[i] EXCEPT !.round = rnd + 1, !.shape = Shapes[si]]]

StatsRow ==
  [round |-> rnd + 1, shape |-> Shapes[si], requests |-> Batch,
   completed |-> CompletedOf(recs, 1 .. Batch),
   failed |-> FailedOf(recs, 1 .. Batch),
   prompt_tokens |-> TokensOr("prompt_tokens", Shapes[si].input_len),
   completion_tokens |-> TokensOr("completion_tokens", Shapes[si].output_len)]

(* What the loops over rounds and shapes turn to.                          *)
NextBatch ==
  /\ started' = 0
  /\ recs' = <<>>
  /\ IF si < Len(Shapes) THEN si' = si + 1 /\ rnd' = rnd ELSE si' = 1 /\ rnd' = rnd + 1
  /\ phase' = IF rnd' >= WarmupRounds THEN "measure" ELSE "warmup"

(* Slip: warmup is told by the shapes done, not by the rounds.             *)
EndBatchCounted ==
  /\ BatchDone
  /\ IF phase = "measure" \/ si > WarmupRounds
     THEN meas' = meas \o Tagged /\ stats' = Append(stats, StatsRow)
     ELSE UNCHANGED <<meas, stats>>
  /\ NextBatch
  /\ UNCHANGED <<loop, clock, result>>

EndBatch ==
  /\ BatchDone
  /\ IF phase = "measure"
     THEN meas' = meas \o Tagged /\ stats' = Append(stats, StatsRow)
     ELSE UNCHANGED <<meas, stats>>
  /\ NextBatch
  /\ UNCHANGED <<loop, clock, result>>

(***************************************************************************)
(* mfu.py: the FLOPs of a shape are those of its completed requests, over  *)
(* the rounds in which any completed.                                      *)
(***************************************************************************)

(* Slip: a round counts with all of its requests.                          *)
WorkSent(rows, sh) ==
  MapThenSumSet(LAMBDA k : rows[k].requests, {k \in DOMAIN rows : rows[k].shape = sh})

Included(rows, sh) == {k \in DOMAIN rows : rows[k].shape = sh /\ rows[k].completed > 0}
Work(rows, sh) == MapThenSumSet(LAMBDA k : rows[k].completed, Included(rows, sh))

(* The main shape is the first declared one that has any.                  *)
MfuSummary(rows) ==
  LET counted == {k \in DOMAIN Shapes : Included(rows, Shapes[k]) # {}}
  IN  [main_shape |-> IF counted = {} THEN None ELSE Shapes[Min(counted)],
       work |-> [k \in counted |-> Work(rows, Shapes[k])]]

JudgeRounds ==
  /\ loop = "rounds" /\ phase \in {"warmup", "measure"}
  /\ ~InLoop
  /\ phase' = "judged"
  /\ result' = MfuSummary(stats)
  /\ UNCHANGED <<loop, clock, meas, a1>>

(***************************************************************************)
(* run.py: _scan's choice, and the loop as a whole.                        *)
(***************************************************************************)

Init ==
  /\ loop \in {"windows", "rounds"}
  /\ phase = IF loop = "rounds" /\ WarmupRounds = 0 THEN "measure" ELSE "warmup"
  /\ clock = 0
  /\ meas = <<>>
  /\ rnd = 0 /\ si = 1 /\ started = 0 /\ recs = <<>> /\ stats = <<>>
  /\ result = None

Ended == {"judged", "raised"}

(* An exception out of a request ends the loop; nothing is judged.         *)
Raise ==
  /\ phase \notin Ended
  /\ phase' = "raised"
  /\ UNCHANGED <<loop, clock, meas, result, a1>>

Proceed ==
  \/ Warm
  \/ BeginMeasure
  \/ \E d \in ServiceTimes, r \in Answers : Fire(d, r)
  \/ JudgeWindows
  \/ Admit
  \/ \E i \in InFlight, r \in Answers : Finish(i, r)
  \/ EndBatch
  \/ JudgeRounds

Next == Proceed \/ Raise

Spec == Init /\ [][Next]_vars

(***************************************************************************)
(* Properties.                                                             *)
(***************************************************************************)

TypeOK ==
  /\ loop \in {"windows", "rounds"}
  /\ phase \in Ended \cup {"warmup", "measure"}
  /\ clock \in Nat
  /\ rnd \in 0 .. WarmupRounds + MeasureRounds
  /\ si \in DOMAIN Shapes
  /\ started \in 0 .. Batch
  /\ DOMAIN recs \subseteq 1 .. started
  /\ Cardinality(InFlight) <= Concurrent

(* window.py:96: a request that starts in time may end too late.  Where    *)
(* the windows cover the measured time, at most one receipt lies in no     *)
(* window, and it is the last.                                             *)
AtMostOneOutside ==
  WindowCount * WindowS >= MeasureS =>
    \A i \in DOMAIN meas :
      loop = "windows" /\ (\A w \in Windows : i \notin InWindow(meas, w)) => i = Len(meas)

(* What a pass of the windows means, whatever window a receipt fell into:  *)
(* no window without a completed request, and no failed request anywhere,  *)
(* in the windows or after them.                                           *)
PassMeansSteady ==
  (loop = "windows" /\ phase = "judged" /\ result) =>
    /\ \A w \in Windows : CompletedOf(meas, InWindow(meas, w)) > 0
    /\ CompletedOf(meas, DOMAIN meas) = Len(meas)
    /\ Len(meas) >= MinCompleted

(* rounds_stats and the receipts tell the same story: the rows are the     *)
(* measured rounds in order, shape after shape, and each row's counts are  *)
(* those of the receipts tagged with its round and shape.                  *)
StatsDescribeReceipts ==
  loop = "rounds" =>
    /\ \A k \in DOMAIN stats :
         LET own == {i \in DOMAIN meas : /\ meas[i].round = stats[k].round
                                         /\ meas[i].shape = stats[k].shape}
         IN  /\ stats[k].round = WarmupRounds + 1 + ((k - 1) \div Len(Shapes))
             /\ stats[k].shape = Shapes[((k - 1) % Len(Shapes)) + 1]
             /\ stats[k].requests = Cardinality(own)
             /\ stats[k].completed = CompletedOf(meas, own)
    /\ phase = "judged" => Len(stats) = MeasureRounds * Len(Shapes)

(* The work MFU is computed from is that of the measured requests that     *)
(* completed, shape by shape, and the main shape is the first declared one *)
(* with any: neither warmup nor failed requests count (mfu.py:139).        *)
MfuCountsWorkDone ==
  (loop = "rounds" /\ phase = "judged") =>
    LET done(k) == Cardinality({i \in Completed(meas, DOMAIN meas) : meas[i].shape = Shapes[k]})
        worked  == {k \in DOMAIN Shapes : done(k) > 0}
    IN  /\ result.work = [k \in worked |-> done(k)]
        /\ result.main_shape = IF worked = {} THEN None ELSE Shapes[Min(worked)]
=============================================================================
