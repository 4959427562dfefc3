# Verification of vllm-benchkit

TLA+ models of vllm-benchkit, the harness that benchmarks and accepts vLLM on
Ascend: what is modelled, what TLC checks, what TLAPS proves, and what is left.
File names are relative to the repository; line numbers refer to the commit the
project is kept beside.

## 1. The system

A *profile* (cell and precision) is expanded from layered YAML, its receipt gates
are checked, a vLLM server is launched, a client sends a seeded sequence of
requests and records one receipt each, the receipts are judged, the judgements
are gathered into an evidence file, and several such lifecycles are aggregated.

    config/*.yaml --acceptance.py--> profile --receipt.py--> gate
          |                                                   |
    scripts/acceptance.sh: launch, wait for health, client, stop (EXIT trap)
          |
    client/run.py: cases (C1) -> arrival times (C2)
          -> executor.run_scan | scheduler.run_mixed | window.run_closed_loop
             | closedloop.run_rounds          (asyncio, httpx, one receipt each)
          -> slo, fairness, isolation | oracle | metrics | roles | cost
          -> gate (Z3) -> evidence.json -> lifecycle aggregation (Z2)

### Inventory

| Component | State it keeps | Operations | What is hard | What makes it correct |
|---|---|---|---|---|
| `client/scheduler.py` `run_mixed` (A4) | semaphore per tenant, global semaphore, counters, histories, receipts | one task per arrival: two permits, sleep, send, record | interleaving of all tasks, nested semaphores, one failing task | limits kept, no deadlock, nothing early, nothing lost, even use of the cases |
| `client/executor.py` `run_scan` (A2) | semaphore, histories, receipts | one task per arrival of every segment | several requests of one conversation in flight, overlapping segments | order, back-pressure only when saturated, histories hold the answered turns |
| `client/executor.py` `execute_one` | timestamps, token count, finish reason | connect, read lines, verdict | streams that stall, break, lie or end early | latencies belong to tokens, `ok` means a whole answer, every request ends |
| `client/lifecycle.py`, `run.py` `_z2_aggregate` | records of lifecycles | repeat, aggregate, judge | repetitions, lifecycles that crash or lack the metric | nothing replaced, budget kept, loop and gate agree |
| `scripts/acceptance.sh` | pidfile, server process, EXIT trap | `server`, `run`, `stop` | crashes, signals, servers that ignore SIGTERM or hang, two shells, one pidfile for several servers | no server stays behind a run, the right server is measured, `stop` stops |
| `client/run.py` `_scan_mixed` | phase, results per point | capacity scan, isolation baseline, warmup, formal load | phases feed each other, empty results | formal load only from a compliant point, verdict from all phases |
| `client/arrival.py`, `cases.py` | none (seeded) | draw times, generate cases | boundary values, order of rounds | determinism, shares, order |
| `client/window.py` (A3) | warmup and measured receipts | serial loop, split into windows | requests across the end of a window | each receipt in one window, drift and CV |
| `client/closedloop.py` (A1) | receipts per round | batches behind four permits | barrier per round, token fallbacks | every round complete |
| `client/slo.py`, `fairness.py`, `oracle.py` | none | judge receipts | roundings, empty groups, undeclared rates | fail-closed |
| `client/gate.py` (Z3), `metrics.py`, `roles.py` | none | combine evidence | missing evidence | fail-closed |
| `src/receipt.py`, `scripts/prepare.sh` | registry, dataset files | download, materialise, gate | interrupted downloads, stale registry, two subcommands that write one file | ready means present |
| `src/acceptance.py` | none | merge, validate, expand | override order | 15 profiles, deterministic |
| `client/cost.py`, `mfu.py`, `a1_peak.py`, `msprof_reconcile.py` | none | formulas | floating point | - |
| `deploy.sh`, `bootstrap.sh`, `bench.sh`, `profile.sh`, probes, mkdocs | files | run one external tool | - | - |

Components interact by calls inside one process (`run.py`), by files between
processes (receipts, `evidence.json`, registry, pidfile), and by HTTP with the
server.  All concurrency of the client is cooperative, on one asyncio loop; the
shell scripts are concurrent with servers, signals and each other.

## 2. Modules

| Module | Models | State and actions |
|---|---|---|
| `AsyncSemaphore` | `asyncio.Semaphore` of Python 3.11 (`requires-python >=3.11,<3.12`), external to the repository | operators on a record: free permits, queue, waiters already served |
| `RunMixed` | `scheduler.run_mixed` 143-221 with `executor._update_history` | one action per stretch of `fire()` between two awaits; `ready` is the loop's FIFO of callbacks; `TimerFires`, `ServerAnswers`, `Tick` are the environment |
| `TenantPool` | nothing in the code: what `run_mixed` and `run_scan` promise | requests are waiting, in flight, recorded or lost |
| `RunScan` | `executor.run_scan` 291-343 | as `RunMixed`, one semaphore, cases by position in the segment |
| `ExecuteOne` | `executor.execute_one` 131-270, `_extract_chunk` | one action per kind of line or end of the stream; `lastByte` is when httpx's current wait began |
| `Lifecycles` | `lifecycle.py`, `run.py` 230-272 | `RunOnce` and `JudgeLoop` for the loop; `OperatorRuns` and `Z2Command` for the directory |
| `ServerHarness` | `acceptance.sh` 77-196 | one action per command that changes or reads shared state, for each invocation; servers (which may crash, hang, or ignore SIGTERM) and Ctrl-C are the environment |
| `Receipts` | `common.py` 34-57 and the verdict sets of `slo.py` | operators on lists of receipts: completions, latencies, percentile by interpolation, median |
| `Verdicts` | `slo.py`, `fairness.py`, `scheduler.py` 224-320 | operators: the gates of a bucket, of a rate, shape, tenant, of a scan point and of the formal load |
| `Scan` | `run.py` `_scan` 275-319, `_scan_mixed` 322-460, the writes of `_finalize`, `arrival.py` caps, `scheduler.py` 33-154 | `phase` is the `run_mixed` or `run_scan` under way, `pending` its outstanding requests, which end in any order and with any receipt; the phases' loads are computed from the verdicts before them; each file is a step |
| `ClosedLoop` | `window.py`, `closedloop.py`, `mfu.py` 103-174, `run.py` 463-572 | `Warm`, `Fire` for the serial loop; `Admit`, `Finish`, `EndBatch` for rounds behind the semaphore |
| `Evidence` | `run.py` `_finalize` 148-227, `oracle.py`, `metrics.py`, `collect_metrics.py`, `gate.py`, `acceptance.sh metrics` | two collectors read log, /metrics, samples and /proc one after the other, while the server falls back, prints its counter again and again, and dies |
| `Contract` | `acceptance.py`, `roles.py`, `cases.py`, the gates of `receipt.py` | operators: expansion, smoke, argv, roles, the gates that need no file, case lists |
| `Prepare` | `prepare.sh`, `receipt.py` against the registry, `common.load_subset`, `cases.generate_cases` | one action per file operation of any subcommand, `Abort` anywhere; the measurement moves between them |
| `SharedLemmas`, `RunMixedProofs`, `RunScanProofs`, `ScanProofs`, `ClosedLoopProofs` (also `ExecuteOne`), `EvidenceProofs` (also `Lifecycles`), `ServerHarnessProofs`, `PrepareProofs` | - | theorems (section 4) |
| `Requests`, `Repetitions` | - | instances of `ExecuteOne` and `Lifecycles` under names of their own, which TLC runs and the proofs of `ClosedLoop` and `Evidence` stand beside |
| `MC...` | - | instances for TLC; `Requests`, `Repetitions` and `Lifecycles` need only numbers and are run as they are |

How they compose: `RunMixed` and `RunScan` use the operators of `AsyncSemaphore`,
and each contains an instance of `TenantPool` with the refinement mapping
(`AbstractStatus`).  `Scan`, `ClosedLoop` and `Evidence` stand on `Receipts`;
what they take of a running phase (every request sent ends with one receipt, in
any order) is what `RunMixed!ReturnsAllReceipts` and `ExecuteOne!AlwaysEnds`
show of it.  `Scan` composes `Verdicts` with the phases, `Prepare` composes
`Contract` with the files.

Conventions: variables and operators keep the names of the code; variables that
no code sees (`arrivals` and `reasons` in `ExecuteOne`, `runs` in `Lifecycles`, `measured`
in `ServerHarness`, `fallbacks` and `told` in `Evidence`) say so where they are declared.  Definitions introduced by
*Slip:* are variants of the definition after them that a mistake in the code could
give; nothing uses them except the sensitivity tests recorded in `PROJECT.json`,
which put one in place of the original and expect the property to fail.

### Atomicity

A coroutine is not interrupted between two awaits, so an action of `RunMixed` and
`RunScan` is the code between two awaits.  `async with sem` suspends only if the
semaphore is locked; `asyncio.sleep` and `execute_one` always suspend.  Callbacks
that only schedule another callback (timer to future to task) are folded into the
step that causes them.  When one task raises, `gather` raises in `run_mixed`,
`asyncio.run` cancels the rest and the process ends: this is `FinishGather`.

In `ServerHarness` each read or write of the pidfile is a step of its own, because
other shells and servers move in between.  SIGKILL ends a server at once.  Process
ids are not reused, and every invocation has a run directory of its own (the code
names it to the second).

In `Scan` a phase is atomic in its start and in its judgement, not in between; every
result file is a step, and `Raise` may come at any of them.  In `Evidence` each
source a collector reads is a step, and the file it writes is opened (emptied)
before it is written.  In `Prepare` a download is interrupted between and inside
records, a subset likewise between and inside lines; a manifest is written in the
step that ends its subset, as nothing reads it between.  The registry is opened
before it is written; a reader meanwhile finds no JSON and takes it for empty
(`receipt.py:53`).

### Abstractions

Messages are their role, tenant and case; tokens are their times; the clock is a
number.  In `ExecuteOne` a line is what the client makes of it (text, fragments of
tool calls, finish reason).  In `Verdicts` latencies are whole milliseconds and
percentiles hundredths, so that the interpolation of `percentile` is exact; shares
are percent, ratios are compared by cross-multiplication; the thresholds 1000 and
0.99 of `slo.py` are `ErrorSample` and `CompletionPct`.  In `Evidence` a log is what
the parsers find in it and an answer is the outcome of the oracle's elementary
checks; of the counters it is a list, of which `FellBack` looks at the first as
`re.search` does.  In `Contract` a served name is the precision it names or the
placeholder, and a configuration is section -> field -> value, a record is its
index, a hash is what it is taken of.  Request bodies, JSON, receipts' copied fields
and log output are left out.

## 3. Runs

Bounds are small, but each instance contains the case it is for.

| Run | Instance | Shows |
|---|---|---|
| `mixed` | 6 arrivals, 2 tenants that share a session id, 2 global and 2 tenant permits, clock 0..2 | safety of `run_mixed`, refinement of `TenantPool`, and under fairness its end; both queues form, permits are handed over while served waiters have not run, requests sleep with permits (within a tenant only when nobody who is due waits), tasks raise |
| `scan` | 2 segments that overlap in time, 5 arrivals, a session shared by cases, 2 permits | safety of `run_scan` and refinement |
| `execute` | timeout 2, at most 3 lines, up to 2 fragments a line | timing, verdict and end of one request |
| `lifecycles` | 3 required, 2 retries, metrics 1, 2, 4 or missing | the shipped limits, all outcomes |
| `harness` | a run that a second shell stops, then the documented server, run and stop (`how-to-run.md` 3.2-3.5); failures, hangs and Ctrl-C | clean-up, who is measured, what `stop` stops, end of every command |
| `orchestration` | 9 cells: poisson with right, no and wrong caps, and without `slo`; mixes without `slo`, with two, one and no capacity points, with and without warmup, even and 92:8 shares; fast, slow and failed answers; `ErrorSample` 2 and `CompletionPct` 50, so that both error rules and both roundings occur with at most 5 requests | what exit code 0, each file and a pass stand for, that failures never help |
| `closed` | 3 windows of 4 ticks, requests of 2, 3 or 5 ticks (so a request can end on, before and beyond a border), 4 at most; 2 shapes, batches 3 and 1 behind 2 permits, 1 + 2 rounds | attribution of receipts, gates over windows, rows and receipts agree, work of MFU |
| `evidence` | 9 profiles (compiled, eager, quantised, monitored, with, without and with an unreadable log, with an operator's file), up to 3 requests, a fallback, up to 2 prints of its counter | what passing evidence stands for, the quality rates, the qualification |
| `prepare` | 4 measurements that differ in what they load, 2 subsets with a source (one JSON, one JSON lines) and 3 without, every subcommand, the ShareGPT download and the sharegpt subset one file as `config.yaml:32` ships it, one killed run, any number of reruns with and without FORCE=1 | registry, repair and data |
| `profiles` | 14 measurements, one of every cell and ill-formed ones (quantised twice, misnamed, unfrozen, incomplete); no model directory, the download in a file of its own | expansion, smoke, argv, gates, roles, case lists |

The rule of `FailureNeverHelps` is evaluated on every prefix of a phase, that is, on
all lists of receipts of the bounded length.

Properties with several named parts (`HistoryIsLog`, `PassIsWitnessed`,
`QualityNeverGains`, `RegistryIsTrue`, `ProfileConsistent`) are conjunctions: TLC
checks each part.  What a pass of the whole run stands for is `PoissonPassIsEarned`
for the cells of one load and `MixedPassIsEarned` for the A4 cell.  Every component
states the types of its variables as `TypeOK`, and each of them is proved (`TypeCorrect`
of the `...Proofs` module; `RequestsTyped` for `ExecuteOne`, `LifecyclesTyped` for
`Lifecycles`).  `RunMixed!ConcurrencyBounded`, `NeverEarly`,
`ReturnsAllReceipts` and `FullLoadReached`, `RunScan!PromptIsPrefix` and `Lifecycles!EveryRunKept` are
proved (section 4) and therefore need no run.

Two runs each show a disagreement between the repository's words and its code; TLC gives
the behaviour.

| Run | The repository says | The code does |
|---|---|---|
| `lifecycles_command` | `run.py:237` returns 0 or 1 | KeyError (`lifecycle.py:106`) |
| `judge_shapes` | `slo.py:4` each rate completes 99 % of its `request_cap` | each input length of the rate is asked for the whole cap (`slo.py:64`, `:158`), so that a perfect run of a cell with two lengths fails |

### Configurations for single questions

These are kept beside the runs.  `MCRunMixedBaseline.cfg` has one tenant, `full_load`, a
tenant limit of 1 and a global limit of 3, and shows that the isolation baseline reaches
the global limit (`RunMixed!FullLoadReached`, proved in section 4).  With each of the others
TLC refutes one statement of the repository and prints the behaviour; the properties of
the runs are worded so that they say what does hold there.

| Configuration and property | The repository says | The code does |
|---|---|---|
| `MCRunScanHistory.cfg` `RunScan!HistoryOnlyAfterSuccess` | `executor.py:278`: user and assistant are appended after a success | the user turn is appended first, whatever the verdict (`:283`) |
| `MCRunScanRounds.cfg` `RunScan!RoundsAccumulate` | `executor.py:10`: sessions accumulate their history, the contract guarantees the order of rounds | a round is sent when it has a permit, its predecessor answered or not (`:321`) |
| `MCRequestsTokens.cfg` `ExecuteOne!TokensAreKept` | `executor.py:8`: the number of output tokens is kept, errors and timeouts too | a request that ends by error or timeout reports 0 tokens although some arrived (`:247-256`, `:236`) |
| `MCServerHarnessOwn.cfg` `ServerHarness!OwnServerMeasured` | `acceptance.sh:11`: run is server, client and clean-up; `how-to-run.md` 3.2, 3.3: `server`, then `run` on its port | the first server answers `health_wait` (`:105`), and the client |
| `MCServerHarnessStop.cfg` `ServerHarness!StopStops` | `acceptance.sh:12`: `stop` stops the profile's server; `how-to-run.md` 3.5 | the pidfile named the run's server (`:96`), whose stop removed it: the first server lives on |
| `MCScanNoSlo.cfg` `Scan!OnlyLatencyIsSkipped` | `slo.py:131`: without `workload.slo` the latency gate is skipped | completions, failures and undeclared rates are not judged either (`:128`) |
| `MCEvidenceFallback.cfg` `Evidence!FallbacksAreRefused` | `metrics.py:142`, `:166`: M1 is fail-closed and refuses fallbacks | only the first counter of the log is read (`:62`) |
| `MCPrepareDataset.cfg` `Prepare!ReadyIsTheSubset` | `common.py:103`: `datasets/<name>.jsonl` is the fixed subset `prepare.sh subsets` made | with `config.yaml:32` `prepare.sh dataset` writes the raw download there (`:54`), the registry still calls it ready |

### Other divergences seen in the models

The models contain the behaviour; no property states it.

Requests and sessions:

* `executor.py:326`, `scheduler.py:210`: `sendlag_s` is taken after the answer and
  contains the service time (`executor.py:13`: send time minus nominal).
* `executor.py:337`: every segment starts again at `cases[0]` while `sessions`
  lives for the whole scan, so sessions (16 of 4 rounds, `a2-dialogue.yaml:2`) are
  replayed on top of their old history (`RunScan!CaseNo`).
* `executor.py:338`: the tasks of all segments are created at once; nothing
  drains a segment before the next (`arrival.py:6` speaks of drain and cooldown).
  `drain_cooldown_s`, `point_gap_s` and `gap_s` are never waited for.
* `executor.py:320`: segments may overlap in time, as `arrival.py` draws
  inter-arrival times until the cap is reached; then late tasks of one segment
  sleep inside the semaphore while due requests of the next wait, although the
  concurrency is not saturated.  `WaitsOnlyWhenSaturated` names this exception (a
  holder of an earlier segment) and shows that it is the only one.
* `scheduler.py:196`: the global semaphore is taken in the order in which the
  tenants let their requests through, so a request that sleeps until its nominal
  time may hold a global permit that a due request of another tenant waits for.
  Within a tenant this cannot happen (`DuePermitsOnly`).
* `executor.py:177`: `timeout_s` limits each wait of httpx, not the request
  (line 19 says per request); see `lastByte` in `ExecuteOne`.
* `closedloop.py:26`: a batch of up to 32 goes through four permits, where line 25
  says it is sent together (`ClosedLoop!Admit`).  Receipts are written batch by
  batch: those of a batch that raises are lost.
* `cases.py:269`: a multi-turn tool case of A4 has only its round 0, and declares two
  (`Contract!Mixed`).

Judgement:

* `run.py:456`: in a mix without `workload.slo` the verdict of a tenant has no
  `completed`, and the summary ends with a KeyError after all files are written
  (`Scan!PrintFails`): such a cell never exits with 0.  All poisson and mixed cells of
  the repository declare `slo`; `schema.yaml:188` allows it and does not require it.
* `slo.py:64`: `int(cap * 0.99)` rounds down; in a cell with `slo.shapes` a declared
  rate without receipts is not judged at all (`Verdicts!EvaluateShapes`).
* `fairness.py`: ten or more tenants of at most a tenth each pass with no token
  produced; `NobodyStarves` says under which condition they do not.
* `scheduler.py:285`: a tenant whose baseline has no sample is not compared.
* `run.py:115`: `max_compliant_rate` of a cell with shapes may be a rate whose other
  bucket fails.
* `run.py:141`: `by_kind` is asked for `tool_` and `long_`, which no kind is
  called.  The primary metrics of some cells (dialogue, long, A4) are keys that
  `_mode_metrics` never writes, so Z2 cannot pass there.
* `run.py:186`: the cost counts the tokens of failed receipts.
* `mfu.py:16`: declared lengths are not to stand in for usage; `closedloop.py:85`
  lets them.
* `run.py:163`, `gate.py:40`: evidence that is missing is not applicable, and
  passes (`gate.py:20`: missing fails).  The SHA binding compares arguments with
  themselves.  `z3` does not enter the exit code, and the SLO verdict does not
  enter `z3`.  An eager cell whose serve log cannot be read has 0 captures.
* `roles.apply_role`, `diff_roles`, `oracle.w8a8_qualification` are called by the
  self-test only; the models check them on configurations that pass the gates.

Files and servers:

* `lifecycle.py:133`: the gate counts valid lifecycles, the median is over those
  that have the metric, so it may be over fewer than required.
* a rerun into the same `--out` leaves the old `evidence.json` while it runs and
  when it fails (`EvidenceMeansComplete` is about a directory that was empty).
* `acceptance.sh:191`: the EXIT trap is set before the gate; a run that its gate
  refuses stops whatever server the pidfile names, an earlier `server` included.
* `acceptance.sh:105`: `curl` has no `--max-time`, and `STARTUP_TIMEOUT` is compared
  between two calls of it (106): a server that accepts and does not answer holds
  `health_wait` for ever.  `EveryInvocationEnds` names this exception.
* `acceptance.sh:118`: a server that died by itself is "not running", and its
  children are not looked for (they are stopped at 125 only beside a living parent).
  The models know no children.
* `acceptance.sh:137`: `rm -f` of the pidfile does not look whom it names; with
  two shells it can remove that of the next run.
* `acceptance.sh:93`: Ctrl-C between the launch and the pidfile (line 96) leaves
  a server; `Interruptible` of the run `harness` leaves these two steps out.
* `prepare.sh:121`: a download that was cut off is taken for complete until FORCE=1.
  A JSON-lines source cut at the end of a line is read as a shorter source, and the
  registry calls the subset ready (`SuccessIsCoherent` is relative to what was read;
  `RecoversWithForce` needs FORCE=1).
* `prepare.sh:48`: `dataset` after `subsets` takes the subset's file for its download
  and skips; `subsets` after `dataset`, as in `all`, replaces the download
  (`Prepare!Shared`).
* a subset that came out empty is ready too, and `cases._wrap` then divides by zero
  (`Prepare!Build`).
* `prepare.sh:159` writes id, content and hash only; tool and schema cases therefore
  always use the built-in fallbacks (`a2-tool.yaml:2` speaks of real tools).
* `acceptance.py:173` says `structured_outputs_backend` is not rendered; 137 renders
  it.

### Fairness

* `RunMixed!Fairness`: the loop runs what is ready, timers fire, the clock moves,
  and every stream ends.  The last is justified by `ExecuteOne!AlwaysEnds` (a
  silent server is cut off by the read timeout) and by `max_tokens`, which bounds
  the lines of a stream.
* `ExecuteOne!FairSpec`: the clock moves and an expired timeout is delivered.
  Nothing is assumed of the server.
* `ServerHarness!FairSpec`: a shell goes on, `bench.sh` ends, and the two waits
  are limited by `STARTUP_TIMEOUT` and `STOP_TIMEOUT` - the first only while the port
  refuses (`HealthFails`), as `curl` itself waits for ever.  Nothing is assumed of
  servers: they may ignore SIGTERM, start for ever, or hang with the port.
* `Scan`, `ClosedLoop` and `Evidence` claim safety only: that they end is plain from
  the bounded number of requests, each of which ends by `ExecuteOne!AlwaysEnds`.
* `Prepare!FairSpec`: a script that runs goes on, and strong fairness of
  `prepare.sh all` with FORCE=1: an operator whose data stays broken uses the remedy
  that the script itself prints, some time.  The number of killed runs is bounded
  (`MaxAborts`), without which no run need ever end.

## 4. Proofs

The theorems hold for all values of the constants under the assumptions stated in
the modules.  Those assumptions are the types of what the contract and the
generators hand over: arrivals sorted by time (`arrival.py` sorts them, segment by
segment), pools of cases that are not empty, positive limits; for `Scan` the types of
a cell, which has shapes only where it declares `workload.slo` (`CellsAssumption`), and that a receipt carries the rate or tenant its request
was sent for and a number of tokens (`AnswersAssumption`: `executor.py` copies the
one from the request and counts the other), that the order of the isolation runs names
each tenant, and that the error gate tolerates one failure in at least two receipts
(the code's 1000); for
`Evidence` the types of a profile, that a server that answers does not refuse the
connection, and that the monitor's lines and the prints of
the fallback counter are bounded by numbers (`BoundsAssumption`); for `ClosedLoop` that
shapes and windows are positive numbers as the contract declares them and that a
receipt has the types `execute_one` gives it (`AnswersAssumption`); for `Prepare` that
the layers of a configuration fit together (below); for `Lifecycles` the types of its
limits; for `ExecuteOne` that its timeout and its bound on lines are numbers.

| Theorem | Property |
|---|---|
| `RunMixedProofs!PermitsAreConserved`, `ConcurrencyIsBounded` | `PermitsConserved`, `ConcurrencyBounded` |
| `RunMixedProofs!NoPermitIsIdle`, `DueRequestsGoFirst`, `BaselineReachesFullLoad` | `NoIdlePermit`, `DuePermitsOnly`, `FullLoadReached` |
| `RunMixedProofs!NothingIsEarly`, `AllReceiptsReturned`, `ConversationsStayApart`, `PoolsAreUsedEvenly` | `NeverEarly`, `ReturnsAllReceipts`, `PromptIsOwnSession`, `PoolUsedEvenly` |
| `RunMixedProofs!RunMixedImplementsPool` | `ImplementsTenantPool` |
| `RunScanProofs!OvertakingIsBounded`, `WaitingMeansSaturated`, `PromptsArePrefixes`, `HistoriesAreLogs` | `OvertakingBounded`, `WaitsOnlyWhenSaturated`, `PromptIsPrefix`, `HistoryIsLog` |
| `RunScanProofs!RunScanImplementsPool` | `ImplementsRequestPool` |
| `EvidenceProofs!RunsAreKept`, `BudgetIsRespected`, `LoopAndGateAgree` (of `Repetitions`) | `EveryRunKept`, `BudgetRespected`, `RetryRuleNeverDecides` |
| `ClosedLoopProofs!LatenciesAddUp`, `OkAnswersAreWhole` (of `Requests`) | `TimingAddsUp`, `OkIsWholeAnswer` |
| `ClosedLoopProofs!MfuCountsItsWork`, `OneReceiptOutside` | `MfuCountsWorkDone`, `AtMostOneOutside` |
| `ClosedLoopProofs!RowsDescribeReceipts` (if `DistinctShapes`), `PassesAreSteady` (up to 400 windows) | `StatsDescribeReceipts`, `PassMeansSteady` |
| `ScanProofs!EvidenceIsComplete`, `FormalStaysBelowCapacity`, `PassesBoundTheTail`, `PoissonPassesAreEarned`, `FailuresNeverHelp` | `EvidenceMeansComplete`, `FormalBelowCapacity`, `PassBoundsTheTail`, `PoissonPassIsEarned`, `FailureNeverHelps` |
| `ScanProofs!NobodyIsLeftOut`, `VerdictsAreOnDisk`, `MixedPassesAreEarned` (if each mixed cell has `FewTenants`) | `NobodyStarves`, `VerdictIsOnDisk`, `MixedPassIsEarned` |
| `EvidenceProofs!PassesAreWitnessed`, `QualityIsNeverGained` | `PassIsWitnessed`, `QualityNeverGains` |
| `ServerHarnessProofs!RunsLeaveNoServer`, `RunsMeasureWhoIsLeft`, `StopEndsTheLatest` (under `Disciplined`) | `NoResidue`, `MeasuredServers`, `StopsTheLatest` |
| `PrepareProofs!TheRegistryIsTrue`, `RealDataIsMeasured`, `SessionsInOrder` | `RegistryIsTrue`, `MeasuredOnRealData`, `RoundsInOrder` |
| `PrepareProofs!ProfilesAreConsistent` | `ProfileConsistent` |

### Shared lemmas

`SharedLemmas` states facts about numbers, positions of lists, finite sets and sums that
several proofs use, and what each semaphore operation does to the permits.

A sum over a set is a fold.  What a fold computes is found without induction over
data: `MapThenFoldSet` is defined by a function on the subsets, that function is
unique (`FoldIsUnique`), and two of them that agree on the empty set and at each step
agree everywhere, by a least counterexample among the sizes (`SameFold`).  From it:
the sum over a union of disjoint blocks (`BlocksAdd`), and the square of a sum
against the sum of the squares (`SquareOfSum`, Cauchy-Schwarz), from which Jain's
index and the coefficient of variation get their meaning.

The central notion of the semaphore lemmas is `Balanced`: free permits plus holders equal the limit, where
a waiter that was served but has not run is a holder; each operation preserves it
for the right change of holders.

### run_mixed

`RunMixedProofs` proves `TypeCorrect`, `PermitsAreConserved` and
`ConcurrencyIsBounded`.  None of the last two is inductive alone.  The inductive
invariant `IInv` adds to type correctness:

* `Accounts`: each semaphore is well formed and balanced; its queue holds exactly
  the tasks suspended at it; while somebody waits unserved, no permit is free or
  one is on its way.
* `ReadyQueue`: the loop's queue has no duplicates and holds exactly the tasks
  that can run: new ones, served waiters, and those whose timer or stream ended.
  Without it a task could run twice on one permit.
* `Stopped`: after the end nothing is ready and nothing in flight.

The second part is about who gets the permits.  `Accounts` allows a permit to be
free while a served waiter is still on its way, and says nothing of the order; its
invariant `Ordered` does:

* `Startup`: all tasks take their first step in their order before any permit of a
  tenant comes back, because all were created, and so are ready, before the first
  of them runs.
* `GivenInOrder`: no permit of a tenant is kept back, its queue ascends, and the
  tasks without a permit (`Outside`) are an upper part of the tenant's tasks.

As the arrivals are sorted, a task outside that is due has only due tasks before it,
which gives `DuePermitsOnly`.

The third part proves that `run_mixed` implements `TenantPool`.  It first
shows that under `IInv` every step is one of a handful (`StepIsVisible`): a task
waits, sends when due, records, raises; the gather returns or gives up; time
passes.  `ReadyQueue` is what makes a woken sleeper due and a completed gather
complete.  The limits in the guard of the pool's `SendRequest` follow from
`ConcurrencyBounded` in the state after the send.  `Logged` (the receipts are
those of the done tasks, each once) gives the completeness of the result.  The same
handful of steps carries two more invariants: `OwnConversations` (a history, and so
a prompt, holds messages of its own tenant and session), and `RoundRobin` (a
tenant's counter is the number of its requests sent, and each case got the requests
whose number has its remainder), from which the even use follows by arithmetic.

### run_scan

`RunScanProofs` has the invariant `IInv`: `TypeOK`, `Accounts` and `ReadyQueue` as
above for one semaphore, `Startup` and `InOrder` (permits go to the tasks in their
order: what bounds overtaking), and `SentOnce`.  `WaitsOnlyWhenSaturated` follows
from `InOrder` and the order of times inside a segment.  That the answered turns of a
history are those of its session's receipts, in their order and each reply directly behind its
user turn, is proved by ranks: the entry that a receipt stands at is given by the
session's receipts before it, which a new receipt leaves alone.  The turns of failed
requests stand between them (`MCRunScanHistory.cfg`), so nothing is claimed of those.

### Scan

`ScanProofs` has the invariant `IInv`, over all phases:

* `WellTyped`, `Position`: what each phase has in hand (which keys are pending,
  which point or tenant is under way).
* `Written`: the files are the first ones of the order of `_finalize`, and nothing is
  written before the verdict is there and every request is answered.
* `Outcome`, `Accounts`: exit code 0 stands for the verdict, the verdict for the
  judgement of the receipts on disk, and each request of the load is outstanding or
  has exactly one receipt.  Without `Accounts` a pass would say nothing about requests
  that were never answered.

The order statistics behind `percentile` are proved from their definition: the
sorted list is determined by ranks (`SortedIsRanked`), the interpolated percentile
lies between two of its entries (`PercentileRank`), so at most the declared share of
receipts lies above it (`PercentileBoundsTail`).  Where an induction over lists would
be needed the proof takes a least counterexample (`LeastOfNaturals`,
`GreatestOfFinite`).  `FailuresNeverHelp` compares a judgement before and after one
more failed receipt: no latency changes (`SameLatencies`), completion and error
gates can only lose (`ErrorRule`, `EvaluatedBefore`).  `PoissonPassesAreEarned`
bounds the failed requests of a passing cell (`ShapesLeaveFew`, `MostComplete`), if the
cell declares `workload.slo`.  Without it `slo.py:128` judges nothing, and all a pass
says is that each rate's whole load was sent and its receipts are on disk.  For the same
reason `NobodyStarves` and the capacity scan of `PassBoundsTheTail` are about cells
that declare it; a mix without it never ends with exit code 0, as printing its summary
raises (`PrintFails`).
`FormalStaysBelowCapacity` is the rounding of `mixed_arrival`: the sum of the
ceilings against the capacity found (`CeilDivBound`, `PercentOfLoad`).

Three theorems rest on sums.  `JainLeavesNobodyOut`: an index of at least 0.9 leaves
no tenant with nothing where there are fewer than ten; with ten tenants nine equal
ones reach 0.9 alone, so the hypothesis `FewTenants` is needed (the mixed-tenant cell of
the repository has four of a quarter each).  A verdict on disk has its receipts counted bucket by
bucket: `VerdictsAreOnDisk` adds the sizes of disjoint sets (`SizesAddUp`).
`MixedPassesAreEarned` needs in addition what was judged before the formal load: the
second invariant (`Ledger`, `Baselines`, lemma `Kept`) keeps what each phase has
found until the verdict.

### Evidence

`EvidenceProofs` has the invariant `IInv`; its core is `Collected`: the run's own
collector reads after the load, so what it read in the log is still true when the
evidence is assembled, and if its last reading found the process alive then no
request was refused.  Of the fallback counters only the first is read; a log only grows,
so the first one stays (`FirstStays`), and a pass says that it was 0 - not that nothing
fell back afterwards (`MCEvidenceFallback.cfg`).  The readings of the operator's collector carry no such
promise, and the file they leave is read only where the profile names one.  The
rates of the quality oracle are shown to be monotone in the receipts that are spoilt
(`SpoiltRates`), which gives `QualityNeverGains`.

### Lifecycles

The theorems about `Lifecycles` stand at the end of `EvidenceProofs`, on its instance
`Repetitions!Z2`.  They follow from: records mirror lifecycles one by one, `valid` counts
those that were ok, the prefix before each lifecycle had fewer than required, and a
verdict is given only when the loop cannot go on.

### ClosedLoop

The invariant of `ClosedLoopProofs` adds to the types:

* `Serial`: in the loop of windows the last receipt is as old as the clock and all
  others lie inside the measured time, because another request was started after
  them; the verdict is that of the receipts.
* `Placed`: where the rounds are, as arithmetic: the row that is written next is number
  `(rnd - WarmupRounds) * Len(Shapes) + si`.
* `Tagging`: every receipt carries the round and the shape of some row, and the work
  in the rows of a shape is the number of its completed receipts.
* `Described`: each row counts exactly the receipts with its round and its shape.

`Described` is false where one shape is declared twice: the receipts of the two rows
cannot be told apart, each row then counts one batch and the tag both.  Hence
`DistinctShapes`, which the shapes of `a1.yaml` satisfy.  `MfuCountsWorkDone` needs no
such hypothesis: it sums over the rows of equal shape.

`PassMeansSteady` says that a pass has completed requests in every window, which no
line of `window.py` asks for: it follows from the bound on the coefficient of
variation.  One empty window of `n` gives at least `1 / sqrt(n - 1)`, so 0.05 excludes it up
to 400 windows (`SteadyLeavesNoneEmpty`, by `SquareOfSum` over the other windows); with
401 it does not, so the hypothesis is sharp.  The repository uses 6.

### ExecuteOne

Also in `ClosedLoopProofs`, on the instance `Requests!Request`: any stream, any number of lines
and any chunking.  `RequestInv` says that `prev` is the time of the last token, that the
gaps lead from the first token to it (`Leads`), and that a verdict exists only after the
return.  Two more parts relate what the client keeps to what the server sent: its counter
is the number of tokens that arrived (`Counted`), over chunks of several fragments and of
none, and its finish reason the last one sent (`Heard`).  From them an `ok` receipt
counts every token of the answer and bears the reason the answer ended with
(`OkAnswersAreWhole`).  `GapsBegin` and `GapsGrow` are the two cases of `_arrival`; a chunk with two tool-call
fragments adds two gaps at one moment, which is where a count of gaps would go wrong.

### ServerHarness

`TypeCorrect` holds for any operators.  The other three theorems assume
`Disciplined`, which says what one pidfile can bear.  A second shell only stops; while
one is still to come, a `server` is stopped by the next command, let to its end.
Afterwards, and where nothing overlaps, any commands follow in any order - among
them the documented `server`, `run`, `stop`.  Nobody interrupts a `stop`, or a
command between the launch and the writing of the pidfile (a server launched there is in
no pidfile).  The number of commands, the other interrupts, and what servers do are
arbitrary.  The instance TLC checks satisfies it (`InstanceIsDisciplined`).

Where several servers live, the pidfile knows one of them.  The theorems say
which: `StopEndsTheLatest` is about the server launched last, whoever launched it, and
`RunsMeasureWhoIsLeft` names whom a `run` can measure beside its own server - one of an
earlier `server` that no `stop` was for.  That a run measures its own server and that
`stop` leaves none alive is what the documents say and is false (`MCServerHarnessOwn.cfg`,
`MCServerHarnessStop.cfg`).  The inductive invariant adds:

* `InOrder`, `Staged`: which invocations are under way, and in which stages a command
  can be at all.
* `Owned`: the server launched last has its pid in the pidfile as long as it lives -
  from where `stop` takes it - or is about to write it there.
* `Stopping`: while somebody stops a server nobody launches one, and if the server
  launched last is alive its pid is what the `stop` took.  It is what makes a second
  `stop` beside the EXIT trap harmless.
* `Stopped`: between a server and a `stop` that it survived another was launched.

### Prepare

The assumptions are that the subsets have distinct names and that a source is a list
of records (`SubsetsAssumption`), and that `config.yaml` lists every subset a cell
loads and says whether there is a model directory and a dataset to download, and into which
subset's file, if into one (`FetchesAssumption`).  The invariant is about a
script that may be killed after any file operation:

* `Genuine`: a source never holds more than there is upstream, and each subset file,
  torn or left by a killed run, is the beginning of a pick of a beginning of its
  source.  `Begins` is preserved by each appended line (`NextBegins`); that a pick is
  a list of positions at all needs a record of every rank (`EveryRankIsTaken`, a
  counting argument).  The raw download of `prepare.sh dataset` in a subset's file is
  no list of records of that subset, so that a load of it raises.  What a measurement loads was such a file, which gives
  `MeasuredOnRealData` whenever it loads it.
* `Progress`: the subsets before the one in hand are done, all of them when the
  registry is written.
* `Registered`: a registry that can be read is the complete one, and a run of `all`
  or `subsets` that ended well left everything done.  A run of `dataset` that ended well
  may have overwritten a subset (`MCPrepareDataset.cfg`), so nothing is claimed of it.

`SessionsInOrder` assumes that the numbers of sessions, rounds and cases are naturals
and that a cell that passes the expansion has a generator (`CasesAssumption`).  It
rests on a property of lists of cases, `Chained`: a case of a later round directly
follows the round before it.  Chained lists can be joined (`ChainsJoin`), and each
list `cases.py` makes is chained; for the dialogues because the quotient and the
remainder of consecutive numbers go together (`RoundBefore`).  `Contracted` carries
from the gate to the generator that the configuration is one that was expanded.

`ProfilesAreConsistent` holds for all layers of configuration that fit together as
`LayersAssumption` says; each of its parts is a fact about the YAML files, which TLC
evaluates on the instance: a precision overlay consists of `meta` and `model` and quantises
exactly for W8A8 (`precision/*.yaml`); a cell's caps are those of its rates; and
`schema.yaml` requires the mode of the graphs, the one flag that is emitted without
asking whether it has a value.  The invariant, `Configured`, says that what passed
the gate was expanded from what was asked.  The rest is what the operators do:

* The overlay of the precision comes last and leaves the client's sections alone
  (`Layered`); a smoke run changes workload and timeouts only, by a rule in which the
  precision does not occur (`Smoked`).  Hence the same contract for each precision,
  and a server that quantises as asked whatever the cell's file says.
* A smoke run cuts the rates and computes the caps again from its own time at a rate,
  so they remain the caps of the rates (`CapsOfFirst`, `CapsFollowRates`).
* A role changes role fields only (`Applied`), and any other field that differs
  makes both the comparison and the identity differ (`RolesDiffer`), for every
  section and every field.

### Only model-checked

* Liveness (`Terminates`, `AlwaysEnds`, `EveryInvocationEnds`, `RecoversWithForce`):
  the prover does not handle `ENABLED`, and so no fairness.
* The runs that expect a violation, and the configurations for single questions.

## 5. Not modelled

Bodies and prompts (`build_request_body`, the texts of `cases.py`, `jcs.py`) and the
oracle's schema and text comparison are string processing.  The seeded draws of
`arrival.py` and `mixed_arrival` are data; their sizes are modelled.  `cost.py`,
`a1_peak.py`, `msprof_reconcile.py` and the FLOPs of `mfu.py` are closed formulas on
floats.  The profile name, YAML and `--help` output are text.  The
`client` command of `acceptance.sh` shares nothing with the others but the port.  Children of
a server that died by itself (`acceptance.sh:118-125`) are not modelled.
`_mode_metrics` copies values into a record (the keys that are missing are listed
above).  Environment probes, `deploy.sh`, `bootstrap.sh`, `bench.sh` and `profile.sh`
are I/O or installation.  The self-test inside `run.py` (lines 573-1244) is a test.

## 6. Plan

Every safety and action property of a passing run has a theorem.  What is left:
`Scan` over `RunMixed` itself instead of its outstanding requests: the product is
beyond TLC for more than two requests a phase.
