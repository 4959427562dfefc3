-------------------------------- MODULE Scan --------------------------------
(***************************************************************************)
(* run.py _scan and _scan_mixed: the orchestration of one measured run.    *)
(*                                                                         *)
(* A poisson cell is one run_scan over all its rates.  A mixed cell runs   *)
(* run_mixed again and again: once per capacity point, then once per       *)
(* tenant alone (the isolation baselines), then a warmup, then the formal  *)
(* load, each phase's load computed from the verdicts before it.  Then the *)
(* files are written one after the other, evidence.json last.              *)
(*                                                                         *)
(* RunScan and RunMixed show what happens inside a phase: here a phase is  *)
(* its outstanding requests, which end in any order and in any way.  Rates *)
(* of tokens and of requests are hundredths per second.                    *)
(***************************************************************************)
EXTENDS Verdicts

CONSTANTS
  Cells,        (* fields of Verdicts, and: per_rate_s (plain); order,     *)
                (* costs, isolation, points, factor, per_point_s,          *)
                (* isolation_s, warmup_s, formal_s (mixed)                 *)
  Answers(_, _) (* cell, rate or tenant -> the receipts a request may get  *)

Latencies == [ttft : Nat \cup {None}, tpot : Nat \cup {None}]

(* What a phase sends by: the rates of a poisson cell, the tenants of a    *)
(* mixed one.                                                              *)
Keys(c) == IF c.kind = "mixed" THEN Tenants(c) ELSE Rates(c)

LimitsTyped(th) ==
  /\ DOMAIN th.ttft \subseteq {"mean", "p95", "p99"}
  /\ DOMAIN th.tpot \subseteq {"mean", "p95", "p99"}
  /\ \A k \in DOMAIN th.ttft : th.ttft[k] \in Nat
  /\ \A k \in DOMAIN th.tpot : th.tpot[k] \in Nat

ASSUME CellsAssumption ==
  \A c \in Cells :
    /\ c.kind \in {"plain", "shapes", "mixed"}
    /\ c.slo \in BOOLEAN /\ (c.kind = "shapes" => c.slo)
    /\ IF c.kind = "shapes" THEN \A l \in DOMAIN c.limits : LimitsTyped(c.limits[l])
       ELSE LimitsTyped(c.limits)
    /\ c.kind # "mixed" =>
         /\ c.rates \in Seq(Nat)
         /\ c.caps \in Seq(Nat)
         /\ c.per_rate_s \in Nat
    /\ c.kind = "mixed" =>
         /\ c.shares \in [Tenants(c) -> 0 .. 100]
         /\ c.costs \in [Tenants(c) -> Nat \ {0}]
         /\ c.isolation \in [Tenants(c) -> Nat \cup {None}]
         /\ c.order \in Seq(Tenants(c)) /\ c.order # <<>>
         /\ \A t \in Tenants(c) : \E i \in DOMAIN c.order : c.order[i] = t
         /\ c.points \in Seq(Nat)
         /\ c.factor \in 0 .. 100
         /\ {c.per_point_s, c.isolation_s, c.warmup_s, c.formal_s} \subseteq Nat
         /\ \A T \in SUBSET Tenants(c) : None \notin [T -> Latencies]

(* A receipt carries the rate or the tenant its request was sent for.      *)
ASSUME AnswersAssumption ==
  \A c \in Cells : \A k \in Keys(c) : \A r \in Answers(c, k) :
    /\ r.verdict \in CompletedVerdicts \cup FailedVerdicts
    /\ r.ttft \in Nat \cup {None}
    /\ r.tpot \in Seq(Nat)
    /\ r.output_tokens \in Nat
    /\ IF c.kind = "mixed" THEN r.tenant = k ELSE r.rate = k

VARIABLES
  cell,      (* cfg *)
  phase,     (* the run_scan or run_mixed under way, or what came of it    *)
  at,        (* index of the capacity point or of the isolated tenant      *)
  pending,   (* rate or tenant -> requests of the phase without an answer  *)
  records,   (* receipts of the phase *)
  results,   (* scan_results: [token_rate, slo_compliant] per point        *)
  isolated,  (* b0_isolated *)
  verdict,   (* slo_pass of the run, None before it is judged              *)
  lines,     (* receipts file -> lines written                             *)
  files,     (* result files on disk                                       *)
  exit       (* exit code, None while running                              *)

vars == <<cell, phase, at, pending, records, results, isolated, verdict, lines, files, exit>>

Running == {"capacity", "scan", "isolation", "warmup", "formal"}
Ended == {"done", "raised"}

CeilDiv(a, b) == (a + b - 1) \div b

(***************************************************************************)
(* The loads: arrival.py and the contract half of scheduler.py.            *)
(***************************************************************************)

(* request_cap = ceil(rate * per_rate_s) *)
RequestCap(c, rate) == CeilDiv(rate * c.per_rate_s, 100)
ComputedCaps(c) == [i \in DOMAIN c.rates |-> RequestCap(c, c.rates[i])]

(* capacity_scan raises where declared caps differ.                        *)
ContractHolds(c) == c.kind # "mixed" => c.rates # <<>> /\ (c.caps # <<>> => c.caps = ComputedCaps(c))

CapacityLoad(c) == [rate \in Rates(c) |-> RequestCap(c, rate)]

(* mixed_arrival: ceil(request_rate * duration_s) requests of a tenant,    *)
(* request_rate = token_rate * share / cost_len.                           *)
Requests(c, t, token_rate, share, duration_s) ==
  CeilDiv(token_rate * share * duration_s, 10000 * c.costs[t])
MixedLoad(c, token_rate, duration_s) ==
  [t \in Tenants(c) |-> Requests(c, t, token_rate, c.shares[t], duration_s)]
IsolatedLoad(c, alone, token_rate, duration_s) ==
  [t \in Tenants(c) |-> IF t = alone THEN Requests(c, t, token_rate, 100, duration_s) ELSE 0]

FormalRate(c, b0_max) == c.factor * b0_max
IsolationRate(c, t, b0_max) == 100 * (IF c.isolation[t] # None THEN c.isolation[t] ELSE b0_max)

(***************************************************************************)
(* The phases.                                                             *)
(***************************************************************************)

Compliant(rs) == {rs[i].token_rate : i \in {i \in DOMAIN rs : rs[i].slo_compliant}}

(* Slip: the largest point scanned, compliant or not.                      *)
B0MaxScanned(rs) == IF rs = <<>> THEN 0 ELSE Max({rs[i].token_rate : i \in DOMAIN rs})

B0Max(rs) == IF Compliant(rs) = {} THEN 0 ELSE Max(Compliant(rs))

Begin(ph, i, load) ==
  /\ phase' = ph
  /\ at' = i
  /\ pending' = load
  /\ records' = <<>>

BeginFormal(b0_max) == Begin("formal", 1, MixedLoad(cell, FormalRate(cell, b0_max), cell.formal_s))
BeginLoad(b0_max) ==
  IF cell.warmup_s > 0 /\ FormalRate(cell, b0_max) > 0
  THEN Begin("warmup", 1, MixedLoad(cell, FormalRate(cell, b0_max), cell.warmup_s))
  ELSE BeginFormal(b0_max)
BeginScan(i) ==
  Begin("scan", i, MixedLoad(cell, 100 * cell.points[i], cell.per_point_s))
BeginIsolation(i, b0_max) ==
  LET t == cell.order[i]
  IN  Begin("isolation", i, IsolatedLoad(cell, t, IsolationRate(cell, t, b0_max), cell.isolation_s))

(* Where the scan goes on after its last capacity point.                   *)
AfterScan(b0_max) == IF b0_max > 0 THEN BeginIsolation(1, b0_max) ELSE BeginLoad(b0_max)

ReceiptFile == [capacity |-> "receipts", scan |-> "receipts-scan",
                isolation |-> "receipts-isolation", formal |-> "receipts-formal"]
ReceiptFiles == {ReceiptFile[ph] : ph \in DOMAIN ReceiptFile}

(* Slip: the evidence is written before what it rests on.                  *)
ResultFilesEvidenceFirst == <<"slo.json", "evidence.json", "contract.json", "quality.json",
                              "mechanisms.json", "gate.json">>

(* The summary of a mixed run prints tv['completed'] of every tenant, a    *)
(* key the verdict of a tenant without workload.slo does not have.         *)
Printable(c) == c.kind = "mixed" => c.slo

(* The order in which _scan and _finalize write.                           *)
ResultFiles == <<"slo.json", "contract.json", "quality.json", "mechanisms.json",
                 "gate.json", "evidence.json">>

Init ==
  /\ cell \in Cells
  /\ phase = "start" /\ at = 1
  /\ pending = <<>> /\ records = <<>>
  /\ results = <<>> /\ isolated = <<>>
  /\ verdict = None
  /\ lines = [f \in ReceiptFiles |-> 0]
  /\ files = {}
  /\ exit = None

(* The contract is generated, the receipts files are opened (and emptied). *)
Start ==
  /\ phase = "start"
  /\ ContractHolds(cell)
  /\ IF cell.kind # "mixed" THEN Begin("capacity", 1, CapacityLoad(cell))
     ELSE IF cell.points # <<>> THEN BeginScan(1)
     ELSE AfterScan(0)
  /\ UNCHANGED <<cell, results, isolated, verdict, lines, files, exit>>

(* A request ends; its receipt goes to the phase's file, if it has one.    *)
Answer(k, r) ==
  /\ phase \in Running
  /\ pending[k] > 0
  /\ pending' = [pending EXCEPT ![k] = @ - 1]
  /\ records' = Append(records, r)
  /\ lines' = IF phase \in DOMAIN ReceiptFile
              THEN [lines EXCEPT ![ReceiptFile[phase]] = @ + 1] ELSE lines
  /\ UNCHANGED <<cell, phase, at, results, isolated, verdict, files, exit>>

Gathered(ph) == phase = ph /\ \A k \in DOMAIN pending : pending[k] = 0

EndScanPoint ==
  /\ Gathered("scan")
  /\ results' = Append(results, [token_rate |-> cell.points[at],
                                 slo_compliant |-> EvaluateScanPoint(cell, records)])
  /\ IF at < Len(cell.points) THEN BeginScan(at + 1) ELSE AfterScan(B0Max(results'))
  /\ UNCHANGED <<cell, isolated, verdict, lines, files, exit>>

EndIsolation ==
  /\ Gathered("isolation")
  /\ LET t == cell.order[at]
     IN  isolated' = [s \in DOMAIN isolated \cup {t} |->
                        IF s = t THEN Baseline(records, DOMAIN records) ELSE isolated[s]]
  /\ IF at < Len(cell.order) THEN BeginIsolation(at + 1, B0Max(results))
     ELSE BeginLoad(B0Max(results))
  /\ UNCHANGED <<cell, results, verdict, lines, files, exit>>

(* Slip: the warmup's receipts stay in the list the formal load fills.     *)
EndWarmupKept ==
  /\ Gathered("warmup")
  /\ phase' = "formal"
  /\ pending' = MixedLoad(cell, FormalRate(cell, B0Max(results)), cell.formal_s)
  /\ UNCHANGED <<at, records, cell, results, isolated, verdict, lines, files, exit>>

EndWarmup ==
  /\ Gathered("warmup")
  /\ BeginFormal(B0Max(results))
  /\ UNCHANGED <<cell, results, isolated, verdict, lines, files, exit>>

(* The last phase is over: the files are closed and the run is judged.     *)
Judge ==
  /\ Gathered("capacity") \/ Gathered("formal")
  /\ verdict' = IF phase = "capacity" THEN Evaluate(cell, records)
                ELSE EvaluateFormal(cell, records, isolated)
  /\ phase' = "writing" /\ at' = 1
  /\ UNCHANGED <<cell, pending, records, results, isolated, lines, files, exit>>

Write ==
  /\ phase = "writing"
  /\ at <= Len(ResultFiles)
  /\ files' = files \cup {ResultFiles[at]}
  /\ at' = at + 1
  /\ UNCHANGED <<cell, phase, pending, records, results, isolated, verdict, lines, exit>>

(* The summary is printed and the verdict becomes the exit code.           *)
Exit ==
  /\ phase = "writing"
  /\ at > Len(ResultFiles)
  /\ Printable(cell)
  /\ phase' = "done"
  /\ exit' = IF verdict THEN 0 ELSE 1
  /\ UNCHANGED <<cell, at, pending, records, results, isolated, verdict, lines, files>>

(* The summary raises, after every file was written.                       *)
PrintFails ==
  /\ phase = "writing"
  /\ at > Len(ResultFiles)
  /\ ~Printable(cell)
  /\ phase' = "raised"
  /\ exit' = 1
  /\ UNCHANGED <<cell, at, pending, records, results, isolated, verdict, lines, files>>

(* generate_cases or capacity_scan raises: no request is ever sent.        *)
Refuse ==
  /\ phase = "start"
  /\ ~ContractHolds(cell)
  /\ phase' = "raised"
  /\ exit' = 1
  /\ UNCHANGED <<cell, at, pending, records, results, isolated, verdict, lines, files>>

(* An exception out of a request's task, Ctrl-C, a full disk: the receipts *)
(* files are closed and nothing more is written.                           *)
Raise ==
  /\ phase \notin Ended
  /\ phase' = "raised"
  /\ exit' = 1
  /\ UNCHANGED <<cell, at, pending, records, results, isolated, verdict, lines, files>>

Proceed ==
  \/ Start
  \/ Refuse
  \/ \E k \in DOMAIN pending : \E r \in Answers(cell, k) : Answer(k, r)
  \/ EndScanPoint
  \/ EndIsolation
  \/ EndWarmup
  \/ Judge
  \/ Write
  \/ Exit
  \/ PrintFails

Next == Proceed \/ Raise

Spec == Init /\ [][Next]_vars

(***************************************************************************)
(* Properties.                                                             *)
(***************************************************************************)

TypeOK ==
  /\ cell \in Cells
  /\ phase \in Running \cup Ended \cup {"start", "writing"}
  /\ at \in Nat \ {0}
  /\ \A k \in DOMAIN pending : pending[k] \in Nat
  /\ \A i \in DOMAIN results : results[i].slo_compliant \in BOOLEAN
  /\ verdict \in BOOLEAN \cup {None}
  /\ lines \in [ReceiptFiles -> Nat]
  /\ files \subseteq {ResultFiles[i] : i \in DOMAIN ResultFiles}
  /\ exit \in {0, 1, None}

(* What exit code 0 of a poisson cell rests on: every declared rate sent   *)
(* its whole cap and, if the cell declares workload.slo, completed 99 % of *)
(* it, whatever the gates of its buckets were asked (slo.py rounds         *)
(* int(cap * 0.99) down, asks it of a shape, and asks nothing where no cap *)
(* is declared).  Without workload.slo it says no more than that the whole *)
(* load was sent.                                                          *)
PoissonPassIsEarned ==
  (exit = 0 /\ cell.kind # "mixed") =>
    \A rate \in Rates(cell) :
      /\ Cardinality(AtRate(records, rate)) = RequestCap(cell, rate)
      /\ cell.slo => 100 * CompletedOf(records, AtRate(records, rate))
                        >= CompletionPct * RequestCap(cell, rate)

(* A verdict without workload.slo says "cell 未声明 workload.slo，跳过延迟判定":   *)
(* that the latencies are not judged.  The completions and the failures    *)
(* would then still be: a pass means that every rate passed those gates.   *)
OnlyLatencyIsSkipped ==
  (exit = 0 /\ cell.kind # "mixed") =>
    \A rate \in Rates(cell) :
      BucketPass(records, AtRate(records, rate), RequestCap(cell, rate), cell.limits, FALSE)

(* What exit code 0 of a mixed cell rests on: a capacity point was found   *)
(* compliant, every tenant has a baseline of its own run alone, and every  *)
(* tenant was served under the formal load (an empty formal load, which is *)
(* what no compliant point leads to, never passes).  A mix without         *)
(* workload.slo never ends with 0: its summary raises.                     *)
MixedPassIsEarned ==
  (exit = 0 /\ cell.kind = "mixed") =>
    /\ Compliant(results) # {}
    /\ DOMAIN isolated = Tenants(cell)
    /\ Tenants(cell) = {records[i].tenant : i \in Completed(records, DOMAIN records)}

(* run.py:12: warmup is not measured.  The receipts the formal verdict is  *)
(* computed from are those of receipts-formal.jsonl, one line each, and    *)
(* they are as many as the formal load has requests.                       *)
VerdictIsOnDisk ==
  (phase \in {"writing", "done"}) =>
    LET measured == IF cell.kind = "mixed" THEN "formal" ELSE "capacity"
        load == IF cell.kind = "mixed"
                THEN MixedLoad(cell, FormalRate(cell, B0Max(results)), cell.formal_s)
                ELSE CapacityLoad(cell)
    IN  /\ lines[ReceiptFile[measured]] = Len(records)
        /\ Len(records) = MapThenSumSet(LAMBDA k : load[k], DOMAIN load)

(* The formal load asks for no more tokens per second than a compliant     *)
(* point did, tenant by tenant, one request of rounding apart.             *)
FormalBelowCapacity ==
  phase = "formal" =>
    \A t \in Tenants(cell) :
      LET sent == pending[t] + Cardinality(TenantRecords(records, t))
      IN  sent > 0 => \E p \in Compliant(results) :
            (sent - 1) * 100 * cell.costs[t] < p * cell.shares[t] * cell.formal_s

(* _z2_aggregate (run.py:246) counts a lifecycle when it finds its         *)
(* evidence.json: whatever happened to the run, the file means that it was *)
(* judged, on a whole load, and that every other result file is there.     *)
EvidenceMeansComplete ==
  "evidence.json" \in files =>
    /\ files = {ResultFiles[i] : i \in DOMAIN ResultFiles}
    /\ verdict \in BOOLEAN
    /\ \A k \in DOMAIN pending : pending[k] = 0

(* One more failed request never turns a failing capacity scan into a      *)
(* passing one, although the error gate changes its rule with the number   *)
(* of samples and the failure itself is a sample (slo.py:65).              *)
FailureNeverHelps ==
  [][ (/\ phase = "capacity" /\ phase' = "capacity"
       /\ Len(records') > Len(records)
       /\ records'[Len(records')].verdict \in FailedVerdicts
       /\ Evaluate(cell, records')) => Evaluate(cell, records) ]_vars

LimitsOf(c, r) == IF c.kind = "shapes" THEN c.limits[r.input_len] ELSE c.limits
BucketOf(c, rs, r) ==
  IF c.kind = "shapes" THEN AtShape(rs, r.rate, r.input_len) ELSE AtRate(rs, r.rate)

(* A pass bounds the tail: of n samples at most (n - 1)/100, rounded up,   *)
(* are slower than the p99 limit of the bucket, or than 1.25 times the     *)
(* tenant's isolated p99.                                                  *)
Over(values, hundredths) == Cardinality({i \in DOMAIN values : 100 * values[i] > hundredths})
TailBounded(values, hundredths) ==
  DOMAIN values # {} => 100 * Over(values, hundredths) <= Count(values) - 1 + 99
PassBoundsTheTail ==
  /\ (phase = "capacity" /\ cell.slo /\ Evaluate(cell, records)) => \A i \in DOMAIN records :
       LET th     == LimitsOf(cell, records[i])
           bucket == BucketOf(cell, records, records[i])
       IN  /\ "p99" \in DOMAIN th.ttft =>
                TailBounded(TtftOf(records, bucket), 100 * th.ttft["p99"])
           /\ "p99" \in DOMAIN th.tpot =>
                TailBounded(TpotOf(records, bucket), 100 * th.tpot["p99"])
  /\ (phase = "formal" /\ EvaluateFormal(cell, records, isolated)) =>
       \A t \in DOMAIN isolated :
         LET bucket == TenantRecords(records, t)
         IN  /\ isolated[t].ttft # None =>
                  TailBounded(TtftOf(records, bucket), (5 * isolated[t].ttft) \div 4)
             /\ isolated[t].tpot # None =>
                  TailBounded(TpotOf(records, bucket), (5 * isolated[t].tpot) \div 4)

(* Fewer than ten tenants, of which one is to have more than the tolerance *)
(* of a share: what the index and the shares need to notice a starved one. *)
FewTenants(c) == /\ Cardinality(Tenants(c)) < 10
                 /\ \E t \in Tenants(c) : c.shares[t] > 10

(* A mixed load passes only if every tenant had an answer: nothing asks    *)
(* for a minimum of completions, a tenant without samples is skipped by    *)
(* the isolation check, and tokens of failed requests count for a share.   *)
(* It takes the error gate, the shares (nobody produced anything) and the  *)
(* Jain index (a tenant of small share produced nothing) together, a       *)
(* tenant whose share exceeds the tolerance, and fewer than ten tenants.   *)
(* Without workload.slo there is no error gate.                            *)
(* Every prefix of a phase is judged: it is what a phase cut short leaves. *)
NobodyStarves ==
  (/\ phase \in {"scan", "formal"}
   /\ cell.slo
   /\ FewTenants(cell)
   /\ \/ EvaluateScanPoint(cell, records)
      \/ EvaluateFormal(cell, records, isolated))
  => Tenants(cell) = {records[i].tenant : i \in Completed(records, DOMAIN records)}

(* slo.py:4 asks of every rate 99 % of its request_cap: a run in which     *)
(* every request of every rate was answered within every limit passes.     *)
Fast(r, th) ==
  /\ r.verdict = "ok" /\ r.ttft # None /\ r.tpot # <<>>
  /\ \A k \in DOMAIN th.ttft : r.ttft <= th.ttft[k]
  /\ \A k \in DOMAIN th.tpot, i \in DOMAIN r.tpot : r.tpot[i] <= th.tpot[k]
PerfectRunPasses ==
  (Gathered("capacity") /\ \A i \in DOMAIN records : Fast(records[i], LimitsOf(cell, records[i])))
  => Evaluate(cell, records)
=============================================================================
