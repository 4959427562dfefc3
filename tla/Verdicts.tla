------------------------------ MODULE Verdicts ------------------------------
(***************************************************************************)
(* slo.py, fairness.py and the evaluate functions of scheduler.py: what    *)
(* the receipts of a run are worth.  Shares are percent.                   *)
(*                                                                         *)
(* A cell is its expanded configuration: `kind` "plain" for slo.ttft and   *)
(* slo.tpot, "shapes" for slo.shapes, "mixed" for tenants; rates and caps  *)
(* or shares (tenant -> percent); slo, whether the cell declares           *)
(* workload.slo at all (the schema does not ask for it), and its limits.   *)
(***************************************************************************)
EXTENDS Receipts

CONSTANTS
  ErrorSample,   (* the code's 1000: sample size and 1/rate of tolerance   *)
  CompletionPct  (* the code's 99: percent of request_cap to complete      *)

ASSUME VerdictsAssumption ==
  /\ ErrorSample \in Nat \ {0, 1}
  /\ CompletionPct \in 0 .. 100
  /\ CompletionPct * ErrorSample <= 100 * (ErrorSample - 1)

(***************************************************************************)
(* slo.py                                                                  *)
(***************************************************************************)

(* A limit that is not declared is not in the domain of th.                *)
LatencyGate(values, th) ==
  /\ DOMAIN values # {}
  /\ "mean" \in DOMAIN th => Total(values) <= th["mean"] * Count(values)
  /\ "p95" \in DOMAIN th => Percentile(values, 95) <= 100 * th["p95"]
  /\ "p99" \in DOMAIN th => Percentile(values, 99) <= 100 * th["p99"]

(* max(1, int(cap * 0.99)): rounded down.                                  *)
CompletionGate(rs, bucket, cap) ==
  \/ cap = None
  \/ /\ CompletedOf(rs, bucket) >= 1
     /\ CompletedOf(rs, bucket) >= (cap * CompletionPct) \div 100

(* Slip: nothing is asked of a large sample.                               *)
ErrorGateSmall(rs, bucket) ==
  Cardinality(bucket) < ErrorSample => FailedOf(rs, bucket) = 0

ErrorGate(rs, bucket) ==
  IF Cardinality(bucket) < ErrorSample THEN FailedOf(rs, bucket) = 0
  ELSE FailedOf(rs, bucket) * ErrorSample <= Cardinality(bucket)

(* _evaluate_bucket(...)["slo_pass"] *)
BucketPass(rs, bucket, cap, th, latency_gate) ==
  /\ CompletionGate(rs, bucket, cap)
  /\ ErrorGate(rs, bucket)
  /\ latency_gate => /\ LatencyGate(TtftOf(rs, bucket), th.ttft)
                     /\ LatencyGate(TpotOf(rs, bucket), th.tpot)

AtRate(rs, rate) == {i \in DOMAIN rs : rs[i].rate = rate}
AtShape(rs, rate, input_len) == {i \in AtRate(rs, rate) : rs[i].input_len = input_len}

Rates(c) == {c.rates[i] : i \in DOMAIN c.rates}

(* cap_of: a rate without an entry in caps has none.                       *)
CapOf(c, rate) ==
  LET i == CHOOSE i \in DOMAIN c.rates : c.rates[i] = rate
  IN  IF i \in DOMAIN c.caps THEN c.caps[i] ELSE None

(* The buckets of a cell with slo.shapes are those its receipts fall into; *)
(* those of any other cell are the declared rates, with receipts or not.   *)
EvaluateShapes(c, rs) ==
  /\ rs # <<>>
  /\ \A i \in DOMAIN rs :
       LET rate == rs[i].rate
           len  == rs[i].input_len
       IN  /\ len \in DOMAIN c.limits
           /\ BucketPass(rs, AtShape(rs, rate, len), CapOf(c, rate), c.limits[len], TRUE)
EvaluateRates(c, rs) ==
  /\ c.rates # <<>>
  /\ \A rate \in Rates(c) :
       BucketPass(rs, AtRate(rs, rate), CapOf(c, rate), c.limits, TRUE)

(* evaluate(...)["overall"]["slo_pass"]: without workload.slo a cell       *)
(* passes before anything of its receipts is looked at.                    *)
Evaluate(c, rs) ==
  c.slo => /\ \A i \in DOMAIN rs : rs[i].rate \in Rates(c)
           /\ IF c.kind = "shapes" THEN EvaluateShapes(c, rs) ELSE EvaluateRates(c, rs)

(***************************************************************************)
(* fairness.py                                                             *)
(***************************************************************************)

Tenants(c) == DOMAIN c.shares
TenantRecords(rs, t) == {i \in DOMAIN rs : rs[i].tenant = t}

(* The tokens of every receipt count, those of failed requests too.        *)
TokensOf(rs, t) == MapThenSumSet(LAMBDA i : rs[i].output_tokens, TenantRecords(rs, t))
TotalTokens(c, rs) == MapThenSumSet(LAMBDA t : TokensOf(rs, t), Tenants(c))

(* Slip: nobody deviates when nothing was produced.                        *)
ShareOkEmpty(c, rs) ==
  LET total == TotalTokens(c, rs)
  IN  \A t \in Tenants(c) :
        Abs(100 * TokensOf(rs, t) - c.shares[t] * total) <= 10 * total

(* |actual_share - target_share| <= 0.10; the shares are 0 when nothing    *)
(* was produced at all.                                                    *)
ShareOk(c, rs) ==
  LET total == TotalTokens(c, rs)
  IN  \A t \in Tenants(c) :
        IF total = 0 THEN c.shares[t] <= 10
        ELSE Abs(100 * TokensOf(rs, t) - c.shares[t] * total) <= 10 * total

(* (sum x)^2 >= 0.90 * n * sum x^2, for the n values of a set of tenants.  *)
JainOver(rs, tenants) ==
  LET total   == MapThenSumSet(LAMBDA t : TokensOf(rs, t), tenants)
      squares == MapThenSumSet(LAMBDA t : TokensOf(rs, t) * TokensOf(rs, t), tenants)
  IN  10 * total * total >= 9 * Cardinality(tenants) * squares

(* Slip: tenants without tokens are left out of the index.                 *)
JainOkOfServed(c, rs) == JainOver(rs, {t \in Tenants(c) : TokensOf(rs, t) > 0})

(* jain_index >= 0.90; the index is 1.0 when all values are zero.          *)
JainOk(c, rs) == Tenants(c) # {} /\ JainOver(rs, Tenants(c))

(***************************************************************************)
(* scheduler.py                                                            *)
(***************************************************************************)

(* What the isolation phase keeps of a tenant's receipts.                  *)
Baseline(rs, bucket) == [ttft |-> P99(TtftOf(rs, bucket)), tpot |-> P99(TpotOf(rs, bucket))]
NoBaseline == [ttft |-> None, tpot |-> None]

(* p99 <= 1.25 * baseline; a side without a value is skipped.              *)
WithinRatio(p99, base) == (p99 # None /\ base # None) => 4 * p99 <= 5 * base

(* p99_isolation_check(...)["isolation_ok"] *)
IsolationOk(c, rs, b0_isolated) ==
  \A t \in Tenants(c) :
    LET own  == Baseline(rs, TenantRecords(rs, t))
        base == IF t \in DOMAIN b0_isolated THEN b0_isolated[t] ELSE NoBaseline
    IN  /\ WithinRatio(own.ttft, base.ttft)
        /\ WithinRatio(own.tpot, base.tpot)

(* evaluate_tenant: no completion gate, a tenant has no request_cap; and   *)
(* no gate at all without workload.slo.                                    *)
EvaluateTenant(c, rs, t, latency_gate) ==
  c.slo => BucketPass(rs, TenantRecords(rs, t), None, c.limits, latency_gate)

(* evaluate_scan_point(...)["slo_compliant"] *)
EvaluateScanPoint(c, rs) ==
  /\ \A t \in Tenants(c) : EvaluateTenant(c, rs, t, FALSE)
  /\ ShareOk(c, rs)
  /\ JainOk(c, rs)

(* evaluate_formal(...)["overall"]["slo_pass"]; without baselines (None,   *)
(* not the empty dictionary) the absolute latency limits apply.            *)
EvaluateFormal(c, rs, b0_isolated) ==
  /\ \A t \in Tenants(c) : EvaluateTenant(c, rs, t, b0_isolated = None)
  /\ ShareOk(c, rs)
  /\ JainOk(c, rs)
  /\ IsolationOk(c, rs, IF b0_isolated = None THEN <<>> ELSE b0_isolated)
=============================================================================
