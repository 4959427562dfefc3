------------------------------ MODULE Receipts ------------------------------
(***************************************************************************)
(* Lists of receipts and the statistics the judges take of them            *)
(* (common.py and the summaries of slo.py, scheduler.py and window.py).    *)
(*                                                                         *)
(* A list of values is a function on any finite set of positions; a list   *)
(* of receipts is the set of their positions in the run.  Latencies are    *)
(* whole milliseconds, a percentile is kept in hundredths so that linear   *)
(* interpolation stays in the integers, and None is the code's None.       *)
(***************************************************************************)
EXTENDS Integers, Sequences, FiniteSets, FiniteSetsExt

CONSTANT None

ASSUME NoneAssumption == None \notin Nat

FailedVerdicts == {"failed", "timeout", "malformed", "silent_truncation"}
CompletedVerdicts == {"ok"}

Completed(rs, bucket) == {i \in bucket : rs[i].verdict \in CompletedVerdicts}
Failed(rs, bucket) == {i \in bucket : rs[i].verdict \in FailedVerdicts}

(* Slip: every receipt counts as a completion.                             *)
CompletedOfAll(rs, bucket) == Cardinality(bucket)

CompletedOf(rs, bucket) == Cardinality(Completed(rs, bucket))
FailedOf(rs, bucket) == Cardinality(Failed(rs, bucket))

(* [r["ttft_s"] for r in ok if ...] and the token gaps of all of them.     *)
TtftOf(rs, bucket) ==
  [i \in {i \in Completed(rs, bucket) : rs[i].ttft # None} |-> rs[i].ttft]
TpotOf(rs, bucket) ==
  [g \in UNION {{i} \X DOMAIN rs[i].tpot : i \in Completed(rs, bucket)} |->
     rs[g[1]].tpot[g[2]]]

Count(values) == Cardinality(DOMAIN values)

(* Slip: the list is sorted the other way round.                           *)
SortedDescending(values, k) ==
  CHOOSE v \in {values[i] : i \in DOMAIN values} :
    /\ Cardinality({i \in DOMAIN values : values[i] > v}) <= k
    /\ Cardinality({i \in DOMAIN values : values[i] >= v}) > k

(* sorted(values)[k], counting from 0.                                     *)
Sorted(values, k) ==
  CHOOSE v \in {values[i] : i \in DOMAIN values} :
    /\ Cardinality({i \in DOMAIN values : values[i] < v}) <= k
    /\ Cardinality({i \in DOMAIN values : values[i] <= v}) > k

(* percentile(sorted(values), q), times 100.                               *)
Percentile(values, q) ==
  LET rank == q * (Count(values) - 1)
      lo   == rank \div 100
      frac == rank % 100
  IN  IF frac = 0 THEN 100 * Sorted(values, lo)
      ELSE Sorted(values, lo) * (100 - frac) + Sorted(values, lo + 1) * frac

Total(values) == MapThenSumSet(LAMBDA i : values[i], DOMAIN values)

Abs(n) == IF n < 0 THEN -n ELSE n

P99(values) == IF DOMAIN values = {} THEN None ELSE Percentile(values, 99)

(* median_ms, times 2.                                                     *)
MedianTwice(values) ==
  IF DOMAIN values = {} THEN None
  ELSE Sorted(values, (Count(values) - 1) \div 2) + Sorted(values, Count(values) \div 2)
=============================================================================
