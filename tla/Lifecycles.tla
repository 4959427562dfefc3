----------------------------- MODULE Lifecycles -----------------------------
(***************************************************************************)
(* lifecycle.py: the repetition of a formal stage over independent service *)
(* lifecycles, and the Z2 verdict on them.  Two drivers use it:            *)
(*   loop      run_lifecycles calls run_once until it has enough valid     *)
(*             lifecycles or no attempt left, then evaluate_z2 judges;     *)
(*   operator  somebody runs acceptance.sh once per lifecycle into one     *)
(*             directory, then `run.py --z2-dir` (_z2_aggregate) judges.   *)
(***************************************************************************)
EXTENDS Integers, Sequences, FiniteSets, TLC

CONSTANTS
  Required,    (* REQUIRED_LIFECYCLES                                      *)
  MaxRetries,  (* MAX_RETRIES                                              *)
  Metrics,     (* values of the primary metric                             *)
  MaxDir       (* bound: lifecycles an operator runs into one directory    *)

LimitsAssumption ==
  /\ Required \in Nat \ {0}
  /\ MaxRetries \in Nat
  /\ Metrics \subseteq Nat
  /\ MaxDir \in Nat

VARIABLES
  driver,   (* who runs the lifecycles                                     *)
  runs,     (* what each lifecycle so far really was (seen by no code)     *)
  attempt,  (* attempt                                                     *)
  valid,    (* valid                                                       *)
  records,  (* records                                                     *)
  dir,      (* the evidence.json files of the z2-dir                       *)
  result    (* the verdict: pass (exit 0), fail (exit 1) or a traceback    *)

vars == <<driver, runs, attempt, valid, records, dir, result>>

None == -1

(* A lifecycle leaves evidence, whose gate is z3.ok and whose metrics may  *)
(* lack the primary one, or it dies before evidence.json is written.       *)
Outcomes == [evidence : {TRUE}, ok : BOOLEAN, metric : Metrics \cup {None}]
              \cup [evidence : {FALSE}, ok : {FALSE}, metric : {None}]

Init ==
  /\ driver \in {"loop", "operator"}
  /\ runs = <<>>
  /\ attempt = 0
  /\ valid = 0
  /\ records = <<>>
  /\ dir = <<>>
  /\ result = "running"

-----------------------------------------------------------------------------
(* The verdict.                                                            *)

StatusOf(o) == IF o.ok THEN "valid" ELSE "invalid"

WithStatus(rs, s) == {k \in DOMAIN rs : rs[k].status = s}

(* aggregate: the values that enter the median.                            *)
Valued(r) == r.status = "valid" /\ r.value # None
ValuesOf(rs) == [k \in DOMAIN SelectSeq(rs, Valued) |->
                   SelectSeq(rs, Valued)[k].value]

(* Twice statistics.median: the middle value, or the two around it.        *)
TwiceMedian(values) ==
  LET s == SortSeq(values, <)
      n == Len(values)
  IN  s[(n + 1) \div 2] + s[(n + 2) \div 2]

(* evaluate_z2                                                             *)
GateOpen(rs) ==
  /\ Cardinality(WithStatus(rs, "valid")) >= Required
  /\ Cardinality(WithStatus(rs, "invalid")) <= MaxRetries
  /\ \E k \in DOMAIN rs : Valued(rs[k])

-----------------------------------------------------------------------------
(* run_lifecycles                                                          *)

(* Slip: the first attempt is not counted as one.                          *)
OneAttemptTooMany == Required + MaxRetries + 1

MaxAttempts == Required + MaxRetries

(* Slip: one valid lifecycle more than asked for.                          *)
GoesOnWhenEnough == valid <= Required /\ attempt < MaxAttempts

GoesOn == valid < Required /\ attempt < MaxAttempts

LoopRecord(o) ==
  [index |-> Len(records) + 1, attempt |-> attempt + 1,
   status |-> StatusOf(o), value |-> IF o.ok THEN o.metric ELSE None]

AppendRecord(o) == records' = Append(records, LoopRecord(o))

RunOnce(o) ==
  /\ driver = "loop" /\ result = "running"
  /\ GoesOn
  /\ attempt' = attempt + 1
  /\ valid' = IF o.ok THEN valid + 1 ELSE valid
  /\ AppendRecord(o)
  /\ runs' = Append(runs, o)
  /\ UNCHANGED <<driver, dir, result>>

JudgeLoop ==
  /\ driver = "loop" /\ result = "running"
  /\ ~GoesOn
  /\ result' = IF GateOpen(records) THEN "pass" ELSE "fail"
  /\ UNCHANGED <<driver, runs, attempt, valid, records, dir>>

-----------------------------------------------------------------------------
(* run.py --z2-dir                                                         *)

(* acceptance.sh once more; the directory keeps what the lifecycle left.   *)
OperatorRuns(o) ==
  /\ driver = "operator" /\ result = "running"
  /\ Len(runs) < MaxDir
  /\ runs' = Append(runs, o)
  /\ dir' = IF o.evidence THEN Append(dir, o) ELSE dir
  /\ UNCHANGED <<driver, attempt, valid, records, result>>

(* _z2_aggregate's own records: no attempt, and a value even if invalid.   *)
DirectoryRecords ==
  [k \in DOMAIN dir |->
     [index |-> k, status |-> StatusOf(dir[k]), value |-> dir[k].metric]]

(* aggregate reads r["attempt"] of every record.                           *)
AggregateRaises(rs) == \E k \in DOMAIN rs : "attempt" \notin DOMAIN rs[k]

Z2Command ==
  /\ driver = "operator" /\ result = "running"
  /\ records' = DirectoryRecords
  /\ result' = IF AggregateRaises(DirectoryRecords) THEN "traceback"
               ELSE IF dir # <<>> /\ GateOpen(DirectoryRecords) THEN "pass"
               ELSE "fail"
  /\ UNCHANGED <<driver, runs, attempt, valid, dir>>

Judged == result # "running" /\ UNCHANGED vars

Next == \/ \E o \in Outcomes : RunOnce(o) \/ OperatorRuns(o)
        \/ JudgeLoop
        \/ Z2Command
        \/ Judged

Spec == Init /\ [][Next]_vars
-----------------------------------------------------------------------------
Records == [index : Nat, attempt : Nat, status : {"valid", "invalid"},
            value : Metrics \cup {None}]
             \cup [index : Nat, status : {"valid", "invalid"},
                   value : Metrics \cup {None}]

TypeOK ==
  /\ driver \in {"loop", "operator"}
  /\ runs \in Seq(Outcomes)
  /\ dir \in Seq(Outcomes)
  /\ attempt \in Nat
  /\ valid \in Nat
  /\ records \in Seq(Records)
  /\ result \in {"running", "pass", "fail", "traceback"}

(* The records of the loop are the lifecycles that were run, all of them   *)
(* and in their order: a repetition is added and replaces nothing.         *)
EveryRunKept ==
  driver = "loop" =>
    /\ Len(records) = Len(runs)
    /\ \A k \in DOMAIN runs :
         /\ records[k].attempt = k
         /\ records[k].status = StatusOf(runs[k])
         /\ runs[k].ok => records[k].value = runs[k].metric

(* No lifecycle is started once enough are valid, and at most MaxRetries   *)
(* are started beyond the required ones.                                   *)
BudgetRespected ==
  driver = "loop" =>
    /\ Len(runs) <= Required + MaxRetries
    /\ \A k \in DOMAIN runs :
         Cardinality({j \in 1 .. k - 1 : runs[j].ok}) < Required

(* The loop and the gate agree on the budget: the gate's rule on invalid   *)
(* lifecycles never refuses a loop that got its valid ones.                *)
RetryRuleNeverDecides ==
  driver = "loop" /\ result # "running" =>
    (result = "pass" <=> /\ valid = Required
                         /\ \E k \in DOMAIN records : Valued(records[k]))

-----------------------------------------------------------------------------
(* run.py:237: the command returns 0 or 1, whether the gate passed.        *)
Z2CommandReturns == result # "traceback"
=============================================================================
