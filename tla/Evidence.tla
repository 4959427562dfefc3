------------------------------ MODULE Evidence ------------------------------
(***************************************************************************)
(* How a run earns its evidence: run.py _finalize with the quality oracle  *)
(* (oracle.py), the collection of the server's metrics                     *)
(* (collect_metrics.py, metrics.py) and the Z3 gate (gate.py).             *)
(*                                                                         *)
(* A server logs, dies when it likes, and is looked at from outside: its   *)
(* log, its /metrics endpoint, a monitor's samples and /proc/<pid>, one    *)
(* after the other.  An operator may collect into a file while the load    *)
(* runs (acceptance.sh metrics); a run that is handed no file collects for *)
(* itself when the load is over.  Texts are reduced to what the parsers    *)
(* find in them, percentages are hundredths of a percent.                  *)
(***************************************************************************)
EXTENDS Receipts

CONSTANTS
  Profiles,    (* [compiled, prefix, quantized, monitored: BOOLEAN,        *)
               (*  log: "read" | "missing" | "none", pid, file: BOOLEAN,   *)
               (*  asset, role: BOOLEAN or None, requests: Nat]            *)
  Answers(_),  (* profile -> receipts a live server may leave              *)
  Fp16Runs,    (* profile -> lists of receipts of the FP16 side            *)
  MaxSamples,  (* bound: lines the monitor writes                          *)
  MaxFallbacks (* bound: batches that fall back, and lines that count them *)

ASSUME ProfilesAssumption ==
  \A p \in Profiles :
    /\ {p.compiled, p.prefix, p.quantized, p.monitored, p.pid, p.file} \subseteq BOOLEAN
    /\ p.log \in {"read", "missing", "none"}
    /\ p.requests \in Nat
    /\ \A run \in Fp16Runs[p] : IsFiniteSet(DOMAIN run)

(* A server that answers does not refuse the connection.                   *)
ASSUME AnswersAssumption ==
  \A p \in Profiles : \A r \in Answers(p) :
    {"kind", "verdict", "error"} \subseteq DOMAIN r /\ r.error # "refused"

ASSUME BoundsAssumption == MaxSamples \in Nat /\ MaxFallbacks \in Nat

VARIABLES
  profile,    (* cfg and args                                              *)
  log,        (* what serve.log says; counters are its "graph fallback: N" *)
  fallbacks,  (* batches that have fallen back from the captured graphs    *)
  server,     (* "up" | "dead" *)
  samples,    (* lines of the monitor's file                               *)
  records,
  told,       (* ghost: the counters in the log when the last request ended*)
  fp16,       (* receipts of the FP16 run the qualification compares with  *)
  step,       (* collector -> what it reads next                           *)
  doc,        (* collector -> what it has read                             *)
  file,       (* what --server-metrics reads as: {} when there is no file, *)
              (* or one that is still being written                        *)
  evidence    (* what _finalize writes, None before                        *)

vars == <<profile, log, fallbacks, server, samples, records, told, fp16, step, doc,
          file, evidence>>

Collectors == {"operator", "run"}
Steps == {"idle", "log", "metrics", "npu", "proc", "dump", "torn", "done"}

(* Patterns that were not found: captures None, the others FALSE or 0.     *)
NoLog == [captures |-> None, counters |-> <<>>, quant |-> FALSE]
NoDoc == [captures |-> None, fallback |-> FALSE, quant |-> FALSE,
          prefix |-> FALSE, samples |-> 0, cores |-> FALSE]

(***************************************************************************)
(* metrics.py                                                              *)
(***************************************************************************)

(* _graph_from_log: an eager cell without a capture line has 0 captures.   *)
GraphFromLog(text, compiled) ==
  IF text.captures = None /\ ~compiled THEN 0 ELSE text.captures

(* parse_graph_counters: the first counter of the log is the one it finds. *)
FellBack(text) == text.counters # <<>> /\ Head(text.counters) > 0

(* evaluate_mechanisms(...)["ok"]: M1, M2, M2, M3, M4.                     *)
Mechanisms(p, m) ==
  /\ IF p.compiled THEN m.captures # None /\ m.captures > 0 /\ ~m.fallback
     ELSE m.captures = 0
  /\ p.prefix => m.prefix
  /\ p.quantized => m.quant
  /\ p.monitored => m.samples > 0
  /\ m.cores

(***************************************************************************)
(* oracle.py                                                               *)
(***************************************************************************)

(* evaluate_one: what the kind asks of an answer that arrived whole.       *)
EvaluateOne(r) ==
  /\ r.verdict = "ok"
  /\ r.kind = "reason" =>
       /\ r.answer # None
       /\ r.reference # None => r.answer = r.reference
  /\ r.kind = "struct" => r.schema /\ r.valid
  /\ r.kind = "tool_" =>
       /\ r.calls # {}
       /\ r.expected # None => r.expected \in r.calls
  /\ r.kind = "a3_long" => r.text /\ r.facts \subseteq r.hits
  /\ r.kind \in {"long_", "a3_long"} => ~r.truncated /\ r.output_tokens >= r.expected_len
  /\ r.kind = "dialogue_round" => r.round = 0 \/ r.text

OfKind(rs, kind) == {i \in DOMAIN rs : rs[i].kind = kind}

(* Slip: only the requests that were answered enter the rate.              *)
KindPctOfAnswered(rs, kind) ==
  LET rows == {i \in OfKind(rs, kind) : rs[i].verdict = "ok"}
      ok   == Cardinality({i \in rows : EvaluateOne(rs[i])})
      all  == Cardinality(rows)
  IN  IF rows = {} THEN None ELSE (20000 * ok + all) \div (2 * all)

(* _kind_pct: round(100.0 * ok / rows, 2), None without rows.              *)
KindPct(rs, kind) ==
  LET rows == OfKind(rs, kind)
      ok   == Cardinality({i \in rows : EvaluateOne(rs[i])})
      all  == Cardinality(rows)
  IN  IF rows = {} THEN None ELSE (20000 * ok + all) \div (2 * all)

AtLeast(pct, limit) == pct # None => pct >= limit

(* evaluate(...)["gate"]["ok"] *)
Quality(rs) ==
  /\ AtLeast(KindPct(rs, "tool_"), 9500)
  /\ AtLeast(KindPct(rs, "struct"), 9500)
  /\ AtLeast(KindPct(rs, "struct"), 10000)

(* At most one percentage point down; a side without rows counts as 0,     *)
(* and a kind that neither side has is skipped.                            *)
DropWithin(f16, w8) ==
  (IF f16 = None THEN 0 ELSE f16) - (IF w8 = None THEN 0 ELSE w8) <= 100

(* w8a8_qualification(...)["ok"] *)
Qualified(f16, w8) ==
  /\ \A kind \in {"reason", "tool_", "struct", "long_"} :
       DropWithin(KindPct(f16, kind), KindPct(w8, kind))
  /\ Quality(w8)

(***************************************************************************)
(* gate.py, and the identities run.py hands to it                          *)
(***************************************************************************)

(* sha_binding_gate: a field that is not declared does not apply.          *)
ShaBinding(declared, actual) ==
  \A key \in DOMAIN declared :
    declared[key] # None => actual[key] # None /\ declared[key] = actual[key]

(* _role_identity: the same arguments are declared and actual.             *)
RoleBinding(p) ==
  IF p.role = None THEN None
  ELSE LET identity == [code_sha |-> "sha", image_digest |-> None]
       IN  ShaBinding(identity, identity)

(* The cost is recorded, and never refuses.                                *)
CostOk(p) == IF p.asset = None THEN None ELSE TRUE

NoTruncation(rs) == \A i \in DOMAIN rs : rs[i].verdict # "silent_truncation"

AssembleEvidence(p, rs, m) ==
  [config_ok |-> TRUE, role_diff |-> None, sha_binding |-> RoleBinding(p),
   dataset_ok |-> TRUE, quality |-> Quality(rs), mechanisms |-> Mechanisms(p, m),
   no_trunc |-> NoTruncation(rs), cost |-> CostOk(p)]

(* z3_gate: None is not applicable, and passes.                            *)
Z3Gate(e) == \A check \in DOMAIN e : e[check] # FALSE

(***************************************************************************)
(* The run.                                                                *)
(***************************************************************************)

Init ==
  /\ profile \in Profiles
  /\ log \in {[captures |-> n, counters |-> <<>>, quant |-> q] : n \in {None, 2}, q \in BOOLEAN}
  /\ fallbacks = 0
  /\ server = "up"
  /\ samples = 0
  /\ records = <<>>
  /\ told = <<>>
  /\ fp16 \in Fp16Runs[profile]
  /\ step = [w \in Collectors |-> "idle"]
  /\ doc = [w \in Collectors |-> NoDoc]
  /\ file = NoDoc
  /\ evidence = None

Loading == Len(records) < profile.requests

(* A request ends.  A server that is gone refuses the connection.          *)
Answer(r) ==
  /\ Loading
  /\ records' = Append(records, IF server = "up" THEN r
                                ELSE [r EXCEPT !.verdict = "failed", !.error = "refused"])
  /\ told' = log.counters
  /\ UNCHANGED <<profile, log, fallbacks, server, samples, fp16, step, doc, file, evidence>>

(* A batch falls back from the captured graphs.                            *)
Fallback ==
  /\ server = "up" /\ Loading /\ profile.compiled
  /\ fallbacks < MaxFallbacks
  /\ fallbacks' = fallbacks + 1
  /\ UNCHANGED <<profile, log, server, samples, records, told, fp16, step, doc, file,
                 evidence>>

(* The server logs its counter, as often as it likes.                      *)
LogCounter ==
  /\ server = "up" /\ profile.compiled
  /\ Len(log.counters) <= MaxFallbacks
  /\ log' = [log EXCEPT !.counters = Append(@, fallbacks)]
  /\ UNCHANGED <<profile, fallbacks, server, samples, records, told, fp16, step, doc, file,
                 evidence>>

Die ==
  /\ server = "up"
  /\ server' = "dead"
  /\ UNCHANGED <<profile, log, fallbacks, samples, records, told, fp16, step, doc, file, evidence>>

(* monitor: one more line with a reading of the device.                    *)
Sample ==
  /\ samples < MaxSamples
  /\ samples' = samples + 1
  /\ UNCHANGED <<profile, log, fallbacks, server, records, told, fp16, step, doc, file, evidence>>

(* acceptance.sh metrics, beside the run.                                  *)
StartOperator ==
  /\ profile.file
  /\ step["operator"] = "idle"
  /\ step' = [step EXCEPT !["operator"] = "log"]
  /\ UNCHANGED <<profile, log, fallbacks, server, samples, records, told, fp16, doc, file, evidence>>

(* _finalize: what the file says, or what the run can collect itself.      *)
StartFinalize ==
  /\ ~Loading
  /\ step["run"] = "idle"
  /\ IF (~profile.file \/ file = NoDoc) /\ profile.log # "none" /\ profile.pid
     THEN /\ step' = [step EXCEPT !["run"] = "log"]
          /\ UNCHANGED doc
     ELSE /\ step' = [step EXCEPT !["run"] = "dump"]
          /\ doc' = [doc EXCEPT !["run"] = IF profile.file THEN file ELSE NoDoc]
  /\ UNCHANGED <<profile, log, fallbacks, server, samples, records, told, fp16, file, evidence>>

Collect(w, from, to) ==
  /\ step[w] = from
  /\ step' = [step EXCEPT ![w] = to]
  /\ UNCHANGED <<profile, log, fallbacks, server, samples, records, told, fp16, file, evidence>>

(* The operator's command names no compile mode, and no receipt to find    *)
(* one in.                                                                 *)
ReadLog(w) ==
  LET text == IF profile.log = "read" THEN log ELSE NoLog
  IN  /\ Collect(w, "log", "metrics")
      /\ doc' = [doc EXCEPT ![w] = [@ EXCEPT
           !.captures = GraphFromLog(text, w = "run" /\ profile.compiled),
           !.fallback = FellBack(text),
           !.quant = text.quant]]

(* curl: an empty answer from a server that is gone.                       *)
Scrape(w) ==
  /\ Collect(w, "metrics", "npu")
  /\ doc' = [doc EXCEPT ![w].prefix = (server = "up")]

ReadSamples(w) ==
  /\ Collect(w, "npu", "proc")
  /\ doc' = [doc EXCEPT ![w].samples = samples]

(* Slip: the core table is taken from the start of the server.             *)
ReadProcCached(w) ==
  /\ Collect(w, "proc", "dump")
  /\ doc' = [doc EXCEPT ![w].cores = profile.pid]

ReadProc(w) ==
  /\ Collect(w, "proc", "dump")
  /\ doc' = [doc EXCEPT ![w].cores = (profile.pid /\ server = "up")]

(* The operator's file is opened, and emptied, before it is written.       *)
OpenFile ==
  /\ step["operator"] = "dump"
  /\ step' = [step EXCEPT !["operator"] = "torn"]
  /\ file' = NoDoc
  /\ UNCHANGED <<profile, log, fallbacks, server, samples, records, told, fp16, doc, evidence>>
WriteFile ==
  /\ step["operator"] = "torn"
  /\ step' = [step EXCEPT !["operator"] = "done"]
  /\ file' = doc["operator"]
  /\ UNCHANGED <<profile, log, fallbacks, server, samples, records, told, fp16, doc, evidence>>

(* What nothing was found in is dropped.                                   *)
Adopted(m) == IF m.captures # None \/ m.prefix \/ m.cores THEN m ELSE NoDoc

Judge ==
  /\ step["run"] = "dump"
  /\ ~Loading
  /\ step' = [step EXCEPT !["run"] = "done"]
  /\ evidence' = AssembleEvidence(profile, records, Adopted(doc["run"]))
  /\ UNCHANGED <<profile, log, fallbacks, server, samples, records, told, fp16, doc, file>>

Gather(w) == ReadLog(w) \/ Scrape(w) \/ ReadSamples(w) \/ ReadProc(w)
Proceed == (\E r \in Answers(profile) : Answer(r)) \/ StartFinalize \/ Gather("run") \/ Judge

Next ==
  \/ Proceed
  \/ Fallback \/ LogCounter \/ Die \/ Sample
  \/ StartOperator \/ Gather("operator") \/ OpenFile \/ WriteFile

Spec == Init /\ [][Next]_vars

(***************************************************************************)
(* Properties                                                              *)
(***************************************************************************)

Docs == [captures: {None, 0, 2}, fallback: BOOLEAN, quant: BOOLEAN,
         prefix: BOOLEAN, samples: 0 .. MaxSamples, cores: BOOLEAN]

TypeOK ==
  /\ profile \in Profiles
  /\ log \in [captures: {None, 2}, counters: Seq(0 .. MaxFallbacks), quant: BOOLEAN]
  /\ fallbacks \in 0 .. MaxFallbacks
  /\ told \in Seq(0 .. MaxFallbacks)
  /\ server \in {"up", "dead"}
  /\ samples \in 0 .. MaxSamples
  /\ Len(records) <= profile.requests
  /\ fp16 \in Fp16Runs[profile]
  /\ step \in [Collectors -> Steps]
  /\ doc \in [Collectors -> Docs]
  /\ file \in Docs
  /\ evidence # None => DOMAIN evidence = {"config_ok", "role_diff", "sha_binding", "dataset_ok",
                                           "quality", "mechanisms", "no_trunc", "cost"}

Passed == evidence # None /\ Z3Gate(evidence)

(* Evidence that passes on what the run collected itself was preceded by   *)
(* what it claims: graphs were captured and not fallen back from when the  *)
(* log first counted, the quantisation was logged, the monitor ran (run.py *)
(* 175, metrics.py 58-64 and 141).                                         *)
PassIsObserved ==
  (Passed /\ ~profile.file /\ profile.log = "read") =>
    /\ IF profile.compiled
       THEN log.captures # None /\ (told # <<>> => Head(told) = 0)
       ELSE log.captures = None
    /\ profile.quantized => log.quant
    /\ profile.monitored => samples > 0

(* A server that died under the load never passes on metrics the run       *)
(* collected itself, even in a cell whose quality gate asks for nothing:   *)
(* its process is looked for after the last request (M4).                  *)
PassWasServed ==
  (Passed /\ ~profile.file) => \A i \in DOMAIN records : records[i].error # "refused"

(* What passes was witnessed: seen by the collector, and served by a       *)
(* server that lived to the end of the load.                               *)
PassIsWitnessed == PassIsObserved /\ PassWasServed

(* metrics.py 142 and 166: M1 is fail-closed and refuses a compiled cell   *)
(* that fell back.  A run that collects for itself does not pass with a    *)
(* fallback counted in the log it reads.                                   *)
FallbacksAreRefused ==
  (Passed /\ ~profile.file /\ profile.log = "read" /\ profile.compiled) =>
    \A i \in DOMAIN told : told[i] = 0

(* A request that fails never helps the quality gate, not even one whose   *)
(* answer was wrong: failed requests stay in the rates.                    *)
FailureNeverGains ==
  \A i \in DOMAIN records :
    (records[i].verdict = "ok" /\ ~Quality(records)) =>
      ~Quality([records EXCEPT ![i].verdict = "failed"])

(* A W8A8 run cannot qualify by leaving out what the FP16 run could do:    *)
(* each kind of the FP16 run that succeeded more than once in a hundred    *)
(* was asked of the W8A8 run too.                                          *)
QualifiedCoversKinds ==
  Qualified(fp16, records) =>
    \A kind \in {"reason", "tool_", "struct", "long_"} :
      (KindPct(fp16, kind) # None /\ KindPct(fp16, kind) > 100) => OfKind(records, kind) # {}

(* Neither failing nor leaving a kind out improves the quality of a run    *)
(* (oracle.py 185, 252).                                                   *)
QualityNeverGains == FailureNeverGains /\ QualifiedCoversKinds
=============================================================================
