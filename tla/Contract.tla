------------------------------ MODULE Contract ------------------------------
(***************************************************************************)
(* From a cell's name to what is asked of the server: the expansion of its *)
(* configuration (acceptance.py), the overlays of the roles (roles.py),    *)
(* the gates before a server is started (receipt.py) and the list of cases *)
(* (cases.py).                                                             *)
(*                                                                         *)
(* A configuration is section -> field -> value, workload.timeouts being a *)
(* section of its own; a field that is not there is not in the domain, and *)
(* None is YAML's null.  Rates are hundredths per second, a record of a    *)
(* data set is its index in the upstream file, a hash is what it is taken  *)
(* of.                                                                     *)
(***************************************************************************)
EXTENDS Receipts

CONSTANTS
  Common,      (* common.yaml                                              *)
  CellFiles,   (* name -> cells/<name>.yaml                                *)
  Precisions,  (* "FP16", "W8A8" -> precision/<p>.yaml                     *)
  Schema,      (* [required, allowed]: section -> set of fields            *)
  Sessions, Rounds, (* the code's 16 and 4: dialogue sessions of a2        *)
  Each,        (* the code's 64: reason and struct cases                   *)
  TenantSide   (* the code's 4: sessions and rounds of a4, whose tenants   *)
               (* have TenantSide^2 cases each                             *)

Get(m, s, f) == IF s \in DOMAIN m /\ f \in DOMAIN m[s] THEN m[s][f] ELSE None

(* dict.update: what new has counts, the rest stays.                       *)
Update(old, new) ==
  [x \in DOMAIN old \cup DOMAIN new |-> IF x \in DOMAIN new THEN new[x] ELSE old[x]]

Least(a, b) == IF a < b THEN a ELSE b

(***************************************************************************)
(* acceptance.py                                                           *)
(***************************************************************************)

DeepMerge(base, override) ==
  [s \in DOMAIN base \cup DOMAIN override |->
     IF s \notin DOMAIN override THEN base[s]
     ELSE IF s \notin DOMAIN base THEN override[s]
     ELSE Update(base[s], override[s])]

(* validate: no errors.                                                    *)
Validate(m) ==
  /\ m["meta"]["precision"] \in DOMAIN Precisions
  /\ \A s \in DOMAIN Schema.required : \A f \in Schema.required[s] : Get(m, s, f) # None
  /\ \A s \in DOMAIN Schema.allowed \ {"meta"} :
       s \in DOMAIN m => DOMAIN m[s] \subseteq Schema.allowed[s]

SmokeTimes ==
  [warmup_s |-> 1, capacity_s |-> 30, common_load_s |-> 20, per_rate_s |-> 15,
   drain_cooldown_s |-> 3, measure_s |-> 20, per_request_s |-> 120, lifecycle_s |-> 300,
   per_point_s |-> 15, point_gap_s |-> 3, formal_s |-> 20]

RequestCaps(rates, per_rate_s) == [i \in DOMAIN rates |-> (rates[i] * per_rate_s + 99) \div 100]
PerRate(m) == IF Get(m, "timeouts", "per_rate_s") = None THEN 600 ELSE m["timeouts"]["per_rate_s"]

FirstOf(list, n) == SubSeq(list, 1, Least(n, Len(list)))
LastOf(list, n) == SubSeq(list, IF Len(list) > n THEN Len(list) - n + 1 ELSE 1, Len(list))

SmokePoints(cell, points) ==
  LET low == SelectSeq(points, LAMBDA p : p <= 192)
  IN  IF cell # "a4-mt" THEN FirstOf(points, 3)
      ELSE IF low # <<>> THEN LastOf(low, 4) ELSE LastOf(points, 3)

SmokeTimeouts(cell, times) ==
  LET capped == [k \in DOMAIN times |-> IF k \in DOMAIN SmokeTimes THEN SmokeTimes[k] ELSE times[k]]
  IN  IF cell = "a1" THEN Update(capped, [warmup_s |-> 1, measure_s |-> 2])
      ELSE IF cell = "a4-mt"
      THEN Update(capped, [per_point_s |-> 60, point_gap_s |-> 3, formal_s |-> 120,
                           warmup_s |-> 30, isolation_s |-> 60])
      ELSE capped

Given(section, f) == f \in DOMAIN section /\ section[f] # None

(* What a smoke run changes in the workload wl.                            *)
SmokeWindows(wl) ==
  IF Given(wl, "window_count")
  THEN [window_count |-> 2, window_s |-> 10, min_completed_requests |-> 1,
        max_requests |-> Least(IF Given(wl, "max_requests") THEN wl["max_requests"] ELSE 64, 6)]
  ELSE <<>>
SmokeRates(wl, per_rate_s) ==
  IF ~Given(wl, "rates") THEN <<>>
  ELSE IF ~Given(wl, "caps") THEN [rates |-> FirstOf(wl["rates"], 2)]
  ELSE [rates |-> FirstOf(wl["rates"], 2), caps |-> FirstOf(RequestCaps(wl["rates"], per_rate_s), 2)]
SmokeWorkload(cell, wl, per_rate_s) ==
  LET pointed == IF Given(wl, "b0_capacity_points")
                 THEN [b0_capacity_points |-> SmokePoints(cell, wl["b0_capacity_points"])] ELSE <<>>
  IN  Update(Update(Update(wl, SmokeWindows(wl)), pointed), SmokeRates(wl, per_rate_s))

(* Slip: the caps are cut like the rates, and not computed again.          *)
SmokeOldCaps(m) ==
  LET cell  == m["meta"]["cell"]
      short == [m EXCEPT !["timeouts"] = SmokeTimeouts(cell, m["timeouts"])]
      wl    == SmokeWorkload(cell, m["workload"], PerRate(short))
  IN  [short EXCEPT !["workload"] =
         IF Get(m, "workload", "caps") = None THEN wl
         ELSE [wl EXCEPT !["caps"] = FirstOf(m["workload"]["caps"], 2)]]

(* _apply_smoke *)
Smoke(m) ==
  LET cell  == m["meta"]["cell"]
      short == [m EXCEPT !["timeouts"] = SmokeTimeouts(cell, m["timeouts"])]
  IN  [short EXCEPT !["workload"] = SmokeWorkload(cell, m["workload"], PerRate(short))]

(* expand: common, then the cell, then the precision; None when refused.   *)
Expand(cell, p, smoke) ==
  LET merged == DeepMerge(DeepMerge(Common, CellFiles[cell]), Precisions[p])
      short  == IF smoke THEN Smoke(merged) ELSE merged
  IN  IF p \in CellFiles[cell]["meta"]["precisions"] /\ Validate(short) THEN short ELSE None

Compiled(m) == Get(m, "server", "compile_mode") \notin {None, "none"}

(* model_server_argv: flag -> value, "set" for a flag without one.  The    *)
(* flags that carry a field of the same name are taken together.           *)
ValueFlags == {<<"model", "served_name">>, <<"model", "dtype">>, <<"server", "max_model_len">>,
               <<"server", "max_num_seqs">>, <<"model", "quantization">>}
CompileFlags(m) ==
  IF Compiled(m)
  THEN [compile_mode |-> m["server"]["compile_mode"],
        cudagraph_mode |-> Get(m, "server", "cudagraph_mode")]
  ELSE <<>>
EagerFlags(m) ==
  IF Get(m, "server", "enforce_eager") = TRUE THEN [enforce_eager |-> "set"]
  ELSE IF Get(m, "server", "enforce_eager") = FALSE THEN [no_enforce_eager |-> "set"]
  ELSE <<>>
GivenFlags(m) ==
  [f \in {v[2] : v \in {v \in ValueFlags : Get(m, v[1], v[2]) # None}} |->
     m[(CHOOSE v \in ValueFlags : v[2] = f)[1]][f]]
Argv(m) == Update(Update(GivenFlags(m), CompileFlags(m)), EagerFlags(m))

(***************************************************************************)
(* roles.py                                                                *)
(***************************************************************************)

RoleFields == {<<"model", "artifact">>, <<"model", "served_name">>, <<"model", "quantization">>}
DiffSections == {"model", "server", "env", "sampling", "workload", "timeouts"}

(* apply_role: values are role field -> value, those not given stay.       *)
ApplyRole(m, role, comparison, values) ==
  [s \in DOMAIN m |->
     IF s = "meta" THEN Update(m[s], [baseline_role |-> role, comparison_type |-> comparison])
     ELSE Update(m[s], [f \in {rf[2] : rf \in {rf \in DOMAIN values : rf[1] = s}} |-> values[<<s, f>>]])]

(* _config_without_role_fields, of which config_id is the hash.            *)
WithoutRoles(m) ==
  [s \in DOMAIN m |->
     [f \in {f \in DOMAIN m[s] :
               /\ <<s, f>> \notin RoleFields
               /\ s = "meta" => f \notin {"baseline_role", "comparison_type"}} |-> m[s][f]]]

(* diff_roles(...)["equal"] *)
RolesEqual(b0, b1) ==
  \A s \in DiffSections : s \in DOMAIN b0 \cup DOMAIN b1 =>
    \A f \in (IF s \in DOMAIN b0 THEN DOMAIN b0[s] ELSE {}) \cup
             (IF s \in DOMAIN b1 THEN DOMAIN b1[s] ELSE {}) :
      <<s, f>> \notin RoleFields => Get(b0, s, f) = Get(b1, s, f)

(* common.config_hash: what the client asks, whatever the precision.       *)
ConfigHash(m) == [s \in {"workload", "timeouts", "sampling"} \cap DOMAIN m |-> m[s]]

(***************************************************************************)
(* receipt.py: the gates that need no file.                                *)
(***************************************************************************)

Artifact == [ShareGPT |-> "sharegpt", GSM8K |-> "gsm8k", BFCL_V4 |-> "bfcl",
             JSONSchemaBench |-> "jsonschema", long |-> "long"]
Composed == {"synthetic", "mixed"}

(* A served name is told by the precision in it, "{precision}" being the   *)
(* placeholder expand_placeholders fills in.                               *)
ServedAs(m) ==
  IF Get(m, "model", "served_name") = "{precision}" THEN Get(m, "model", "served_suffix")
  ELSE Get(m, "model", "served_name")

PrecisionOverlay(m) ==
  LET fp16 == m["meta"]["precision"] = "FP16"
      name == IF fp16 THEN "fp16" ELSE "w8a8"
  IN  /\ Get(m, "model", "quantization") = (IF fp16 THEN None ELSE "ascend")
      /\ Get(m, "model", "served_suffix") = name /\ ServedAs(m) = name

Frozen ==
  [model |-> [block_size |-> 128, kv_cache_dtype |-> "auto", kv_cache_effective |-> "float16"],
   server |-> [serving_mode |-> "unified", tool_call_parser |-> "hermes",
               structured_outputs_backend |-> "xgrammar", speculative |-> FALSE,
               scheduling_policy |-> "fcfs"]]
FrozenServer(m) == \A s \in DOMAIN Frozen : \A f \in DOMAIN Frozen[s] : Get(m, s, f) = Frozen[s][f]

WorkloadContract(m) ==
  /\ Get(m, "workload", "mode") # None /\ Get(m, "workload", "primary_metric") # None
  /\ "timeouts" \in DOMAIN m /\ m["timeouts"] # <<>>
  /\ Get(m, "workload", "dataset") \in DOMAIN Artifact \cup Composed

(* The gates but dataset_ready; argv_hygiene has nothing to find, as none  *)
(* of the flags model_server_argv knows is a field of the request.         *)
StaticGates(m) ==
  /\ PrecisionOverlay(m)
  /\ m["meta"]["cell"] = "a1" => m["meta"]["precision"] = "FP16"
  /\ FrozenServer(m)
  /\ WorkloadContract(m)

(***************************************************************************)
(* cases.py                                                                *)
(***************************************************************************)

FollowUp == "follow-up"
Wrap(sub, i) == sub[(i % Len(sub)) + 1]

(* Slip: the session counts on as fast as the round.                       *)
DialogueByRound(sub, tenant, sessions, rounds) ==
  [i \in 1 .. sessions * rounds |->
     [kind |-> "dialogue_round", tenant |-> tenant, session |-> (i - 1) % sessions,
      round |-> (i - 1) % rounds, content |-> Wrap(sub, i - 1)]]

Dialogue(sub, tenant, sessions, rounds) ==
  [i \in 1 .. sessions * rounds |->
     [kind |-> "dialogue_round", tenant |-> tenant, session |-> (i - 1) \div rounds,
      round |-> (i - 1) % rounds, content |-> Wrap(sub, i - 1)]]

Plain(sub, tenant, kind, from, n) ==
  [i \in 1 .. n |-> [kind |-> kind, tenant |-> tenant, session |-> None, round |-> 0,
                     content |-> Wrap(sub, from + i - 1)]]

(* _tool: a session of two rounds for each multi-turn case.                *)
ToolSessions(sub, from, n) ==
  [i \in 1 .. 2 * n |->
     LET s == from + (i - 1) \div 2
     IN  [kind |-> "tool_multi_turn", tenant |-> None, session |-> s, round |-> (i - 1) % 2,
          content |-> IF i % 2 = 1 THEN Wrap(sub, s) ELSE FollowUp]]
Tool(sub, single, multi_parallel, multi_turn) ==
  Plain(sub, None, "tool_single", 0, single)
    \o Plain(sub, None, "tool_multi_parallel", single, multi_parallel)
    \o ToolSessions(sub, single + multi_parallel, multi_turn)

(* _a4: a multi-turn case of the tool tenant has its first round only.     *)
Mixed(dialogue, tool, reason, struct) ==
  LET n == TenantSide * TenantSide
      first == n \div 2 + n \div 4
  IN  Dialogue(dialogue, "dialogue", TenantSide, TenantSide)
        \o Plain(tool, "tool", "tool_single", 0, n \div 2)
        \o Plain(tool, "tool", "tool_multi_parallel", n \div 2, n \div 4)
        \o [i \in 1 .. n - first |->
              [kind |-> "tool_multi_turn", tenant |-> "tool", session |-> first + i - 1,
               round |-> 0, content |-> Wrap(tool, first + i - 1)]]
        \o Plain(reason, "reasoning", "reason", 0, n)
        \o Plain(struct, "structured", "struct", 0, n)

(* The subsets a cell's generator loads, in this order.                    *)
Loads(cell) ==
  CASE cell = "a2-dialogue" -> <<"sharegpt">>
    [] cell = "a2-tool" -> <<"bfcl">>
    [] cell = "a2-reason" -> <<"gsm8k">>
    [] cell = "a2-struct" -> <<"jsonschema">>
    [] cell \in {"a2-long", "a3-32k"} -> <<"long">>
    [] cell = "a4-mt" -> <<"sharegpt", "bfcl", "gsm8k", "jsonschema">>
    [] cell = "a1" -> <<>>

(* generate_cases(...)["cases"]: subs are the loaded subsets.              *)
GenerateCases(m, subs) ==
  LET cell  == m["meta"]["cell"]
      fixed == Get(m, "workload", "dataset_fixed")
  IN  CASE cell = "a2-dialogue" -> Dialogue(subs["sharegpt"], None, Sessions, Rounds)
        [] cell = "a2-tool" -> Tool(subs["bfcl"], fixed.single, fixed.multi_parallel, fixed.multi_turn)
        [] cell = "a2-reason" -> Plain(subs["gsm8k"], None, "reason", 0, Each)
        [] cell = "a2-struct" -> Plain(subs["jsonschema"], None, "struct", 0, Each)
        [] cell = "a2-long" ->
             Plain(subs["long"], None, "long_8192", 0, fixed.low)
               \o Plain(subs["long"], None, "long_16384", fixed.low, fixed.high)
        [] cell = "a3-32k" ->
             <<[kind |-> "a3_long", tenant |-> None, session |-> None, round |-> 0,
                content |-> subs["long"]]>>
        [] cell = "a4-mt" -> Mixed(subs["sharegpt"], subs["bfcl"], subs["gsm8k"], subs["jsonschema"])
        [] cell = "a1" ->
             [i \in DOMAIN m["workload"]["shapes"] |->
                [kind |-> "synthetic", tenant |-> None, session |-> None, round |-> 0,
                 content |-> m["workload"]["shapes"][i]]]
=============================================================================
