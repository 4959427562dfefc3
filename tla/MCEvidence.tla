----------------------------- MODULE MCEvidence -----------------------------
(* Instances of Evidence: a compiled and quantised tool cell, a compiled   *)
(* dialogue cell whose metrics come from a file, an eager cell without a   *)
(* log, and the monitored long cell.                                       *)
EXTENDS Evidence, TLC

Tool == [compiled |-> TRUE, prefix |-> TRUE, quantized |-> TRUE, monitored |-> FALSE,
         log |-> "read", pid |-> TRUE, file |-> FALSE, asset |-> None, role |-> TRUE,
         requests |-> 3, kind |-> "tool_"]
Dialogue == [Tool EXCEPT !.quantized = FALSE, !.role = None, !.requests = 2, !.kind = "dialogue_round"]
Eager == [Dialogue EXCEPT !.compiled = FALSE, !.prefix = FALSE, !.asset = TRUE, !.kind = "reason"]
LongA3 == [Dialogue EXCEPT !.monitored = TRUE, !.prefix = FALSE, !.kind = "a3_long"]

MCProfiles == {Tool, Dialogue, [Dialogue EXCEPT !.file = TRUE], [Eager EXCEPT !.log = "missing"],
               Eager, [Eager EXCEPT !.log = "none"], LongA3,
               [Tool EXCEPT !.kind = "struct", !.requests = 2],
               [LongA3 EXCEPT !.kind = "long_", !.monitored = FALSE]}

Good == [kind |-> "", verdict |-> "ok", error |-> None, answer |-> "x", reference |-> "x",
         schema |-> TRUE, valid |-> TRUE, calls |-> {"f"}, expected |-> "f", text |-> TRUE,
         facts |-> {"a"}, hits |-> {"a", "b"}, truncated |-> FALSE,
         output_tokens |-> 4, expected_len |-> 4, round |-> 1]
MCAnswers(p) ==
  LET ok == [Good EXCEPT !.kind = p.kind]
  IN  {ok, [ok EXCEPT !.verdict = "silent_truncation"],
       [ok EXCEPT !.answer = "y", !.valid = FALSE, !.calls = {"g"}, !.hits = {"b"}, !.text = FALSE,
                  !.output_tokens = 3]}
MCFp16Runs ==
  [p \in MCProfiles |-> {<<[Good EXCEPT !.kind = p.kind]>>,
                         <<[Good EXCEPT !.kind = p.kind], [Good EXCEPT !.kind = "reason"]>>}]
=============================================================================
