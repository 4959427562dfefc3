----------------------------- MODULE MCPrepare ------------------------------
(* Instances of Prepare: two subsets with a source, one of each format,    *)
(* and three without.  MCAsked has measurements of every kind of cell, for *)
(* what a profile comes to, with sources of one record; MCFew those that   *)
(* differ in what they load, for the files.                                *)
EXTENDS Prepare, TLC

MCCommon ==
  [meta |-> [cell |-> "common"],
   model |-> Frozen.model @@ [family |-> "m"],
   server |-> Frozen.server,
   sampling |-> [streaming |-> TRUE]]
MCPrecisions ==
  [FP16 |-> [meta |-> [precision |-> "FP16"],
             model |-> [dtype |-> "float16", quantization |-> None, served_suffix |-> "fp16"]],
   W8A8 |-> [meta |-> [precision |-> "W8A8"],
             model |-> [dtype |-> "float16", quantization |-> "ascend", served_suffix |-> "w8a8"]]]

Served == [compile_mode |-> "vllm_compile", cudagraph_mode |-> "FULL", max_num_seqs |-> 16,
           enforce_eager |-> FALSE]
Cell(name, both, wl, to) ==
  [meta |-> [cell |-> name, precisions |-> IF both THEN {"FP16", "W8A8"} ELSE {"FP16"}],
   model |-> [served_name |-> IF name = "a1" THEN "fp16" ELSE "{precision}", dtype |-> "bfloat16"],
   server |-> IF name = "a1" THEN [Served EXCEPT !.compile_mode = "none", !.enforce_eager = TRUE] ELSE Served,
   workload |-> wl @@ [primary_metric |-> "metric"], timeouts |-> to]
Poisson(ds) == [mode |-> "poisson", dataset |-> ds, rates |-> <<25, 50, 100>>, caps |-> <<150, 300, 600>>]
Times == [warmup_s |-> 300, per_rate_s |-> 600]

MCCellFiles ==
  [x \in {"a2-dialogue", "a2-tool", "a2-reason", "a2-struct", "a2-long", "a3-32k", "a4-mt", "a1",
          "quantised", "incomplete", "misnamed", "unfrozen"} |->
    CASE x = "a2-dialogue" -> Cell(x, TRUE, Poisson("ShareGPT"), Times)
      [] x = "a2-tool" -> Cell(x, TRUE,
           Poisson("BFCL_V4") @@ [dataset_fixed |-> [single |-> 1, multi_parallel |-> 1, multi_turn |-> 1]], Times)
      [] x = "a2-reason" -> Cell(x, TRUE, Poisson("GSM8K"), Times)
      [] x = "a2-struct" -> Cell(x, TRUE, Poisson("JSONSchemaBench"), Times)
      [] x = "a2-long" -> Cell(x, FALSE, Poisson("long") @@ [dataset_fixed |-> [low |-> 1, high |-> 1]], Times)
      [] x = "a3-32k" -> Cell(x, TRUE,
           [mode |-> "closed-loop", dataset |-> "long", window_count |-> 6, window_s |-> 300,
            max_requests |-> 64, min_completed_requests |-> 24], [warmup_s |-> 300, measure_s |-> 1800])
      [] x = "a4-mt" -> Cell(x, TRUE,
           [mode |-> "mixed", dataset |-> "mixed", b0_capacity_points |-> <<32, 64, 96, 128, 192, 256, 384>>],
           [warmup_s |-> 300, per_point_s |-> 600, formal_s |-> 3600])
      [] x = "a1" -> Cell(x, FALSE, [mode |-> "closed-loop", dataset |-> "synthetic", shapes |-> <<1, 2>>],
                          [warmup_s |-> 10, measure_s |-> 30])
      (* cells that fix what belongs to the precision, leave a required    *)
      (* field empty, serve under the name of one precision only, and      *)
      (* let the server choose what is frozen                              *)
      [] x = "quantised" ->
           [Cell("a2-dialogue", TRUE, Poisson("ShareGPT"), Times) EXCEPT
              !.model = [served_name |-> "{precision}", quantization |-> "ascend", served_suffix |-> "w8a8"]]
      [] x = "incomplete" ->
           [Cell("a2-dialogue", TRUE, Poisson("ShareGPT"), Times) EXCEPT !.server.cudagraph_mode = None]
      [] x = "misnamed" ->
           [Cell("a2-dialogue", TRUE, Poisson("ShareGPT"), Times) EXCEPT !.model.served_name = "fp16"]
      [] x = "unfrozen" ->
           [Cell("a2-dialogue", TRUE, Poisson("ShareGPT"), Times) EXCEPT
              !.server = @ @@ [structured_outputs_backend |-> "auto"]]]

MCSchema ==
  [required |-> [meta |-> {"cell", "precisions"}, model |-> {"family", "served_name"},
                 server |-> {"compile_mode", "enforce_eager", "cudagraph_mode"},
                 workload |-> {"mode"}],
   allowed |-> [meta |-> {}, server |-> DOMAIN Frozen.server \cup
                                         {"compile_mode", "cudagraph_mode", "max_num_seqs", "enforce_eager"}]]

MCSubsets == <<[name |-> "sharegpt", n |-> 2, jsonl |-> FALSE, url |-> TRUE],
               [name |-> "gsm8k", n |-> 2, jsonl |-> TRUE, url |-> TRUE],
               [name |-> "bfcl", n |-> 2, jsonl |-> FALSE, url |-> FALSE],
               [name |-> "jsonschema", n |-> 2, jsonl |-> FALSE, url |-> FALSE],
               [name |-> "long", n |-> 2, jsonl |-> FALSE, url |-> FALSE]>>
MCUpstream ==
  [sharegpt |-> <<<<2, FALSE>>, <<1, FALSE>>>>,
   gsm8k |-> <<<<2, FALSE>>, <<1, TRUE>>>>,
   bfcl |-> <<>>, jsonschema |-> <<>>, long |-> <<>>]
MCUpstreamShort == [n \in DOMAIN MCUpstream |-> FirstOf(MCUpstream[n], 1)]

A(c, p, s, a) == [cell |-> c, precision |-> p, smoke |-> s, allow |-> a]
MCAsked == {A("a2-dialogue", "W8A8", TRUE, FALSE), A("a2-reason", "FP16", FALSE, FALSE),
            A("a2-tool", "FP16", FALSE, TRUE), A("a2-struct", "W8A8", FALSE, FALSE),
            A("a2-long", "FP16", TRUE, TRUE), A("a3-32k", "FP16", TRUE, TRUE),
            A("a4-mt", "FP16", TRUE, FALSE), A("a4-mt", "W8A8", FALSE, TRUE),
            A("a1", "FP16", TRUE, FALSE), A("a1", "W8A8", FALSE, FALSE),
            A("quantised", "FP16", FALSE, FALSE), A("incomplete", "FP16", FALSE, FALSE),
            A("misnamed", "W8A8", FALSE, TRUE), A("unfrozen", "FP16", FALSE, TRUE)}
MCFew == {A("a2-dialogue", "FP16", FALSE, FALSE), A("a2-dialogue", "FP16", FALSE, TRUE),
          A("a2-reason", "FP16", FALSE, FALSE), A("a4-mt", "FP16", TRUE, FALSE)}
MCOne == {A("a2-dialogue", "FP16", FALSE, FALSE)}
=============================================================================
