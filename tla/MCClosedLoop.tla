---------------------------- MODULE MCClosedLoop ----------------------------
(* An instance of ClosedLoop: three windows of four ticks with requests    *)
(* that take two, three or five; two shapes, of which the batch of one is  *)
(* larger than the semaphore.                                              *)
EXTENDS ClosedLoop

MCShapes == <<[input_len |-> 8, output_len |-> 2, batch |-> 3],
              [input_len |-> 4, output_len |-> 2, batch |-> 1]>>

Reply(verdict, ttft, tokens, usage) ==
  [verdict |-> verdict, ttft |-> ttft, tpot |-> <<2>>, output_tokens |-> tokens,
   prompt_tokens |-> usage, completion_tokens |-> IF usage = None THEN None ELSE tokens,
   measure_ts |-> None, round |-> None, shape |-> None]

MCAnswers == {Reply("ok", 20, 2, 8), Reply("ok", 30, 2, None), Reply("silent_truncation", 20, 1, 8)}
=============================================================================
