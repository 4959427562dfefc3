----------------------------- MODULE ExecuteOne -----------------------------
(***************************************************************************)
(* executor.execute_one: one streamed request, from the POST to its        *)
(* receipt.  The server decides what the stream carries and when; a line   *)
(* of the stream is abstracted to what the client does with it: whether it *)
(* carries text, how many tool-call fragments, which finish_reason.        *)
(*                                                                         *)
(* httpx applies the timeout to each wait for bytes, not to the request:   *)
(* `lastByte` is when the current wait began.                              *)
(***************************************************************************)
EXTENDS Integers, Sequences, FiniteSetsExt

CONSTANTS
  ReadTimeout,   (* timeout_s: workload.timeouts.per_request_s             *)
  MaxLines       (* bound: lines of a stream, by the case's max_tokens     *)

StreamAssumption ==
  /\ ReadTimeout \in Nat \ {0}
  /\ MaxLines \in Nat

VARIABLES
  fixed,      (* _is_fixed_output(case): length is a complete output       *)
  clock,      (* time.monotonic() - t_send                                 *)
  lastByte,   (* when the wait for the next bytes began                    *)
  phase,      (* where execute_one is                                      *)
  lines,      (* lines received                                            *)
  arrivals,   (* when the server sent each token (seen by no code)         *)
  reasons,    (* the finish reasons it sent, in order (seen by no code)    *)
  tokens,     (* tokens: the client's count of arrivals                    *)
  first,      (* first_ts, None before                                     *)
  prev,       (* prev_ts                                                   *)
  finish,     (* finish: the last finish_reason seen                       *)
  rec         (* the receipt                                               *)

vars == <<fixed, clock, lastByte, phase, lines, arrivals, reasons, tokens,
          first, prev, finish, rec>>

None == -1
FinishReasons == {"stop", "tool_calls", "length", "abort"}

(* A data line: text or not, fragments of tool calls, finish_reason.       *)
Chunks == [text : BOOLEAN, fragments : 0 .. 2,
           finish : FinishReasons \cup {"null"}]

Verdicts == {"none", "ok", "failed", "timeout", "malformed",
             "silent_truncation"}

Init ==
  /\ fixed \in BOOLEAN
  /\ clock = 0
  /\ lastByte = 0
  /\ phase = "connecting"
  /\ lines = 0
  /\ arrivals = <<>>
  /\ reasons = <<>>
  /\ tokens = 0
  /\ first = None
  /\ prev = None
  /\ finish = "null"
  /\ rec = [verdict |-> "none", tokens |-> 0, ttft |-> None, tpot |-> <<>>,
            finish |-> "null", truncated |-> FALSE, e2el |-> None]

InProgress == phase \in {"connecting", "requested", "streaming"}

(* A return with verdict v and no output in the receipt.                   *)
ReturnWithout(v) ==
  /\ phase' = "returned"
  /\ rec' = [rec EXCEPT !.verdict = v, !.e2el = clock]
  /\ UNCHANGED <<fixed, clock, lastByte, lines, arrivals, reasons, tokens, first,
                 prev, finish>>

-----------------------------------------------------------------------------
(* Connection made and body written: the wait for the headers begins.      *)
Connected ==
  /\ phase = "connecting"
  /\ phase' = "requested"
  /\ lastByte' = clock
  /\ UNCHANGED <<fixed, clock, lines, arrivals, reasons, tokens, first, prev,
                 finish, rec>>

GoodStatus ==
  /\ phase = "requested"
  /\ phase' = "streaming"
  /\ lastByte' = clock
  /\ UNCHANGED <<fixed, clock, lines, arrivals, reasons, tokens, first, prev,
                 finish, rec>>

BadStatus ==
  /\ phase = "requested"
  /\ ReturnWithout("failed")

(* Output tokens a chunk counts for: its text, or else its fragments.      *)
TokensOf(c) == IF c.text THEN 1 ELSE c.fragments

(* Slip: every gap is measured from the first token.                       *)
ArrivalSinceFirst(n) ==
  LET gaps == [k \in 1 .. n |-> clock - (IF first = None THEN clock ELSE first)]
      new  == IF first = None THEN Tail(gaps) ELSE gaps
  IN  /\ first' = IF first = None THEN clock ELSE first
      /\ prev' = clock
      /\ tokens' = tokens + n
      /\ rec' = [rec EXCEPT !.ttft = IF first = None THEN clock ELSE @,
                            !.tpot = @ \o new]

(* Slip: the fragments of a chunk are counted once.                        *)
ArrivalPerChunk(n) ==
  LET gaps == [k \in 1 .. n |-> IF k = 1 /\ prev # None THEN clock - prev ELSE 0]
      new  == IF prev = None THEN Tail(gaps) ELSE gaps
  IN  /\ first' = IF first = None THEN clock ELSE first
      /\ prev' = clock
      /\ tokens' = tokens + 1
      /\ rec' = [rec EXCEPT !.ttft = IF first = None THEN clock ELSE @,
                            !.tpot = @ \o new]

(* _arrival, n > 0 times at one moment: the first token ever sets ttft,    *)
(* every later one a gap to the token before it; each is counted.          *)
Arrival(n) ==
  LET gaps == [k \in 1 .. n |-> IF k = 1 /\ prev # None THEN clock - prev ELSE 0]
      new  == IF prev = None THEN Tail(gaps) ELSE gaps
  IN  /\ first' = IF first = None THEN clock ELSE first
      /\ prev' = clock
      /\ tokens' = tokens + n
      /\ rec' = [rec EXCEPT !.ttft = IF first = None THEN clock ELSE @,
                            !.tpot = @ \o new]

DataLine(c) ==
  /\ phase = "streaming"
  /\ lines < MaxLines
  /\ lines' = lines + 1
  /\ lastByte' = clock
  /\ arrivals' = arrivals \o [k \in 1 .. TokensOf(c) |-> clock]
  /\ IF TokensOf(c) > 0
     THEN Arrival(TokensOf(c))
     ELSE UNCHANGED <<tokens, first, prev, rec>>
  /\ reasons' = IF c.finish # "null" THEN Append(reasons, c.finish) ELSE reasons
  /\ finish' = IF c.finish # "null" THEN c.finish ELSE finish
  /\ UNCHANGED <<fixed, clock, phase>>

(* Blank lines and comments are skipped, but they are bytes.               *)
OtherLine ==
  /\ phase = "streaming"
  /\ lines < MaxLines
  /\ lines' = lines + 1
  /\ lastByte' = clock
  /\ UNCHANGED <<fixed, clock, phase, arrivals, reasons, tokens, first, prev,
                 finish, rec>>

(* A payload that is not JSON ends the request at once.                    *)
MalformedLine ==
  /\ phase = "streaming"
  /\ lines < MaxLines
  /\ ReturnWithout("malformed")

(* JSON, but not an object: _extract_chunk raises and nobody catches it.   *)
NotAnObject ==
  /\ phase = "streaming"
  /\ lines < MaxLines
  /\ phase' = "raised"
  /\ UNCHANGED <<fixed, clock, lastByte, lines, arrivals, reasons, tokens, first,
                 prev, finish, rec>>

-----------------------------------------------------------------------------
(* Slip: any length finish passes as complete.                             *)
VerdictIgnoringKind(count, reason) ==
  IF count = 0 THEN "malformed"
  ELSE IF reason \in {"stop", "tool_calls", "length"} THEN "ok"
  ELSE "malformed"

(* The verdict of a stream that ended.                                     *)
VerdictOf(count, reason) ==
  IF count = 0 THEN "malformed"
  ELSE IF reason = "length" /\ ~fixed THEN "silent_truncation"
  ELSE IF reason \notin {"stop", "tool_calls", "length"} THEN "malformed"
  ELSE "ok"

(* [DONE], or the connection closes in order.                              *)
EndOfStream ==
  /\ phase = "streaming"
  /\ phase' = "returned"
  /\ rec' = [rec EXCEPT !.tokens = tokens, !.finish = finish,
                        !.truncated = (finish = "length"),
                        !.e2el = clock,
                        !.verdict = VerdictOf(tokens, finish)]
  /\ UNCHANGED <<fixed, clock, lastByte, lines, arrivals, reasons, tokens, first,
                 prev, finish>>

(* Slip: a client without timeout.                                         *)
NeverTimesOut == FALSE

(* No bytes for ReadTimeout.                                               *)
ReadTimedOut == clock - lastByte >= ReadTimeout

TimeoutException ==
  /\ InProgress
  /\ ReadTimedOut
  /\ ReturnWithout("timeout")

(* Any other httpx error: refused, reset, closed in the middle of a body.  *)
TransportError ==
  /\ InProgress
  /\ ReturnWithout("failed")

(* Time passes while the client waits, until its read timeout is due.      *)
Tick ==
  /\ InProgress
  /\ clock - lastByte < ReadTimeout
  /\ clock' = clock + 1
  /\ UNCHANGED <<fixed, lastByte, phase, lines, arrivals, reasons, tokens, first,
                 prev, finish, rec>>

Finished == ~InProgress /\ UNCHANGED vars

Next == \/ Connected
        \/ GoodStatus
        \/ BadStatus
        \/ \E c \in Chunks : DataLine(c)
        \/ OtherLine
        \/ MalformedLine
        \/ NotAnObject
        \/ EndOfStream
        \/ TimeoutException
        \/ TransportError
        \/ Tick
        \/ Finished

Spec == Init /\ [][Next]_vars

(* The clock advances and the loop delivers an expired timeout; the server *)
(* is not assumed to send anything.                                        *)
FairSpec == Spec /\ WF_vars(Tick) /\ WF_vars(TimeoutException)

-----------------------------------------------------------------------------
TypeOK ==
  /\ fixed \in BOOLEAN
  /\ clock \in Nat /\ lastByte \in 0 .. clock
  /\ phase \in {"connecting", "requested", "streaming", "returned", "raised"}
  /\ lines \in 0 .. MaxLines
  /\ arrivals \in Seq(Nat)
  /\ reasons \in Seq(FinishReasons)
  /\ tokens \in Nat
  /\ first \in Nat \cup {None} /\ prev \in Nat \cup {None}
  /\ finish \in FinishReasons \cup {"null"}
  /\ rec \in [verdict : Verdicts, tokens : Nat, ttft : Nat \cup {None},
              tpot : Seq(Nat), finish : FinishReasons \cup {"null"},
              truncated : BOOLEAN, e2el : Nat \cup {None}]

Total(s) == MapThenSumSet(LAMBDA k : s[k], DOMAIN s)

(* The latencies of a receipt describe the tokens that arrived: one gap    *)
(* between each two of them, and ttft plus the gaps leads to the last one, *)
(* not later than the end of the request.                                  *)
TimingAddsUp ==
  arrivals # <<>> =>
    /\ rec.ttft = arrivals[1]
    /\ Len(rec.tpot) = Len(arrivals) - 1
    /\ rec.ttft + Total(rec.tpot) = arrivals[Len(arrivals)]
    /\ rec.e2el # None => rec.ttft + Total(rec.tpot) <= rec.e2el

(* A receipt with verdict ok is a whole answer of the server, however the  *)
(* stream was cut into chunks: output_tokens is the number of tokens sent  *)
(* and fits the latencies beside it, and the last finish reason the server *)
(* gave, of several, is one that ends an answer of this kind.              *)
OkIsWholeAnswer ==
  rec.verdict = "ok" =>
    /\ rec.tokens = Len(arrivals) /\ rec.tokens = Len(rec.tpot) + 1
    /\ reasons # <<>>
    /\ LET last == reasons[Len(reasons)]
       IN  last \in {"stop", "tool_calls"} \/ (last = "length" /\ fixed)

(* executor.py:8: a receipt keeps the number of output tokens, of requests *)
(* that fail or time out too.  In the code a stream that breaks leaves the *)
(* count at 0, beside the latencies of the tokens that came.               *)
TokensAreKept == rec.e2el # None => rec.tokens = Len(arrivals)

(* A server that falls silent cannot hang the request: it ends, unless     *)
(* lines come for ever.                                                    *)
AlwaysEnds == <>(~InProgress)
=============================================================================
