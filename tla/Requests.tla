------------------------------ MODULE Requests ------------------------------
(***************************************************************************)
(* ExecuteOne under names of its own, to stand beside the loops that send  *)
(* such requests: ClosedLoop has a clock and a phase too, those of a loop. *)
(***************************************************************************)
CONSTANTS ReadTimeout, MaxLines

VARIABLES fixed, elapsed, lastByte, stage, lines, arrivals, reasons, tokens, first,
          prev, finish, rec

Request == INSTANCE ExecuteOne WITH clock <- elapsed, phase <- stage

ASSUME RequestAssumption == Request!StreamAssumption

RequestSpec == Request!Spec
FairRequestSpec == Request!FairSpec

-----------------------------------------------------------------------------
(* ttft and the gaps of a receipt describe the tokens that arrived, as     *)
(* _arrival was told of them.                                              *)
TimingAddsUp == Request!TimingAddsUp

(* Verdict ok of execute_one is a whole answer, counted token by token.    *)
OkIsWholeAnswer == Request!OkIsWholeAnswer

(* executor.py:8: every receipt of execute_one keeps its number of tokens. *)
TokensAreKept == Request!TokensAreKept

(* execute_one returns or raises although the server may fall silent.      *)
AlwaysEnds == Request!AlwaysEnds
=============================================================================
