----------------------------- MODULE Repetitions -----------------------------
(***************************************************************************)
(* Lifecycles under names of its own, to stand beside the runs it repeats: *)
(* Evidence has records too, those of one run; here a record is of a run.  *)
(***************************************************************************)
CONSTANTS Required, MaxRetries, Metrics, MaxDir

VARIABLES driver, runs, attempt, valid, kept, dir, result

Z2 == INSTANCE Lifecycles WITH records <- kept

ASSUME RepetitionAssumption == Z2!LimitsAssumption

RepetitionSpec == Z2!Spec

-----------------------------------------------------------------------------
RepetitionTypeOK == Z2!TypeOK

(* No repetition replaces or drops an earlier lifecycle (run_lifecycles).  *)
EveryRunKept == Z2!EveryRunKept

(* run_lifecycles starts no lifecycle once enough are valid, and at most   *)
(* MaxRetries beyond the required ones.                                    *)
BudgetRespected == Z2!BudgetRespected

(* The rule of evaluate_z2 on invalid lifecycles never refuses a loop that *)
(* got its valid ones.                                                     *)
RetryRuleNeverDecides == Z2!RetryRuleNeverDecides
=============================================================================
