----------------------------- MODULE MCRunMixed -----------------------------
(* Instances of run_mixed for TLC: two tenants, the first with a two-turn   *)
(* session, the second with a session of the same id.                       *)
EXTENDS RunMixed, TLC

CONSTANTS dialogue, tool, s1

MCTenants == {dialogue, tool}
MCSessions == {s1}

Event(t, ts) == [tenant |-> t, nominal |-> ts]

(* A burst, a simultaneous pair and a late arrival; both tenants queue.     *)
MCArrivals == << Event(dialogue, 0), Event(dialogue, 1), Event(tool, 1),
                 Event(dialogue, 1), Event(dialogue, 2), Event(tool, 2) >>

MCPool == dialogue :> << [session |-> s1], [session |-> s1] >>
          @@ tool  :> << [session |-> s1], [session |-> NoSession] >>

(* The isolation baseline: the tool tenant alone, more arrivals than the    *)
(* global limit.                                                            *)
MCOneTenant == {tool}

MCBaselineArrivals ==
  << Event(tool, 0), Event(tool, 0), Event(tool, 1), Event(tool, 1),
     Event(tool, 2) >>

MCBaselinePool == tool :> << [session |-> NoSession] >>
=============================================================================
