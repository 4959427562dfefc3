------------------------------ MODULE MCRunScan ------------------------------
(* An instance of run_scan for TLC: a session of two rounds and a single-   *)
(* turn case, scanned in two segments that both start with the session.     *)
(* The last request of the first segment is drawn late: it is due after the *)
(* second segment has begun.                                                *)
EXTENDS RunScan

CONSTANTS s1

MCSessions == {s1}

MCCases == << [session |-> s1], [session |-> s1],
              [session |-> NoSession] >>

At(seg, pos, ts) == [segment |-> seg, position |-> pos, nominal |-> ts]

MCArrivals == << At(1, 0, 0), At(1, 1, 0), At(1, 2, 2),
                 At(2, 0, 1), At(2, 1, 1) >>
=============================================================================
