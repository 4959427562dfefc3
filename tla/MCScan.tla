------------------------------- MODULE MCScan -------------------------------
(* Instances of Scan: poisson cells of two rates, with caps, without, and  *)
(* with wrong ones; mixes of two tenants with even and with skewed shares; *)
(* the long cell, whose cases come in two shapes; and a poisson cell and a *)
(* mix that declare no workload.slo.                                       *)
EXTENDS Scan, TLC

Limits == [ttft |-> [mean |-> 7, p99 |-> 8], tpot |-> [p99 |-> 8]]

Poisson == [kind |-> "plain", slo |-> TRUE, rates |-> <<50, 200>>, caps |-> <<1, 4>>,
            limits |-> Limits, per_rate_s |-> 2]
Long == [kind |-> "shapes", slo |-> TRUE, rates |-> <<150>>, caps |-> <<3>>,
         limits |-> [l \in {8192, 16384} |-> Limits], per_rate_s |-> 2]

Mix == [kind |-> "mixed", slo |-> TRUE, limits |-> Limits, order |-> <<"x", "y">>,
        shares |-> [x |-> 50, y |-> 50], costs |-> [x |-> 1, y |-> 1],
        isolation |-> [x |-> None, y |-> 2], points |-> <<2, 4>>, factor |-> 70,
        per_point_s |-> 1, isolation_s |-> 1, warmup_s |-> 1, formal_s |-> 1]

MCCells == {Poisson, [Poisson EXCEPT !.caps = <<>>], [Poisson EXCEPT !.caps = <<1, 3>>],
            Mix, [Mix EXCEPT !.warmup_s = 0, !.points = <<2>>], [Mix EXCEPT !.points = <<>>],
            [Mix EXCEPT !.shares = [x |-> 92, y |-> 8], !.points = <<2>>],
            [Poisson EXCEPT !.slo = FALSE],
            [Mix EXCEPT !.slo = FALSE, !.points = <<2>>]}
MCLongCells == {Long}
MCSilentCells == {[Poisson EXCEPT !.slo = FALSE]}

Kinds == {[verdict |-> "ok", ttft |-> 4, tpot |-> <<1>>, output_tokens |-> 2],
          [verdict |-> "ok", ttft |-> 9, tpot |-> <<>>, output_tokens |-> 1],
          [verdict |-> "timeout", ttft |-> 4, tpot |-> <<1>>, output_tokens |-> 2]}
MCAnswers(c, k) ==
  CASE c.kind = "mixed" -> {[tenant |-> k] @@ a : a \in Kinds}
    [] c.kind = "plain" -> {[rate |-> k] @@ a : a \in Kinds}
    [] c.kind = "shapes" -> {[rate |-> k, input_len |-> l] @@ a : a \in Kinds, l \in {8192, 16384}}

(* The condition of MixedPassesAreEarned.                                  *)
ASSUME FewTenantsEach == \A c \in Cells : c.kind = "mixed" => FewTenants(c)
=============================================================================
