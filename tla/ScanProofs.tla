----------------------------- MODULE ScanProofs -----------------------------
(* One measured run: what its verdicts and its files mean, for every cell  *)
(* and every behaviour of the requests.                                    *)
EXTENDS Scan, SharedLemmas

-----------------------------------------------------------------------------
(* Order statistics.                                                       *)
LessThan(f, v) == {i \in DOMAIN f : f[i] < v}
UpTo(f, v) == {i \in DOMAIN f : f[i] <= v}

IsRanked(f, k, v) ==
  /\ v \in {f[i] : i \in DOMAIN f}
  /\ Cardinality(LessThan(f, v)) <= k
  /\ Cardinality(UpTo(f, v)) > k

(* sorted(values)[k] is there for every k below the number of values.      *)
LEMMA SortedIsRanked ==
  ASSUME NEW D, IsFiniteSet(D), NEW f \in [D -> Nat],
         NEW k \in Nat, k < Cardinality(D)
  PROVE  IsRanked(f, k, Sorted(f, k)) /\ Sorted(f, k) \in Nat
<1> DEFINE V == {f[i] : i \in D}
           T == {v \in V : Cardinality(UpTo(f, v)) > k}
<1>1. IsFiniteSet(V) /\ V \subseteq Nat
  BY ImageOfFinite
<1>2. V # {}
  <2>1. D # {}
    BY FS_EmptySet, FS_CardinalityType
  <2>. QED  BY <2>1
<1>3. T # {} /\ T \subseteq Nat
  <2>1. PICK m \in V : \A v \in V : v <= m
    BY <1>1, <1>2, GreatestOfFinite DEF HasGreatest
  <2>2. UpTo(f, m) = D
    BY <2>1 DEF UpTo
  <2>. QED  BY <1>1, <2>1, <2>2
<1>4. PICK v \in T : \A w \in T : v <= w
  BY <1>3, LeastOfNaturals
<1>5. Cardinality(LessThan(f, v)) <= k
  <2> DEFINE W == {f[i] : i \in LessThan(f, v)}
  <2>1. CASE LessThan(f, v) = {}
    BY <2>1, FS_EmptySet
  <2>2. CASE LessThan(f, v) # {}
    <3>1. W # {} /\ W \subseteq V
      BY <2>2 DEF LessThan
    <3>2. IsFiniteSet(W) /\ W \subseteq Nat
      BY <1>1, <3>1, FS_Subset
    <3>3. PICK w \in W : \A x \in W : x <= w
      BY <3>1, <3>2, GreatestOfFinite DEF HasGreatest
    <3>4. w \in V /\ w < v /\ w \in Nat /\ v \in Nat
      BY <1>3, <1>4, <3>1, <3>2, <3>3 DEF LessThan
    <3>5. LessThan(f, v) = UpTo(f, w)
      BY <3>3, <3>4 DEF LessThan, UpTo
    <3>6. w \notin T
      BY <1>4, <3>4
    <3>7. IsFiniteSet(UpTo(f, w)) /\ Cardinality(UpTo(f, w)) \in Nat
      BY FS_Subset, FS_CardinalityType DEF UpTo
    <3>. QED  BY <3>4, <3>5, <3>6, <3>7
  <2>. QED  BY <2>1, <2>2
<1>6. IsRanked(f, k, v)
  BY <1>4, <1>5 DEF IsRanked
<1>7. Sorted(f, k) = CHOOSE x \in {f[i] : i \in DOMAIN f} : IsRanked(f, k, x)
  BY DEF Sorted, IsRanked, LessThan, UpTo
<1>8. IsRanked(f, k, Sorted(f, k))
  BY <1>6, <1>7 DEF IsRanked
<1>. QED  BY <1>1, <1>8 DEF IsRanked

LEMMA SortedAscends ==
  ASSUME NEW D, IsFiniteSet(D), NEW f \in [D -> Nat],
         NEW k \in Nat, k + 1 < Cardinality(D)
  PROVE  Sorted(f, k) <= Sorted(f, k + 1)
<1>1. PICK a \in Nat : a = Sorted(f, k) /\ IsRanked(f, k, a)
  <2>1. k < Cardinality(D)
    BY FS_CardinalityType
  <2>. QED  BY <2>1, SortedIsRanked
<1>2. PICK b \in Nat : b = Sorted(f, k + 1) /\ IsRanked(f, k + 1, b)
  BY SortedIsRanked
<1>3. CASE b < a
  <2>1. UpTo(f, b) \subseteq LessThan(f, a)
    BY <1>3 DEF UpTo, LessThan
  <2>2. IsFiniteSet(LessThan(f, a))
    BY FS_Subset DEF LessThan
  <2>3. /\ Cardinality(UpTo(f, b)) <= Cardinality(LessThan(f, a))
        /\ Cardinality(UpTo(f, b)) \in Nat
        /\ Cardinality(LessThan(f, a)) \in Nat
    BY <2>1, <2>2, FS_Subset, FS_CardinalityType
  <2>. QED  BY <1>1, <1>2, <2>3 DEF IsRanked
<1>. QED  BY <1>1, <1>2, <1>3

-----------------------------------------------------------------------------
(* The p99 lies between two neighbours of the sorted list.                 *)
LEMMA PercentileRank ==
  ASSUME NEW n \in Nat \ {0}
  PROVE  \E lo \in Nat, frac \in 0 .. 99 :
           /\ lo = (99 * (n - 1)) \div 100
           /\ frac = (99 * (n - 1)) % 100
           /\ lo < n
           /\ 100 * lo + frac = 99 * (n - 1)
           /\ frac # 0 => lo + 1 < n
<1>1. PICK rank \in Nat : rank = 99 * (n - 1)
  OBVIOUS
<1>2. PICK lo \in Nat : lo = rank \div 100
  OBVIOUS
<1>3. PICK frac \in 0 .. 99 : frac = rank % 100
  OBVIOUS
<1>4. 100 * lo + frac = rank
  BY <1>2, <1>3
<1>5. lo < n /\ (frac # 0 => lo + 1 < n)
  BY <1>1, <1>4
<1>. QED  BY <1>1, <1>2, <1>3, <1>4, <1>5

LEMMA Weighted ==
  ASSUME NEW a \in Nat, NEW b \in Nat, a <= b, NEW w \in 0 .. 99
  PROVE  a * (100 - w) + b * w \in Nat /\ 100 * a <= a * (100 - w) + b * w
<1>1. PICK d \in Nat : b = a + d
  <2>1. b - a \in Nat /\ b = a + (b - a)
    OBVIOUS
  <2>. QED  BY <2>1
<1>2. d * w \in Nat
  OBVIOUS
<1>3. a * (100 - w) + b * w = 100 * a + d * w
  BY <1>1
<1>. QED  BY <1>2, <1>3

LEMMA PercentileAboveRank ==
  ASSUME NEW D, IsFiniteSet(D), D # {}, NEW f \in [D -> Nat]
  PROVE  /\ Percentile(f, 99) \in Nat
         /\ \E lo \in Nat, frac \in 0 .. 99 :
              /\ 100 * lo + frac = 99 * (Cardinality(D) - 1)
              /\ lo < Cardinality(D)
              /\ 100 * Sorted(f, lo) <= Percentile(f, 99)
<1> DEFINE n == Cardinality(D)
           rank == 99 * (n - 1)
<1>1. n \in Nat \ {0}
  BY FS_EmptySet, FS_CardinalityType
<1>2. PICK lo \in Nat, frac \in 0 .. 99 :
        /\ lo = rank \div 100 /\ frac = rank % 100
        /\ lo < n /\ 100 * lo + frac = rank
        /\ frac # 0 => lo + 1 < n
  BY <1>1, PercentileRank
<1>3. PICK a \in Nat : a = Sorted(f, lo)
  BY <1>2, SortedIsRanked
<1>4. Count(f) = n
  BY DEF Count
<1>5. Percentile(f, 99) = IF frac = 0 THEN 100 * a
                          ELSE a * (100 - frac) + Sorted(f, lo + 1) * frac
  BY <1>2, <1>3, <1>4 DEF Percentile
<1>6. Percentile(f, 99) \in Nat /\ 100 * a <= Percentile(f, 99)
  <2>1. CASE frac = 0
    BY <1>5, <2>1
  <2>2. CASE frac # 0
    <3>1. PICK b \in Nat : b = Sorted(f, lo + 1)
      BY <1>2, <2>2, SortedIsRanked
    <3>2. a <= b
      BY <1>2, <1>3, <2>2, <3>1, SortedAscends
    <3>. QED  BY <1>5, <2>2, <3>1, <3>2, Weighted
  <2>. QED  BY <2>1, <2>2
<1>. QED  BY <1>2, <1>3, <1>6

(* What a p99 within a limit says of the values.                           *)
LEMMA PercentileBoundsTail ==
  ASSUME NEW D, IsFiniteSet(D), NEW f \in [D -> Nat], NEW H \in Nat,
         D # {} => Percentile(f, 99) <= H
  PROVE  TailBounded(f, H)
<1> SUFFICES ASSUME D # {} PROVE 100 * Over(f, H) <= Count(f) - 1 + 99
  BY DEF TailBounded
<1> DEFINE n == Cardinality(D)
           over == {i \in D : 100 * f[i] > H}
<1>1. PICK lo \in Nat, frac \in 0 .. 99 :
        /\ 100 * lo + frac = 99 * (n - 1) /\ lo < n
        /\ 100 * Sorted(f, lo) <= Percentile(f, 99)
  BY PercentileAboveRank
<1>2. PICK a \in Nat : a = Sorted(f, lo) /\ IsRanked(f, lo, a)
  BY <1>1, SortedIsRanked
<1>3. 100 * a <= H
  <2>1. Percentile(f, 99) \in Nat /\ Percentile(f, 99) <= H
    BY PercentileAboveRank
  <2>. QED  BY <1>1, <1>2, <2>1
<1>4. over \subseteq D \ UpTo(f, a)
  <2> SUFFICES ASSUME NEW i \in D, 100 * f[i] > H, f[i] <= a PROVE FALSE
    BY DEF UpTo
  <2>. QED  BY <1>3
<1>5. /\ IsFiniteSet(D \ UpTo(f, a)) /\ IsFiniteSet(UpTo(f, a))
      /\ Cardinality(D \ UpTo(f, a)) = n - Cardinality(UpTo(f, a))
  <2>1. UpTo(f, a) \subseteq D
    BY DEF UpTo
  <2>2. IsFiniteSet(UpTo(f, a)) /\ D \cap UpTo(f, a) = UpTo(f, a)
    BY <2>1, FS_Subset
  <2>. QED  BY <2>2, FS_Difference
<1>6. Cardinality(over) <= n - Cardinality(UpTo(f, a))
  BY <1>4, <1>5, FS_Subset
<1>7. /\ Cardinality(over) \in Nat /\ n \in Nat
      /\ Cardinality(UpTo(f, a)) \in Nat /\ Cardinality(UpTo(f, a)) > lo
  BY <1>2, <1>4, <1>5, FS_Subset, FS_CardinalityType DEF IsRanked
<1>8. Over(f, H) = Cardinality(over) /\ Count(f) = n
  BY DEF Over, Count
<1>. QED  BY <1>1, <1>6, <1>7, <1>8

LEMMA P99Type ==
  ASSUME NEW D, IsFiniteSet(D), NEW f \in [D -> Nat]
  PROVE  P99(f) \in Nat \cup {None}
BY PercentileAboveRank DEF P99

-----------------------------------------------------------------------------
(* The values the judges take from a list of receipts.                     *)
ReceiptsOf(c) == UNION {Answers(c, k) : k \in Keys(c)}

LEMMA ReceiptType ==
  ASSUME NEW c \in Cells, NEW r \in ReceiptsOf(c)
  PROVE  /\ r.verdict \in CompletedVerdicts \cup FailedVerdicts
         /\ r.ttft \in Nat \cup {None}
         /\ r.tpot \in Seq(Nat)
         /\ r.output_tokens \in Nat
         /\ IF c.kind = "mixed" THEN r.tenant \in Keys(c) ELSE r.rate \in Keys(c)
BY AnswersAssumption DEF ReceiptsOf

TtftAt(rs, bucket) == {i \in Completed(rs, bucket) : rs[i].ttft # None}
TpotAt(rs, bucket) == UNION {{i} \X DOMAIN rs[i].tpot : i \in Completed(rs, bucket)}

LEMMA TtftType ==
  ASSUME NEW c \in Cells, NEW rs \in Seq(ReceiptsOf(c)),
         NEW bucket \in SUBSET DOMAIN rs
  PROVE  /\ TtftOf(rs, bucket) \in [TtftAt(rs, bucket) -> Nat]
         /\ IsFiniteSet(TtftAt(rs, bucket))
<1>1. TtftAt(rs, bucket) \subseteq DOMAIN rs
  BY DEF TtftAt, Completed
<1>2. IsFiniteSet(TtftAt(rs, bucket))
  BY <1>1, Positions, FS_Subset
<1>3. \A i \in TtftAt(rs, bucket) : rs[i].ttft \in Nat
  BY <1>1, Positions, ReceiptType DEF TtftAt
<1>. QED  BY <1>2, <1>3 DEF TtftOf, TtftAt

LEMMA TpotType ==
  ASSUME NEW c \in Cells, NEW rs \in Seq(ReceiptsOf(c)),
         NEW bucket \in SUBSET DOMAIN rs
  PROVE  /\ TpotOf(rs, bucket) \in [TpotAt(rs, bucket) -> Nat]
         /\ IsFiniteSet(TpotAt(rs, bucket))
<1> DEFINE C == Completed(rs, bucket)
           gaps == [i \in C |-> {i} \X DOMAIN rs[i].tpot]
           G == {gaps[i] : i \in C}
<1>1. C \subseteq DOMAIN rs /\ IsFiniteSet(C)
  BY Positions, FS_Subset DEF Completed
<1>2. \A i \in C : rs[i].tpot \in Seq(Nat)
  BY <1>1, Positions, ReceiptType
<1>3. TpotAt(rs, bucket) = UNION G
  BY DEF TpotAt
<1>4. IsFiniteSet(G)
  <2>1. gaps \in Surjection(C, G)
    BY DEF Surjection
  <2>. QED  BY <1>1, <2>1, FS_Surjection
<1>5. \A X \in G : IsFiniteSet(X)
  <2> SUFFICES ASSUME NEW i \in C PROVE IsFiniteSet({i} \X DOMAIN rs[i].tpot)
    OBVIOUS
  <2>1. IsFiniteSet({i}) /\ IsFiniteSet(DOMAIN rs[i].tpot)
    BY <1>2, Positions, FS_Singleton
  <2>. QED  BY <2>1, FS_Product
<1>6. \A g \in TpotAt(rs, bucket) : rs[g[1]].tpot[g[2]] \in Nat
  <2> SUFFICES ASSUME NEW i \in C, NEW j \in DOMAIN rs[i].tpot
               PROVE  rs[i].tpot[j] \in Nat
    BY DEF TpotAt
  <2>. QED  BY <1>2, Positions
<1>. QED  BY <1>3, <1>4, <1>5, <1>6, FS_UNION DEF TpotOf, TpotAt

LEMMA BaselineType ==
  ASSUME NEW c \in Cells, NEW rs \in Seq(ReceiptsOf(c)),
         NEW bucket \in SUBSET DOMAIN rs
  PROVE  Baseline(rs, bucket) \in Latencies
BY TtftType, TpotType, P99Type DEF Baseline, Latencies

-----------------------------------------------------------------------------
(* The loads of the phases.                                                *)
LEMMA CeilDivType ==
  ASSUME NEW a \in Nat, NEW b \in Nat \ {0}
  PROVE  CeilDiv(a, b) \in Nat
<1>1. PICK n \in Nat : n = a + b - 1
  OBVIOUS
<1>2. n \div b \in Nat
  OBVIOUS
<1>. QED  BY <1>1, <1>2 DEF CeilDiv

LEMMA ProductType ==
  ASSUME NEW a \in Nat, NEW b \in Nat
  PROVE  a * b \in Nat
OBVIOUS

LEMMA CapacityLoadType ==
  ASSUME NEW c \in Cells, c.kind # "mixed"
  PROVE  CapacityLoad(c) \in [Keys(c) -> Nat]
<1>1. c.rates \in Seq(Nat) /\ c.per_rate_s \in Nat
  BY CellsAssumption
<1>2. \A rate \in Rates(c) : rate \in Nat
  BY <1>1, Positions DEF Rates
<1>3. ASSUME NEW rate \in Rates(c)
      PROVE  RequestCap(c, rate) \in Nat
  BY <1>1, <1>2, ProductType, CeilDivType, SMTT(60) DEF RequestCap
<1>. QED  BY <1>3 DEF CapacityLoad, Keys

LEMMA MixedLoadType ==
  ASSUME NEW c \in Cells, c.kind = "mixed", NEW token_rate \in Nat,
         NEW duration_s \in Nat
  PROVE  /\ MixedLoad(c, token_rate, duration_s) \in [Keys(c) -> Nat]
         /\ \A t : IsolatedLoad(c, t, token_rate, duration_s) \in [Keys(c) -> Nat]
<1>0. /\ c.shares \in [Tenants(c) -> 0 .. 100]
      /\ c.costs \in [Tenants(c) -> Nat \ {0}]
  BY CellsAssumption
<1>1. \A t \in Tenants(c) : c.shares[t] \in Nat /\ c.costs[t] \in Nat \ {0}
  BY <1>0
<1>2. ASSUME NEW t \in Tenants(c), NEW share \in Nat
      PROVE  Requests(c, t, token_rate, share, duration_s) \in Nat
  <2>1. token_rate * share \in Nat
    BY ProductType
  <2>2. token_rate * share * duration_s \in Nat
    BY <2>1, ProductType
  <2>3. 10000 * c.costs[t] \in Nat \ {0}
    BY <1>1
  <2>. QED  BY <2>2, <2>3, CeilDivType DEF Requests
<1>3. MixedLoad(c, token_rate, duration_s) \in [Keys(c) -> Nat]
  BY <1>1, <1>2 DEF MixedLoad, Keys
<1>4. \A t : IsolatedLoad(c, t, token_rate, duration_s) \in [Keys(c) -> Nat]
  BY <1>2 DEF IsolatedLoad, Keys
<1>. QED  BY <1>3, <1>4

Points == [token_rate : Nat, slo_compliant : BOOLEAN]

LEMMA B0MaxIsCompliant ==
  ASSUME NEW rs \in Seq(Points)
  PROVE  /\ B0Max(rs) \in Nat
         /\ B0Max(rs) > 0 => B0Max(rs) \in Compliant(rs)
<1> DEFINE P == {i \in DOMAIN rs : rs[i].slo_compliant}
           rate == [i \in P |-> rs[i].token_rate]
<1>1. IsFiniteSet(P) /\ rate \in [P -> Nat]
  <2>1. IsFiniteSet(DOMAIN rs) /\ \A i \in DOMAIN rs : rs[i] \in Points
    BY Positions
  <2>2. IsFiniteSet(P)
    BY <2>1, FS_Subset
  <2>. QED  BY <2>1, <2>2 DEF Points
<1>2. Compliant(rs) = {rate[i] : i \in P}
  BY DEF Compliant
<1> HIDE DEF rate, P
<1>3. IsFiniteSet(Compliant(rs)) /\ Compliant(rs) \subseteq Nat
  BY <1>1, <1>2, ImageOfFinite
<1>4. CASE Compliant(rs) = {}
  BY <1>4 DEF B0Max
<1>5. CASE Compliant(rs) # {}
  <2>1. \E x \in Compliant(rs) : \A y \in Compliant(rs) : x >= y
    BY <1>3, <1>5, GreatestOfFinite DEF HasGreatest
  <2>2. Max(Compliant(rs)) \in Compliant(rs)
    BY <2>1 DEF Max
  <2>. QED  BY <1>3, <1>5, <2>2 DEF B0Max
<1>. QED  BY <1>4, <1>5

-----------------------------------------------------------------------------
(* The inductive invariant.                                                *)
WellTyped ==
  /\ cell \in Cells
  /\ phase \in Running \cup Ended \cup {"start", "writing"}
  /\ at \in Nat \ {0}
  /\ \A k \in DOMAIN pending : pending[k] \in Nat
  /\ records \in Seq(ReceiptsOf(cell))
  /\ results \in Seq(Points)
  /\ IF cell.kind = "mixed"
     THEN \E T \in SUBSET Tenants(cell) : isolated \in [T -> Latencies]
     ELSE isolated = <<>>
  /\ verdict \in BOOLEAN \cup {None}
  /\ lines \in [ReceiptFiles -> Nat]
  /\ exit \in {0, 1, None}

(* Where the orchestration stands.                                         *)
Position ==
  /\ phase = "start" => records = <<>> /\ results = <<>>
  /\ phase \in Running \cup {"writing", "done"} => DOMAIN pending = Keys(cell)
  /\ phase = "capacity" => cell.kind # "mixed"
  /\ phase \in Running \ {"capacity"} => cell.kind = "mixed"
  /\ phase = "scan" => at \in DOMAIN cell.points
  /\ phase = "isolation" => at \in DOMAIN cell.order

(* The files are those the run has come to, and the run was judged first.  *)
Written ==
  /\ phase \in Running \cup {"start"} => files = {}
  /\ phase = "writing" => files = {ResultFiles[i] : i \in 1 .. at - 1} /\ at <= 7
  /\ files \subseteq {ResultFiles[i] : i \in DOMAIN ResultFiles}
  /\ EvidenceMeansComplete
  /\ phase \in {"writing", "done"} => /\ verdict \in BOOLEAN
                                      /\ \A k \in DOMAIN pending : pending[k] = 0

(* What the exit code says, and what the verdict was computed from.        *)
Outcome ==
  /\ exit = 0 => phase = "done" /\ verdict = TRUE /\ Printable(cell)
  /\ cell.kind # "mixed" /\ phase \in {"writing", "done"} =>
       (verdict <=> Evaluate(cell, records))

FormalLoad == MixedLoad(cell, FormalRate(cell, B0Max(results)), cell.formal_s)

(* Every request of a load is outstanding or has one receipt.              *)
Accounts ==
  /\ cell.kind # "mixed" /\ phase \in {"capacity", "writing", "done"} =>
       \A k \in Keys(cell) :
         pending[k] + Cardinality(AtRate(records, k)) = RequestCap(cell, k)
  /\ phase = "formal" =>
       \A t \in Keys(cell) :
         pending[t] + Cardinality(TenantRecords(records, t)) = FormalLoad[t]

IInv == WellTyped /\ Position /\ Written /\ Outcome /\ Accounts

LEMMA InitIInv == Init => IInv
<1> SUFFICES ASSUME Init PROVE IInv
  OBVIOUS
<1>1. /\ cell \in Cells /\ phase = "start" /\ at = 1 /\ pending = <<>>
      /\ records = <<>> /\ results = <<>> /\ isolated = <<>> /\ verdict = None
      /\ lines = [f \in ReceiptFiles |-> 0] /\ files = {} /\ exit = None
  BY DEF Init
<1>2. /\ DOMAIN <<>> = {} /\ <<>> \in [{} -> Latencies]
      /\ <<>> \in Seq(ReceiptsOf(cell)) /\ <<>> \in Seq(Points)
  OBVIOUS
<1>3. WellTyped
  BY <1>1, <1>2 DEF WellTyped
<1>. QED
  BY <1>1, <1>3, NoneAssumption
  DEF IInv, Position, Written, Outcome, Accounts, EvidenceMeansComplete, Running

-----------------------------------------------------------------------------
(* Ways to begin a phase.                                                  *)
Entered ==
  /\ phase' \in Running \ {"capacity"}
  /\ at' \in Nat \ {0}
  /\ pending' \in [Keys(cell) -> Nat]
  /\ records' = <<>>
  /\ phase' = "scan" => at' \in DOMAIN cell.points
  /\ phase' = "isolation" => at' \in DOMAIN cell.order

LEMMA MixedCell ==
  ASSUME NEW c \in Cells, c.kind = "mixed"
  PROVE  /\ c.factor \in Nat /\ c.warmup_s \in Nat /\ c.formal_s \in Nat
         /\ c.isolation_s \in Nat /\ c.per_point_s \in Nat
         /\ c.order \in Seq(Tenants(c)) /\ c.order # <<>>
         /\ c.points \in Seq(Nat)
         /\ c.isolation \in [Tenants(c) -> Nat \cup {None}]
<1>1. /\ c.factor \in 0 .. 100
      /\ {c.per_point_s, c.isolation_s, c.warmup_s, c.formal_s} \subseteq Nat
      /\ c.order \in Seq(Tenants(c)) /\ c.order # <<>>
      /\ c.points \in Seq(Nat)
      /\ c.isolation \in [Tenants(c) -> Nat \cup {None}]
  BY CellsAssumption
<1>2. /\ c.per_point_s \in Nat /\ c.isolation_s \in Nat
      /\ c.warmup_s \in Nat /\ c.formal_s \in Nat
  BY <1>1
<1>3. c.factor \in Nat
  <2>1. c.factor \in 0 .. 100
    BY <1>1
  <2>. QED  BY <2>1
<1>. QED  BY <1>1, <1>2, <1>3

LEMMA FormalRateType ==
  ASSUME NEW c \in Cells, c.kind = "mixed", NEW b \in Nat
  PROVE  FormalRate(c, b) \in Nat
BY MixedCell, ProductType DEF FormalRate

LEMMA BeginFormalEnters ==
  ASSUME cell \in Cells, cell.kind = "mixed", NEW b \in Nat, BeginFormal(b)
  PROVE  /\ Entered /\ phase' = "formal"
         /\ pending' = MixedLoad(cell, FormalRate(cell, b), cell.formal_s)
<1>1. MixedLoad(cell, FormalRate(cell, b), cell.formal_s) \in [Keys(cell) -> Nat]
  BY MixedCell, FormalRateType, MixedLoadType
<1>. QED  BY <1>1 DEF BeginFormal, Begin, Entered, Running

LEMMA BeginLoadEnters ==
  ASSUME cell \in Cells, cell.kind = "mixed", NEW b \in Nat, BeginLoad(b)
  PROVE  /\ Entered
         /\ phase' = "formal" =>
              pending' = MixedLoad(cell, FormalRate(cell, b), cell.formal_s)
<1>1. CASE cell.warmup_s > 0 /\ FormalRate(cell, b) > 0
  <2>1. MixedLoad(cell, FormalRate(cell, b), cell.warmup_s) \in [Keys(cell) -> Nat]
    BY MixedCell, FormalRateType, MixedLoadType
  <2>. QED  BY <1>1, <2>1 DEF BeginLoad, Begin, Entered, Running
<1>2. CASE ~(cell.warmup_s > 0 /\ FormalRate(cell, b) > 0)
  BY <1>2, BeginFormalEnters DEF BeginLoad
<1>. QED  BY <1>1, <1>2

LEMMA BeginScanEnters ==
  ASSUME cell \in Cells, cell.kind = "mixed",
         NEW i \in DOMAIN cell.points, BeginScan(i)
  PROVE  Entered /\ phase' = "scan"
<1>1. /\ cell.points \in Seq(Nat) /\ cell.per_point_s \in Nat
      /\ cell.points[i] \in Nat /\ i \in Nat \ {0}
  BY MixedCell, Positions
<1>2. MixedLoad(cell, 100 * cell.points[i], cell.per_point_s) \in [Keys(cell) -> Nat]
  BY <1>1, ProductType, MixedLoadType
<1>. QED  BY <1>1, <1>2 DEF BeginScan, Begin, Entered, Running

LEMMA BeginIsolationEnters ==
  ASSUME cell \in Cells, cell.kind = "mixed", NEW b \in Nat,
         NEW i \in DOMAIN cell.order, BeginIsolation(i, b)
  PROVE  Entered /\ phase' = "isolation"
<1> DEFINE t == cell.order[i]
<1>1. t \in Tenants(cell) /\ cell.isolation_s \in Nat /\ i \in Nat \ {0}
  BY MixedCell, Positions
<1>2. cell.isolation[t] \in Nat \cup {None}
  BY <1>1, MixedCell
<1>3. IsolationRate(cell, t, b) \in Nat
  BY <1>2 DEF IsolationRate
<1>4. IsolatedLoad(cell, t, IsolationRate(cell, t, b), cell.isolation_s)
        \in [Keys(cell) -> Nat]
  BY <1>1, <1>3, MixedLoadType
<1>. QED  BY <1>1, <1>4 DEF BeginIsolation, Begin, Entered, Running

LEMMA AfterScanEnters ==
  ASSUME cell \in Cells, cell.kind = "mixed", NEW b \in Nat, AfterScan(b)
  PROVE  /\ Entered
         /\ phase' = "formal" =>
              pending' = MixedLoad(cell, FormalRate(cell, b), cell.formal_s)
<1>1. 1 \in DOMAIN cell.order
  BY MixedCell, Positions, EmptySeq
<1>. QED  BY <1>1, BeginIsolationEnters, BeginLoadEnters DEF AfterScan

-----------------------------------------------------------------------------
(* The steps.                                                              *)
LEMMA NoReceipts ==
  /\ \A k : AtRate(<<>>, k) = {} /\ TenantRecords(<<>>, k) = {}
  /\ Cardinality({}) = 0
BY FS_EmptySet DEF AtRate, TenantRecords

LEMMA EnterKeepsIInv ==
  ASSUME IInv, cell.kind = "mixed", Entered, phase \in Running \cup {"start"},
         UNCHANGED <<cell, verdict, lines, files, exit>>,
         results' \in Seq(Points),
         \E T \in SUBSET Tenants(cell) : isolated' \in [T -> Latencies],
         phase' = "formal" => pending' = FormalLoad'
  PROVE  IInv'
<1>1. /\ files' = {} /\ exit' # 0 /\ phase \notin Ended \cup {"writing"}
      /\ phase' \notin Ended \cup {"start", "writing", "capacity"}
  BY DEF IInv, Written, Outcome, Entered, Running, Ended
<1>2. DOMAIN pending' = Keys(cell) /\ \A k \in Keys(cell) : pending'[k] \in Nat
  BY DEF Entered
<1>3. records' = <<>> /\ <<>> \in Seq(ReceiptsOf(cell))
  BY DEF Entered
<1>4. WellTyped'
  BY <1>2, <1>3 DEF IInv, WellTyped, Entered
<1>5. Position'
  BY <1>1, <1>2 DEF Position, Entered, Ended, Running
<1>6. Written' /\ Outcome'
  BY <1>1 DEF Written, EvidenceMeansComplete, Outcome, Ended
<1>7. Accounts'
  <2>1. ASSUME phase' = "formal", NEW t \in Keys(cell)
        PROVE  pending'[t] + Cardinality(TenantRecords(records', t)) = FormalLoad'[t]
    <3>1. Cardinality(TenantRecords(records', t)) = 0
      BY <1>3, NoReceipts
    <3>2. PICK n \in Nat : n = pending'[t]
      BY <1>2
    <3>3. FormalLoad'[t] = n
      BY <2>1, <3>2
    <3>. QED  BY <3>1, <3>2, <3>3
  <2>. QED  BY <1>1, <2>1 DEF Accounts, Ended
<1>. QED  BY <1>4, <1>5, <1>6, <1>7 DEF IInv

LEMMA EmptyB0Max == B0Max(<<>>) = 0
BY DEF B0Max, Compliant

LEMMA StartStep ==
  ASSUME IInv, Start
  PROVE  IInv'
<1>1. /\ phase = "start" /\ cell \in Cells /\ records = <<>> /\ results = <<>>
      /\ UNCHANGED <<cell, results, isolated, verdict, lines, files, exit>>
  BY DEF IInv, WellTyped, Position, Start
<1>2. CASE cell.kind # "mixed"
  <2>1. /\ phase' = "capacity" /\ at' = 1 /\ records' = <<>>
        /\ pending' = CapacityLoad(cell)
    BY <1>2 DEF Start, Begin
  <2>2. pending' \in [Keys(cell) -> Nat] /\ Keys(cell) = Rates(cell)
    BY <1>1, <1>2, <2>1, CapacityLoadType DEF Keys
  <2>3. <<>> \in Seq(ReceiptsOf(cell))
    OBVIOUS
  <2>4. WellTyped' /\ Position'
    BY <1>1, <1>2, <2>1, <2>2, <2>3 DEF IInv, WellTyped, Position, Running
  <2>5. Written' /\ Outcome'
    BY <1>1, <2>1 DEF IInv, Written, EvidenceMeansComplete, Outcome, Running
  <2>6. Accounts'
    <3>1. ASSUME NEW k \in Keys(cell)
          PROVE  pending'[k] + Cardinality(AtRate(records', k)) = RequestCap(cell, k)
      <4>1. pending'[k] = RequestCap(cell, k)
        BY <2>1, <2>2 DEF CapacityLoad
      <4>2. PICK n \in Nat : n = pending'[k]
        BY <2>2
      <4>3. Cardinality(AtRate(records', k)) = 0
        BY <2>1, NoReceipts
      <4>. QED  BY <4>1, <4>2, <4>3
    <3>. QED  BY <1>1, <2>1, <3>1 DEF Accounts
  <2>. QED  BY <2>4, <2>5, <2>6 DEF IInv
<1>3. CASE cell.kind = "mixed"
  <2>1. (BeginScan(1) /\ cell.points # <<>>) \/ AfterScan(0)
    BY <1>3 DEF Start
  <2>2. Entered /\ (phase' = "formal" => pending' = FormalLoad')
    <3>1. CASE BeginScan(1) /\ cell.points # <<>>
      <4>1. 1 \in DOMAIN cell.points
        BY <1>1, <1>3, <3>1, MixedCell, Positions, EmptySeq
      <4>. QED  BY <1>1, <1>3, <3>1, <4>1, BeginScanEnters
    <3>2. CASE AfterScan(0)
      <4>1. B0Max(results') = 0 /\ cell' = cell
        BY <1>1, EmptyB0Max
      <4>. QED  BY <1>1, <1>3, <3>2, <4>1, AfterScanEnters DEF FormalLoad
    <3>. QED  BY <2>1, <3>1, <3>2
  <2>3. /\ results' \in Seq(Points)
        /\ \E T \in SUBSET Tenants(cell) : isolated' \in [T -> Latencies]
    BY <1>1, <1>3 DEF IInv, WellTyped
  <2>. QED  BY <1>1, <1>3, <2>2, <2>3, EnterKeepsIInv
<1>. QED  BY <1>2, <1>3

LEMMA StopStep ==
  ASSUME IInv, Refuse \/ Raise \/ PrintFails
  PROVE  IInv'
<1>1. /\ phase' = "raised" /\ exit' = 1
      /\ UNCHANGED <<cell, at, pending, records, results, isolated, verdict, lines, files>>
  BY DEF Refuse, Raise, PrintFails
<1>2. WellTyped' /\ Position'
  BY <1>1 DEF IInv, WellTyped, Position, Running, Ended
<1>3. Written' /\ Outcome' /\ Accounts'
  BY <1>1 DEF IInv, Written, EvidenceMeansComplete, Outcome, Accounts, Running
<1>. QED  BY <1>2, <1>3 DEF IInv

LEMMA EndScanPointStep ==
  ASSUME IInv, EndScanPoint
  PROVE  IInv'
<1>1. /\ phase = "scan" /\ cell \in Cells /\ cell.kind = "mixed"
      /\ at \in DOMAIN cell.points /\ results \in Seq(Points)
      /\ UNCHANGED <<cell, isolated, verdict, lines, files, exit>>
  BY DEF IInv, WellTyped, Position, EndScanPoint, Gathered, Running
<1>2. results' \in Seq(Points)
  <2>1. cell.points[at] \in Nat
    BY <1>1, MixedCell, Positions
  <2>2. EvaluateScanPoint(cell, records) \in BOOLEAN
    BY DEF EvaluateScanPoint
  <2>3. [token_rate |-> cell.points[at],
         slo_compliant |-> EvaluateScanPoint(cell, records)] \in Points
    BY <2>1, <2>2 DEF Points
  <2>. QED  BY <1>1, <2>3, AppendProperties DEF EndScanPoint
<1>3. Entered /\ (phase' = "formal" => pending' = FormalLoad')
  <2>1. CASE at < Len(cell.points)
    <3>1. BeginScan(at + 1)
      BY <2>1 DEF EndScanPoint
    <3>2. at + 1 \in DOMAIN cell.points
      BY <1>1, <2>1, MixedCell, Positions
    <3>. QED  BY <1>1, <3>1, <3>2, BeginScanEnters
  <2>2. CASE ~(at < Len(cell.points))
    <3>1. AfterScan(B0Max(results'))
      BY <2>2 DEF EndScanPoint
    <3>2. PICK b \in Nat : b = B0Max(results')
      BY <1>2, B0MaxIsCompliant
    <3>. QED  BY <1>1, <3>1, <3>2, AfterScanEnters DEF FormalLoad
  <2>. QED  BY <2>1, <2>2
<1>4. \E T \in SUBSET Tenants(cell) : isolated' \in [T -> Latencies]
  BY <1>1 DEF IInv, WellTyped
<1>. QED  BY <1>1, <1>2, <1>3, <1>4, EnterKeepsIInv DEF Running

LEMMA EndIsolationStep ==
  ASSUME IInv, EndIsolation
  PROVE  IInv'
<1>1. /\ phase = "isolation" /\ cell \in Cells /\ cell.kind = "mixed"
      /\ at \in DOMAIN cell.order /\ results \in Seq(Points)
      /\ records \in Seq(ReceiptsOf(cell))
      /\ UNCHANGED <<cell, results, verdict, lines, files, exit>>
  BY DEF IInv, WellTyped, Position, EndIsolation, Gathered, Running
<1>2. PICK b \in Nat : b = B0Max(results)
  BY <1>1, B0MaxIsCompliant
<1>3. Entered /\ (phase' = "formal" => pending' = FormalLoad')
  <2>1. CASE at < Len(cell.order)
    <3>1. BeginIsolation(at + 1, b)
      BY <1>2, <2>1 DEF EndIsolation
    <3>2. at + 1 \in DOMAIN cell.order
      BY <1>1, <2>1, MixedCell, Positions
    <3>. QED  BY <1>1, <3>1, <3>2, BeginIsolationEnters
  <2>2. CASE ~(at < Len(cell.order))
    <3>1. BeginLoad(b)
      BY <1>2, <2>2 DEF EndIsolation
    <3>. QED  BY <1>1, <1>2, <3>1, BeginLoadEnters DEF FormalLoad
  <2>. QED  BY <2>1, <2>2
<1>4. \E T \in SUBSET Tenants(cell) : isolated' \in [T -> Latencies]
  <2> DEFINE t == cell.order[at]
  <2>1. PICK T \in SUBSET Tenants(cell) : isolated \in [T -> Latencies]
    BY <1>1 DEF IInv, WellTyped
  <2>2. t \in Tenants(cell)
    BY <1>1, MixedCell, Positions
  <2>3. PICK base \in Latencies : base = Baseline(records, DOMAIN records)
    BY <1>1, BaselineType
  <2>4. isolated' = [s \in T \cup {t} |-> IF s = t THEN base ELSE isolated[s]]
    BY <2>1, <2>3 DEF EndIsolation
  <2>5. isolated' \in [T \cup {t} -> Latencies]
    BY <2>1, <2>4
  <2>. QED  BY <2>2, <2>5
<1>. QED  BY <1>1, <1>3, <1>4, EnterKeepsIInv DEF Running

LEMMA EndWarmupStep ==
  ASSUME IInv, EndWarmup
  PROVE  IInv'
<1>1. /\ phase = "warmup" /\ cell \in Cells /\ cell.kind = "mixed"
      /\ results \in Seq(Points)
      /\ UNCHANGED <<cell, results, isolated, verdict, lines, files, exit>>
  BY DEF IInv, WellTyped, Position, EndWarmup, Gathered, Running
<1>2. PICK b \in Nat : b = B0Max(results)
  BY <1>1, B0MaxIsCompliant
<1>3. Entered /\ (phase' = "formal" => pending' = FormalLoad')
  BY <1>1, <1>2, BeginFormalEnters DEF EndWarmup, FormalLoad
<1>4. \E T \in SUBSET Tenants(cell) : isolated' \in [T -> Latencies]
  BY <1>1 DEF IInv, WellTyped
<1>. QED  BY <1>1, <1>3, <1>4, EnterKeepsIInv DEF Running

-----------------------------------------------------------------------------
(* One more receipt.                                                       *)
LEMMA Appended ==
  ASSUME NEW S, NEW rs \in Seq(S), NEW r \in S
  PROVE  /\ Append(rs, r) \in Seq(S)
         /\ DOMAIN Append(rs, r) = DOMAIN rs \cup {Len(rs) + 1}
         /\ Len(rs) + 1 \notin DOMAIN rs
         /\ Append(rs, r)[Len(rs) + 1] = r
         /\ \A i \in DOMAIN rs : Append(rs, r)[i] = rs[i]
         /\ IsFiniteSet(DOMAIN rs)
<1>1. /\ Append(rs, r) \in Seq(S) /\ Len(Append(rs, r)) = Len(rs) + 1
      /\ Append(rs, r)[Len(rs) + 1] = r
      /\ \A i \in 1 .. Len(rs) : Append(rs, r)[i] = rs[i]
  BY AppendProperties
<1>2. /\ DOMAIN rs = 1 .. Len(rs) /\ Len(rs) \in Nat /\ IsFiniteSet(DOMAIN rs)
      /\ DOMAIN Append(rs, r) = 1 .. Len(rs) + 1
  BY <1>1, Positions
<1>. QED  BY <1>1, <1>2

LEMMA OneMore ==
  ASSUME NEW S, NEW rs \in Seq(S), NEW r \in S,
         NEW bucket \in SUBSET DOMAIN rs
  PROVE  /\ Cardinality(bucket) \in Nat
         /\ Cardinality(bucket \cup {Len(rs) + 1}) = Cardinality(bucket) + 1
<1>1. IsFiniteSet(bucket) /\ Len(rs) + 1 \notin bucket
  BY Appended, FS_Subset
<1>. QED  BY <1>1, FS_CardinalityType, FS_AddElement

LEMMA AppendCounts ==
  ASSUME NEW S, NEW rs \in Seq(S), NEW r \in S, NEW k
  PROVE  /\ Cardinality(AtRate(rs, k)) \in Nat
         /\ Cardinality(TenantRecords(rs, k)) \in Nat
         /\ Cardinality(AtRate(Append(rs, r), k))
              = Cardinality(AtRate(rs, k)) + (IF r.rate = k THEN 1 ELSE 0)
         /\ Cardinality(TenantRecords(Append(rs, r), k))
              = Cardinality(TenantRecords(rs, k)) + (IF r.tenant = k THEN 1 ELSE 0)
<1>1. /\ AtRate(Append(rs, r), k)
           = AtRate(rs, k) \cup (IF r.rate = k THEN {Len(rs) + 1} ELSE {})
      /\ TenantRecords(Append(rs, r), k)
           = TenantRecords(rs, k) \cup (IF r.tenant = k THEN {Len(rs) + 1} ELSE {})
  BY Appended DEF AtRate, TenantRecords
<1>2. AtRate(rs, k) \in SUBSET DOMAIN rs /\ TenantRecords(rs, k) \in SUBSET DOMAIN rs
  BY DEF AtRate, TenantRecords
<1>3. Cardinality(AtRate(rs, k)) \in Nat /\ Cardinality(TenantRecords(rs, k)) \in Nat
  BY <1>2, OneMore
<1>4. Cardinality(AtRate(Append(rs, r), k))
        = Cardinality(AtRate(rs, k)) + (IF r.rate = k THEN 1 ELSE 0)
  <2>1. CASE r.rate = k
    BY <1>1, <1>2, <2>1, OneMore
  <2>2. CASE r.rate # k
    BY <1>1, <1>3, <2>2
  <2>. QED  BY <2>1, <2>2
<1>5. Cardinality(TenantRecords(Append(rs, r), k))
        = Cardinality(TenantRecords(rs, k)) + (IF r.tenant = k THEN 1 ELSE 0)
  <2>1. CASE r.tenant = k
    BY <1>1, <1>2, <2>1, OneMore
  <2>2. CASE r.tenant # k
    BY <1>1, <1>3, <2>2
  <2>. QED  BY <2>1, <2>2
<1>. QED  BY <1>3, <1>4, <1>5

LEMMA AnswerStep ==
  ASSUME IInv, NEW k \in DOMAIN pending, NEW r \in Answers(cell, k), Answer(k, r)
  PROVE  IInv'
<1>1. /\ phase \in Running /\ cell \in Cells /\ k \in Keys(cell)
      /\ records' = Append(records, r) /\ records \in Seq(ReceiptsOf(cell))
      /\ UNCHANGED <<cell, phase, at, results, isolated, verdict, files, exit>>
  BY DEF IInv, WellTyped, Position, Answer
<1>2. /\ r \in ReceiptsOf(cell)
      /\ IF cell.kind = "mixed" THEN r.tenant = k ELSE r.rate = k
  BY <1>1, AnswersAssumption DEF ReceiptsOf
<1>3. PICK n \in Nat : n = pending[k] /\ n > 0
  BY DEF IInv, WellTyped, Answer
<1>4. /\ DOMAIN pending' = DOMAIN pending
      /\ pending'[k] = n - 1 /\ n - 1 \in Nat
      /\ \A j \in DOMAIN pending \ {k} : pending'[j] = pending[j]
  BY <1>3 DEF Answer
<1>5. lines' \in [ReceiptFiles -> Nat]
  <2>1. lines \in [ReceiptFiles -> Nat]
    BY DEF IInv, WellTyped
  <2>2. CASE phase \in DOMAIN ReceiptFile
    <3>1. PICK f \in ReceiptFiles : f = ReceiptFile[phase]
      BY <2>2 DEF ReceiptFiles
    <3>2. lines' = [lines EXCEPT ![f] = @ + 1] /\ lines[f] + 1 \in Nat
      BY <2>1, <2>2, <3>1 DEF Answer
    <3>. QED  BY <2>1, <3>2
  <2>3. CASE phase \notin DOMAIN ReceiptFile
    BY <2>1, <2>3 DEF Answer
  <2>. QED  BY <2>2, <2>3
<1>6. records' \in Seq(ReceiptsOf(cell))
  BY <1>1, <1>2, Appended
<1>7. \A j \in DOMAIN pending' : pending'[j] \in Nat
  BY <1>4 DEF IInv, WellTyped
<1>8. WellTyped'
  BY <1>1, <1>5, <1>6, <1>7 DEF IInv, WellTyped
<1>9. Position'
  BY <1>1, <1>4 DEF IInv, Position, Running
<1>10. Written' /\ Outcome'
  BY <1>1 DEF IInv, Written, EvidenceMeansComplete, Outcome, Running
<1>11. Accounts'
  <2>1. DOMAIN pending = Keys(cell) /\ \A j \in Keys(cell) : pending[j] \in Nat
    BY <1>1 DEF IInv, WellTyped, Position
  <2>2. ASSUME cell.kind # "mixed", phase = "capacity", NEW j \in Keys(cell)
        PROVE  pending'[j] + Cardinality(AtRate(records', j)) = RequestCap(cell, j)
    <3>1. pending[j] + Cardinality(AtRate(records, j)) = RequestCap(cell, j)
      BY <2>2 DEF IInv, Accounts
    <3>2. PICK c \in Nat : c = Cardinality(AtRate(records, j))
      BY <1>1, <1>2, AppendCounts
    <3>3. Cardinality(AtRate(records', j)) = c + (IF r.rate = j THEN 1 ELSE 0)
      BY <1>1, <1>2, <3>2, AppendCounts
    <3>4. CASE j = k
      BY <1>2, <1>3, <1>4, <2>2, <3>1, <3>2, <3>3, <3>4
    <3>5. CASE j # k
      <4>1. pending'[j] = pending[j] /\ Cardinality(AtRate(records', j)) = c
        BY <1>2, <1>4, <2>1, <2>2, <3>3, <3>5
      <4>. QED  BY <3>1, <3>2, <4>1
    <3>. QED  BY <3>4, <3>5
  <2>3. ASSUME phase = "formal", NEW j \in Keys(cell)
        PROVE  pending'[j] + Cardinality(TenantRecords(records', j)) = FormalLoad[j]
    <3>1. pending[j] + Cardinality(TenantRecords(records, j)) = FormalLoad[j]
      BY <2>3 DEF IInv, Accounts
    <3>2. PICK c \in Nat : c = Cardinality(TenantRecords(records, j))
      BY <1>1, <1>2, AppendCounts
    <3>3. Cardinality(TenantRecords(records', j)) = c + (IF r.tenant = j THEN 1 ELSE 0)
      BY <1>1, <1>2, <3>2, AppendCounts
    <3>4. cell.kind = "mixed"
      BY <2>3 DEF IInv, Position, Running
    <3>5. CASE j = k
      BY <1>2, <1>3, <1>4, <2>3, <3>1, <3>2, <3>3, <3>4, <3>5
    <3>6. CASE j # k
      <4>1. pending'[j] = pending[j] /\ Cardinality(TenantRecords(records', j)) = c
        BY <1>2, <1>4, <2>1, <2>3, <3>3, <3>4, <3>6
      <4>. QED  BY <3>1, <3>2, <4>1
    <3>. QED  BY <3>5, <3>6
  <2>4. FormalLoad' = FormalLoad
    BY <1>1 DEF FormalLoad
  <2>. QED  BY <1>1, <2>2, <2>3, <2>4 DEF Accounts, Running
<1>. QED  BY <1>8, <1>9, <1>10, <1>11 DEF IInv

LEMMA VerdictType ==
  /\ \A c, rs : Evaluate(c, rs) \in BOOLEAN
  /\ \A c, rs, b : EvaluateFormal(c, rs, b) \in BOOLEAN
BY DEF Evaluate, EvaluateFormal

LEMMA JudgeStep ==
  ASSUME IInv, Judge
  PROVE  IInv'
<1>1. /\ phase \in {"capacity", "formal"} /\ phase' = "writing" /\ at' = 1
      /\ \A k \in DOMAIN pending : pending[k] = 0
      /\ files = {} /\ exit # 0
      /\ UNCHANGED <<cell, pending, records, results, isolated, lines, files, exit>>
  BY DEF IInv, Written, Outcome, Judge, Gathered, Running
<1>2. /\ verdict' \in BOOLEAN
      /\ cell.kind # "mixed" => (verdict' <=> Evaluate(cell, records))
  BY <1>1, VerdictType DEF IInv, Position, Judge, Running
<1>3. WellTyped' /\ Position'
  BY <1>1, <1>2 DEF IInv, WellTyped, Position, Running
<1>4. Written'
  BY <1>1, <1>2 DEF Written, EvidenceMeansComplete, Running
<1>5. Outcome'
  BY <1>1, <1>2 DEF Outcome
<1>6. Accounts'
  <2>1. cell.kind # "mixed" => phase = "capacity"
    BY <1>1 DEF IInv, Position, Running
  <2>. QED  BY <1>1, <2>1 DEF IInv, Accounts
<1>. QED  BY <1>3, <1>4, <1>5, <1>6 DEF IInv

LEMMA SixFiles == Len(ResultFiles) = 6 /\ DOMAIN ResultFiles = 1 .. 6
BY DEF ResultFiles

(* The evidence is the sixth file.                                         *)
LEMMA EvidenceIsLast ==
  \A i \in 1 .. 6 : ResultFiles[i] = "evidence.json" <=> i = 6
BY DEF ResultFiles

LEMMA WriteStep ==
  ASSUME IInv, Write
  PROVE  IInv'
<1>1. /\ phase = "writing" /\ at \in 1 .. 6 /\ verdict \in BOOLEAN
      /\ at' = at + 1 /\ files' = files \cup {ResultFiles[at]}
      /\ files = {ResultFiles[i] : i \in 1 .. at - 1}
      /\ \A k \in DOMAIN pending : pending[k] = 0
      /\ UNCHANGED <<cell, phase, pending, records, results, isolated, verdict, lines, exit>>
  BY SixFiles DEF IInv, WellTyped, Written, Write
<1>2. files' = {ResultFiles[i] : i \in 1 .. at' - 1}
  <2>1. 1 .. at' - 1 = (1 .. at - 1) \cup {at}
    BY <1>1
  <2>. QED  BY <1>1, <2>1
<1>3. WellTyped' /\ Position'
  BY <1>1 DEF IInv, WellTyped, Position, Running
<1>4. Written'
  <2>1. files' \subseteq {ResultFiles[i] : i \in DOMAIN ResultFiles}
    BY <1>1, <1>2, SixFiles
  <2>2. "evidence.json" \in files' => at = 6
    BY <1>1, <1>2, EvidenceIsLast
  <2>3. at = 6 => files' = {ResultFiles[i] : i \in DOMAIN ResultFiles}
    BY <1>1, <1>2, SixFiles
  <2>. QED
    BY <1>1, <1>2, <2>1, <2>2, <2>3 DEF Written, EvidenceMeansComplete, Running
<1>5. Outcome' /\ Accounts'
  BY <1>1 DEF IInv, Outcome, Accounts
<1>. QED  BY <1>3, <1>4, <1>5 DEF IInv

LEMMA ExitStep ==
  ASSUME IInv, Exit
  PROVE  IInv'
<1>1. /\ phase = "writing" /\ phase' = "done" /\ verdict \in BOOLEAN /\ Printable(cell)
      /\ exit' = IF verdict THEN 0 ELSE 1
      /\ UNCHANGED <<cell, at, pending, records, results, isolated, verdict, lines, files>>
  BY DEF IInv, Written, Exit
<1>2. WellTyped' /\ Position'
  BY <1>1 DEF IInv, WellTyped, Position, Running, Ended
<1>3. Written' /\ Outcome' /\ Accounts'
  BY <1>1 DEF IInv, Written, EvidenceMeansComplete, Outcome, Accounts, Running
<1>. QED  BY <1>2, <1>3 DEF IInv

LEMMA NextIInv ==
  ASSUME IInv, [Next]_vars
  PROVE  IInv'
<1>1. CASE UNCHANGED vars
  BY <1>1 DEF vars, IInv, WellTyped, Position, Written, EvidenceMeansComplete, Outcome,
              Accounts, FormalLoad
<1>2. CASE Start
  BY <1>2, StartStep
<1>3. CASE Refuse \/ Raise \/ PrintFails
  BY <1>3, StopStep
<1>4. ASSUME NEW k \in DOMAIN pending, NEW r \in Answers(cell, k), Answer(k, r)
      PROVE  IInv'
  BY <1>4, AnswerStep
<1>5. CASE EndScanPoint
  BY <1>5, EndScanPointStep
<1>6. CASE EndIsolation
  BY <1>6, EndIsolationStep
<1>7. CASE EndWarmup
  BY <1>7, EndWarmupStep
<1>8. CASE Judge
  BY <1>8, JudgeStep
<1>9. CASE Write
  BY <1>9, WriteStep
<1>10. CASE Exit
  BY <1>10, ExitStep
<1>. QED
  BY <1>1, <1>2, <1>3, <1>4, <1>5, <1>6, <1>7, <1>8, <1>9, <1>10 DEF Next, Proceed

LEMMA Inductive == Spec => []IInv
BY InitIInv, NextIInv, PTL DEF Spec

(* A run is always in a state of the declared kind.                        *)
THEOREM TypeCorrect == Spec => []TypeOK
<1>1. IInv => TypeOK
  <2> SUFFICES ASSUME IInv PROVE TypeOK
    OBVIOUS
  <2>1. \A i \in DOMAIN results : results[i].slo_compliant \in BOOLEAN
    <3>1. results \in Seq(Points)
      BY DEF IInv, WellTyped
    <3>2. \A i \in DOMAIN results : results[i] \in Points
      BY <3>1, Positions
    <3>. QED  BY <3>2 DEF Points
  <2>. QED  BY <2>1 DEF IInv, WellTyped, Written, TypeOK
<1>. QED  BY Inductive, <1>1, PTL

(* Whatever interrupts a run, evidence.json on disk means a judged run, no *)
(* request outstanding and every other result file beside it.              *)
THEOREM EvidenceIsComplete == Spec => []EvidenceMeansComplete
<1>1. IInv => EvidenceMeansComplete
  BY DEF IInv, Written
<1>. QED  BY Inductive, <1>1, PTL

-----------------------------------------------------------------------------
(* The formal load.                                                        *)
LEMMA CeilDivBound ==
  ASSUME NEW a \in Nat, NEW b \in Nat \ {0}, CeilDiv(a, b) > 0
  PROVE  a > 0 /\ (CeilDiv(a, b) - 1) * b < a
<1>1. PICK n \in Nat : n = a + b - 1
  OBVIOUS
<1>2. PICK q \in Nat : q = n \div b
  OBVIOUS
<1>3. PICK r \in Nat : r < b /\ n = b * q + r
  <2>1. n = b * (n \div b) + (n % b) /\ n % b \in 0 .. b - 1
    OBVIOUS
  <2>. QED  BY <1>2, <2>1
<1>4. CeilDiv(a, b) = q /\ q > 0
  BY <1>1, <1>2 DEF CeilDiv
<1>5. (q - 1) * b = q * b - b /\ q * b = b * q
  OBVIOUS
<1>6. PICK qb \in Nat : qb = b * q
  OBVIOUS
<1>7. qb >= b
  <2>1. PICK p \in Nat : q = p + 1
    <3>1. q - 1 \in Nat /\ q = (q - 1) + 1
      BY <1>4
    <3>. QED  BY <3>1
  <2>2. b * q = b * p + b /\ b * p \in Nat
    BY <2>1
  <2>. QED  BY <1>6, <2>2
<1>8. a > 0
  BY <1>1, <1>3, <1>6, <1>7
<1>9. qb - b < a
  BY <1>1, <1>3, <1>6
<1>. QED  BY <1>4, <1>5, <1>6, <1>8, <1>9

(* (sent - 1) requests of cost cost stay below factor percent of the load. *)
LEMMA PercentOfLoad ==
  ASSUME NEW less \in Nat, NEW cost \in Nat, NEW factor \in Nat, factor <= 100,
         NEW load \in Nat, less * (10000 * cost) < factor * load
  PROVE  less * 100 * cost < load
<1>1. PICK x \in Nat : x = less * 100 * cost
  OBVIOUS
<1>2. less * (10000 * cost) = 100 * x
  BY <1>1
<1>3. factor * load <= 100 * load /\ factor * load \in Nat
  <2>1. PICK d \in Nat : 100 = factor + d
    <3>1. 100 - factor \in Nat /\ 100 = factor + (100 - factor)
      OBVIOUS
    <3>. QED  BY <3>1
  <2>2. 100 * load = factor * load + d * load /\ d * load \in Nat /\ factor * load \in Nat
    BY <2>1
  <2>. QED  BY <2>2
<1>. QED  BY <1>1, <1>2, <1>3

LEMMA BelowCapacity == IInv => FormalBelowCapacity
<1> SUFFICES ASSUME IInv, phase = "formal", NEW t \in Tenants(cell),
                    NEW sent, sent > 0,
                    sent = pending[t] + Cardinality(TenantRecords(records, t))
             PROVE  \E p \in Compliant(results) :
                      (sent - 1) * 100 * cell.costs[t] < p * cell.shares[t] * cell.formal_s
  BY DEF FormalBelowCapacity
<1>1. /\ cell \in Cells /\ cell.kind = "mixed" /\ results \in Seq(Points)
      /\ Keys(cell) = Tenants(cell)
  BY DEF IInv, WellTyped, Position, Running, Keys
<1>2. PICK b \in Nat : b = B0Max(results) /\ (b > 0 => b \in Compliant(results))
  BY <1>1, B0MaxIsCompliant
<1>3. PICK cost \in Nat \ {0} : cost = cell.costs[t]
  BY <1>1, CellsAssumption
<1>4. PICK share \in Nat : share = cell.shares[t]
  <2>1. cell.shares[t] \in 0 .. 100
    BY <1>1, CellsAssumption
  <2>. QED  BY <2>1
<1>5. PICK factor \in Nat : factor = cell.factor /\ factor <= 100
  <2>1. cell.factor \in 0 .. 100
    BY <1>1, CellsAssumption
  <2>. QED  BY <2>1
<1>6. PICK formal_s \in Nat : formal_s = cell.formal_s
  BY <1>1, MixedCell
<1>7. PICK load \in Nat : load = b * share * formal_s
  BY ProductType
<1>8. PICK n \in Nat : n = factor * load /\ n = factor * b * share * formal_s
  BY <1>7, ProductType
<1>9. PICK d \in Nat \ {0} : d = 10000 * cost
  OBVIOUS
<1>10. sent = CeilDiv(n, d)
  <2>1. sent = FormalLoad[t]
    BY <1>1 DEF IInv, Accounts
  <2>2. FormalLoad[t] = Requests(cell, t, FormalRate(cell, b), share, formal_s)
    BY <1>1, <1>2, <1>4, <1>6 DEF FormalLoad, MixedLoad
  <2>3. Requests(cell, t, FormalRate(cell, b), share, formal_s) = CeilDiv(n, d)
    BY <1>3, <1>5, <1>8, <1>9 DEF Requests, FormalRate
  <2>. QED  BY <2>1, <2>2, <2>3
<1>11. n > 0 /\ (sent - 1) * d < n /\ sent \in Nat
  BY <1>10, CeilDivBound, CeilDivType
<1>12. b > 0
  <2> SUFFICES ASSUME b = 0 PROVE FALSE
    OBVIOUS
  <2>1. load = 0
    BY <1>7
  <2>. QED  BY <1>8, <1>11, <2>1
<1>13. (sent - 1) * 100 * cost < load
  <2>1. PICK less \in Nat : less = sent - 1
    BY <1>11
  <2>2. less * (10000 * cost) < factor * load
    BY <1>8, <1>9, <1>11, <2>1
  <2>. QED  BY <1>5, <2>1, <2>2, PercentOfLoad
<1>. QED  BY <1>2, <1>3, <1>4, <1>6, <1>7, <1>12, <1>13

(* However the capacity points came out, the formal load asks of no tenant *)
(* more than a compliant point did.                                        *)
THEOREM FormalStaysBelowCapacity == Spec => []FormalBelowCapacity
BY Inductive, BelowCapacity, PTL

-----------------------------------------------------------------------------
(* The latency gates.                                                      *)
Values(f) == IsFiniteSet(DOMAIN f) /\ f \in [DOMAIN f -> Nat]

LEMMA TtftTail ==
  ASSUME NEW c \in Cells, NEW rs \in Seq(ReceiptsOf(c)),
         NEW bucket \in SUBSET DOMAIN rs, NEW H \in Nat,
         DOMAIN TtftOf(rs, bucket) # {} => Percentile(TtftOf(rs, bucket), 99) <= H
  PROVE  TailBounded(TtftOf(rs, bucket), H)
<1>1. PICK f : f = TtftOf(rs, bucket) /\ Values(f)
  BY TtftType DEF Values
<1>. QED  BY <1>1, PercentileBoundsTail DEF Values

LEMMA TpotTail ==
  ASSUME NEW c \in Cells, NEW rs \in Seq(ReceiptsOf(c)),
         NEW bucket \in SUBSET DOMAIN rs, NEW H \in Nat,
         DOMAIN TpotOf(rs, bucket) # {} => Percentile(TpotOf(rs, bucket), 99) <= H
  PROVE  TailBounded(TpotOf(rs, bucket), H)
<1>1. PICK f : f = TpotOf(rs, bucket) /\ Values(f)
  BY TpotType DEF Values
<1>. QED  BY <1>1, PercentileBoundsTail DEF Values

LEMMA GateBoundsTail ==
  ASSUME NEW c \in Cells, NEW rs \in Seq(ReceiptsOf(c)),
         NEW bucket \in SUBSET DOMAIN rs, NEW cap, NEW th, LimitsTyped(th),
         BucketPass(rs, bucket, cap, th, TRUE)
  PROVE  /\ "p99" \in DOMAIN th.ttft => TailBounded(TtftOf(rs, bucket), 100 * th.ttft["p99"])
         /\ "p99" \in DOMAIN th.tpot => TailBounded(TpotOf(rs, bucket), 100 * th.tpot["p99"])
<1>1. ASSUME "p99" \in DOMAIN th.ttft
      PROVE  TailBounded(TtftOf(rs, bucket), 100 * th.ttft["p99"])
  <2>1. PICK H \in Nat : H = 100 * th.ttft["p99"]
    BY <1>1 DEF LimitsTyped
  <2>2. Percentile(TtftOf(rs, bucket), 99) <= H
    BY <1>1, <2>1 DEF BucketPass, LatencyGate
  <2>. QED  BY <2>1, <2>2, TtftTail
<1>2. ASSUME "p99" \in DOMAIN th.tpot
      PROVE  TailBounded(TpotOf(rs, bucket), 100 * th.tpot["p99"])
  <2>1. PICK H \in Nat : H = 100 * th.tpot["p99"]
    BY <1>2 DEF LimitsTyped
  <2>2. Percentile(TpotOf(rs, bucket), 99) <= H
    BY <1>2, <2>1 DEF BucketPass, LatencyGate
  <2>. QED  BY <2>1, <2>2, TpotTail
<1>. QED  BY <1>1, <1>2

(* A whole number of hundredths within 1.25 times another.                 *)
LEMMA QuarterMore ==
  ASSUME NEW p \in Nat, NEW base \in Nat, 4 * p <= 5 * base
  PROVE  (5 * base) \div 4 \in Nat /\ p <= (5 * base) \div 4
OBVIOUS

LEMMA RatioBoundsTail ==
  ASSUME NEW c \in Cells, NEW rs \in Seq(ReceiptsOf(c)),
         NEW bucket \in SUBSET DOMAIN rs, NEW base \in Nat
  PROVE  /\ WithinRatio(Baseline(rs, bucket).ttft, base) =>
              TailBounded(TtftOf(rs, bucket), (5 * base) \div 4)
         /\ WithinRatio(Baseline(rs, bucket).tpot, base) =>
              TailBounded(TpotOf(rs, bucket), (5 * base) \div 4)
<1>1. PICK H \in Nat : H = (5 * base) \div 4
  OBVIOUS
<1>2. ASSUME WithinRatio(Baseline(rs, bucket).ttft, base)
      PROVE  TailBounded(TtftOf(rs, bucket), H)
  <2>1. ASSUME DOMAIN TtftOf(rs, bucket) # {}
        PROVE  Percentile(TtftOf(rs, bucket), 99) <= H
    <3>1. PICK f : f = TtftOf(rs, bucket) /\ Values(f)
      BY TtftType DEF Values
    <3>2. PICK p \in Nat : p = Percentile(f, 99)
      BY <2>1, <3>1, PercentileAboveRank DEF Values
    <3>3. Baseline(rs, bucket).ttft = p
      BY <2>1, <3>1, <3>2 DEF Baseline, P99
    <3>4. 4 * p <= 5 * base
      BY <1>2, <3>3, NoneAssumption DEF WithinRatio
    <3>. QED  BY <1>1, <3>1, <3>2, <3>4, QuarterMore
  <2>. QED  BY <2>1, TtftTail
<1>3. ASSUME WithinRatio(Baseline(rs, bucket).tpot, base)
      PROVE  TailBounded(TpotOf(rs, bucket), H)
  <2>1. ASSUME DOMAIN TpotOf(rs, bucket) # {}
        PROVE  Percentile(TpotOf(rs, bucket), 99) <= H
    <3>1. PICK f : f = TpotOf(rs, bucket) /\ Values(f)
      BY TpotType DEF Values
    <3>2. PICK p \in Nat : p = Percentile(f, 99)
      BY <2>1, <3>1, PercentileAboveRank DEF Values
    <3>3. Baseline(rs, bucket).tpot = p
      BY <2>1, <3>1, <3>2 DEF Baseline, P99
    <3>4. 4 * p <= 5 * base
      BY <1>3, <3>3, NoneAssumption DEF WithinRatio
    <3>. QED  BY <1>1, <3>1, <3>2, <3>4, QuarterMore
  <2>. QED  BY <2>1, TpotTail
<1>. QED  BY <1>1, <1>2, <1>3

LEMMA TailIsBounded == IInv => PassBoundsTheTail
<1> SUFFICES ASSUME IInv PROVE PassBoundsTheTail
  OBVIOUS
<1>1. cell \in Cells /\ records \in Seq(ReceiptsOf(cell))
  BY DEF IInv, WellTyped
<1>2. ASSUME phase = "capacity", cell.slo, Evaluate(cell, records), NEW i \in DOMAIN records
      PROVE  LET th     == LimitsOf(cell, records[i])
                 bucket == BucketOf(cell, records, records[i])
             IN  /\ "p99" \in DOMAIN th.ttft =>
                      TailBounded(TtftOf(records, bucket), 100 * th.ttft["p99"])
                 /\ "p99" \in DOMAIN th.tpot =>
                      TailBounded(TpotOf(records, bucket), 100 * th.tpot["p99"])
  <2> DEFINE th     == LimitsOf(cell, records[i])
             bucket == BucketOf(cell, records, records[i])
  <2>1. bucket \in SUBSET DOMAIN records
    BY DEF BucketOf, AtShape, AtRate
  <2>2. LimitsTyped(th) /\ \E cap : BucketPass(records, bucket, cap, th, TRUE)
    <3>1. CASE cell.kind = "shapes"
      BY <1>1, <1>2, <3>1, CellsAssumption DEF Evaluate, EvaluateShapes, LimitsOf, BucketOf
    <3>2. CASE cell.kind # "shapes"
      BY <1>1, <1>2, <3>2, CellsAssumption DEF Evaluate, EvaluateRates, LimitsOf, BucketOf
    <3>. QED  BY <3>1, <3>2
  <2> HIDE DEF th, bucket
  <2>3. /\ "p99" \in DOMAIN th.ttft => TailBounded(TtftOf(records, bucket), 100 * th.ttft["p99"])
        /\ "p99" \in DOMAIN th.tpot => TailBounded(TpotOf(records, bucket), 100 * th.tpot["p99"])
    BY <1>1, <2>1, <2>2, GateBoundsTail
  <2>. QED  BY <2>3 DEF th, bucket
<1>3. ASSUME phase = "formal", EvaluateFormal(cell, records, isolated),
             NEW t \in DOMAIN isolated
      PROVE  LET bucket == TenantRecords(records, t)
             IN  /\ isolated[t].ttft # None =>
                      TailBounded(TtftOf(records, bucket), (5 * isolated[t].ttft) \div 4)
                 /\ isolated[t].tpot # None =>
                      TailBounded(TpotOf(records, bucket), (5 * isolated[t].tpot) \div 4)
  <2>1. cell.kind = "mixed"
    BY <1>3 DEF IInv, Position, Running
  <2>2. PICK T \in SUBSET Tenants(cell) : isolated \in [T -> Latencies]
    BY <2>1 DEF IInv, WellTyped
  <2>3. isolated # None
    BY <1>1, <2>1, <2>2, CellsAssumption
  <2>4. /\ WithinRatio(Baseline(records, TenantRecords(records, t)).ttft, isolated[t].ttft)
        /\ WithinRatio(Baseline(records, TenantRecords(records, t)).tpot, isolated[t].tpot)
    BY <1>3, <2>2, <2>3 DEF EvaluateFormal, IsolationOk
  <2>5. isolated[t].ttft \in Nat \cup {None} /\ isolated[t].tpot \in Nat \cup {None}
    BY <2>2 DEF Latencies
  <2>6. TenantRecords(records, t) \in SUBSET DOMAIN records
    BY DEF TenantRecords
  <2>. QED  BY <1>1, <2>4, <2>5, <2>6, RatioBoundsTail
<1>. QED  BY <1>2, <1>3 DEF PassBoundsTheTail

(* A capacity scan that passes, and a formal load that passes, leave at    *)
(* most one sample in a hundred (rounded up) beyond the p99 limit.         *)
THEOREM PassesBoundTheTail == Spec => []PassBoundsTheTail
BY Inductive, TailIsBounded, PTL

-----------------------------------------------------------------------------
(* A failed request.  A bucket is taken of the receipts before and after   *)
(* it: it has the same completions, and at most one more failure.          *)
Grown(bucket, n) == {bucket, bucket \cup {n}}

LEMMA SameCompleted ==
  ASSUME NEW S, NEW rs \in Seq(S), NEW r \in S, r.verdict \in FailedVerdicts,
         NEW bucket \in SUBSET DOMAIN rs, NEW more \in Grown(bucket, Len(rs) + 1)
  PROVE  /\ Completed(Append(rs, r), more) = Completed(rs, bucket)
         /\ Failed(rs, bucket) \subseteq Failed(Append(rs, r), more)
         /\ more # bucket => Len(rs) + 1 \in Failed(Append(rs, r), more)
BY Appended DEF Grown, Completed, Failed, CompletedVerdicts, FailedVerdicts

LEMMA SameLatencies ==
  ASSUME NEW S, NEW rs \in Seq(S), NEW r \in S, r.verdict \in FailedVerdicts,
         NEW bucket \in SUBSET DOMAIN rs, NEW more \in Grown(bucket, Len(rs) + 1)
  PROVE  /\ TtftOf(Append(rs, r), more) = TtftOf(rs, bucket)
         /\ TpotOf(Append(rs, r), more) = TpotOf(rs, bucket)
<1> DEFINE C == Completed(rs, bucket)
<1>1. Completed(Append(rs, r), more) = C
  BY SameCompleted
<1>2. \A i \in C : Append(rs, r)[i] = rs[i]
  BY Appended DEF Completed
<1> HIDE DEF C
<1>3. TtftOf(Append(rs, r), more) = TtftOf(rs, bucket)
  <2> DEFINE F == {i \in C : rs[i].ttft # None}
  <2>1. {i \in C : Append(rs, r)[i].ttft # None} = F
    BY <1>2
  <2>2. \A i \in F : Append(rs, r)[i].ttft = rs[i].ttft
    BY <1>2
  <2>3. [i \in F |-> Append(rs, r)[i].ttft] = [i \in F |-> rs[i].ttft]
    BY <2>2
  <2>4. TtftOf(Append(rs, r), more) = [i \in F |-> Append(rs, r)[i].ttft]
    BY <1>1, <2>1 DEF TtftOf
  <2>5. TtftOf(rs, bucket) = [i \in F |-> rs[i].ttft]
    BY DEF TtftOf, C
  <2>. QED  BY <2>3, <2>4, <2>5
<1>4. TpotOf(Append(rs, r), more) = TpotOf(rs, bucket)
  <2> DEFINE G == UNION {{i} \X DOMAIN rs[i].tpot : i \in C}
  <2>1. UNION {{i} \X DOMAIN Append(rs, r)[i].tpot : i \in C} = G
    BY <1>2
  <2>2. \A g \in G : g[1] \in C
    OBVIOUS
  <2>3. \A g \in G : Append(rs, r)[g[1]].tpot[g[2]] = rs[g[1]].tpot[g[2]]
    BY <1>2, <2>2
  <2>. QED  BY <1>1, <2>1, <2>3 DEF TpotOf, C
<1>. QED  BY <1>3, <1>4

(* The rule of the error gate changes at ErrorSample receipts: there one   *)
(* failure is allowed, but the failure itself must not be what gets there. *)
LEMMA ErrorRule ==
  ASSUME NEW n \in Nat, NEW f \in Nat, NEW E \in Nat \ {0},
         IF n + 1 < E THEN f + 1 = 0 ELSE (f + 1) * E <= n + 1
  PROVE  IF n < E THEN f = 0 ELSE f * E <= n
<1>1. PICK p \in Nat : p = f * E
  OBVIOUS
<1>2. (f + 1) * E = p + E
  BY <1>1
<1>3. n + 1 >= E /\ p + E <= n + 1
  BY <1>2
<1>4. CASE n < E
  <2>1. p = 0
    BY <1>3, <1>4
  <2>2. CASE f = 0
    BY <1>4, <2>2
  <2>3. CASE f # 0
    <3>1. PICK g \in Nat : f = g + 1
      <4>1. f - 1 \in Nat /\ f = (f - 1) + 1
        BY <2>3
      <4>. QED  BY <4>1
    <3>2. f * E = g * E + E /\ g * E \in Nat
      BY <3>1
    <3>. QED  BY <1>1, <2>1, <3>2
  <2>. QED  BY <2>2, <2>3
<1>5. CASE ~(n < E)
  BY <1>1, <1>3, <1>5
<1>. QED  BY <1>4, <1>5

LEMMA ErrorGateBefore ==
  ASSUME NEW S, NEW rs \in Seq(S), NEW r \in S, r.verdict \in FailedVerdicts,
         NEW bucket \in SUBSET DOMAIN rs, NEW more \in Grown(bucket, Len(rs) + 1),
         ErrorGate(Append(rs, r), more)
  PROVE  ErrorGate(rs, bucket)
<1> DEFINE after == Append(rs, r)
           last  == Len(rs) + 1
<1>0. ErrorSample \in Nat \ {0}
  BY VerdictsAssumption
<1>1. /\ Failed(rs, bucket) \in SUBSET DOMAIN rs
      /\ bucket \in SUBSET DOMAIN rs
  BY DEF Failed
<1>2. /\ Cardinality(bucket) \in Nat /\ FailedOf(rs, bucket) \in Nat
      /\ Cardinality(bucket \cup {last}) = Cardinality(bucket) + 1
      /\ Cardinality(Failed(rs, bucket) \cup {last}) = FailedOf(rs, bucket) + 1
  BY <1>1, OneMore DEF FailedOf
<1>3. CASE more = bucket
  <2>1. Failed(after, more) = Failed(rs, bucket)
    BY <1>3, Appended DEF Failed
  <2>. QED  BY <1>3, <2>1 DEF ErrorGate, FailedOf
<1>4. CASE more = bucket \cup {last}
  <2>1. Failed(after, more) = Failed(rs, bucket) \cup {last}
    BY <1>4, Appended DEF Failed
  <2>2. PICK n \in Nat, f \in Nat : n = Cardinality(bucket) /\ f = FailedOf(rs, bucket)
    BY <1>2
  <2>3. IF n + 1 < ErrorSample THEN f + 1 = 0 ELSE (f + 1) * ErrorSample <= n + 1
    BY <1>2, <1>4, <2>1, <2>2 DEF ErrorGate, FailedOf
  <2>4. IF n < ErrorSample THEN f = 0 ELSE f * ErrorSample <= n
    BY <1>0, <2>3, ErrorRule
  <2>. QED  BY <2>2, <2>4 DEF ErrorGate
<1>. QED  BY <1>3, <1>4 DEF Grown

LEMMA PassedBefore ==
  ASSUME NEW S, NEW rs \in Seq(S), NEW r \in S, r.verdict \in FailedVerdicts,
         NEW bucket \in SUBSET DOMAIN rs, NEW more \in Grown(bucket, Len(rs) + 1),
         NEW cap, NEW th, BucketPass(Append(rs, r), more, cap, th, TRUE)
  PROVE  BucketPass(rs, bucket, cap, th, TRUE)
<1>1. Completed(Append(rs, r), more) = Completed(rs, bucket)
  BY SameCompleted
<1>2. CompletionGate(rs, bucket, cap)
  BY <1>1 DEF BucketPass, CompletionGate, CompletedOf
<1>3. ErrorGate(rs, bucket)
  BY ErrorGateBefore DEF BucketPass
<1>4. /\ TtftOf(Append(rs, r), more) = TtftOf(rs, bucket)
      /\ TpotOf(Append(rs, r), more) = TpotOf(rs, bucket)
  BY SameLatencies
<1>. QED  BY <1>2, <1>3, <1>4 DEF BucketPass

(* The failed request alone passes nothing: it has no latency.             *)
LEMMA FailureHasNoLatency ==
  ASSUME NEW S, NEW rs \in Seq(S), NEW r \in S, r.verdict \in FailedVerdicts,
         NEW cap, NEW th, NEW more \in Grown({}, Len(rs) + 1)
  PROVE  ~BucketPass(Append(rs, r), more, cap, th, TRUE)
<1>1. TtftOf(Append(rs, r), more) = TtftOf(rs, {})
  BY SameLatencies
<1>2. DOMAIN TtftOf(rs, {}) = {}
  BY DEF TtftOf, Completed
<1>. QED  BY <1>1, <1>2 DEF BucketPass, LatencyGate

LEMMA EvaluatedBefore ==
  ASSUME NEW S, NEW c, NEW rs \in Seq(S), NEW r \in S, r.verdict \in FailedVerdicts,
         Evaluate(c, Append(rs, r))
  PROVE  Evaluate(c, rs)
<1> SUFFICES ASSUME c.slo PROVE Evaluate(c, rs)
  BY DEF Evaluate
<1> DEFINE after == Append(rs, r)
           last  == Len(rs) + 1
<1>1. /\ DOMAIN after = DOMAIN rs \cup {last} /\ last \notin DOMAIN rs
      /\ after[last] = r /\ \A i \in DOMAIN rs : after[i] = rs[i]
  BY Appended
<1>2. \A rate : /\ AtRate(rs, rate) \in SUBSET DOMAIN rs
                /\ AtRate(after, rate) \in Grown(AtRate(rs, rate), last)
  BY <1>1 DEF AtRate, Grown
<1>3. \A rate, len : /\ AtShape(rs, rate, len) \in SUBSET DOMAIN rs
                     /\ AtShape(after, rate, len) \in Grown(AtShape(rs, rate, len), last)
  BY <1>1 DEF AtShape, AtRate, Grown
<1>4. \A i \in DOMAIN rs : rs[i].rate \in Rates(c)
  BY <1>1 DEF Evaluate
<1>5. CASE c.kind = "shapes"
  <2>1. EvaluateShapes(c, after)
    BY <1>5 DEF Evaluate
  <2> HIDE DEF after
  <2>2. ASSUME NEW i \in DOMAIN rs
        PROVE  /\ rs[i].input_len \in DOMAIN c.limits
               /\ BucketPass(rs, AtShape(rs, rs[i].rate, rs[i].input_len),
                             CapOf(c, rs[i].rate), c.limits[rs[i].input_len], TRUE)
    <3>1. /\ rs[i].input_len \in DOMAIN c.limits
          /\ BucketPass(after, AtShape(after, rs[i].rate, rs[i].input_len),
                        CapOf(c, rs[i].rate), c.limits[rs[i].input_len], TRUE)
      BY <1>1, <2>1 DEF EvaluateShapes
    <3>2. PICK rate, len : rate = rs[i].rate /\ len = rs[i].input_len
      OBVIOUS
    <3>3. /\ AtShape(rs, rate, len) \in SUBSET DOMAIN rs
          /\ AtShape(after, rate, len) \in Grown(AtShape(rs, rate, len), last)
      BY <1>3
    <3>4. BucketPass(rs, AtShape(rs, rate, len), CapOf(c, rate), c.limits[len], TRUE)
      BY <3>1, <3>2, <3>3, PassedBefore DEF after
    <3>. QED  BY <3>1, <3>2, <3>4
  <2>3. rs # <<>>
    <3> SUFFICES ASSUME rs = <<>> PROVE FALSE
      OBVIOUS
    <3>1. BucketPass(after, AtShape(after, r.rate, r.input_len),
                     CapOf(c, r.rate), c.limits[r.input_len], TRUE)
      BY <1>1, <2>1 DEF EvaluateShapes
    <3>2. AtShape(rs, r.rate, r.input_len) = {}
      BY DEF AtShape, AtRate
    <3>3. AtShape(after, r.rate, r.input_len) \in Grown({}, last)
      BY <1>3, <3>2
    <3>. QED  BY <3>1, <3>3, FailureHasNoLatency DEF after
  <2>. QED  BY <1>4, <1>5, <2>2, <2>3 DEF Evaluate, EvaluateShapes
<1>6. CASE c.kind # "shapes"
  <2>1. EvaluateRates(c, after)
    BY <1>6 DEF Evaluate
  <2>2. ASSUME NEW rate \in Rates(c)
        PROVE  BucketPass(rs, AtRate(rs, rate), CapOf(c, rate), c.limits, TRUE)
    <3>1. BucketPass(after, AtRate(after, rate), CapOf(c, rate), c.limits, TRUE)
      BY <2>1 DEF EvaluateRates
    <3>. QED  BY <1>2, <3>1, PassedBefore
  <2>. QED  BY <1>4, <1>6, <2>1, <2>2 DEF Evaluate, EvaluateRates
<1>. QED  BY <1>5, <1>6

NoHelp ==
  (/\ phase = "capacity" /\ phase' = "capacity"
   /\ Len(records') > Len(records)
   /\ records'[Len(records')].verdict \in FailedVerdicts
   /\ Evaluate(cell, records')) => Evaluate(cell, records)

LEMMA StepsNeverHelp ==
  ASSUME IInv, [Next]_vars
  PROVE  [NoHelp]_vars
<1> SUFFICES ASSUME phase = "capacity", phase' = "capacity", Len(records') > Len(records),
                    records'[Len(records')].verdict \in FailedVerdicts,
                    Evaluate(cell, records')
             PROVE  Evaluate(cell, records)
  BY DEF NoHelp
<1>1. cell \in Cells /\ records \in Seq(ReceiptsOf(cell)) /\ Len(records) \in Nat
  BY Positions DEF IInv, WellTyped
<1>2. records' # records
  BY <1>1
<1>3. PICK k \in DOMAIN pending : \E r \in Answers(cell, k) : Answer(k, r)
  BY <1>2 DEF Next, Proceed, vars, Start, Refuse, Raise, EndScanPoint, EndIsolation,
              EndWarmup, Gathered, Judge, Write, Exit, PrintFails
<1>4. PICK r \in Answers(cell, k) : Answer(k, r)
  BY <1>3
<1>5. k \in Keys(cell) /\ records' = Append(records, r)
  BY <1>1, <1>4 DEF IInv, Position, Running, Answer
<1>6. r \in ReceiptsOf(cell)
  BY <1>5 DEF ReceiptsOf
<1>7. r.verdict \in FailedVerdicts
  <2>1. Len(records') = Len(records) + 1 /\ records'[Len(records) + 1] = r
    BY <1>1, <1>5, <1>6, AppendProperties
  <2>. QED  BY <2>1
<1>. QED  BY <1>1, <1>5, <1>6, <1>7, EvaluatedBefore

(* No failed request ever turns a failing capacity scan into a passing     *)
(* one, for every sample size and every rule of the error gate.            *)
THEOREM FailuresNeverHelp == Spec => FailureNeverHelps
<1>1. IInv /\ [Next]_vars => [NoHelp]_vars
  BY StepsNeverHelp
<1>2. Spec => [][NoHelp]_vars
  BY Inductive, <1>1, PTL DEF Spec
<1>. QED  BY <1>2, PTL DEF FailureNeverHelps, NoHelp

-----------------------------------------------------------------------------
(* What a pass of a poisson cell leaves of failures.                       *)
FewFail(rs, bucket) == FailedOf(rs, bucket) * ErrorSample <= Cardinality(bucket)

LEMMA BucketCounts ==
  ASSUME NEW c \in Cells, NEW rs \in Seq(ReceiptsOf(c)), NEW bucket \in SUBSET DOMAIN rs
  PROVE  /\ IsFiniteSet(bucket) /\ Cardinality(bucket) \in Nat
         /\ IsFiniteSet(Failed(rs, bucket)) /\ FailedOf(rs, bucket) \in Nat
         /\ CompletedOf(rs, bucket) \in Nat
         /\ Cardinality(bucket) = CompletedOf(rs, bucket) + FailedOf(rs, bucket)
<1>1. IsFiniteSet(bucket) /\ Cardinality(bucket) \in Nat
  BY Positions, FS_Subset, FS_CardinalityType
<1>2. Failed(rs, bucket) \subseteq bucket /\ Completed(rs, bucket) \subseteq bucket
  BY DEF Failed, Completed
<1>3. /\ IsFiniteSet(Failed(rs, bucket)) /\ FailedOf(rs, bucket) \in Nat
      /\ IsFiniteSet(Completed(rs, bucket)) /\ CompletedOf(rs, bucket) \in Nat
  BY <1>1, <1>2, FS_Subset, FS_CardinalityType DEF FailedOf, CompletedOf
<1>4. Completed(rs, bucket) \cup Failed(rs, bucket) = bucket
  <2>1. \A i \in bucket : rs[i].verdict \in CompletedVerdicts \cup FailedVerdicts
    BY Positions, ReceiptType
  <2>. QED  BY <1>2, <2>1 DEF Failed, Completed
<1>5. Completed(rs, bucket) \cap Failed(rs, bucket) = {}
  BY DEF Failed, Completed, CompletedVerdicts, FailedVerdicts
<1>6. Cardinality(Completed(rs, bucket) \cap Failed(rs, bucket)) = 0
  BY <1>5, FS_EmptySet
<1>7. Cardinality(bucket)
        = CompletedOf(rs, bucket) + FailedOf(rs, bucket)
          - Cardinality(Completed(rs, bucket) \cap Failed(rs, bucket))
  BY <1>3, <1>4, FS_Union DEF FailedOf, CompletedOf
<1>. QED  BY <1>1, <1>3, <1>6, <1>7

LEMMA GateLeavesFew ==
  ASSUME NEW c \in Cells, NEW rs \in Seq(ReceiptsOf(c)), NEW bucket \in SUBSET DOMAIN rs,
         ErrorGate(rs, bucket)
  PROVE  FewFail(rs, bucket)
<1>1. CASE Cardinality(bucket) < ErrorSample
  <2>1. FailedOf(rs, bucket) = 0 /\ Cardinality(bucket) \in Nat
    BY <1>1, BucketCounts DEF ErrorGate
  <2>. QED  BY <2>1, VerdictsAssumption DEF FewFail
<1>2. CASE ~(Cardinality(bucket) < ErrorSample)
  BY <1>2 DEF ErrorGate, FewFail
<1>. QED  BY <1>1, <1>2

LEMMA FewOfBoth ==
  ASSUME NEW c \in Cells, NEW rs \in Seq(ReceiptsOf(c)),
         NEW A \in SUBSET DOMAIN rs, NEW B \in SUBSET DOMAIN rs, A \cap B = {},
         FewFail(rs, A), FewFail(rs, B)
  PROVE  FewFail(rs, A \cup B)
<1>1. /\ Failed(rs, A \cup B) = Failed(rs, A) \cup Failed(rs, B)
      /\ Failed(rs, A) \cap Failed(rs, B) = {}
  BY DEF Failed
<1>2. PICK a \in Nat, b \in Nat, f \in Nat, g \in Nat :
        /\ a = Cardinality(A) /\ b = Cardinality(B)
        /\ f = FailedOf(rs, A) /\ g = FailedOf(rs, B)
  BY BucketCounts
<1>3. Cardinality(A \cup B) = a + b
  <2>1. IsFiniteSet(A) /\ IsFiniteSet(B)
    BY BucketCounts
  <2>. QED  BY <1>2, <2>1, SizeOfBoth
<1>4. FailedOf(rs, A \cup B) = f + g
  <2>1. IsFiniteSet(Failed(rs, A)) /\ IsFiniteSet(Failed(rs, B))
    BY BucketCounts
  <2>. QED  BY <1>1, <1>2, <2>1, SizeOfBoth DEF FailedOf
<1>5. ErrorSample \in Nat
  BY VerdictsAssumption
<1>6. f * ErrorSample <= a /\ g * ErrorSample <= b
  BY <1>2 DEF FewFail
<1>7. (f + g) * ErrorSample <= a + b
  <2>1. PICK x \in Nat, y \in Nat : x = f * ErrorSample /\ y = g * ErrorSample
    BY <1>5
  <2>2. (f + g) * ErrorSample = x + y
    BY <1>5, <2>1
  <2>. QED  BY <1>6, <2>1, <2>2
<1>. QED  BY <1>3, <1>4, <1>7 DEF FewFail

(* The receipts of a rate that fall into one of several shapes.            *)
OfShapes(rs, rate, L) == {i \in AtRate(rs, rate) : rs[i].input_len \in L}

(* A smallest set of shapes with too many failures would be empty: without *)
(* one of its shapes it has few, and that shape has few by its own gate.   *)
LEMMA ShapesLeaveFew ==
  ASSUME NEW c \in Cells, NEW rs \in Seq(ReceiptsOf(c)), NEW rate,
         EvaluateShapes(c, rs)
  PROVE  FewFail(rs, AtRate(rs, rate))
<1> DEFINE len == [i \in AtRate(rs, rate) |-> rs[i].input_len]
           All == {len[i] : i \in AtRate(rs, rate)}
           Sizes == {n \in Nat : \E L \in SUBSET All :
                       ~FewFail(rs, OfShapes(rs, rate, L)) /\ Cardinality(L) = n}
<1>1. IsFiniteSet(All)
  <2>1. IsFiniteSet(AtRate(rs, rate))
    BY Positions, FS_Subset DEF AtRate
  <2>2. len \in Surjection(AtRate(rs, rate), All)
    BY DEF Surjection
  <2>. QED  BY <2>1, <2>2, FS_Surjection
<1>2. OfShapes(rs, rate, All) = AtRate(rs, rate)
  BY DEF OfShapes
<1>3. \A L : OfShapes(rs, rate, L) \in SUBSET DOMAIN rs
  BY DEF OfShapes, AtRate
<1>4. \A x \in All : /\ AtShape(rs, rate, x) \in SUBSET DOMAIN rs
                     /\ FewFail(rs, AtShape(rs, rate, x))
  <2> SUFFICES ASSUME NEW i \in AtRate(rs, rate)
               PROVE  /\ AtShape(rs, rate, rs[i].input_len) \in SUBSET DOMAIN rs
                      /\ FewFail(rs, AtShape(rs, rate, rs[i].input_len))
    OBVIOUS
  <2>1. i \in DOMAIN rs /\ rs[i].rate = rate
    BY DEF AtRate
  <2>2. PICK x : x = rs[i].input_len
    OBVIOUS
  <2>3. ErrorGate(rs, AtShape(rs, rate, x))
    BY <2>1, <2>2 DEF EvaluateShapes, BucketPass
  <2>4. AtShape(rs, rate, x) \in SUBSET DOMAIN rs
    BY DEF AtShape, AtRate
  <2>. QED  BY <2>2, <2>3, <2>4, GateLeavesFew
<1> HIDE DEF All
<1> SUFFICES ASSUME ~FewFail(rs, OfShapes(rs, rate, All)) PROVE FALSE
  BY <1>2
<1>5. Sizes # {} /\ Sizes \subseteq Nat
  BY <1>1, FS_CardinalityType
<1>6. PICK n \in Sizes : \A m \in Sizes : n <= m
  BY <1>5, LeastOfNaturals
<1>7. PICK L \in SUBSET All : ~FewFail(rs, OfShapes(rs, rate, L)) /\ Cardinality(L) = n
  BY <1>6
<1>8. IsFiniteSet(L) /\ n \in Nat
  BY <1>1, <1>6, FS_Subset
<1>9. L # {}
  <2> SUFFICES ASSUME L = {} PROVE FewFail(rs, OfShapes(rs, rate, L))
    BY <1>7
  <2>1. OfShapes(rs, rate, L) = {} /\ Failed(rs, {}) = {}
    BY DEF OfShapes, Failed
  <2>2. FailedOf(rs, {}) = 0 /\ Cardinality({}) = 0
    BY <2>1, FS_EmptySet DEF FailedOf
  <2>3. FewFail(rs, {})
    BY <2>2, VerdictsAssumption DEF FewFail
  <2>. QED  BY <2>1, <2>3
<1>10. PICK x \in L : TRUE
  BY <1>9
<1>11. Cardinality(L \ {x}) = n - 1 /\ n - 1 \in Nat
  <2>1. IsFiniteSet(L \ {x}) /\ Cardinality(L \ {x}) = n - 1
    BY <1>7, <1>8, <1>10, FS_RemoveElement
  <2>2. Cardinality(L \ {x}) \in Nat
    BY <2>1, FS_CardinalityType
  <2>. QED  BY <2>1, <2>2
<1>12. FewFail(rs, OfShapes(rs, rate, L \ {x}))
  BY <1>6, <1>11
<1>13. /\ OfShapes(rs, rate, L) = OfShapes(rs, rate, L \ {x}) \cup AtShape(rs, rate, x)
       /\ OfShapes(rs, rate, L \ {x}) \cap AtShape(rs, rate, x) = {}
  BY <1>10 DEF OfShapes, AtShape
<1>14. FewFail(rs, OfShapes(rs, rate, L))
  <2>1. PICK A \in SUBSET DOMAIN rs : A = OfShapes(rs, rate, L \ {x})
    BY <1>3
  <2>2. PICK B \in SUBSET DOMAIN rs : B = AtShape(rs, rate, x) /\ FewFail(rs, B)
    BY <1>4, <1>10
  <2>3. FewFail(rs, A \cup B)
    BY <1>12, <1>13, <2>1, <2>2, FewOfBoth
  <2>. QED  BY <1>13, <2>1, <2>2, <2>3
<1>. QED  BY <1>7, <1>14

(* Few failures leave CompletionPct of the requests.                       *)
LEMMA MostComplete ==
  ASSUME NEW done \in Nat, NEW failed \in Nat, failed * ErrorSample <= done + failed
  PROVE  100 * done >= CompletionPct * (done + failed)
<1>1. PICK E \in Nat \ {0} : E = ErrorSample
  BY VerdictsAssumption
<1>2. PICK pct \in Nat : pct = CompletionPct /\ pct * E <= 100 * (E - 1)
  <2>1. CompletionPct \in 0 .. 100
    BY VerdictsAssumption
  <2>2. CompletionPct \in Nat
    BY <2>1
  <2>. QED  BY <1>1, <2>2, VerdictsAssumption
<1>3. PICK n \in Nat : n = done + failed
  OBVIOUS
<1>4. E * (100 * done) >= E * (pct * n)
  <2>1. E * (100 * done) = 100 * (E * n) - 100 * (failed * E)
    BY <1>3
  <2>2. PICK en \in Nat, fe \in Nat, pe \in Nat :
          en = E * n /\ fe = failed * E /\ pe = pct * E
    OBVIOUS
  <2>3. E * (100 * done) >= 100 * en - 100 * n
    BY <1>1, <1>3, <2>1, <2>2
  <2>4. PICK slack \in Nat : 100 * (E - 1) = pe + slack
    <3>1. /\ 100 * (E - 1) - pe \in Nat
          /\ 100 * (E - 1) = pe + (100 * (E - 1) - pe)
      BY <1>2, <2>2
    <3>. QED  BY <3>1
  <2>5. 100 * en - 100 * n = (100 * (E - 1)) * n
    BY <2>2
  <2>6. (100 * (E - 1)) * n = pe * n + slack * n /\ slack * n \in Nat
    BY <2>2, <2>4
  <2>7. E * (pct * n) = pe * n /\ pe * n \in Nat
    BY <2>2
  <2>. QED  BY <2>3, <2>5, <2>6, <2>7
<1>5. PICK a \in Nat, b \in Nat : a = 100 * done /\ b = pct * n
  OBVIOUS
<1>6. a >= b
  <2> SUFFICES ASSUME a < b PROVE FALSE
    OBVIOUS
  <2>1. PICK d \in Nat : b = a + 1 + d
    <3>1. b - a - 1 \in Nat /\ b = a + 1 + (b - a - 1)
      OBVIOUS
    <3>. QED  BY <3>1
  <2>2. E * b = E * a + E + E * d /\ E * d \in Nat /\ E * a \in Nat
    BY <2>1
  <2>3. E * a >= E * b
    BY <1>4, <1>5
  <2>. QED  BY <2>2, <2>3
<1>. QED  BY <1>2, <1>3, <1>5, <1>6

LEMMA PoissonIsEarned == IInv => PoissonPassIsEarned
<1> SUFFICES ASSUME IInv, exit = 0, cell.kind # "mixed", NEW rate \in Rates(cell)
             PROVE  /\ Cardinality(AtRate(records, rate)) = RequestCap(cell, rate)
                    /\ cell.slo => 100 * CompletedOf(records, AtRate(records, rate))
                                      >= CompletionPct * RequestCap(cell, rate)
  BY DEF PoissonPassIsEarned
<1> DEFINE bucket == AtRate(records, rate)
<1>1. /\ cell \in Cells /\ records \in Seq(ReceiptsOf(cell)) /\ rate \in Keys(cell)
      /\ phase = "done" /\ Evaluate(cell, records)
      /\ bucket \in SUBSET DOMAIN records
  BY DEF IInv, WellTyped, Outcome, Keys, AtRate
<1>2. PICK done \in Nat, failed \in Nat :
        /\ done = CompletedOf(records, bucket) /\ failed = FailedOf(records, bucket)
        /\ Cardinality(bucket) = done + failed
  BY <1>1, BucketCounts
<1>3. Cardinality(bucket) = RequestCap(cell, rate)
  <2>1. pending[rate] = 0 /\ pending[rate] + Cardinality(bucket) = RequestCap(cell, rate)
    BY <1>1 DEF IInv, Position, Written, Accounts
  <2>. QED  BY <1>2, <2>1
<1>4. ASSUME cell.slo PROVE FewFail(records, bucket)
  <2>1. CASE cell.kind = "shapes"
    BY <1>1, <1>4, <2>1, ShapesLeaveFew DEF Evaluate
  <2>2. CASE cell.kind # "shapes"
    BY <1>1, <1>4, <2>2, GateLeavesFew DEF Evaluate, EvaluateRates, BucketPass
  <2>. QED  BY <2>1, <2>2
<1>5. cell.slo => 100 * done >= CompletionPct * (done + failed)
  BY <1>2, <1>4, MostComplete DEF FewFail
<1>. QED  BY <1>2, <1>3, <1>5

(* Exit code 0 of a poisson cell: every rate had its whole cap sent and,   *)
(* in a cell with workload.slo, 99 % of it completed, with caps declared   *)
(* or not, one shape or many.                                              *)
THEOREM PoissonPassesAreEarned == Spec => []PoissonPassIsEarned
BY Inductive, PoissonIsEarned, PTL

-----------------------------------------------------------------------------
(* Fairness.                                                               *)
LEMMA TokensType ==
  ASSUME NEW c \in Cells, NEW rs \in Seq(ReceiptsOf(c)), NEW t
  PROVE  /\ TokensOf(rs, t) \in Nat
         /\ TenantRecords(rs, t) = {} => TokensOf(rs, t) = 0
<1> DEFINE bucket == TenantRecords(rs, t)
           f      == [i \in bucket |-> rs[i].output_tokens]
           Own(h) == h = [s \in SUBSET bucket |->
                            IF s = {} THEN 0
                            ELSE rs[Any(s)].output_tokens + h[s \ {Any(s)}]]
<1>1. bucket \subseteq DOMAIN rs /\ IsFiniteSet(bucket)
  <2>1. bucket \subseteq DOMAIN rs
    BY DEF TenantRecords
  <2>. QED  BY <2>1, Positions, FS_Subset
<1>2. \A i \in bucket : f[i] \in Nat
  BY <1>1, Positions, ReceiptType
<1>3. TokensOf(rs, t) = (CHOOSE h : Own(h))[bucket]
  BY DEF TokensOf, MapThenSumSet, MapThenFoldSet, Any
<1>4. \A h : Own(h) <=> Folded(f, bucket, h)
  <2>1. \A s \in SUBSET bucket : s # {} => rs[Any(s)].output_tokens = f[Any(s)]
    BY AnyIsElement
  <2> TAKE h
  <2> DEFINE own == [s \in SUBSET bucket |->
                       IF s = {} THEN 0 ELSE rs[Any(s)].output_tokens + h[s \ {Any(s)}]]
             folded == [s \in SUBSET bucket |->
                          IF s = {} THEN 0 ELSE f[Any(s)] + h[s \ {Any(s)}]]
  <2> HIDE DEF f, bucket
  <2>2. own = folded
    BY <2>1
  <2>. QED  BY <2>2 DEF Folded
<1> HIDE DEF bucket, f, Own
<1>5. Own(CHOOSE h : Own(h))
  BY <1>1, <1>2, <1>4, SumOfNaturals
<1>6. TokensOf(rs, t) = SumOf(f, bucket)
  BY <1>1, <1>2, <1>3, <1>4, <1>5, SameFold
<1>7. SumOf(f, bucket) \in Nat /\ (bucket = {} => SumOf(f, bucket) = 0)
  BY <1>1, <1>2, SumOfNaturals
<1>. QED  BY <1>6, <1>7 DEF bucket

(* The tokens of each of a set of tenants, and their squares.              *)
TokensAt(rs, T) == [t \in T |-> TokensOf(rs, t)]
SquaresAt(rs, T) == [t \in T |-> TokensOf(rs, t) * TokensOf(rs, t)]

LEMMA TokenSums ==
  ASSUME NEW c \in Cells, NEW rs \in Seq(ReceiptsOf(c)), NEW T, IsFiniteSet(T)
  PROVE  /\ MapThenSumSet(LAMBDA t : TokensOf(rs, t), T) = SumOf(TokensAt(rs, T), T)
         /\ MapThenSumSet(LAMBDA t : TokensOf(rs, t) * TokensOf(rs, t), T)
              = SumOf(SquaresAt(rs, T), T)
<1> DEFINE x(t)    == TokensOf(rs, t)
           f       == TokensAt(rs, T)
           sq      == SquaresAt(rs, T)
           Own(h)  == h = [s \in SUBSET T |->
                             IF s = {} THEN 0 ELSE x(Any(s)) + h[s \ {Any(s)}]]
           Own2(h) == h = [s \in SUBSET T |->
                             IF s = {} THEN 0 ELSE x(Any(s)) * x(Any(s)) + h[s \ {Any(s)}]]
<1>1. \A t \in T : f[t] = x(t) /\ f[t] \in Nat /\ sq[t] = x(t) * x(t) /\ sq[t] \in Nat
  BY TokensType DEF TokensAt, SquaresAt
<1>2. \A s \in SUBSET T : s # {} => x(Any(s)) = f[Any(s)] /\ x(Any(s)) * x(Any(s)) = sq[Any(s)]
  BY <1>1, AnyIsElement
<1>3. /\ MapThenSumSet(LAMBDA t : TokensOf(rs, t), T) = (CHOOSE h : Own(h))[T]
      /\ MapThenSumSet(LAMBDA t : TokensOf(rs, t) * TokensOf(rs, t), T) = (CHOOSE h : Own2(h))[T]
  BY DEF MapThenSumSet, MapThenFoldSet, Any
<1> HIDE DEF x, f, sq
<1>4. \A h : Own(h) <=> Folded(f, T, h)
  <2> TAKE h
  <2>1. [s \in SUBSET T |-> IF s = {} THEN 0 ELSE x(Any(s)) + h[s \ {Any(s)}]]
          = [s \in SUBSET T |-> IF s = {} THEN 0 ELSE f[Any(s)] + h[s \ {Any(s)}]]
    BY <1>2
  <2>. QED  BY <2>1 DEF Folded
<1>5. \A h : Own2(h) <=> Folded(sq, T, h)
  <2> TAKE h
  <2>1. [s \in SUBSET T |-> IF s = {} THEN 0 ELSE x(Any(s)) * x(Any(s)) + h[s \ {Any(s)}]]
          = [s \in SUBSET T |-> IF s = {} THEN 0 ELSE sq[Any(s)] + h[s \ {Any(s)}]]
    BY <1>2
  <2>. QED  BY <2>1 DEF Folded
<1> HIDE DEF Own, Own2
<1>6. Own(CHOOSE h : Own(h)) /\ Own2(CHOOSE h : Own2(h))
  BY <1>1, <1>4, <1>5, SumOfNaturals
<1>7. (CHOOSE h : Own(h))[T] = SumOf(f, T)
  BY <1>1, <1>4, <1>6, SameFold
<1>8. (CHOOSE h : Own2(h))[T] = SumOf(sq, T)
  BY <1>1, <1>5, <1>6, SameFold
<1>. QED  BY <1>3, <1>7, <1>8 DEF f, sq

(* A Jain index of 0.9 leaves nobody out of fewer than ten.                *)
LEMMA JainLeavesNobodyOut ==
  ASSUME NEW S, IsFiniteSet(S), Cardinality(S) < 10, NEW f, NEW sq,
         \A k \in S : f[k] \in Nat /\ sq[k] = f[k] * f[k],
         10 * SumOf(f, S) * SumOf(f, S) >= 9 * Cardinality(S) * SumOf(sq, S),
         SumOf(f, S) # 0, NEW k \in S
  PROVE  f[k] # 0
<1> SUFFICES ASSUME f[k] = 0 PROVE FALSE
  OBVIOUS
<1> DEFINE rest == S \ {k}
<1>0. \A j \in S : sq[j] \in Nat
  OBVIOUS
<1>1. PICK n \in Nat : n + 1 = Cardinality(S) /\ Cardinality(rest) = n
  <2>1. Cardinality(S) \in Nat /\ Cardinality(rest) \in Nat /\ Cardinality(rest) = Cardinality(S) - 1
    BY FS_RemoveElement, FS_CardinalityType
  <2>. QED  BY <2>1
<1>2. PICK t \in Nat, q \in Nat :
        /\ t = SumOf(f, rest) /\ q = SumOf(sq, rest)
        /\ SumOf(f, S) = t /\ SumOf(sq, S) = q
  <2>1. /\ SumOf(f, rest) \in Nat /\ SumOf(sq, rest) \in Nat
        /\ SumOf(f, S) = f[k] + SumOf(f, rest)
        /\ SumOf(sq, S) = sq[k] + SumOf(sq, rest)
    BY <1>0, SumOfNaturals
  <2>2. sq[k] = 0
    OBVIOUS
  <2>. QED  BY <2>1, <2>2
<1>3. t * t <= n * q
  <2>1. IsFiniteSet(rest)
    BY FS_Subset
  <2>2. SumOf(f, rest) * SumOf(f, rest) <= Cardinality(rest) * SumOf(sq, rest)
    BY <2>1, SquareOfSum
  <2>. QED  BY <1>1, <1>2, <2>2
<1>4. 10 * (t * t) >= 9 * (n * q) + 9 * q /\ t # 0 /\ n < 9
  <2>1. 10 * t * t >= 9 * (n + 1) * q
    BY <1>1, <1>2
  <2>2. 10 * t * t = 10 * (t * t) /\ 9 * (n + 1) * q = 9 * (n * q) + 9 * q
    OBVIOUS
  <2>. QED  BY <1>1, <1>2, <2>1, <2>2
<1>5. t * t > 0
  BY <1>4
<1>6. n * q <= 8 * q
  BY <1>4
<1>7. n * q >= 9 * q
  <2>1. PICK a \in Nat, b \in Nat : a = t * t /\ b = n * q
    OBVIOUS
  <2>. QED  BY <1>3, <1>4, <2>1
<1>8. q = 0
  <2>1. PICK b \in Nat : b = n * q
    OBVIOUS
  <2>. QED  BY <1>6, <1>7, <2>1
<1>. QED  BY <1>3, <1>5, <1>8

(* A tenant that passed its error gate with receipts has a completed one.  *)
LEMMA PassedIsServed ==
  ASSUME NEW c \in Cells, NEW rs \in Seq(ReceiptsOf(c)), NEW t,
         TenantRecords(rs, t) # {}, ErrorGate(rs, TenantRecords(rs, t))
  PROVE  \E i \in Completed(rs, DOMAIN rs) : rs[i].tenant = t
<1> DEFINE bucket == TenantRecords(rs, t)
<1>1. bucket \in SUBSET DOMAIN rs
  BY DEF TenantRecords
<1>2. PICK failed \in Nat, done \in Nat :
        /\ failed = FailedOf(rs, bucket) /\ done = CompletedOf(rs, bucket)
        /\ Cardinality(bucket) = done + failed
  BY <1>1, BucketCounts
<1>3. Cardinality(bucket) # 0
  BY <1>1, BucketCounts, FS_EmptySet
<1>4. failed * ErrorSample <= done + failed
  BY <1>1, <1>2, GateLeavesFew DEF FewFail
<1>5. failed * ErrorSample >= 2 * failed
  <2>1. ErrorSample \in Nat /\ ErrorSample >= 2
    BY VerdictsAssumption
  <2>. QED  BY <2>1
<1>6. done # 0
  <2>1. PICK m \in Nat : m = failed * ErrorSample
    BY VerdictsAssumption
  <2>. QED  BY <1>2, <1>3, <1>4, <1>5, <2>1
<1>7. Completed(rs, bucket) # {}
  BY <1>2, <1>6, FS_EmptySet DEF CompletedOf
<1>. QED  BY <1>1, <1>7 DEF Completed, TenantRecords

LEMMA TenantsAreFinite ==
  ASSUME NEW c \in Cells, c.kind = "mixed"
  PROVE  IsFiniteSet(Tenants(c)) /\ Tenants(c) # {}
<1>1. /\ c.order \in Seq(Tenants(c)) /\ c.order # <<>>
      /\ \A t \in Tenants(c) : \E i \in DOMAIN c.order : c.order[i] = t
  BY CellsAssumption
<1>2. c.order \in [DOMAIN c.order -> Tenants(c)] /\ IsFiniteSet(DOMAIN c.order)
  BY <1>1, Positions
<1>3. c.order \in Surjection(DOMAIN c.order, Tenants(c))
  BY <1>1, <1>2 DEF Surjection
<1>4. 1 \in DOMAIN c.order
  BY <1>1, Positions, EmptySeq
<1>. QED  BY <1>2, <1>3, <1>4, FS_Surjection

LEMMA FairServesAll ==
  ASSUME NEW c \in Cells, c.kind = "mixed", FewTenants(c),
         NEW rs \in Seq(ReceiptsOf(c)), ShareOk(c, rs), JainOk(c, rs),
         \A t \in Tenants(c) : ErrorGate(rs, TenantRecords(rs, t))
  PROVE  Tenants(c) = {rs[i].tenant : i \in Completed(rs, DOMAIN rs)}
<1> DEFINE T == Tenants(c)
           f == TokensAt(rs, T)
           sq == SquaresAt(rs, T)
<1>1. IsFiniteSet(T) /\ Cardinality(T) < 10
  BY TenantsAreFinite DEF FewTenants
<1>2. \A t \in T : f[t] = TokensOf(rs, t) /\ f[t] \in Nat /\ sq[t] = f[t] * f[t]
  BY TokensType DEF TokensAt, SquaresAt
<1>3. TotalTokens(c, rs) = SumOf(f, T)
  BY <1>1, TokenSums DEF TotalTokens
<1>4. SumOf(f, T) # 0
  <2>1. PICK t \in Tenants(c) : c.shares[t] > 10
    BY DEF FewTenants
  <2>2. c.shares[t] \in 0 .. 100
    BY <2>1, CellsAssumption DEF Tenants
  <2>3. TotalTokens(c, rs) # 0
    <3> SUFFICES ASSUME TotalTokens(c, rs) = 0 PROVE FALSE
      OBVIOUS
    <3>1. c.shares[t] <= 10
      BY <2>1 DEF ShareOk
    <3>2. PICK n \in 0 .. 100 : n = c.shares[t]
      BY <2>2
    <3>3. n > 10 /\ n <= 10
      BY <2>1, <3>1, <3>2
    <3>. QED  BY <3>2, <3>3
  <2>. QED  BY <1>3, <2>3
<1>5. 10 * SumOf(f, T) * SumOf(f, T) >= 9 * Cardinality(T) * SumOf(sq, T)
  BY <1>1, TokenSums DEF JainOk, JainOver
<1>6. ASSUME NEW t \in T
      PROVE  \E i \in Completed(rs, DOMAIN rs) : rs[i].tenant = t
  <2>1. TokensOf(rs, t) # 0
    <3> HIDE DEF T, f, sq
    <3>1. f[t] # 0
      BY <1>1, <1>2, <1>4, <1>5, JainLeavesNobodyOut
    <3>. QED  BY <1>2, <3>1
  <2>2. TenantRecords(rs, t) # {}
    BY <2>1, TokensType
  <2>. QED  BY <2>2, PassedIsServed
<1>7. \A i \in Completed(rs, DOMAIN rs) : rs[i].tenant \in T
  <2>1. Completed(rs, DOMAIN rs) \subseteq DOMAIN rs
    BY DEF Completed
  <2>. QED  BY <2>1, Positions, ReceiptType DEF Keys
<1>. QED  BY <1>6, <1>7

LEMMA NobodyIsStarved == IInv => NobodyStarves
<1> SUFFICES ASSUME IInv, phase \in {"scan", "formal"}, cell.slo, FewTenants(cell),
                    EvaluateScanPoint(cell, records) \/ EvaluateFormal(cell, records, isolated)
             PROVE  Tenants(cell) = {records[i].tenant : i \in Completed(records, DOMAIN records)}
  BY DEF NobodyStarves
<1>1. cell \in Cells /\ cell.kind = "mixed" /\ records \in Seq(ReceiptsOf(cell))
  BY DEF IInv, WellTyped, Position, Running
<1>2. /\ ShareOk(cell, records) /\ JainOk(cell, records)
      /\ \A t \in Tenants(cell) : ErrorGate(records, TenantRecords(records, t))
  BY DEF EvaluateScanPoint, EvaluateFormal, EvaluateTenant, BucketPass
<1>. QED  BY <1>1, <1>2, FairServesAll

(* No mixed load passes with a tenant that got no answer.                  *)
THEOREM NobodyIsLeftOut == Spec => []NobodyStarves
BY Inductive, NobodyIsStarved, PTL

-----------------------------------------------------------------------------
(* What was measured, and against what: the measured receipts file has one *)
(* line per receipt judged, and a mixed cell that found a capacity has a   *)
(* baseline of each tenant when the load begins.                           *)
MeasuredFile(c) == IF c.kind = "mixed" THEN "receipts-formal" ELSE "receipts"

Ledger ==
  /\ phase \in {"start", "scan", "isolation", "warmup"} => lines[MeasuredFile(cell)] = 0
  /\ phase \in {"capacity", "formal", "writing", "done"} =>
       lines[MeasuredFile(cell)] = Len(records)
  /\ cell.kind = "mixed" /\ phase \in {"writing", "done"} =>
       /\ \A t \in Keys(cell) : Cardinality(TenantRecords(records, t)) = FormalLoad[t]
       /\ verdict <=> EvaluateFormal(cell, records, isolated)

Baselines ==
  /\ phase \in {"start", "scan"} => isolated = <<>>
  /\ phase = "isolation" => DOMAIN isolated = {cell.order[j] : j \in 1 .. at - 1}
  /\ (/\ phase \in {"warmup", "formal", "writing", "done"}
      /\ B0Max(results) > 0
      /\ cell.kind = "mixed") => DOMAIN isolated = Tenants(cell)

Begun == /\ records' = <<>>
         /\ UNCHANGED <<cell, verdict, lines>>
         /\ phase \in {"start", "scan", "isolation", "warmup"}
         /\ phase' \in {"scan", "isolation", "warmup", "formal"}

LEMMA BeginsLoad ==
  ASSUME NEW b, BeginLoad(b)
  PROVE  phase' \in {"warmup", "formal"} /\ records' = <<>>
BY DEF BeginLoad, BeginFormal, Begin

LEMMA BeginsAfterScan ==
  ASSUME NEW b, AfterScan(b)
  PROVE  /\ records' = <<>>
         /\ IF b > 0 THEN phase' = "isolation" /\ at' = 1 ELSE phase' \in {"warmup", "formal"}
<1>1. CASE b > 0
  BY <1>1 DEF AfterScan, BeginIsolation, Begin
<1>2. CASE ~(b > 0)
  BY <1>2, BeginsLoad DEF AfterScan
<1>. QED  BY <1>1, <1>2

LEMMA BegunLedger ==
  ASSUME Ledger, Begun
  PROVE  Ledger'
<1>1. lines'[MeasuredFile(cell')] = 0
  BY DEF Begun, Ledger
<1>2. Len(records') = 0
  BY DEF Begun
<1>. QED  BY <1>1, <1>2 DEF Ledger, Begun

LEMMA StartKept ==
  ASSUME IInv, Ledger, Baselines, Start
  PROVE  Ledger' /\ Baselines'
<1>1. /\ phase = "start" /\ results = <<>> /\ isolated = <<>>
      /\ lines[MeasuredFile(cell)] = 0
      /\ UNCHANGED <<cell, results, isolated, verdict, lines>>
  BY DEF IInv, Position, Start, Ledger, Baselines
<1>2. CASE cell.kind # "mixed"
  <2>1. phase' = "capacity" /\ records' = <<>>
    BY <1>2 DEF Start, Begin
  <2>2. Len(records') = 0
    BY <2>1
  <2>. QED  BY <1>1, <1>2, <2>1, <2>2 DEF Ledger, Baselines
<1>3. CASE cell.kind = "mixed"
  <2>1. (BeginScan(1) /\ cell.points # <<>>) \/ AfterScan(0)
    BY <1>3 DEF Start
  <2>2. records' = <<>> /\ phase' \in {"scan", "warmup", "formal"}
    <3>1. CASE BeginScan(1)
      BY <3>1 DEF BeginScan, Begin
    <3>2. CASE AfterScan(0)
      BY <3>2, BeginsAfterScan
    <3>. QED  BY <2>1, <3>1, <3>2
  <2>3. Ledger'
    BY <1>1, <2>2, BegunLedger DEF Begun
  <2>4. ~(B0Max(results') > 0)
    BY <1>1, EmptyB0Max
  <2>. QED  BY <1>1, <2>2, <2>3, <2>4 DEF Baselines
<1>. QED  BY <1>2, <1>3

LEMMA EndScanPointKept ==
  ASSUME IInv, Ledger, Baselines, EndScanPoint
  PROVE  Ledger' /\ Baselines'
<1>1. /\ phase = "scan" /\ isolated = <<>>
      /\ UNCHANGED <<cell, isolated, verdict, lines>>
  BY DEF EndScanPoint, Gathered, Baselines
<1>2. CASE at < Len(cell.points)
  <2>1. phase' = "scan" /\ records' = <<>>
    BY <1>2 DEF EndScanPoint, BeginScan, Begin
  <2>. QED  BY <1>1, <2>1, BegunLedger DEF Begun, Baselines
<1>3. CASE ~(at < Len(cell.points))
  <2>1. AfterScan(B0Max(results'))
    BY <1>3 DEF EndScanPoint
  <2>2. /\ records' = <<>>
        /\ IF B0Max(results') > 0 THEN phase' = "isolation" /\ at' = 1
           ELSE phase' \in {"warmup", "formal"}
    BY <2>1, BeginsAfterScan
  <2>3. Ledger'
    BY <1>1, <2>2, BegunLedger DEF Begun
  <2>4. phase' = "isolation" => DOMAIN isolated' = {cell'.order[j] : j \in 1 .. at' - 1}
    <3>1. DOMAIN isolated' = {} /\ 1 .. 0 = {}
      BY <1>1
    <3>. QED  BY <2>2, <3>1
  <2>. QED  BY <2>2, <2>3, <2>4 DEF Baselines
<1>. QED  BY <1>2, <1>3

LEMMA EndIsolationKept ==
  ASSUME IInv, Ledger, Baselines, EndIsolation
  PROVE  Ledger' /\ Baselines'
<1>1. /\ phase = "isolation" /\ cell \in Cells /\ cell.kind = "mixed"
      /\ at \in DOMAIN cell.order
      /\ DOMAIN isolated = {cell.order[j] : j \in 1 .. at - 1}
      /\ UNCHANGED <<cell, results, verdict, lines>>
  BY DEF IInv, WellTyped, Position, EndIsolation, Gathered, Running, Baselines
<1>2. /\ cell.order \in Seq(Tenants(cell))
      /\ \A t \in Tenants(cell) : \E i \in DOMAIN cell.order : cell.order[i] = t
  BY <1>1, CellsAssumption
<1>3. Len(cell.order) \in Nat /\ DOMAIN cell.order = 1 .. Len(cell.order) /\ at \in Nat \ {0}
  BY <1>1, <1>2, Positions
<1>4. DOMAIN isolated' = {cell.order[j] : j \in 1 .. at}
  <2>1. DOMAIN isolated' = DOMAIN isolated \cup {cell.order[at]}
    BY DEF EndIsolation
  <2>2. 1 .. at = (1 .. at - 1) \cup {at}
    BY <1>3
  <2>. QED  BY <1>1, <2>1, <2>2
<1>5. CASE at < Len(cell.order)
  <2>1. phase' = "isolation" /\ at' = at + 1 /\ records' = <<>>
    BY <1>5 DEF EndIsolation, BeginIsolation, Begin
  <2>2. at' - 1 = at
    BY <1>3, <2>1
  <2>. QED  BY <1>1, <1>4, <2>1, <2>2, BegunLedger DEF Begun, Baselines
<1>6. CASE ~(at < Len(cell.order))
  <2>1. BeginLoad(B0Max(results))
    BY <1>6 DEF EndIsolation
  <2>2. phase' \in {"warmup", "formal"} /\ records' = <<>>
    BY <2>1, BeginsLoad
  <2>3. 1 .. at = DOMAIN cell.order
    BY <1>1, <1>3, <1>6
  <2>4. DOMAIN isolated' = Tenants(cell')
    <3>1. \A i \in DOMAIN cell.order : cell.order[i] \in Tenants(cell)
      BY <1>2, Positions
    <3>. QED  BY <1>1, <1>2, <1>4, <2>3, <3>1
  <2>. QED  BY <1>1, <2>2, <2>4, BegunLedger DEF Begun, Baselines
<1>. QED  BY <1>5, <1>6

LEMMA WarmupEndKept ==
  ASSUME Ledger, Baselines, EndWarmup
  PROVE  Ledger' /\ Baselines'
<1>1. /\ phase = "warmup" /\ phase' = "formal" /\ records' = <<>>
      /\ UNCHANGED <<cell, results, isolated, verdict, lines>>
  BY DEF EndWarmup, Gathered, BeginFormal, Begin
<1>. QED  BY <1>1, BegunLedger DEF Begun, Baselines

LEMMA AnswerKept ==
  ASSUME IInv, Ledger, Baselines,
         NEW k \in DOMAIN pending, NEW r \in Answers(cell, k), Answer(k, r)
  PROVE  Ledger' /\ Baselines'
<1>1. /\ phase \in Running /\ records' = Append(records, r)
      /\ records \in Seq(ReceiptsOf(cell)) /\ r \in ReceiptsOf(cell)
      /\ lines \in [ReceiptFiles -> Nat]
      /\ UNCHANGED <<cell, phase, at, results, isolated, verdict>>
  BY DEF IInv, WellTyped, Position, Answer, ReceiptsOf
<1>2. Len(records') = Len(records) + 1
  BY <1>1
<1>3. /\ ReceiptFile["capacity"] = "receipts" /\ ReceiptFile["formal"] = "receipts-formal"
      /\ ReceiptFile["scan"] = "receipts-scan"
      /\ ReceiptFile["isolation"] = "receipts-isolation"
      /\ DOMAIN ReceiptFile = {"capacity", "scan", "isolation", "formal"}
  BY DEF ReceiptFile
<1>4. /\ {"receipts", "receipts-formal"} \subseteq ReceiptFiles
      /\ MeasuredFile(cell) \in {"receipts", "receipts-formal"}
  BY <1>3 DEF ReceiptFiles, MeasuredFile
<1>5. CASE phase \in {"capacity", "formal"}
  <2>1. ReceiptFile[phase] = MeasuredFile(cell)
    BY <1>3, <1>5 DEF IInv, Position, MeasuredFile, Running
  <2>2. lines' = [lines EXCEPT ![MeasuredFile(cell)] = @ + 1]
    BY <1>3, <1>5, <2>1 DEF Answer
  <2>3. lines'[MeasuredFile(cell)] = lines[MeasuredFile(cell)] + 1
    BY <1>1, <1>4, <2>2
  <2>4. lines[MeasuredFile(cell)] = Len(records)
    BY <1>5 DEF Ledger
  <2>5. lines'[MeasuredFile(cell)] = Len(records')
    BY <1>2, <2>3, <2>4
  <2>. QED  BY <1>1, <1>5, <2>5 DEF Ledger, Baselines
<1>6. CASE phase \in {"scan", "isolation", "warmup"}
  <2>1. lines'[MeasuredFile(cell)] = lines[MeasuredFile(cell)]
    <3>1. CASE phase = "warmup"
      BY <1>3, <3>1 DEF Answer
    <3>2. CASE phase # "warmup"
      <4>1. lines' = [lines EXCEPT ![ReceiptFile[phase]] = @ + 1]
        BY <1>3, <1>6, <3>2 DEF Answer
      <4>2. ReceiptFile[phase] # MeasuredFile(cell)
        BY <1>3, <1>4, <1>6, <3>2
      <4>. QED  BY <1>1, <1>4, <4>1, <4>2
    <3>. QED  BY <3>1, <3>2
  <2>. QED  BY <1>1, <1>6, <2>1 DEF Ledger, Baselines
<1>. QED  BY <1>1, <1>5, <1>6 DEF Running

LEMMA JudgeKept ==
  ASSUME IInv, Ledger, Baselines, Judge
  PROVE  Ledger' /\ Baselines'
<1>1. /\ phase \in {"capacity", "formal"} /\ phase' = "writing"
      /\ \A k \in DOMAIN pending : pending[k] = 0
      /\ DOMAIN pending = Keys(cell) /\ records \in Seq(ReceiptsOf(cell))
      /\ UNCHANGED <<cell, pending, records, results, isolated, lines>>
  BY DEF IInv, WellTyped, Position, Judge, Gathered, Running
<1>2. ASSUME cell.kind = "mixed"
      PROVE  phase = "formal" /\ (verdict' <=> EvaluateFormal(cell, records, isolated))
  BY <1>1, <1>2, VerdictType DEF IInv, Position, Judge, Running
<1>3. ASSUME cell.kind = "mixed", NEW t \in Keys(cell)
      PROVE  Cardinality(TenantRecords(records, t)) = FormalLoad[t]
  <2>1. pending[t] = 0 /\ pending[t] + Cardinality(TenantRecords(records, t)) = FormalLoad[t]
    BY <1>1, <1>2, <1>3 DEF IInv, Accounts
  <2>2. Cardinality(TenantRecords(records, t)) \in Nat
    <3>1. TenantRecords(records, t) \in SUBSET DOMAIN records
      BY DEF TenantRecords
    <3>. QED  BY <1>1, <3>1, Positions, FS_Subset, FS_CardinalityType
  <2>. QED  BY <2>1, <2>2
<1>4. FormalLoad' = FormalLoad
  BY <1>1 DEF FormalLoad
<1>. QED  BY <1>1, <1>2, <1>3, <1>4 DEF Ledger, Baselines

LEMMA RestKept ==
  ASSUME IInv, Ledger, Baselines,
         Refuse \/ Raise \/ PrintFails \/ Write \/ Exit \/ UNCHANGED vars
  PROVE  Ledger' /\ Baselines'
<1>1. CASE Refuse \/ Raise \/ PrintFails
  <2>1. phase' = "raised"
    BY <1>1 DEF Refuse, Raise, PrintFails
  <2>. QED  BY <2>1 DEF Ledger, Baselines
<1>2. CASE Write \/ Exit
  <2>1. /\ phase = "writing" /\ phase' \in {"writing", "done"}
        /\ UNCHANGED <<cell, records, results, isolated, verdict, lines>>
    BY <1>2 DEF Write, Exit
  <2>2. FormalLoad' = FormalLoad
    BY <2>1 DEF FormalLoad
  <2>. QED  BY <2>1, <2>2 DEF Ledger, Baselines
<1>3. CASE UNCHANGED vars
  BY <1>3 DEF vars, Ledger, Baselines, FormalLoad
<1>. QED  BY <1>1, <1>2, <1>3

LEMMA Kept == Spec => [](IInv /\ Ledger /\ Baselines)
<1>1. Init => Ledger /\ Baselines
  <2> SUFFICES ASSUME Init PROVE Ledger /\ Baselines
    OBVIOUS
  <2>1. phase = "start" /\ isolated = <<>> /\ lines = [f \in ReceiptFiles |-> 0]
    BY DEF Init
  <2>2. MeasuredFile(cell) \in ReceiptFiles
    BY DEF MeasuredFile, ReceiptFiles, ReceiptFile
  <2>. QED  BY <2>1, <2>2 DEF Ledger, Baselines
<1>2. IInv /\ Ledger /\ Baselines /\ [Next]_vars => Ledger' /\ Baselines'
  BY StartKept, EndScanPointKept, EndIsolationKept, WarmupEndKept, AnswerKept, JudgeKept,
     RestKept DEF Next, Proceed
<1>. QED  BY InitIInv, NextIInv, <1>1, <1>2, PTL DEF Spec

(* The tenants, or the rates, divide the receipts among them.              *)
LEMMA SizesAddUp ==
  ASSUME NEW D, IsFiniteSet(D), NEW K, IsFiniteSet(K), NEW part \in [K -> SUBSET D],
         \A j, k \in K : j # k => part[j] \cap part[k] = {},
         \A d \in D : \E k \in K : d \in part[k],
         NEW f, \A k \in K : f[k] = Cardinality(part[k])
  PROVE  SumOf(f, K) = Cardinality(D)
<1> DEFINE of(s) == UNION {part[k] : k \in s}
           g     == [s \in SUBSET K |-> Cardinality(of(s))]
<1>1. \A s \in SUBSET K : of(s) \in SUBSET D
  OBVIOUS
<1>2. ASSUME NEW s \in SUBSET K, NEW x \in s
      PROVE  g[s] = f[x] + g[s \ {x}]
  <2>1. of(s) = part[x] \cup of(s \ {x}) /\ part[x] \cap of(s \ {x}) = {}
    OBVIOUS
  <2>2. IsFiniteSet(part[x]) /\ IsFiniteSet(of(s \ {x}))
    <3>1. part[x] \in SUBSET D /\ of(s \ {x}) \in SUBSET D
      BY <1>1
    <3> HIDE DEF of
    <3>. QED  BY <3>1, FS_Subset
  <2> HIDE DEF of
  <2>3. Cardinality(of(s)) = Cardinality(part[x]) + Cardinality(of(s \ {x}))
    BY <2>1, <2>2, SizeOfBoth
  <2>. QED  BY <2>3
<1>3. of({}) = {} /\ of(K) = D
  OBVIOUS
<1> HIDE DEF of
<1>4. g = [s \in SUBSET K |-> g[s]] /\ g[{}] = 0 /\ g[K] = Cardinality(D)
  BY <1>3, FS_EmptySet
<1> HIDE DEF g
<1>5. Adds(f, K, g)
  BY <1>2, <1>4 DEF Adds
<1>. QED  BY <1>4, <1>5, SumIs

LEMMA KeysAreFinite ==
  ASSUME NEW c \in Cells
  PROVE  IsFiniteSet(Keys(c))
<1>1. CASE c.kind = "mixed"
  BY <1>1, TenantsAreFinite DEF Keys
<1>2. CASE c.kind # "mixed"
  <2>1. c.rates \in Seq(Nat)
    BY <1>2, CellsAssumption
  <2>2. IsFiniteSet(DOMAIN c.rates) /\ c.rates \in [DOMAIN c.rates -> Nat]
    BY <2>1, Positions
  <2>. QED  BY <1>2, <2>2, ImageOfFinite DEF Keys, Rates
<1>. QED  BY <1>1, <1>2

LEMMA VerdictOnDisk == IInv /\ Ledger => VerdictIsOnDisk
<1> SUFFICES ASSUME IInv, Ledger, phase \in {"writing", "done"} PROVE VerdictIsOnDisk
  BY DEF VerdictIsOnDisk
<1> DEFINE measured == IF cell.kind = "mixed" THEN "formal" ELSE "capacity"
           load == IF cell.kind = "mixed"
                   THEN MixedLoad(cell, FormalRate(cell, B0Max(results)), cell.formal_s)
                   ELSE CapacityLoad(cell)
           part == [k \in Keys(cell) |-> IF cell.kind = "mixed" THEN TenantRecords(records, k)
                                         ELSE AtRate(records, k)]
<1>1. /\ cell \in Cells /\ records \in Seq(ReceiptsOf(cell)) /\ results \in Seq(Points)
      /\ DOMAIN pending = Keys(cell) /\ \A k \in DOMAIN pending : pending[k] = 0
  BY DEF IInv, WellTyped, Position, Written, Running
<1>2. lines[ReceiptFile[measured]] = Len(records)
  <2>1. ReceiptFile[measured] = MeasuredFile(cell)
    BY DEF ReceiptFile, MeasuredFile
  <2>. QED  BY <2>1 DEF Ledger
<1>3. DOMAIN load = Keys(cell)
  BY DEF MixedLoad, CapacityLoad, Keys
<1>4. part \in [Keys(cell) -> SUBSET DOMAIN records]
  BY DEF TenantRecords, AtRate
<1>5. \A j, k \in Keys(cell) : j # k => part[j] \cap part[k] = {}
  BY DEF TenantRecords, AtRate
<1>6. \A i \in DOMAIN records : \E k \in Keys(cell) : i \in part[k]
  <2> TAKE i \in DOMAIN records
  <2>1. /\ records[i] \in ReceiptsOf(cell)
        /\ IF cell.kind = "mixed" THEN records[i].tenant \in Keys(cell)
           ELSE records[i].rate \in Keys(cell)
    BY <1>1, Positions, ReceiptType
  <2>. QED  BY <2>1 DEF TenantRecords, AtRate
<1>7. \A k \in Keys(cell) : load[k] = Cardinality(part[k])
  <2> TAKE k \in Keys(cell)
  <2>1. CASE cell.kind = "mixed"
    BY <2>1 DEF Ledger, FormalLoad
  <2>2. CASE cell.kind # "mixed"
    <3>1. load[k] = RequestCap(cell, k)
      BY <2>2 DEF CapacityLoad, Keys
    <3>2. pending[k] = 0 /\ pending[k] + Cardinality(AtRate(records, k)) = RequestCap(cell, k)
      BY <1>1, <2>2 DEF IInv, Accounts
    <3>3. Cardinality(AtRate(records, k)) \in Nat
      <4>1. AtRate(records, k) \in SUBSET DOMAIN records
        BY DEF AtRate
      <4>. QED  BY <1>1, <4>1, Positions, FS_Subset, FS_CardinalityType
    <3>. QED  BY <2>2, <3>1, <3>2, <3>3
  <2>. QED  BY <2>1, <2>2
<1>8. Len(records) = Cardinality(DOMAIN records) /\ IsFiniteSet(DOMAIN records)
  <2>1. \A n \in Nat : IsFiniteSet(1 .. n) /\ Cardinality(1 .. n) = n
    BY FS_Interval
  <2>. QED  BY <1>1, <2>1, Positions
<1> HIDE DEF load, part
<1>9. SumOf(load, DOMAIN load) = Len(records)
  BY <1>1, <1>3, <1>4, <1>5, <1>6, <1>7, <1>8, KeysAreFinite, SizesAddUp
<1>. QED  BY <1>2, <1>9 DEF VerdictIsOnDisk, SumOf, load

(* The receipts a verdict was computed from are the lines of the measured  *)
(* file, and as many as the load has requests: no warmup, nothing lost.    *)
THEOREM VerdictsAreOnDisk == Spec => []VerdictIsOnDisk
BY Kept, VerdictOnDisk, PTL

LEMMA MixedIsEarned ==
  ASSUME \A c \in Cells : c.kind = "mixed" => FewTenants(c)
  PROVE  IInv /\ Ledger /\ Baselines => MixedPassIsEarned
<1> SUFFICES ASSUME IInv, Ledger, Baselines, exit = 0, cell.kind = "mixed"
             PROVE  /\ Compliant(results) # {}
                    /\ DOMAIN isolated = Tenants(cell)
                    /\ Tenants(cell)
                         = {records[i].tenant : i \in Completed(records, DOMAIN records)}
  BY DEF MixedPassIsEarned
<1>1. /\ cell \in Cells /\ records \in Seq(ReceiptsOf(cell)) /\ results \in Seq(Points)
      /\ phase = "done" /\ cell.slo /\ EvaluateFormal(cell, records, isolated)
      /\ \A t \in Tenants(cell) : Cardinality(TenantRecords(records, t)) = FormalLoad[t]
  BY DEF IInv, WellTyped, Outcome, Printable, Ledger, Keys
<1>2. Tenants(cell) = {records[i].tenant : i \in Completed(records, DOMAIN records)}
  <2>1. /\ ShareOk(cell, records) /\ JainOk(cell, records)
        /\ \A t \in Tenants(cell) : ErrorGate(records, TenantRecords(records, t))
    BY <1>1 DEF EvaluateFormal, EvaluateTenant, BucketPass
  <2>. QED  BY <1>1, <2>1, FairServesAll
<1>3. B0Max(results) > 0
  <2> SUFFICES ASSUME ~(B0Max(results) > 0) PROVE FALSE
    OBVIOUS
  <2>1. B0Max(results) = 0
    BY <1>1, B0MaxIsCompliant
  <2>2. PICK t \in Tenants(cell) : TRUE
    BY <1>1, TenantsAreFinite
  <2>3. FormalLoad[t] = 0
    <3>1. cell.shares[t] \in Nat /\ cell.costs[t] \in Nat \ {0}
      <4>1. /\ cell.shares \in [Tenants(cell) -> 0 .. 100]
            /\ cell.costs \in [Tenants(cell) -> Nat \ {0}]
        BY <1>1, CellsAssumption
      <4>2. cell.shares[t] \in 0 .. 100 /\ 0 .. 100 \subseteq Nat
        BY <2>2, <4>1
      <4>. QED  BY <2>2, <4>1, <4>2
    <3>2. cell.factor \in Nat /\ cell.formal_s \in Nat
      BY <1>1, MixedCell
    <3>3. FormalRate(cell, B0Max(results)) = 0
      BY <2>1, <3>2 DEF FormalRate
    <3>4. Requests(cell, t, 0, cell.shares[t], cell.formal_s) = 0
      BY <3>1, <3>2 DEF Requests, CeilDiv
    <3>. QED  BY <2>2, <3>3, <3>4 DEF FormalLoad, MixedLoad
  <2>4. PICK i \in Completed(records, DOMAIN records) : records[i].tenant = t
    BY <1>2, <2>2
  <2>5. i \in TenantRecords(records, t) /\ TenantRecords(records, t) \in SUBSET DOMAIN records
    BY <2>4 DEF Completed, TenantRecords
  <2>6. IsFiniteSet(TenantRecords(records, t))
    BY <1>1, <2>5, Positions, FS_Subset
  <2>7. TenantRecords(records, t) = {}
    BY <1>1, <2>2, <2>3, <2>6, FS_EmptySet
  <2>. QED  BY <2>5, <2>7
<1>4. Compliant(results) # {}
  BY <1>3 DEF B0Max
<1>5. DOMAIN isolated = Tenants(cell)
  BY <1>1, <1>3 DEF Baselines
<1>. QED  BY <1>2, <1>4, <1>5

(* Exit code 0 of a mixed cell: a capacity was found, each tenant has a    *)
(* baseline of its own, and each was served under the formal load.         *)
THEOREM MixedPassesAreEarned ==
  ASSUME \A c \in Cells : c.kind = "mixed" => FewTenants(c)
  PROVE  Spec => []MixedPassIsEarned
BY Kept, MixedIsEarned, PTL

=============================================================================
