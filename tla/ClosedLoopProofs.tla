-------------------------- MODULE ClosedLoopProofs --------------------------
(* The closed loops and the request they send: what a steady run, a row of *)
(* statistics and the work of MFU stand for, for every workload, every     *)
(* server and every order in which the requests of a batch end.            *)
EXTENDS ClosedLoop, Requests, SharedLemmas

ShapeSet == [input_len : Nat, output_len : Nat, batch : Nat]

(* A receipt of the measurement, and a row of rounds_stats.                *)
Receipt ==
  [verdict : CompletedVerdicts \cup FailedVerdicts,
   ttft : Nat \cup {None}, tpot : Seq(Nat), output_tokens : Nat,
   prompt_tokens : Nat \cup {None}, completion_tokens : Nat \cup {None},
   measure_ts : Nat \cup {None}, round : Nat \cup {None}, shape : ShapeSet \cup {None}]

Row ==
  [round : Nat, shape : ShapeSet, requests : Nat, completed : Nat, failed : Nat,
   prompt_tokens : Nat, completion_tokens : Nat]

WellTyped ==
  /\ loop \in {"windows", "rounds"}
  /\ phase \in Ended \cup {"warmup", "measure"}
  /\ clock \in Nat
  /\ rnd \in 0 .. WarmupRounds + MeasureRounds
  /\ si \in DOMAIN Shapes
  /\ started \in 0 .. Batch
  /\ DOMAIN recs \subseteq 1 .. started
  /\ \A i \in DOMAIN recs : recs[i] \in Answers
  /\ Cardinality(InFlight) <= Concurrent
  /\ meas \in Seq(Receipt)
  /\ stats \in Seq(Row)

(* The windows loop: a request starts only inside the measured time, so    *)
(* every receipt but the last was there when another request started.      *)
Serial ==
  loop = "windows" =>
    /\ phase = "warmup" => meas = <<>>
    /\ meas # <<>> => meas[Len(meas)].measure_ts = clock
    /\ \A i \in DOMAIN meas : /\ meas[i].measure_ts \in Nat
                              /\ i # Len(meas) => meas[i].measure_ts < MeasureS
    /\ phase = "judged" => result = EvaluateWindows(meas)

(* The rounds loop: where it is tells how many rows there are and what     *)
(* round and shape each of them is of.                                     *)
RowPlace(k) ==
  /\ stats[k].round = WarmupRounds + 1 + ((k - 1) \div Len(Shapes))
  /\ stats[k].shape = Shapes[((k - 1) % Len(Shapes)) + 1]

Placed ==
  loop = "rounds" =>
    /\ phase \in {"warmup", "measure"} => (phase = "measure" <=> rnd >= WarmupRounds)
    /\ rnd = WarmupRounds + MeasureRounds => si = 1
    /\ Len(stats) = IF rnd < WarmupRounds THEN 0
                    ELSE (rnd - WarmupRounds) * Len(Shapes) + (si - 1)
    /\ \A k \in DOMAIN stats : RowPlace(k)
    /\ phase = "judged" => /\ rnd = WarmupRounds + MeasureRounds
                           /\ result = MfuSummary(stats)

(* The receipts of a row, and the completed ones of a shape.               *)
Own(k) == {i \in DOMAIN meas : /\ meas[i].round = stats[k].round
                               /\ meas[i].shape = stats[k].shape}
DoneWith(sh) == {i \in Completed(meas, DOMAIN meas) : meas[i].shape = sh}

Tagging ==
  loop = "rounds" =>
    /\ \A i \in DOMAIN meas : \E k \in DOMAIN stats : i \in Own(k)
    /\ \A sh \in ShapeSet : Work(stats, sh) = Cardinality(DoneWith(sh))

(* Rows are told apart by round and shape where no shape is declared twice.*)
DistinctShapes == \A i, j \in DOMAIN Shapes : Shapes[i] = Shapes[j] => i = j

Described ==
  loop = "rounds" /\ DistinctShapes =>
    \A k \in DOMAIN stats : /\ stats[k].requests = Cardinality(Own(k))
                            /\ stats[k].completed = CompletedOf(meas, Own(k))

IInv == WellTyped /\ Serial /\ Placed /\ Tagging /\ Described

-----------------------------------------------------------------------------
LEMMA Numbers ==
  /\ WarmupS \in Nat /\ MeasureS \in Nat /\ MaxRequests \in Nat /\ MinCompleted \in Nat
  /\ WarmupRounds \in Nat /\ MeasureRounds \in Nat
  /\ WindowCount \in Nat \ {0} /\ WindowS \in Nat \ {0} /\ Concurrent \in Nat \ {0}
  /\ \A d \in ServiceTimes : d \in Nat \ {0}
BY ClosedLoopAssumption

LEMMA ShapesType ==
  /\ Len(Shapes) \in Nat \ {0} /\ DOMAIN Shapes = 1 .. Len(Shapes)
  /\ \A k \in DOMAIN Shapes : Shapes[k] \in ShapeSet /\ Shapes[k].batch \in Nat
<1>1. Shapes \in Seq(ShapeSet) /\ Shapes # <<>>
  BY ClosedLoopAssumption DEF ShapeSet
<1>2. /\ Len(Shapes) \in Nat /\ DOMAIN Shapes = 1 .. Len(Shapes)
      /\ \A k \in DOMAIN Shapes : Shapes[k] \in ShapeSet
  BY <1>1, Positions
<1>3. Len(Shapes) # 0
  BY <1>1, EmptySeq
<1>. QED  BY <1>2, <1>3 DEF ShapeSet

LEMMA AnswerIsReceipt ==
  ASSUME NEW r \in Answers
  PROVE  /\ r \in Receipt
         /\ \A n \in Nat : /\ [r EXCEPT !.measure_ts = n] \in Receipt
                           /\ [r EXCEPT !.measure_ts = n].measure_ts = n
BY AnswersAssumption DEF Receipt

LEMMA CountsType == \A row \in Row : row.completed \in Nat /\ row.requests \in Nat
BY DEF Row

(* The work of a shape as a sum, and what one more row adds to it.         *)
CompletedAt(rows) == [k \in DOMAIN rows |-> rows[k].completed]

LEMMA WorkIs ==
  ASSUME NEW rows \in Seq(Row), NEW sh
  PROVE  /\ IsFiniteSet(Included(rows, sh))
         /\ Included(rows, sh) \subseteq DOMAIN rows
         /\ \A k \in Included(rows, sh) : CompletedAt(rows)[k] \in Nat \ {0}
         /\ Work(rows, sh) = SumOf(CompletedAt(rows), Included(rows, sh))
<1> DEFINE S      == Included(rows, sh)
           f      == CompletedAt(rows)
           Own1(h) == h = [s \in SUBSET S |->
                             IF s = {} THEN 0 ELSE rows[Any(s)].completed + h[s \ {Any(s)}]]
<1>1. IsFiniteSet(S) /\ S \subseteq DOMAIN rows
  <2>1. S \subseteq DOMAIN rows /\ IsFiniteSet(DOMAIN rows)
    BY Positions DEF Included
  <2>. QED  BY <2>1, FS_Subset
<1>2. \A k \in S : f[k] = rows[k].completed /\ f[k] \in Nat \ {0} /\ f[k] \in Nat
  <2>1. \A k \in DOMAIN rows : rows[k].completed \in Nat
    <3>1. \A k \in DOMAIN rows : rows[k] \in Row
      BY Positions
    <3>. QED  BY <3>1, CountsType
  <2>. QED  BY <1>1, <2>1 DEF CompletedAt, Included
<1>3. Work(rows, sh) = (CHOOSE h : Own1(h))[S]
  BY DEF Work, MapThenSumSet, MapThenFoldSet, Any
<1>4. \A s \in SUBSET S : s # {} => rows[Any(s)].completed = f[Any(s)]
  BY <1>2, AnyIsElement
<1> HIDE DEF S, f
<1>5. \A h : Own1(h) <=> Folded(f, S, h)
  <2> TAKE h
  <2>1. [s \in SUBSET S |-> IF s = {} THEN 0 ELSE rows[Any(s)].completed + h[s \ {Any(s)}]]
          = [s \in SUBSET S |-> IF s = {} THEN 0 ELSE f[Any(s)] + h[s \ {Any(s)}]]
    BY <1>4
  <2>. QED  BY <2>1 DEF Folded
<1> HIDE DEF Own1
<1>6. Own1(CHOOSE h : Own1(h))
  BY <1>1, <1>2, <1>5, SumOfNaturals
<1>7. (CHOOSE h : Own1(h))[S] = SumOf(f, S)
  BY <1>1, <1>2, <1>5, <1>6, SameFold
<1>. QED  BY <1>1, <1>2, <1>3, <1>7 DEF S, f

LEMMA InitInv == Init => IInv
<1> SUFFICES ASSUME Init PROVE IInv
  OBVIOUS
<1>1. /\ meas = <<>> /\ stats = <<>> /\ recs = <<>> /\ started = 0 /\ rnd = 0 /\ si = 1
      /\ phase \in {"warmup", "measure"} /\ clock = 0
  BY DEF Init
<1>2. Len(<<>>) = 0 /\ DOMAIN <<>> = {} /\ <<>> \in Seq(Receipt) /\ <<>> \in Seq(Row)
  BY EmptySeq
<1>3. WellTyped
  <2>1. InFlight = {}
    BY <1>1 DEF InFlight
  <2>2. Cardinality(InFlight) = 0
    BY <2>1, FS_EmptySet
  <2>3. /\ si \in DOMAIN Shapes /\ started \in 0 .. Batch
        /\ rnd \in 0 .. WarmupRounds + MeasureRounds
    BY <1>1, ShapesType, Numbers DEF Batch
  <2>4. loop \in {"windows", "rounds"} /\ phase \in Ended \cup {"warmup", "measure"}
    BY <1>1 DEF Init, Ended
  <2>5. DOMAIN recs = {} /\ meas \in Seq(Receipt) /\ stats \in Seq(Row)
    BY <1>1, <1>2
  <2>. QED  BY <1>1, <2>2, <2>3, <2>4, <2>5, Numbers DEF WellTyped
<1>4. Serial
  BY <1>1, <1>2 DEF Serial, Init
<1>5. Placed
  BY <1>1, <1>2, Numbers, ShapesType DEF Placed, Init
<1>6. Tagging
  <2>1. ASSUME NEW sh \in ShapeSet
        PROVE  Work(stats, sh) = 0 /\ Cardinality(DoneWith(sh)) = 0
    <3>1. Included(stats, sh) = {} /\ DoneWith(sh) = {}
      BY <1>1, <1>2 DEF Included, DoneWith, Completed
    <3>2. Work(stats, sh) = SumOf(CompletedAt(stats), {})
      BY <1>1, <1>2, <3>1, WorkIs
    <3>3. SumOf(CompletedAt(stats), {}) = 0
      BY FS_EmptySet, SumOfNaturals
    <3>. QED  BY <3>1, <3>2, <3>3, FS_EmptySet
  <2>. QED  BY <1>1, <1>2, <2>1 DEF Tagging
<1>7. Described
  BY <1>1, <1>2 DEF Described
<1>. QED  BY <1>3, <1>4, <1>5, <1>6, <1>7 DEF IInv

-----------------------------------------------------------------------------
(* What a step that leaves the receipts, the rows and the place alone      *)
(* keeps of the rounds.                                                    *)
LEMMA SameRounds ==
  ASSUME IInv, UNCHANGED <<loop, clock, meas, rnd, si, stats, result>>,
         phase' = phase \/ phase' = "raised"
  PROVE  Serial' /\ Placed' /\ Tagging' /\ Described'
<1>1. Serial /\ Placed /\ Tagging /\ Described
  BY DEF IInv
<1>2. Tagging' /\ Described'
  BY <1>1 DEF Tagging, Described, Own, DoneWith
<1>3. Placed'
  BY <1>1 DEF Placed, RowPlace
<1>4. Serial'
  BY <1>1 DEF Serial
<1>. QED  BY <1>2, <1>3, <1>4

LEMMA WindowsInv ==
  ASSUME IInv, loop = "windows",
         Warm \/ BeginMeasure \/ JudgeWindows
           \/ \E d \in ServiceTimes, r \in Answers : Fire(d, r)
  PROVE  IInv'
<1>1. WellTyped /\ Serial
  BY DEF IInv
<1>2. loop' = "windows" /\ UNCHANGED <<rnd, si, started, recs, stats>>
  BY DEF Warm, BeginMeasure, JudgeWindows, Fire, a1
<1>3. Placed' /\ Tagging' /\ Described'
  BY <1>2 DEF Placed, Tagging, Described
<1>4. ASSUME phase' \in Ended \cup {"warmup", "measure"}, clock' \in Nat,
             meas' \in Seq(Receipt)
      PROVE  WellTyped'
  BY <1>1, <1>2, <1>4 DEF WellTyped, Batch, InFlight
<1>5. CASE Warm
  <2>1. clock' \in Nat
    BY <1>1, <1>5, Numbers DEF Warm, WellTyped
  <2>2. phase = "warmup" /\ phase' = phase /\ meas' = meas
    BY <1>5 DEF Warm
  <2>3. Serial'
    BY <1>1, <1>2, <2>2, EmptySeq DEF Serial
  <2>. QED  BY <1>1, <1>3, <1>4, <2>1, <2>2, <2>3 DEF IInv, WellTyped
<1>6. CASE BeginMeasure
  <2>1. phase = "warmup" /\ phase' = "measure" /\ meas' = meas /\ clock' = 0
    BY <1>6 DEF BeginMeasure
  <2>2. Serial'
    BY <1>1, <1>2, <2>1, EmptySeq DEF Serial
  <2>. QED  BY <1>1, <1>3, <1>4, <2>1, <2>2 DEF IInv, WellTyped
<1>7. CASE JudgeWindows
  <2>1. /\ phase = "measure" /\ phase' = "judged" /\ meas' = meas /\ clock' = clock
        /\ result' = EvaluateWindows(meas)
    BY <1>7 DEF JudgeWindows
  <2>2. Serial'
    BY <1>1, <1>2, <2>1 DEF Serial
  <2>. QED  BY <1>1, <1>3, <1>4, <2>1, <2>2 DEF IInv, WellTyped, Ended
<1>8. ASSUME NEW d \in ServiceTimes, NEW r \in Answers, Fire(d, r)
      PROVE  IInv'
  <2> DEFINE t == [r EXCEPT !.measure_ts = clock']
  <2>1. /\ phase = "measure" /\ phase' = "measure" /\ clock < MeasureS
        /\ clock' = clock + d /\ meas' = Append(meas, t)
    BY <1>8 DEF Fire, MayFire
  <2>2. clock \in Nat /\ clock' \in Nat
    BY <1>1, <2>1, Numbers DEF WellTyped
  <2>3. t \in Receipt /\ t.measure_ts = clock'
    BY <2>2, AnswerIsReceipt
  <2> HIDE DEF t
  <2>4. /\ meas \in Seq(Receipt) /\ meas' \in Seq(Receipt) /\ Len(meas) \in Nat
        /\ Len(meas') = Len(meas) + 1 /\ meas'[Len(meas')] = t
        /\ \A i \in 1 .. Len(meas) : meas'[i] = meas[i]
        /\ DOMAIN meas = 1 .. Len(meas) /\ DOMAIN meas' = 1 .. Len(meas')
    BY <1>1, <2>1, <2>3, Positions, AppendProperties DEF WellTyped
  <2>5. meas # <<>> => meas[Len(meas)].measure_ts = clock
    BY <1>1, <2>1 DEF Serial
  <2>6. ASSUME NEW i \in DOMAIN meas'
        PROVE  /\ meas'[i].measure_ts \in Nat
               /\ i # Len(meas') => meas'[i].measure_ts < MeasureS
    <3>1. CASE i = Len(meas')
      BY <2>2, <2>3, <2>4, <3>1
    <3>2. CASE i # Len(meas')
      <4>1. i \in DOMAIN meas /\ meas'[i] = meas[i]
        BY <2>4, <3>2
      <4>2. /\ meas[i].measure_ts \in Nat
            /\ i # Len(meas) => meas[i].measure_ts < MeasureS
        BY <1>1, <4>1 DEF Serial
      <4>3. meas # <<>>
        BY <4>1
      <4>. QED  BY <2>1, <2>5, <4>1, <4>2, <4>3
    <3>. QED  BY <3>1, <3>2
  <2>7. Serial'
    BY <1>2, <2>1, <2>3, <2>4, <2>6 DEF Serial
  <2>. QED  BY <1>3, <1>4, <2>1, <2>2, <2>4, <2>7 DEF IInv
<1>. QED  BY <1>5, <1>6, <1>7, <1>8

(* The tasks of a batch: those admitted and not ended hold the permits.    *)
LEMMA TasksInv ==
  ASSUME IInv, Admit \/ \E i \in InFlight, r \in Answers : Finish(i, r)
  PROVE  IInv'
<1>1. /\ UNCHANGED <<loop, phase, clock, meas, rnd, si, stats, result>>
      /\ WellTyped
  BY DEF Admit, Finish, IInv
<1>2. Serial' /\ Placed' /\ Tagging' /\ Described'
  BY <1>1, SameRounds
<1>3. Batch' = Batch /\ Batch \in Nat /\ started \in Nat
  BY <1>1, ShapesType DEF Batch, WellTyped
<1>4. IsFiniteSet(InFlight)
  <2>1. InFlight \subseteq 1 .. started /\ IsFiniteSet(1 .. started)
    BY <1>3, FS_Interval DEF InFlight
  <2>. QED  BY <2>1, FS_Subset
<1>5. ASSUME started' \in 0 .. Batch, DOMAIN recs' \subseteq 1 .. started',
             \A i \in DOMAIN recs' : recs'[i] \in Answers,
             Cardinality(InFlight') <= Concurrent
      PROVE  WellTyped'
  BY <1>1, <1>3, <1>5 DEF WellTyped
<1>6. CASE Admit
  <2>1. /\ started' = started + 1 /\ recs' = recs /\ started < Batch
        /\ Cardinality(InFlight) < Concurrent
    BY <1>6 DEF Admit
  <2>2. DOMAIN recs \subseteq 1 .. started
    BY <1>1 DEF WellTyped
  <2>3. InFlight' = InFlight \cup {started + 1} /\ started + 1 \notin InFlight
    <3>1. 1 .. started + 1 = (1 .. started) \cup {started + 1}
          /\ started + 1 \notin 1 .. started
      BY <1>3
    <3>. QED  BY <2>1, <2>2, <3>1 DEF InFlight
  <2>4. Cardinality(InFlight') = Cardinality(InFlight) + 1
    BY <1>4, <2>3, FS_AddElement
  <2>5. Cardinality(InFlight') <= Concurrent
    BY <1>4, <2>1, <2>4, FS_CardinalityType, Numbers
  <2>6. started' \in 0 .. Batch /\ DOMAIN recs' \subseteq 1 .. started'
    BY <1>3, <2>1, <2>2
  <2>7. \A i \in DOMAIN recs' : recs'[i] \in Answers
    BY <1>1, <2>1 DEF WellTyped
  <2>. QED  BY <1>2, <1>5, <2>5, <2>6, <2>7 DEF IInv
<1>7. ASSUME NEW i \in InFlight, NEW r \in Answers, Finish(i, r)
      PROVE  IInv'
  <2>1. /\ recs' = [j \in DOMAIN recs \cup {i} |-> IF j = i THEN r ELSE recs[j]]
        /\ started' = started
    BY <1>7 DEF Finish
  <2>2. DOMAIN recs' = DOMAIN recs \cup {i} /\ i \in 1 .. started
    BY <2>1 DEF InFlight
  <2>3. InFlight' = InFlight \ {i}
    BY <2>1, <2>2 DEF InFlight
  <2>4. Cardinality(InFlight') <= Concurrent
    <3>1. /\ Cardinality(InFlight') = Cardinality(InFlight) - 1
          /\ Cardinality(InFlight) \in Nat
      BY <1>4, <2>3, FS_RemoveElement, FS_CardinalityType
    <3>2. Cardinality(InFlight) <= Concurrent
      BY <1>1 DEF WellTyped
    <3>. QED  BY <3>1, <3>2, Numbers
  <2>5. \A j \in DOMAIN recs' : recs'[j] \in Answers
    BY <1>1, <2>1 DEF WellTyped
  <2>6. started' \in 0 .. Batch /\ DOMAIN recs' \subseteq 1 .. started'
    BY <1>1, <2>1, <2>2 DEF WellTyped
  <2>. QED  BY <1>2, <1>5, <2>4, <2>5, <2>6 DEF IInv
<1>. QED  BY <1>6, <1>7

LEMMA EndInv ==
  ASSUME IInv, JudgeRounds \/ Raise
  PROVE  IInv'
<1>1. WellTyped /\ UNCHANGED <<loop, clock, meas, rnd, si, started, recs, stats>>
  BY DEF JudgeRounds, Raise, IInv, a1
<1>2. phase' \in Ended
  BY DEF JudgeRounds, Raise, Ended
<1>3. WellTyped'
  BY <1>1, <1>2 DEF WellTyped, Batch, InFlight
<1>4. CASE JudgeRounds
  <2>1. /\ loop = "rounds" /\ phase \in {"warmup", "measure"} /\ phase' = "judged"
        /\ ~(rnd < WarmupRounds + MeasureRounds) /\ result' = MfuSummary(stats)
    BY <1>4 DEF JudgeRounds, InLoop
  <2>2. rnd = WarmupRounds + MeasureRounds
    BY <1>1, <2>1, Numbers DEF WellTyped
  <2>3. Serial'
    BY <1>1, <2>1 DEF Serial
  <2>4. Placed'
    BY <1>1, <2>1, <2>2 DEF Placed, RowPlace, IInv
  <2>5. Tagging' /\ Described'
    BY <1>1 DEF IInv, Tagging, Described, Own, DoneWith
  <2>. QED  BY <1>3, <2>3, <2>4, <2>5 DEF IInv
<1>5. CASE Raise
  BY <1>1, <1>3, <1>5, SameRounds DEF Raise, IInv
<1>. QED  BY <1>4, <1>5

-----------------------------------------------------------------------------
(* The end of a batch.                                                     *)
LEMMA TokensType ==
  ASSUME WellTyped, BatchDone, NEW declared \in Nat,
         NEW field \in {"prompt_tokens", "completion_tokens"}
  PROVE  TokensOr(field, declared) \in Nat
<1> DEFINE U == Usage(field)
<1>1. IsFiniteSet(DOMAIN recs)
  <2>1. Batch \in Nat
    BY ShapesType DEF Batch, WellTyped
  <2>. QED  BY <2>1, FS_Interval DEF BatchDone
<1>2. \A i \in DOMAIN recs : recs[i][field] \in Nat \cup {None}
  <2>1. \A r \in Answers : r["prompt_tokens"] \in Nat \cup {None}
                           /\ r["completion_tokens"] \in Nat \cup {None}
    BY AnswersAssumption
  <2>. QED  BY <2>1 DEF WellTyped
<1>3. U \subseteq Nat /\ IsFiniteSet(U)
  <2> DEFINE V == {recs[i][field] : i \in DOMAIN recs}
  <2>1. [i \in DOMAIN recs |-> recs[i][field]] \in Surjection(DOMAIN recs, V)
    BY DEF Surjection
  <2>2. IsFiniteSet(V)
    BY <1>1, <2>1, FS_Surjection
  <2>3. U \subseteq V /\ U \subseteq Nat
    BY <1>2 DEF Usage
  <2>. QED  BY <2>2, <2>3, FS_Subset
<1>4. CASE ~(U \subseteq {0})
  <2>1. U # {}
    BY <1>4
  <2> HIDE DEF U
  <2>2. PICK x \in U : \A y \in U : y <= x
    BY <1>3, <2>1, GreatestOfFinite DEF HasGreatest
  <2>3. \A y \in U : x >= y
    BY <1>3, <2>2
  <2>4. Max(U) \in U
    BY <2>3 DEF Max
  <2>. QED  BY <1>3, <1>4, <2>4 DEF TokensOr, U
<1>. QED  BY <1>4 DEF TokensOr

(* What the batch adds to the receipts and to the rows.                    *)
LEMMA BatchType ==
  ASSUME IInv, BatchDone
  PROVE  /\ Batch \in Nat /\ DOMAIN recs = 1 .. Batch
         /\ Tagged \in Seq(Receipt) /\ DOMAIN Tagged = 1 .. Batch
         /\ \A i \in 1 .. Batch : /\ Tagged[i].round = rnd + 1
                                  /\ Tagged[i].shape = Shapes[si]
                                  /\ Tagged[i].verdict = recs[i].verdict
         /\ StatsRow \in Row
         /\ StatsRow.round = rnd + 1 /\ StatsRow.shape = Shapes[si]
         /\ StatsRow.requests = Batch
         /\ StatsRow.completed = CompletedOf(Tagged, 1 .. Batch)
<1>1. /\ WellTyped /\ rnd \in Nat /\ DOMAIN recs = 1 .. Batch
      /\ \A i \in 1 .. Batch : recs[i] \in Answers
  BY DEF IInv, WellTyped, BatchDone
<1>2. /\ Shapes[si] \in ShapeSet /\ Batch \in Nat
      /\ Shapes[si].input_len \in Nat /\ Shapes[si].output_len \in Nat
  BY <1>1, ShapesType DEF WellTyped, Batch, ShapeSet
<1>3. ASSUME NEW i \in 1 .. Batch
      PROVE  /\ Tagged[i] \in Receipt
             /\ Tagged[i].round = rnd + 1 /\ Tagged[i].shape = Shapes[si]
             /\ Tagged[i].verdict = recs[i].verdict
  <2>1. Tagged[i] = [recs[i] EXCEPT !.round = rnd + 1, !.shape = Shapes[si]]
    BY <1>3 DEF Tagged
  <2>2. recs[i] \in Answers /\ rnd + 1 \in Nat
    BY <1>1, <1>3
  <2>3. PICK r \in Answers, n \in Nat, sh \in ShapeSet :
          r = recs[i] /\ n = rnd + 1 /\ sh = Shapes[si]
    BY <1>2, <2>2
  <2>4. PICK t : t = Tagged[i]
    OBVIOUS
  <2>5. t = [r EXCEPT !.round = n, !.shape = sh]
    BY <2>1, <2>3, <2>4
  <2>6. t \in Receipt /\ t.round = n /\ t.shape = sh /\ t.verdict = r.verdict
    BY <2>5, AnswersAssumption DEF Receipt
  <2>. QED  BY <2>3, <2>4, <2>6
<1>4. Tagged \in Seq(Receipt) /\ DOMAIN Tagged = 1 .. Batch
  <2>1. Tagged \in [1 .. Batch -> Receipt]
    BY <1>3 DEF Tagged
  <2>. QED  BY <1>2, <2>1, IsASeq
<1>5. Completed(Tagged, 1 .. Batch) = Completed(recs, 1 .. Batch)
  BY <1>3 DEF Completed
<1>6. CompletedOf(recs, 1 .. Batch) \in Nat /\ FailedOf(recs, 1 .. Batch) \in Nat
  <2>1. IsFiniteSet(1 .. Batch)
    BY <1>2, FS_Interval
  <2>2. Completed(recs, 1 .. Batch) \subseteq 1 .. Batch /\ Failed(recs, 1 .. Batch) \subseteq 1 .. Batch
    BY DEF Completed, Failed
  <2>. QED  BY <2>1, <2>2, FS_Subset, FS_CardinalityType DEF CompletedOf, FailedOf
<1>7. /\ TokensOr("prompt_tokens", Shapes[si].input_len) \in Nat
      /\ TokensOr("completion_tokens", Shapes[si].output_len) \in Nat
  BY <1>1, <1>2, TokensType
<1>8. StatsRow \in Row
  BY <1>1, <1>2, <1>6, <1>7 DEF StatsRow, Row
<1>9. /\ StatsRow.round = rnd + 1 /\ StatsRow.shape = Shapes[si]
      /\ StatsRow.requests = Batch
      /\ StatsRow.completed = CompletedOf(Tagged, 1 .. Batch)
  BY <1>5 DEF StatsRow, CompletedOf
<1>. QED  BY <1>1, <1>2, <1>3, <1>4, <1>8, <1>9

LEMMA Quotient ==
  ASSUME NEW n \in Nat, n > 0, NEW q \in Nat, NEW r \in 0 .. n - 1, NEW m \in Nat,
         m = n * q + r
  PROVE  m \div n = q /\ m % n = r
OBVIOUS

LEMMA Divided ==
  ASSUME NEW n \in Nat, n > 0, NEW m \in Nat
  PROVE  /\ m = n * (m \div n) + (m % n)
         /\ m \div n \in Nat /\ m % n \in 0 .. n - 1
OBVIOUS

(* Where the loops over rounds and shapes are after the batch.             *)
LEMMA PlaceMoves ==
  ASSUME IInv, EndBatch
  PROVE  /\ loop = "rounds" /\ loop' = "rounds" /\ UNCHANGED <<clock, result>>
         /\ rnd' \in 0 .. WarmupRounds + MeasureRounds
         /\ si' \in DOMAIN Shapes
         /\ rnd' = WarmupRounds + MeasureRounds => si' = 1
         /\ phase \in {"warmup", "measure"} /\ phase' \in {"warmup", "measure"}
         /\ phase = "measure" <=> rnd >= WarmupRounds
         /\ phase' = "measure" <=> rnd' >= WarmupRounds
         /\ started' = 0 /\ DOMAIN recs' = {}
         /\ \/ si < Len(Shapes) /\ si' = si + 1 /\ rnd' = rnd
            \/ si = Len(Shapes) /\ si' = 1 /\ rnd' = rnd + 1
<1>1. /\ WellTyped /\ Placed /\ loop = "rounds" /\ phase \in {"warmup", "measure"}
      /\ rnd < WarmupRounds + MeasureRounds /\ NextBatch /\ UNCHANGED <<loop, clock, result>>
  BY DEF EndBatch, BatchDone, InLoop, IInv
<1>2. /\ rnd \in 0 .. WarmupRounds + MeasureRounds
      /\ si \in 1 .. Len(Shapes) /\ Len(Shapes) \in Nat \ {0}
      /\ DOMAIN Shapes = 1 .. Len(Shapes)
  BY <1>1, ShapesType DEF WellTyped
<1>3. phase = "measure" <=> rnd >= WarmupRounds
  BY <1>1 DEF Placed
<1>4. \/ si < Len(Shapes) /\ si' = si + 1 /\ rnd' = rnd
      \/ si = Len(Shapes) /\ si' = 1 /\ rnd' = rnd + 1
  <2>1. IF si < Len(Shapes) THEN si' = si + 1 /\ rnd' = rnd
                            ELSE si' = 1 /\ rnd' = rnd + 1
    BY <1>1 DEF NextBatch
  <2>2. si < Len(Shapes) \/ si = Len(Shapes)
    <3>1. PICK n \in Nat : n = Len(Shapes) /\ si \in 1 .. n
      BY <1>2
    <3>. QED  BY <3>1
  <2>. QED  BY <2>1, <2>2
<1>5. /\ phase' = IF rnd' >= WarmupRounds THEN "measure" ELSE "warmup"
      /\ started' = 0 /\ recs' = <<>>
  BY <1>1 DEF NextBatch
<1>6. /\ rnd' \in 0 .. WarmupRounds + MeasureRounds /\ si' \in DOMAIN Shapes
      /\ rnd' = WarmupRounds + MeasureRounds => si' = 1
  <2>1. PICK last \in Nat : last = WarmupRounds + MeasureRounds
    BY Numbers
  <2>2. rnd \in 0 .. last /\ rnd < last
    BY <1>1, <1>2, <2>1
  <2>3. CASE si < Len(Shapes) /\ si' = si + 1 /\ rnd' = rnd
    BY <1>2, <2>1, <2>2, <2>3
  <2>4. CASE si = Len(Shapes) /\ si' = 1 /\ rnd' = rnd + 1
    BY <1>2, <2>1, <2>2, <2>4
  <2>. QED  BY <1>4, <2>3, <2>4
<1>. QED  BY <1>1, <1>3, <1>4, <1>5, <1>6

LEMMA NextBatchTyped ==
  ASSUME IInv, EndBatch, meas' \in Seq(Receipt), stats' \in Seq(Row)
  PROVE  WellTyped' /\ Serial'
<1>1. WellTyped
  BY DEF IInv
<1>2. InFlight' = {}
  BY PlaceMoves DEF InFlight
<1>3. Cardinality(InFlight') = 0
  BY <1>2, FS_EmptySet
<1>4. 0 \in 0 .. Batch'
  BY PlaceMoves, ShapesType DEF Batch
<1>5. WellTyped'
  BY <1>1, <1>3, <1>4, PlaceMoves, Numbers DEF WellTyped, Ended
<1>. QED  BY <1>5, PlaceMoves DEF Serial

LEMMA WarmupEnds ==
  ASSUME IInv, EndBatch, phase = "warmup"
  PROVE  IInv'
<1>1. /\ meas' = meas /\ stats' = stats /\ WellTyped /\ Placed /\ Tagging /\ Described
  BY DEF EndBatch, IInv
<1>2. WellTyped' /\ Serial'
  BY <1>1, NextBatchTyped DEF WellTyped
<1>3. Tagging' /\ Described'
  BY <1>1, PlaceMoves DEF Tagging, Described, Own, DoneWith
<1>4. Placed'
  <2>1. /\ rnd \in Nat /\ rnd < WarmupRounds /\ Len(stats) = 0
        /\ \A k \in DOMAIN stats : RowPlace(k)
    BY <1>1, PlaceMoves, Numbers DEF Placed, WellTyped
  <2>2. Len(stats') = IF rnd' < WarmupRounds THEN 0
                      ELSE (rnd' - WarmupRounds) * Len(Shapes) + (si' - 1)
    <3>1. CASE rnd' < WarmupRounds
      BY <1>1, <2>1, <3>1
    <3>2. CASE ~(rnd' < WarmupRounds)
      <4>1. rnd' = WarmupRounds /\ si' = 1
        BY <2>1, <3>2, PlaceMoves, Numbers
      <4>2. (rnd' - WarmupRounds) * Len(Shapes) + (si' - 1) = 0
        BY <4>1, Numbers, ShapesType
      <4>. QED  BY <1>1, <2>1, <3>2, <4>2
    <3>. QED  BY <3>1, <3>2
  <2>3. \A k \in DOMAIN stats' : RowPlace(k)'
    BY <1>1, <2>1 DEF RowPlace
  <2>. QED  BY <2>2, <2>3, PlaceMoves DEF Placed
<1>. QED  BY <1>2, <1>3, <1>4 DEF IInv

-----------------------------------------------------------------------------
(* The end of a measured batch: one row more, and the receipts behind it.  *)
NewRow == Len(stats) + 1
NewOf(A) == {Len(meas) + i : i \in A}

LEMMA MeasureEnds ==
  ASSUME IInv, EndBatch, phase = "measure"
  PROVE  /\ meas' \in Seq(Receipt) /\ stats' \in Seq(Row)
         /\ Len(meas) \in Nat /\ Len(stats) \in Nat /\ NewRow \notin DOMAIN stats
         /\ DOMAIN stats = 1 .. Len(stats) /\ Len(stats') = NewRow
         /\ DOMAIN stats' = DOMAIN stats \cup {NewRow}
         /\ \A k \in DOMAIN stats : stats'[k] = stats[k]
         /\ stats'[NewRow] = StatsRow
         /\ DOMAIN meas' = DOMAIN meas \cup NewOf(1 .. Batch)
         /\ DOMAIN meas \cap NewOf(1 .. Batch) = {}
         /\ \A i \in DOMAIN meas : meas'[i] = meas[i]
         /\ \A i \in 1 .. Batch : meas'[Len(meas) + i] = Tagged[i]
<1>1. /\ meas' = meas \o Tagged /\ stats' = Append(stats, StatsRow)
      /\ BatchDone
  BY DEF EndBatch
<1>2. meas \in Seq(Receipt) /\ stats \in Seq(Row)
  BY DEF IInv, WellTyped
<1>3. /\ Tagged \in Seq(Receipt) /\ DOMAIN Tagged = 1 .. Batch /\ StatsRow \in Row
      /\ Batch \in Nat
  BY <1>1, BatchType
<1>4. /\ Len(stats) \in Nat /\ DOMAIN stats = 1 .. Len(stats)
      /\ Len(meas) \in Nat /\ DOMAIN meas = 1 .. Len(meas)
  BY <1>2, Positions
<1>5. /\ stats' \in Seq(Row) /\ Len(stats') = NewRow
      /\ \A k \in 1 .. Len(stats) : stats'[k] = stats[k]
      /\ stats'[NewRow] = StatsRow
  BY <1>1, <1>2, <1>3, AppendProperties DEF NewRow
<1>6. DOMAIN stats' = DOMAIN stats \cup {NewRow} /\ NewRow \notin DOMAIN stats
  <2>1. DOMAIN stats' = 1 .. NewRow
    BY <1>5, Positions
  <2>. QED  BY <1>4, <2>1 DEF NewRow
<1>7. /\ meas' \in Seq(Receipt)
      /\ DOMAIN meas' = DOMAIN meas \cup NewOf(1 .. Batch)
      /\ \A i \in DOMAIN meas : meas'[i] = meas[i]
      /\ \A i \in 1 .. Batch : meas'[Len(meas) + i] = Tagged[i]
  <2>1. /\ meas \o Tagged \in Seq(Receipt)
        /\ DOMAIN (meas \o Tagged) = DOMAIN meas \cup {Len(meas) + i : i \in DOMAIN Tagged}
        /\ \A i \in DOMAIN meas : (meas \o Tagged)[i] = meas[i]
        /\ \A i \in DOMAIN Tagged : (meas \o Tagged)[Len(meas) + i] = Tagged[i]
    <3>1. meas \in Seq(Receipt) /\ Tagged \in Seq(Receipt)
      BY <1>2, <1>3
    <3>. QED  BY <3>1, Lengthened
  <2>2. DOMAIN Tagged = 1 .. Batch /\ meas' = meas \o Tagged
    BY <1>1, <1>3
  <2>. QED  BY <2>1, <2>2 DEF NewOf
<1>8. DOMAIN meas \cap NewOf(1 .. Batch) = {}
  BY <1>3, <1>4 DEF NewOf
<1>. QED  BY <1>4, <1>5, <1>6, <1>7, <1>8

(* The place of the new row; no row before it has its round and shape.     *)
LEMMA RowIsPlaced ==
  ASSUME IInv, EndBatch, phase = "measure"
  PROVE  /\ Placed'
         /\ DistinctShapes => \A k \in DOMAIN stats : ~ (/\ stats[k].round = rnd + 1
                                                        /\ stats[k].shape = Shapes[si])
<1>1. PICK n \in Nat, q \in Nat, r \in Nat, W \in Nat :
        /\ n = Len(Shapes) /\ n > 0 /\ W = WarmupRounds /\ rnd = W + q
        /\ r = si - 1 /\ r \in 0 .. n - 1
  <2>1. /\ rnd \in Nat /\ si \in 1 .. Len(Shapes) /\ Len(Shapes) \in Nat \ {0}
        /\ rnd >= WarmupRounds /\ WarmupRounds \in Nat
    BY PlaceMoves, ShapesType, Numbers DEF IInv, WellTyped
  <2>2. PICK n \in Nat, W \in Nat : n = Len(Shapes) /\ W = WarmupRounds
    BY <2>1
  <2>3. /\ n > 0 /\ rnd - W \in Nat /\ rnd = W + (rnd - W)
        /\ si - 1 \in Nat /\ si - 1 \in 0 .. n - 1
    BY <2>1, <2>2
  <2>. QED  BY <2>2, <2>3
<1>2. Len(stats) = n * q + r
  <2>1. Len(stats) = (rnd - WarmupRounds) * Len(Shapes) + (si - 1)
    BY <1>1, PlaceMoves DEF IInv, Placed
  <2>2. rnd - W = q
    BY <1>1
  <2>. QED  BY <1>1, <2>1, <2>2
<1>3. /\ Len(stats) \in Nat /\ DOMAIN stats = 1 .. Len(stats)
      /\ Len(stats') = Len(stats) + 1
      /\ DOMAIN stats' = DOMAIN stats \cup {NewRow}
      /\ \A k \in DOMAIN stats : stats'[k] = stats[k]
      /\ stats'[NewRow].round = rnd + 1 /\ stats'[NewRow].shape = Shapes[si]
  BY MeasureEnds, BatchType DEF NewRow, EndBatch
<1>4. ASSUME NEW k, k = NewRow PROVE RowPlace(k)'
  <2>1. PICK m \in Nat : m = Len(stats)
    BY <1>3
  <2>2. m \div n = q /\ m % n = r /\ (m + 1) - 1 = m
    <3>1. m = n * q + r /\ r \in 0 .. n - 1 /\ n > 0
      BY <1>1, <1>2, <2>1
    <3>2. m \div n = q /\ m % n = r
      BY <3>1, Quotient
    <3>. QED  BY <3>2
  <2>3. WarmupRounds + 1 + (m \div n) = rnd + 1 /\ (m % n) + 1 = si
    <3>1. si \in Nat
      BY ShapesType DEF IInv, WellTyped
    <3>. QED  BY <1>1, <2>2, <3>1
  <2>4. /\ stats'[m + 1].round = WarmupRounds + 1 + (((m + 1) - 1) \div Len(Shapes))
        /\ stats'[m + 1].shape = Shapes[(((m + 1) - 1) % Len(Shapes)) + 1]
    BY <1>1, <1>3, <2>1, <2>2, <2>3 DEF NewRow
  <2>5. k = m + 1
    BY <1>4, <2>1 DEF NewRow
  <2>. QED  BY <2>4, <2>5 DEF RowPlace
<1>5. \A k \in DOMAIN stats' : RowPlace(k)'
  <2>1. \A k \in DOMAIN stats : RowPlace(k)
    BY PlaceMoves DEF IInv, Placed
  <2>2. \A k \in DOMAIN stats : RowPlace(k)'
    BY <1>3, <2>1 DEF RowPlace
  <2>. QED  BY <1>3, <1>4, <2>2
<1>6. Len(stats') = IF rnd' < WarmupRounds THEN 0
                    ELSE (rnd' - WarmupRounds) * Len(Shapes) + (si' - 1)
  <2>1. Len(stats') = n * q + r + 1
    BY <1>2, <1>3
  <2>2. CASE si' = si + 1 /\ rnd' = rnd
    <3>1. rnd' - W = q /\ si' - 1 = r + 1 /\ ~(rnd' < WarmupRounds)
      BY <1>1, <2>2, ShapesType DEF IInv, WellTyped
    <3>. QED  BY <1>1, <2>1, <3>1
  <2>3. CASE si = Len(Shapes) /\ si' = 1 /\ rnd' = rnd + 1
    <3>1. rnd' - W = q + 1 /\ si' - 1 = 0 /\ r = n - 1 /\ ~(rnd' < WarmupRounds)
      BY <1>1, <2>3
    <3>2. (q + 1) * n + 0 = n * q + r + 1
      BY <3>1
    <3>. QED  BY <1>1, <2>1, <3>1, <3>2
  <2>. QED  BY <2>2, <2>3, PlaceMoves
<1>7. Placed'
  BY <1>5, <1>6, PlaceMoves DEF Placed
<1>8. ASSUME DistinctShapes, NEW k \in DOMAIN stats,
             stats[k].round = rnd + 1, stats[k].shape = Shapes[si]
      PROVE  FALSE
  <2>1. PICK m \in Nat : m = k - 1 /\ m < Len(stats)
    BY <1>3
  <2>2. /\ m = n * (m \div n) + (m % n)
        /\ m \div n \in Nat /\ m % n \in 0 .. n - 1
    BY <1>1, Divided
  <2>3. /\ rnd + 1 = WarmupRounds + 1 + (m \div n)
        /\ Shapes[si] = Shapes[(m % n) + 1]
    BY <1>1, <1>8, <2>1, PlaceMoves DEF IInv, Placed, RowPlace
  <2>4. m \div n = q
    BY <1>1, <2>2, <2>3
  <2>5. (m % n) + 1 = si
    <3>1. DOMAIN Shapes = 1 .. n /\ si \in DOMAIN Shapes
      BY <1>1, ShapesType DEF IInv, WellTyped
    <3>2. (m % n) + 1 \in DOMAIN Shapes
      BY <1>1, <2>2, <3>1
    <3>. QED  BY <1>8, <2>3, <3>1, <3>2 DEF DistinctShapes
  <2>6. m % n = r
    BY <1>1, <2>2, <2>5
  <2>. QED  BY <1>2, <1>3, <2>1, <2>2, <2>4, <2>6
<1>. QED  BY <1>7, <1>8

-----------------------------------------------------------------------------
LEMMA WorkAdds ==
  ASSUME NEW rows \in Seq(Row), NEW more \in Seq(Row), NEW n, n \notin DOMAIN rows,
         DOMAIN more = DOMAIN rows \cup {n}, \A k \in DOMAIN rows : more[k] = rows[k],
         NEW sh
  PROVE  /\ Work(rows, sh) \in Nat
         /\ Work(more, sh) = Work(rows, sh)
                             + (IF more[n].shape = sh THEN more[n].completed ELSE 0)
<1> DEFINE S == Included(rows, sh)
           T == Included(more, sh)
           f == CompletedAt(rows)
           g == CompletedAt(more)
<1>1. /\ IsFiniteSet(S) /\ S \subseteq DOMAIN rows /\ \A k \in S : f[k] \in Nat
      /\ Work(rows, sh) = SumOf(f, S)
  BY WorkIs
<1>2. Work(more, sh) = SumOf(g, T)
  BY WorkIs
<1>3. more[n].completed \in Nat /\ g[n] = more[n].completed
  <2>1. n \in DOMAIN more
    OBVIOUS
  <2>2. more[n] \in Row
    BY <2>1, Positions
  <2>3. more[n].completed \in Nat
    BY <2>2, CountsType
  <2>. QED  BY <2>1, <2>3 DEF CompletedAt
<1>4. \A k \in S : g[k] = f[k] /\ g[k] \in Nat
  BY <1>1 DEF CompletedAt
<1>5. n \notin S
  BY <1>1
<1>6. \A k : k \in T <=> k \in S \/ (k = n /\ more[n].shape = sh /\ more[n].completed > 0)
  <2>1. \A k \in DOMAIN rows : k \in T <=> k \in S
    BY DEF Included
  <2>2. n \in T <=> more[n].shape = sh /\ more[n].completed > 0
    BY DEF Included
  <2>3. T \subseteq DOMAIN rows \cup {n} /\ S \subseteq DOMAIN rows
    BY DEF Included
  <2> HIDE DEF S, T
  <2>. QED  BY <2>1, <2>2, <2>3
<1> HIDE DEF S, T, f, g
<1>7. SumOf(f, S) = SumOf(g, S) /\ SumOf(f, S) \in Nat
  BY <1>1, <1>4, SumSame, SumOfNaturals
<1>8. CASE more[n].shape = sh /\ more[n].completed > 0
  <2>1. SumOf(g, S \cup {n}) = g[n] + SumOf(g, S)
    BY <1>1, <1>3, <1>4, <1>5, SumWithOneMore
  <2>2. T = S \cup {n}
    BY <1>6, <1>8
  <2>. QED  BY <1>1, <1>2, <1>3, <1>7, <1>8, <2>1, <2>2
<1>9. CASE ~(more[n].shape = sh /\ more[n].completed > 0)
  <2>1. T = S
    BY <1>6, <1>9
  <2>. QED  BY <1>1, <1>2, <1>3, <1>7, <1>9, <2>1
<1>. QED  BY <1>8, <1>9

(* The receipts behind the new row are those of its batch.                 *)
LEMMA NewReceipts ==
  ASSUME IInv, EndBatch, phase = "measure", NEW A \in SUBSET (1 .. Batch)
  PROVE  /\ IsFiniteSet(NewOf(A)) /\ Cardinality(NewOf(A)) = Cardinality(A)
         /\ NewOf(A) \cap DOMAIN meas = {}
<1>1. /\ Batch \in Nat /\ Len(meas) \in Nat
      /\ DOMAIN meas \cap NewOf(1 .. Batch) = {}
  BY MeasureEnds, BatchType DEF EndBatch
<1>2. IsFiniteSet(1 .. Batch) /\ 1 .. Batch \subseteq Nat
  BY <1>1, FS_Interval
<1>3. IsFiniteSet(A) /\ A \subseteq Nat
  BY <1>2, FS_Subset
<1>4. NewOf(A) \subseteq NewOf(1 .. Batch)
  BY DEF NewOf
<1>. QED  BY <1>1, <1>3, <1>4, Shifted DEF NewOf

LEMMA TaggingKept ==
  ASSUME IInv, EndBatch, phase = "measure"
  PROVE  Tagging'
<1> DEFINE done == Completed(Tagged, 1 .. Batch)
<1>1. /\ loop = "rounds" /\ loop' = "rounds" /\ Tagging
      /\ meas \in Seq(Receipt) /\ stats \in Seq(Row)
  BY PlaceMoves DEF IInv, WellTyped
<1>2. /\ stats'[NewRow].round = rnd + 1 /\ stats'[NewRow].shape = Shapes[si]
      /\ stats'[NewRow].completed = Cardinality(done)
      /\ \A i \in 1 .. Batch : /\ meas'[Len(meas) + i].round = rnd + 1
                               /\ meas'[Len(meas) + i].shape = Shapes[si]
                               /\ meas'[Len(meas) + i].verdict = Tagged[i].verdict
  BY MeasureEnds, BatchType DEF EndBatch, CompletedOf
<1>3. ASSUME NEW i \in DOMAIN meas'
      PROVE  \E k \in DOMAIN stats' : /\ meas'[i].round = stats'[k].round
                                      /\ meas'[i].shape = stats'[k].shape
  <2>1. CASE i \in DOMAIN meas
    <3>1. PICK k \in DOMAIN stats : i \in Own(k)
      BY <1>1, <2>1 DEF Tagging
    <3>. QED  BY <2>1, <3>1, MeasureEnds DEF Own
  <2>2. CASE i \notin DOMAIN meas
    <3>1. PICK j \in 1 .. Batch : i = Len(meas) + j
      BY <2>2, MeasureEnds DEF NewOf
    <3>. QED  BY <1>2, <3>1, MeasureEnds
  <2>. QED  BY <2>1, <2>2
<1>4. ASSUME NEW sh \in ShapeSet
      PROVE  Work(stats', sh) = Cardinality(DoneWith(sh)')
  <2>1. /\ Work(stats, sh) \in Nat
        /\ Work(stats', sh) = Work(stats, sh)
             + (IF stats'[NewRow].shape = sh THEN stats'[NewRow].completed ELSE 0)
    <3>1. PICK n : n = NewRow
      OBVIOUS
    <3>2. PICK more : more = stats'
      OBVIOUS
    <3>3. /\ more \in Seq(Row) /\ n \notin DOMAIN stats
          /\ DOMAIN more = DOMAIN stats \cup {n} /\ \A k \in DOMAIN stats : more[k] = stats[k]
      BY <3>1, <3>2, MeasureEnds
    <3>4. /\ Work(stats, sh) \in Nat
          /\ Work(more, sh) = Work(stats, sh)
               + (IF more[n].shape = sh THEN more[n].completed ELSE 0)
      BY <1>1, <3>3, WorkAdds
    <3>. QED  BY <3>1, <3>2, <3>4
  <2>2. Work(stats, sh) = Cardinality(DoneWith(sh))
    BY <1>1 DEF Tagging
  <2>3. IsFiniteSet(DoneWith(sh)) /\ DoneWith(sh) \subseteq DOMAIN meas
    <3>1. DoneWith(sh) \subseteq DOMAIN meas
      BY DEF DoneWith, Completed
    <3>. QED  BY <1>1, <3>1, Positions, FS_Subset
  <2>4. done \subseteq 1 .. Batch
    BY DEF Completed
  <2>5. DoneWith(sh)' = IF Shapes[si] = sh THEN DoneWith(sh) \cup NewOf(done)
                        ELSE DoneWith(sh)
    <3>1. ASSUME NEW i \in DOMAIN meas
          PROVE  i \in DoneWith(sh)' <=> i \in DoneWith(sh)
      BY <3>1, MeasureEnds DEF DoneWith, Completed
    <3>2. ASSUME NEW j \in 1 .. Batch, NEW i, i = Len(meas) + j
          PROVE  i \in DoneWith(sh)' <=> Shapes[si] = sh /\ j \in done
      <4>1. i \in DOMAIN meas'
        BY <3>2, MeasureEnds DEF NewOf
      <4>. QED  BY <1>2, <3>2, <4>1 DEF DoneWith, Completed
    <3>3. \A i \in DOMAIN meas' : i \in DOMAIN meas \/ \E j \in 1 .. Batch : i = Len(meas) + j
      BY MeasureEnds DEF NewOf
    <3>4. DoneWith(sh)' \subseteq DOMAIN meas'
      BY DEF DoneWith, Completed
    <3>5. ASSUME NEW i
          PROVE  i \in DoneWith(sh)' <=> \/ i \in DoneWith(sh)
                                         \/ Shapes[si] = sh /\ i \in NewOf(done)
      <4>1. CASE i \in DOMAIN meas
        BY <2>4, <3>1, <4>1, NewReceipts
      <4>2. CASE \E j \in 1 .. Batch : i = Len(meas) + j
        <5>1. PICK j \in 1 .. Batch : i = Len(meas) + j
          BY <4>2
        <5>2. i \in NewOf(1 .. Batch) /\ i \notin DoneWith(sh)
          BY <2>3, <5>1, MeasureEnds DEF NewOf
        <5>3. i \in NewOf(done) <=> j \in done
          <6>1. \A x \in done : x \in Nat
            BY <2>4
          <6>. QED  BY <5>1, <6>1, MeasureEnds DEF NewOf
        <5>. QED  BY <3>2, <5>1, <5>2, <5>3
      <4>3. CASE i \notin DOMAIN meas'
        <5>1. i \notin NewOf(done) /\ i \notin DoneWith(sh)
          BY <2>3, <2>4, <4>3, MeasureEnds DEF NewOf
        <5>. QED  BY <3>4, <4>3, <5>1
      <4>. QED  BY <3>3, <4>1, <4>2, <4>3
    <3>. QED  BY <3>5
  <2>6. CASE Shapes[si] = sh
    <3>1. Cardinality(DoneWith(sh) \cup NewOf(done)) = Cardinality(DoneWith(sh)) + Cardinality(done)
      <4>1. /\ IsFiniteSet(NewOf(done)) /\ Cardinality(NewOf(done)) = Cardinality(done)
            /\ NewOf(done) \cap DOMAIN meas = {}
        BY <2>4, NewReceipts
      <4>2. DoneWith(sh) \cap NewOf(done) = {}
        BY <2>3, <4>1
      <4>. QED  BY <2>3, <4>1, <4>2, SizeOfBoth
    <3>. QED  BY <1>2, <2>1, <2>2, <2>5, <2>6, <3>1
  <2>7. CASE Shapes[si] # sh
    BY <1>2, <2>1, <2>2, <2>5, <2>7
  <2>. QED  BY <2>6, <2>7
<1>. QED  BY <1>3, <1>4 DEF Tagging, Own

LEMMA DescribedKept ==
  ASSUME IInv, EndBatch, phase = "measure"
  PROVE  Described'
<1> SUFFICES ASSUME DistinctShapes, NEW k \in DOMAIN stats'
             PROVE  /\ stats'[k].requests = Cardinality(Own(k)')
                    /\ stats'[k].completed = CompletedOf(meas', Own(k)')
  BY DEF Described
<1> DEFINE batch == 1 .. Batch
<1>1. /\ loop = "rounds" /\ Described
      /\ \A j \in DOMAIN stats : ~ (/\ stats[j].round = rnd + 1
                                    /\ stats[j].shape = Shapes[si])
      /\ \A i \in DOMAIN meas : \E j \in DOMAIN stats : i \in Own(j)
  BY PlaceMoves, RowIsPlaced DEF IInv, Tagging
<1>2. /\ DOMAIN meas' = DOMAIN meas \cup NewOf(batch)
      /\ \A i \in DOMAIN meas : meas'[i] = meas[i]
      /\ DOMAIN stats' = DOMAIN stats \cup {NewRow}
      /\ \A j \in DOMAIN stats : stats'[j] = stats[j]
      /\ DOMAIN meas \cap NewOf(batch) = {}
  BY MeasureEnds
<1>3. /\ stats'[NewRow].round = rnd + 1 /\ stats'[NewRow].shape = Shapes[si]
      /\ stats'[NewRow].requests = Batch
      /\ stats'[NewRow].completed = Cardinality(Completed(Tagged, batch))
      /\ \A i \in batch : /\ meas'[Len(meas) + i].round = rnd + 1
                          /\ meas'[Len(meas) + i].shape = Shapes[si]
                          /\ meas'[Len(meas) + i].verdict = Tagged[i].verdict
      /\ Batch \in Nat
  BY MeasureEnds, BatchType DEF EndBatch, CompletedOf
<1>4. \A i \in NewOf(batch) : meas'[i].round = rnd + 1 /\ meas'[i].shape = Shapes[si]
  BY <1>3 DEF NewOf
<1>5. CASE k \in DOMAIN stats
  <2>1. Own(k)' = Own(k)
    <3>1. \A i \in NewOf(batch) : i \notin Own(k)'
      BY <1>1, <1>2, <1>4, <1>5 DEF Own
    <3>2. \A i \in DOMAIN meas : i \in Own(k)' <=> i \in Own(k)
      BY <1>2, <1>5 DEF Own
    <3>3. Own(k)' \subseteq DOMAIN meas' /\ Own(k) \subseteq DOMAIN meas
      BY DEF Own
    <3>. QED  BY <1>2, <3>1, <3>2, <3>3
  <2>2. Completed(meas', Own(k)) = Completed(meas, Own(k))
    BY <1>2 DEF Completed, Own
  <2>. QED  BY <1>1, <1>2, <1>5, <2>1, <2>2 DEF Described, CompletedOf
<1>6. CASE k = NewRow
  <2>1. Own(k)' = NewOf(batch)
    <3>1. \A i \in DOMAIN meas : i \notin Own(k)'
      <4>1. ASSUME NEW i \in DOMAIN meas PROVE i \notin Own(k)'
        <5>1. PICK j \in DOMAIN stats : i \in Own(j)
          BY <1>1
        <5>. QED  BY <1>1, <1>2, <1>3, <1>6, <5>1 DEF Own
      <4>. QED  BY <4>1
    <3>2. \A i \in NewOf(batch) : i \in Own(k)'
      BY <1>2, <1>3, <1>4, <1>6 DEF Own
    <3>3. Own(k)' \subseteq DOMAIN meas'
      BY DEF Own
    <3>. QED  BY <1>2, <3>1, <3>2, <3>3
  <2>2. Completed(meas', NewOf(batch)) = NewOf(Completed(Tagged, batch))
    BY <1>3 DEF Completed, NewOf
  <2>3. Completed(Tagged, batch) \in SUBSET batch
    BY DEF Completed
  <2>4. Cardinality(batch) = Batch
    BY <1>3, FS_Interval
  <2>5. /\ Cardinality(NewOf(batch)) = Batch
        /\ Cardinality(NewOf(Completed(Tagged, batch))) = Cardinality(Completed(Tagged, batch))
    BY <2>3, <2>4, NewReceipts
  <2>. QED  BY <1>3, <1>6, <2>1, <2>2, <2>5 DEF CompletedOf
<1>. QED  BY <1>2, <1>5, <1>6

-----------------------------------------------------------------------------
LEMMA StepInv == IInv /\ [Next]_vars => IInv'
<1> SUFFICES ASSUME IInv, [Next]_vars PROVE IInv'
  OBVIOUS
<1>1. CASE Warm \/ BeginMeasure \/ JudgeWindows
             \/ \E d \in ServiceTimes, r \in Answers : Fire(d, r)
  <2>1. loop = "windows"
    BY <1>1 DEF Warm, BeginMeasure, JudgeWindows, Fire
  <2>. QED  BY <1>1, <2>1, WindowsInv
<1>2. CASE Admit \/ \E i \in InFlight, r \in Answers : Finish(i, r)
  BY <1>2, TasksInv
<1>3. CASE EndBatch
  <2>1. CASE phase = "warmup"
    BY <1>3, <2>1, WarmupEnds
  <2>2. CASE phase = "measure"
    <3>1. WellTyped' /\ Serial'
      BY <1>3, <2>2, MeasureEnds, NextBatchTyped
    <3>. QED  BY <1>3, <2>2, <3>1, RowIsPlaced, TaggingKept, DescribedKept DEF IInv
  <2>. QED  BY <1>3, <2>1, <2>2, PlaceMoves
<1>4. CASE JudgeRounds \/ Raise
  BY <1>4, EndInv
<1>5. CASE UNCHANGED vars
  <2>1. WellTyped'
    BY <1>5 DEF IInv, WellTyped, vars, Batch, InFlight
  <2>2. UNCHANGED <<loop, clock, meas, rnd, si, stats, result>> /\ phase' = phase
    BY <1>5 DEF vars
  <2>. QED  BY <2>1, <2>2, SameRounds DEF IInv
<1>. QED  BY <1>1, <1>2, <1>3, <1>4, <1>5 DEF Next, Proceed

LEMMA Invariance == Spec => []IInv
BY InitInv, StepInv, PTL DEF Spec

(* Type correctness, and never more requests in flight than _CONCURRENT.   *)
THEOREM TypeCorrect == Spec => []TypeOK
<1>1. IInv => TypeOK
  BY DEF IInv, WellTyped, TypeOK
<1>. QED  BY <1>1, Invariance, PTL

(* rounds_stats and the receipts tell the same story, for every order in   *)
(* which the requests of a batch end, where no shape is declared twice.    *)
THEOREM RowsDescribeReceipts == DistinctShapes => (Spec => []StatsDescribeReceipts)
<1> SUFFICES ASSUME DistinctShapes PROVE Spec => []StatsDescribeReceipts
  OBVIOUS
<1>1. IInv => StatsDescribeReceipts
  <2> SUFFICES ASSUME IInv, loop = "rounds" PROVE StatsDescribeReceipts
    BY DEF StatsDescribeReceipts
  <2>1. \A k \in DOMAIN stats : RowPlace(k) /\ /\ stats[k].requests = Cardinality(Own(k))
                                              /\ stats[k].completed = CompletedOf(meas, Own(k))
    BY DEF IInv, Placed, Described
  <2>2. phase = "judged" => Len(stats) = MeasureRounds * Len(Shapes)
    <3> SUFFICES ASSUME phase = "judged" PROVE Len(stats) = MeasureRounds * Len(Shapes)
      OBVIOUS
    <3>1. /\ rnd = WarmupRounds + MeasureRounds /\ si = 1
          /\ Len(stats) = IF rnd < WarmupRounds THEN 0
                          ELSE (rnd - WarmupRounds) * Len(Shapes) + (si - 1)
      BY DEF IInv, Placed
    <3>2. ~(rnd < WarmupRounds) /\ rnd - WarmupRounds = MeasureRounds /\ si - 1 = 0
      BY <3>1, Numbers
    <3>3. MeasureRounds * Len(Shapes) + 0 = MeasureRounds * Len(Shapes)
      BY Numbers, ShapesType
    <3>. QED  BY <3>1, <3>2, <3>3
  <2>. QED  BY <2>1, <2>2 DEF StatsDescribeReceipts, RowPlace, Own
<1>. QED  BY <1>1, Invariance, PTL

LEMMA WorkIsPositive ==
  ASSUME NEW rows \in Seq(Row), NEW sh
  PROVE  Included(rows, sh) # {} <=> Work(rows, sh) > 0
<1> DEFINE S == Included(rows, sh)
           f == CompletedAt(rows)
<1>1. /\ IsFiniteSet(S) /\ Work(rows, sh) = SumOf(f, S)
      /\ \A k \in S : f[k] \in Nat /\ f[k] # 0
  BY WorkIs
<1> HIDE DEF S, f
<1>2. CASE S = {}
  <2>1. SumOf(f, S) = 0
    BY <1>1, <1>2, SumOfNaturals
  <2>. QED  BY <1>1, <1>2, <2>1 DEF S
<1>3. CASE S # {}
  <2>1. PICK k \in S : TRUE
    BY <1>3
  <2>2. SumOf(f, S) = f[k] + SumOf(f, S \ {k}) /\ SumOf(f, S \ {k}) \in Nat
    BY <1>1, SumOfNaturals
  <2>3. SumOf(f, S) > 0
    BY <1>1, <2>2
  <2>. QED  BY <1>1, <1>3, <2>3 DEF S
<1>. QED  BY <1>2, <1>3

(* MFU is computed from the measured requests that completed, shape by     *)
(* shape: neither warmup nor failed requests count.                        *)
THEOREM MfuCountsItsWork == Spec => []MfuCountsWorkDone
<1>1. IInv => MfuCountsWorkDone
  <2> SUFFICES ASSUME IInv, loop = "rounds", phase = "judged" PROVE MfuCountsWorkDone
    BY DEF MfuCountsWorkDone
  <2> DEFINE done(k)  == Cardinality({i \in Completed(meas, DOMAIN meas) : meas[i].shape = Shapes[k]})
             worked   == {k \in DOMAIN Shapes : done(k) > 0}
             counted  == {k \in DOMAIN Shapes : Included(stats, Shapes[k]) # {}}
  <2>1. result = MfuSummary(stats) /\ stats \in Seq(Row)
    BY DEF IInv, Placed, WellTyped
  <2>2. \A k \in DOMAIN Shapes : Work(stats, Shapes[k]) = done(k)
    BY ShapesType DEF IInv, Tagging, DoneWith
  <2>3. \A k \in DOMAIN Shapes : Included(stats, Shapes[k]) # {} <=> done(k) > 0
    BY <2>1, <2>2, WorkIsPositive
  <2> HIDE DEF done
  <2>4. counted = worked
    BY <2>3
  <2>5. /\ result.work = [k \in counted |-> Work(stats, Shapes[k])]
        /\ result.main_shape = IF counted = {} THEN None ELSE Shapes[Min(counted)]
    BY <2>1 DEF MfuSummary
  <2>6. [k \in counted |-> Work(stats, Shapes[k])] = [k \in worked |-> done(k)]
    BY <2>2, <2>4
  <2>7. result.work = [k \in worked |-> done(k)]
    BY <2>5, <2>6
  <2>8. result.main_shape = IF worked = {} THEN None ELSE Shapes[Min(worked)]
    BY <2>4, <2>5
  <2>. QED  BY <2>7, <2>8 DEF MfuCountsWorkDone, done
<1>. QED  BY <1>1, Invariance, PTL

-----------------------------------------------------------------------------
(* The windows.                                                            *)
LEMMA FallsInWindow ==
  ASSUME NEW t \in Nat, NEW s \in Nat, s > 0, NEW n \in Nat, t < n * s
  PROVE  \E w \in 0 .. n - 1 : w * s <= t /\ t < (w + 1) * s
<1> DEFINE w == t \div s
<1>1. w \in Nat /\ t = s * w + (t % s) /\ t % s \in 0 .. s - 1
  BY Divided
<1> HIDE DEF w
<1>2. w * s <= t /\ t < (w + 1) * s
  <2>1. s * w = w * s /\ (w + 1) * s = w * s + s
    BY <1>1
  <2>. QED  BY <1>1, <2>1
<1>3. w < n
  <2> SUFFICES ASSUME w >= n PROVE FALSE
    BY <1>1
  <2>1. w * s >= n * s
    BY <1>1
  <2>. QED  BY <1>1, <1>2, <2>1
<1>. QED  BY <1>1, <1>2, <1>3

(* Where the windows cover the measured time, only the last receipt can    *)
(* lie in none of them.                                                    *)
THEOREM OneReceiptOutside == Spec => []AtMostOneOutside
<1>1. IInv => AtMostOneOutside
  <2> SUFFICES ASSUME IInv, WindowCount * WindowS >= MeasureS, loop = "windows",
                      NEW i \in DOMAIN meas, i # Len(meas)
               PROVE  \E w \in Windows : i \in InWindow(meas, w)
    BY DEF AtMostOneOutside
  <2>1. meas[i].measure_ts \in Nat /\ meas[i].measure_ts < MeasureS
    BY DEF IInv, Serial
  <2>2. PICK w \in 0 .. WindowCount - 1 :
          w * WindowS <= meas[i].measure_ts /\ meas[i].measure_ts < (w + 1) * WindowS
    <3>1. PICK n \in Nat, s \in Nat, m \in Nat, t \in Nat :
            /\ n = WindowCount /\ s = WindowS /\ m = MeasureS /\ t = meas[i].measure_ts /\ s > 0
      <4>1. /\ WindowCount \in Nat /\ WindowS \in Nat /\ MeasureS \in Nat /\ WindowS > 0
            /\ meas[i].measure_ts \in Nat
        BY <2>1, Numbers
      <4>. QED  BY <4>1, Zenon
    <3>2. t < n * s
      <4>1. n * s >= m /\ t < m /\ n * s \in Nat
        BY <2>1, <3>1
      <4>. QED  BY <3>1, <4>1
    <3>3. \E w \in 0 .. n - 1 : w * s <= t /\ t < (w + 1) * s
      BY <3>1, <3>2, FallsInWindow
    <3>. QED  BY <3>1, <3>3
  <2>. QED  BY <2>2 DEF Windows, InWindow
<1>. QED  BY <1>1, Invariance, PTL

(* The tokens of the windows and their squares as sums.                    *)
TokensAt(rs) == [w \in Windows |-> WindowTokens(rs, w)]
SquaresAt(rs) == [w \in Windows |-> WindowTokens(rs, w) * WindowTokens(rs, w)]

LEMMA WindowTokensType ==
  ASSUME NEW rs \in Seq(Receipt), NEW w
  PROVE  /\ WindowTokens(rs, w) \in Nat
         /\ InWindow(rs, w) = {} => WindowTokens(rs, w) = 0
<1> DEFINE bucket == InWindow(rs, w)
           f      == [i \in bucket |-> rs[i].output_tokens]
           Own1(h) == h = [s \in SUBSET bucket |->
                             IF s = {} THEN 0
                             ELSE rs[Any(s)].output_tokens + h[s \ {Any(s)}]]
<1>1. bucket \subseteq DOMAIN rs /\ IsFiniteSet(bucket)
  <2>1. bucket \subseteq DOMAIN rs /\ IsFiniteSet(DOMAIN rs)
    BY Positions DEF InWindow
  <2>. QED  BY <2>1, FS_Subset
<1>2. \A i \in bucket : f[i] \in Nat
  <2>1. \A i \in DOMAIN rs : rs[i] \in Receipt
    BY Positions
  <2>2. \A r \in Receipt : r.output_tokens \in Nat
    BY DEF Receipt
  <2>. QED  BY <1>1, <2>1, <2>2
<1>3. WindowTokens(rs, w) = (CHOOSE h : Own1(h))[bucket]
  BY DEF WindowTokens, MapThenSumSet, MapThenFoldSet, Any
<1>4. \A s \in SUBSET bucket : s # {} => rs[Any(s)].output_tokens = f[Any(s)]
  BY AnyIsElement
<1> HIDE DEF bucket, f
<1>5. \A h : Own1(h) <=> Folded(f, bucket, h)
  <2> TAKE h
  <2>1. [s \in SUBSET bucket |->
           IF s = {} THEN 0 ELSE rs[Any(s)].output_tokens + h[s \ {Any(s)}]]
          = [s \in SUBSET bucket |-> IF s = {} THEN 0 ELSE f[Any(s)] + h[s \ {Any(s)}]]
    BY <1>4
  <2>. QED  BY <2>1 DEF Folded
<1> HIDE DEF Own1
<1>6. Own1(CHOOSE h : Own1(h))
  BY <1>1, <1>2, <1>5, SumOfNaturals
<1>7. (CHOOSE h : Own1(h))[bucket] = SumOf(f, bucket)
  BY <1>1, <1>2, <1>5, <1>6, SameFold
<1>8. SumOf(f, bucket) \in Nat /\ (bucket = {} => SumOf(f, bucket) = 0)
  BY <1>1, <1>2, SumOfNaturals
<1>. QED  BY <1>3, <1>7, <1>8 DEF bucket

LEMMA WindowSums ==
  ASSUME NEW rs \in Seq(Receipt)
  PROVE  /\ MapThenSumSet(LAMBDA w : WindowTokens(rs, w), Windows) = SumOf(TokensAt(rs), Windows)
         /\ MapThenSumSet(LAMBDA w : WindowTokens(rs, w) * WindowTokens(rs, w), Windows)
              = SumOf(SquaresAt(rs), Windows)
         /\ IsFiniteSet(Windows) /\ Cardinality(Windows) = WindowCount
         /\ \A w \in Windows : /\ TokensAt(rs)[w] \in Nat
                               /\ SquaresAt(rs)[w] = TokensAt(rs)[w] * TokensAt(rs)[w]
                               /\ SquaresAt(rs)[w] \in Nat
<1> DEFINE x(w)    == WindowTokens(rs, w)
           T       == Windows
           f       == TokensAt(rs)
           sq      == SquaresAt(rs)
           Own1(h) == h = [s \in SUBSET T |->
                             IF s = {} THEN 0 ELSE x(Any(s)) + h[s \ {Any(s)}]]
           Own2(h) == h = [s \in SUBSET T |->
                             IF s = {} THEN 0 ELSE x(Any(s)) * x(Any(s)) + h[s \ {Any(s)}]]
<1>1. \A w \in T : f[w] = x(w) /\ f[w] \in Nat /\ sq[w] = x(w) * x(w) /\ sq[w] \in Nat
  BY WindowTokensType DEF TokensAt, SquaresAt
<1>2. \A s \in SUBSET T : s # {} => x(Any(s)) = f[Any(s)] /\ x(Any(s)) * x(Any(s)) = sq[Any(s)]
  BY <1>1, AnyIsElement
<1>3. /\ MapThenSumSet(LAMBDA w : WindowTokens(rs, w), Windows) = (CHOOSE h : Own1(h))[T]
      /\ MapThenSumSet(LAMBDA w : WindowTokens(rs, w) * WindowTokens(rs, w), Windows)
           = (CHOOSE h : Own2(h))[T]
  BY DEF MapThenSumSet, MapThenFoldSet, Any
<1>4. IsFiniteSet(T) /\ Cardinality(T) = WindowCount
  <2>1. WindowCount \in Nat /\ WindowCount # 0 /\ WindowCount - 1 \in Nat
    BY Numbers
  <2>2. IsFiniteSet(0 .. WindowCount - 1) /\ Cardinality(0 .. WindowCount - 1) = WindowCount
    BY <2>1, FS_Interval
  <2>. QED  BY <2>2 DEF Windows
<1> HIDE DEF x, f, sq, T
<1>5. \A h : Own1(h) <=> Folded(f, T, h)
  <2> TAKE h
  <2>1. [s \in SUBSET T |-> IF s = {} THEN 0 ELSE x(Any(s)) + h[s \ {Any(s)}]]
          = [s \in SUBSET T |-> IF s = {} THEN 0 ELSE f[Any(s)] + h[s \ {Any(s)}]]
    BY <1>2
  <2>. QED  BY <2>1 DEF Folded
<1>6. \A h : Own2(h) <=> Folded(sq, T, h)
  <2> TAKE h
  <2>1. [s \in SUBSET T |-> IF s = {} THEN 0 ELSE x(Any(s)) * x(Any(s)) + h[s \ {Any(s)}]]
          = [s \in SUBSET T |-> IF s = {} THEN 0 ELSE sq[Any(s)] + h[s \ {Any(s)}]]
    BY <1>2
  <2>. QED  BY <2>1 DEF Folded
<1> HIDE DEF Own1, Own2
<1>7. Own1(CHOOSE h : Own1(h)) /\ Own2(CHOOSE h : Own2(h))
  BY <1>1, <1>4, <1>5, <1>6, SumOfNaturals
<1>8. (CHOOSE h : Own1(h))[T] = SumOf(f, T)
  BY <1>1, <1>4, <1>5, <1>7, SameFold
<1>9. (CHOOSE h : Own2(h))[T] = SumOf(sq, T)
  BY <1>1, <1>4, <1>6, <1>7, SameFold
<1>. QED  BY <1>1, <1>3, <1>4, <1>8, <1>9 DEF f, sq, T

(* A coefficient of variation of at most 1/20 leaves no window out of at   *)
(* most 400 empty: one empty window of n alone makes it 1 / sqrt(n - 1).   *)
LEMMA SteadyLeavesNoneEmpty ==
  ASSUME NEW S, IsFiniteSet(S), Cardinality(S) <= 400, NEW f, NEW sq,
         \A k \in S : f[k] \in Nat /\ sq[k] = f[k] * f[k] /\ sq[k] \in Nat,
         SumOf(f, S) > 0,
         400 * (Cardinality(S) * SumOf(sq, S) - SumOf(f, S) * SumOf(f, S))
           <= SumOf(f, S) * SumOf(f, S),
         NEW k \in S
  PROVE  f[k] # 0
<1> SUFFICES ASSUME f[k] = 0 PROVE FALSE
  OBVIOUS
<1> DEFINE rest == S \ {k}
<1>1. PICK n \in Nat : n + 1 = Cardinality(S) /\ Cardinality(rest) = n
  <2>1. Cardinality(S) \in Nat /\ Cardinality(rest) \in Nat /\ Cardinality(rest) = Cardinality(S) - 1
    BY FS_RemoveElement, FS_CardinalityType
  <2>. QED  BY <2>1
<1>2. PICK t \in Nat, q \in Nat :
        /\ t = SumOf(f, rest) /\ q = SumOf(sq, rest)
        /\ SumOf(f, S) = t /\ SumOf(sq, S) = q
  <2>1. /\ SumOf(f, rest) \in Nat /\ SumOf(sq, rest) \in Nat
        /\ SumOf(f, S) = f[k] + SumOf(f, rest)
        /\ SumOf(sq, S) = sq[k] + SumOf(sq, rest)
    BY SumOfNaturals
  <2>2. sq[k] = 0
    OBVIOUS
  <2>. QED  BY <2>1, <2>2
<1>3. t * t <= n * q
  <2>1. IsFiniteSet(rest)
    BY FS_Subset
  <2>2. SumOf(f, rest) * SumOf(f, rest) <= Cardinality(rest) * SumOf(sq, rest)
    BY <2>1, SquareOfSum
  <2>. QED  BY <1>1, <1>2, <2>2
<1>4. 400 * ((n + 1) * q - t * t) <= t * t /\ t > 0 /\ n + 1 <= 400
  BY <1>1, <1>2
<1>5. PICK b \in Nat, c \in Nat : b = n * q /\ c = t * t
  OBVIOUS
<1>6. (n + 1) * q = b + q
  BY <1>5
<1>7. 400 * (b + q) <= 401 * c /\ c <= b
  BY <1>3, <1>4, <1>5, <1>6
<1>8. c > 0
  BY <1>4, <1>5
<1>9. b <= 399 * q
  BY <1>4, <1>5
<1>. QED  BY <1>7, <1>8, <1>9

(* A pass of the windows is a steady run: all receipts completed, and some *)
(* in each window, where there are at most 400 windows.                    *)
THEOREM PassesAreSteady == WindowCount <= 400 => (Spec => []PassMeansSteady)
<1> SUFFICES ASSUME WindowCount <= 400 PROVE Spec => []PassMeansSteady
  OBVIOUS
<1>1. IInv => PassMeansSteady
  <2> SUFFICES ASSUME IInv, loop = "windows", phase = "judged", result
               PROVE  /\ \A w \in Windows : CompletedOf(meas, InWindow(meas, w)) > 0
                      /\ CompletedOf(meas, DOMAIN meas) = Len(meas)
                      /\ Len(meas) >= MinCompleted
    BY DEF PassMeansSteady
  <2>1. /\ CvOk(meas) /\ ZeroFailure(meas)
        /\ CompletedOf(meas, DOMAIN meas) >= MinCompleted
    BY DEF IInv, Serial, EvaluateWindows
  <2>2. /\ meas \in Seq(Receipt) /\ Len(meas) \in Nat /\ DOMAIN meas = 1 .. Len(meas)
        /\ IsFiniteSet(DOMAIN meas) /\ \A i \in DOMAIN meas : meas[i] \in Receipt
    BY Positions DEF IInv, WellTyped
  <2>3. \A i \in DOMAIN meas : meas[i].verdict \in CompletedVerdicts
    <3>1. Failed(meas, DOMAIN meas) \subseteq DOMAIN meas
      BY DEF Failed
    <3>2. IsFiniteSet(Failed(meas, DOMAIN meas)) /\ Cardinality(Failed(meas, DOMAIN meas)) = 0
      BY <2>1, <2>2, <3>1, FS_Subset DEF ZeroFailure, FailedOf
    <3>3. Failed(meas, DOMAIN meas) = {}
      BY <3>2, FS_EmptySet
    <3>4. \A r \in Receipt : r.verdict \in CompletedVerdicts \cup FailedVerdicts
      BY DEF Receipt
    <3>. QED  BY <2>2, <3>3, <3>4 DEF Failed
  <2>4. \A bucket \in SUBSET DOMAIN meas : Completed(meas, bucket) = bucket
    BY <2>3 DEF Completed
  <2>5. CompletedOf(meas, DOMAIN meas) = Len(meas)
    <3>1. Completed(meas, DOMAIN meas) = 1 .. Len(meas)
      BY <2>2, <2>4
    <3>2. Cardinality(1 .. Len(meas)) = Len(meas)
      <4>1. PICK n \in Nat : n = Len(meas)
        BY <2>2
      <4>2. Cardinality(1 .. n) = n
        BY FS_Interval
      <4>. QED  BY <4>1, <4>2
    <3>. QED  BY <3>1, <3>2 DEF CompletedOf
  <2>6. ASSUME NEW w \in Windows
        PROVE  CompletedOf(meas, InWindow(meas, w)) > 0
    <3> DEFINE f  == TokensAt(meas)
               sq == SquaresAt(meas)
    <3>1. /\ SumOf(f, Windows) > 0
          /\ 400 * (Cardinality(Windows) * SumOf(sq, Windows) - SumOf(f, Windows) * SumOf(f, Windows))
               <= SumOf(f, Windows) * SumOf(f, Windows)
      BY <2>1, <2>2, WindowSums DEF CvOk
    <3>2. /\ IsFiniteSet(Windows) /\ Cardinality(Windows) <= 400
          /\ \A v \in Windows : f[v] \in Nat /\ sq[v] = f[v] * f[v] /\ sq[v] \in Nat
      BY <2>2, WindowSums
    <3>3. f[w] # 0
      <4> HIDE DEF f, sq
      <4>. QED  BY <3>1, <3>2, SteadyLeavesNoneEmpty
    <3>4. InWindow(meas, w) # {}
      BY <2>2, <3>3, WindowTokensType DEF TokensAt
    <3>5. InWindow(meas, w) \in SUBSET DOMAIN meas /\ IsFiniteSet(InWindow(meas, w))
      <4>1. InWindow(meas, w) \subseteq DOMAIN meas
        BY DEF InWindow
      <4>. QED  BY <2>2, <4>1, FS_Subset
    <3>6. CompletedOf(meas, InWindow(meas, w)) = Cardinality(InWindow(meas, w))
      BY <2>4, <3>5 DEF CompletedOf
    <3>7. Cardinality(InWindow(meas, w)) \in Nat /\ Cardinality(InWindow(meas, w)) # 0
      BY <3>4, <3>5, FS_CardinalityType, FS_EmptySet
    <3>. QED  BY <3>6, <3>7
  <2>7. Len(meas) >= MinCompleted
    BY <2>1, <2>5
  <2>. QED  BY <2>5, <2>6, <2>7
<1>. QED  BY <1>1, Invariance, PTL

-----------------------------------------------------------------------------
(* The request behind each receipt of the loops: execute_one.              *)
Missing == Request!None

(* No verdict before the request returned; e2el is the time of the return. *)
(* Verdict ok was given to the tokens and the finish reason of the client. *)
Returned ==
  /\ rec.verdict # "none" \/ rec.e2el # Missing => stage = "returned"
  /\ rec.e2el # Missing => rec.e2el = elapsed
  /\ rec.verdict = "ok" => /\ rec.tokens = tokens /\ tokens > 0
                           /\ \/ finish \in {"stop", "tool_calls"}
                              \/ finish = "length" /\ fixed

(* The client's count is that of the tokens sent, and what it holds as     *)
(* finish reason is the last one sent.                                     *)
Counted == tokens = Len(arrivals)

Heard == IF reasons = <<>> THEN finish = "null"
         ELSE finish = reasons[Len(reasons)]

(* Latencies that lead from the first token of a to the last one.          *)
Leads(a, t, f, p) ==
  /\ a \in Seq(Nat) /\ t \in Seq(Nat)
  /\ f \in Nat /\ p \in Nat
  /\ Len(a) >= 1 /\ f = a[1] /\ p = a[Len(a)]
  /\ Len(t) = Len(a) - 1
  /\ f + SumOf(t, DOMAIN t) = p

(* prev is the time of the last token, and the latencies lead to it.       *)
Gaps ==
  /\ first = Missing <=> prev = Missing
  /\ prev = Missing => arrivals = <<>> /\ rec.tpot = <<>>
  /\ prev # Missing => /\ prev <= elapsed
                       /\ Leads(arrivals, rec.tpot, rec.ttft, prev)

RequestTyped ==
  /\ fixed \in BOOLEAN
  /\ elapsed \in Nat
  /\ stage \in {"connecting", "requested", "streaming", "returned", "raised"}
  /\ arrivals \in Seq(Nat)
  /\ reasons \in Seq(Request!FinishReasons)
  /\ tokens \in Nat
  /\ first \in Nat \cup {Missing} /\ prev \in Nat \cup {Missing}
  /\ finish \in Request!FinishReasons \cup {"null"}
  /\ rec \in [verdict : Request!Verdicts, tokens : Nat, ttft : Nat \cup {Missing},
              tpot : Seq(Nat), finish : Request!FinishReasons \cup {"null"},
              truncated : BOOLEAN, e2el : Nat \cup {Missing}]

RequestInv == RequestTyped /\ Returned /\ Gaps /\ Counted /\ Heard

LEMMA MissingIsNone == Missing = -1 /\ Missing \notin Nat
BY DEF Missing, Request!None

LEMMA GrownSum ==
  ASSUME NEW s \in Seq(Nat), NEW t \in Seq(Nat), Len(t) = Len(s) + 1,
         \A k \in 1 .. Len(s) : t[k] = s[k]
  PROVE  /\ SumOf(t, DOMAIN t) = SumOf(s, DOMAIN s) + t[Len(t)]
         /\ SumOf(s, DOMAIN s) \in Nat
<1>1. /\ Len(s) \in Nat /\ DOMAIN s = 1 .. Len(s) /\ IsFiniteSet(DOMAIN s)
      /\ \A k \in DOMAIN s : s[k] \in Nat
  BY Positions
<1>2. /\ DOMAIN t = 1 .. Len(t) /\ \A k \in DOMAIN t : t[k] \in Nat
  BY Positions
<1>3. /\ DOMAIN t = DOMAIN s \cup {Len(t)} /\ Len(t) \notin DOMAIN s
      /\ Len(t) \in DOMAIN t
  BY <1>1, <1>2
<1>4. \A k \in DOMAIN s : t[k] = s[k] /\ t[k] \in Nat
  BY <1>1
<1> DEFINE D == DOMAIN s
           n == Len(t)
<1> HIDE DEF D, n
<1>5. SumOf(t, D \cup {n}) = t[n] + SumOf(t, D)
  BY <1>1, <1>2, <1>3, <1>4, SumWithOneMore DEF D, n
<1>6. SumOf(s, D) = SumOf(t, D) /\ SumOf(s, D) \in Nat
  BY <1>1, <1>4, SumSame, SumOfNaturals DEF D
<1>7. t[n] \in Nat
  BY <1>2, <1>3 DEF n
<1>8. SumOf(t, DOMAIN t) = SumOf(s, D) + t[n]
  BY <1>3, <1>5, <1>6, <1>7 DEF D, n
<1>. QED  BY <1>6, <1>8 DEF D, n

LEMMA SumOfNothing == SumOf(<<>>, DOMAIN <<>>) = 0
<1>1. DOMAIN <<>> = {}
  OBVIOUS
<1>2. SumOf(<<>>, {}) = 0
  BY FS_EmptySet, SumOfNaturals
<1>. QED  BY <1>1, <1>2

LEMMA RequestInit == Request!Init => RequestInv
<1> SUFFICES ASSUME Request!Init PROVE RequestInv
  OBVIOUS
<1>1. /\ elapsed = 0 /\ stage = "connecting" /\ arrivals = <<>> /\ first = Missing
      /\ prev = Missing /\ finish = "null" /\ fixed \in BOOLEAN
      /\ reasons = <<>> /\ tokens = 0
      /\ rec = [verdict |-> "none", tokens |-> 0, ttft |-> Missing, tpot |-> <<>>,
                finish |-> "null", truncated |-> FALSE, e2el |-> Missing]
  BY DEF Request!Init, Missing
<1>2. RequestTyped
  BY <1>1, EmptySeq DEF RequestTyped, Request!Verdicts
<1>3. Returned
  BY <1>1 DEF Returned
<1>4. Gaps
  BY <1>1 DEF Gaps
<1>5. Counted /\ Heard
  BY <1>1 DEF Counted, Heard
<1>. QED  BY <1>2, <1>3, <1>4, <1>5 DEF RequestInv

(* t is s with e behind it.                                                *)
OneMore(s, t, e) ==
  /\ t \in Seq(Nat) /\ Len(t) = Len(s) + 1 /\ t[Len(s) + 1] = e
  /\ \A k \in 1 .. Len(s) : t[k] = s[k]

LEMMA OneTokenMore ==
  ASSUME NEW a, NEW t, NEW f, NEW p, Leads(a, t, f, p), NEW c \in Nat, p <= c,
         NEW b, OneMore(a, b, c), NEW u, OneMore(t, u, c - p)
  PROVE  Leads(b, u, f, c)
<1> DEFINE old == SumOf(t, DOMAIN t)
           new == SumOf(u, DOMAIN u)
<1>1. /\ a \in Seq(Nat) /\ t \in Seq(Nat) /\ f \in Nat /\ p \in Nat
      /\ Len(a) >= 1 /\ f = a[1] /\ Len(t) = Len(a) - 1
      /\ f + old = p
  BY DEF Leads
<1>2. Len(a) \in Nat /\ Len(t) \in Nat
  BY <1>1, Positions
<1>3. /\ u \in Seq(Nat) /\ Len(u) = Len(t) + 1 /\ u[Len(u)] = c - p
      /\ \A k \in 1 .. Len(t) : u[k] = t[k]
  BY DEF OneMore
<1>4. new = old + (c - p) /\ old \in Nat
  BY <1>1, <1>3, GrownSum
<1> HIDE DEF old, new
<1>5. f + new = c
  <2>1. f \in Nat /\ p \in Nat /\ f + old = p
    BY <1>1
  <2>. QED  BY <1>4, <2>1
<1>6. /\ b \in Seq(Nat) /\ b[1] = f /\ Len(b) >= 1 /\ b[Len(b)] = c
      /\ Len(u) = Len(b) - 1
  BY <1>1, <1>2, <1>3 DEF OneMore
<1>. QED  BY <1>1, <1>3, <1>5, <1>6 DEF Leads, new

LEMMA Repeated ==
  ASSUME NEW n \in 1 .. 2, NEW g \in [1 .. n -> Nat], NEW s \in Seq(Nat)
  PROVE  /\ g \in Seq(Nat) /\ Len(g) = n
         /\ s \o g \in Seq(Nat) /\ Len(s \o g) = Len(s) + n
         /\ \A k \in 1 .. Len(s) : (s \o g)[k] = s[k]
         /\ (s \o g)[Len(s) + 1] = g[1]
         /\ n = 2 => (s \o g)[Len(s) + 2] = g[2]
<1>1. g \in Seq(Nat) /\ Len(g) = n
  <2>1. n \in Nat /\ DOMAIN g = 1 .. n
    OBVIOUS
  <2>2. g \in Seq(Nat)
    BY <2>1, SeqDef
  <2>. QED  BY <2>1, <2>2, LenProperties
<1>2. /\ s \o g \in Seq(Nat) /\ Len(s \o g) = Len(s) + n
      /\ \A k \in 1 .. Len(s) + n :
           (s \o g)[k] = IF k <= Len(s) THEN s[k] ELSE g[k - Len(s)]
  BY <1>1, ConcatProperties
<1>3. Len(s) \in Nat
  BY Positions
<1>4. \A k \in 1 .. Len(s) : (s \o g)[k] = s[k]
  BY <1>2, <1>3
<1>5. (s \o g)[Len(s) + 1] = g[1]
  <2>1. Len(s) + 1 \in 1 .. Len(s) + n /\ ~(Len(s) + 1 <= Len(s))
        /\ (Len(s) + 1) - Len(s) = 1
    BY <1>3
  <2>. QED  BY <1>2, <2>1
<1>6. n = 2 => (s \o g)[Len(s) + 2] = g[2]
  <2> SUFFICES ASSUME n = 2 PROVE (s \o g)[Len(s) + 2] = g[2]
    OBVIOUS
  <2>1. Len(s) + 2 \in 1 .. Len(s) + n /\ ~(Len(s) + 2 <= Len(s))
        /\ (Len(s) + 2) - Len(s) = 2
    BY <1>3
  <2>. QED  BY <1>2, <2>1
<1>. QED  BY <1>1, <1>2, <1>4, <1>5, <1>6

(* The first gap of a chunk is to the token before it, the others are 0.   *)
LEMMA GapsGrow ==
  ASSUME NEW a, NEW t, NEW f, NEW p, Leads(a, t, f, p), NEW c \in Nat, p <= c,
         NEW n \in 1 .. 2
  PROVE  Leads(a \o [k \in 1 .. n |-> c],
               t \o [k \in 1 .. n |-> IF k = 1 THEN c - p ELSE 0], f, c)
<1> DEFINE g == [k \in 1 .. n |-> c]
           h == [k \in 1 .. n |-> IF k = 1 THEN c - p ELSE 0]
           b == a \o g
           u == t \o h
           ma == Append(a, c)
           mt == Append(t, c - p)
<1>1. /\ a \in Seq(Nat) /\ t \in Seq(Nat) /\ p \in Nat /\ c - p \in Nat
      /\ Len(a) \in Nat /\ Len(t) \in Nat
  BY Positions DEF Leads
<1>2. /\ g \in [1 .. n -> Nat] /\ g[1] = c /\ (n = 2 => g[2] = c)
      /\ h \in [1 .. n -> Nat] /\ h[1] = c - p /\ (n = 2 => h[2] = 0)
  BY <1>1
<1>3. /\ ma \in Seq(Nat) /\ Len(ma) = Len(a) + 1 /\ ma[Len(a) + 1] = c
      /\ \A k \in 1 .. Len(a) : ma[k] = a[k]
      /\ mt \in Seq(Nat) /\ Len(mt) = Len(t) + 1 /\ mt[Len(t) + 1] = c - p
      /\ \A k \in 1 .. Len(t) : mt[k] = t[k]
  BY <1>1, AppendProperties
<1> HIDE DEF g, h, ma, mt
<1>4. Leads(ma, mt, f, c)
  <2>1. OneMore(a, ma, c) /\ OneMore(t, mt, c - p)
    BY <1>3 DEF OneMore
  <2>. QED  BY <2>1, OneTokenMore
<1>5. /\ b \in Seq(Nat) /\ Len(b) = Len(a) + n
      /\ \A k \in 1 .. Len(a) : b[k] = a[k]
      /\ b[Len(a) + 1] = c /\ (n = 2 => b[Len(a) + 2] = c)
  BY <1>1, <1>2, Repeated
<1>6. /\ u \in Seq(Nat) /\ Len(u) = Len(t) + n
      /\ \A k \in 1 .. Len(t) : u[k] = t[k]
      /\ u[Len(t) + 1] = c - p /\ (n = 2 => u[Len(t) + 2] = 0)
  BY <1>1, <1>2, Repeated
<1> HIDE DEF b, u
<1>7. CASE n = 1
  <2>1. OneMore(a, b, c) /\ OneMore(t, u, c - p)
    BY <1>5, <1>6, <1>7 DEF OneMore
  <2>2. Leads(b, u, f, c)
    BY <2>1, OneTokenMore
  <2>. QED  BY <2>2 DEF b, u, g, h
<1>8. CASE n = 2
  <2>1. OneMore(ma, b, c)
    <3>1. \A k \in 1 .. Len(a) + 1 : k \in 1 .. Len(a) \/ k = Len(a) + 1
      BY <1>1
    <3>2. (Len(a) + 1) + 1 = Len(a) + 2
      BY <1>1
    <3>. QED  BY <1>3, <1>5, <1>8, <3>1, <3>2 DEF OneMore
  <2>2. OneMore(mt, u, c - c)
    <3>1. \A k \in 1 .. Len(t) + 1 : k \in 1 .. Len(t) \/ k = Len(t) + 1
      BY <1>1
    <3>2. (Len(t) + 1) + 1 = Len(t) + 2 /\ c - c = 0
      BY <1>1
    <3>. QED  BY <1>3, <1>6, <1>8, <3>1, <3>2 DEF OneMore
  <2>3. Leads(b, u, f, c)
    <3>1. c <= c
      OBVIOUS
    <3>. QED  BY <1>4, <2>1, <2>2, <3>1, OneTokenMore
  <2>. QED  BY <2>3 DEF b, u, g, h
<1>. QED  BY <1>7, <1>8

(* The first chunk: the moment of its first token, then gaps of 0.         *)
LEMMA GapsBegin ==
  ASSUME NEW c \in Nat, NEW n \in 1 .. 2
  PROVE  Leads(<<>> \o [k \in 1 .. n |-> c],
               <<>> \o Tail([k \in 1 .. n |-> 0]), c, c)
<1> DEFINE g == [k \in 1 .. n |-> c]
           z == [k \in 1 .. n |-> 0]
           b == <<>> \o g
           u == <<>> \o Tail(z)
           ma == Append(<<>>, c)
<1>1. <<>> \in Seq(Nat) /\ Len(<<>>) = 0
  OBVIOUS
<1>2. /\ g \in [1 .. n -> Nat] /\ g[1] = c /\ (n = 2 => g[2] = c)
      /\ z \in [1 .. n -> Nat] /\ z[1] = 0 /\ (n = 2 => z[2] = 0)
  OBVIOUS
<1>3. ma \in Seq(Nat) /\ Len(ma) = 1 /\ ma[1] = c
  BY <1>1, AppendProperties
<1> HIDE DEF g, z, ma
<1>4. /\ b \in Seq(Nat) /\ Len(b) = n
      /\ b[1] = c /\ (n = 2 => b[2] = c)
  <2>1. /\ b \in Seq(Nat) /\ Len(b) = 0 + n /\ b[0 + 1] = c
        /\ (n = 2 => b[0 + 2] = c)
    BY <1>1, <1>2, Repeated
  <2>. QED  BY <2>1
<1>5. /\ u \in Seq(Nat) /\ Len(u) = n - 1 /\ (n = 2 => u[1] = 0)
  <2>1. z \in Seq(Nat) /\ Len(z) = n
    BY <1>1, <1>2, Repeated
  <2>2. z # <<>>
    BY <1>1, <2>1
  <2>3. /\ Tail(z) \in Seq(Nat) /\ Len(Tail(z)) = n - 1
        /\ \A k \in 1 .. n - 1 : Tail(z)[k] = z[k + 1]
    BY <2>1, <2>2, HeadTailProperties
  <2>4. u = Tail(z)
    BY <2>3, ConcatEmptySeq
  <2>5. n = 2 => 1 \in 1 .. n - 1 /\ 1 + 1 = 2
    OBVIOUS
  <2>. QED  BY <1>2, <2>3, <2>4, <2>5
<1>6. Leads(ma, <<>>, c, c)
  <2>1. c + SumOf(<<>>, DOMAIN <<>>) = c
    BY SumOfNothing
  <2>. QED  BY <1>1, <1>3, <2>1 DEF Leads
<1> HIDE DEF b, u
<1>7. CASE n = 1
  <2>1. u = <<>>
    BY <1>5, <1>7, EmptySeq
  <2>2. Leads(b, <<>>, c, c)
    <3>1. c + SumOf(<<>>, DOMAIN <<>>) = c
      BY SumOfNothing
    <3>. QED  BY <1>1, <1>4, <1>7, <3>1 DEF Leads
  <2>. QED  BY <2>1, <2>2 DEF b, u, g, z
<1>8. CASE n = 2
  <2>1. OneMore(ma, b, c)
    BY <1>3, <1>4, <1>8 DEF OneMore
  <2>2. OneMore(<<>>, u, c - c)
    BY <1>1, <1>5, <1>8 DEF OneMore
  <2>3. c <= c
    OBVIOUS
  <2>4. Leads(b, u, c, c)
    BY <1>6, <2>1, <2>2, <2>3, OneTokenMore
  <2>. QED  BY <2>4 DEF b, u, g, z
<1>. QED  BY <1>7, <1>8

LEMMA DataLineKeeps ==
  ASSUME RequestInv, NEW c \in Request!Chunks, Request!DataLine(c)
  PROVE  RequestInv'
<1> DEFINE n == Request!TokensOf(c)
<1>1. RequestTyped /\ Returned /\ Gaps /\ Counted /\ Heard
  BY DEF RequestInv
<1>2. /\ stage = "streaming" /\ stage' = "streaming"
      /\ fixed' = fixed /\ elapsed' = elapsed
      /\ arrivals' = arrivals \o [k \in 1 .. n |-> elapsed]
      /\ n > 0 => Request!Arrival(n)
      /\ ~(n > 0) => UNCHANGED <<tokens, first, prev, rec>>
      /\ IF c.finish # "null"
         THEN reasons' = Append(reasons, c.finish) /\ finish' = c.finish
         ELSE reasons' = reasons /\ finish' = finish
  BY DEF Request!DataLine
<1>3. n \in 0 .. 2 /\ c.finish \in Request!FinishReasons \cup {"null"}
  BY DEF Request!TokensOf, Request!Chunks
<1>4. /\ finish' \in Request!FinishReasons \cup {"null"}
      /\ reasons' \in Seq(Request!FinishReasons) /\ Heard'
  <2>1. reasons \in Seq(Request!FinishReasons) /\ Len(reasons) \in Nat
    BY <1>1, Positions DEF RequestTyped
  <2>2. CASE c.finish = "null"
    BY <1>1, <1>2, <1>3, <2>2 DEF RequestTyped, Heard
  <2>3. CASE c.finish # "null"
    <3>1. c.finish \in Request!FinishReasons
      BY <1>3, <2>3
    <3>2. reasons' = Append(reasons, c.finish) /\ finish' = c.finish
      BY <1>2, <2>3
    <3>3. /\ reasons' \in Seq(Request!FinishReasons)
          /\ Len(reasons') = Len(reasons) + 1
          /\ reasons'[Len(reasons) + 1] = c.finish
      BY <2>1, <3>1, <3>2, AppendProperties
    <3>4. reasons' # <<>>
      BY <2>1, <3>3
    <3>. QED  BY <3>1, <3>2, <3>3, <3>4 DEF Heard
  <2>. QED  BY <2>2, <2>3
<1>5. /\ elapsed \in Nat /\ rec.verdict = "none" /\ rec.e2el = Missing
      /\ arrivals \in Seq(Nat) /\ rec.tpot \in Seq(Nat) /\ tokens \in Nat
  BY <1>1, <1>2 DEF RequestTyped, Returned
<1> HIDE DEF n
<1>6. CASE n = 0
  <2>1. arrivals' = arrivals
    <3>1. [k \in 1 .. n |-> elapsed] = <<>>
      BY <1>6
    <3>. QED  BY <1>2, <1>5, <3>1, ConcatEmptySeq
  <2>2. first' = first /\ prev' = prev /\ rec' = rec /\ tokens' = tokens
    BY <1>2, <1>6
  <2>3. RequestTyped'
    BY <1>1, <1>2, <1>4, <2>1, <2>2 DEF RequestTyped, Missing, Request!None
  <2>4. Returned'
    BY <1>5, <2>2 DEF Returned, Missing, Request!None
  <2>5. Gaps'
    BY <1>1, <1>2, <2>1, <2>2 DEF Gaps, Missing, Request!None
  <2>6. Counted'
    BY <1>1, <2>1, <2>2 DEF Counted
  <2>. QED  BY <1>4, <2>3, <2>4, <2>5, <2>6 DEF RequestInv
<1>7. CASE n # 0
  <2> DEFINE gaps == [k \in 1 .. n |-> IF k = 1 /\ prev # Missing THEN elapsed - prev ELSE 0]
             new  == IF prev = Missing THEN Tail(gaps) ELSE gaps
             ttft == IF first = Missing THEN elapsed ELSE rec.ttft
  <2>1. n \in 1 .. 2 /\ Request!Arrival(n)
    BY <1>2, <1>3, <1>7
  <2>2. /\ first' = IF first = Missing THEN elapsed ELSE first
        /\ prev' = elapsed /\ tokens' = tokens + n
        /\ rec' = [rec EXCEPT !.ttft = ttft, !.tpot = rec.tpot \o new]
    BY <2>1 DEF Request!Arrival, Missing
  <2> HIDE DEF new, ttft
  <2>3. /\ rec'.ttft = ttft /\ rec'.tpot = rec.tpot \o new
        /\ rec'.verdict = rec.verdict /\ rec'.e2el = rec.e2el
        /\ rec' = [rec EXCEPT !.ttft = rec'.ttft, !.tpot = rec'.tpot]
    BY <1>1, <2>2 DEF RequestTyped
  <2>4. Leads(arrivals', rec'.tpot, rec'.ttft, elapsed)
    <3>1. CASE prev = Missing
      <4>1. arrivals = <<>> /\ rec.tpot = <<>> /\ first = Missing
        BY <1>1, <3>1 DEF Gaps
      <4>2. gaps = [k \in 1 .. n |-> 0] /\ new = Tail(gaps) /\ ttft = elapsed
        BY <3>1, <4>1 DEF new, ttft
      <4>3. Leads(<<>> \o [k \in 1 .. n |-> elapsed],
                  <<>> \o Tail([k \in 1 .. n |-> 0]), elapsed, elapsed)
        BY <1>5, <2>1, GapsBegin
      <4>. QED  BY <1>2, <2>3, <4>1, <4>2, <4>3
    <3>2. CASE prev # Missing
      <4>1. /\ Leads(arrivals, rec.tpot, rec.ttft, prev) /\ prev <= elapsed
            /\ first # Missing
        BY <1>1, <3>2 DEF Gaps
      <4>2. /\ gaps = [k \in 1 .. n |-> IF k = 1 THEN elapsed - prev ELSE 0]
            /\ new = gaps /\ ttft = rec.ttft
        BY <3>2, <4>1 DEF new, ttft
      <4>3. Leads(arrivals \o [k \in 1 .. n |-> elapsed],
                  rec.tpot \o [k \in 1 .. n |-> IF k = 1 THEN elapsed - prev ELSE 0],
                  rec.ttft, elapsed)
        BY <1>5, <2>1, <4>1, GapsGrow
      <4>. QED  BY <1>2, <2>3, <4>2, <4>3
    <3>. QED  BY <3>1, <3>2
  <2>5. /\ arrivals' \in Seq(Nat) /\ rec'.tpot \in Seq(Nat) /\ rec'.ttft \in Nat
    BY <2>4 DEF Leads
  <2>6. first' \in Nat /\ prev' \in Nat /\ prev' # Missing /\ first' # Missing
    BY <1>1, <1>5, <2>2 DEF RequestTyped, Missing, Request!None
  <2>7. RequestTyped'
    <3>1. rec' \in [verdict : Request!Verdicts, tokens : Nat,
                    ttft : Nat \cup {Missing}, tpot : Seq(Nat),
                    finish : Request!FinishReasons \cup {"null"},
                    truncated : BOOLEAN, e2el : Nat \cup {Missing}]
      BY <1>1, <2>3, <2>5 DEF RequestTyped
    <3>2. tokens' \in Nat
      BY <1>5, <2>1, <2>2
    <3>. QED  BY <1>1, <1>2, <1>4, <2>5, <2>6, <3>1, <3>2
              DEF RequestTyped, Missing, Request!None
  <2>8. Returned'
    BY <1>5, <2>3 DEF Returned, Missing, Request!None
  <2>9. Gaps'
    <3>1. prev' <= elapsed' /\ prev' = elapsed
      BY <1>2, <1>5, <2>2
    <3>2. Leads(arrivals', rec'.tpot, rec'.ttft, prev')
      BY <2>4, <3>1
    <3>3. Missing' = Missing
      BY DEF Missing, Request!None
    <3>. QED  BY <2>6, <3>1, <3>2, <3>3 DEF Gaps
  <2>10. Counted'
    <3> DEFINE g == [k \in 1 .. n |-> elapsed]
    <3>1. g \in [1 .. n -> Nat]
      BY <1>5
    <3> HIDE DEF g
    <3>2. Len(arrivals \o g) = Len(arrivals) + n
      BY <1>5, <2>1, <3>1, Repeated
    <3>. QED  BY <1>1, <1>2, <2>2, <3>2 DEF Counted, g
  <2>. QED  BY <1>4, <2>7, <2>8, <2>9, <2>10 DEF RequestInv
<1>. QED  BY <1>6, <1>7

(* The request ends with another verdict than ok.                          *)
LEMMA EndsWithout ==
  ASSUME RequestInv, NEW v \in Request!Verdicts \ {"ok"}, Request!ReturnWithout(v)
  PROVE  RequestInv'
<1>1. RequestTyped /\ Returned /\ Gaps /\ Counted /\ Heard
  BY DEF RequestInv
<1>2. /\ stage' = "returned"
      /\ rec' = [rec EXCEPT !.verdict = v, !.e2el = elapsed]
      /\ UNCHANGED <<fixed, elapsed, arrivals, reasons, tokens, first, prev, finish>>
  BY DEF Request!ReturnWithout
<1>3. /\ rec'.verdict = v /\ rec'.e2el = elapsed /\ elapsed' = elapsed
      /\ rec'.tpot = rec.tpot /\ rec'.ttft = rec.ttft
  BY <1>1, <1>2 DEF RequestTyped
<1>4. RequestTyped'
  BY <1>1, <1>2 DEF RequestTyped, Missing, Request!None
<1>5. Returned'
  BY <1>2, <1>3 DEF Returned, Missing, Request!None
<1>6. Gaps'
  BY <1>1, <1>2, <1>3 DEF Gaps, Missing, Request!None
<1>7. Counted' /\ Heard'
  BY <1>1, <1>2 DEF Counted, Heard
<1>. QED  BY <1>4, <1>5, <1>6, <1>7 DEF RequestInv

LEMMA EndOfStreamKeeps ==
  ASSUME RequestInv, Request!EndOfStream
  PROVE  RequestInv'
<1> DEFINE v == Request!VerdictOf(tokens, finish)
<1>1. RequestTyped /\ Returned /\ Gaps /\ Counted /\ Heard
  BY DEF RequestInv
<1>2. /\ stage' = "returned"
      /\ rec' = [rec EXCEPT !.tokens = tokens, !.finish = finish,
                            !.truncated = (finish = "length"),
                            !.e2el = elapsed, !.verdict = v]
      /\ UNCHANGED <<fixed, elapsed, arrivals, reasons, tokens, first, prev, finish>>
  BY DEF Request!EndOfStream
<1>3. v \in Request!Verdicts /\ tokens \in Nat
  BY <1>1 DEF RequestTyped, Request!VerdictOf, Request!Verdicts
<1>4. v = "ok" => /\ tokens # 0
                  /\ finish \in {"stop", "tool_calls", "length"}
                  /\ finish = "length" => fixed
  BY <1>1 DEF Request!VerdictOf, RequestTyped
<1> HIDE DEF v
<1>5. /\ rec'.verdict = v /\ rec'.e2el = elapsed /\ rec'.tokens = tokens
      /\ rec'.tpot = rec.tpot /\ rec'.ttft = rec.ttft
  BY <1>1, <1>2 DEF RequestTyped
<1>6. RequestTyped'
  BY <1>1, <1>2, <1>3 DEF RequestTyped, Missing, Request!None
<1>7. Returned'
  BY <1>2, <1>3, <1>4, <1>5 DEF Returned, Missing, Request!None
<1>8. Gaps'
  BY <1>1, <1>2, <1>5 DEF Gaps, Missing, Request!None
<1>9. Counted' /\ Heard'
  BY <1>1, <1>2 DEF Counted, Heard
<1>. QED  BY <1>6, <1>7, <1>8, <1>9 DEF RequestInv

(* The request goes on and nothing of its answer is there yet or changes.  *)
LEMMA GoesOn ==
  ASSUME RequestInv, stage \in {"connecting", "requested", "streaming"},
         stage' \in {"connecting", "requested", "streaming", "raised"},
         elapsed' \in Nat, elapsed' >= elapsed,
         UNCHANGED <<fixed, arrivals, reasons, tokens, first, prev, finish, rec>>
  PROVE  RequestInv'
<1>1. RequestTyped /\ Returned /\ Gaps /\ Counted /\ Heard
  BY DEF RequestInv
<1>2. RequestTyped'
  BY <1>1 DEF RequestTyped, Missing, Request!None
<1>3. rec.verdict = "none" /\ rec.e2el = Missing
  BY <1>1 DEF Returned
<1>4. Returned'
  BY <1>3 DEF Returned, Missing, Request!None
<1>5. Gaps'
  <2>1. prev # Missing => prev' <= elapsed'
    <3>1. elapsed \in Nat /\ prev \in Nat \cup {Missing}
      BY <1>1 DEF RequestTyped
    <3>2. prev # Missing => prev <= elapsed /\ prev \in Nat
      BY <1>1, <3>1 DEF Gaps
    <3>. QED  BY <3>1, <3>2
  <2>. QED  BY <1>1, <2>1 DEF Gaps, Missing, Request!None
<1>6. Counted' /\ Heard'
  BY <1>1 DEF Counted, Heard
<1>. QED  BY <1>2, <1>4, <1>5, <1>6 DEF RequestInv

LEMMA RequestStep == RequestInv /\ [Request!Next]_(Request!vars) => RequestInv'
<1> SUFFICES ASSUME RequestInv, [Request!Next]_(Request!vars) PROVE RequestInv'
  OBVIOUS
<1>1. elapsed \in Nat /\ elapsed <= elapsed
  BY DEF RequestInv, RequestTyped
<1>2. CASE Request!Connected
  BY <1>1, <1>2, GoesOn DEF Request!Connected
<1>3. CASE Request!GoodStatus
  BY <1>1, <1>3, GoesOn DEF Request!GoodStatus
<1>4. CASE Request!BadStatus
  BY <1>4, EndsWithout DEF Request!BadStatus, Request!Verdicts
<1>5. CASE \E c \in Request!Chunks : Request!DataLine(c)
  BY <1>5, DataLineKeeps
<1>6. CASE Request!OtherLine
  BY <1>1, <1>6, GoesOn DEF Request!OtherLine
<1>7. CASE Request!MalformedLine
  BY <1>7, EndsWithout DEF Request!MalformedLine, Request!Verdicts
<1>8. CASE Request!NotAnObject
  BY <1>1, <1>8, GoesOn DEF Request!NotAnObject
<1>9. CASE Request!EndOfStream
  BY <1>9, EndOfStreamKeeps
<1>10. CASE Request!TimeoutException
  BY <1>10, EndsWithout DEF Request!TimeoutException, Request!Verdicts
<1>11. CASE Request!TransportError
  BY <1>11, EndsWithout DEF Request!TransportError, Request!Verdicts
<1>12. CASE Request!Tick
  BY <1>1, <1>12, GoesOn DEF Request!Tick, Request!InProgress
<1>13. CASE UNCHANGED Request!vars
  BY <1>13 DEF Request!vars, RequestInv, RequestTyped, Returned, Gaps, Counted, Heard,
     Missing, Request!None
<1>14. CASE Request!Finished
  BY <1>13, <1>14 DEF Request!Finished
<1>. QED  BY <1>2, <1>3, <1>4, <1>5, <1>6, <1>7, <1>8, <1>9, <1>10, <1>11,
             <1>12, <1>13, <1>14 DEF Request!Next

LEMMA RequestInvariance == RequestSpec => []RequestInv
BY RequestInit, RequestStep, PTL DEF RequestSpec, Request!Spec

(* The latencies of a receipt describe the tokens that arrived: one gap    *)
(* between each two, ttft and the gaps lead to the last one and not past   *)
(* the end of the request, for any stream and any chunking (_arrival).     *)
THEOREM LatenciesAddUp == RequestSpec => []TimingAddsUp
<1>1. RequestInv => TimingAddsUp
  <2> SUFFICES ASSUME RequestInv, arrivals # <<>>
               PROVE  /\ rec.ttft = arrivals[1]
                      /\ Len(rec.tpot) = Len(arrivals) - 1
                      /\ rec.ttft + Request!Total(rec.tpot) = arrivals[Len(arrivals)]
                      /\ rec.e2el # Missing =>
                           rec.ttft + Request!Total(rec.tpot) <= rec.e2el
    BY DEF TimingAddsUp, Request!TimingAddsUp, Missing
  <2>1. Gaps /\ Returned
    BY DEF RequestInv
  <2>2. prev <= elapsed /\ Leads(arrivals, rec.tpot, rec.ttft, prev)
    BY <2>1 DEF Gaps
  <2>3. rec.e2el # Missing => rec.e2el = elapsed
    BY <2>1 DEF Returned
  <2>4. Request!Total(rec.tpot) = SumOf(rec.tpot, DOMAIN rec.tpot)
    BY DEF Request!Total, SumOf, Request!MapThenSumSet, Request!MapThenFoldSet,
           MapThenSumSet, MapThenFoldSet
  <2>5. rec.ttft + Request!Total(rec.tpot) = prev
    BY <2>2, <2>4 DEF Leads
  <2>. QED  BY <2>2, <2>3, <2>5 DEF Leads
<1>. QED  BY <1>1, RequestInvariance, PTL

(* Verdict ok stands for a whole answer: output_tokens is the number of    *)
(* tokens the server sent and fits the gaps, however the stream was cut    *)
(* into chunks, and the last finish reason the server gave ends an answer  *)
(* of this kind (execute_one).                                             *)
THEOREM OkAnswersAreWhole == RequestSpec => []OkIsWholeAnswer
<1>1. RequestInv => OkIsWholeAnswer
  <2> SUFFICES ASSUME RequestInv, rec.verdict = "ok"
               PROVE  /\ rec.tokens = Len(arrivals)
                      /\ rec.tokens = Len(rec.tpot) + 1
                      /\ reasons # <<>>
                      /\ \/ reasons[Len(reasons)] \in {"stop", "tool_calls"}
                         \/ reasons[Len(reasons)] = "length" /\ fixed
    BY DEF OkIsWholeAnswer, Request!OkIsWholeAnswer
  <2>1. RequestTyped /\ Returned /\ Gaps /\ Counted /\ Heard
    BY DEF RequestInv
  <2>2. /\ rec.tokens = Len(arrivals) /\ Len(arrivals) > 0
        /\ finish \in {"stop", "tool_calls"} \/ (finish = "length" /\ fixed)
    BY <2>1 DEF Returned, Counted
  <2>3. reasons # <<>> /\ finish = reasons[Len(reasons)]
    BY <2>1, <2>2 DEF Heard
  <2>4. arrivals # <<>>
    BY <2>2
  <2>5. Len(rec.tpot) = Len(arrivals) - 1 /\ Len(arrivals) \in Nat
    BY <2>1, <2>4, Positions DEF Gaps, Leads, RequestTyped
  <2>. QED  BY <2>2, <2>3, <2>5
<1>. QED  BY <1>1, RequestInvariance, PTL

(* The wait for bytes began before now, and the lines are bounded.         *)
Waits == lastByte \in 0 .. elapsed /\ lines \in 0 .. MaxLines

LEMMA WaitsStep == RequestInv /\ Waits /\ [Request!Next]_(Request!vars) => Waits'
<1> SUFFICES ASSUME RequestInv, Waits, [Request!Next]_(Request!vars) PROVE Waits'
  OBVIOUS
<1>1. elapsed \in Nat /\ lastByte \in 0 .. elapsed /\ lines \in 0 .. MaxLines /\ MaxLines \in Nat
  BY RequestAssumption DEF RequestInv, RequestTyped, Waits, Request!StreamAssumption
<1>2. /\ elapsed' \in {elapsed, elapsed + 1}
      /\ lastByte' \in {lastByte, elapsed}
      /\ lines' = lines \/ (lines < MaxLines /\ lines' = lines + 1)
  BY DEF Request!Next, Request!Connected, Request!GoodStatus, Request!BadStatus,
         Request!DataLine, Request!OtherLine, Request!MalformedLine, Request!NotAnObject,
         Request!EndOfStream, Request!TimeoutException, Request!TransportError,
         Request!Tick, Request!Finished, Request!ReturnWithout, Request!vars
<1>. QED  BY <1>1, <1>2 DEF Waits

(* Type correctness of a request.                                          *)
THEOREM RequestsTyped == RequestSpec => []Request!TypeOK
<1>1. RequestSpec => []Waits
  <2>1. Request!Init => Waits
    BY RequestAssumption DEF Request!Init, Waits, Request!StreamAssumption
  <2>. QED  BY <2>1, WaitsStep, RequestInvariance, PTL DEF RequestSpec, Request!Spec
<1>2. RequestInv /\ Waits => Request!TypeOK
  BY DEF RequestInv, RequestTyped, Waits, Request!TypeOK, Missing
<1>. QED  BY <1>1, <1>2, RequestInvariance, PTL
=============================================================================
