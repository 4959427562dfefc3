--------------------------- MODULE EvidenceProofs ---------------------------
(* What evidence that passes means, for every profile and every moment at  *)
(* which the server dies, the monitor writes or an operator collects; and, *)
(* at the end, what the repetition of such runs (Lifecycles) keeps.        *)
EXTENDS Evidence, Repetitions, FiniteSetTheorems, SequenceTheorems, TLAPS

Refused(r) == [r EXCEPT !.verdict = "failed", !.error = "refused"]
Left(p) == Answers(p) \cup {Refused(r) : r \in Answers(p)}

NoneRefused == \A i \in DOMAIN records : records[i].error # "refused"

Logs == [captures : {None, 2}, counters : Seq(0 .. MaxFallbacks), quant : BOOLEAN]

(* The log only grows: its first counter stays the first.                  *)
FirstStays ==
  told # <<>> => log.counters # <<>> /\ Head(log.counters) = Head(told)

(* What the run's own collector read in the log.                           *)
SaysLog(m) ==
  profile.log = "read" =>
    /\ m.captures = GraphFromLog(log, profile.compiled)
    /\ told # <<>> => m.fallback = (Head(told) > 0)
    /\ m.quant = log.quant

(* The run collects when the load is over, so what it read stays true: the *)
(* log only grows, and a process that is there served every request.       *)
Collected ==
  LET m == doc["run"]
  IN  /\ step["run"] \in {"idle", "log"} => m = NoDoc
      /\ step["run"] \in {"metrics", "npu", "proc"} => SaysLog(m) /\ ~m.cores
      /\ m.cores => SaysLog(m) /\ NoneRefused /\ step["run"] \in {"dump", "done"}
      /\ m.samples <= samples

IInv ==
  /\ TypeOK
  /\ records \in Seq(Left(profile))
  /\ step["run"] # "idle" => ~Loading
  /\ server = "up" => NoneRefused
  /\ FirstStays
  /\ ~profile.file => Collected
  /\ evidence # None =>
       /\ step["run"] = "done"
       /\ evidence = AssembleEvidence(profile, records, Adopted(doc["run"]))
LEMMA Positions ==
  ASSUME NEW S, NEW s \in Seq(S)
  PROVE  /\ Len(s) \in Nat /\ DOMAIN s = 1 .. Len(s) /\ IsFiniteSet(DOMAIN s)
         /\ \A i \in DOMAIN s : s[i] \in S
BY LenProperties, ElementOfSeq, FS_Interval

LEMMA Appended ==
  ASSUME NEW S, NEW rs \in Seq(S), NEW r \in S
  PROVE  /\ Append(rs, r) \in Seq(S)
         /\ Len(Append(rs, r)) = Len(rs) + 1 /\ Len(rs) \in Nat
         /\ DOMAIN Append(rs, r) = DOMAIN rs \cup {Len(rs) + 1}
         /\ Append(rs, r)[Len(rs) + 1] = r
         /\ \A i \in DOMAIN rs : Append(rs, r)[i] = rs[i]
<1>1. /\ Append(rs, r) \in Seq(S) /\ Len(Append(rs, r)) = Len(rs) + 1
      /\ Append(rs, r)[Len(rs) + 1] = r
      /\ \A i \in 1 .. Len(rs) : Append(rs, r)[i] = rs[i]
  BY AppendProperties
<1>2. /\ DOMAIN rs = 1 .. Len(rs) /\ Len(rs) \in Nat
      /\ DOMAIN Append(rs, r) = 1 .. Len(rs) + 1
  BY <1>1, Positions
<1>. QED  BY <1>1, <1>2

LEMMA FirstOfMore ==
  ASSUME NEW S, NEW s \in Seq(S), NEW r \in S
  PROVE  /\ Append(s, r) \in Seq(S)
         /\ s # <<>> => Append(s, r) # <<>> /\ Head(Append(s, r)) = Head(s)
<1>1. Append(s, r) \in Seq(S) /\ Append(s, r) # <<>>
  BY AppendProperties
<1>2. s # <<>> => Append(s, r)[1] = s[1]
  <2>1. s # <<>> => 1 \in 1 .. Len(s)
    BY EmptySeq, LenProperties
  <2>. QED  BY <2>1, AppendProperties
<1>. QED  BY <1>1, <1>2, HeadTailProperties

LEMMA ProfileType ==
  ASSUME NEW p \in Profiles
  PROVE  /\ p.compiled \in BOOLEAN /\ p.prefix \in BOOLEAN /\ p.quantized \in BOOLEAN
         /\ p.monitored \in BOOLEAN /\ p.pid \in BOOLEAN /\ p.file \in BOOLEAN
         /\ p.log \in {"read", "missing", "none"}
         /\ p.requests \in Nat
<1>1. {p.compiled, p.prefix, p.quantized, p.monitored, p.pid, p.file} \subseteq BOOLEAN
  BY ProfilesAssumption
<1>. QED  BY <1>1, ProfilesAssumption

LEMMA NoDocType == NoDoc \in Docs
BY BoundsAssumption DEF NoDoc, Docs

LEMMA InitIInv == Init => IInv
<1> SUFFICES ASSUME Init PROVE IInv
  OBVIOUS
<1>1. /\ profile \in Profiles /\ log \in Logs
      /\ server = "up" /\ samples = 0 /\ records = <<>>
      /\ fp16 \in Fp16Runs[profile]
      /\ step = [w \in Collectors |-> "idle"] /\ doc = [w \in Collectors |-> NoDoc]
      /\ file = NoDoc /\ evidence = None
      /\ fallbacks = 0 /\ told = <<>>
  <2>1. /\ profile \in Profiles /\ server = "up" /\ samples = 0 /\ records = <<>>
        /\ fp16 \in Fp16Runs[profile]
        /\ step = [w \in Collectors |-> "idle"] /\ doc = [w \in Collectors |-> NoDoc]
        /\ file = NoDoc /\ evidence = None
        /\ fallbacks = 0 /\ told = <<>>
    BY DEF Init
  <2>2. PICK n \in {None, 2}, q \in BOOLEAN :
          log = [captures |-> n, counters |-> <<>>, quant |-> q]
    BY DEF Init
  <2>3. log \in Logs
    BY <2>2 DEF Logs
  <2>. QED  BY <2>1, <2>3
<1>2. TypeOK
  <2>1. Len(records) <= profile.requests /\ samples \in 0 .. MaxSamples
        /\ fallbacks \in 0 .. MaxFallbacks /\ told \in Seq(0 .. MaxFallbacks)
    BY <1>1, ProfileType, BoundsAssumption
  <2>. QED  BY <1>1, <2>1, NoDocType DEF TypeOK, Logs, Steps
<1>3. <<>> \in Seq(Left(profile)) /\ DOMAIN <<>> = {}
  OBVIOUS
<1>4. Collected
  BY <1>1 DEF Collected, Collectors, NoDoc
<1>. QED  BY <1>1, <1>2, <1>3, <1>4 DEF IInv, NoneRefused, FirstStays, Collectors

-----------------------------------------------------------------------------
(* The steps.                                                              *)
LEMMA AnswerStep ==
  ASSUME IInv, NEW r \in Answers(profile), Answer(r)
  PROVE  IInv'
<1> DEFINE got == IF server = "up" THEN r ELSE Refused(r)
<1>1. /\ profile \in Profiles /\ records \in Seq(Left(profile)) /\ Loading
      /\ records' = Append(records, got) /\ step["run"] = "idle" /\ evidence = None
      /\ told' = log.counters
      /\ UNCHANGED <<profile, log, fallbacks, server, samples, fp16, step, doc, file, evidence>>
  BY DEF IInv, TypeOK, Answer, Refused
<1>2. got \in Left(profile)
  BY DEF Left
<1> HIDE DEF got
<1>3. records' \in Seq(Left(profile)) /\ Len(records') = Len(records) + 1
  BY <1>1, <1>2, Appended
<1>4. TypeOK'
  <2>1. Len(records') <= profile.requests
    <3>1. Len(records) \in Nat /\ profile.requests \in Nat
      BY <1>1, Positions, ProfileType
    <3>. QED  BY <1>1, <1>3, <3>1 DEF Loading
  <2>2. told' \in Seq(0 .. MaxFallbacks)
    BY <1>1 DEF IInv, TypeOK
  <2>. QED  BY <1>1, <2>1, <2>2 DEF IInv, TypeOK
<1>5. server = "up" => NoneRefused'
  <2> SUFFICES ASSUME server = "up" PROVE NoneRefused'
    OBVIOUS
  <2>1. got.error # "refused"
    BY <1>1, AnswersAssumption DEF got
  <2>2. NoneRefused
    BY DEF IInv
  <2>. QED  BY <1>1, <1>2, <2>1, <2>2, Appended DEF NoneRefused
<1>6. ~profile.file => Collected'
  BY <1>1 DEF IInv, Collected, NoDoc
<1>7. FirstStays'
  BY <1>1 DEF FirstStays
<1>. QED  BY <1>1, <1>3, <1>4, <1>5, <1>6, <1>7 DEF IInv

(* What the server and the monitor do.                                     *)
LEMMA WorldStep ==
  ASSUME IInv, Fallback \/ LogCounter \/ Die \/ Sample
  PROVE  IInv'
<1>1. /\ UNCHANGED <<profile, records, told, fp16, step, doc, file, evidence>>
      /\ samples' \in 0 .. MaxSamples /\ samples' >= samples
      /\ fallbacks' \in 0 .. MaxFallbacks
      /\ log' \in Logs /\ log'.captures = log.captures /\ log'.quant = log.quant
      /\ log.counters # <<>> =>
           log'.counters # <<>> /\ Head(log'.counters) = Head(log.counters)
      /\ server' \in {"up", "dead"} /\ (server' = "up" => server = "up")
  <2>1. /\ samples \in Nat /\ samples <= MaxSamples /\ server \in {"up", "dead"}
        /\ log \in Logs /\ fallbacks \in 0 .. MaxFallbacks
    BY BoundsAssumption DEF IInv, TypeOK, Logs
  <2>2. CASE Fallback
    <3>1. fallbacks' \in 0 .. MaxFallbacks
      BY <2>1, <2>2, BoundsAssumption DEF Fallback
    <3>. QED  BY <2>1, <2>2, <3>1, BoundsAssumption DEF Fallback
  <2>3. CASE LogCounter
    <3>1. PICK more \in Seq(0 .. MaxFallbacks) :
            /\ more = Append(log.counters, fallbacks)
            /\ log.counters # <<>> => more # <<>> /\ Head(more) = Head(log.counters)
      BY <2>1, FirstOfMore DEF Logs
    <3>2. log' = [log EXCEPT !.counters = more]
      BY <2>3, <3>1 DEF LogCounter
    <3>3. /\ log' \in Logs /\ log'.counters = more
          /\ log'.captures = log.captures /\ log'.quant = log.quant
      BY <2>1, <3>1, <3>2 DEF Logs
    <3>5. UNCHANGED <<profile, fallbacks, server, samples, records, told, fp16, step, doc,
                      file, evidence>>
      BY <2>3 DEF LogCounter
    <3>. QED  BY <2>1, <3>1, <3>3, <3>5, BoundsAssumption
  <2>4. CASE Die
    BY <2>1, <2>4, BoundsAssumption DEF Die
  <2>5. CASE Sample
    BY <2>1, <2>5, BoundsAssumption DEF Sample
  <2>. QED  BY <2>2, <2>3, <2>4, <2>5
<1>2. TypeOK'
  BY <1>1 DEF IInv, TypeOK, Logs
<1>3. ~profile.file => Collected'
  <2> SUFFICES ASSUME ~profile.file PROVE Collected'
    OBVIOUS
  <2>1. doc["run"].samples <= samples /\ doc["run"].samples \in Nat
        /\ samples \in Nat /\ samples' \in Nat
    BY <1>1, BoundsAssumption DEF IInv, TypeOK, Docs, Collectors, Collected
  <2>2. SaysLog(doc["run"]) => SaysLog(doc["run"])'
    BY <1>1 DEF SaysLog, GraphFromLog
  <2>. QED  BY <1>1, <2>1, <2>2 DEF IInv, Collected, NoneRefused
<1>4. FirstStays'
  BY <1>1 DEF IInv, FirstStays
<1>. QED  BY <1>1, <1>2, <1>3, <1>4 DEF IInv, NoneRefused, FirstStays, Loading

LEMMA CollectorTyped ==
  ASSUME TypeOK, NEW w \in Collectors, ReadLog(w) \/ Scrape(w) \/ ReadSamples(w) \/ ReadProc(w)
  PROVE  /\ doc' \in [Collectors -> Docs]
         /\ UNCHANGED <<profile, log, fallbacks, server, samples, records, told, fp16, file, evidence>>
         /\ \A v \in Collectors \ {w} : doc'[v] = doc[v] /\ step'[v] = step[v]
         /\ step' \in [Collectors -> Steps]
<1>1. /\ doc \in [Collectors -> Docs] /\ step \in [Collectors -> Steps] /\ doc[w] \in Docs
      /\ profile \in Profiles /\ samples \in 0 .. MaxSamples
      /\ log \in Logs
  BY DEF TypeOK, Logs
<1>2. profile.pid \in BOOLEAN
  BY <1>1, ProfileType
<1>3. CASE ReadLog(w)
  <2> DEFINE text == IF profile.log = "read" THEN log ELSE NoLog
  <2>1. /\ text.captures \in {None, 2} /\ FellBack(text) \in BOOLEAN /\ text.quant \in BOOLEAN
    BY <1>1 DEF NoLog, Logs, FellBack
  <2>2. GraphFromLog(text, w = "run" /\ profile.compiled) \in {None, 0, 2}
    BY <2>1 DEF GraphFromLog
  <2>3. PICK new \in Docs :
          new = [doc[w] EXCEPT !.captures = GraphFromLog(text, w = "run" /\ profile.compiled),
                               !.fallback = FellBack(text), !.quant = text.quant]
    BY <1>1, <2>1, <2>2 DEF Docs
  <2>4. doc' = [doc EXCEPT ![w] = new]
    BY <1>1, <1>3, <2>3 DEF ReadLog
  <2>. QED  BY <1>1, <1>3, <2>4 DEF ReadLog, Collect, Steps
<1>4. CASE Scrape(w)
  BY <1>1, <1>4 DEF Scrape, Collect, Steps, Docs
<1>5. CASE ReadSamples(w)
  BY <1>1, <1>5 DEF ReadSamples, Collect, Steps, Docs
<1>6. CASE ReadProc(w)
  BY <1>1, <1>2, <1>6 DEF ReadProc, Collect, Steps, Docs
<1>. QED  BY <1>3, <1>4, <1>5, <1>6

(* The operator's collector and its file do not touch the run's.           *)
LEMMA OperatorStep ==
  ASSUME IInv, StartOperator \/ Gather("operator") \/ OpenFile \/ WriteFile
  PROVE  IInv'
<1>1. /\ UNCHANGED <<profile, log, fallbacks, server, samples, records, told, fp16, evidence>>
      /\ step'["run"] = step["run"] /\ doc'["run"] = doc["run"]
  BY DEF IInv, TypeOK, StartOperator, Gather, Collect, ReadLog, Scrape, ReadSamples,
         ReadProc, OpenFile, WriteFile, Collectors
<1>2. TypeOK'
  <2>1. step' \in [Collectors -> Steps]
    BY DEF IInv, TypeOK, StartOperator, Gather, Collect, ReadLog, Scrape, ReadSamples,
           ReadProc, OpenFile, WriteFile, Collectors, Steps
  <2>2. doc' \in [Collectors -> Docs] /\ file' \in Docs
    <3>1. doc \in [Collectors -> Docs] /\ file \in Docs /\ doc["operator"] \in Docs
          /\ profile \in Profiles
      BY DEF IInv, TypeOK, Collectors
    <3>2. CASE StartOperator \/ OpenFile \/ WriteFile
      BY <3>1, <3>2, NoDocType DEF StartOperator, OpenFile, WriteFile
    <3>3. CASE Gather("operator")
      <4>1. PICK w \in Collectors : w = "operator"
        BY DEF Collectors
      <4>2. ReadLog(w) \/ Scrape(w) \/ ReadSamples(w) \/ ReadProc(w)
        BY <3>3, <4>1 DEF Gather
      <4>3. doc' \in [Collectors -> Docs] /\ file' = file
        BY <4>2, CollectorTyped DEF IInv
      <4>. QED  BY <3>1, <4>3
    <3>. QED  BY <3>2, <3>3
  <2>. QED  BY <1>1, <2>1, <2>2 DEF IInv, TypeOK
<1>. QED  BY <1>1, <1>2 DEF IInv, Collected, SaysLog, NoneRefused, FirstStays, Loading
LEMMA RunDoc ==
  ASSUME IInv
  PROVE  /\ profile \in Profiles /\ doc["run"] \in Docs /\ doc \in [Collectors -> Docs]
         /\ step \in [Collectors -> Steps] /\ "run" \in Collectors
         /\ samples \in Nat /\ doc["run"].samples \in Nat
         /\ profile.file \in BOOLEAN /\ profile.pid \in BOOLEAN
<1>1. profile \in Profiles /\ doc["run"] \in Docs /\ samples \in 0 .. MaxSamples
  BY DEF IInv, TypeOK, Collectors
<1>2. samples \in Nat /\ doc["run"].samples \in Nat
  <2>1. doc["run"].samples \in 0 .. MaxSamples
    BY <1>1 DEF Docs
  <2>. QED  BY <1>1, <2>1, BoundsAssumption
<1>. QED  BY <1>1, <1>2, ProfileType DEF IInv, TypeOK, Collectors

LEMMA StartStep ==
  ASSUME IInv, StartFinalize
  PROVE  IInv'
<1>1. /\ ~Loading /\ step["run"] = "idle" /\ evidence = None
      /\ UNCHANGED <<profile, log, fallbacks, server, samples, records, told, fp16, file, evidence>>
  BY DEF IInv, StartFinalize
<1>2. PICK next \in {"log", "dump"} : step' = [step EXCEPT !["run"] = next]
  BY DEF StartFinalize
<1>3. \/ UNCHANGED doc /\ next = "log"
      \/ /\ next = "dump"
         /\ doc' = [doc EXCEPT !["run"] = IF profile.file THEN file ELSE NoDoc]
  BY <1>2, RunDoc DEF StartFinalize, Collectors
<1>4. step' \in [Collectors -> Steps] /\ step'["run"] = next
  BY <1>2, RunDoc DEF Steps
<1>5. doc' \in [Collectors -> Docs]
  BY <1>3, RunDoc, NoDocType DEF IInv, TypeOK
<1>6. ~profile.file => doc'["run"] = NoDoc
  BY <1>1, <1>3, RunDoc DEF IInv, Collected
<1>7. ~profile.file => Collected'
  BY <1>1, <1>4, <1>6, RunDoc DEF Collected, NoDoc
<1>8. TypeOK'
  BY <1>1, <1>4, <1>5 DEF IInv, TypeOK
<1>. QED  BY <1>1, <1>7, <1>8 DEF IInv, NoneRefused, FirstStays, Loading

LEMMA GatherStep ==
  ASSUME IInv, Gather("run")
  PROVE  IInv'
<1>1. /\ step["run"] \in {"log", "metrics", "npu", "proc"} /\ ~Loading /\ evidence = None
      /\ UNCHANGED <<profile, log, fallbacks, server, samples, records, told, fp16, file, evidence>>
  BY DEF IInv, Gather, ReadLog, Scrape, ReadSamples, ReadProc, Collect
<1>2. /\ doc' \in [Collectors -> Docs] /\ step' \in [Collectors -> Steps]
  <2>1. ReadLog("run") \/ Scrape("run") \/ ReadSamples("run") \/ ReadProc("run")
    BY DEF Gather
  <2>. QED  BY <2>1, RunDoc, CollectorTyped DEF IInv
<1>3. TypeOK'
  BY <1>1, <1>2 DEF IInv, TypeOK
<1>4. ~profile.file => Collected'
  <2> SUFFICES ASSUME ~profile.file PROVE Collected'
    OBVIOUS
  <2>1. /\ Collected /\ doc["run"] \in Docs /\ doc["run"].samples \in Nat
        /\ samples \in Nat /\ step["run"] \in Steps
    BY RunDoc DEF IInv
  <2>2. CASE ReadLog("run")
    <3>1. step["run"] = "log" /\ step'["run"] = "metrics" /\ doc["run"] = NoDoc
      BY <2>1, <2>2, RunDoc DEF ReadLog, Collect, Collected
    <3>2. /\ doc'["run"].cores = NoDoc.cores /\ doc'["run"].samples = NoDoc.samples
          /\ profile.log = "read" =>
               /\ doc'["run"].captures = GraphFromLog(log, profile.compiled)
               /\ doc'["run"].fallback = FellBack(log) /\ doc'["run"].quant = log.quant
      <4>1. PICK text :
              /\ text = IF profile.log = "read" THEN log ELSE NoLog
              /\ doc' = [doc EXCEPT !["run"] = [@ EXCEPT
                   !.captures = GraphFromLog(text, "run" = "run" /\ profile.compiled),
                   !.fallback = FellBack(text), !.quant = text.quant]]
        BY <2>2 DEF ReadLog
      <4>2. doc'["run"] = [doc["run"] EXCEPT
              !.captures = GraphFromLog(text, "run" = "run" /\ profile.compiled),
              !.fallback = FellBack(text), !.quant = text.quant]
        BY <4>1, RunDoc
      <4>3. /\ doc'["run"].cores = doc["run"].cores
            /\ doc'["run"].samples = doc["run"].samples
            /\ doc'["run"].captures = GraphFromLog(text, profile.compiled)
            /\ doc'["run"].fallback = FellBack(text) /\ doc'["run"].quant = text.quant
        BY <4>2, RunDoc DEF Docs, GraphFromLog, FellBack
      <4>. QED  BY <3>1, <4>1, <4>3
    <3>3. profile.log = "read" /\ told # <<>> => doc'["run"].fallback = (Head(told) > 0)
      BY <3>2 DEF IInv, FirstStays, FellBack
    <3>. QED  BY <1>1, <2>1, <3>1, <3>2, <3>3 DEF Collected, SaysLog, NoDoc
  <2>3. CASE Scrape("run")
    <3>1. step["run"] = "metrics" /\ step'["run"] = "npu"
      BY <2>3, RunDoc DEF Scrape, Collect
    <3>2. /\ doc'["run"].cores = doc["run"].cores
          /\ doc'["run"].samples = doc["run"].samples
          /\ doc'["run"].captures = doc["run"].captures
          /\ doc'["run"].fallback = doc["run"].fallback
          /\ doc'["run"].quant = doc["run"].quant
      BY <2>3, RunDoc DEF Scrape, Docs
    <3>. QED  BY <1>1, <2>1, <3>1, <3>2 DEF Collected, SaysLog
  <2>4. CASE ReadSamples("run")
    <3>1. step["run"] = "npu" /\ step'["run"] = "proc"
      BY <2>4, RunDoc DEF ReadSamples, Collect
    <3>2. /\ doc'["run"].cores = doc["run"].cores
          /\ doc'["run"].samples = samples
          /\ doc'["run"].captures = doc["run"].captures
          /\ doc'["run"].fallback = doc["run"].fallback
          /\ doc'["run"].quant = doc["run"].quant
      BY <2>4, RunDoc DEF ReadSamples, Docs
    <3>. QED  BY <1>1, <2>1, <3>1, <3>2 DEF Collected, SaysLog
  <2>5. CASE ReadProc("run")
    <3>1. step["run"] = "proc" /\ step'["run"] = "dump"
      BY <2>5, RunDoc DEF ReadProc, Collect
    <3>2. /\ doc'["run"].cores = (profile.pid /\ server = "up")
          /\ doc'["run"].samples = doc["run"].samples
          /\ doc'["run"].captures = doc["run"].captures
          /\ doc'["run"].fallback = doc["run"].fallback
          /\ doc'["run"].quant = doc["run"].quant
      BY <2>5, RunDoc DEF ReadProc, Docs
    <3>3. server = "up" => NoneRefused'
      BY <1>1 DEF IInv, NoneRefused
    <3>. QED  BY <1>1, <2>1, <3>1, <3>2, <3>3 DEF Collected, SaysLog
  <2>. QED  BY <2>2, <2>3, <2>4, <2>5 DEF Gather
<1>. QED  BY <1>1, <1>3, <1>4 DEF IInv, NoneRefused, FirstStays, Loading

LEMMA JudgeStep ==
  ASSUME IInv, Judge
  PROVE  IInv'
<1>1. /\ step["run"] = "dump" /\ ~Loading
      /\ step' = [step EXCEPT !["run"] = "done"]
      /\ evidence' = AssembleEvidence(profile, records, Adopted(doc["run"]))
      /\ UNCHANGED <<profile, log, fallbacks, server, samples, records, told, fp16, doc, file>>
  BY DEF Judge
<1>2. step' \in [Collectors -> Steps] /\ step'["run"] = "done"
  BY <1>1, RunDoc DEF Steps
<1>3. TypeOK'
  BY <1>1, <1>2 DEF IInv, TypeOK, AssembleEvidence
<1>4. ~profile.file => Collected'
  BY <1>1, <1>2 DEF IInv, Collected, SaysLog, NoneRefused
<1>. QED  BY <1>1, <1>2, <1>3, <1>4 DEF IInv, NoneRefused, FirstStays, Loading

LEMMA NextIInv == IInv /\ [Next]_vars => IInv'
<1> SUFFICES ASSUME IInv, [Next]_vars PROVE IInv'
  OBVIOUS
<1>1. CASE UNCHANGED vars
  BY <1>1 DEF vars, IInv, TypeOK, Collected, SaysLog, NoneRefused, FirstStays, Loading
<1>2. ASSUME NEW r \in Answers(profile), Answer(r) PROVE IInv'
  BY <1>2, AnswerStep
<1>3. CASE Fallback \/ LogCounter \/ Die \/ Sample
  BY <1>3, WorldStep
<1>4. CASE StartOperator \/ Gather("operator") \/ OpenFile \/ WriteFile
  BY <1>4, OperatorStep
<1>5. CASE StartFinalize
  BY <1>5, StartStep
<1>6. CASE Gather("run")
  BY <1>6, GatherStep
<1>7. CASE Judge
  BY <1>7, JudgeStep
<1>. QED  BY <1>1, <1>2, <1>3, <1>4, <1>5, <1>6, <1>7 DEF Next, Proceed

LEMMA Inductive == Spec => []IInv
BY InitIInv, NextIInv, PTL DEF Spec

(* Documents and files are always those the collectors can write.          *)
THEOREM TypeCorrect == Spec => []TypeOK
<1>1. IInv => TypeOK
  BY DEF IInv
<1>. QED  BY Inductive, <1>1, PTL

-----------------------------------------------------------------------------
(* Evidence that passes.                                                   *)
LEMMA PassedMechanisms ==
  ASSUME IInv, Passed
  PROVE  Mechanisms(profile, Adopted(doc["run"])) /\ Adopted(doc["run"]).cores
<1>1. evidence = AssembleEvidence(profile, records, Adopted(doc["run"]))
  BY DEF IInv, Passed
<1>2. evidence["mechanisms"] # FALSE
  BY <1>1 DEF Passed, Z3Gate, AssembleEvidence
<1>3. Mechanisms(profile, Adopted(doc["run"])) # FALSE
  BY <1>1, <1>2 DEF AssembleEvidence
<1>4. Mechanisms(profile, Adopted(doc["run"]))
  BY <1>3 DEF Mechanisms
<1>. QED  BY <1>4 DEF Mechanisms

LEMMA PassedDoc ==
  ASSUME IInv, Passed, ~profile.file
  PROVE  /\ Mechanisms(profile, doc["run"]) /\ doc["run"].cores
         /\ SaysLog(doc["run"]) /\ NoneRefused
         /\ doc["run"].samples <= samples
<1>1. Adopted(doc["run"]) = doc["run"]
  BY PassedMechanisms DEF Adopted, NoDoc
<1>. QED  BY <1>1, PassedMechanisms DEF IInv, Collected

LEMMA Witnessed == IInv => PassIsWitnessed
<1> SUFFICES ASSUME IInv, Passed, ~profile.file PROVE PassIsWitnessed
  BY DEF PassIsWitnessed, PassIsObserved, PassWasServed
<1>1. PassWasServed
  BY PassedDoc DEF PassWasServed, NoneRefused
<1>2. ASSUME profile.log = "read"
      PROVE  /\ IF profile.compiled THEN log.captures # None /\ (told # <<>> => Head(told) = 0)
                ELSE log.captures = None
             /\ profile.quantized => log.quant
             /\ profile.monitored => samples > 0
  <2>1. /\ doc["run"].captures = GraphFromLog(log, profile.compiled)
        /\ doc["run"].quant = log.quant
        /\ told # <<>> => doc["run"].fallback = (Head(told) > 0)
    BY <1>2, PassedDoc DEF SaysLog
  <2>a. told # <<>> => Head(told) \in Nat
    <3>1. told \in Seq(0 .. MaxFallbacks)
      BY DEF IInv, TypeOK
    <3>. QED  BY <3>1, BoundsAssumption
  <2>2. log.captures \in {None, 2}
    BY DEF IInv, TypeOK
  <2>3. IF profile.compiled THEN log.captures # None /\ (told # <<>> => Head(told) = 0)
        ELSE log.captures = None
    <3>1. CASE profile.compiled
      <4>1. log.captures # None /\ ~doc["run"].fallback
        BY <2>1, <3>1, PassedDoc DEF Mechanisms, GraphFromLog
      <4>2. told # <<>> => ~(Head(told) > 0)
        BY <2>1, <4>1
      <4>3. told # <<>> => Head(told) = 0
        BY <2>a, <4>2
      <4>. QED  BY <3>1, <4>1, <4>3
    <3>2. CASE ~profile.compiled
      BY <2>1, <2>2, <3>2, PassedDoc DEF Mechanisms, GraphFromLog
    <3>. QED  BY <3>1, <3>2
  <2>4. profile.quantized => log.quant
    BY <2>1, PassedDoc DEF Mechanisms
  <2>5. profile.monitored => samples > 0
    <3>1. profile.monitored => doc["run"].samples > 0
      BY PassedDoc DEF Mechanisms
    <3>. QED  BY <3>1, PassedDoc, RunDoc
  <2>. QED  BY <2>3, <2>4, <2>5
<1>. QED  BY <1>1, <1>2 DEF PassIsWitnessed, PassIsObserved

(* Evidence that passes was seen by the run's own collector and served by  *)
(* a server that was there to the last request, whenever it died, whatever *)
(* an operator collected meanwhile.                                        *)
THEOREM PassesAreWitnessed == Spec => []PassIsWitnessed
BY Inductive, Witnessed, PTL

-----------------------------------------------------------------------------
(* The quality rates.                                                      *)
LEMMA DivideMonotone ==
  ASSUME NEW a \in Nat, NEW b \in Nat, a <= b, NEW d \in Nat \ {0}
  PROVE  a \div d \in Nat /\ b \div d \in Nat /\ a \div d <= b \div d
<1>1. PICK p \in Nat, q \in Nat : p = a \div d /\ q = b \div d
  OBVIOUS
<1>2. PICK r \in Nat, s \in Nat : /\ a = d * p + r /\ r < d
                                  /\ b = d * q + s /\ s < d
  <2>1. /\ a = d * (a \div d) + (a % d) /\ a % d \in 0 .. d - 1
        /\ b = d * (b \div d) + (b % d) /\ b % d \in 0 .. d - 1
    OBVIOUS
  <2>. QED  BY <1>1, <2>1
<1>3. CASE q < p
  <2>1. PICK e \in Nat : p = q + 1 + e
    <3>1. p - q - 1 \in Nat /\ p = q + 1 + (p - q - 1)
      BY <1>3
    <3>. QED  BY <3>1
  <2>2. d * p = d * q + d + d * e /\ d * e \in Nat /\ d * q \in Nat
    BY <2>1
  <2>. QED  BY <1>2, <2>2
<1>. QED  BY <1>1, <1>3

Good(rs, kind) == {i \in OfKind(rs, kind) : EvaluateOne(rs[i])}

(* A percentage of rows that are right.                                    *)
LEMMA RateType ==
  ASSUME NEW rows, IsFiniteSet(rows), rows # {}, NEW ok \in SUBSET rows
  PROVE  /\ Cardinality(rows) \in Nat \ {0} /\ Cardinality(ok) \in Nat
         /\ (20000 * Cardinality(ok) + Cardinality(rows)) \div (2 * Cardinality(rows)) \in Nat
<1>1. Cardinality(rows) \in Nat \ {0} /\ Cardinality(ok) \in Nat
  BY FS_Subset, FS_CardinalityType, FS_EmptySet
<1>2. PICK a \in Nat, d \in Nat \ {0} :
        a = 20000 * Cardinality(ok) + Cardinality(rows) /\ d = 2 * Cardinality(rows)
  BY <1>1
<1>. QED  BY <1>1, <1>2, DivideMonotone

LEMMA KindPctType ==
  ASSUME NEW rs, IsFiniteSet(DOMAIN rs), NEW kind
  PROVE  KindPct(rs, kind) \in Nat \cup {None}
<1>1. CASE OfKind(rs, kind) = {}
  BY <1>1 DEF KindPct
<1>2. CASE OfKind(rs, kind) # {}
  <2>1. IsFiniteSet(OfKind(rs, kind))
    BY FS_Subset DEF OfKind
  <2>2. Good(rs, kind) \in SUBSET OfKind(rs, kind)
    BY DEF Good
  <2>. QED  BY <1>2, <2>1, <2>2, RateType DEF KindPct, Good
<1>. QED  BY <1>1, <1>2

Spoilt(rs, n) == [rs EXCEPT ![n].verdict = "failed"]

LEMMA SpoiltRates ==
  ASSUME NEW rs, IsFiniteSet(DOMAIN rs), NEW n \in DOMAIN rs,
         {"kind", "verdict"} \subseteq DOMAIN rs[n], NEW kind, NEW limit \in Nat,
         AtLeast(KindPct(Spoilt(rs, n), kind), limit)
  PROVE  AtLeast(KindPct(rs, kind), limit)
<1> DEFINE sp == Spoilt(rs, n)
           rows == OfKind(rs, kind)
<1>1. /\ DOMAIN sp = DOMAIN rs
      /\ sp[n].kind = rs[n].kind /\ sp[n].verdict = "failed"
      /\ \A i \in DOMAIN rs \ {n} : sp[i] = rs[i]
  BY DEF Spoilt
<1>2. OfKind(sp, kind) = rows
  BY <1>1 DEF OfKind
<1>3. Good(sp, kind) \subseteq Good(rs, kind)
  <2>1. ~EvaluateOne(sp[n])
    BY <1>1 DEF EvaluateOne
  <2>. QED  BY <1>1, <1>2, <2>1 DEF Good, OfKind
<1> HIDE DEF sp, rows
<1>4. CASE rows = {}
  BY <1>4 DEF KindPct, AtLeast, rows
<1>5. CASE rows # {}
  <2>1. IsFiniteSet(rows) /\ Good(rs, kind) \in SUBSET rows /\ Good(sp, kind) \in SUBSET rows
    BY <1>2, FS_Subset DEF OfKind, Good, rows
  <2>2. PICK all \in Nat \ {0}, ok \in Nat, left \in Nat :
          all = Cardinality(rows) /\ ok = Cardinality(Good(rs, kind))
          /\ left = Cardinality(Good(sp, kind)) /\ left <= ok
    <3>1. IsFiniteSet(Good(rs, kind))
      BY <2>1, FS_Subset
    <3>2. Cardinality(Good(sp, kind)) <= Cardinality(Good(rs, kind))
      BY <1>3, <3>1, FS_Subset
    <3>. QED  BY <1>5, <2>1, <3>2, RateType
  <2>3. PICK a \in Nat, b \in Nat, d \in Nat \ {0} :
          a = 20000 * left + all /\ b = 20000 * ok + all /\ d = 2 * all /\ a <= b
    BY <2>2
  <2>4. PICK x \in Nat, y \in Nat : x = a \div d /\ y = b \div d /\ x <= y
    <3>1. a \div d \in Nat /\ b \div d \in Nat /\ a \div d <= b \div d
      BY <2>3, DivideMonotone
    <3>2. PICK x, y : x = a \div d /\ y = b \div d
      OBVIOUS
    <3>. QED  BY <3>1, <3>2
  <2>5. KindPct(rs, kind) = y /\ KindPct(sp, kind) = x
    BY <1>2, <1>5, <2>2, <2>3, <2>4 DEF KindPct, Good, rows
  <2>6. x >= limit
    BY <2>5, NoneAssumption DEF AtLeast, sp
  <2>. QED  BY <2>4, <2>5, <2>6 DEF AtLeast
<1>. QED  BY <1>4, <1>5

LEMMA NeverGains == IInv => QualityNeverGains
<1> SUFFICES ASSUME IInv PROVE QualityNeverGains
  OBVIOUS
<1>1. /\ profile \in Profiles /\ records \in Seq(Left(profile))
      /\ fp16 \in Fp16Runs[profile]
  BY DEF IInv, TypeOK
<1>2. IsFiniteSet(DOMAIN records) /\ IsFiniteSet(DOMAIN fp16)
  BY <1>1, Positions, ProfilesAssumption
<1>3. \A i \in DOMAIN records : {"kind", "verdict"} \subseteq DOMAIN records[i]
  <2>1. \A r \in Left(profile) : {"kind", "verdict"} \subseteq DOMAIN r
    BY <1>1, AnswersAssumption DEF Left, Refused
  <2>. QED  BY <1>1, <2>1, Positions
<1>4. ASSUME NEW i \in DOMAIN records, Quality(Spoilt(records, i))
      PROVE  Quality(records)
  BY <1>2, <1>3, <1>4, SpoiltRates DEF Quality
<1>5. FailureNeverGains
  BY <1>4 DEF FailureNeverGains, Spoilt
<1>6. QualifiedCoversKinds
  <2> SUFFICES ASSUME Qualified(fp16, records),
                      NEW kind \in {"reason", "tool_", "struct", "long_"},
                      KindPct(fp16, kind) # None, KindPct(fp16, kind) > 100,
                      OfKind(records, kind) = {}
               PROVE  FALSE
    BY DEF QualifiedCoversKinds
  <2>1. PICK f16 \in Nat : f16 = KindPct(fp16, kind)
    BY <1>2, KindPctType
  <2>2. KindPct(records, kind) = None
    BY DEF KindPct
  <2>3. f16 - 0 <= 100
    BY <2>1, <2>2 DEF Qualified, DropWithin
  <2>. QED  BY <2>1, <2>3
<1>. QED  BY <1>5, <1>6 DEF QualityNeverGains

(* At every moment of every run: one more failed request does not repair   *)
(* its quality, and a kind left out does not qualify it.                   *)
THEOREM QualityIsNeverGained == Spec => []QualityNeverGains
BY Inductive, NeverGains, PTL

-----------------------------------------------------------------------------
(* The repetitions whose evidence the gate of gate.py judges: lifecycle.py.*)
(* `valid` counts the lifecycles that were ok, the records mirror the      *)
(* lifecycles one by one, and a verdict was given only when the loop could *)
(* not go on.                                                              *)

(* The instance counts as this module does.                                *)
LEMMA SizesAgree == \A s : Z2!Cardinality(s) = Cardinality(s)
BY DEF Z2!Cardinality, Z2!IsFiniteSet, Cardinality, IsFiniteSet

(* The lifecycles among the first n that were ok.                          *)
OkAmong(rs, n) == {j \in 1 .. n : rs[j].ok}

Mirrored ==
  /\ Len(kept) = Len(runs)
  /\ \A k \in 1 .. Len(runs) :
       /\ kept[k].attempt = k
       /\ kept[k].status = Z2!StatusOf(runs[k])
       /\ runs[k].ok => kept[k].value = runs[k].metric

Counted ==
  /\ attempt = Len(runs)
  /\ valid = Cardinality(OkAmong(runs, Len(runs)))
  /\ valid <= Required
  /\ attempt <= Z2!MaxAttempts

NoneTooLate ==
  \A k \in 1 .. Len(runs) : Cardinality(OkAmong(runs, k - 1)) < Required

JudgedAtEnd ==
  result # "running" =>
    /\ ~Z2!GoesOn
    /\ result = IF Z2!GateOpen(kept) THEN "pass" ELSE "fail"

LoopInv == Mirrored /\ Counted /\ NoneTooLate /\ JudgedAtEnd

RepetitionInv == Z2!TypeOK /\ (driver = "loop" => LoopInv)

-----------------------------------------------------------------------------
LEMMA OutcomeType ==
  ASSUME NEW o \in Z2!Outcomes
  PROVE  /\ o.ok \in BOOLEAN
         /\ o.metric \in Metrics \cup {Z2!None}
         /\ Z2!StatusOf(o) \in {"valid", "invalid"}
BY DEF Z2!Outcomes, Z2!StatusOf

(* One more lifecycle leaves the earlier ones alone and counts if it is ok. *)
LEMMA OkAppend ==
  ASSUME NEW s \in Seq(Z2!Outcomes), NEW o \in Z2!Outcomes
  PROVE  LET t == Append(s, o)
             n == Len(s)
         IN  /\ t \in Seq(Z2!Outcomes) /\ Len(t) = n + 1 /\ n \in Nat
             /\ t[n + 1] = o /\ \A k \in 1 .. n : t[k] = s[k]
             /\ \A k \in 0 .. n : OkAmong(t, k) = OkAmong(s, k)
             /\ Cardinality(OkAmong(s, n)) \in Nat
             /\ Cardinality(OkAmong(t, n + 1)) =
                  Cardinality(OkAmong(s, n)) + (IF o.ok THEN 1 ELSE 0)
<1> DEFINE t == Append(s, o)
           n == Len(s)
<1>1. t \in Seq(Z2!Outcomes) /\ Len(t) = n + 1 /\ n \in Nat
  BY AppendProperties, LenProperties
<1>2. t[n + 1] = o /\ \A k \in 1 .. n : t[k] = s[k]
  BY AppendProperties
<1> HIDE DEF t, n
<1>3. \A k \in 0 .. n : OkAmong(t, k) = OkAmong(s, k)
  BY <1>1, <1>2 DEF OkAmong
<1>4. IsFiniteSet(OkAmong(s, n)) /\ Cardinality(OkAmong(s, n)) \in Nat
  <2>1. IsFiniteSet(1 .. n)
    BY <1>1, FS_Interval
  <2>2. OkAmong(s, n) \subseteq 1 .. n
    BY DEF OkAmong
  <2>. QED  BY <2>1, <2>2, FS_Subset, FS_CardinalityType
<1>5. OkAmong(t, n + 1) = IF o.ok THEN OkAmong(s, n) \cup {n + 1}
                                  ELSE OkAmong(s, n)
  <2>1. 1 .. n + 1 = (1 .. n) \cup {n + 1}
    BY <1>1
  <2>. QED  BY <2>1, <1>1, <1>2 DEF OkAmong
<1>6. n + 1 \notin OkAmong(s, n)
  BY <1>1 DEF OkAmong
<1>7. Cardinality(OkAmong(t, n + 1)) =
        Cardinality(OkAmong(s, n)) + (IF o.ok THEN 1 ELSE 0)
  <2>1. CASE o.ok
    BY <2>1, <1>4, <1>5, <1>6, FS_AddElement
  <2>2. CASE ~o.ok
    BY <2>2, <1>4, <1>5
  <2>. QED  BY <2>1, <2>2
<1>. QED  BY <1>1, <1>2, <1>3, <1>4, <1>7 DEF t, n

(* The gate's two counts are the loop's counts.                            *)
LEMMA GateCounts ==
  ASSUME Z2!TypeOK, Mirrored, Counted
  PROVE  /\ Cardinality(Z2!WithStatus(kept, "valid")) = valid
         /\ Cardinality(Z2!WithStatus(kept, "invalid")) = attempt - valid
<1>1. /\ Len(runs) \in Nat /\ DOMAIN kept = 1 .. Len(runs)
      /\ \A k \in 1 .. Len(runs) : runs[k] \in Z2!Outcomes
  BY LenProperties, ElementOfSeq DEF Z2!TypeOK, Mirrored
<1>2. Z2!WithStatus(kept, "valid") = OkAmong(runs, Len(runs))
  BY <1>1, OutcomeType DEF Z2!WithStatus, OkAmong, Mirrored, Z2!StatusOf
<1>3. Z2!WithStatus(kept, "invalid")
        = (1 .. Len(runs)) \ OkAmong(runs, Len(runs))
  BY <1>1, OutcomeType DEF Z2!WithStatus, OkAmong, Mirrored, Z2!StatusOf
<1> DEFINE all == 1 .. Len(runs)
           ok == OkAmong(runs, Len(runs))
<1>4. IsFiniteSet(all) /\ Cardinality(all) = Len(runs)
  BY <1>1, FS_Interval
<1>5. all \cap ok = ok
  BY DEF OkAmong
<1> HIDE DEF all, ok
<1>6. Cardinality(all \ ok) = Cardinality(all) - Cardinality(all \cap ok)
  BY <1>4, FS_Difference
<1>7. Cardinality(all \ ok) = Len(runs) - Cardinality(ok)
  BY <1>4, <1>5, <1>6
<1>. QED  BY <1>2, <1>3, <1>7 DEF Counted, all, ok

-----------------------------------------------------------------------------
LEMMA RepetitionInit ==
  ASSUME Z2!Init
  PROVE  RepetitionInv
<1>1. Z2!TypeOK
  BY EmptySeq DEF Z2!Init, Z2!TypeOK
<1>2. Len(runs) = 0 /\ Len(kept) = 0 /\ Cardinality({}) = 0
  BY EmptySeq, FS_EmptySet DEF Z2!Init
<1>3. OkAmong(runs, Len(runs)) = {}
  BY <1>2 DEF OkAmong
<1>4. Mirrored /\ NoneTooLate /\ JudgedAtEnd
  BY <1>2 DEF Z2!Init, Mirrored, NoneTooLate, JudgedAtEnd
<1>5. Counted
  <2>1. valid = Cardinality(OkAmong(runs, Len(runs)))
    BY <1>2, <1>3, Zenon DEF Z2!Init
  <2>2. attempt = Len(runs) /\ valid = 0 /\ attempt = 0
    BY <1>2 DEF Z2!Init
  <2>. QED  BY <2>1, <2>2, RepetitionAssumption
      DEF Counted, Z2!MaxAttempts, Z2!LimitsAssumption
<1>. QED  BY <1>1, <1>4, <1>5 DEF RepetitionInv, LoopInv

(* One more lifecycle of the loop.                                         *)
LEMMA RunOnceKeeps ==
  ASSUME RepetitionInv, NEW o \in Z2!Outcomes, Z2!RunOnce(o)
  PROVE  RepetitionInv'
<1> DEFINE n == Len(runs)
<1>1. /\ driver = "loop" /\ driver' = "loop" /\ Z2!TypeOK /\ LoopInv
      /\ result = "running" /\ result' = "running"
      /\ valid < Required /\ attempt < Z2!MaxAttempts
  BY DEF Z2!RunOnce, RepetitionInv, Z2!GoesOn
<1>2. /\ runs' = Append(runs, o) /\ runs \in Seq(Z2!Outcomes)
      /\ kept' = Append(kept, Z2!LoopRecord(o))
      /\ kept \in Seq(Z2!Records)
      /\ attempt' = attempt + 1 /\ valid' = IF o.ok THEN valid + 1 ELSE valid
  BY <1>1 DEF Z2!RunOnce, Z2!AppendRecord, Z2!TypeOK
<1>3. /\ runs' \in Seq(Z2!Outcomes) /\ Len(runs') = n + 1 /\ n \in Nat
      /\ runs'[n + 1] = o /\ \A k \in 1 .. n : runs'[k] = runs[k]
      /\ \A k \in 0 .. n : OkAmong(runs', k) = OkAmong(runs, k)
      /\ Cardinality(OkAmong(runs, n)) \in Nat
      /\ Cardinality(OkAmong(runs', n + 1)) =
           Cardinality(OkAmong(runs, n)) + (IF o.ok THEN 1 ELSE 0)
  BY <1>2, OkAppend
<1>4. /\ Len(kept) = n /\ attempt = n /\ valid \in Nat
      /\ valid = Cardinality(OkAmong(runs, n))
      /\ \A k \in 1 .. n : /\ kept[k].attempt = k
                           /\ kept[k].status = Z2!StatusOf(runs[k])
                           /\ runs[k].ok => kept[k].value = runs[k].metric
  BY <1>1 DEF LoopInv, Mirrored, Counted, Z2!TypeOK
<1>5. Z2!LoopRecord(o) \in Z2!Records
  BY <1>1, <1>3, <1>4, OutcomeType DEF Z2!LoopRecord, Z2!Records, Z2!TypeOK
<1>6. /\ kept' \in Seq(Z2!Records) /\ Len(kept') = n + 1
      /\ kept'[n + 1] = Z2!LoopRecord(o)
      /\ \A k \in 1 .. n : kept'[k] = kept[k]
  BY <1>2, <1>4, <1>5, AppendProperties
<1>7. /\ Z2!LoopRecord(o).attempt = n + 1
      /\ Z2!LoopRecord(o).status = Z2!StatusOf(o)
      /\ o.ok => Z2!LoopRecord(o).value = o.metric
  BY <1>4 DEF Z2!LoopRecord
<1> HIDE DEF n
<1>8. Mirrored'
  <2>1. \A k \in 1 .. n + 1 : k \in 1 .. n \/ k = n + 1
    BY <1>3
  <2>. QED  BY <2>1, <1>3, <1>4, <1>6, <1>7 DEF Mirrored
<1>9. Counted'
  BY <1>1, <1>2, <1>3, <1>4, RepetitionAssumption
  DEF Counted, Z2!MaxAttempts, Z2!LimitsAssumption
<1>10. NoneTooLate'
  <2> SUFFICES ASSUME NEW k \in 1 .. n + 1
               PROVE  Cardinality(OkAmong(runs', k - 1)) < Required
    BY <1>3 DEF NoneTooLate
  <2>1. k - 1 \in 0 .. n /\ OkAmong(runs', k - 1) = OkAmong(runs, k - 1)
    BY <1>3
  <2>2. CASE k \in 1 .. n
    BY <2>1, <2>2, <1>1 DEF LoopInv, NoneTooLate, n
  <2>3. CASE k = n + 1
    BY <2>1, <2>3, <1>1, <1>3, <1>4
  <2>. QED  BY <2>2, <2>3, <1>3
<1>11. Z2!TypeOK'
  BY <1>1, <1>2, <1>3, <1>4, <1>6 DEF Z2!TypeOK, Z2!RunOnce
<1>12. JudgedAtEnd'
  BY <1>1 DEF JudgedAtEnd
<1>. QED  BY <1>8, <1>9, <1>10, <1>11, <1>12 DEF RepetitionInv, LoopInv

(* The records the command builds itself, and the steps of an operator.    *)
LEMMA DirectoryType ==
  ASSUME Z2!TypeOK
  PROVE  Z2!DirectoryRecords \in Seq(Z2!Records)
<1>1. /\ Len(dir) \in Nat /\ DOMAIN dir = 1 .. Len(dir)
      /\ \A k \in 1 .. Len(dir) : dir[k] \in Z2!Outcomes
  BY LenProperties, ElementOfSeq DEF Z2!TypeOK
<1>2. \A k \in 1 .. Len(dir) :
        [index |-> k, status |-> Z2!StatusOf(dir[k]), value |-> dir[k].metric]
          \in Z2!Records
  BY <1>1, OutcomeType DEF Z2!Records
<1>3. Z2!DirectoryRecords \in [1 .. Len(dir) -> Z2!Records]
  BY <1>1, <1>2 DEF Z2!DirectoryRecords
<1>. QED  BY <1>1, <1>3, IsASeq

LEMMA RepetitionStep ==
  ASSUME RepetitionInv, [Z2!Next]_(Z2!vars)
  PROVE  RepetitionInv'
<1> USE DEF RepetitionInv
<1>1. ASSUME NEW o \in Z2!Outcomes, Z2!RunOnce(o) PROVE RepetitionInv'
  BY <1>1, RunOnceKeeps
<1>2. ASSUME NEW o \in Z2!Outcomes, Z2!OperatorRuns(o) PROVE RepetitionInv'
  <2>1. runs' \in Seq(Z2!Outcomes) /\ dir' \in Seq(Z2!Outcomes)
    BY <1>2, AppendProperties DEF Z2!OperatorRuns, Z2!TypeOK
  <2>. QED  BY <1>2, <2>1 DEF Z2!OperatorRuns, Z2!TypeOK
<1>3. CASE Z2!JudgeLoop
  BY <1>3 DEF Z2!JudgeLoop, Z2!TypeOK, LoopInv, Mirrored, Counted, NoneTooLate,
              JudgedAtEnd, Z2!GoesOn
<1>4. CASE Z2!Z2Command
  BY <1>4, DirectoryType DEF Z2!Z2Command, Z2!TypeOK
<1>5. CASE Z2!Judged \/ UNCHANGED Z2!vars
  <2>1. UNCHANGED Z2!vars
    BY <1>5 DEF Z2!Judged
  <2>. QED  BY <2>1 DEF Z2!vars, Z2!TypeOK, LoopInv, Mirrored, Counted,
                        NoneTooLate, JudgedAtEnd, Z2!GoesOn
<1>. QED  BY <1>1, <1>2, <1>3, <1>4, <1>5 DEF Z2!Next

LEMMA RepetitionInvariance == RepetitionSpec => []RepetitionInv
<1>1. Z2!Init => RepetitionInv
  BY RepetitionInit
<1>2. RepetitionInv /\ [Z2!Next]_(Z2!vars) => RepetitionInv'
  BY RepetitionStep
<1>. QED  BY <1>1, <1>2, PTL DEF RepetitionSpec, Z2!Spec

-----------------------------------------------------------------------------
(* Type correctness.                                                       *)
THEOREM LifecyclesTyped == RepetitionSpec => []RepetitionTypeOK
<1>1. RepetitionInv => RepetitionTypeOK
  BY DEF RepetitionInv, RepetitionTypeOK
<1>. QED  BY <1>1, RepetitionInvariance, PTL

(* No lifecycle and no repetition is lost from the records of the loop.    *)
THEOREM RunsAreKept == RepetitionSpec => []EveryRunKept
<1>1. RepetitionInv => EveryRunKept
  BY LenProperties
  DEF RepetitionInv, Z2!TypeOK, LoopInv, Mirrored, EveryRunKept,
      Z2!EveryRunKept
<1>. QED  BY <1>1, RepetitionInvariance, PTL

(* The budget of lifecycles and of repetitions is kept.                    *)
THEOREM BudgetIsRespected == RepetitionSpec => []BudgetRespected
<1>1. RepetitionInv => BudgetRespected
  BY LenProperties, SizesAgree
  DEF RepetitionInv, Z2!TypeOK, LoopInv, Counted, NoneTooLate,
      OkAmong, BudgetRespected, Z2!BudgetRespected, Z2!MaxAttempts
<1>. QED  BY <1>1, RepetitionInvariance, PTL

(* The gate's rule on repetitions never refuses a loop that succeeded: the *)
(* loop's budget and the gate's rule agree for every pair of limits.       *)
THEOREM LoopAndGateAgree == RepetitionSpec => []RetryRuleNeverDecides
<1>1. RepetitionInv => RetryRuleNeverDecides
  <2> SUFFICES ASSUME RepetitionInv, driver = "loop", result # "running"
               PROVE  result = "pass" <=>
                        /\ valid = Required
                        /\ \E k \in DOMAIN kept : Z2!Valued(kept[k])
    BY DEF RetryRuleNeverDecides, Z2!RetryRuleNeverDecides
  <2>1. Z2!TypeOK /\ Mirrored /\ Counted /\ JudgedAtEnd
    BY DEF RepetitionInv, LoopInv
  <2>2. /\ Cardinality(Z2!WithStatus(kept, "valid")) = valid
        /\ Cardinality(Z2!WithStatus(kept, "invalid")) = attempt - valid
    BY <2>1, GateCounts
  <2>3. Z2!GateOpen(kept) <=>
          /\ valid = Required
          /\ \E k \in DOMAIN kept : Z2!Valued(kept[k])
    BY <2>1, <2>2, SizesAgree, RepetitionAssumption
    DEF Z2!GateOpen, Counted, Z2!TypeOK, Z2!MaxAttempts, Z2!LimitsAssumption
  <2>4. result = "pass" <=> Z2!GateOpen(kept)
    BY <2>1 DEF JudgedAtEnd
  <2>. QED  BY <2>3, <2>4
<1>. QED  BY <1>1, RepetitionInvariance, PTL
=============================================================================
