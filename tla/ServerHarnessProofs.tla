------------------------- MODULE ServerHarnessProofs -------------------------
(* What acceptance.sh leaves behind, measures and stops, for every list of *)
(* commands.                                                               *)
EXTENDS ServerHarness, TLAPS

Before == {"gate", "launch", "record"}

(* The invocations begin one after the other.                              *)
InOrder ==
  \A k, s \in Invocations : k < s /\ pc[s] # "idle" =>
    \/ pc[k] = "ended"
    \/ k = s - 1 /\ s \in Overlapping /\ pc[k] # "idle"

Launched(p) == pc[p] \notin {"idle", "gate", "launch"}

(* Each command goes through its own stages, and only `run` cleans up.     *)
Staged ==
  /\ \A s \in Invocations :
       /\ pc[s] \in Before \cup {"health"} => Commands[s] # "stop"
       /\ pc[s] = "client" => Commands[s] = "run"
       /\ pc[s] \in {"stop_check", "stop_read", "stop_wait", "stop_rm"} =>
            Commands[s] # "server"
       /\ pc[s] \in Before \cup {"idle", "health", "client"} => s \notin cleaning
       /\ proc[s] # "none" => Launched(s) /\ Commands[s] # "stop"
       /\ pc[s] = "record" => proc[s] # "none"

(* The server launched last has its pid in the pidfile as long as it lives *)
(* - from where `stop` takes it - or is about to write it there.           *)
Owned ==
  /\ \A p \in Invocations :
       Alive(p) /\ Latest(p) /\ pc[p] # "record" => pidfile = p
  /\ pidfile # Absent => Launched(pidfile) /\ pc[pidfile] # "record"

(* While somebody stops a server, nobody launches one.                     *)
Stopping ==
  \A s \in Invocations :
    /\ pc[s] \in {"stop_read", "stop_wait", "stop_rm"} =>
         \A k \in Invocations : pc[k] \notin Before
    /\ pc[s] \in {"stop_wait", "stop_rm"} =>
         /\ target[s] # Absent
         /\ \A p \in Invocations : Alive(p) /\ Latest(p) => target[s] = p
    /\ pc[s] = "stop_rm" => ~Alive(target[s])

(* Between a server and a `stop` that it survived another was launched.    *)
Stopped ==
  \A p, s \in Invocations :
    p < s /\ Commands[s] = "stop" /\ pc[p] = "ended" /\ pc[s] = "ended" /\ Alive(p) =>
      \E r \in Invocations : p < r /\ r < s /\ proc[r] # "none"

IInv == /\ TypeOK
        /\ InOrder
        /\ Staged
        /\ Owned
        /\ Stopping
        /\ Stopped
        /\ NoResidue
        /\ MeasuredServers

-----------------------------------------------------------------------------
LEMMA InvocationsAreNumbers ==
  /\ \A s \in Invocations : s \in Nat /\ s > 0
  /\ Absent \notin Invocations
  /\ \A s \in Invocations : Commands[s] \in {"run", "server", "stop"}
  /\ \A s \in Invocations : s > 1 => s - 1 \in Invocations
  /\ \A k, s \in Invocations : k < s => k + 1 \in Invocations
<1>1. PICK n \in Nat : Invocations = 1 .. n
  BY CommandsAssumption DEF Invocations
<1>2. \A s \in Invocations : Commands[s] \in {"run", "server", "stop"}
  BY CommandsAssumption, <1>1 DEF Invocations
<1>. QED  BY <1>1, <1>2 DEF Absent

(* An invocation that goes from one stage to another.                      *)
LEMMA Moved ==
  ASSUME TypeOK, NEW s \in Invocations, NEW x \in Stages,
         pc' = [pc EXCEPT ![s] = x]
  PROVE  /\ pc' \in [Invocations -> Stages]
         /\ pc'[s] = x
         /\ \A k \in Invocations : k # s => pc'[k] = pc[k]
BY DEF TypeOK

LEMMA OrderKept ==
  ASSUME TypeOK, InOrder, NEW s \in Invocations, NEW x \in Stages,
         pc' = [pc EXCEPT ![s] = x], pc[s] \notin {"idle", "ended"}, x # "idle"
  PROVE  InOrder'
<1> USE Moved DEF InOrder
<1> SUFFICES ASSUME NEW j \in Invocations, NEW k \in Invocations,
                    j < k, pc'[k] # "idle"
             PROVE  pc'[j] = "ended" \/ (j = k - 1 /\ k \in Overlapping /\ pc'[j] # "idle")
  OBVIOUS
<1>1. pc[k] # "idle"
  OBVIOUS
<1>2. pc[j] = "ended" \/ (j = k - 1 /\ k \in Overlapping /\ pc[j] # "idle")
  BY <1>1
<1>. QED  BY <1>2

LEMMA InitIInv == Init => IInv
BY InvocationsAreNumbers DEF Init, IInv, TypeOK, InOrder, Staged, Owned, Stopping,
   Stopped, NoResidue, MeasuredServers, Alive, Stages, Before, Launched, Absent

(* A launch under way is preceded by commands that have ended and followed *)
(* by none that launches.                                                  *)
LEMMA LaunchesAreApart ==
  ASSUME Disciplined, IInv, NEW s \in Invocations, Commands[s] # "stop",
         pc[s] # "idle"
  PROVE  /\ \A k \in Invocations : k < s => pc[k] = "ended"
         /\ pc[s] # "ended" => \A k \in Invocations : k > s => proc[k] = "none"
<1>1. ASSUME NEW k \in Invocations, k < s
      PROVE  pc[k] = "ended"
  BY <1>1, InvocationsAreNumbers DEF Disciplined, IInv, InOrder
<1>2. ASSUME NEW k \in Invocations, k > s, pc[s] # "ended"
      PROVE  proc[k] = "none"
  <2>1. CASE pc[k] = "idle"
    BY <2>1 DEF IInv, Staged, Launched
  <2>2. CASE pc[k] # "idle"
    <3>1. Commands[k] = "stop"
      BY <1>2, <2>2, InvocationsAreNumbers DEF Disciplined, IInv, InOrder
    <3>. QED  BY <3>1 DEF IInv, Staged
  <2>. QED  BY <2>1, <2>2
<1>. QED  BY <1>1, <1>2

LEMMA OneIsUnderWay ==
  ASSUME Disciplined, IInv, NEW j \in Invocations, NEW k \in Invocations,
         Commands[j] # "stop", Commands[k] # "stop",
         pc[j] \notin {"idle", "ended"}, pc[k] \notin {"idle", "ended"}
  PROVE  j = k
BY InvocationsAreNumbers, LaunchesAreApart

(* While a second shell may interfere, who launches a server is the only   *)
(* one to have one.                                                        *)
LEMMA NobodyElseLives ==
  ASSUME Disciplined, IInv, NEW s \in Invocations, Commands[s] # "stop", Early(s),
         pc[s] \notin {"idle", "ended"},
         NEW p \in Invocations, p # s
  PROVE  ~Alive(p)
<1>1. CASE p > s
  BY <1>1, LaunchesAreApart DEF Alive
<1>2. CASE p < s /\ Commands[p] = "run"
  BY <1>2, LaunchesAreApart, InvocationsAreNumbers DEF IInv, NoResidue
<1>3. CASE p < s /\ Commands[p] = "server"
  <2>1. p + 1 \in Invocations /\ Commands[p + 1] = "stop" /\ p + 1 < s
    BY <1>3, InvocationsAreNumbers, CommandsAssumption DEF Disciplined, Early
  <2>2. pc[p] = "ended" /\ pc[p + 1] = "ended"
    BY <1>3, <2>1, LaunchesAreApart
  <2>3. \A r \in Invocations : ~(p < r /\ r < p + 1)
    BY InvocationsAreNumbers
  <2>. QED  BY <2>1, <2>2, <2>3, InvocationsAreNumbers DEF IInv, Stopped
<1>4. CASE Commands[p] = "stop"
  BY <1>4 DEF IInv, Staged, Alive
<1>. QED  BY <1>1, <1>2, <1>3, <1>4, InvocationsAreNumbers

(* A `stop` that finds a server behind the pidfile meets no launch.        *)
LEMMA NobodyLaunches ==
  ASSUME Disciplined, IInv, NEW s \in Invocations, pc[s] = "stop_check",
         pidfile # Absent, Alive(pidfile), NEW k \in Invocations
  PROVE  pc[k] \notin Before
<1> SUFFICES ASSUME pc[k] \in Before
             PROVE  FALSE
  OBVIOUS
<1>1. pidfile \in Invocations /\ pidfile # k
  BY DEF IInv, TypeOK, Owned, Launched, Before
<1>2. Commands[k] # "stop" /\ pc[k] \notin {"idle", "ended"} /\ s # k
  BY DEF IInv, Staged, Before
<1>3. Commands[s] = "stop" /\ k < s
  <2>1. Commands[s] = "stop"
    BY <1>2, OneIsUnderWay
  <2>2. ~(s < k)
    BY <1>2, LaunchesAreApart
  <2>. QED  BY <1>2, <2>1, <2>2, InvocationsAreNumbers
<1>4. s \in Overlapping
  BY <1>2, <1>3 DEF IInv, InOrder
<1>. QED  BY <1>1, <1>2, <1>3, <1>4, NobodyElseLives DEF Early

(* The server launched last lives behind the pidfile, or its pid is not    *)
(* recorded yet.                                                           *)
LEMMA NothingBehindPidfile ==
  ASSUME IInv, pidfile = Absent \/ ~Alive(pidfile)
  PROVE  \A p \in Invocations : Alive(p) /\ Latest(p) => pc[p] = "record"
BY InvocationsAreNumbers DEF IInv, Owned

(* No server comes to life, and who ends leaves at most earlier ones.      *)
LEMMA ResidueKept ==
  ASSUME Disciplined, IInv, NEW s \in Invocations, NEW x \in Stages,
         pc' = [pc EXCEPT ![s] = x], pc[s] \notin {"idle", "ended", "record"},
         \A p \in Invocations : /\ Alive(p)' => Alive(p)
                                /\ proc[p] = "none" <=> proc'[p] = "none",
         x = "ended" /\ Commands[s] # "server" =>
           \A p \in Invocations : Alive(p)' /\ Latest(p)' => pc[p] = "record"
  PROVE  NoResidue'
<1> SUFFICES ASSUME NEW q \in Invocations, Commands[q] = "run", pc'[q] = "ended"
             PROVE  ~Alive(q)'
  BY DEF NoResidue
<1>1. CASE q # s
  BY <1>1, Moved DEF IInv, NoResidue
<1>2. CASE q = s
  <2>1. \A k \in Invocations : k > s => proc'[k] = "none"
    BY <1>2, LaunchesAreApart
  <2>2. Alive(s)' => Latest(s)'
    BY <2>1 DEF Alive, Latest
  <2>. QED  BY <1>2, <2>2, Moved DEF IInv
<1>. QED  BY <1>1, <1>2

LEMMA StoppedKept ==
  ASSUME Disciplined, IInv, NEW s \in Invocations, NEW x \in Stages,
         pc' = [pc EXCEPT ![s] = x], pc[s] \notin {"idle", "ended"},
         \A p \in Invocations : /\ Alive(p)' => Alive(p)
                                /\ proc[p] = "none" <=> proc'[p] = "none",
         NoResidue',
         Commands[s] = "stop" /\ x = "ended" =>
           \A p \in Invocations : Alive(p)' /\ Latest(p)' => pc[p] = "record"
  PROVE  Stopped'
<1> SUFFICES ASSUME NEW p \in Invocations, NEW q \in Invocations, p < q,
                    Commands[q] = "stop", pc'[p] = "ended", pc'[q] = "ended",
                    Alive(p)'
             PROVE  \E r \in Invocations : p < r /\ r < q /\ proc'[r] # "none"
  BY DEF Stopped
<1>1. TypeOK /\ InOrder /\ Staged /\ Stopped
  BY DEF IInv
<1>2. CASE p # s /\ q # s
  <2>1. PICK r \in Invocations : p < r /\ r < q /\ proc[r] # "none"
    BY <1>1, <1>2, Moved DEF Stopped
  <2>. QED  BY <2>1
<1>3. CASE q = s
  <2>1. pc[p] = "ended"
    BY <1>1, <1>3, Moved, InvocationsAreNumbers
  <2>2. ~Latest(p)'
    BY <1>1, <1>3, <2>1, Moved
  <2>3. proc'[p] # "none"
    BY DEF Alive
  <2>4. PICK r \in Invocations : r > p /\ proc'[r] # "none"
    BY <2>2, <2>3 DEF Latest
  <2>5. Commands[r] # "stop" /\ pc[r] # "idle"
    BY <1>1, <2>4 DEF Staged, Launched
  <2>6. ~(s < r)
    BY <1>3, <2>5, LaunchesAreApart
  <2>. QED  BY <1>3, <2>4, <2>5, <2>6, InvocationsAreNumbers
<1>4. CASE p = s
  <2>1. pc[q] = "ended"
    BY <1>1, <1>4, Moved, InvocationsAreNumbers
  <2>2. p = q - 1 /\ q \in Overlapping
    BY <1>1, <1>4, <2>1 DEF InOrder
  <2>3. Commands[p] # "server"
    BY <2>2, InvocationsAreNumbers DEF Disciplined, Early
  <2>4. CASE Commands[p] = "stop"
    <3>1. proc[p] = "none"
      BY <1>1, <2>4 DEF Staged
    <3>. QED  BY <3>1 DEF Alive
  <2>5. CASE Commands[p] = "run"
    BY <2>5 DEF NoResidue
  <2>. QED  BY <2>3, <2>4, <2>5, InvocationsAreNumbers
<1>. QED  BY <1>2, <1>3, <1>4

(* A step of a shell that touches no server and no file.                   *)
LEMMA Advance ==
  ASSUME Disciplined, IInv, NEW s \in Invocations, NEW x \in Stages,
         pc' = [pc EXCEPT ![s] = x],
         pc[s] \notin {"idle", "record", "ended"}, x \notin {"idle", "gate", "record"},
         UNCHANGED <<proc, pidfile, target, measured>>,
         status' \in [Invocations -> {"none", "ok", "failed"}],
         cleaning' \subseteq Invocations,
         x = "launch" => pc[s] = "gate",
         x \in {"health", "client"} => pc[s] \in {"health", "client"},
         x # "stop_wait",
         x = "stop_rm" => pc[s] = "stop_wait" /\ ~Alive(target[s]),
         x = "stop_read" => pc[s] = x \/ (\A k \in Invocations : pc[k] \notin Before),
         x = "ended" /\ Commands[s] # "server" =>
           \A p \in Invocations : Alive(p) /\ Latest(p) => pc[p] = "record",
         Staged'
  PROVE  IInv'
<1> USE InvocationsAreNumbers
<1>a. /\ pc' \in [Invocations -> Stages] /\ pc'[s] = x
      /\ \A k \in Invocations : k # s => pc'[k] = pc[k]
  BY Moved DEF IInv
<1>b. \A p \in Invocations : (Alive(p)' <=> Alive(p)) /\ (Latest(p)' <=> Latest(p))
  BY DEF Alive, Latest
<1>1. TypeOK'
  BY <1>a DEF IInv, TypeOK
<1>2. InOrder'
  BY OrderKept DEF IInv
<1>3. Owned'
  <2>1. \A p \in Invocations :
          Alive(p)' /\ Latest(p)' /\ pc'[p] # "record" => pidfile' = p
    BY <1>a, <1>b DEF IInv, Owned
  <2>2. pidfile' # Absent => Launched(pidfile)' /\ pc'[pidfile'] # "record"
    BY <1>a DEF IInv, TypeOK, Owned, Launched
  <2>. QED  BY <2>1, <2>2 DEF Owned
<1>4. Stopping'
  <2> SUFFICES ASSUME NEW k \in Invocations
               PROVE  /\ pc'[k] \in {"stop_read", "stop_wait", "stop_rm"} =>
                           \A j \in Invocations : pc'[j] \notin Before
                      /\ pc'[k] \in {"stop_wait", "stop_rm"} =>
                           /\ target[k] # Absent
                           /\ \A p \in Invocations :
                                Alive(p) /\ Latest(p) => target[k] = p
                      /\ pc'[k] = "stop_rm" => ~Alive(target[k])
    BY <1>b DEF Stopping, Alive
  <2>1. Stopping
    BY DEF IInv
  <2>2. \A j \in Invocations : pc'[j] \in Before => pc[j] \in Before
    BY <1>a DEF Before
  <2>3. CASE k # s
    BY <1>a, <2>1, <2>2, <2>3 DEF Stopping
  <2>4. CASE k = s
    BY <1>a, <2>1, <2>2, <2>4 DEF Stopping
  <2>. QED  BY <2>3, <2>4
<1>5. NoResidue'
  BY <1>b, ResidueKept
<1>6. Stopped'
  BY <1>b, <1>5, StoppedKept
<1>7. MeasuredServers'
  BY DEF IInv, MeasuredServers
<1>. QED  BY <1>1, <1>2, <1>3, <1>4, <1>5, <1>6, <1>7 DEF IInv

LEMMA ExitAdvances ==
  ASSUME Disciplined, IInv, NEW s \in Invocations, Exit(s),
         UNCHANGED <<proc, pidfile, target, measured>>,
         pc[s] \notin {"idle", "record", "ended"},
         Commands[s] = "stop" \/ s \in cleaning =>
           \A p \in Invocations : Alive(p) /\ Latest(p) => pc[p] = "record"
  PROVE  IInv'
<1> USE InvocationsAreNumbers
<1> DEFINE x == IF Commands[s] = "run" /\ s \notin cleaning
                THEN "stop_check" ELSE "ended"
<1>1. /\ x \in Stages /\ pc' = [pc EXCEPT ![s] = x]
      /\ cleaning' = IF x = "ended" THEN cleaning ELSE cleaning \cup {s}
      /\ status' = [status EXCEPT ![s] = "failed"]
  BY DEF Exit, GoTo, Stages
<1>2. /\ pc' \in [Invocations -> Stages] /\ pc'[s] = x
      /\ \A k \in Invocations : k # s => pc'[k] = pc[k]
  BY <1>1, Moved DEF IInv
<1>3. Staged'
  BY <1>1, <1>2 DEF IInv, Staged, Launched, Before
<1>4. /\ status' \in [Invocations -> {"none", "ok", "failed"}]
      /\ cleaning' \subseteq Invocations
  BY <1>1 DEF IInv, TypeOK
<1>. QED  BY <1>1, <1>3, <1>4, Advance

LEMMA EndAdvances ==
  ASSUME Disciplined, IInv, NEW s \in Invocations, End(s),
         UNCHANGED <<proc, pidfile, target, measured>>,
         pc[s] \notin {"idle", "record", "ended"},
         Commands[s] # "server" =>
           \A p \in Invocations : Alive(p) /\ Latest(p) => pc[p] = "record"
  PROVE  IInv'
<1>1. /\ "ended" \in Stages /\ pc' = [pc EXCEPT ![s] = "ended"]
      /\ UNCHANGED cleaning
  BY DEF End, GoTo, Stages
<1>2. /\ pc' \in [Invocations -> Stages] /\ pc'[s] = "ended"
      /\ \A k \in Invocations : k # s => pc'[k] = pc[k]
  BY <1>1, Moved DEF IInv
<1>3. Staged'
  BY <1>1, <1>2 DEF IInv, Staged, Launched, Before
<1>4. /\ status' \in [Invocations -> {"none", "ok", "failed"}]
      /\ cleaning' \subseteq Invocations
  BY <1>1 DEF End, IInv, TypeOK
<1>. QED  BY <1>1, <1>3, <1>4, Advance

LEMMA GoesOn ==
  ASSUME Disciplined, IInv, NEW s \in Invocations, NEW x \in Stages,
         GoTo(s, x), UNCHANGED <<cleaning, status, proc, pidfile, target, measured>>,
         <<pc[s], x>> \in {<<"gate", "launch">>, <<"health", "client">>,
                           <<"client", "stop_check">>, <<"stop_check", "stop_read">>,
                           <<"stop_wait", "stop_rm">>},
         x = "client" => Commands[s] = "run",
         x = "stop_read" => \A k \in Invocations : pc[k] \notin Before,
         x = "stop_rm" => ~Alive(target[s])
  PROVE  IInv'
<1>1. pc' = [pc EXCEPT ![s] = x] /\ x \notin {"idle", "gate", "record", "ended"}
  BY DEF GoTo
<1>2. /\ pc' \in [Invocations -> Stages] /\ pc'[s] = x
      /\ \A k \in Invocations : k # s => pc'[k] = pc[k]
  BY <1>1, Moved DEF IInv
<1>3. Staged'
  BY <1>1, <1>2 DEF IInv, Staged, Launched, Before
<1>4. /\ status' \in [Invocations -> {"none", "ok", "failed"}]
      /\ cleaning' \subseteq Invocations
  BY DEF IInv, TypeOK
<1>. QED  BY <1>1, <1>3, <1>4, Advance

-----------------------------------------------------------------------------
LEMMA BeginStep ==
  ASSUME Disciplined, IInv, NEW s \in Invocations, Begin(s)
  PROVE  IInv'
<1> USE InvocationsAreNumbers
<1> DEFINE x == IF Commands[s] = "stop" THEN "stop_check" ELSE "gate"
<1>1. /\ x \in Stages /\ pc[s] = "idle" /\ pc' = [pc EXCEPT ![s] = x]
      /\ UNCHANGED <<cleaning, status, proc, pidfile, target, measured>>
  BY DEF Begin, GoTo, Stages
<1>2. /\ pc' \in [Invocations -> Stages] /\ pc'[s] = x
      /\ \A k \in Invocations : k # s => pc'[k] = pc[k]
  BY <1>1, Moved DEF IInv
<1>3. \A k \in Invocations : k > s => pc[k] = "idle"
  BY <1>1 DEF IInv, InOrder
<1>4. Commands[s] # "stop" => \A k \in 1 .. s - 1 : pc[k] = "ended"
  BY DEF Begin, Disciplined
<1>b. \A p \in Invocations : (Alive(p)' <=> Alive(p)) /\ (Latest(p)' <=> Latest(p))
  BY <1>1 DEF Alive, Latest
<1>6. TypeOK'
  BY <1>1, <1>2 DEF IInv, TypeOK
<1>7. InOrder'
  <2> SUFFICES ASSUME NEW j \in Invocations, NEW k \in Invocations,
                      j < k, pc'[k] # "idle"
               PROVE  \/ pc'[j] = "ended"
                      \/ j = k - 1 /\ k \in Overlapping /\ pc'[j] # "idle"
    BY DEF InOrder
  <2>1. CASE k = s
    <3>1. j \in 1 .. s - 1 /\ j # s
      BY <2>1
    <3>. QED  BY <1>2, <2>1, <3>1 DEF Begin
  <2>2. CASE k # s /\ j # s
    BY <1>2, <2>2 DEF IInv, InOrder
  <2>3. CASE k # s /\ j = s
    BY <1>2, <1>3, <2>3
  <2>. QED  BY <2>1, <2>2, <2>3
<1>8. Staged'
  BY <1>1, <1>2 DEF IInv, Staged, Launched, Before
<1>9. Owned'
  <2>1. \A p \in Invocations :
          Alive(p)' /\ Latest(p)' /\ pc'[p] # "record" => pidfile' = p
    <3>1. proc[s] = "none"
      BY <1>1 DEF IInv, Staged, Launched
    <3>. QED  BY <1>1, <1>2, <1>b, <3>1 DEF IInv, Owned, Latest
  <2>2. pidfile' # Absent => Launched(pidfile)' /\ pc'[pidfile'] # "record"
    BY <1>1, <1>2 DEF IInv, TypeOK, Owned, Launched
  <2>. QED  BY <2>1, <2>2 DEF Owned
<1>10. Stopping'
  <2> SUFFICES ASSUME NEW k \in Invocations,
                      pc'[k] \in {"stop_read", "stop_wait", "stop_rm"}
               PROVE  /\ \A j \in Invocations : pc'[j] \notin Before
                      /\ pc[k] = pc'[k]
    BY <1>1, <1>b DEF IInv, Stopping, Alive
  <2>1. k # s /\ pc[k] = pc'[k]
    BY <1>2
  <2>2. Commands[s] = "stop"
    BY <1>3, <1>4, <2>1
  <2>. QED  BY <1>2, <2>1, <2>2 DEF IInv, Stopping, Before
<1>11. Stopped' /\ NoResidue' /\ MeasuredServers'
  BY <1>1, <1>2, <1>b DEF IInv, Stopped, NoResidue, MeasuredServers
<1>. QED  BY <1>6, <1>7, <1>8, <1>9, <1>10, <1>11 DEF IInv

LEMMA LaunchStep ==
  ASSUME Disciplined, IInv, NEW s \in Invocations, Launch(s)
  PROVE  IInv'
<1> USE InvocationsAreNumbers
<1>1. /\ pc[s] = "launch" /\ pc' = [pc EXCEPT ![s] = "record"]
      /\ proc' = [proc EXCEPT ![s] = "starting"] /\ "record" \in Stages
      /\ UNCHANGED <<cleaning, status, pidfile, target, measured>>
  BY DEF Launch, GoTo, Stages
<1>2. /\ pc' \in [Invocations -> Stages] /\ pc'[s] = "record"
      /\ \A k \in Invocations : k # s => pc'[k] = pc[k]
  BY <1>1, Moved DEF IInv
<1>3. \A k \in Invocations : pc[k] \notin {"stop_read", "stop_wait", "stop_rm"}
  BY <1>1 DEF IInv, Stopping, Before
<1>4. /\ proc'[s] = "starting" /\ proc[s] = "none"
      /\ \A p \in Invocations : p # s => proc'[p] = proc[p] /\ (Alive(p)' <=> Alive(p))
  BY <1>1 DEF IInv, TypeOK, Staged, Launched, Alive
<1>a. /\ Commands[s] # "stop"
      /\ \A k \in Invocations : k < s => pc[k] = "ended"
      /\ \A k \in Invocations : k > s => proc[k] = "none"
  BY <1>1, LaunchesAreApart DEF IInv, Staged, Before
<1>b. \A p \in Invocations : Alive(p)' /\ Latest(p)' => p = s
  BY <1>4, <1>a DEF Alive, Latest
<1>5. TypeOK'
  BY <1>1, <1>2 DEF IInv, TypeOK
<1>6. InOrder'
  BY <1>1, OrderKept DEF IInv
<1>7. Staged'
  BY <1>1, <1>2, <1>4 DEF IInv, Staged, Launched, Before
<1>8. Owned'
  <2>1. \A p \in Invocations :
          Alive(p)' /\ Latest(p)' /\ pc'[p] # "record" => pidfile' = p
    BY <1>2, <1>b
  <2>2. pidfile' # Absent => Launched(pidfile)' /\ pc'[pidfile'] # "record"
    BY <1>1, <1>2 DEF IInv, TypeOK, Owned, Launched
  <2>. QED  BY <2>1, <2>2 DEF Owned
<1>9. Stopping'
  BY <1>2, <1>3 DEF Stopping
<1>10. Stopped' /\ MeasuredServers'
  <2>1. \A p, q \in Invocations :
          (\E r \in Invocations : p < r /\ r < q /\ proc[r] # "none") =>
            \E r \in Invocations : p < r /\ r < q /\ proc'[r] # "none"
    BY <1>4
  <2>2. Stopped'
    BY <1>2, <1>4, <2>1 DEF IInv, Stopped
  <2>3. MeasuredServers'
    BY <1>1, <2>1 DEF IInv, TypeOK, MeasuredServers
  <2>. QED  BY <2>2, <2>3
<1>11. NoResidue'
  BY <1>1, <1>2, <1>4 DEF IInv, NoResidue
<1>. QED  BY <1>5, <1>6, <1>7, <1>8, <1>9, <1>10, <1>11 DEF IInv

LEMMA RecordPidStep ==
  ASSUME Disciplined, IInv, NEW s \in Invocations, RecordPid(s)
  PROVE  IInv'
<1> USE InvocationsAreNumbers
<1>1. /\ pc[s] = "record" /\ pc' = [pc EXCEPT ![s] = "health"]
      /\ pidfile' = s /\ "health" \in Stages
      /\ UNCHANGED <<cleaning, status, proc, target, measured>>
  BY DEF RecordPid, GoTo, Stages
<1>2. /\ pc' \in [Invocations -> Stages] /\ pc'[s] = "health"
      /\ \A k \in Invocations : k # s => pc'[k] = pc[k]
  BY <1>1, Moved DEF IInv
<1>3. \A p \in Invocations : /\ Alive(p)' <=> Alive(p)
                             /\ Latest(p)' => p = s
  <2>1. /\ proc[s] # "none"
        /\ \A k \in Invocations : k > s => proc[k] = "none"
    BY <1>1, LaunchesAreApart DEF IInv, Staged, Before
  <2>. QED  BY <1>1, <2>1 DEF Alive, Latest
<1>4. TypeOK'
  BY <1>1, <1>2 DEF IInv, TypeOK
<1>5. InOrder'
  BY <1>1, OrderKept DEF IInv
<1>6. Staged'
  BY <1>1, <1>2 DEF IInv, Staged, Launched, Before
<1>7. Owned'
  BY <1>1, <1>2, <1>3 DEF IInv, Owned, Launched, Before
<1>8. Stopping'
  BY <1>1, <1>2 DEF IInv, Stopping, Before
<1>9. Stopped' /\ NoResidue' /\ MeasuredServers'
  BY <1>1, <1>2, <1>3 DEF IInv, Stopped, NoResidue, MeasuredServers
<1>. QED  BY <1>4, <1>5, <1>6, <1>7, <1>8, <1>9 DEF IInv

LEMMA ClientRequestStep ==
  ASSUME Disciplined, IInv, NEW s \in Invocations, ClientRequest(s)
  PROVE  IInv'
<1>1. /\ pc[s] = "client" /\ measured' = [measured EXCEPT ![s] = @ \cup Serving]
      /\ UNCHANGED <<pc, cleaning, status, proc, pidfile, target>>
  BY DEF ClientRequest
<1>2. ASSUME NEW p \in Serving \ {s}
      PROVE  /\ Commands[p] = "server" /\ p < s
             /\ \A q \in Invocations :
                  p < q /\ q < s /\ Commands[q] = "stop" =>
                    \E r \in Invocations : p < r /\ r < q /\ proc[r] # "none"
  <2>1. p \in Invocations /\ Alive(p) /\ proc[p] # "none"
    BY DEF Serving, Alive
  <2>2. /\ \A k \in Invocations : k < s => pc[k] = "ended"
        /\ \A k \in Invocations : k > s => proc[k] = "none"
    BY <1>1, LaunchesAreApart DEF IInv, Staged
  <2>3. p < s
    BY <2>1, <2>2, InvocationsAreNumbers
  <2>4. Commands[p] = "server"
    BY <2>1, <2>2, <2>3, InvocationsAreNumbers DEF IInv, Staged, NoResidue
  <2>. QED  BY <2>1, <2>2, <2>3, <2>4 DEF IInv, Stopped
<1>3. MeasuredServers'
  BY <1>1, <1>2 DEF IInv, TypeOK, MeasuredServers
<1>4. TypeOK'
  BY <1>1 DEF IInv, TypeOK, Serving
<1>5. /\ InOrder' /\ Staged' /\ Owned' /\ Stopping' /\ Stopped' /\ NoResidue'
  BY <1>1 DEF IInv, InOrder, Staged, Owned, Stopping, Stopped, NoResidue, Alive,
     Latest, Launched
<1>. QED  BY <1>3, <1>4, <1>5 DEF IInv

LEMMA ReadPidAndTermStep ==
  ASSUME Disciplined, IInv, NEW s \in Invocations, ReadPidAndTerm(s)
  PROVE  IInv'
<1> USE InvocationsAreNumbers
<1>1. CASE pidfile = Absent
  BY <1>1, NothingBehindPidfile, ExitAdvances DEF ReadPidAndTerm
<1>2. CASE pidfile # Absent
  <2>1. /\ pc[s] = "stop_read" /\ pc' = [pc EXCEPT ![s] = "stop_wait"]
        /\ target' = [target EXCEPT ![s] = pidfile] /\ "stop_wait" \in Stages
        /\ UNCHANGED <<cleaning, status, proc, pidfile, measured>>
    BY <1>2 DEF ReadPidAndTerm, GoTo, Stages
  <2>2. /\ pc' \in [Invocations -> Stages] /\ pc'[s] = "stop_wait"
        /\ \A k \in Invocations : k # s => pc'[k] = pc[k]
    BY <2>1, Moved DEF IInv
  <2>3. /\ target'[s] = pidfile
        /\ \A k \in Invocations : k # s => target'[k] = target[k]
    BY <2>1 DEF IInv, TypeOK
  <2>4. \A k \in Invocations : pc[k] \notin Before
    BY <2>1 DEF IInv, Stopping
  <2>5. TypeOK'
    BY <2>1, <2>2 DEF IInv, TypeOK
  <2>6. InOrder'
    BY <2>1, OrderKept DEF IInv
  <2>7. Staged'
    BY <2>1, <2>2 DEF IInv, Staged, Launched, Before
  <2>8. Owned'
    BY <2>1, <2>2 DEF IInv, TypeOK, Owned, Alive, Latest, Launched, Before
  <2>9. Stopping'
    <3>1. \A p \in Invocations : /\ Alive(p)' <=> Alive(p)
                                 /\ Latest(p)' <=> Latest(p)
                                 /\ Alive(p) /\ Latest(p) => pidfile = p
      BY <2>1, <2>4 DEF Alive, Latest, IInv, Owned, Before
    <3>2. \A k \in Invocations : pc'[k] \notin Before
      BY <2>2, <2>4 DEF Before
    <3>3. ASSUME NEW k \in Invocations, pc'[k] \in {"stop_wait", "stop_rm"}
          PROVE  /\ target'[k] # Absent
                 /\ \A p \in Invocations : Alive(p)' /\ Latest(p)' => target'[k] = p
                 /\ pc'[k] = "stop_rm" => ~Alive(target[k])' /\ target'[k] = target[k]
      BY <1>2, <2>1, <2>2, <2>3, <3>1, <3>3 DEF IInv, Stopping, Alive
    <3>. QED  BY <3>2, <3>3 DEF Stopping, Alive
  <2>10. Stopped' /\ NoResidue' /\ MeasuredServers'
    BY <2>1, <2>2 DEF IInv, Stopped, NoResidue, MeasuredServers, Alive
  <2>. QED  BY <2>5, <2>6, <2>7, <2>8, <2>9, <2>10 DEF IInv
<1>. QED  BY <1>1, <1>2

(* Servers that change between starting, serving and dead, and none that   *)
(* comes to life.                                                          *)
LEMMA ServersOnly ==
  ASSUME IInv,
         proc' \in [Invocations -> {"none", "starting", "serving", "mute", "dead"}],
         \A p \in Invocations : /\ Alive(p)' => Alive(p)
                                /\ proc[p] = "none" <=> proc'[p] = "none",
         UNCHANGED <<pc, cleaning, status, pidfile, target, measured>>
  PROVE  IInv'
<1>1. TypeOK' /\ InOrder' /\ MeasuredServers'
  BY DEF IInv, TypeOK, InOrder, MeasuredServers
<1>a. \A p \in Invocations : Latest(p)' <=> Latest(p)
  BY DEF Latest
<1>2. Staged' /\ Owned'
  BY <1>a DEF IInv, Staged, Owned, Launched
<1>3. Stopped' /\ NoResidue'
  BY DEF IInv, Stopped, NoResidue
<1>4. Stopping'
  <2> SUFFICES ASSUME NEW s \in Invocations,
                      pc[s] \in {"stop_read", "stop_wait", "stop_rm"}
               PROVE  /\ \A k \in Invocations : pc[k] \notin Before
                      /\ pc[s] \in {"stop_wait", "stop_rm"} =>
                           /\ target[s] # Absent
                           /\ \A p \in Invocations :
                                Alive(p)' /\ Latest(p) => target[s] = p
                      /\ pc[s] = "stop_rm" =>
                           proc'[target[s]] \notin {"starting", "serving", "mute"}
    BY <1>a DEF Stopping, Alive
  <2>1. pc[s] = "stop_rm" => target[s] \in Invocations
    BY DEF IInv, TypeOK, Stopping
  <2>. QED  BY <2>1 DEF IInv, Stopping, Alive
<1>. QED  BY <1>1, <1>2, <1>3, <1>4 DEF IInv

LEMMA ServerStep ==
  ASSUME IInv, NEW p \in Invocations, ServerReady(p) \/ ServerHangs(p) \/ ServerDies(p)
  PROVE  IInv'
<1>1. /\ proc' \in [Invocations -> {"none", "starting", "serving", "mute", "dead"}]
      /\ \A q \in Invocations : /\ Alive(q)' => Alive(q)
                                /\ proc[q] = "none" <=> proc'[q] = "none"
  BY DEF ServerReady, ServerHangs, ServerDies, IInv, TypeOK, Alive
<1>. QED  BY <1>1, ServersOnly DEF ServerReady, ServerHangs, ServerDies

(* SIGKILL, and then as when the server went by itself.                    *)
LEMMA EscalateStep ==
  ASSUME Disciplined, IInv, NEW s \in Invocations, Escalate(s)
  PROVE  IInv'
<1> USE InvocationsAreNumbers
<1>1. /\ pc[s] = "stop_wait" /\ pc' = [pc EXCEPT ![s] = "stop_rm"]
      /\ proc' = [proc EXCEPT ![target[s]] = "dead"] /\ "stop_rm" \in Stages
      /\ UNCHANGED <<cleaning, status, pidfile, target, measured>>
  BY DEF Escalate, SendKill, GoTo, Stages
<1>2. /\ pc' \in [Invocations -> Stages] /\ pc'[s] = "stop_rm"
      /\ \A k \in Invocations : k # s => pc'[k] = pc[k]
  BY <1>1, Moved DEF IInv
<1>3. target[s] \in Invocations
  BY <1>1 DEF IInv, TypeOK, Stopping
<1>4. /\ proc' \in [Invocations -> {"none", "starting", "serving", "mute", "dead"}]
      /\ \A p \in Invocations : /\ Alive(p)' => Alive(p) /\ p # target[s]
                                /\ proc[p] = "none" <=> proc'[p] = "none"
  <2>1. Alive(target[s])
    BY DEF Escalate
  <2>. QED  BY <1>1, <1>3, <2>1 DEF IInv, TypeOK, Alive
<1>a. \A p \in Invocations : Latest(p)' <=> Latest(p)
  BY <1>4 DEF Latest
<1>b. \A p \in Invocations : ~(Alive(p)' /\ Latest(p)')
  <2>1. \A p \in Invocations : Alive(p) /\ Latest(p) => target[s] = p
    BY <1>1 DEF IInv, Stopping
  <2>. QED  BY <1>4, <1>a, <2>1
<1>5. TypeOK'
  BY <1>1, <1>2, <1>4 DEF IInv, TypeOK
<1>6. InOrder'
  BY <1>1, OrderKept DEF IInv
<1>7. Staged'
  BY <1>1, <1>2, <1>4 DEF IInv, Staged, Launched, Before
<1>8. Owned'
  BY <1>1, <1>2, <1>b DEF IInv, TypeOK, Owned, Launched
<1>9. Stopping'
  <2>1. \A k \in Invocations : pc'[k] \notin Before
    BY <1>1, <1>2 DEF IInv, Stopping, Before
  <2>2. ASSUME NEW k \in Invocations, pc'[k] \in {"stop_wait", "stop_rm"}
        PROVE  /\ target[k] \in Invocations
               /\ pc'[k] = "stop_rm" => ~Alive(target[k])'
    <3>1. target[k] \in Invocations
      BY <1>1, <1>2, <2>2 DEF IInv, TypeOK, Stopping
    <3>2. CASE k = s
      BY <1>3, <1>4, <3>1, <3>2, <1>1
    <3>3. CASE k # s
      BY <1>1, <1>2, <1>4, <3>1, <3>3 DEF IInv, Stopping, Alive
    <3>. QED  BY <3>1, <3>2, <3>3
  <2>. QED  BY <1>1, <1>b, <2>1, <2>2, InvocationsAreNumbers DEF Stopping, Alive
<1>10. NoResidue'
  BY <1>1, <1>4, ResidueKept
<1>11. Stopped'
  BY <1>1, <1>4, <1>10, StoppedKept
<1>12. MeasuredServers'
  BY <1>1, <1>4 DEF IInv, MeasuredServers
<1>. QED  BY <1>5, <1>6, <1>7, <1>8, <1>9, <1>10, <1>11, <1>12 DEF IInv

LEMMA RemovePidfileStep ==
  ASSUME Disciplined, IInv, NEW s \in Invocations, RemovePidfile(s)
  PROVE  IInv'
<1> USE InvocationsAreNumbers
<1>1. /\ pc[s] = "stop_rm" /\ pc' = [pc EXCEPT ![s] = "ended"]
      /\ pidfile' = Absent /\ "ended" \in Stages
      /\ status' \in [Invocations -> {"none", "ok", "failed"}]
      /\ UNCHANGED <<cleaning, proc, target, measured>>
  BY DEF RemovePidfile, DropPidfile, End, GoTo, Stages, IInv, TypeOK
<1>2. /\ pc' \in [Invocations -> Stages] /\ pc'[s] = "ended"
      /\ \A k \in Invocations : k # s => pc'[k] = pc[k]
  BY <1>1, Moved DEF IInv
<1>3. \A p \in Invocations : /\ Alive(p)' <=> Alive(p)
                             /\ Latest(p)' <=> Latest(p)
                             /\ ~(Alive(p)' /\ Latest(p)')
  BY <1>1 DEF IInv, Stopping, Alive, Latest
<1>4. TypeOK'
  BY <1>1, <1>2 DEF IInv, TypeOK
<1>5. InOrder'
  BY <1>1, OrderKept DEF IInv
<1>6. Staged'
  BY <1>1, <1>2 DEF IInv, Staged, Launched, Before
<1>7. Owned'
  BY <1>1, <1>3 DEF Owned
<1>8. Stopping'
  <2>1. \A k \in Invocations : pc'[k] \notin Before
    BY <1>1, <1>2 DEF IInv, Stopping, Before
  <2>2. \A k \in Invocations : pc'[k] \in {"stop_wait", "stop_rm"} =>
          pc[k] = pc'[k] /\ target[k] \in Invocations
    BY <1>1, <1>2 DEF IInv, TypeOK, Stopping
  <2>. QED  BY <1>1, <1>3, <2>1, <2>2, InvocationsAreNumbers DEF IInv, Stopping, Alive
<1>9. NoResidue'
  BY <1>1, <1>3, ResidueKept
<1>10. Stopped'
  BY <1>1, <1>3, <1>9, StoppedKept
<1>11. MeasuredServers'
  BY <1>1 DEF IInv, MeasuredServers
<1>. QED  BY <1>4, <1>5, <1>6, <1>7, <1>8, <1>9, <1>10, <1>11 DEF IInv

LEMMA ShellSteps ==
  ASSUME Disciplined, IInv, NEW s \in Invocations, ShellStep(s)
  PROVE  IInv'
<1> USE InvocationsAreNumbers
<1>1. CASE Begin(s)
  BY <1>1, BeginStep
<1>2. CASE GatePasses(s)
  BY <1>2, GoesOn DEF GatePasses, Stages
<1>3. CASE GateFails(s)
  <2>1. Commands[s] # "stop" /\ s \notin cleaning
    BY <1>3 DEF GateFails, IInv, Staged, Before
  <2>. QED  BY <1>3, <2>1, ExitAdvances DEF GateFails
<1>4. CASE Launch(s) \/ RecordPid(s)
  BY <1>4, LaunchStep, RecordPidStep
<1>5. CASE HealthReady(s)
  <2>1. Commands[s] # "stop" /\ pc[s] = "health"
    BY <1>5 DEF HealthReady, IInv, Staged
  <2>2. CASE Commands[s] = "run"
    BY <1>5, <2>1, <2>2, GoesOn DEF HealthReady, Stages
  <2>3. CASE Commands[s] = "server"
    BY <1>5, <2>1, <2>3, EndAdvances DEF HealthReady
  <2>. QED  BY <2>1, <2>2, <2>3
<1>6. CASE HealthFails(s)
  <2>1. Commands[s] # "stop" /\ s \notin cleaning
    BY <1>6 DEF HealthFails, IInv, Staged
  <2>. QED  BY <1>6, <2>1, ExitAdvances DEF HealthFails
<1>7. CASE ClientSucceeds(s)
  BY <1>7, GoesOn DEF ClientSucceeds, Stages
<1>8. CASE ClientFails(s)
  <2>1. Commands[s] # "stop" /\ s \notin cleaning
    BY <1>8 DEF ClientFails, IInv, Staged
  <2>. QED  BY <1>8, <2>1, ExitAdvances DEF ClientFails
<1>9. CASE CheckPidfile(s)
  <2>1. CASE pidfile = Absent \/ ~Alive(pidfile)
    BY <1>9, <2>1, NothingBehindPidfile, EndAdvances DEF CheckPidfile
  <2>2. CASE pidfile # Absent /\ Alive(pidfile)
    <3>1. \A k \in Invocations : pc[k] \notin Before
      BY <1>9, <2>2, NobodyLaunches DEF CheckPidfile
    <3>. QED  BY <1>9, <2>2, <3>1, GoesOn DEF CheckPidfile, Stages
  <2>. QED  BY <2>1, <2>2
<1>10. CASE ReadPidAndTerm(s) \/ Escalate(s) \/ RemovePidfile(s)
  BY <1>10, ReadPidAndTermStep, EscalateStep, RemovePidfileStep
<1>11. CASE ServerGone(s)
  BY <1>11, GoesOn DEF ServerGone, Stages
<1>. QED
  BY <1>1, <1>2, <1>3, <1>4, <1>5, <1>6, <1>7, <1>8, <1>9, <1>10, <1>11
  DEF ShellStep

LEMMA InterruptStep ==
  ASSUME Disciplined, IInv, NEW s \in Invocations, Interrupt(s)
  PROVE  IInv'
<1>1. /\ Commands[s] # "stop" /\ s \notin cleaning
      /\ pc[s] \notin {"idle", "record", "ended"}
  BY DEF Disciplined, Interrupt
<1>. QED  BY <1>1, ExitAdvances DEF Interrupt

LEMMA NextIInv ==
  ASSUME Disciplined, IInv, [Next]_vars
  PROVE  IInv'
<1>1. CASE UNCHANGED vars
  BY <1>1 DEF vars, IInv, TypeOK, InOrder, Staged, Owned, Stopping, Stopped,
     NoResidue, MeasuredServers, Alive, Latest, Launched
<1>2. CASE Next
  BY <1>1, <1>2, ShellSteps, ClientRequestStep, InterruptStep, ServerStep
  DEF Next, Rest
<1>. QED  BY <1>1, <1>2

-----------------------------------------------------------------------------
LEMMA Inductive ==
  ASSUME Disciplined
  PROVE  Spec => []IInv
BY InitIInv, NextIInv, PTL DEF Spec

LEMMA TypeKept == TypeOK /\ [Next]_vars => TypeOK'
<1> SUFFICES ASSUME TypeOK, [Next]_vars PROVE TypeOK'
  OBVIOUS
<1>1. ASSUME NEW s \in Invocations, ShellStep(s)
      PROVE  TypeOK'
  <2> USE <1>1 DEF TypeOK, GoTo, Exit, End, Stages
  <2>1. CASE Begin(s) \/ GatePasses(s) \/ GateFails(s)
    BY <2>1 DEF Begin, GatePasses, GateFails
  <2>2. CASE Launch(s) \/ RecordPid(s)
    BY <2>2 DEF Launch, RecordPid
  <2>3. CASE HealthReady(s) \/ HealthFails(s)
    BY <2>3 DEF HealthReady, HealthFails
  <2>4. CASE ClientSucceeds(s) \/ ClientFails(s)
    BY <2>4 DEF ClientSucceeds, ClientFails
  <2>5. CASE CheckPidfile(s) \/ ReadPidAndTerm(s)
    BY <2>5 DEF CheckPidfile, ReadPidAndTerm
  <2>6. CASE ServerGone(s) \/ Escalate(s) \/ RemovePidfile(s)
    BY <2>6 DEF ServerGone, Escalate, SendKill, RemovePidfile, DropPidfile
  <2>. QED  BY <2>1, <2>2, <2>3, <2>4, <2>5, <2>6 DEF ShellStep
<1>2. ASSUME NEW s \in Invocations,
             \/ ClientRequest(s) \/ Interrupt(s) \/ ServerReady(s)
             \/ ServerHangs(s) \/ ServerDies(s)
      PROVE  TypeOK'
  BY <1>2 DEF TypeOK, ClientRequest, Interrupt, ServerReady, ServerHangs, ServerDies, Serving,
     GoTo, Exit, Stages
<1>3. CASE UNCHANGED vars
  BY <1>3 DEF vars, TypeOK
<1>. QED  BY <1>1, <1>2, <1>3 DEF Next, Rest

(* The state is well typed, whatever the operators do: with any commands,  *)
(* overlaps and interrupts.                                                *)
THEOREM TypeCorrect == Spec => []TypeOK
<1>1. Init => TypeOK
  BY DEF Init, TypeOK, Stages
<1>. QED  BY <1>1, TypeKept, PTL DEF Spec

(* acceptance.sh:187-188: however a `run` ends - its gate refuses, its     *)
(* server does not come up or dies, its client fails, Ctrl-C, a stop from  *)
(* another shell - its server does not stay.                               *)
THEOREM RunsLeaveNoServer ==
  ASSUME Disciplined
  PROVE  Spec => []NoResidue
<1>1. IInv => NoResidue
  BY DEF IInv
<1>. QED  BY <1>1, Inductive, PTL

(* acceptance.sh:103-111: the client of a `run` is answered by the run's   *)
(* own server or by one of a `server` command that every `stop` since has  *)
(* missed, a later pid being on file.                                      *)
THEOREM RunsMeasureWhoIsLeft ==
  ASSUME Disciplined
  PROVE  Spec => []MeasuredServers
<1>1. IInv => MeasuredServers
  BY DEF IInv
<1>. QED  BY <1>1, Inductive, PTL

LEMMA AfterStop == IInv => StopsTheLatest
<1> SUFFICES ASSUME IInv, NEW s \in Invocations,
                    Commands[s] = "stop", pc[s] = "ended",
                    \A k \in Invocations : k > s => pc[k] = "idle",
                    \A k \in Invocations : k < s => pc[k] = "ended",
                    NEW p \in Invocations, Alive(p)
             PROVE  ~Latest(p)
  BY DEF StopsTheLatest
<1>1. CASE p < s
  BY <1>1 DEF IInv, Stopped, Latest
<1>2. CASE p = s
  BY <1>2 DEF IInv, Staged, Alive
<1>3. CASE p > s
  BY <1>3 DEF IInv, Staged, Launched, Alive
<1>. QED  BY <1>1, <1>2, <1>3, InvocationsAreNumbers

(* acceptance.sh:114-139: when `stop` has ended, the server launched last  *)
(* is gone, whoever launched it, until a later command launches one.       *)
THEOREM StopEndsTheLatest ==
  ASSUME Disciplined
  PROVE  Spec => []StopsTheLatest
BY AfterStop, Inductive, PTL
=============================================================================
