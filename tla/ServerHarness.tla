---------------------------- MODULE ServerHarness ----------------------------
(***************************************************************************)
(* scripts/acceptance.sh: the invocations `server`, `run` and `stop` of    *)
(* one profile on one machine and one port.  They share the profile's      *)
(* pidfile and nothing else; each launches at most one vLLM server, so     *)
(* invocation k and its server are both called k.                          *)
(*                                                                         *)
(* A server is starting, serving (it owns the port and answers /v1/models),*)
(* mute (it owns the port, accepts, and answers no more) or dead; one that *)
(* finds the port taken dies.  SIGTERM asks a server to die, which it may  *)
(* put off for ever; SIGKILL does not fail.                                *)
(***************************************************************************)
EXTENDS Integers, Sequences

CONSTANTS
  Commands,        (* the invocations: "run", "server" or "stop"           *)
  Overlapping,     (* those that may begin before the last one has ended   *)
  Interruptible    (* bound: <<command, stage>> where Ctrl-C is considered *)

Invocations == DOMAIN Commands

ASSUME CommandsAssumption ==
  /\ Commands \in Seq({"run", "server", "stop"})
  /\ Overlapping \subseteq Invocations

Early(s) == \E o \in Overlapping : s < o

(* What the pidfile can bear.  A second shell only stops; while one is     *)
(* still to come, a `server` is stopped by the next command, let to its    *)
(* end.  After that, and where nothing overlaps, any commands in any       *)
(* order.  Nobody interrupts a `stop`, or between launch and pidfile.      *)
Disciplined ==
  /\ \A s \in Overlapping : Commands[s] = "stop"
  /\ \A s \in Invocations :
       Commands[s] = "server" /\ Early(s) =>
         Commands[s + 1] = "stop" /\ s + 1 \notin Overlapping
  /\ \A x \in Interruptible :
       x[1] # "stop" /\ x[2] \notin {"idle", "record", "ended"}

VARIABLES
  pc,         (* where each invocation is                                  *)
  cleaning,   (* invocations whose EXIT trap is running                    *)
  status,     (* exit status of an invocation                              *)
  proc,       (* the server each invocation launched                       *)
  pidfile,    (* $PID_DIR/$PROFILE_ID.pid, Absent if there is none         *)
  target,     (* `pid` of stop_server                                      *)
  measured    (* servers that answered the invocation's client             *)

vars == <<pc, cleaning, status, proc, pidfile, target, measured>>

Absent == 0

Stages == {"idle", "gate", "launch", "record", "health", "client",
           "stop_check", "stop_read", "stop_wait", "stop_rm", "ended"}

Alive(p) == proc[p] \in {"starting", "serving", "mute"}
Serving == {p \in Invocations : proc[p] = "serving"}
Mute == {p \in Invocations : proc[p] = "mute"}

(* Nobody has been launched since.                                         *)
Latest(p) ==
  proc[p] # "none" /\ \A q \in Invocations : q > p => proc[q] = "none"

Init ==
  /\ pc = [s \in Invocations |-> "idle"]
  /\ cleaning = {}
  /\ status = [s \in Invocations |-> "none"]
  /\ proc = [s \in Invocations |-> "none"]
  /\ pidfile = Absent
  /\ target = [s \in Invocations |-> Absent]
  /\ measured = [s \in Invocations |-> {}]

GoTo(s, stage) == pc' = [pc EXCEPT ![s] = stage]

-----------------------------------------------------------------------------
(* Slip: no trap is set.                                                   *)
ExitWithoutTrap(s) ==
  /\ GoTo(s, "ended")
  /\ status' = [status EXCEPT ![s] = "failed"]
  /\ UNCHANGED cleaning

(* The shell exits early, by set -e or a signal: `run` has its EXIT trap   *)
(* call stop_server, unless that is where it failed.                       *)
Exit(s) ==
  /\ status' = [status EXCEPT ![s] = "failed"]
  /\ IF Commands[s] = "run" /\ s \notin cleaning
     THEN GoTo(s, "stop_check") /\ cleaning' = cleaning \cup {s}
     ELSE GoTo(s, "ended") /\ UNCHANGED cleaning

(* The last command was done; a status set by an early exit stays.         *)
End(s) ==
  /\ GoTo(s, "ended")
  /\ status' = [status EXCEPT ![s] = IF @ = "none" THEN "ok" ELSE @]
  /\ UNCHANGED cleaning

Begin(s) ==
  /\ pc[s] = "idle"
  /\ \A k \in 1 .. s - 1 :
       \/ pc[k] = "ended"
       \/ k = s - 1 /\ s \in Overlapping /\ pc[k] # "idle"
  /\ GoTo(s, IF Commands[s] = "stop" THEN "stop_check" ELSE "gate")
  /\ UNCHANGED <<cleaning, status, proc, pidfile, target, measured>>

-----------------------------------------------------------------------------
(* start_server                                                            *)

GatePasses(s) ==
  /\ pc[s] = "gate"
  /\ GoTo(s, "launch")
  /\ UNCHANGED <<cleaning, status, proc, pidfile, target, measured>>

GateFails(s) ==
  /\ pc[s] = "gate"
  /\ Exit(s)
  /\ UNCHANGED <<proc, pidfile, target, measured>>

(* nohup vllm serve ... &                                                  *)
Launch(s) ==
  /\ pc[s] = "launch"
  /\ proc' = [proc EXCEPT ![s] = "starting"]
  /\ GoTo(s, "record")
  /\ UNCHANGED <<cleaning, status, pidfile, target, measured>>

(* server.pid of the run directory, and the profile's pidfile.             *)
RecordPid(s) ==
  /\ pc[s] = "record"
  /\ pidfile' = s
  /\ GoTo(s, "health")
  /\ UNCHANGED <<cleaning, status, proc, target, measured>>

(* curl: somebody answers on the port.                                     *)
HealthReady(s) ==
  /\ pc[s] = "health"
  /\ Serving # {}
  /\ IF Commands[s] = "run"
     THEN GoTo(s, "client") /\ UNCHANGED <<cleaning, status>>
     ELSE End(s)
  /\ UNCHANGED <<proc, pidfile, target, measured>>

(* Slip: health_wait has no limit of time.                                 *)
GivesUpOnlyDead(s) == ~Alive(s)

(* STARTUP_TIMEOUT passed (at any moment of the model), or its own server  *)
(* is gone.                                                                *)
GivesUp(s) == TRUE

(* curl is refused.  It has no limit of its own: a mute server keeps it,   *)
(* and the time is looked at between two calls of curl only.               *)
HealthFails(s) ==
  /\ pc[s] = "health"
  /\ Serving \cup Mute = {}
  /\ GivesUp(s)
  /\ Exit(s)
  /\ UNCHANGED <<proc, pidfile, target, measured>>

-----------------------------------------------------------------------------
(* run_client: requests go to the port, whoever owns it.                   *)
ClientRequest(s) ==
  /\ pc[s] = "client"
  /\ ~(Serving \subseteq measured[s])
  /\ measured' = [measured EXCEPT ![s] = @ \cup Serving]
  /\ UNCHANGED <<pc, cleaning, status, proc, pidfile, target>>

ClientSucceeds(s) ==
  /\ pc[s] = "client"
  /\ GoTo(s, "stop_check")
  /\ UNCHANGED <<cleaning, status, proc, pidfile, target, measured>>

ClientFails(s) ==
  /\ pc[s] = "client"
  /\ Exit(s)
  /\ UNCHANGED <<proc, pidfile, target, measured>>

-----------------------------------------------------------------------------
(* stop_server                                                             *)

CheckPidfile(s) ==
  /\ pc[s] = "stop_check"
  /\ IF pidfile = Absent \/ ~Alive(pidfile)
     THEN End(s)
     ELSE GoTo(s, "stop_read") /\ UNCHANGED <<cleaning, status>>
  /\ UNCHANGED <<proc, pidfile, target, measured>>

(* The pidfile is read again; without it `cat` fails and so does the shell.*)
ReadPidAndTerm(s) ==
  /\ pc[s] = "stop_read"
  /\ IF pidfile = Absent
     THEN /\ Exit(s)
          /\ UNCHANGED target
     ELSE /\ GoTo(s, "stop_wait")
          /\ target' = [target EXCEPT ![s] = pidfile]
          /\ UNCHANGED <<cleaning, status>>
  /\ UNCHANGED <<proc, pidfile, measured>>

(* kill -0 fails: the server is gone.                                      *)
ServerGone(s) ==
  /\ pc[s] = "stop_wait"
  /\ ~Alive(target[s])
  /\ GoTo(s, "stop_rm")
  /\ UNCHANGED <<cleaning, status, proc, pidfile, target, measured>>

(* Slip: SIGTERM is all a server gets.                                     *)
NoEscalation(s) == UNCHANGED proc

SendKill(s) == proc' = [proc EXCEPT ![target[s]] = "dead"]

(* STOP_TIMEOUT passed: SIGKILL, and no further wait.                      *)
Escalate(s) ==
  /\ pc[s] = "stop_wait"
  /\ Alive(target[s])
  /\ SendKill(s)
  /\ GoTo(s, "stop_rm")
  /\ UNCHANGED <<cleaning, status, pidfile, target, measured>>

DropPidfile == pidfile' = Absent

RemovePidfile(s) ==
  /\ pc[s] = "stop_rm"
  /\ DropPidfile
  /\ End(s)
  /\ UNCHANGED <<proc, target, measured>>

-----------------------------------------------------------------------------
(* The environment.                                                        *)

(* Ctrl-C; the server, started by nohup in the background, is not hit.     *)
Interrupt(s) ==
  /\ <<Commands[s], pc[s]>> \in Interruptible
  /\ s \notin cleaning
  /\ Exit(s)
  /\ UNCHANGED <<proc, pidfile, target, measured>>

ServerReady(p) ==
  /\ proc[p] = "starting"
  /\ Serving \cup Mute = {}
  /\ proc' = [proc EXCEPT ![p] = "serving"]
  /\ UNCHANGED <<pc, cleaning, status, pidfile, target, measured>>

(* It hangs, after it served or with the port just taken.                  *)
ServerHangs(p) ==
  /\ \/ proc[p] = "serving"
     \/ proc[p] = "starting" /\ Serving \cup Mute = {}
  /\ proc' = [proc EXCEPT ![p] = "mute"]
  /\ UNCHANGED <<pc, cleaning, status, pidfile, target, measured>>

(* Out of memory, port taken, SIGTERM: a server may end at any time.       *)
ServerDies(p) ==
  /\ Alive(p)
  /\ proc' = [proc EXCEPT ![p] = "dead"]
  /\ UNCHANGED <<pc, cleaning, status, pidfile, target, measured>>

AllEnded == \A s \in Invocations : pc[s] = "ended"

Rest == AllEnded /\ UNCHANGED vars

ShellStep(s) == \/ Begin(s)
                \/ GatePasses(s) \/ GateFails(s)
                \/ Launch(s) \/ RecordPid(s)
                \/ HealthReady(s) \/ HealthFails(s)
                \/ ClientSucceeds(s) \/ ClientFails(s)
                \/ CheckPidfile(s) \/ ReadPidAndTerm(s)
                \/ ServerGone(s) \/ Escalate(s)
                \/ RemovePidfile(s)

Next == \/ \E s \in Invocations : \/ ShellStep(s)
                                  \/ ClientRequest(s)
                                  \/ Interrupt(s)
                                  \/ ServerReady(s)
                                  \/ ServerHangs(s)
                                  \/ ServerDies(s)
        \/ Rest

Spec == Init /\ [][Next]_vars

(* A shell goes on: STARTUP_TIMEOUT, STOP_TIMEOUT and the end of bench.sh  *)
(* limit its waits, that for curl excepted.  Nothing is assumed of the     *)
(* servers.                                                                *)
FairSpec == Spec /\ \A s \in Invocations : WF_vars(ShellStep(s))
-----------------------------------------------------------------------------
TypeOK ==
  /\ pc \in [Invocations -> Stages]
  /\ cleaning \subseteq Invocations
  /\ status \in [Invocations -> {"none", "ok", "failed"}]
  /\ proc \in [Invocations -> {"none", "starting", "serving", "mute", "dead"}]
  /\ pidfile \in Invocations \cup {Absent}
  /\ target \in [Invocations -> Invocations \cup {Absent}]
  /\ measured \in [Invocations -> SUBSET Invocations]

(* acceptance.sh:187-188: however a `run` ends, its server does not stay.  *)
NoResidue ==
  \A s \in Invocations :
    Commands[s] = "run" /\ pc[s] = "ended" => ~Alive(s)

(* acceptance.sh:103-111: health_wait and the client take whoever has the  *)
(* port.  That is the run's own server, or one of an earlier `server` that *)
(* no `stop` was for: each came when a later server's pid was on file.     *)
MeasuredServers ==
  \A s \in Invocations : \A p \in measured[s] \ {s} :
    /\ Commands[p] = "server" /\ p < s
    /\ \A q \in Invocations :
         p < q /\ q < s /\ Commands[q] = "stop" =>
           \E r \in Invocations : p < r /\ r < q /\ proc[r] # "none"

(* acceptance.sh:114-139: `stop` knows the server launched last, and after *)
(* it that one is gone, whoever launched it and whatever else runs.        *)
StopsTheLatest ==
  \A s \in Invocations :
    /\ Commands[s] = "stop" /\ status[s] = "ok" /\ pc[s] = "ended"
    /\ \A k \in Invocations : k > s => pc[k] = "idle"
    /\ \A k \in Invocations : k < s => pc[k] = "ended"
    => \A p \in Invocations : Alive(p) => ~Latest(p)

(* Every invocation ends, whatever the servers do - unless health_wait     *)
(* waits for a server that took the port and does not answer.              *)
EveryInvocationEnds ==
  \/ <>AllEnded
  \/ \E s \in Invocations : <>[](pc[s] = "health" /\ Mute # {})

-----------------------------------------------------------------------------
(* What the documents say of server, run, stop (how-to-run.md 3.2 to 3.5). *)

(* acceptance.sh:11: `run` is server, client and clean-up in one: what it  *)
(* measures is the server it launched.                                     *)
OwnServerMeasured == \A s \in Invocations : measured[s] \subseteq {s}

(* acceptance.sh:12: `stop` stops the profile's server: when every command *)
(* has ended well, the last of them a `stop`, none is left.                *)
StopStops ==
  \A s \in Invocations :
    /\ Commands[s] = "stop" /\ status[s] = "ok"
    /\ \A k \in Invocations : k > s => pc[k] = "idle"
    /\ \A k \in Invocations : k < s => status[k] = "ok"
    => \A p \in Invocations : ~Alive(p)
=============================================================================
