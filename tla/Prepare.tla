------------------------------ MODULE Prepare -------------------------------
(***************************************************************************)
(* scripts/prepare.sh against a measurement that starts when it likes:     *)
(* receipt.py's gate on the registry, then common.load_subset and the      *)
(* cases.                                                                  *)
(*                                                                         *)
(* prepare.sh downloads and generates files, none of them atomically, and  *)
(* skips what is already there unless FORCE=1.  Any of its subcommands may *)
(* be run, and a run may end anywhere: killed, or because the network      *)
(* fails.  It is started again as often as the operator likes.             *)
(***************************************************************************)
EXTENDS Contract

CONSTANTS
  ModelDir,   (* TRUE: PREPARE_MODEL_DIR is set                            *)
  DatasetUrl, (* TRUE: PREPARE_SHAREGPT_URL is set                         *)
  DatasetFile,(* the subset whose name.jsonl PREPARE_SHAREGPT_FILE is too, *)
              (* "sharegpt" as config.yaml has it; None: another file      *)
  Subsets,    (* prepare.subsets: [name, n, jsonl, url: BOOLEAN]           *)
  Upstream,   (* name -> records behind the url: <<rank of hash, blank>>   *)
  Asked,      (* measurements: [cell, precision, smoke, allow]             *)
  MaxAborts   (* bound: runs of prepare.sh that end early                  *)

VARIABLES
  pc,         (* what prepare.sh does *)
  at,         (* index into Items or Subsets                               *)
  mode, force,
  last,       (* how the last run ended: None, "ok" or "failed"            *)
  aborts,
  fetched,    (* index of an item -> "absent" | "part" | "whole"           *)
  src,        (* .name.src.json[l]: None or [read, torn]: whole records,   *)
              (* and whether half a record follows                         *)
  out,        (* name.jsonl: None or [recs, torn]: records of the subset,  *)
              (* and whether a line follows that is none                   *)
  manifest,   (* name.manifest.json: ordered_sha256, None without file     *)
  registry,   (* .registry.json: name -> materialized; empty without file, *)
              (* or while the file is being written                        *)
  asked,      (* the arguments of the measurement                          *)
  client,     (* "idle" "gated" "refused" "raised" "ready"                 *)
  cfg,        (* the expanded configuration, None before                   *)
  loaded,     (* name -> records of the loaded subsets                     *)
  cases

files == <<fetched, src, out, manifest, registry>>
script == <<pc, at, mode, force, last, aborts>>
measurement == <<asked, client, cfg, loaded, cases>>
vars == <<script, files, measurement>>

Named == {Subsets[k].name : k \in DOMAIN Subsets}

(* The subcommands; `all` is the items one after the other and then the    *)
(* subsets.  Where in Items or Subsets each begins.                        *)
Items == <<"model", "dataset", "workload">>
First == [all |-> 1, model |-> 1, dataset |-> 2, workload |-> 3, subsets |-> 1]

(* config.yaml names a subset once; a file that is there is not None.      *)
ASSUME SubsetsAssumption ==
  /\ Subsets \in Seq([name : STRING, n : Nat, jsonl : BOOLEAN, url : BOOLEAN])
  /\ \A j, k \in DOMAIN Subsets : Subsets[j].name = Subsets[k].name => j = k
  /\ \A n \in Named : Upstream[n] \in Seq(Nat \X BOOLEAN)
  /\ None \notin [recs : Seq(Nat), torn : BOOLEAN] \cup [read : Nat, torn : BOOLEAN]
                  \cup Seq(Nat)
  /\ None # "ok"

(* The code's 16, 4, 64 and 4; a cell's file counts its cases, and its     *)
(* name has a generator in cases.py.                                       *)
Cells == {"a2-dialogue", "a2-tool", "a2-reason", "a2-struct", "a2-long", "a3-32k", "a4-mt", "a1"}
ASSUME CasesAssumption ==
  /\ {Sessions, Rounds, Each, TenantSide} \subseteq Nat
  /\ \A m \in {Expand(a.cell, a.precision, a.smoke) : a \in Asked} \ {None} :
       LET fixed == Get(m, "workload", "dataset_fixed")
       IN  /\ m["meta"]["cell"] \in Cells
           /\ m["meta"]["cell"] = "a2-tool" =>
                {fixed.single, fixed.multi_parallel, fixed.multi_turn} \subseteq Nat
           /\ m["meta"]["cell"] = "a2-long" => {fixed.low, fixed.high} \subseteq Nat

(* config.yaml lists every subset that the generator of a cell loads.      *)
ASSUME FetchesAssumption ==
  /\ {ModelDir, DatasetUrl} \subseteq BOOLEAN /\ MaxAborts \in Nat
  /\ DatasetFile \in Named \cup {None} /\ None \notin Named
  /\ \A c \in Cells : \A i \in DOMAIN Loads(c) : Loads(c)[i] \in Named

(* The layers of a configuration: a precision overlay names the precision  *)
(* and says how the model is quantised and served (precision/*.yaml), the  *)
(* files of the cells give the caps of their rates, and schema.yaml wants  *)
(* the flags of the compiler.                                              *)
ASSUME LayersAssumption ==
  /\ \A p \in DOMAIN Precisions :
       /\ DOMAIN Precisions[p] = {"meta", "model"}
       /\ "cell" \notin DOMAIN Precisions[p]["meta"]
       /\ "quantization" \in DOMAIN Precisions[p]["model"]
       /\ (Precisions[p]["model"]["quantization"] # None) = (p = "W8A8")
  /\ \A c \in DOMAIN CellFiles :
       LET base == DeepMerge(Common, CellFiles[c])
       IN  /\ "meta" \in DOMAIN base /\ "cell" \in DOMAIN base["meta"]
           /\ CellFiles[c]["meta"]["precisions"] \subseteq DOMAIN Precisions
           /\ Get(base, "workload", "caps") # None =>
                /\ Get(base, "workload", "rates") \in Seq(Nat) \ {None}
                /\ base["workload"]["caps"] = RequestCaps(base["workload"]["rates"], PerRate(base))
  /\ \A a \in Asked : a.cell \in DOMAIN CellFiles
  /\ "server" \in DOMAIN Schema.required /\ "cudagraph_mode" \in Schema.required["server"]
  /\ None # "set"

Empty == [recs |-> <<>>, torn |-> FALSE]

(* Non-blank records, stably sorted by the hash of id and content: the     *)
(* first n.                                                                *)
Pick(s, read) ==
  LET ids       == {k \in 1 .. read : ~Upstream[s.name][k][2]}
      hash(k)   == Upstream[s.name][k][1]
      before(k) == {j \in ids : hash(j) < hash(k) \/ (hash(j) = hash(k) /\ j < k)}
  IN  [i \in 1 .. Least(s.n, Cardinality(ids)) |->
         CHOOSE k \in ids : Cardinality(before(k)) = i - 1]
Fixed(s) == Pick(s, Len(Upstream[s.name]))

Init ==
  /\ pc = "idle" /\ at = 1 /\ mode = "all" /\ force = FALSE /\ last = None /\ aborts = 0
  /\ fetched = [i \in DOMAIN Items |-> "absent"]
  /\ src = [n \in Named |-> None]
  /\ out = [n \in Named |-> None]
  /\ manifest = [n \in Named |-> None]
  /\ registry = <<>>
  /\ asked \in Asked
  /\ client = "idle" /\ cfg = None /\ loaded = <<>> /\ cases = None

(***************************************************************************)
(* prepare.sh                                                              *)
(***************************************************************************)

Goto(where, i) ==
  /\ pc' = where
  /\ at' = i
  /\ UNCHANGED <<mode, force, last, aborts, measurement>>

StartRun(m, f) ==
  /\ pc = "idle"
  /\ mode' = m /\ force' = f /\ last' = None
  /\ pc' = IF m = "subsets" THEN "subset" ELSE "fetch"
  /\ at' = First[m]
  /\ UNCHANGED <<aborts, files, measurement>>

EndRun(how) ==
  /\ pc' = "idle" /\ last' = how
  /\ UNCHANGED <<at, mode, force, aborts, measurement>>

(* Item i writes the very file of a subset.                                *)
Shared(i) == Items[i] = "dataset" /\ DatasetFile # None

(* What is there is not looked into: a file of the data set is a data set, *)
(* whoever wrote it.  Without PREPARE_MODEL_DIR the hub's cache is asked.  *)
There(i) == IF Shared(i) THEN out[DatasetFile] # None ELSE fetched[i] # "absent"
Skipped(i) == \/ There(i) /\ ~force /\ (Items[i] = "model" => ModelDir)
              \/ Items[i] = "dataset" /\ ~DatasetUrl

AfterItem(i) == IF mode = "all" THEN Goto("fetch", i + 1) ELSE EndRun("ok")

(* ShareGPT as it is downloaded, whole or not: one JSON array, none of     *)
(* whose lines is a record of a subset.                                    *)
Raw == [recs |-> <<>>, torn |-> TRUE]

(* model, dataset, workload.  The download of the model keeps what it has; *)
(* the files of the other two are emptied first.                           *)
Fetch ==
  /\ pc = "fetch"
  /\ IF at > Len(Items) THEN Goto("subset", 1) /\ UNCHANGED files
     ELSE IF Skipped(at) THEN AfterItem(at) /\ UNCHANGED files
     ELSE /\ Goto("fetching", at)
          /\ IF Shared(at) THEN out' = [out EXCEPT ![DatasetFile] = Raw] /\ UNCHANGED fetched
             ELSE /\ fetched' = [fetched EXCEPT ![at] =
                       IF Items[at] = "model" /\ @ = "whole" THEN @ ELSE "part"]
                  /\ UNCHANGED out
          /\ UNCHANGED <<src, manifest, registry>>
EndFetch ==
  /\ pc = "fetching"
  /\ AfterItem(at)
  /\ fetched' = IF Shared(at) THEN fetched ELSE [fetched EXCEPT ![at] = "whole"]
  /\ UNCHANGED <<src, out, manifest, registry>>

(* Slip: FORCE=1 does not reach the sources of the subsets.                *)
BeginSubsetUnforced ==
  /\ pc = "subset" /\ at <= Len(Subsets)
  /\ LET s == Subsets[at]
     IN  IF ~s.url
         THEN /\ Goto("subset", at + 1)
              /\ manifest' = [manifest EXCEPT ![s.name] = <<>>]
              /\ UNCHANGED <<fetched, src, out, registry>>
         ELSE IF src[s.name] # None THEN Goto("parse", at) /\ UNCHANGED files
         ELSE /\ Goto("download", at)
              /\ src' = [src EXCEPT ![s.name] = [read |-> 0, torn |-> FALSE]]
              /\ UNCHANGED <<fetched, out, manifest, registry>>

BeginSubset ==
  /\ pc = "subset" /\ at <= Len(Subsets)
  /\ LET s == Subsets[at]
     IN  IF ~s.url
         THEN /\ Goto("subset", at + 1)
              /\ manifest' = [manifest EXCEPT ![s.name] = <<>>]
              /\ UNCHANGED <<fetched, src, out, registry>>
         ELSE IF src[s.name] # None /\ ~force THEN Goto("parse", at) /\ UNCHANGED files
         ELSE /\ Goto("download", at)
              /\ src' = [src EXCEPT ![s.name] = [read |-> 0, torn |-> FALSE]]
              /\ UNCHANGED <<fetched, out, manifest, registry>>

(* urlretrieve: half a record, then the other half, then the end.          *)
Download ==
  /\ pc = "download"
  /\ LET name == Subsets[at].name
         f    == src[name]
     IN  IF f.read = Len(Upstream[name]) THEN Goto("parse", at) /\ UNCHANGED files
         ELSE /\ Goto("download", at)
              /\ src' = [src EXCEPT ![name] =
                   IF f.torn THEN [read |-> f.read + 1, torn |-> FALSE]
                   ELSE [f EXCEPT !.torn = TRUE]]
              /\ UNCHANGED <<fetched, out, manifest, registry>>

(* Half a record is no JSON, and half an array of them is none either.     *)
Parses(s) == ~src[s.name].torn /\ (~s.jsonl => src[s.name].read = Len(Upstream[s.name]))

(* The subset is opened, and emptied, before it is written.                *)
Parse ==
  /\ pc = "parse"
  /\ Parses(Subsets[at])
  /\ Goto("write", at)
  /\ out' = [out EXCEPT ![Subsets[at].name] = Empty]
  /\ UNCHANGED <<fetched, src, manifest, registry>>

(* Slip: a source that cannot be read leaves the subset as it is.          *)
ParseFailsIgnored ==
  /\ pc = "parse"
  /\ ~Parses(Subsets[at])
  /\ Goto("subset", at + 1)
  /\ UNCHANGED files

(* An uncaught exception: set -e ends the script.                          *)
ParseFails ==
  /\ pc = "parse"
  /\ ~Parses(Subsets[at])
  /\ EndRun("failed")
  /\ UNCHANGED files

WriteSubset ==
  /\ pc = "write"
  /\ LET s      == Subsets[at]
         f      == out[s.name]
         picked == Pick(s, src[s.name].read)
     IN  IF f.recs = picked
         THEN /\ Goto("subset", at + 1)
              /\ manifest' = [manifest EXCEPT ![s.name] = picked]
              /\ UNCHANGED <<fetched, src, out, registry>>
         ELSE /\ Goto("write", at)
              /\ out' = [out EXCEPT ![s.name] =
                   IF f.torn THEN [recs |-> Append(f.recs, picked[Len(f.recs) + 1]), torn |-> FALSE]
                   ELSE [f EXCEPT !.torn = TRUE]]
              /\ UNCHANGED <<fetched, src, manifest, registry>>

OpenRegistry ==
  /\ pc = "subset" /\ at > Len(Subsets)
  /\ Goto("registry", at)
  /\ registry' = <<>>
  /\ UNCHANGED <<fetched, src, out, manifest>>

WriteRegistry ==
  /\ pc = "registry"
  /\ EndRun("ok")
  /\ registry' = [n \in Named |-> \E k \in DOMAIN Subsets : Subsets[k].name = n /\ Subsets[k].url]
  /\ UNCHANGED <<fetched, src, out, manifest>>

(* Killed, or the network fails, wherever it is.                           *)
Abort ==
  /\ pc # "idle"
  /\ aborts < MaxAborts
  /\ aborts' = aborts + 1
  /\ pc' = "idle" /\ last' = "failed"
  /\ UNCHANGED <<at, mode, force, files, measurement>>

RunStep ==
  \/ Fetch \/ EndFetch
  \/ BeginSubset \/ Download \/ Parse \/ ParseFails \/ WriteSubset
  \/ OpenRegistry \/ WriteRegistry

(***************************************************************************)
(* The measurement                                                         *)
(***************************************************************************)

(* gate_dataset_ready *)
DatasetReady(m) ==
  LET ds == m["workload"]["dataset"]
  IN  \/ ds \in Composed
      \/ Artifact[ds] \in DOMAIN registry /\ registry[Artifact[ds]]
      \/ asked.allow

(* receipt.py main *)
Gate ==
  /\ client = "idle"
  /\ cfg' = Expand(asked.cell, asked.precision, asked.smoke)
  /\ client' = IF cfg' # None /\ StaticGates(cfg') /\ DatasetReady(cfg') THEN "gated" ELSE "refused"
  /\ UNCHANGED <<script, files, asked, loaded, cases>>

Loaded(name, records) ==
  /\ loaded' = [n \in DOMAIN loaded \cup {name} |-> IF n = name THEN records ELSE loaded[n]]
  /\ UNCHANGED client

Fallback == <<-1, -2, -3>>

(* Slip: the synthetic records stand in for missing ones, allowed or not   *)
LoadAlways ==
  /\ client = "gated" /\ Cardinality(DOMAIN loaded) < Len(Loads(cfg["meta"]["cell"]))
  /\ LET name == Loads(cfg["meta"]["cell"])[Cardinality(DOMAIN loaded) + 1]
     IN  IF out[name] = None THEN Loaded(name, Fallback) ELSE Loaded(name, out[name].recs)
  /\ UNCHANGED <<script, files, asked, cfg, cases>>

(* load_subset: raises on half a line, and without a file unless allowed.  *)
(* On ShareGPT as downloaded it raises too, or, where all of that is one   *)
(* line, the case made of it does.                                         *)
Load ==
  /\ client = "gated" /\ Cardinality(DOMAIN loaded) < Len(Loads(cfg["meta"]["cell"]))
  /\ LET name == Loads(cfg["meta"]["cell"])[Cardinality(DOMAIN loaded) + 1]
     IN  IF out[name] = None /\ asked.allow THEN Loaded(name, Fallback)
         ELSE IF out[name] # None /\ ~out[name].torn THEN Loaded(name, out[name].recs)
         ELSE client' = "raised" /\ UNCHANGED loaded
  /\ UNCHANGED <<script, files, asked, cfg, cases>>

(* A subset without records cannot be wrapped around (the corpus of a3 can *)
(* be empty).                                                              *)
Build ==
  /\ client = "gated" /\ Cardinality(DOMAIN loaded) = Len(Loads(cfg["meta"]["cell"]))
  /\ IF cfg["meta"]["cell"] # "a3-32k" /\ \E name \in DOMAIN loaded : loaded[name] = <<>>
     THEN client' = "raised" /\ UNCHANGED cases
     ELSE client' = "ready" /\ cases' = GenerateCases(cfg, loaded)
  /\ UNCHANGED <<script, files, asked, cfg, loaded>>

Next ==
  \/ \E m \in DOMAIN First, f \in BOOLEAN : StartRun(m, f)
  \/ RunStep \/ Abort
  \/ Gate \/ Load \/ Build

Spec == Init /\ [][Next]_vars

(* A script that runs goes on, and an operator whose runs fail sets        *)
(* FORCE=1 some time; nobody has to measure.                               *)
FairSpec == Spec /\ WF_vars(RunStep) /\ SF_vars(StartRun("all", TRUE))

(***************************************************************************)
(* Properties                                                              *)
(***************************************************************************)

TypeOK ==
  /\ pc \in {"idle", "fetch", "fetching", "subset", "download", "parse", "write", "registry"}
  /\ at \in 1 .. Len(Items) + Len(Subsets) + 1
  /\ last \in {None, "ok", "failed"}
  /\ aborts \in 0 .. MaxAborts
  /\ fetched \in [DOMAIN Items -> {"absent", "part", "whole"}]
  /\ \A n \in Named : src[n] # None => src[n].read \in 0 .. Len(Upstream[n])
  /\ \A n \in Named : out[n] # None => Len(out[n].recs) <= Len(Upstream[n])
  /\ DOMAIN registry \in {{}, Named}
  /\ client \in {"idle", "gated", "refused", "raised", "ready"}
  /\ DOMAIN loaded \subseteq Named

Real == {k \in DOMAIN Subsets : Subsets[k].url}

(* A data set the registry calls materialised has its subset and its       *)
(* manifest on disk, even after a run that was killed (the gate of         *)
(* receipt.py 60 looks at nothing else).                                   *)
ReadyHasFile ==
  \A k \in DOMAIN Subsets :
    LET name == Subsets[k].name
    IN  (name \in DOMAIN registry /\ registry[name]) => out[name] # None /\ manifest[name] # None

(* After a run of `subsets` or `all` that ended well the subset, its       *)
(* manifest and the registry agree, whatever earlier runs left behind.     *)
SuccessIsCoherent ==
  (pc = "idle" /\ last = "ok" /\ mode \in {"all", "subsets"}) =>
    \A k \in Real :
      LET name == Subsets[k].name
      IN  /\ name \in DOMAIN registry /\ registry[name]
          /\ out[name] # None /\ src[name] # None
          /\ ~out[name].torn
          /\ out[name].recs = manifest[name]
          /\ out[name].recs = Pick(Subsets[k], src[name].read)

(* What the registry says is true of the files beside it.                  *)
RegistryIsTrue == ReadyHasFile /\ SuccessIsCoherent

(* common.py:105: datasets/<name>.jsonl is what `prepare.sh subsets` made, *)
(* each line a record, in the order of the manifest.  Where no run ever    *)
(* failed, that is so of every data set the registry calls ready.          *)
ReadyIsTheSubset ==
  (pc = "idle" /\ last = "ok") =>
    \A k \in Real :
      LET name == Subsets[k].name
      IN  (name \in DOMAIN registry /\ registry[name]) =>
            out[name] = [recs |-> manifest[name], torn |-> FALSE]

SubsetsRepaired == \A k \in Real : out[Subsets[k].name] = [recs |-> Fixed(Subsets[k]), torn |-> FALSE]
ItemsRepaired ==
  \A i \in DOMAIN Items : Shared(i) \/ (Items[i] = "dataset" /\ ~DatasetUrl) \/ fetched[i] = "whole"
AllRepaired == SubsetsRepaired /\ ItemsRepaired

(* A measurement that did not allow missing data sets is built from        *)
(* records behind the url, in the fixed order, whatever prepare.sh does    *)
(* meanwhile: short perhaps, but never torn and never made up.             *)
MeasuredOnRealData ==
  ~asked.allow =>
    \A k \in DOMAIN Subsets : Subsets[k].name \in DOMAIN loaded =>
      \E read \in 0 .. Len(Upstream[Subsets[k].name]) :
        LET records == loaded[Subsets[k].name]
        IN  Len(records) <= Len(Pick(Subsets[k], read))
            /\ records = FirstOf(Pick(Subsets[k], read), Len(records))

Gated == client \in {"gated", "ready"}

(* The caps of a configuration that was gated are those capacity_scan      *)
(* computes, for a smoke run too: it is not refused later (arrival.py 83). *)
CapsSurviveSmoke ==
  (Gated /\ Get(cfg, "workload", "caps") # None) =>
    cfg["workload"]["caps"] = RequestCaps(cfg["workload"]["rates"], PerRate(cfg))

(* The server of a measurement quantises exactly when W8A8 was asked for,  *)
(* whatever the cell's file says and before any gate asks (the overlay of  *)
(* acceptance.py 186, the argv of 105).                                    *)
PrecisionReachesServer ==
  cfg # None => ("quantization" \in DOMAIN Argv(cfg)) = (asked.precision = "W8A8")

(* No flag of the server is left without its value (acceptance.py 109):    *)
(* what is emitted unconditionally the schema requires.                    *)
EveryFlagHasItsValue == Gated => \A f \in DOMAIN Argv(cfg) : Argv(cfg)[f] # None

(* The client's contract is the same for each precision of the cell        *)
(* (common.py 5, generate.py 15).                                          *)
SameContract ==
  Gated => \A p \in CellFiles[asked.cell]["meta"]["precisions"] :
    LET other == Expand(asked.cell, p, asked.smoke)
    IN  other # None => ConfigHash(other) = ConfigHash(cfg)

(* The overlays of two roles differ in role fields only, and share the     *)
(* identity of their configuration; any other field that differs is seen   *)
(* by both comparisons (roles.py 130, 154).                                *)
RolesDifferInRolesOnly ==
  Gated =>
    LET b0 == ApplyRole(cfg, "B0", "SYSTEM_DELIVERY", <<>>)
        b1 == ApplyRole(cfg, "B1", "SYSTEM_DELIVERY", [rf \in {<<"model", "artifact">>} |-> "candidate"])
        shared == WithoutRoles(b0)
    IN  /\ RolesEqual(b0, b1) /\ shared = WithoutRoles(b1)
        /\ \A s \in DiffSections \cap DOMAIN b1 : \A f \in DOMAIN b1[s] :
             (<<s, f>> \notin RoleFields /\ b1[s][f] # None) =>
               LET odd == [b1 EXCEPT ![s][f] = None]
               IN  ~RolesEqual(b0, odd) /\ shared # WithoutRoles(odd)

(* The profile a measurement was started with means the same to operator,  *)
(* server, client and comparison.                                          *)
ProfileConsistent ==
  /\ CapsSurviveSmoke
  /\ PrecisionReachesServer
  /\ EveryFlagHasItsValue
  /\ SameContract
  /\ RolesDifferInRolesOnly

(* The rounds of a session come in order and without a gap: the executor   *)
(* builds the history of a round from those before it (executor.py 10).    *)
RoundsInOrder ==
  cases # None =>
    \A i \in DOMAIN cases :
      (cases[i].session # None /\ cases[i].round > 0) =>
        \E j \in 1 .. i - 1 :
          /\ cases[j].session = cases[i].session /\ cases[j].tenant = cases[i].tenant
          /\ cases[j].round = cases[i].round - 1
          /\ \A k \in j + 1 .. i - 1 :
               cases[k].session # cases[i].session \/ cases[k].tenant # cases[i].tenant

(* However often a run was killed or a subset was overwritten by the data  *)
(* set of its name, everything is whole and fixed again some time, and     *)
(* again after every later run.  Where the data set is written to the file *)
(* of a subset, that file is the subset's: the download itself is gone.    *)
RecoversWithForce == []<>(pc = "idle" /\ last = "ok" /\ AllRepaired)
=============================================================================
