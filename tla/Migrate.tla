------------------------------- MODULE Migrate -------------------------------
(* gs migrate (cmdMigrate in cmd/gs/main.go, RestoreSystemState in
   internal/extractor/extractor.go): extract from the source, provision the
   target, restore on it.  One step here is one item; Extract, Provision,
   RestoreFile and Workloads have the commands each step consists of, and what
   a step may leave behind here is what Install promises of it.  Meanwhile the
   source stays in use, the services that were provisioned run on the target,
   and gs may die and be run again.                                           *)
EXTENDS Integers, FiniteSets

CONSTANTS
    Items,         \* files and workloads of the source
    Class,         \* item -> "db", "cert", "xray", "text", "key", "docker" or "nomad"
    MaxFaults,     \* bound: failed steps and deaths of gs
    MaxChanges     \* bound: writes by the programs on source and target

ExtractRank == [cert |-> 1, xray |-> 2, db |-> 3, text |-> 4, key |-> 5, docker |-> 6, nomad |-> 7]
RestoreRank == [db |-> 1, cert |-> 2, xray |-> 3, docker |-> 4, nomad |-> 5]

ASSUME MigrateAssumption ==
    /\ Class \in [Items -> DOMAIN ExtractRank]
    /\ MaxFaults \in Nat /\ MaxChanges \in Nat

(* A file on the target is a version of the source's or one of these. *)
Absent == 0
Cut    == -1       \* an interrupted write
Own    == -2       \* written by a service of the target

VARIABLES
    manifest,      \* "valid" or "invalid"
    big,           \* files that do not fit in a command line, once encoded
    src,           \* source: version of every item, 0 when missing
    tgt,           \* target: its files
    started,       \* target: the workloads brought up from the source's
    serving,       \* target: the services of the manifest have been started
    late,          \* target: writes still under way, as <<item, version>>
    pc, todo,      \* gs: the phase, and the items it has still to do
    state,         \* gs: SystemState, item -> version
    logged,        \* gs: items whose restore failed and was logged
    began,         \* history: src when this run began
    touched,       \* history: files others wrote since this run began
    faults, changes

target == <<tgt, started, serving, late>>
bounds == <<faults, changes>>
vars == <<manifest, big, src, target, pc, todo, state, logged, began, touched, bounds>>

Is(classes) == {i \in Items : Class[i] \in classes}
Workloads   == Is({"docker", "nomad"})
Files       == Items \ Workloads
Restorable  == Is(DOMAIN RestoreRank)

(* The items of a phase are done class by class; inside a class they come out of
   a Go map, in any order.                                                    *)
Earliest(items, rank) == {i \in items : \A j \in items : rank[Class[i]] <= rank[Class[j]]}

Init ==
    /\ manifest \in {"valid", "invalid"}
    /\ big \in SUBSET Is({"db"})
    /\ src \in [Items -> {0, 1}]
    /\ tgt \in [Files -> {Absent}]
    /\ started = {}
    /\ serving = "no"
    /\ late = {}
    /\ pc = "exit"
    /\ todo = {}
    /\ state = <<>>
    /\ logged = {}
    /\ began = src
    /\ touched = {}
    /\ faults = 0
    /\ changes = 0

Answered == UNCHANGED bounds
Lost     == faults < MaxFaults /\ faults' = faults + 1 /\ UNCHANGED changes
Disturb  == changes < MaxChanges /\ changes' = changes + 1 /\ UNCHANGED faults

Goto(next) == pc' = next
Exit       == Goto("exit")
------------------------------------------------------------------------------
(* Mutant: a new run starts from what the last one extracted. *)
BeginWithState ==
    /\ pc \in {"exit", "done"}
    /\ IF manifest = "valid" THEN Goto("source") ELSE Exit
    /\ logged' = {}
    /\ touched' = {}
    /\ began' = src
    /\ todo' = {}
    /\ UNCHANGED <<manifest, big, src, target, state, bounds>>

(* gs migrate is started, and loads the manifest. *)
Begin ==
    /\ pc \in {"exit", "done"}
    /\ IF manifest = "valid" THEN Goto("source") ELSE Exit
    /\ state' = <<>>
    /\ logged' = {}
    /\ touched' = {}
    /\ began' = src
    /\ todo' = {}
    /\ UNCHANGED <<manifest, big, src, target, bounds>>

ConnectSource ==
    /\ pc = "source"
    /\ \/ Answered /\ Goto("extract") /\ todo' = Items
       \/ Lost /\ Exit /\ UNCHANGED todo
    /\ UNCHANGED <<manifest, big, began, src, target, state, logged, touched>>

Kept(i) == [j \in DOMAIN state \cup {i} |-> IF j = i THEN src[i] ELSE state[j]]

(* An item that is missing or cannot be read is left out of the state. *)
ExtractItem ==
    /\ pc = "extract"
    /\ \E i \in Earliest(todo, ExtractRank) :
          /\ todo' = todo \ {i}
          /\ \/ Answered /\ src[i] # 0 /\ state' = Kept(i)
             \/ Answered /\ src[i] = 0 /\ UNCHANGED state
             \/ Lost /\ UNCHANGED state
    /\ UNCHANGED <<manifest, big, began, src, target, pc, logged, touched>>

(* ValidateState asks for the host name, which is the manifest's and which
   config.Load has asked for already: even an empty state is valid.           *)
Validate ==
    /\ pc = "extract"
    /\ todo = {}
    /\ Goto("target")
    /\ UNCHANGED <<manifest, big, began, src, target, todo, state, logged, touched, bounds>>

ConnectTarget ==
    /\ pc = "target"
    /\ \/ Answered /\ Goto("provision")
       \/ Lost /\ Exit
    /\ UNCHANGED <<manifest, big, began, src, target, todo, state, logged, touched>>

(* Mutant: nothing is left out. *)
ProvisionForAll ==
    /\ pc = "provision"
    /\ Answered
    /\ serving' = "yes"
    /\ Goto("restore")
    /\ todo' = DOMAIN state
    /\ UNCHANGED <<manifest, big, began, src, tgt, started, late, state, logged, touched>>

(* Provisioning that fails may have started the services all the same. *)
Provision ==
    /\ pc = "provision"
    /\ \/ /\ Answered
          /\ serving' = "yes"
          /\ Goto("restore")
          /\ todo' = DOMAIN state \cap Restorable
       \/ /\ Lost
          /\ serving' \in {serving, "yes"}
          /\ Exit
          /\ UNCHANGED todo
    /\ UNCHANGED <<manifest, big, began, src, tgt, started, late, state, logged, touched>>

(* Mutant: a file that is there is left alone. *)
RestoreFileIfAbsent(i) ==
    /\ Answered
    /\ tgt' = [tgt EXCEPT ![i] = IF @ = Absent THEN state[i] ELSE @]
    /\ touched' = touched \ {i}
    /\ UNCHANGED <<started, late, logged>>

(* restoreBytesIfChanged: it installed the file; or the file is too big for the
   command that would write it; or it failed and may have left the file cut, or
   a write under way; or a service wrote the file before gs verified it.
   RestoreSystemState logs the failure and goes on.                           *)
RestoreFile(i) ==
    \/ /\ i \notin big
       /\ Answered
       /\ tgt' = [tgt EXCEPT ![i] = state[i]]
       /\ touched' = touched \ {i}
       /\ UNCHANGED <<started, late, logged>>
    \/ /\ i \in big
       /\ Answered
       /\ logged' = logged \cup {i}
       /\ UNCHANGED <<tgt, started, late, touched>>
    \/ /\ i \notin big
       /\ Lost
       /\ logged' = logged \cup {i}
       /\ \/ (\E f \in {tgt[i], Cut, state[i]} : tgt' = [tgt EXCEPT ![i] = f]) /\ UNCHANGED late
          \/ late' = late \cup {<<i, state[i]>>} /\ UNCHANGED tgt
       /\ UNCHANGED <<started, touched>>
    \/ /\ Disturb
       /\ serving = "yes" /\ i \notin big
       /\ Class[i] = "db"
       /\ tgt' = [tgt EXCEPT ![i] = Own]
       /\ logged' = logged \cup {i}
       /\ UNCHANGED <<started, late, touched>>

(* RestoreDockerState and RestoreNomadState *)
RestoreWorkload(i) ==
    /\ \/ Answered /\ started' = started \cup {i} /\ UNCHANGED logged
       \/ Lost /\ started' \in {started, started \cup {i}} /\ logged' = logged \cup {i}
    /\ UNCHANGED <<tgt, late, touched>>

(* Mutant: the workloads are started before their files are in place. *)
RestoreItemAnyOrder ==
    /\ pc = "restore"
    /\ \E i \in todo :
          /\ todo' = todo \ {i}
          /\ IF i \in Workloads THEN RestoreWorkload(i) ELSE RestoreFile(i)
    /\ UNCHANGED <<manifest, big, began, src, serving, pc, state>>

RestoreItem ==
    /\ pc = "restore"
    /\ \E i \in Earliest(todo, RestoreRank) :
          /\ todo' = todo \ {i}
          /\ IF i \in Workloads THEN RestoreWorkload(i) ELSE RestoreFile(i)
    /\ UNCHANGED <<manifest, big, began, src, serving, pc, state>>

(* "Migration completed successfully!", whatever was logged. *)
Finish ==
    /\ pc = "restore"
    /\ todo = {}
    /\ Goto("done")
    /\ UNCHANGED <<manifest, big, began, src, target, todo, state, logged, touched, bounds>>
------------------------------------------------------------------------------
Crash ==
    /\ pc \notin {"exit", "done"}
    /\ Lost
    /\ Exit
    /\ UNCHANGED <<manifest, big, began, src, target, todo, state, logged, touched>>

(* A write whose connection was lost comes to its end. *)
LateWrite ==
    /\ \E w \in late :
          /\ late' = late \ {w}
          /\ \E f \in {w[2], Cut} : tgt' = [tgt EXCEPT ![w[1]] = f]
          /\ touched' = touched \cup {w[1]}
    /\ UNCHANGED <<manifest, big, began, src, started, serving, pc, todo, state, logged, bounds>>

(* The source is in use. *)
SourceWrites ==
    /\ Disturb
    /\ \E i \in Items : src' = [src EXCEPT ![i] = @ + 1]
    /\ UNCHANGED <<manifest, big, began, target, pc, todo, state, logged, touched>>

(* So is a database of the target once a service runs there. *)
TargetWrites ==
    /\ Disturb
    /\ serving = "yes" \/ started # {}
    /\ \E i \in Is({"db"}) : tgt' = [tgt EXCEPT ![i] = Own] /\ touched' = touched \cup {i}
    /\ UNCHANGED <<manifest, big, began, src, started, serving, late, pc, todo, state, logged>>

Step ==
    \/ Begin \/ ConnectSource \/ ExtractItem \/ Validate
    \/ ConnectTarget \/ Provision \/ RestoreItem \/ Finish
Next == Step \/ Crash \/ LateWrite \/ SourceWrites \/ TargetWrites

Spec == Init /\ [][Next]_vars

(* gs goes on with what it does, and is run again and again. *)
FairSpec == Spec /\ WF_vars(Step)
------------------------------------------------------------------------------
Versions == 1..(MaxChanges + 1)
TypeOK ==
    /\ manifest \in {"valid", "invalid"}
    /\ big \subseteq Files
    /\ src \in [Items -> {0} \cup Versions] /\ began \in [Items -> {0} \cup Versions]
    /\ tgt \in [Files -> {Absent, Cut, Own} \cup Versions]
    /\ started \subseteq Workloads
    /\ serving \in {"no", "yes"}
    /\ late \subseteq Files \X Versions
    /\ pc \in {"exit", "source", "extract", "target", "provision", "restore", "done"}
    /\ todo \subseteq Items
    /\ pc = "restore" => todo \subseteq DOMAIN state \cap Restorable
    /\ DOMAIN state \subseteq Items
    /\ logged \subseteq Restorable /\ touched \subseteq Files
    /\ faults \in 0..MaxFaults /\ changes \in 0..MaxChanges

(* Workloads start on complete data: once one of this run's workloads is being
   restored, and at the end, every file that was extracted is on the target, or
   its failure was logged, or another program has written it since
   (extractor.go:237-287).                                                    *)
DataBeforeWorkloads ==
    pc = "done" \/ (pc = "restore" /\ DOMAIN state \cap Workloads # todo \cap Workloads) =>
        \A i \in DOMAIN state \cap Restorable \cap Files :
            tgt[i] = state[i] \/ i \in logged \/ i \in touched

(* A migration that came to its end leaves no extracted file older than the one
   the source had when it began, even if what an earlier run extracted was older
   and reading it failed this time, unless that was logged or another program
   wrote the file (main.go:227-256, extractor.go:34-46).                      *)
NothingOlder ==
    pc = "done" => \A i \in DOMAIN state \cap Restorable \cap Files :
        tgt[i] \in began[i]..src[i] \/ i \in logged \/ i \in touched

(* Migrations that are repeated bring the target to what the source has, except
   for files that are too big, however the earlier ones failed and although
   their restore failures end no run (main.go:176-263, extractor.go:234-289). *)
RerunsMigrate ==
    <>[](manifest = "valid" =>
            /\ \A i \in (Restorable \cap Files) \ big : src[i] # 0 => tgt[i] = src[i]
            /\ \A i \in Workloads : src[i] # 0 => i \in started)

(* main.go:258 and 261: "Migration completed successfully!", "Databases
   migrated: %d", the number of databases in the state.                       *)
CountedMeansMigrated ==
    pc = "done" => \A i \in DOMAIN state \cap Is({"db"}) : tgt[i] = state[i] \/ i \in touched
==============================================================================
