------------------------------ MODULE Workloads ------------------------------
(* internal/nomad/docker.go and nomad.go: the containers, volumes, compose
   project and nomad jobs of the source are captured, then recreated on the
   target.  Failures are logged and skipped; whole migrations may be repeated
   after partial ones, and gs may die in the middle.                          *)
EXTENDS Naturals, Sequences, SequencesExt

CONSTANTS
    Containers,    \* source: docker ps -a, as records [name, image, line, bindings]
    Volumes,       \* source: docker volume ls
    Composed,      \* source: names of the containers of its compose file
    Jobs,          \* source: nomad job list
    Ephemeral,     \* target: the host port docker picks for a bare `-p port'
    MaxFaults      \* bound: failed commands and deaths of gs

ASSUME WorkloadsAssumption ==
    /\ MaxFaults \in Nat
    /\ Containers \in Seq([name : STRING, image : STRING, line : {"ok", "bad"},
                           bindings : SUBSET (Nat \X Nat)])
    /\ \A i, j \in DOMAIN Containers : Containers[i].name = Containers[j].name => i = j
    /\ Volumes \in Seq(STRING) /\ Jobs \in Seq(STRING)
    /\ Composed \subseteq {Containers[i].name : i \in DOMAIN Containers}

VARIABLES
    tools,         \* target: which of docker and nomad work
    images,        \* target: images present
    up,            \* target: container name -> published ports <<host, container>>
    dirs,          \* target: volumes whose _data directory exists
    files,         \* target: volume -> directories of it that hold its files
    jobs,          \* target: jobs submitted to nomad
    tmp,           \* target: item -> its file in /tmp
    ext,           \* gs: what was captured
    pc, todo,      \* gs: the next command and the items it is still to be sent for
    trouble,       \* history: items a command failed for when they were last restored
    faults

target == <<tools, images, up, dirs, files, jobs, tmp>>
vars == <<target, ext, pc, todo, trouble, faults>>

Volume(v) == <<"volume", v>>
Job(j)    == <<"job", j>>
Compose   == <<"compose", "">>
Running(c) == <<"container", c>>
TmpItems == {Volume(Volumes[i]) : i \in DOMAIN Volumes} \cup {Job(Jobs[i]) : i \in DOMAIN Jobs}

Nothing == [containers |-> <<>>, volumes |-> <<>>, compose |-> "no", jobs |-> <<>>]
AllImages == {Containers[i].image : i \in DOMAIN Containers}

Init ==
    /\ tools \in SUBSET {"docker", "nomad"}
    /\ images \in SUBSET AllImages
    /\ up = <<>>
    /\ dirs = {}
    /\ files = [v \in ToSet(Volumes) |-> {}]
    /\ jobs = {}
    /\ tmp = [i \in TmpItems |-> "none"]
    /\ ext = Nothing
    /\ pc = "idle"
    /\ todo = <<>>
    /\ trouble = {}
    /\ faults = 0

Answered == UNCHANGED faults
Lost == faults < MaxFaults /\ faults' = faults + 1

(* The next command is `at' for the items `items', or `after' if there is none. *)
Go(at, items, after) ==
    /\ pc' = IF items = <<>> THEN after ELSE at
    /\ todo' = items
------------------------------------------------------------------------------
(* Capturing.  Nothing on the target changes. *)
Begin ==
    /\ pc \in {"idle", "done"}
    /\ pc' = "ps"
    /\ todo' = <<>>
    /\ ext' = Nothing
    /\ UNCHANGED <<target, trouble, faults>>

Ps ==
    /\ pc = "ps"
    /\ \/ Answered /\ Go("inspect", Containers, "volumes")
       \/ Lost /\ Go("inspect", <<>>, "volumes")
    /\ UNCHANGED <<target, ext, trouble>>

(* Mutant: the host ports are kept for the container ports. *)
InspectHostPorts ==
    LET c    == Head(todo)
        full == [name |-> c.name, image |-> c.image, ports |-> {b[1] : b \in c.bindings}]
    IN  /\ pc = "inspect"
        /\ Answered
        /\ \/ c.line = "ok" /\ ext' = [ext EXCEPT !.containers = Append(@, full)]
           \/ c.line # "ok" /\ UNCHANGED ext
        /\ Go("inspect", Tail(todo), "volumes")
        /\ UNCHANGED <<target, trouble>>

(* A line of docker ps that does not unmarshal into ContainerConfig is dropped.
   docker inspect: of a port binding only the container port is kept.  When it
   fails the container is kept as docker ps had it, without a name.           *)
Inspect ==
    LET c    == Head(todo)
        full == [name |-> c.name, image |-> c.image, ports |-> {b[2] : b \in c.bindings}]
        bare == [name |-> "", image |-> c.image, ports |-> {}]
    IN  /\ pc = "inspect"
        /\ \/ c.line = "ok" /\ Answered /\ ext' = [ext EXCEPT !.containers = Append(@, full)]
           \/ c.line = "ok" /\ Lost /\ ext' = [ext EXCEPT !.containers = Append(@, bare)]
           \/ c.line # "ok" /\ Answered /\ UNCHANGED ext
        /\ Go("inspect", Tail(todo), "volumes")
        /\ UNCHANGED <<target, trouble>>

ListVolumes ==
    /\ pc = "volumes"
    /\ \/ Answered /\ Go("tar", Volumes, "compose")
       \/ Lost /\ Go("tar", <<>>, "compose")
    /\ UNCHANGED <<target, ext, trouble>>

TarVolume ==
    /\ pc = "tar"
    /\ \/ Answered /\ ext' = [ext EXCEPT !.volumes = Append(@, Head(todo))]
       \/ Lost /\ UNCHANGED ext
    /\ Go("tar", Tail(todo), "compose")
    /\ UNCHANGED <<target, trouble>>

(* extractDockerCompose: a failed read moves on to paths where nothing is. *)
ReadCompose ==
    /\ pc = "compose"
    /\ pc' = "nomad"
    /\ \/ Answered /\ ext' = [ext EXCEPT !.compose = IF Composed = {} THEN "no" ELSE "yes"]
       \/ Lost /\ UNCHANGED ext
    /\ UNCHANGED <<target, todo, trouble>>

(* Four commands; either of the last two, docker --version and which containerd,
   may fail as long as the other answers.                                     *)
ValidateNomadInstall ==
    /\ pc = "nomad"
    /\ \/ Answered /\ pc' = "jobs"
       \/ Lost /\ pc' \in {"jobs", "restore"}
    /\ UNCHANGED <<target, ext, todo, trouble>>

ListJobs ==
    /\ pc = "jobs"
    /\ \/ Answered /\ Go("job", Jobs, "restore")
       \/ Lost /\ Go("job", <<>>, "restore")
    /\ UNCHANGED <<target, ext, trouble>>

InspectJob ==
    /\ pc = "job"
    /\ \/ Answered /\ ext' = [ext EXCEPT !.jobs = Append(@, Head(todo))]
       \/ Lost /\ UNCHANGED ext
    /\ Go("job", Tail(todo), "restore")
    /\ UNCHANGED <<target, trouble>>
------------------------------------------------------------------------------
(* Restoring: volumes, the compose project, containers, then the nomad jobs. *)
StartJobs == Go("jwrite", ext.jobs, "done")
StartContainers == Go("run", ext.containers, "done")
StartVolumes(volumes) ==
    \/ volumes # <<>> /\ Go("vmkdir", volumes, "")
    \/ volumes = <<>> /\ ext.compose = "yes" /\ Go("", <<>>, "cwrite")
    \/ volumes = <<>> /\ ext.compose = "no" /\ StartContainers

(* Without a single container all of docker is left out. *)
Restore ==
    /\ pc = "restore"
    /\ \/ ext.containers = <<>> /\ StartJobs
       \/ ext.containers # <<>> /\ StartVolumes(ext.volumes)
    /\ UNCHANGED <<target, ext, trouble, faults>>

(* Done with one item: it failed, or it is fine again. *)
Fail(item) == trouble' = trouble \cup {item}
Fine(item) == trouble' = trouble \ {item}

(* restoreVolumeData goes through a Go map: the volumes come in any order.  The
   error of mkdir is ignored.                                                 *)
VolumeMkdir ==
    /\ pc = "vmkdir"
    /\ pc' = "vwrite"
    /\ \E i \in DOMAIN todo :
          /\ todo' = <<todo[i]>> \o RemoveAt(todo, i)
          /\ \/ Answered /\ dirs' = dirs \cup {todo[i]}
             \/ Lost /\ UNCHANGED dirs
    /\ UNCHANGED <<tools, images, up, files, jobs, tmp, ext, trouble>>

NextVolume == StartVolumes(Tail(todo))

(* The archive is sent raw in a here-document.  It holds bytes a command line
   cannot carry, so it may arrive cut short although the command succeeds.    *)
VolumeWrite ==
    LET v == Head(todo)
    IN  /\ pc = "vwrite"
        /\ \/ Answered /\ pc' = "vtar" /\ UNCHANGED <<todo, trouble>>
              /\ \E q \in {"whole", "cut"} : tmp' = [tmp EXCEPT ![Volume(v)] = q]
           \/ Lost /\ NextVolume /\ Fail(Volume(v))
              /\ \E q \in {tmp[Volume(v)], "whole", "cut"} : tmp' = [tmp EXCEPT ![Volume(v)] = q]
        /\ UNCHANGED <<tools, images, up, dirs, files, jobs, ext>>

(* The archive was made in the directory above _data and is unpacked in _data. *)
MountPoint == <<"_data">>
Unpacked(entry) == MountPoint \o entry

(* Mutant: the archive is removed only by the next restore of the volume. *)
VolumeUnpackKeepingTmp ==
    LET v == Head(todo)
    IN  /\ pc = "vtar"
        /\ Answered
        /\ NextVolume
        /\ files' = [files EXCEPT ![v] = @ \cup {Unpacked(MountPoint)}]
        /\ Fine(Volume(v))
        /\ UNCHANGED <<tools, images, up, dirs, jobs, tmp, ext>>

(* tar xzf .. && rm ..: a failed tar keeps the archive, and may have unpacked
   some of it before it failed.                                               *)
VolumeUnpack ==
    LET v  == Head(todo)
        ok == tmp[Volume(v)] = "whole" /\ v \in dirs
        unpacked == [files EXCEPT ![v] = @ \cup {Unpacked(MountPoint)}]
        removed  == [tmp EXCEPT ![Volume(v)] = "none"]
    IN  /\ pc = "vtar"
        /\ NextVolume
        /\ \/ ok /\ Answered /\ files' = unpacked /\ tmp' = removed /\ Fine(Volume(v))
           \/ /\ ~ok /\ Answered /\ UNCHANGED tmp /\ Fail(Volume(v))
              /\ files' \in IF v \in dirs THEN {files, unpacked} ELSE {files}
           \/ Lost /\ files' \in {files, unpacked} /\ tmp' \in {tmp, removed} /\ ok /\ Fail(Volume(v))
        /\ UNCHANGED <<tools, images, up, dirs, jobs, ext>>

(* restoreComposeYaml: the file, then docker compose up, which pulls its images
   and publishes the ports the file names.  It fails when `docker run' of an
   earlier migration has taken a name of the project; which other services it
   has started by then is open.                                               *)
ComposeWrite ==
    /\ pc = "cwrite"
    /\ \/ Answered /\ pc' = "cup" /\ UNCHANGED <<todo, trouble>>
       \/ Lost /\ StartContainers /\ Fail(Compose)
    /\ UNCHANGED <<target, ext>>

Service(n) == CHOOSE c \in ToSet(Containers) : c.name = n
Squatters == {n \in Composed \cap DOMAIN up : up[n] # Service(n).bindings}
Started(names) ==
    [n \in DOMAIN up \cup names |-> IF n \in DOMAIN up THEN up[n] ELSE Service(n).bindings]
Pulled(names) == images \cup {Service(n).image : n \in names}
ComposeUp ==
    /\ pc = "cup"
    /\ StartContainers
    /\ \/ /\ "docker" \notin tools
          /\ Answered
          /\ UNCHANGED <<up, images>>
          /\ Fail(Compose)
       \/ /\ "docker" \in tools /\ Squatters = {}
          /\ Answered
          /\ up' = Started(Composed) /\ images' = Pulled(Composed)
          /\ Fine(Compose)
       \/ /\ "docker" \in tools
          /\ (Squatters # {} /\ Answered) \/ Lost
          /\ \E done \in SUBSET (Composed \ Squatters), pulled \in SUBSET Composed :
                /\ done \subseteq pulled
                /\ up' = Started(done) /\ images' = Pulled(pulled)
          /\ Fail(Compose)
    /\ UNCHANGED <<tools, dirs, files, jobs, tmp, ext>>

(* Mutants: the first failure ends the loop, or the whole restore. *)
AfterContainerAbort(failed) ==
    IF failed \/ Len(todo) = 1 THEN StartJobs ELSE Go("run", Tail(todo), "done")
AfterContainerReturn(failed) ==
    CASE failed        -> Go("", <<>>, "done")
      [] ~failed /\ Len(todo) = 1 -> StartJobs
      [] OTHER         -> Go("run", Tail(todo), "done")

(* The loop of RestoreDockerState goes on after a failure. *)
AfterContainer(failed) ==
    IF Len(todo) = 1 THEN StartJobs ELSE Go("run", Tail(todo), "done")

(* restoreContainer: docker run needs a free name, and the image on the target,
   for docker inspect names it by its id; it picks the host ports itself.     *)
RunContainer ==
    LET c  == Head(todo)
        ok == "docker" \in tools /\ c.name \notin DOMAIN up \cup {""} /\ c.image \in images
        started == [n \in DOMAIN up \cup {c.name} |->
                       IF n \in DOMAIN up THEN up[n] ELSE {<<Ephemeral, p>> : p \in c.ports}]
    IN  /\ pc = "run"
        /\ \/ ok /\ Answered /\ up' = started /\ Fine(Running(c.name)) /\ AfterContainer(FALSE)
           \/ ~ok /\ Answered /\ UNCHANGED up /\ Fail(Running(c.name)) /\ AfterContainer(TRUE)
           \/ ok /\ Lost /\ up' \in {up, started} /\ Fail(Running(c.name)) /\ AfterContainer(TRUE)
        /\ UNCHANGED <<tools, images, dirs, files, jobs, tmp, ext>>

(* restoreNomadJob: write, run, remove. *)
NextJob == Go("jwrite", Tail(todo), "done")

JobWrite ==
    LET j == Head(todo)
    IN  /\ pc = "jwrite"
        /\ \/ Answered /\ pc' = "jrun" /\ UNCHANGED <<todo, trouble>>
              /\ tmp' = [tmp EXCEPT ![Job(j)] = "whole"]
           \/ Lost /\ NextJob /\ Fail(Job(j))
              /\ \E q \in {tmp[Job(j)], "whole", "cut"} : tmp' = [tmp EXCEPT ![Job(j)] = q]
        /\ UNCHANGED <<tools, images, up, dirs, files, jobs, ext>>

JobRun ==
    LET j == Head(todo)
    IN  /\ pc = "jrun"
        /\ \/ /\ "nomad" \in tools
              /\ Answered
              /\ jobs' = jobs \cup {j}
              /\ pc' = "jrm"
              /\ UNCHANGED <<todo, trouble>>
           \/ "nomad" \notin tools /\ Answered /\ UNCHANGED jobs /\ NextJob /\ Fail(Job(j))
           \/ "nomad" \in tools /\ Lost /\ jobs' \in {jobs, jobs \cup {j}} /\ NextJob /\ Fail(Job(j))
        /\ UNCHANGED <<tools, images, up, dirs, files, tmp, ext>>

(* The error of rm is ignored: the job counts as restored. *)
JobRemove ==
    LET j == Head(todo)
        removed == [tmp EXCEPT ![Job(j)] = "none"]
    IN  /\ pc = "jrm"
        /\ NextJob
        /\ \/ Answered /\ tmp' = removed /\ Fine(Job(j))
           \/ Lost /\ tmp' \in {tmp, removed} /\ Fail(Job(j))
        /\ UNCHANGED <<tools, images, up, dirs, files, jobs, ext>>

Crash ==
    /\ pc \notin {"idle", "done"}
    /\ Lost
    /\ pc' = "idle"
    /\ trouble' = trouble \cup {i \in TmpItems : tmp[i] # "none"}
    /\ UNCHANGED <<target, ext, todo>>

Capture ==
    \/ Ps \/ Inspect \/ ListVolumes \/ TarVolume \/ ReadCompose
    \/ ValidateNomadInstall \/ ListJobs \/ InspectJob
Recreate ==
    \/ Restore
    \/ VolumeMkdir \/ VolumeWrite \/ VolumeUnpack
    \/ ComposeWrite \/ ComposeUp \/ RunContainer
    \/ JobWrite \/ JobRun \/ JobRemove

Next == Begin \/ Capture \/ Recreate \/ Crash

Spec == Init /\ [][Next]_vars

(* gs goes on with what it does, and is run again until nothing fails. *)
FairSpec == Spec /\ WF_vars(Begin \/ Capture \/ Recreate)
------------------------------------------------------------------------------
Names == {Containers[i].name : i \in DOMAIN Containers}
TypeOK ==
    /\ tools \subseteq {"docker", "nomad"} /\ images \subseteq AllImages
    /\ DOMAIN up \subseteq Names
    /\ \A n \in DOMAIN up : \A p \in up[n] :
          \E b \in Service(n).bindings : p[1] \in {b[1], Ephemeral} /\ p[2] = b[2]
    /\ dirs \subseteq ToSet(Volumes)
    /\ files \in [ToSet(Volumes) -> SUBSET {MountPoint, Unpacked(MountPoint)}]
    /\ jobs \subseteq ToSet(Jobs)
    /\ tmp \in [TmpItems -> {"none", "whole", "cut"}]
    /\ ToSet(ext.volumes) \subseteq ToSet(Volumes) /\ ToSet(ext.jobs) \subseteq ToSet(Jobs)
    /\ pc \in {"run", "vmkdir", "jwrite", "inspect", "tar", "job"} => todo # <<>>
    /\ faults \in 0..MaxFaults

(* A failure stays with its item: when a restore comes to its end, every volume,
   container and job that was captured is on the target, or its own failure was
   logged (docker.go:287-293, 298-326, nomad.go:144-150).                     *)
FailureIsolated ==
    pc = "done" =>
        /\ \A i \in DOMAIN ext.containers :
              LET n == ext.containers[i].name IN n \in DOMAIN up \/ Running(n) \in trouble
        /\ \A i \in DOMAIN ext.jobs : ext.jobs[i] \in jobs \/ Job(ext.jobs[i]) \in trouble
        /\ ext.containers # <<>> => \A i \in DOMAIN ext.volumes :
              LET v == ext.volumes[i] IN files[v] # {} \/ Volume(v) \in trouble

(* An archive or a job file left in /tmp belongs to an item that failed, in this
   migration or in an earlier one (docker.go:316, nomad.go:174).              *)
TempFilesAccounted == pc = "done" => \A i \in TmpItems : tmp[i] # "none" => i \in trouble

(* Migrations that are repeated bring up the whole compose project and all jobs
   for good, although `docker run' fails for the names the compose project has
   taken, every time; only a name that `docker run' took first can keep the
   project from starting (docker.go:281-293, extractor.go:273-286).           *)
RerunsConverge ==
    /\ <>[]("docker" \in tools /\ Squatters = {} => Composed \subseteq DOMAIN up)
    /\ <>[]("nomad" \in tools => jobs = ToSet(Jobs))

(* README.md:148: the archive is unpacked in the directory it was made in. *)
VolumesWhereMounted ==
    pc = "done" /\ faults = 0 => \A v \in DOMAIN files : files[v] # {} => MountPoint \in files[v]
==============================================================================
