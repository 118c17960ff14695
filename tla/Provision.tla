------------------------------ MODULE Provision ------------------------------
(* gs land: cmdLand, RunFullProvisioning, ApplyHardening and DeployServices, one
   step per remote command.  Runs may follow one another with any manifest;
   a command may fail before, after or half-way through its effect, gs may die,
   and a file write whose connection was lost may land during a later run.    *)
EXTENDS Manifest, Compose

CONSTANTS
    Envs,         \* the env maps of services
    Manifests,    \* the manifests gs is run with, as parsed from YAML
    MaxFaults     \* bound: failed commands and deaths of gs

ASSUME ProvisionAssumption ==
    /\ MaxFaults \in Nat
    /\ Manifests \subseteq ManifestsOver(Envs)

(* sort.Strings keeps the keys it sorts. *)
ASSUME SortAssumption == \A e \in Envs : ToSet(SortedKeys(e)) = DOMAIN e

VARIABLES
    docker,       \* target: "yes" when docker is installed
    allowed,      \* target: what ufw lets in
    ufw,          \* target: "on" once enabled
    dir,          \* target: the project directory, "present" or "missing"
    compose,      \* target: docker-compose.yml; NoText when there is none
    running,      \* target: service name -> what compose runs for it
    m,            \* gs: the manifest, as Load returned it
    pc,           \* gs: next remote command, or how the run ended
    port,         \* gs: index of the next port to open
    late,         \* compose files under way without a connection
    view,         \* history: "stale" when one of them landed since the file was read
    calm,         \* history: the run found its own compose file, no trouble since
    faults

target == <<docker, allowed, ufw, dir, compose, running>>
history == <<late, view, calm, faults>>
vars == <<target, m, pc, port, history>>

Ended == {"idle", "done", "failed"}
Steps == {"connect", "apt", "which", "install", "ssh", "port", "enable",
          "mkdir", "read", "write", "up"}

Init ==
    /\ docker \in {"yes", "no"}
    /\ allowed = {}
    /\ ufw = "off"
    /\ dir = "missing"
    /\ compose = NoText
    /\ running = <<>>
    /\ m \in {ApplyDefaults(x) : x \in Manifests}
    /\ pc = "idle"
    /\ port = 1
    /\ late = {}
    /\ view = "fresh"
    /\ calm = "no"
    /\ faults = 0

Answered == UNCHANGED <<calm, faults>>
Lost ==
    /\ faults < MaxFaults
    /\ faults' = faults + 1
    /\ calm' = "no"
Failed == Lost /\ pc' = "failed"

Generated == HereDoc(ComposeYAML(m.services))

(* Mutant: the texts are compared byte for byte. *)
UpToDateExactly(file, services) == file = ComposeYAML(services)

(* Mutant: any existing file will do. *)
UpToDateIfPresent(file, services) == file # NoText

(* The comparison that decides whether the file is written. *)
UpToDate(file, services) == TrimSpace(file) = TrimSpace(ComposeYAML(services))

(* A new SSH connection gets through the firewall. *)
SSHPort == 22
Reachable == ufw = "off" \/ SSHPort \in allowed

(* Mutant: the port loop starts where the last run left it. *)
LandKeepsPort(x) ==
    /\ pc \in Ended
    /\ m' = ApplyDefaults(x)
    /\ pc' = "connect"
    /\ UNCHANGED <<target, port, history>>

(* cmdLand: the manifest is loaded; only a valid one gets to the target. *)
Land(x) ==
    LET loaded == ApplyDefaults(x)
    IN  /\ pc \in Ended
        /\ m' = loaded
        /\ pc' = IF Valid(loaded) THEN "connect" ELSE "failed"
        /\ port' = 1
        /\ calm' = IF compose = HereDoc(ComposeYAML(loaded.services)) THEN "yes" ELSE "no"
        /\ UNCHANGED <<target, late, view, faults>>

Connect ==
    /\ pc = "connect"
    /\ \/ Answered /\ pc' = IF Reachable THEN "apt" ELSE "failed"
       \/ Failed
    /\ UNCHANGED <<target, m, port, late, view>>

(* apt-get update && upgrade *)
SystemUpdate ==
    /\ pc = "apt"
    /\ \/ Answered /\ pc' = "which"
       \/ Failed
    /\ UNCHANGED <<target, m, port, late, view>>

(* The first command ApplyHardening sends: none for an unknown backend. *)
AfterSSH == IF m.ports = <<>> THEN "enable" ELSE "port"
Hardening ==
    CASE m.backend # "ufw"                        -> "failed"
      [] m.backend = "ufw" /\ m.allowSSH = "yes" -> "ssh"
      [] m.backend = "ufw" /\ m.allowSSH # "yes" -> AfterSSH

(* which docker: any error is taken for a missing docker. *)
Which ==
    /\ pc = "which"
    /\ \/ docker = "yes" /\ Answered /\ pc' = Hardening
       \/ docker = "no" /\ Answered /\ pc' = "install"
       \/ Lost /\ pc' = "install"
    /\ UNCHANGED <<target, m, port, late, view>>

(* curl .. | sh: the exit status is sh's, a failed download goes unnoticed. *)
InstallDocker ==
    /\ pc = "install"
    /\ \/ Answered /\ docker' = "yes" /\ pc' = Hardening
       \/ Lost /\ UNCHANGED docker /\ pc' = Hardening
       \/ Failed /\ docker' \in {docker, "yes"}
    /\ UNCHANGED <<allowed, ufw, dir, compose, running, m, port, late, view>>

(* One `ufw allow' that goes on to `next', or fails with or without effect. *)
Allow(rule, next) ==
    /\ \/ Answered /\ allowed' = allowed \cup {rule} /\ pc' = next
       \/ Failed /\ allowed' \in {allowed, allowed \cup {rule}}
    /\ UNCHANGED <<docker, ufw, dir, compose, running, m, late, view>>

AllowSSH ==
    /\ pc = "ssh"
    /\ Allow(SSHPort, AfterSSH)
    /\ UNCHANGED port

AllowPort ==
    /\ pc = "port"
    /\ Allow(m.ports[port], IF port = Len(m.ports) THEN "enable" ELSE "port")
    /\ port' = port + 1

(* ufw --force enable, then DeployServices up to its first command. *)
Deploying ==
    CASE m.services = <<>>                            -> "done"
      [] m.services # <<>> /\ Rejected(m.services)  -> "failed"
      [] m.services # <<>> /\ ~Rejected(m.services) -> "mkdir"

Enable ==
    /\ pc = "enable"
    /\ \/ Answered /\ ufw' = "on" /\ pc' = Deploying
       \/ Failed /\ ufw' \in {ufw, "on"}
    /\ UNCHANGED <<docker, allowed, dir, compose, running, m, port, late, view>>

Mkdir ==
    /\ pc = "mkdir"
    /\ \/ Answered /\ dir' = "present" /\ pc' = "read"
       \/ Failed /\ dir' \in {dir, "present"}
    /\ UNCHANGED <<docker, allowed, ufw, compose, running, m, port, late, view>>

(* The existing file is read and compared.  A cat that fails half-way is hidden
   by `|| true': its output, error message included, differs from the file gs
   wants, so the file is written.                                             *)
Read ==
    /\ pc = "read"
    /\ \/ Answered /\ pc' = IF UpToDate(compose, m.services) THEN "up" ELSE "write"
       \/ Lost /\ pc' = "write"
       \/ Failed
    /\ view' = "fresh"
    /\ UNCHANGED <<target, m, port, late>>

(* cat > f << 'EOF': needs the directory, which only mkdir makes. *)
Write ==
    /\ pc = "write"
    /\ dir = "present"
    /\ \/ Answered /\ compose' = Generated /\ view' = "fresh" /\ pc' = "up" /\ UNCHANGED late
       \/ Failed /\ compose' \in {compose, Generated} \cup Torn(Generated) /\ UNCHANGED <<late, view>>
       \/ Failed /\ late' = late \cup {Generated} /\ UNCHANGED <<compose, view>>
    /\ UNCHANGED <<docker, allowed, ufw, dir, running, m, port>>

(* docker compose wants docker, a service, and a service to every --scale. *)
Accepts(scale) ==
    /\ docker = "yes"
    /\ compose.body # <<>>
    /\ \A p \in scale : \E i \in DOMAIN compose.body : compose.body[i].name = p[1]

(* Mutant: the --scale arguments are left out. *)
ComposeUpUnscaled ==
    /\ pc = "up"
    /\ Accepts({}) /\ Answered /\ running' = Up(compose, {}) /\ pc' = "done"
    /\ UNCHANGED <<docker, allowed, ufw, dir, compose, m, port, late, view>>

(* docker compose up -d --remove-orphans --scale ..: all of it, or on failure
   any part of the removals and of the starts.                                *)
ComposeUp ==
    LET scale == ScaleArgs(m.services)
        new   == Up(compose, scale)
    IN  /\ pc = "up"
        /\ \/ Accepts(scale) /\ Answered /\ running' = new /\ pc' = "done"
           \/ ~Accepts(scale) /\ Answered /\ pc' = "failed" /\ UNCHANGED running
           \/ /\ Accepts(scale)
              /\ Failed
              /\ \E started \in SUBSET DOMAIN new, kept \in SUBSET DOMAIN running :
                    running' = [n \in started \cup kept |->
                                  IF n \in started THEN new[n] ELSE running[n]]
        /\ UNCHANGED <<docker, allowed, ufw, dir, compose, m, port, late, view>>

(* gs dies; a compose file it was writing may still be under way. *)
Crash ==
    /\ pc \in Steps
    /\ Lost
    /\ pc' = "idle"
    /\ \/ pc = "write" /\ late' = late \cup {Generated}
       \/ UNCHANGED late
    /\ UNCHANGED <<target, m, port, view>>

LateWrite ==
    /\ \E text \in late :
          /\ late' = late \ {text}
          /\ compose' \in {text} \cup Torn(text)
    /\ view' = "stale"
    /\ calm' = "no"
    /\ UNCHANGED <<docker, allowed, ufw, dir, running, m, pc, port, faults>>

Step ==
    \/ Connect \/ SystemUpdate \/ Which \/ InstallDocker
    \/ AllowSSH \/ AllowPort \/ Enable
    \/ Mkdir \/ Read \/ Write \/ ComposeUp

Next ==
    \/ \E x \in Manifests : Land(x)
    \/ Step
    \/ Crash
    \/ LateWrite

Spec == Init /\ [][Next]_vars

(* Commands return, and whoever runs gs land repeats it until it succeeds. *)
Fairness ==
    /\ WF_vars(Step)
    /\ \A x \in Manifests : WF_vars(pc # "done" /\ m = ApplyDefaults(x) /\ Land(x))

FairSpec == Spec /\ Fairness
------------------------------------------------------------------------------
TypeOK ==
    /\ docker \in {"yes", "no"}
    /\ allowed \subseteq {SSHPort} \cup UNION {ToSet(x.ports) : x \in Manifests}
    /\ ufw \in {"on", "off"}
    /\ pc \in Steps \cup Ended
    /\ port \in 1..(Len(m.ports) + 1)
    /\ view \in {"fresh", "stale"}
    /\ calm \in {"yes", "no"}
    /\ faults \in 0..MaxFaults
    /\ dir \in {"present", "missing"}

(* Whatever the manifest says and whatever fails, the firewall is never up
   without a rule for SSH: gs cannot lock itself and its operator out
   (manifest.go:47, hardening.go:18-36).                                      *)
NeverLockedOut == Reachable

(* A run that reports success has opened every port, enabled the firewall and
   has compose run exactly the services of its manifest, with their replicas,
   whatever earlier runs and failures left on the target, unless a write of an
   earlier run landed in between (provisioner.go:29-37, services.go:37-54).   *)
LandedMatchesManifest ==
    pc = "done" /\ view = "fresh" =>
        /\ ufw = "on"
        /\ ToSet(m.ports) \subseteq allowed
        /\ m.services # <<>> => running = Desired(m.services)

(* The compose file is left alone when it already holds the project, although
   it was written with one more newline than the text it is compared with
   (services.go:37-45, services_test.go:36).                                  *)
NoNeedlessRewrite == calm = "yes" => pc # "write"

(* A deployment, complete or cut off, starts nothing twice that publishes a host
   port, whatever manifests and failures came before: the check is made on the
   manifest, and what starts is what the file on the target says, with the
   replicas of the arguments.  Only a late write of another manifest, landing
   between the two, can make them disagree (services.go:47, 92-94).           *)
StartedOnce(new) == new.ports # <<>> => new.replicas = 1
PortsNeverScaled ==
    [][view = "fresh" =>
          \A n \in DOMAIN running' :
              \/ StartedOnce(running'[n])
              \/ n \in DOMAIN running /\ running'[n] = running[n]]_vars

(* With finitely many faults, repeating the run with a manifest the code can
   carry out ends in success: no partial state left by a failure, a torn
   compose file or a docker that was not installed, wedges it.                *)
Landable == Valid(m) /\ m.backend = "ufw" /\ ~Rejected(m.services)
RetryLands == Landable /\ pc # "idle" ~> pc = "done" \/ ~Landable
==============================================================================
