--------------------------- MODULE ProvisionProofs ---------------------------
(* Proofs about Provision for every set of manifests and every bound. *)
EXTENDS Provision, TLAPS

(* The ports already open, by how far the run has come. *)
PortsSoFar ==
    /\ pc \in {"connect", "apt", "which", "install", "ssh"} => port = 1
    /\ pc = "port" => /\ m.ports # <<>>
                      /\ port \in 1..Len(m.ports)
                      /\ \A j \in 1..(port - 1) : m.ports[j] \in allowed
    /\ pc \in {"enable", "mkdir", "read", "write", "up", "done"} =>
          ToSet(m.ports) \subseteq allowed

(* The firewall is enabled from ufw enable on, and never before SSH is let in. *)
FirewallSoFar ==
    /\ pc \in {"port", "enable"} => SSHPort \in allowed
    /\ pc \in {"mkdir", "read", "write", "up", "done"} => ufw = "on"
    /\ Reachable

(* What gs holds is a manifest after the defaults. *)
Loaded == m \in {ApplyDefaults(x) : x \in Manifests}

Base ==
    /\ Loaded
    /\ pc \in Steps \cup Ended
    /\ pc # "port" => port \in Nat
    /\ ufw \in {"on", "off"}

(* The defaults keep the ports and always let SSH in. *)
LEMMA DefaultsFacts ==
    ASSUME NEW x \in Manifests
    PROVE  /\ ApplyDefaults(x).ports = x.ports
           /\ ApplyDefaults(x).ports \in Seq(Nat)
           /\ ApplyDefaults(x).allowSSH = "yes"
  BY ProvisionAssumption DEF ApplyDefaults, ManifestsOver

(* Every command keeps what is known of the ports and of the firewall. *)
LEMMA FirewallInductive ==
    Base /\ PortsSoFar /\ FirewallSoFar /\ [Next]_vars =>
        Base' /\ PortsSoFar' /\ FirewallSoFar'
<1> SUFFICES ASSUME Base, PortsSoFar, FirewallSoFar, [Next]_vars
             PROVE  Base' /\ PortsSoFar' /\ FirewallSoFar'
  OBVIOUS
<1>0. m.ports \in Seq(Nat) /\ m.allowSSH = "yes"
  BY DefaultsFacts DEF Base, Loaded
<1> USE DEF Base, Loaded, PortsSoFar, FirewallSoFar, Reachable, SSHPort, Steps, Ended,
            Answered, Lost, Failed, target, history, AfterSSH, Hardening, ToSet
<1>1. ASSUME NEW x \in Manifests, Land(x) PROVE Base' /\ PortsSoFar' /\ FirewallSoFar'
  BY <1>1 DEF Land
<1>2. CASE Connect
  BY <1>2 DEF Connect
<1>3. CASE SystemUpdate
  BY <1>3 DEF SystemUpdate
<1>4. CASE Which
  BY <1>0, <1>4 DEF Which
<1>5. CASE InstallDocker
  BY <1>0, <1>5 DEF InstallDocker
<1>6. CASE AllowSSH
  BY <1>0, <1>6 DEF AllowSSH, Allow
<1>7. CASE AllowPort
  BY <1>0, <1>7 DEF AllowPort, Allow
<1>8. CASE Enable
  BY <1>0, <1>8 DEF Enable, Deploying
<1>9. CASE Mkdir
  BY <1>9 DEF Mkdir
<1>10. CASE Read
  BY <1>10 DEF Read
<1>11. CASE Write
  BY <1>11 DEF Write
<1>12. CASE ComposeUp
  BY <1>12 DEF ComposeUp
<1>13. CASE Crash
  BY <1>13 DEF Crash
<1>14. CASE LateWrite
  BY <1>14 DEF LateWrite
<1>15. CASE UNCHANGED vars
  BY <1>15 DEF vars
<1> QED
  BY <1>1, <1>2, <1>3, <1>4, <1>5, <1>6, <1>7, <1>8, <1>9, <1>10, <1>11, <1>12,
     <1>13, <1>14, <1>15 DEF Next, Step

(* So it holds at every moment of every run of gs land. *)
LEMMA FirewallInvariance == Spec => [](Base /\ PortsSoFar /\ FirewallSoFar)
<1>1. Init => Base /\ PortsSoFar /\ FirewallSoFar
  BY DEF Init, Base, Loaded, PortsSoFar, FirewallSoFar, Reachable, Steps, Ended
<1> QED
  BY <1>1, FirewallInductive, PTL DEF Spec

(* No manifest, failure, crash or sequence of runs enables the firewall without
   a rule for SSH (manifest.go:47, hardening.go:18-36).                       *)
THEOREM NoLockout == Spec => []NeverLockedOut
<1>1. FirewallSoFar => NeverLockedOut
  BY DEF FirewallSoFar, NeverLockedOut
<1> QED
  BY <1>1, FirewallInvariance, PTL
------------------------------------------------------------------------------
(* The defaults keep a list of services a list of services. *)
LEMMA ServicesFacts ==
    ASSUME NEW x \in Manifests
    PROVE  ApplyDefaults(x).services \in Seq(ServiceSpecs(Envs))
<1>1. x.services \in Seq(ServiceSpecs(Envs))
  BY ProvisionAssumption DEF ManifestsOver
<1>2. ASSUME NEW s \in ServiceSpecs(Envs) PROVE ServiceDefaults(s) \in ServiceSpecs(Envs)
  <2> DEFINE c == IF s.count = 0 THEN 1 ELSE s.count
             b == IF s.memory = 0 THEN 128 ELSE s.memory
  <2>1. c \in Int /\ b \in Int
    BY DEF ServiceSpecs
  <2>2. ServiceDefaults(s) = [s EXCEPT !.count = c, !.memory = b]
    BY DEF ServiceDefaults
  <2> HIDE DEF c, b
  <2> QED
    BY <2>1, <2>2 DEF ServiceSpecs
<1>3. ApplyDefaults(x).services = [i \in DOMAIN x.services |-> ServiceDefaults(x.services[i])]
  BY ProvisionAssumption DEF ApplyDefaults, ManifestsOver
<1> QED
  BY <1>1, <1>2, <1>3

(* What writeComposeService writes of the environment is the environment. *)
LEMMA EnvKept ==
    ASSUME NEW s \in ServiceSpecs(Envs)
    PROVE  ToSet(Block(s).env) = {<<k, s.env[k]>> : k \in DOMAIN s.env}
<1> DEFINE keys == SortedKeys(s.env)
<1>1. ToSet(keys) = DOMAIN s.env
  BY SortAssumption DEF ServiceSpecs
<1>2. Block(s).env = [i \in DOMAIN keys |-> <<keys[i], s.env[keys[i]]>>]
  BY DEF Block
<1> HIDE DEF keys
<1> QED
  BY <1>1, <1>2 DEF ToSet

(* docker compose, given the generated file and --scale arguments, runs what
   the manifest asks for: nothing is lost or mixed up on the way.             *)
LEMMA UpIsDesired ==
    ASSUME NEW services \in Seq(ServiceSpecs(Envs)), ~Rejected(services),
           NEW file, file.body = ComposeYAML(services).body
    PROVE  Up(file, ScaleArgs(services)) = Desired(services)
<1> DEFINE body  == file.body
           scale == ScaleArgs(services)
           names == {services[i].name : i \in DOMAIN services}
<1>1. /\ DOMAIN body = DOMAIN services
      /\ \A i \in DOMAIN services : body[i] = Block(services[i])
  BY DEF ComposeYAML, Text
<1>2. \A i \in DOMAIN services : Block(services[i]).name = services[i].name
  BY DEF Block
<1>3. {body[i].name : i \in DOMAIN body} = names
  BY <1>1, <1>2
<1>4. \A i, j \in DOMAIN services : services[i].name = services[j].name => i = j
  BY DEF Rejected
<1>5. ASSUME NEW n \in names
      PROVE  UpService(file, scale, n) = Desired(services)[n]
  <2>1. PICK i \in DOMAIN services : services[i].name = n
    OBVIOUS
  <2> DEFINE s == services[i]
             k == {p \in scale : p[1] = n}
  <2>2. s \in ServiceSpecs(Envs) /\ s.name = n
    BY <2>1
  <2>3. (CHOOSE j \in DOMAIN services : services[j].name = n) = i
    BY <2>1, <1>4
  <2>4. (CHOOSE j \in DOMAIN body : body[j].name = n) = i
    BY <2>1, <1>1, <1>2, <1>4
  <2>5. (IF k = {} THEN 1 ELSE (CHOOSE p \in k : TRUE)[2]) = IF s.count > 1 THEN s.count ELSE 1
    <3>1. CASE s.count > 1
      <4>1. Replicas(s) > 1
        BY <3>1, <2>2 DEF Replicas, ServiceSpecs
      <4>2. <<n, s.count>> \in scale
        BY <4>1, <2>1 DEF ScaleArgs
      <4>3. \A p \in k : p = <<n, s.count>>
        BY <2>1, <1>4 DEF ScaleArgs
      <4>4. k = {<<n, s.count>>}
        BY <4>2, <4>3
      <4>5. (CHOOSE p \in {<<n, s.count>>} : TRUE) = <<n, s.count>>
        OBVIOUS
      <4>6. (CHOOSE p \in k : TRUE)[2] = s.count
        BY <4>4, <4>5
      <4> QED
        BY <4>4, <4>6, <3>1
    <3>2. CASE ~(s.count > 1)
      <4>1. Replicas(s) = 1
        BY <3>2, <2>2 DEF Replicas, ServiceSpecs
      <4>2. \A p \in scale : p[1] # n
        BY <4>1, <2>1, <1>4 DEF ScaleArgs
      <4>3. k = {}
        BY <4>2
      <4> QED
        BY <4>3, <3>2
    <3> QED
      BY <3>1, <3>2
  <2>6. UpService(file, scale, n) =
          Container(Block(s).image, Block(s).memory, ToSet(Block(s).env),
                    Block(s).volumes, Block(s).ports,
                    IF s.count > 1 THEN s.count ELSE 1)
    BY <1>1, <2>4, <2>5 DEF UpService
  <2>7. Desired(services)[n] =
          Container(s.image, IF s.memory > 0 THEN s.memory ELSE 0,
                    {<<key, s.env[key]>> : key \in DOMAIN s.env},
                    s.volumes, s.ports, IF s.count > 1 THEN s.count ELSE 1)
    BY <2>3 DEF Desired
  <2>8. /\ Block(s).image = s.image /\ Block(s).volumes = s.volumes
        /\ Block(s).ports = s.ports
        /\ Block(s).memory = IF s.memory > 0 THEN s.memory ELSE 0
    BY DEF Block
  <2> QED
    BY <2>2, <2>6, <2>7, <2>8, EnvKept
<1>6. Up(file, scale) = [n \in names |-> UpService(file, scale, n)]
  BY <1>3, Zenon DEF Up
<1>7. Desired(services) = [n \in names |-> Desired(services)[n]]
  BY DEF Desired
<1> QED
  BY <1>5, <1>6, <1>7
(* The compose project, by how far the run has come: a file is started only if
   it is the generated one, and a run that is calm has found that file.       *)
ProjectSoFar ==
    /\ pc \in {"mkdir", "read", "write", "up"} =>
          m.services # <<>> /\ ~Rejected(m.services)
    /\ pc = "up" /\ view = "fresh" => UpToDate(compose, m.services)
    /\ pc = "done" /\ view = "fresh" /\ m.services # <<>> =>
          running = Desired(m.services)

CalmProject ==
    /\ calm = "yes" => UpToDate(compose, m.services)
    /\ NoNeedlessRewrite

(* Writing the generated file makes it the one gs looks for: the newline of the
   here-document is trimmed away again.                                       *)
LEMMA HereDocUpToDate ==
    ASSUME NEW services
    PROVE  UpToDate(HereDoc(ComposeYAML(services)), services)
  BY DEF UpToDate, HereDoc, TrimSpace, ComposeYAML, Text

(* The text gs generates is up to date with its own manifest. *)
LEMMA GeneratedUpToDate == UpToDate(Generated, m.services)
  BY HereDocUpToDate DEF Generated

(* Two texts that are equal up to trailing newlines have the same blocks. *)
LEMMA UpToDateBody ==
    ASSUME NEW file, NEW services, UpToDate(file, services)
    PROVE  file.body = ComposeYAML(services).body
  BY DEF UpToDate, TrimSpace, ComposeYAML, Text

(* Every command keeps what is known of the compose file and of what runs. *)
LEMMA ProjectInductive ==
    Base /\ ProjectSoFar /\ CalmProject /\ [Next]_vars => ProjectSoFar' /\ CalmProject'
<1> SUFFICES ASSUME Base, ProjectSoFar, CalmProject, [Next]_vars
             PROVE  ProjectSoFar' /\ CalmProject'
  OBVIOUS
<1> USE DEF Base, ProjectSoFar, CalmProject, NoNeedlessRewrite, Steps, Ended,
            Answered, Lost, Failed, target, history
<1>1. ASSUME NEW x \in Manifests, Land(x) PROVE ProjectSoFar' /\ CalmProject'
  <2>1. UpToDate(HereDoc(ComposeYAML(ApplyDefaults(x).services)), ApplyDefaults(x).services)
    BY HereDocUpToDate
  <2>2. calm' = "yes" => UpToDate(compose, m.services)'
    BY <1>1, <2>1 DEF Land, UpToDate
  <2> QED
    BY <1>1, <2>2 DEF Land
<1>2. CASE Connect
  BY <1>2 DEF Connect
<1>3. CASE SystemUpdate
  BY <1>3 DEF SystemUpdate
<1>4. CASE Which
  BY <1>4 DEF Which, Hardening, AfterSSH
<1>5. CASE InstallDocker
  BY <1>5 DEF InstallDocker, Hardening, AfterSSH
<1>6. CASE AllowSSH
  BY <1>6 DEF AllowSSH, Allow, AfterSSH
<1>7. CASE AllowPort
  BY <1>7 DEF AllowPort, Allow
<1>8. CASE Enable
  BY <1>8 DEF Enable, Deploying
<1>9. CASE Mkdir
  BY <1>9 DEF Mkdir
<1>10. CASE Read
  BY <1>10 DEF Read
<1>11. CASE Write
  BY <1>11, GeneratedUpToDate DEF Write
<1>12. CASE ComposeUp
  <2>1. CASE pc' = "done" /\ view = "fresh"
    <3>1. m.services \in Seq(ServiceSpecs(Envs))
      BY ServicesFacts DEF Loaded
    <3>2. compose.body = ComposeYAML(m.services).body
      BY <1>12, <2>1, UpToDateBody DEF ComposeUp
    <3>3. Up(compose, ScaleArgs(m.services)) = Desired(m.services)
      BY <1>12, <3>1, <3>2, UpIsDesired DEF ComposeUp
    <3>4. running' = Up(compose, ScaleArgs(m.services)) /\ UNCHANGED <<m, compose, view, calm>>
      BY <1>12, <2>1 DEF ComposeUp
    <3> QED
      BY <2>1, <3>3, <3>4
  <2>2. CASE ~(pc' = "done" /\ view = "fresh")
    BY <1>12, <2>2 DEF ComposeUp
  <2> QED
    BY <2>1, <2>2
<1>13. CASE Crash
  BY <1>13 DEF Crash
<1>14. CASE LateWrite
  BY <1>14 DEF LateWrite
<1>15. CASE UNCHANGED vars
  BY <1>15 DEF vars
<1> QED
  BY <1>1, <1>2, <1>3, <1>4, <1>5, <1>6, <1>7, <1>8, <1>9, <1>10, <1>11, <1>12, <1>13, <1>14, <1>15
     DEF Next, Step

(* So it holds at every moment of every run of gs land. *)
LEMMA ProjectInvariance == Spec => [](ProjectSoFar /\ CalmProject)
<1>1. Init => ProjectSoFar /\ CalmProject
  BY DEF Init, ProjectSoFar, CalmProject, NoNeedlessRewrite
<1> QED
  BY <1>1, ProjectInductive, FirewallInvariance, PTL DEF Spec

(* A run that ends in success leaves the target as its manifest asks, for every
   manifest and whatever runs and failures came before
   (provisioner.go:29-37, services.go:37-54).                                 *)
THEOREM LandCorrect == Spec => []LandedMatchesManifest
<1>1. PortsSoFar /\ FirewallSoFar /\ ProjectSoFar => LandedMatchesManifest
  BY DEF PortsSoFar, FirewallSoFar, ProjectSoFar, LandedMatchesManifest
<1> QED
  BY <1>1, FirewallInvariance, ProjectInvariance, PTL

(* The idempotence services_test.go:36 tests on one service, for all of them. *)
THEOREM RewriteSound == Spec => []NoNeedlessRewrite
<1>1. CalmProject => NoNeedlessRewrite
  BY DEF CalmProject
<1> QED
  BY <1>1, ProjectInvariance, PTL
------------------------------------------------------------------------------
(* What a manifest that is not refused asks for publishes no port twice. *)
LEMMA DesiredOnce ==
    ASSUME NEW services \in Seq(ServiceSpecs(Envs)), ~Rejected(services),
           NEW n \in DOMAIN Desired(services)
    PROVE  StartedOnce(Desired(services)[n])
<1> DEFINE i == CHOOSE j \in DOMAIN services : services[j].name = n
           s == services[i]
<1>1. i \in DOMAIN services
  BY DEF Desired
<1>2. /\ Desired(services)[n].ports = s.ports
      /\ Desired(services)[n].replicas = IF s.count > 1 THEN s.count ELSE 1
  BY DEF Desired, Container
<1>3. s.count \in Int
  <2>1. s \in ServiceSpecs(Envs)
    BY <1>1
  <2> QED
    BY <2>1 DEF ServiceSpecs
<1>4. s.ports # <<>> => ~(Replicas(s) > 1)
  BY <1>1 DEF Rejected
<1> QED
  BY <1>2, <1>3, <1>4 DEF StartedOnce, Replicas

(* No deployment of any manifest, complete or cut off, starts a service that
   publishes a host port more than once, as long as the file is the one gs read
   or wrote (services.go:47, 92-94).                                          *)
THEOREM NothingPublishedTwice == Spec => PortsNeverScaled
<1> DEFINE Once == \A n \in DOMAIN running' :
                      \/ StartedOnce(running'[n])
                      \/ n \in DOMAIN running /\ running'[n] = running[n]
<1>1. ASSUME Base, ProjectSoFar, ComposeUp, view = "fresh" PROVE Once
  <2> DEFINE new == Up(compose, ScaleArgs(m.services))
  <2>1. m.services \in Seq(ServiceSpecs(Envs))
    BY <1>1, ServicesFacts DEF Base, Loaded
  <2>2. compose.body = ComposeYAML(m.services).body /\ ~Rejected(m.services)
    BY <1>1, UpToDateBody DEF ComposeUp, ProjectSoFar
  <2>3. new = Desired(m.services)
    BY <2>1, <2>2, UpIsDesired
  <2>4. \A n \in DOMAIN new : StartedOnce(new[n])
    BY <2>1, <2>2, <2>3, DesiredOnce
  <2>5. \/ running' = running
        \/ running' = new
        \/ \E started \in SUBSET DOMAIN new, kept \in SUBSET DOMAIN running :
              running' = [n \in started \cup kept |->
                            IF n \in started THEN new[n] ELSE running[n]]
    BY <1>1 DEF ComposeUp
  <2> HIDE DEF new
  <2>6. ASSUME NEW started \in SUBSET DOMAIN new, NEW kept \in SUBSET DOMAIN running,
               running' = [n \in started \cup kept |->
                            IF n \in started THEN new[n] ELSE running[n]]
        PROVE  Once
    BY <2>4, <2>6
  <2> QED
    BY <2>4, <2>5, <2>6
<1>2. ASSUME [Next]_vars, ~ComposeUp PROVE running' = running
  <2> USE DEF target
  <2>1. ASSUME NEW x \in Manifests, Land(x) PROVE running' = running
    BY <2>1 DEF Land
  <2>2. CASE Step
    BY <1>2, <2>2 DEF Step, Connect, SystemUpdate, Which, InstallDocker, AllowSSH, AllowPort,
                      Allow, Enable, Mkdir, Read, Write
  <2>3. CASE Crash \/ LateWrite \/ UNCHANGED vars
    BY <2>3 DEF Crash, LateWrite, vars
  <2> QED
    BY <1>2, <2>1, <2>2, <2>3 DEF Next
<1>3. Base /\ ProjectSoFar /\ [Next]_vars => [view = "fresh" => Once]_vars
  <2> SUFFICES ASSUME Base, ProjectSoFar, [Next]_vars, view = "fresh" PROVE Once
    OBVIOUS
  <2>1. CASE ComposeUp
    BY <1>1, <2>1
  <2>2. CASE ~ComposeUp
    BY <1>2, <2>2
  <2> QED
    BY <2>1, <2>2
<1> QED
  BY <1>3, FirewallInvariance, ProjectInvariance, PTL DEF Spec, PortsNeverScaled
------------------------------------------------------------------------------
(* Every command keeps the types. *)
LEMMA TypeInductive == Base /\ PortsSoFar /\ TypeOK /\ [Next]_vars => TypeOK'
<1> SUFFICES ASSUME Base, PortsSoFar, TypeOK, [Next]_vars PROVE TypeOK'
  OBVIOUS
<1> DEFINE rules == {SSHPort} \cup UNION {ToSet(x.ports) : x \in Manifests}
<1>0. m.ports \in Seq(Nat) /\ ToSet(m.ports) \subseteq rules
  BY DefaultsFacts DEF Base, Loaded
<1>p. Len(m.ports) \in Nat
  BY <1>0
<1> USE DEF TypeOK, Steps, Ended, Answered, Lost, Failed, target, history
<1>m. MaxFaults \in Nat
  BY ProvisionAssumption
<1> USE <1>m
<1>1. ASSUME NEW x \in Manifests, Land(x) PROVE TypeOK'
  <2>1. Len(ApplyDefaults(x).ports) \in Nat
    BY DefaultsFacts
  <2> QED
    BY <1>1, <2>1 DEF Land
<1>2. CASE Connect
  BY <1>2 DEF Connect
<1>3. CASE SystemUpdate
  BY <1>3 DEF SystemUpdate
<1>4. CASE Which
  BY <1>4 DEF Which, Hardening, AfterSSH
<1>5. CASE InstallDocker
  BY <1>5 DEF InstallDocker, Hardening, AfterSSH
<1>6. CASE AllowSSH
  BY <1>6 DEF AllowSSH, Allow, AfterSSH
<1>7. CASE AllowPort
  <2>a. port \in 1..Len(m.ports)
    BY <1>7, <1>p DEF AllowPort, PortsSoFar
  <2>b. m.ports[port] \in ToSet(m.ports)
    BY <2>a DEF ToSet
  <2>1. port \in 1..Len(m.ports) /\ m.ports[port] \in rules
    BY <1>0, <2>a, <2>b
  <2>2. allowed' \in {allowed, allowed \cup {m.ports[port]}}
    BY <1>7 DEF AllowPort, Allow
  <2>3. allowed' \subseteq rules
    BY <2>1, <2>2
  <2>4. port' \in 1..(Len(m.ports) + 1) /\ m' = m
    BY <1>7, <1>p, <2>1 DEF AllowPort, Allow
  <2> QED
    BY <1>7, <2>3, <2>4 DEF AllowPort, Allow
<1>8. CASE Enable
  BY <1>8 DEF Enable, Deploying
<1>9. CASE Mkdir
  BY <1>9 DEF Mkdir
<1>10. CASE Read
  BY <1>10 DEF Read
<1>11. CASE Write
  BY <1>11 DEF Write
<1>12. CASE ComposeUp
  BY <1>12 DEF ComposeUp
<1>13. CASE Crash
  BY <1>13 DEF Crash
<1>14. CASE LateWrite
  BY <1>14 DEF LateWrite
<1>15. CASE UNCHANGED vars
  BY <1>15 DEF vars
<1> QED
  BY <1>1, <1>2, <1>3, <1>4, <1>5, <1>6, <1>7, <1>8, <1>9, <1>10, <1>11, <1>12, <1>13, <1>14, <1>15
     DEF Next, Step

(* gs land keeps the types: the port loop stays inside its list, whichever of
   its commands fail, and only ports of the manifests and SSH are ever opened
   (hardening.go:18-31).                                                      *)
THEOREM TypeCorrect == Spec => []TypeOK
<1>1. Init => TypeOK
  <2> SUFFICES ASSUME Init PROVE TypeOK
    OBVIOUS
  <2>1. Len(m.ports) \in Nat
    BY DefaultsFacts DEF Init
  <2> QED
    BY <2>1, ProvisionAssumption DEF Init, TypeOK, Ended
<1> QED
  BY <1>1, TypeInductive, FirewallInvariance, PTL DEF Spec
==============================================================================
