------------------------------ MODULE Manifest ------------------------------
(* config.Load (internal/config/manifest.go) on a manifest that parses: the
   defaults, then the checks.  Settings no code reads are left out.           *)
EXTENDS Integers, Sequences

Roles == {"relay", "exit"}

(* schema.go: ServiceSpec and the parts of NodeManifest the code reads. *)
ServiceSpecs(envs) ==
    [name : STRING, image : STRING, volumes : Seq(STRING), env : envs,
     ports : Seq(Nat), count : Int, memory : Int]

ManifestsOver(envs) ==
    [role : STRING, hostname : STRING, backend : STRING, allowSSH : {"yes", "no"},
     ports : Seq(Nat), services : Seq(ServiceSpecs(envs))]

ServiceDefaults(s) ==
    [s EXCEPT !.count  = IF @ = 0 THEN 1 ELSE @,
              !.memory = IF @ = 0 THEN 128 ELSE @]

(* Mutant: allow_ssh is taken as written in the manifest. *)
ApplyDefaultsKeepSSH(m) ==
    [m EXCEPT !.backend  = IF @ = "" THEN "ufw" ELSE @,
              !.services = [i \in DOMAIN @ |-> ServiceDefaults(@[i])]]

(* applyDefaults: whatever the manifest says, SSH stays allowed. *)
ApplyDefaults(m) ==
    [m EXCEPT !.backend  = IF @ = "" THEN "ufw" ELSE @,
              !.services = [i \in DOMAIN @ |-> ServiceDefaults(@[i])],
              !.allowSSH = "yes"]

(* validate *)
Valid(m) == m.role \in Roles /\ m.hostname # ""
==============================================================================
