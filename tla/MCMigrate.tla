------------------------------ MODULE MCMigrate ------------------------------
(* A database, which others may write, another file, one that is never restored,
   and both workloads.                                                        *)
EXTENDS Migrate, TLC

MCItems == {"x-ui.db", "cert.pem", "id.pub", "docker", "nomad"}
MCClass == "x-ui.db" :> "db" @@ "cert.pem" :> "cert" @@ "id.pub" :> "key"
           @@ "docker" :> "docker" @@ "nomad" :> "nomad"
==============================================================================
