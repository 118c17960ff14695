----------------------------- MODULE RestoreFile -----------------------------
(* restoreBytesIfChanged (internal/extractor/restore.go): one file of the
   target server, written over SSH one command at a time.  Every command is a
   step of its own: between two of them another program of the target may
   rewrite the file, the connection may drop, or gs may die, and a write whose
   connection was lost may still land later.                                  *)
EXTENDS Naturals, FiniteSets

CONSTANTS
    Contents,     \* the byte strings a file can hold
    Payloads,     \* the ones extracted from the source, to be restored
    Foreign,      \* the ones other programs of the target write
    Absent,       \* no such file
    Size,         \* len(data), stat -c %s
    Digest,       \* sha256
    Torn,         \* what an interrupted write of a content can leave
    MaxCommand,   \* the longest base64 text a command line can carry
    MaxFaults,    \* bound: failed commands and deaths of gs
    MaxForeign    \* bound: writes by other programs

ASSUME ContentsAssumption ==
    /\ Payloads \subseteq Contents
    /\ Foreign \subseteq Contents
    /\ Absent \notin Contents
    /\ Size \in [Contents -> Nat]
    /\ Torn \in [Contents -> SUBSET Contents]
    /\ DOMAIN Digest = Contents

(* All the code needs of SHA-256: no two contents of the same length agree. *)
ASSUME DigestAssumption ==
    \A c, d \in Contents : Digest[c] = Digest[d] /\ Size[c] = Size[d] => c = d

ASSUME BoundsAssumption ==
    MaxCommand \in Nat /\ MaxFaults \in Nat /\ MaxForeign \in Nat

VARIABLES
    file,       \* the file at remotePath, or Absent
    dir,        \* its parent directory, "present" or "missing"
    data,       \* the payload of the current or last call
    pc,         \* the command gs sends next, or how the call returned
    sha,        \* the digest the last sha256sum answered
    late,       \* payloads of writes under way without a connection
    view,       \* history: "stale" when somebody else wrote the file since then
    calm,       \* history: the call found its payload installed, no trouble since
    faults, foreign

vars == <<file, dir, data, pc, sha, late, view, calm, faults, foreign>>

Running  == {"sha1", "stat1", "mkdir", "write", "sha2", "stat2"}
Returned == {"idle", "ok", "error"}

TypeOK ==
    /\ file \in Contents \cup {Absent}
    /\ dir \in {"present", "missing"}
    /\ data \in Payloads
    /\ pc \in Running \cup Returned
    /\ sha \in {Digest[c] : c \in Contents}
    /\ late \subseteq Payloads
    /\ view \in {"fresh", "stale"}
    /\ calm \in {"yes", "no"}
    /\ faults \in 0..MaxFaults
    /\ foreign \in 0..MaxForeign

Init ==
    /\ file \in Contents \cup {Absent}
    /\ dir \in {"present", "missing"}
    /\ file # Absent => dir = "present"
    /\ data \in Payloads
    /\ pc = "idle"
    /\ sha = Digest[data]
    /\ late = {}
    /\ view = "fresh"
    /\ calm = "no"
    /\ faults = 0
    /\ foreign = 0

(* A remote command that runs, and one whose session or connection fails. *)
Answered == UNCHANGED <<calm, faults>>
Lost ==
    /\ faults < MaxFaults
    /\ faults' = faults + 1
    /\ calm' = "no"

(* restoreBytesIfChanged is called; an empty payload is skipped. *)
Call(d) ==
    /\ pc \in Returned
    /\ data' = d
    /\ pc' = IF Size[d] = 0 THEN "ok" ELSE "sha1"
    /\ calm' = IF file = d THEN "yes" ELSE "no"
    /\ UNCHANGED <<file, dir, sha, late, view, faults, foreign>>

(* Mutant: the error of sha256sum is ignored and what it answered is kept. *)
ReadDigestUnchecked(at, next, otherwise) ==
    /\ pc = at
    /\ Answered
    /\ sha' = IF file = Absent THEN Absent ELSE Digest[file]
    /\ view' = "fresh"
    /\ pc' = next
    /\ UNCHANGED <<file, dir, data, late, foreign>>

(* inspectRemoteFile, first command: sha256sum.  A missing file and a failed
   command are the same error, after which gs goes to `otherwise'.            *)
ReadDigest(at, next, otherwise) ==
    /\ pc = at
    /\ \/ /\ file # Absent
          /\ Answered
          /\ sha' = Digest[file]
          /\ view' = "fresh"
          /\ pc' = next
       \/ /\ \/ file = Absent /\ Answered
             \/ Lost
          /\ pc' = otherwise
          /\ UNCHANGED <<sha, view>>
    /\ UNCHANGED <<file, dir, data, late, foreign>>

(* Mutant: only the sizes are compared. *)
MatchesSizeOnly(size) == size = Size[data]

(* The comparison both inspections end with. *)
Matches(size) == sha = Digest[data] /\ size = Size[data]

(* inspectRemoteFile, second command: stat, then the comparison. *)
ReadSize(at, otherwise) ==
    /\ pc = at
    /\ \/ /\ file # Absent
          /\ Answered
          /\ pc' = IF Matches(Size[file]) THEN "ok" ELSE otherwise
       \/ /\ \/ file = Absent /\ Answered
             \/ Lost
          /\ pc' = otherwise
    /\ UNCHANGED <<file, dir, data, sha, late, view, foreign>>

(* Mutant: the file is rewritten whatever the inspection found. *)
Stat1Ignored ==
    /\ pc = "stat1"
    /\ Answered
    /\ pc' = "mkdir"
    /\ UNCHANGED <<file, dir, data, sha, late, view, foreign>>

Sha1  == ReadDigest("sha1", "stat1", "mkdir")
Stat1 == ReadSize("stat1", "mkdir")

(* Mutant: the parent directory is taken for granted. *)
MkdirSkipped ==
    /\ pc = "mkdir"
    /\ pc' = "write"
    /\ UNCHANGED <<file, dir, data, sha, late, view, calm, faults, foreign>>

(* ensureRemoteParentDir; a lost connection may hide that mkdir ran. *)
Mkdir ==
    /\ pc = "mkdir"
    /\ \/ Answered /\ dir' = "present" /\ pc' = "write"
       \/ Lost /\ dir' \in {dir, "present"} /\ pc' = "error"
    /\ UNCHANGED <<file, data, sha, late, view, foreign>>

(* base64.StdEncoding writes four characters for every three bytes begun, and
   all of them are part of one command: a payload may be too long to be sent. *)
Fits == (Size[data] + 2) \div 3 <= MaxCommand \div 4

(* Mutant: the exit status of the write is trusted, nothing is verified. *)
WriteUnverified ==
    /\ pc = "write"
    /\ dir = "present"
    /\ \/ Answered /\ file' = data
       \/ Lost /\ file' \in Torn[data]
    /\ pc' = "ok"
    /\ UNCHANGED <<dir, data, sha, late, view, foreign>>

(* echo .. | base64 -d | tee: the exit status is tee's, so a base64 that dies
   half-way tears the file and the command still succeeds.                    *)
Write ==
    /\ pc = "write"
    /\ \/ /\ dir = "present" /\ Fits
          /\ \/ Answered /\ file' = data
             \/ Lost /\ file' \in Torn[data]
          /\ pc' = "sha2"
          /\ UNCHANGED late
       \/ /\ dir = "present" /\ Fits
          /\ Lost
          /\ pc' = "error"
          /\ \/ file' \in {file, data} \cup Torn[data] /\ UNCHANGED late
             \/ late' = late \cup {data} /\ UNCHANGED file
       \/ /\ dir = "missing" \/ ~Fits
          /\ Answered
          /\ pc' = "error"
          /\ UNCHANGED <<file, late>>
    /\ UNCHANGED <<dir, data, sha, view, foreign>>

(* The verification; here a missing file or a failed command is an error. *)
Sha2  == ReadDigest("sha2", "stat2", "error")
Stat2 == ReadSize("stat2", "error")

(* gs dies; the write it may just have sent goes on without it. *)
Crash ==
    /\ pc \in Running
    /\ Lost
    /\ pc' = "idle"
    /\ \/ pc = "write" /\ Fits /\ late' = late \cup {data}
       \/ UNCHANGED late
    /\ UNCHANGED <<file, dir, data, sha, view, foreign>>

(* A write without a connection takes effect, whole or torn. *)
LateWrite(d) ==
    /\ d \in late
    /\ late' = late \ {d}
    /\ \/ dir = "present" /\ file' \in {d} \cup Torn[d]
       \/ dir = "missing" /\ UNCHANGED file
    /\ view' = "stale"
    /\ calm' = "no"
    /\ UNCHANGED <<dir, data, pc, sha, faults, foreign>>

(* Another program of the target, or the gs of another operator, writes or
   deletes the file, or creates or deletes the directory.                     *)
ForeignWrite ==
    /\ foreign < MaxForeign
    /\ foreign' = foreign + 1
    /\ \/ dir' = "present" /\ file' \in Foreign \cup {Absent}
       \/ dir' = "missing" /\ file' = Absent
    /\ view' = "stale"
    /\ calm' = "no"
    /\ UNCHANGED <<data, pc, sha, late, faults>>

Step == Sha1 \/ Stat1 \/ Mkdir \/ Write \/ Sha2 \/ Stat2

Next ==
    \/ \E d \in Payloads : Call(d)
    \/ Step
    \/ Crash
    \/ \E d \in Payloads : LateWrite(d)
    \/ ForeignWrite

Spec == Init /\ [][Next]_vars

(* Commands return, and whoever runs gs runs it again until it succeeds. *)
Fairness ==
    /\ WF_vars(Step)
    /\ \A d \in Payloads : WF_vars(pc # "ok" /\ data = d /\ Call(d))

FairSpec == Spec /\ Fairness
------------------------------------------------------------------------------
(* Success is never reported for a file that does not hold the payload, unless
   somebody else wrote it after its digest was read: torn writes, the hidden
   exit status of base64 and retries included (restore.go:31, 54).            *)
OkMeansInstalled ==
    pc = "ok" /\ Size[data] > 0 /\ view = "fresh" => file = data

(* Restoring what is already there sends no write, whatever history led to it:
   a second migration leaves an installed file alone (restore.go:31-34).      *)
NoNeedlessWrite == calm = "yes" => pc \in {"sha1", "stat1", "ok"}

(* With finitely many faults, a retried restore of a payload that fits into a
   command succeeds: every error path can be re-entered, and neither a torn
   file nor a missing directory wedges it (restore.go:36-56).                 *)
RetrySucceeds ==
    pc \in Running \cup {"error"} /\ Fits ~> pc = "ok" \/ ~Fits

(* Every command sequence above is one the abstract installation allows. *)
Promise == INSTANCE Install WITH status <- IF pc \in Running THEN "busy" ELSE pc
ImplementsInstall == Promise!Spec
==============================================================================
