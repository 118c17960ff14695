-------------------------------- MODULE Audit --------------------------------
(* gs audit: cmdAudit, RunSecurityAudit and the Telegram report
   (cmd/gs/main.go, internal/audit).  Twelve checks in three groups, one remote
   command each; a command may fail, and every error but that of `which' is
   ignored: what counts is the text that came back, error messages included.  *)
EXTENDS Integers, Sequences, FiniteSets

CONSTANTS
    MaxFaults     \* bound: commands without an answer

ASSUME AuditAssumption == MaxFaults \in Nat

VARIABLES
    telegram,     \* the TelegramConfig: "none", "chatless" or "full"
    next,         \* the next check, or the `which' in front of its group
    asked,        \* "yes" once the program of the group was found
    alerts,       \* SystemChecks, DockerChecks and NomadChecks, in this order
    critical, warning, passed,
    sent,         \* the Telegram messages that went out, as sets of alerts
    printed,      \* what cmdAudit printed: "nothing", "clean" or "alerts"
    misjudged,    \* history: a check passed although its condition did not hold
    faults        \* commands without an answer

counts == <<critical, warning, passed>>
vars == <<telegram, next, asked, alerts, counts, sent, printed, misjudged, faults>>

(* A check: its group and level, the answers its pass function accepts, and what
   its command can answer when the condition it is about holds or does not.
   "stderr" is an error message, "empty" no text at all.                      *)
Check(group, level, accepts, right, wrong) ==
    [group |-> group, level |-> level, accepts |-> accepts, right |-> right, wrong |-> wrong]

Checks == <<
    \* SSH key-based auth: grep; a commented line will do, and so will a missing file
    Check("SYSTEM", "WARNING", {"line", "stderr"}, {"line"}, {"empty", "line", "stderr"}),
    \* Firewall active: sudo complains when there is no ufw
    Check("SYSTEM", "WARNING", {"line", "stderr"}, {"line"}, {"empty", "stderr"}),
    \* Fail2Ban running: "inactive" contains "active"
    Check("SYSTEM", "WARNING", {"active", "inactive"}, {"active"}, {"inactive", "failed"}),
    \* SELinux/AppArmor: "Disabled" is a text too
    Check("SYSTEM", "WARNING", {"line"}, {"line"}, {"empty", "line"}),
    \* Sudo audit logging
    Check("SYSTEM", "WARNING", {"line"}, {"line", "empty"}, {"empty"}),
    \* Docker daemon security: more than ten characters
    Check("DOCKER", "WARNING", {"line", "stderr"}, {"line", "stderr"}, {"empty", "stderr"}),
    \* Container resource limits: every line with memory and a zero is counted
    Check("DOCKER", "WARNING", {"0"}, {"0", "1", "stderr"}, {"1", "stderr"}),
    \* Privileged containers: docker ps does not say
    Check("DOCKER", "CRITICAL", {"0"}, {"0", "1", "stderr"}, {"0", "1", "stderr"}),
    \* Docker socket permissions: any socket root can write
    Check("DOCKER", "CRITICAL", {"srw"}, {"srw"}, {"srw", "stderr"}),
    \* Nomad TLS enabled: on one line
    Check("NOMAD", "WARNING", {"line"}, {"line", "empty"}, {"empty"}),
    \* Nomad ACL enabled: "enabled = false" matches
    Check("NOMAD", "WARNING", {"line"}, {"line", "empty"}, {"empty", "line"}),
    \* Nomad audit logging
    Check("NOMAD", "INFO", {"line"}, {"line"}, {"empty", "line"}) >>

Group(i) == Checks[i].group
InGroup(i) == i <= Len(Checks)

(* The first check behind the group of check i. *)
AfterGroup(i) ==
    CHOOSE j \in (i + 1)..(Len(Checks) + 1) :
        /\ InGroup(j) => Group(j) # Group(i)
        /\ \A k \in i..(j - 1) : Group(k) = Group(i)

(* Mutant: level and component are swapped. *)
AlertSwapped(group, level, check) == [group |-> level, level |-> group, check |-> check]

Alert(group, level, check) == [group |-> group, level |-> level, check |-> check]

Init ==
    /\ telegram \in {"none", "chatless", "full"}
    /\ next = 1
    /\ asked = "yes"
    /\ alerts = <<>>
    /\ critical = 0 /\ warning = 0 /\ passed = 0
    /\ sent = {}
    /\ printed = "nothing"
    /\ misjudged = "no"
    /\ faults = 0

(* A text that arrives before its connection is lost is an answer all the same. *)
Answered == UNCHANGED faults
Lost ==
    /\ faults < MaxFaults
    /\ faults' = faults + 1

(* which docker, which nomad: any error is taken for a missing program, and its
   checks are skipped.                                                        *)
Which ==
    /\ InGroup(next)
    /\ asked = "no"
    /\ \/ Answered /\ asked' = "yes" /\ UNCHANGED <<next, alerts>>
       \/ /\ Answered \/ Lost
          /\ alerts' = Append(alerts, Alert(Group(next), "INFO", 0))
          /\ next' = AfterGroup(next)
          /\ UNCHANGED asked
    /\ UNCHANGED <<telegram, counts, sent, printed, misjudged>>

(* Mutant: an answer that is not a number counts as none found. *)
AcceptsEmpty(i, out) == out \in Checks[i].accepts \/ (out = "empty" /\ "0" \in Checks[i].accepts)
Accepts(i, out) == out \in Checks[i].accepts

(* Mutant: only warnings are counted as warnings. *)
CountLevels(level) ==
    /\ critical' = IF level = "CRITICAL" THEN critical + 1 ELSE critical
    /\ warning' = IF level = "WARNING" THEN warning + 1 ELSE warning
    /\ UNCHANGED passed

(* Mutant: every failed check is counted as a warning. *)
CountWarnings(level) == warning' = warning + 1 /\ UNCHANGED <<critical, passed>>

(* A failed check: whatever is not critical is counted as a warning. *)
Count(level) ==
    /\ critical' = IF level = "CRITICAL" THEN critical + 1 ELSE critical
    /\ warning' = IF level = "CRITICAL" THEN warning ELSE warning + 1
    /\ UNCHANGED passed

Grade(i, out) ==
    \/ /\ Accepts(i, out)
       /\ passed' = passed + 1
       /\ UNCHANGED <<alerts, critical, warning>>
    \/ /\ ~Accepts(i, out)
       /\ Count(Checks[i].level)
       /\ alerts' = Append(alerts, Alert(Group(i), Checks[i].level, i))

RunCheck ==
    /\ InGroup(next)
    /\ asked = "yes"
    /\ \/ \E out \in Checks[next].right :
             Answered /\ Grade(next, out) /\ UNCHANGED misjudged
       \/ \E out \in Checks[next].wrong :
             /\ Answered
             /\ Grade(next, out)
             /\ misjudged' = IF Accepts(next, out) THEN "yes" ELSE misjudged
       \/ Lost /\ Grade(next, "empty") /\ UNCHANGED misjudged
    /\ next' = next + 1
    /\ asked' = IF InGroup(next + 1) /\ Group(next + 1) # Group(next) THEN "no" ELSE "yes"
    /\ UNCHANGED <<telegram, sent, printed>>

(* buildAuditMessage: the critical alerts and the warnings, each kind under a
   heading that is there only when its counter says so.                       *)
Listed(level, count) == {alerts[j] : j \in {k \in DOMAIN alerts : count > 0 /\ alerts[k].level = level}}
Message == Listed("CRITICAL", critical) \cup Listed("WARNING", warning)

(* The request may fail, which is only logged. *)
SendTelegramMessage == sent' = {Message} \/ UNCHANGED sent

(* sendAuditReport gives up without a chat. *)
SendAuditReport ==
    \/ telegram = "full" /\ SendTelegramMessage
    \/ telegram # "full" /\ UNCHANGED sent

(* RunSecurityAudit ends, sending the report when it can, and cmdAudit prints. *)
Report ==
    /\ ~InGroup(next)
    /\ printed = "nothing"
    /\ SendAuditReport
    /\ printed' = IF alerts = <<>> THEN "clean" ELSE "alerts"
    /\ UNCHANGED <<telegram, next, asked, alerts, counts, misjudged, faults>>

Next == Which \/ RunCheck \/ Report

Spec == Init /\ [][Next]_vars
------------------------------------------------------------------------------
Levels == {"CRITICAL", "WARNING", "INFO"}
Alerts == [group : {"SYSTEM", "DOCKER", "NOMAD"}, level : Levels, check : 0..Len(Checks)]

TypeOK ==
    /\ telegram \in {"none", "chatless", "full"}
    /\ next \in 1..(Len(Checks) + 1)
    /\ asked \in {"yes", "no"}
    /\ alerts \in Seq(Alerts)
    /\ critical \in Nat /\ warning \in Nat /\ passed \in Nat
    /\ sent \subseteq SUBSET Alerts
    /\ printed \in {"nothing", "clean", "alerts"}
    /\ misjudged \in {"yes", "no"}
    /\ faults \in 0..MaxFaults

(* The checks before the next one that were skipped with their group. *)
Missing(g) == \E j \in DOMAIN alerts : alerts[j].group = g /\ alerts[j].check = 0
Skipped == {i \in 1..(next - 1) : Missing(Group(i))}

(* Every check is counted exactly once, as critical, warning or passed, or its
   group is reported as missing, whatever the commands answer and whichever of
   them fail (audit.go:110-126, 132-141, 180-198, 204-213, 245-263).          *)
EveryCheckAccounted ==
    critical + warning + passed + Cardinality(Skipped) = next - 1

(* "All checks passed!" is never printed for a host that was not asked: not one
   command of the audit went unanswered and no group was skipped, although all
   errors are ignored (audit.go:111, 132, 181, 204, 246; main.go:295).        *)
CleanMeansAnswered ==
    printed = "clean" => faults = 0 /\ passed = Len(Checks) /\ warning + critical = 0

(* A report that goes out lists every alert that needs attention: the headings
   depend on the counters, which must agree with the alerts of all three groups
   (audit.go:290-326).                                                        *)
ReportTellsAll ==
    \A message \in sent : \A k \in DOMAIN alerts :
        alerts[k].level # "INFO" => alerts[k] \in message

(* main.go:296 "All checks passed!" and README.md:110 "Each returns PASSED,
   WARNING (needs attention), or CRITICAL (fix required).": a host that is
   reported clean has nothing that needs attention.                           *)
CleanMeansFine == printed = "clean" => misjudged = "no"
==============================================================================
