----------------------------- MODULE AuditProofs -----------------------------
(* What gs audit prints and counts, for any number of commands without an
   answer.                                                                    *)
EXTENDS Audit, FiniteSetTheorems, TLAPS

(* A check has a level and never accepts the empty text. *)
Sober(c) == c.level \in Levels /\ "empty" \notin c.accepts

(* The checks of audit.go:72-108, 143-178 and 215-243. *)
LEMMA ChecksFacts ==
    /\ Len(Checks) = 12
    /\ \A i \in 1..12 : Sober(Checks[i])
    /\ \A i \in 1..5 : Group(i) = "SYSTEM"
    /\ \A i \in 6..9 : Group(i) = "DOCKER"
    /\ \A i \in 10..12 : Group(i) = "NOMAD"
<1>1. Len(Checks) = 12
  BY DEF Checks
<1>2. /\ Sober(Checks[1]) /\ Sober(Checks[2]) /\ Sober(Checks[3]) /\ Sober(Checks[4])
      /\ Sober(Checks[5])
      /\ Group(1) = "SYSTEM" /\ Group(2) = "SYSTEM" /\ Group(3) = "SYSTEM"
      /\ Group(4) = "SYSTEM" /\ Group(5) = "SYSTEM"
  BY DEF Checks, Check, Group, Levels, Sober
<1>3. /\ Sober(Checks[6]) /\ Sober(Checks[7]) /\ Sober(Checks[8]) /\ Sober(Checks[9])
      /\ Group(6) = "DOCKER" /\ Group(7) = "DOCKER" /\ Group(8) = "DOCKER"
      /\ Group(9) = "DOCKER"
  BY DEF Checks, Check, Group, Levels, Sober
<1>4. /\ Sober(Checks[10]) /\ Sober(Checks[11]) /\ Sober(Checks[12])
      /\ Group(10) = "NOMAD" /\ Group(11) = "NOMAD" /\ Group(12) = "NOMAD"
  BY DEF Checks, Check, Group, Levels, Sober
<1>5. /\ \A i \in 1..5 : i = 1 \/ i = 2 \/ i = 3 \/ i = 4 \/ i = 5
      /\ \A i \in 6..9 : i = 6 \/ i = 7 \/ i = 8 \/ i = 9
      /\ \A i \in 10..12 : i = 10 \/ i = 11 \/ i = 12
      /\ \A i \in 1..12 : i \in 1..5 \/ i \in 6..9 \/ i \in 10..12
  OBVIOUS
<1>6. \A i \in 1..5 : Sober(Checks[i]) /\ Group(i) = "SYSTEM"
  BY <1>2, <1>5
<1>7. \A i \in 6..9 : Sober(Checks[i]) /\ Group(i) = "DOCKER"
  BY <1>3, <1>5
<1>8. \A i \in 10..12 : Sober(Checks[i]) /\ Group(i) = "NOMAD"
  BY <1>4, <1>5
<1> QED
  BY <1>1, <1>5, <1>6, <1>7, <1>8

(* A skipped group is skipped as a whole (audit.go:140, 212). *)
LEMMA AfterGroupFacts == AfterGroup(6) = 10 /\ AfterGroup(10) = 13
<1> DEFINE Behind(i, j) == /\ InGroup(j) => Group(j) # Group(i)
                           /\ \A k \in i..(j - 1) : Group(k) = Group(i)
<1>1. ASSUME NEW j \in 7..13, Behind(6, j) PROVE j = 10
  <2>1. CASE j < 10
    <3>1. j \in 6..9 /\ 6 \in 6..9 /\ InGroup(j)
      BY <2>1, ChecksFacts DEF InGroup
    <3> QED
      BY <1>1, <3>1, ChecksFacts
  <2>2. CASE j > 10
    <3>1. 10 \in 6..(j - 1) /\ 10 \in 10..12 /\ 6 \in 6..9
      BY <2>2
    <3>2. Group(10) = Group(6)
      BY <1>1, <3>1
    <3> QED
      BY <3>1, <3>2, ChecksFacts
  <2> QED
    BY <2>1, <2>2
<1>2. Behind(6, 10)
  <2>1. 6 \in 6..9 /\ 10 \in 10..12 /\ 6..(10 - 1) = 6..9
    OBVIOUS
  <2> QED
    BY <2>1, ChecksFacts
<1>3. ASSUME NEW j \in 11..13, Behind(10, j) PROVE j = 13
  <2>1. CASE j < 13
    <3>1. j \in 10..12 /\ 10 \in 10..12 /\ InGroup(j)
      BY <2>1, ChecksFacts DEF InGroup
    <3> QED
      BY <1>3, <3>1, ChecksFacts
  <2> QED
    BY <2>1
<1>4. Behind(10, 13)
  <2>1. 10 \in 10..12 /\ 10..(13 - 1) = 10..12 /\ ~InGroup(13)
    BY ChecksFacts DEF InGroup
  <2> QED
    BY <2>1, ChecksFacts
<1>5. AfterGroup(6) = CHOOSE j \in 7..13 : Behind(6, j)
  BY ChecksFacts DEF AfterGroup
<1>6. AfterGroup(10) = CHOOSE j \in 11..13 : Behind(10, j)
  BY ChecksFacts DEF AfterGroup
<1> HIDE DEF Behind
<1>7. 10 \in 7..13 /\ 13 \in 11..13
  OBVIOUS
<1> QED
  BY <1>1, <1>2, <1>3, <1>4, <1>5, <1>6, <1>7

(* The inductive invariant: the types the argument needs, where the audit stands,
   that it is untroubled as long as there is no alert, and the checks counted so
   far against those of the groups reported as missing.                       *)
Types ==
    /\ next \in 1..13
    /\ asked \in {"yes", "no"}
    /\ alerts \in Seq(Alerts)
    /\ critical \in Nat /\ warning \in Nat /\ passed \in Nat
    /\ printed \in {"nothing", "clean", "alerts"}
    /\ faults \in 0..MaxFaults

Turn ==
    /\ asked = "no" => next = 6 \/ next = 10 \/ next = 13
    /\ printed # "nothing" => next = 13
    /\ printed = "clean" => alerts = <<>>

Untroubled == alerts = <<>> => faults = 0 /\ passed = next - 1 /\ warning = 0 /\ critical = 0

DockerGap == IF Missing("DOCKER") THEN 4 ELSE 0
NomadGap  == IF Missing("NOMAD") THEN 3 ELSE 0
Counted ==
    /\ ~Missing("SYSTEM")
    /\ Missing("DOCKER") => next >= 10
    /\ Missing("NOMAD") => next = 13
    /\ critical + warning + passed + DockerGap + NomadGap = next - 1

IInv == Types /\ Turn /\ Untroubled /\ Counted

(* An alert of a failed check reports no group as missing. *)
LEMMA MissingAppend ==
    ASSUME Types, NEW a \in Alerts, alerts' = Append(alerts, a), NEW g
    PROVE  Missing(g)' <=> Missing(g) \/ (a.group = g /\ a.check = 0)
<1>1. /\ DOMAIN alerts' = DOMAIN alerts \cup {Len(alerts) + 1}
      /\ \A j \in DOMAIN alerts : alerts'[j] = alerts[j]
      /\ alerts'[Len(alerts) + 1] = a
  BY DEF Types
<1> QED
  BY <1>1 DEF Missing

(* What a check adds, passed or failed (audit.go:112-125, 182-197, 247-262). *)
LEMMA GradeFacts ==
    ASSUME Types, NEW out, next <= 12, Grade(next, out)
    PROVE  \/ /\ out \in Checks[next].accepts
              /\ passed' = passed + 1 /\ critical' = critical /\ warning' = warning
              /\ alerts' = alerts
           \/ /\ \E a \in Alerts : alerts' = Append(alerts, a) /\ a.check # 0
              /\ \/ critical' = critical + 1 /\ warning' = warning
                 \/ critical' = critical /\ warning' = warning + 1
              /\ passed' = passed
<1>1. next \in 1..12 /\ next \in 0..Len(Checks) /\ next # 0
  BY ChecksFacts DEF Types
<1>2. Sober(Checks[next]) /\ Group(next) \in {"SYSTEM", "DOCKER", "NOMAD"}
  <2>1. next \in 1..5 \/ next \in 6..9 \/ next \in 10..12
    BY <1>1
  <2> QED
    BY <1>1, <2>1, ChecksFacts
<1>3. CASE Accepts(next, out)
  BY <1>3 DEF Grade, Accepts
<1>4. CASE ~Accepts(next, out)
  <2> DEFINE a == Alert(Group(next), Checks[next].level, next)
  <2>1. a \in Alerts /\ a.check # 0
    BY <1>1, <1>2 DEF Alerts, Alert, Sober
  <2>2. alerts' = Append(alerts, a) /\ Count(Checks[next].level)
    BY <1>4 DEF Grade
  <2>3. /\ \/ critical' = critical + 1 /\ warning' = warning
           \/ critical' = critical /\ warning' = warning + 1
        /\ passed' = passed
    BY <2>2 DEF Count, Types
  <2> QED
    BY <2>1, <2>2, <2>3
<1> QED
  BY <1>3, <1>4

(* Every command, answered or not, and the report keep the invariant. *)
LEMMA Invariance == Spec => []IInv
<1>1. Init => IInv
  <2> SUFFICES ASSUME Init PROVE IInv
    OBVIOUS
  <2>1. DOMAIN alerts = {}
    BY DEF Init
  <2>2. \A g : ~Missing(g)
    BY <2>1 DEF Missing
  <2>3. Types
    BY AuditAssumption DEF Init, Types
  <2>4. DockerGap = 0 /\ NomadGap = 0
    BY <2>2 DEF DockerGap, NomadGap
  <2> QED
    BY <2>2, <2>3, <2>4 DEF Init, IInv, Turn, Untroubled, Counted
<1>2. IInv /\ [Next]_vars => IInv'
  <2> SUFFICES ASSUME IInv, [Next]_vars PROVE IInv'
    OBVIOUS
  <2> USE DEF IInv
  <2>1. CASE Which
    <3>1. next \in {6, 10} /\ asked = "no"
      BY <2>1, ChecksFacts DEF Which, InGroup, Turn
    <3>2. UNCHANGED <<critical, warning, passed, printed>>
      BY <2>1 DEF Which, counts
    <3>3. CASE asked' = "yes" /\ UNCHANGED <<next, alerts, faults>>
      BY <3>2, <3>3 DEF Types, Turn, Untroubled, Counted, DockerGap, NomadGap, Missing
    <3>4. CASE /\ alerts' = Append(alerts, Alert(Group(next), "INFO", 0))
               /\ next' = AfterGroup(next)
               /\ UNCHANGED asked
               /\ Answered \/ Lost
      <4> DEFINE a == Alert(Group(next), "INFO", 0)
      <4>1. /\ next = 6 => Group(next) = "DOCKER" /\ next' = 10
            /\ next = 10 => Group(next) = "NOMAD" /\ next' = 13
        <5>1. 6 \in 6..9 /\ 10 \in 10..12
          OBVIOUS
        <5> QED
          BY <3>4, <5>1, ChecksFacts, AfterGroupFacts
      <4>2. a \in Alerts /\ a.check = 0 /\ a.group = Group(next)
        BY <3>1, <4>1, ChecksFacts DEF Alerts, Alert, Levels
      <4> HIDE DEF a
      <4>3. alerts' = Append(alerts, a)
        BY <3>4 DEF a
      <4>4. \A g : Missing(g)' <=> Missing(g) \/ Group(next) = g
        BY <4>2, <4>3, MissingAppend
      <4>5. alerts' # <<>> /\ alerts' \in Seq(Alerts)
        BY <4>2, <4>3 DEF Types
      <4>6. faults' \in 0..MaxFaults
        BY <3>4, AuditAssumption DEF Answered, Lost, Types
      <4>7. printed = "nothing"
        BY <3>1 DEF Turn, Types
      <4>8. Types' /\ Turn' /\ Untroubled'
        BY <3>1, <3>2, <3>4, <4>1, <4>5, <4>6, <4>7 DEF Types, Turn, Untroubled
      <4>9. CASE next = 6
        <5>1. ~Missing("DOCKER") /\ ~Missing("NOMAD")
          BY <4>9 DEF Counted
        <5>2. Missing("DOCKER")' /\ ~Missing("NOMAD")' /\ ~Missing("SYSTEM")'
          BY <4>1, <4>4, <4>9, <5>1 DEF Counted
        <5>3. DockerGap = 0 /\ NomadGap = 0 /\ DockerGap' = 4 /\ NomadGap' = 0
          BY <5>1, <5>2 DEF DockerGap, NomadGap
        <5> QED
          BY <3>2, <4>1, <4>8, <4>9, <5>2, <5>3 DEF Counted, Types
      <4>10. CASE next = 10
        <5>1. ~Missing("NOMAD")
          BY <4>10 DEF Counted
        <5>2. Missing("NOMAD")' /\ (Missing("DOCKER")' <=> Missing("DOCKER")) /\ ~Missing("SYSTEM")'
          BY <4>1, <4>4, <4>10 DEF Counted
        <5>3. NomadGap = 0 /\ NomadGap' = 3 /\ DockerGap' = DockerGap /\ DockerGap \in Nat
          BY <5>1, <5>2 DEF DockerGap, NomadGap
        <5> QED
          BY <3>2, <4>1, <4>8, <4>10, <5>2, <5>3 DEF Counted, Types
      <4> QED
        BY <3>1, <4>9, <4>10
    <3> QED
      BY <2>1, <3>3, <3>4 DEF Which, Answered
  <2>2. CASE RunCheck
    <3>1. next \in 1..12 /\ next' = next + 1 /\ UNCHANGED printed
      BY <2>2, ChecksFacts DEF RunCheck, InGroup, Types
    <3>2. PICK out : Grade(next, out) /\ (UNCHANGED faults \/ (Lost /\ out = "empty"))
      BY <2>2 DEF RunCheck, Answered
    <3>3. asked' \in {"yes", "no"} /\ (asked' = "no" => next' = 6 \/ next' = 10)
      <4>1. CASE next \notin {5, 9, 12}
        <5>1. \/ next \in 1..5 /\ next + 1 \in 1..5
              \/ next \in 6..9 /\ next + 1 \in 6..9
              \/ next \in 10..12 /\ next + 1 \in 10..12
          BY <3>1, <4>1
        <5>2. Group(next + 1) = Group(next)
          BY <5>1, ChecksFacts
        <5> QED
          BY <2>2, <5>2 DEF RunCheck
      <4>2. CASE next = 12
        BY <2>2, <4>2, ChecksFacts DEF RunCheck, InGroup
      <4> QED
        BY <2>2, <3>1, <4>1, <4>2 DEF RunCheck
    <3>4. printed = "nothing"
      BY <3>1 DEF Turn, Types
    <3>5. faults' \in 0..MaxFaults
      BY <3>2, AuditAssumption DEF Lost, Types
    <3>6. ~Missing("NOMAD") /\ NomadGap = 0 /\ DockerGap \in Nat
      BY <3>1 DEF Counted, NomadGap, DockerGap
    <3>7. CASE /\ out \in Checks[next].accepts
               /\ passed' = passed + 1 /\ critical' = critical /\ warning' = warning
               /\ alerts' = alerts
      <4>1. UNCHANGED faults
        BY <3>1, <3>2, <3>7, ChecksFacts DEF Sober
      <4>2. /\ \A g : Missing(g)' <=> Missing(g)
            /\ DockerGap' = DockerGap /\ NomadGap' = NomadGap
        BY <3>7 DEF Missing, DockerGap, NomadGap
      <4>3. Types' /\ Turn' /\ Untroubled'
        BY <3>1, <3>3, <3>4, <3>7, <4>1 DEF Types, Turn, Untroubled
      <4>4. Counted'
        BY <3>1, <3>6, <3>7, <4>2 DEF Counted, Types
      <4> QED
        BY <4>3, <4>4
    <3>8. CASE /\ \E a \in Alerts : alerts' = Append(alerts, a) /\ a.check # 0
               /\ \/ critical' = critical + 1 /\ warning' = warning
                  \/ critical' = critical /\ warning' = warning + 1
               /\ passed' = passed
      <4>1. PICK a \in Alerts : alerts' = Append(alerts, a) /\ a.check # 0
        BY <3>8
      <4>2. \A g : Missing(g)' <=> Missing(g)
        BY <4>1, MissingAppend
      <4>3. DockerGap' = DockerGap /\ NomadGap' = NomadGap
        BY <4>2 DEF DockerGap, NomadGap
      <4>4. alerts' # <<>> /\ alerts' \in Seq(Alerts)
        BY <4>1 DEF Types
      <4>5. Types' /\ Turn' /\ Untroubled'
        BY <3>1, <3>3, <3>4, <3>5, <3>8, <4>4 DEF Types, Turn, Untroubled
      <4>6. Counted'
        <5>1. critical' + warning' + passed' + DockerGap' + NomadGap' = next' - 1
          BY <3>1, <3>6, <3>8, <4>3 DEF Counted, Types
        <5>2. /\ ~Missing("SYSTEM")'
              /\ Missing("DOCKER")' => next' >= 10
              /\ Missing("NOMAD")' => next' = 13
          BY <3>1, <3>6, <4>2 DEF Counted
        <5> QED
          BY <5>1, <5>2 DEF Counted
      <4> QED
        BY <4>5, <4>6
    <3> QED
      BY <3>1, <3>2, <3>7, <3>8, GradeFacts
  <2>3. CASE Report
    <3>1. next = 13
      BY <2>3, ChecksFacts DEF Report, SendAuditReport, SendTelegramMessage, InGroup, Types
    <3>2. /\ UNCHANGED <<next, asked, alerts, critical, warning, passed, faults>>
          /\ printed' \in {"clean", "alerts"} /\ (printed' = "clean" => alerts = <<>>)
      BY <2>3 DEF Report, counts
    <3> QED
      BY <3>1, <3>2 DEF Types, Turn, Untroubled, Counted, DockerGap, NomadGap, Missing
  <2>4. CASE UNCHANGED vars
    BY <2>4 DEF vars, counts, Types, Turn, Untroubled, Counted, DockerGap, NomadGap, Missing
  <2> QED
    BY <2>1, <2>2, <2>3, <2>4 DEF Next
<1> QED
  BY <1>1, <1>2, PTL DEF Spec

(* The checks of a group are an interval of known size. *)
LEMMA IntervalSize ==
    ASSUME NEW a \in Int, NEW b \in Int, a <= b
    PROVE  IsFiniteSet(a..b) /\ Cardinality(a..b) = b - a + 1
<1>1. /\ IsFiniteSet(a..b)
      /\ Cardinality(a..b) = IF a > b THEN 0 ELSE b - a + 1
  BY FS_Interval, Zenon
<1>2. ~(a > b)
  OBVIOUS
<1> QED
  BY <1>1, <1>2, Zenon

(* "All checks passed!" is printed only for a host that answered every command
   and passed every check, however many commands may fail (main.go:295,
   audit.go:111, 132, 181, 204, 246).                                         *)
THEOREM CleanSound == Spec => []CleanMeansAnswered
<1>1. IInv => CleanMeansAnswered
  BY ChecksFacts DEF IInv, Turn, Untroubled, CleanMeansAnswered
<1> QED
  BY <1>1, Invariance, PTL

(* No check is lost or counted twice, however many commands fail
   (audit.go:110-126, 132-141, 180-198, 204-213, 245-263).                    *)
THEOREM Accounting == Spec => []EveryCheckAccounted
<1>1. ASSUME IInv PROVE EveryCheckAccounted
  <2> USE <1>1 DEF IInv
  <2> DEFINE D == IF Missing("DOCKER") THEN 6..9 ELSE {}
             N == IF Missing("NOMAD") THEN 10..12 ELSE {}
  <2>1. Skipped = D \cup N
    <3>1. ASSUME NEW i \in Skipped PROVE i \in D \cup N
      <4>1. i \in 1..12 /\ Missing(Group(i))
        BY DEF Skipped, Types
      <4>2. i \in 1..5 \/ i \in 6..9 \/ i \in 10..12
        BY <4>1
      <4> QED
        BY <4>1, <4>2, ChecksFacts DEF Counted
    <3>2. ASSUME NEW i \in D PROVE i \in Skipped
      <4>1. i \in 6..9 /\ Missing("DOCKER") /\ i \in 1..(next - 1)
        BY DEF Counted, Types
      <4> QED
        BY <4>1, ChecksFacts DEF Skipped
    <3>3. ASSUME NEW i \in N PROVE i \in Skipped
      <4>1. i \in 10..12 /\ Missing("NOMAD") /\ i \in 1..(next - 1)
        BY DEF Counted, Types
      <4> QED
        BY <4>1, ChecksFacts DEF Skipped
    <3> QED
      BY <3>1, <3>2, <3>3
  <2>2. IsFiniteSet(D) /\ Cardinality(D) = DockerGap
    <3>1. 6 \in Int /\ 9 \in Int /\ 6 <= 9 /\ 9 - 6 + 1 = 4
      OBVIOUS
    <3>2. IsFiniteSet(6..9) /\ Cardinality(6..9) = 4
      BY <3>1, IntervalSize
    <3>3. IsFiniteSet({}) /\ Cardinality({}) = 0
      BY FS_EmptySet
    <3> QED
      BY <3>1, <3>2, <3>3 DEF DockerGap
  <2>3. IsFiniteSet(N) /\ Cardinality(N) = NomadGap
    <3>1. 10 \in Int /\ 12 \in Int /\ 10 <= 12 /\ 12 - 10 + 1 = 3
      OBVIOUS
    <3>2. IsFiniteSet(10..12) /\ Cardinality(10..12) = 3
      BY <3>1, IntervalSize
    <3>3. IsFiniteSet({}) /\ Cardinality({}) = 0
      BY FS_EmptySet
    <3> QED
      BY <3>1, <3>2, <3>3 DEF NomadGap
  <2>4. D \cap N = {}
    OBVIOUS
  <2> HIDE DEF D, N
  <2>5. Cardinality(Skipped) = DockerGap + NomadGap
    <3>1. Cardinality(D \cup N) = Cardinality(D) + Cardinality(N) - Cardinality(D \cap N)
      BY <2>2, <2>3, FS_Union
    <3>2. Cardinality(D \cap N) = 0
      BY <2>4, FS_EmptySet
    <3>3. DockerGap \in Nat /\ NomadGap \in Nat
      BY DEF DockerGap, NomadGap
    <3> QED
      BY <2>1, <2>2, <2>3, <3>1, <3>2, <3>3
  <2>6. DockerGap \in Nat /\ NomadGap \in Nat
    BY DEF DockerGap, NomadGap
  <2> QED
    BY <2>5, <2>6 DEF Counted, Types, EveryCheckAccounted
<1> QED
  BY <1>1, Invariance, PTL
------------------------------------------------------------------------------
(* The counters agree with the alerts, and a report has all of both kinds. *)
Told ==
    /\ telegram \in {"none", "chatless", "full"}
    /\ misjudged \in {"yes", "no"}
    /\ sent \subseteq SUBSET Alerts
    /\ printed = "nothing" => sent = {}
    /\ \A k \in DOMAIN alerts : /\ alerts[k].level = "CRITICAL" => critical > 0
                                /\ alerts[k].level = "WARNING" => warning > 0
    /\ ReportTellsAll

(* A message lists every alert that needs attention (audit.go:290-326). *)
LEMMA MessageComplete ==
    ASSUME IInv, Told
    PROVE  /\ Message \in SUBSET Alerts
           /\ \A k \in DOMAIN alerts : alerts[k].level # "INFO" => alerts[k] \in Message
<1>1. \A k \in DOMAIN alerts : alerts[k] \in Alerts
  BY DEF IInv, Types
<1>2. \A k \in DOMAIN alerts : alerts[k].level \in Levels
  BY <1>1 DEF Alerts
<1> QED
  BY <1>1, <1>2 DEF Told, Message, Listed, Levels

(* Every command, and sending the report, keeps what is known of the messages. *)
LEMMA ToldInductive == IInv /\ Told /\ [Next]_vars => Told'
<1> SUFFICES ASSUME IInv, Told, [Next]_vars PROVE Told'
  OBVIOUS
<1>0. alerts \in Seq(Alerts) /\ critical \in Nat /\ warning \in Nat
  BY DEF IInv, Types
<1>a. ASSUME NEW a, alerts' = Append(alerts, a), InGroup(next), critical' \in Nat, warning' \in Nat,
             critical <= critical', warning <= warning',
             a.level = "CRITICAL" => critical' > 0, a.level = "WARNING" => warning' > 0,
             UNCHANGED <<telegram, sent, printed>>, misjudged' \in {"yes", "no"}
      PROVE  Told'
  <2>1. printed = "nothing" /\ sent = {}
    BY <1>a, ChecksFacts DEF IInv, Turn, Types, InGroup, Told
  <2>2. /\ DOMAIN alerts' = DOMAIN alerts \cup {Len(alerts) + 1}
        /\ \A j \in DOMAIN alerts : alerts'[j] = alerts[j]
        /\ alerts'[Len(alerts) + 1] = a
    BY <1>0, <1>a
  <2>3. \A k \in DOMAIN alerts' : /\ alerts'[k].level = "CRITICAL" => critical' > 0
                                  /\ alerts'[k].level = "WARNING" => warning' > 0
    BY <1>0, <1>a, <2>2 DEF Told
  <2> QED
    BY <1>a, <2>1, <2>3 DEF Told, ReportTellsAll
<1>1. CASE Which
  <2>1. InGroup(next) /\ UNCHANGED <<telegram, critical, warning, sent, printed, misjudged>>
    BY <1>1 DEF Which, counts
  <2>2. CASE UNCHANGED alerts
    BY <2>1, <2>2 DEF Told, ReportTellsAll
  <2>3. CASE alerts' = Append(alerts, Alert(Group(next), "INFO", 0))
    <3>1. Alert(Group(next), "INFO", 0).level = "INFO"
      BY DEF Alert
    <3> QED
      BY <1>0, <1>a, <2>1, <2>3, <3>1 DEF Told
  <2> QED
    BY <1>1, <2>2, <2>3 DEF Which
<1>2. CASE RunCheck
  <2>1. InGroup(next) /\ UNCHANGED <<telegram, sent, printed>> /\ misjudged' \in {"yes", "no"}
    BY <1>2 DEF RunCheck, Told
  <2>2. PICK out : Grade(next, out)
    BY <1>2 DEF RunCheck
  <2>3. CASE UNCHANGED <<alerts, critical, warning>>
    BY <2>1, <2>3 DEF Told, ReportTellsAll
  <2>4. CASE /\ Count(Checks[next].level)
             /\ alerts' = Append(alerts, Alert(Group(next), Checks[next].level, next))
    <3>1. Alert(Group(next), Checks[next].level, next).level = Checks[next].level
      BY DEF Alert
    <3>2. /\ critical' \in Nat /\ warning' \in Nat /\ critical <= critical' /\ warning <= warning'
          /\ Checks[next].level = "CRITICAL" => critical' > 0
          /\ Checks[next].level = "WARNING" => warning' > 0
      BY <1>0, <2>4 DEF Count
    <3> QED
      BY <1>a, <2>1, <2>4, <3>1, <3>2
  <2> QED
    BY <2>2, <2>3, <2>4 DEF Grade
<1>3. CASE Report
  <2>1. UNCHANGED <<telegram, alerts, critical, warning, misjudged>> /\ printed' # "nothing"
    BY <1>3 DEF Report, counts
  <2>2. sent' = {Message} \/ sent' = sent
    BY <1>3 DEF Report, SendAuditReport, SendTelegramMessage
  <2>3. sent' \subseteq SUBSET Alerts
    BY <2>2, MessageComplete DEF Told
  <2>4. ReportTellsAll'
    BY <2>1, <2>2, MessageComplete DEF Told, ReportTellsAll
  <2> QED
    BY <2>1, <2>3, <2>4 DEF Told
<1>4. CASE UNCHANGED vars
  BY <1>4 DEF vars, counts, Told, ReportTellsAll
<1> QED
  BY <1>1, <1>2, <1>3, <1>4 DEF Next

(* So it holds at every moment of an audit. *)
LEMMA ToldInvariance == Spec => [](IInv /\ Told)
<1>1. Init => Told
  BY DEF Init, Told, ReportTellsAll
<1> QED
  BY <1>1, Invariance, ToldInductive, PTL DEF Spec

(* The Telegram report that goes out lists every critical alert and every warning
   of all three groups, whichever commands fail (audit.go:290-326).           *)
THEOREM ReportComplete == Spec => []ReportTellsAll
<1>1. Told => ReportTellsAll
  BY DEF Told
<1> QED
  BY <1>1, ToldInvariance, PTL

(* Every alert names a group, a level and one of the twelve checks, and so does
   what is sent (audit.go:110-263).                                           *)
THEOREM AuditTypeCorrect == Spec => []TypeOK
<1>1. IInv /\ Told => TypeOK
  BY ChecksFacts DEF IInv, Types, Told, TypeOK
<1> QED
  BY <1>1, ToldInvariance, PTL
==============================================================================
