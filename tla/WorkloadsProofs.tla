-------------------------- MODULE WorkloadsProofs --------------------------
(* Theorems about Workloads, for any containers, volumes, compose project, jobs
   and number of faults: a failure stays with its item, and what is left in /tmp
   belongs to an item that failed.                                            *)
EXTENDS Workloads, TLAPS

Vols == ToSet(Volumes)
Js   == ToSet(Jobs)
Cs   == ToSet(Containers)

(* A container as gs keeps it: inspected, or as docker ps had it. *)
Full(c) == [name |-> c.name, image |-> c.image, ports |-> {b[2] : b \in c.bindings}]
Bare(c) == [name |-> "", image |-> c.image, ports |-> {}]
Captured == {Full(c) : c \in Cs} \cup {Bare(c) : c \in Cs}
States == [containers : Seq(Captured), volumes : Seq(Vols), compose : {"yes", "no"}, jobs : Seq(Js)]

(* What the loop gs is in still has to do. *)
Loops ==
    /\ pc = "inspect" => todo \in Seq(Cs)
    /\ pc \in {"tar", "vmkdir", "vwrite", "vtar"} => todo \in Seq(Vols)
    /\ pc = "run" => todo \in Seq(Captured)
    /\ pc \in {"job", "jwrite", "jrun", "jrm"} => todo \in Seq(Js)
    /\ pc \in {"inspect", "tar", "job", "vmkdir", "vwrite", "vtar", "run", "jwrite", "jrun", "jrm"} =>
          todo # <<>>

Known(n, p) == \E b \in Service(n).bindings : p[1] \in {b[1], Ephemeral} /\ p[2] = b[2]
Ports == \A n \in DOMAIN up : \A p \in up[n] : Known(n, p)

Held ==
    /\ tools \subseteq {"docker", "nomad"} /\ images \subseteq AllImages
    /\ DOMAIN up \subseteq Names
    /\ Ports
    /\ dirs \subseteq Vols
    /\ files \in [Vols -> SUBSET {MountPoint, Unpacked(MountPoint)}]
    /\ jobs \subseteq Js
    /\ tmp \in [TmpItems -> {"none", "whole", "cut"}]
    /\ faults \in 0..MaxFaults

Typed == Held /\ ext \in States /\ Loops

(* A file in /tmp belongs to an item that failed or is being restored. *)
Accounted ==
    \A i \in TmpItems : tmp[i] # "none" =>
        \/ i \in trouble
        \/ pc = "vtar" /\ i = Volume(Head(todo))
        \/ pc \in {"jrun", "jrm"} /\ i = Job(Head(todo))

(* Restored, or its failure logged. *)
VDone(v) == files[v] # {} \/ Volume(v) \in trouble
CDone(c) == c.name \in DOMAIN up \/ Running(c.name) \in trouble
JDone(j) == j \in jobs \/ Job(j) \in trouble

VolumesDone    == \A v \in ToSet(ext.volumes) : VDone(v)
ContainersDone == \A c \in ToSet(ext.containers) : CDone(c)

(* Every captured item is done with, or in the loop of a stage still to come. *)
Stages ==
    /\ pc \in {"vmkdir", "vwrite", "vtar", "cwrite", "cup", "run"} => ext.containers # <<>>
    /\ pc \in {"vmkdir", "vwrite", "vtar"} =>
          \A v \in ToSet(ext.volumes) : v \in ToSet(todo) \/ VDone(v)
    /\ pc \in {"cwrite", "cup", "run"} => VolumesDone
    /\ pc = "run" => \A c \in ToSet(ext.containers) : c \in ToSet(todo) \/ CDone(c)
    /\ pc \in {"jwrite", "jrun", "jrm", "done"} =>
          ContainersDone /\ (ext.containers # <<>> => VolumesDone)
    /\ pc \in {"jwrite", "jrun", "jrm"} => \A j \in ToSet(ext.jobs) : j \in ToSet(todo) \/ JDone(j)
    /\ pc = "done" => \A j \in ToSet(ext.jobs) : JDone(j)
    /\ pc = "jrm" => Head(todo) \in jobs

IInv == Typed /\ Accounted /\ Stages
------------------------------------------------------------------------------
(* A loop takes the head of its list and goes on with the tail. *)
LEMMA HeadTail ==
    ASSUME NEW S, NEW s \in Seq(S), s # <<>>
    PROVE  /\ Head(s) \in S /\ Tail(s) \in Seq(S)
           /\ Len(s) \in Nat \ {0} /\ Len(Tail(s)) = Len(s) - 1
           /\ ToSet(s) = {Head(s)} \cup ToSet(Tail(s))
<1>1. Len(s) \in Nat \ {0} /\ Head(s) = s[1] /\ Head(s) \in S
  OBVIOUS
<1>2. /\ Tail(s) \in Seq(S) /\ Len(Tail(s)) = Len(s) - 1
      /\ \A i \in 1..(Len(s) - 1) : Tail(s)[i] = s[i + 1]
  OBVIOUS
<1>3. ASSUME NEW x \in ToSet(s) PROVE x \in {Head(s)} \cup ToSet(Tail(s))
  <2>1. PICK i \in 1..Len(s) : x = s[i]
    BY DEF ToSet
  <2>2. CASE i = 1
    BY <1>1, <2>1, <2>2
  <2>3. CASE i # 1
    <3>1. i - 1 \in 1..(Len(s) - 1) /\ Tail(s)[i - 1] = s[i]
      BY <1>1, <1>2, <2>3
    <3>2. i - 1 \in DOMAIN Tail(s) /\ x = Tail(s)[i - 1]
      BY <1>1, <1>2, <2>1, <3>1
    <3> QED
      BY <3>2 DEF ToSet
  <2> QED
    BY <2>2, <2>3
<1>4. ASSUME NEW x \in ToSet(Tail(s)) PROVE x \in ToSet(s)
  <2>1. PICK i \in 1..(Len(s) - 1) : x = s[i + 1]
    BY <1>1, <1>2 DEF ToSet
  <2>2. i + 1 \in DOMAIN s
    BY <1>1
  <2> QED
    BY <2>1, <2>2 DEF ToSet
<1>5. Head(s) \in ToSet(s)
  <2>1. 1 \in DOMAIN s
    BY <1>1
  <2> QED
    BY <1>1, <2>1 DEF ToSet
<1> QED
  BY <1>1, <1>2, <1>3, <1>4, <1>5

(* Taking an item of a list to its front loses none. *)
LEMMA ToFront ==
    ASSUME NEW S, NEW s \in Seq(S), NEW i \in DOMAIN s
    PROVE  LET t == <<s[i]>> \o RemoveAt(s, i)
           IN  t \in Seq(S) /\ t # <<>> /\ ToSet(t) = ToSet(s)
<1> DEFINE a == SubSeq(s, 1, i - 1)
           b == SubSeq(s, i + 1, Len(s))
           t == <<s[i]>> \o RemoveAt(s, i)
           n == Len(s)
<1>1. n \in Nat /\ i \in 1..n /\ DOMAIN s = 1..n /\ s[i] \in S
  OBVIOUS
<1>2. a \in Seq(S) /\ Len(a) = i - 1 /\ \A j \in 1..(i - 1) : a[j] = s[j]
  BY <1>1
<1>3. b \in Seq(S) /\ Len(b) = n - i /\ \A j \in 1..(n - i) : b[j] = s[i + j]
  BY <1>1
<1>4. RemoveAt(s, i) = a \o b
  BY DEF RemoveAt
<1> HIDE DEF a, b, n
<1>5. /\ a \o b \in Seq(S) /\ Len(a \o b) = n - 1
      /\ \A j \in 1..(n - 1) : (a \o b)[j] = IF j <= i - 1 THEN s[j] ELSE s[j + 1]
  <2>1. a \o b \in Seq(S) /\ Len(a \o b) = n - 1
    BY <1>1, <1>2, <1>3
  <2>2. ASSUME NEW j \in 1..(n - 1) PROVE (a \o b)[j] = IF j <= i - 1 THEN s[j] ELSE s[j + 1]
    <3>1. CASE j <= i - 1
      BY <1>1, <1>2, <1>3, <3>1
    <3>2. CASE ~(j <= i - 1)
      <4>1. (a \o b)[j] = b[j - (i - 1)]
        BY <1>1, <1>2, <1>3, <3>2
      <4>2. j - (i - 1) \in 1..(n - i) /\ i + (j - (i - 1)) = j + 1
        BY <1>1, <3>2
      <4> QED
        BY <1>3, <3>2, <4>1, <4>2
    <3> QED
      BY <3>1, <3>2
  <2> QED
    BY <2>1, <2>2
<1> DEFINE c == a \o b
<1> HIDE DEF c
<1>6. /\ t \in Seq(S) /\ Len(t) = n /\ t[1] = s[i]
      /\ \A j \in 2..n : t[j] = c[j - 1]
  BY <1>1, <1>4, <1>5 DEF c
<1> HIDE DEF t
<1>7. ASSUME NEW x \in ToSet(t) PROVE x \in ToSet(s)
  <2>1. PICK j \in 1..n : x = t[j]
    BY <1>1, <1>6 DEF ToSet
  <2>2. \E k \in 1..n : x = s[k]
    <3>1. CASE j = 1
      BY <1>1, <1>6, <2>1, <3>1
    <3>2. CASE j # 1
      <4>1. j \in 2..n /\ j - 1 \in 1..(n - 1) /\ (j - 1) + 1 = j
        BY <1>1, <3>2
      <4>2. x = IF j - 1 <= i - 1 THEN s[j - 1] ELSE s[j]
        BY <1>1, <1>5, <1>6, <2>1, <4>1 DEF c
      <4> QED
        BY <1>1, <4>1, <4>2
    <3> QED
      BY <3>1, <3>2
  <2> QED
    BY <1>1, <2>2 DEF ToSet
<1>8. ASSUME NEW x \in ToSet(s) PROVE x \in ToSet(t)
  <2>1. PICK j \in 1..n : x = s[j]
    BY <1>1 DEF ToSet
  <2>2. \E k \in 1..n : x = t[k]
    <3>1. CASE j = i
      BY <1>1, <1>6, <2>1, <3>1
    <3>2. CASE j < i
      <4>1. j + 1 \in 2..n /\ j \in 1..(n - 1) /\ (j + 1) - 1 = j /\ j <= i - 1
        BY <1>1, <3>2
      <4>2. t[j + 1] = s[j]
        BY <1>5, <1>6, <4>1 DEF c
      <4> QED
        BY <1>1, <2>1, <4>1, <4>2
    <3>3. CASE j > i
      <4>1. j \in 2..n /\ j - 1 \in 1..(n - 1) /\ (j - 1) + 1 = j /\ ~(j - 1 <= i - 1)
        BY <1>1, <3>3
      <4>2. t[j] = s[j]
        BY <1>5, <1>6, <4>1 DEF c
      <4> QED
        BY <2>1, <4>1, <4>2
    <3> QED
      BY <1>1, <3>1, <3>2, <3>3
  <2> QED
    BY <1>6, <2>2 DEF ToSet
<1>9. t # <<>>
  BY <1>1, <1>6
<1> QED
  BY <1>6, <1>7, <1>8, <1>9 DEF t

(* Container names are unique: a name stands for its container. *)
LEMMA ServiceFacts ==
    /\ \A c \in Cs : c.name \in Names /\ Service(c.name) = c
    /\ \A n \in Names : Service(n) \in Cs /\ Service(n).name = n
    /\ \A c \in Cs : c.image \in AllImages
<1>1. \A c, d \in Cs : c.name = d.name => c = d
  BY WorkloadsAssumption DEF Cs, ToSet
<1>2. \A c \in Cs : c.name \in Names /\ c.image \in AllImages
  BY DEF Cs, ToSet, Names, AllImages
<1>3. ASSUME NEW n \in Names PROVE Service(n) \in Cs /\ Service(n).name = n
  <2>1. \E c \in Cs : c.name = n
    BY DEF Cs, ToSet, Names
  <2> QED
    BY <2>1 DEF Service, Cs
<1> QED
  BY <1>1, <1>2, <1>3
------------------------------------------------------------------------------
(* What is on the target keeps its type when a fault is counted or not. *)
LEMMA FaultTypes == Typed /\ (Answered \/ Lost) => faults' \in 0..MaxFaults
  BY WorkloadsAssumption DEF Typed, Held, Answered, Lost

(* A started compose project publishes what its file says, and its images are the
   ones of the source (docker.go:337-344).                                    *)
LEMMA ComposeTypes ==
    ASSUME Typed, NEW done \in SUBSET Composed
    PROVE  /\ DOMAIN Started(done) \subseteq Names
           /\ \A n \in DOMAIN Started(done) : \A p \in Started(done)[n] : Known(n, p)
           /\ Pulled(done) \subseteq AllImages
<1>1. done \subseteq Names
  BY WorkloadsAssumption DEF Names
<1>2. Pulled(done) \subseteq AllImages
  BY <1>1, ServiceFacts DEF Pulled, Typed, Held
<1>3. /\ DOMAIN Started(done) = DOMAIN up \cup done
      /\ \A n \in DOMAIN up : Started(done)[n] = up[n]
      /\ \A n \in done : n \notin DOMAIN up => Started(done)[n] = Service(n).bindings
  BY DEF Started
<1>4. \A n : \A p \in Service(n).bindings : Known(n, p)
  BY DEF Known
<1> QED
  BY <1>1, <1>2, <1>3, <1>4 DEF Typed, Held, Ports

(* A container that is run publishes container ports of the source's
   (docker.go:346-377).                                                       *)
LEMMA RunTypes ==
    ASSUME NEW c \in Captured, c.name # ""
    PROVE  c.name \in Names /\ \A q \in c.ports : Known(c.name, <<Ephemeral, q>>)
<1>0. \A d \in Cs : c # Bare(d)
  <2>1. \A d \in Cs : Bare(d).name = ""
    BY DEF Bare
  <2> QED
    BY <2>1, Zenon
<1>1. PICK d \in Cs : c = Full(d)
  BY <1>0, Zenon DEF Captured
<1>2. c.name = d.name /\ c.ports = {b[2] : b \in d.bindings}
  BY <1>1 DEF Full
<1>3. c.name \in Names /\ Service(c.name) = d
  BY <1>2, ServiceFacts
<1>4. ASSUME NEW q \in c.ports PROVE Known(c.name, <<Ephemeral, q>>)
  <2>1. PICK b \in d.bindings : q = b[2]
    BY <1>2, <1>4
  <2> QED
    BY <1>3, <2>1 DEF Known
<1> QED
  BY <1>3, <1>4

(* Capturing keeps the state of the source well-typed and the target alone. *)
LEMMA CaptureTypes == Typed /\ Capture => UNCHANGED target /\ ext' \in States /\ faults' \in 0..MaxFaults
<1> SUFFICES ASSUME Typed, Capture
             PROVE  UNCHANGED target /\ ext' \in States /\ faults' \in 0..MaxFaults
  OBVIOUS
<1>0. ext \in States
  BY DEF Typed
<1>1. UNCHANGED target /\ (Answered \/ Lost)
  BY DEF Capture, Ps, Inspect, ListVolumes, TarVolume, ReadCompose, ValidateNomadInstall,
         ListJobs, InspectJob
<1>2. faults' \in 0..MaxFaults
  BY <1>1, FaultTypes
<1>3. ext' \in States
  <2>1. CASE Inspect
    <3>1. Head(todo) \in Cs
      BY <2>1, HeadTail DEF Inspect, Typed, Loops
    <3>2. Full(Head(todo)) \in Captured /\ Bare(Head(todo)) \in Captured
      BY <3>1 DEF Captured
    <3>3. \/ ext' = [ext EXCEPT !.containers = Append(@, Full(Head(todo)))]
          \/ ext' = [ext EXCEPT !.containers = Append(@, Bare(Head(todo)))]
          \/ ext' = ext
      BY <2>1 DEF Inspect, Full, Bare
    <3>4. /\ Append(ext.containers, Full(Head(todo))) \in Seq(Captured)
          /\ Append(ext.containers, Bare(Head(todo))) \in Seq(Captured)
      <4>1. ext.containers \in Seq(Captured)
        BY <1>0 DEF States
      <4> QED
        BY <3>2, <4>1
    <3> QED
      BY <1>0, <3>3, <3>4 DEF States
  <2>2. CASE TarVolume
    <3>1. Head(todo) \in Vols
      BY <2>2, HeadTail DEF TarVolume, Typed, Loops
    <3>2. Append(ext.volumes, Head(todo)) \in Seq(Vols)
      <4>1. ext.volumes \in Seq(Vols)
        BY <1>0 DEF States
      <4> QED
        BY <3>1, <4>1
    <3> QED
      BY <1>0, <2>2, <3>2 DEF TarVolume, States
  <2>3. CASE InspectJob
    <3>1. Head(todo) \in Js
      BY <2>3, HeadTail DEF InspectJob, Typed, Loops
    <3>2. Append(ext.jobs, Head(todo)) \in Seq(Js)
      <4>1. ext.jobs \in Seq(Js)
        BY <1>0 DEF States
      <4> QED
        BY <3>1, <4>1
    <3> QED
      BY <1>0, <2>3, <3>2 DEF InspectJob, States
  <2>4. CASE ReadCompose
    BY <1>0, <2>4 DEF ReadCompose, States
  <2>5. CASE Ps \/ ListVolumes \/ ValidateNomadInstall \/ ListJobs
    BY <1>0, <2>5 DEF Ps, ListVolumes, ValidateNomadInstall, ListJobs
  <2> QED
    BY <2>1, <2>2, <2>3, <2>4, <2>5 DEF Capture
<1> QED
  BY <1>1, <1>2, <1>3

(* Nothing else comes onto the target, and the captured state stays. *)
LEMMA HeldInductive == Typed /\ [Next]_vars => Held' /\ ext' \in States
<1> SUFFICES ASSUME Typed, [Next]_vars PROVE Held' /\ ext' \in States
  OBVIOUS
<1>h. Held /\ ext \in States
  BY DEF Typed
<1>i. /\ \A v \in Vols : Volume(v) \in TmpItems
      /\ \A j \in Js : Job(j) \in TmpItems
  BY DEF Vols, Js, ToSet, TmpItems
<1>0. ASSUME UNCHANGED target, faults' \in 0..MaxFaults PROVE Held'
  BY <1>h, <1>0 DEF target, Held, Ports
<1>1. CASE Begin
  <2>1. Nothing \in States
    BY DEF Nothing, States
  <2>2. faults' \in 0..MaxFaults
    BY <1>1, <1>h DEF Begin, Held
  <2> QED
    BY <1>0, <1>1, <2>1, <2>2 DEF Begin
<1>2. CASE Capture
  BY <1>0, <1>2, CaptureTypes
<1>3. CASE Restore
  BY <1>0, <1>3, <1>h DEF Restore, Held
<1>4. CASE VolumeMkdir
  <2>1. UNCHANGED <<tools, images, up, files, jobs, tmp, ext>> /\ (Answered \/ Lost)
    BY <1>4 DEF VolumeMkdir
  <2>2. PICK i \in DOMAIN todo : dirs' \in {dirs, dirs \cup {todo[i]}}
    BY <1>4 DEF VolumeMkdir
  <2>3. todo[i] \in Vols
    BY <1>4 DEF VolumeMkdir, Typed, Loops
  <2> QED
    BY <1>h, <2>1, <2>2, <2>3, FaultTypes DEF Held, Ports
<1>5. CASE VolumeWrite
  <2>1. UNCHANGED <<tools, images, up, dirs, files, jobs, ext>> /\ (Answered \/ Lost)
    BY <1>5 DEF VolumeWrite
  <2>2. Head(todo) \in Vols
    BY <1>5, HeadTail DEF VolumeWrite, Typed, Loops
  <2>3. tmp' \in [TmpItems -> {"none", "whole", "cut"}]
    BY <1>5, <1>h, <1>i, <2>2 DEF VolumeWrite, Held
  <2> QED
    BY <1>h, <2>1, <2>3, FaultTypes DEF Held, Ports
<1>6. CASE VolumeUnpack
  <2>1. UNCHANGED <<tools, images, up, dirs, jobs, ext>> /\ (Answered \/ Lost)
    BY <1>6 DEF VolumeUnpack
  <2>2. Head(todo) \in Vols
    BY <1>6, HeadTail DEF VolumeUnpack, Typed, Loops
  <2>3. /\ tmp' \in {tmp, [tmp EXCEPT ![Volume(Head(todo))] = "none"]}
        /\ files' \in {files, [files EXCEPT ![Head(todo)] = @ \cup {Unpacked(MountPoint)}]}
    BY <1>6 DEF VolumeUnpack
  <2>4. tmp' \in [TmpItems -> {"none", "whole", "cut"}]
    BY <1>h, <2>3 DEF Held
  <2>5. files' \in [Vols -> SUBSET {MountPoint, Unpacked(MountPoint)}]
    BY <1>h, <2>2, <2>3 DEF Held
  <2> QED
    BY <1>h, <2>1, <2>4, <2>5, FaultTypes DEF Held, Ports
<1>7. CASE ComposeWrite
  BY <1>0, <1>7, <1>h, FaultTypes DEF ComposeWrite
<1>8. CASE ComposeUp
  <2>1. UNCHANGED <<tools, dirs, files, jobs, tmp, ext>> /\ (Answered \/ Lost)
    BY <1>8 DEF ComposeUp
  <2>2. \/ UNCHANGED <<up, images>>
        \/ \E done, pulled \in SUBSET Composed : up' = Started(done) /\ images' = Pulled(pulled)
    BY <1>8 DEF ComposeUp
  <2>3. DOMAIN up' \subseteq Names /\ Ports' /\ images' \subseteq AllImages
    <3>1. CASE UNCHANGED <<up, images>>
      BY <1>h, <3>1 DEF Held, Ports
    <3>2. ASSUME NEW done \in SUBSET Composed, NEW pulled \in SUBSET Composed,
                 up' = Started(done), images' = Pulled(pulled)
          PROVE  DOMAIN up' \subseteq Names /\ Ports' /\ images' \subseteq AllImages
      BY <3>2, ComposeTypes DEF Ports
    <3> QED
      BY <2>2, <3>1, <3>2
  <2> QED
    BY <1>h, <2>1, <2>3, FaultTypes DEF Held
<1>9. CASE RunContainer
  <2> DEFINE c == Head(todo)
             new == [n \in DOMAIN up \cup {c.name} |->
                       IF n \in DOMAIN up THEN up[n] ELSE {<<Ephemeral, p>> : p \in c.ports}]
  <2>1. UNCHANGED <<tools, images, dirs, files, jobs, tmp, ext>> /\ (Answered \/ Lost)
    BY <1>9 DEF RunContainer
  <2>2. up' = up \/ (up' = new /\ c.name # "")
    BY <1>9 DEF RunContainer
  <2>3. c \in Captured
    BY <1>9, HeadTail DEF RunContainer, Typed, Loops
  <2>4. DOMAIN up' \subseteq Names /\ Ports'
    <3>1. CASE up' = up
      BY <1>h, <3>1 DEF Held, Ports
    <3>2. CASE up' = new /\ c.name # ""
      <4>1. c.name \in Names /\ \A q \in c.ports : Known(c.name, <<Ephemeral, q>>)
        BY <2>3, <3>2, RunTypes
      <4> HIDE DEF c
      <4>2. DOMAIN new = DOMAIN up \cup {c.name}
        OBVIOUS
      <4>3. ASSUME NEW n \in DOMAIN new, NEW p \in new[n] PROVE Known(n, p)
        <5>1. CASE n \in DOMAIN up
          BY <1>h, <4>3, <5>1 DEF Held, Ports
        <5>2. CASE n \notin DOMAIN up
          <6>1. n = c.name /\ p \in {<<Ephemeral, q>> : q \in c.ports}
            BY <4>3, <5>2
          <6>2. PICK q \in c.ports : p = <<Ephemeral, q>>
            BY <6>1
          <6> QED
            BY <4>1, <6>1, <6>2
        <5> QED
          BY <5>1, <5>2
      <4> HIDE DEF new
      <4> QED
        BY <1>h, <3>2, <4>1, <4>2, <4>3 DEF Held, Ports
    <3> QED
      BY <2>2, <3>1, <3>2
  <2> QED
    BY <1>h, <2>1, <2>4, FaultTypes DEF Held
<1>10. CASE JobWrite
  <2>1. UNCHANGED <<tools, images, up, dirs, files, jobs, ext>> /\ (Answered \/ Lost)
    BY <1>10 DEF JobWrite
  <2>2. Head(todo) \in Js
    BY <1>10, HeadTail DEF JobWrite, Typed, Loops
  <2>3. tmp' \in [TmpItems -> {"none", "whole", "cut"}]
    BY <1>10, <1>h, <1>i, <2>2 DEF JobWrite, Held
  <2> QED
    BY <1>h, <2>1, <2>3, FaultTypes DEF Held, Ports
<1>11. CASE JobRun
  <2>1. UNCHANGED <<tools, images, up, dirs, files, tmp, ext>> /\ (Answered \/ Lost)
    BY <1>11 DEF JobRun
  <2>2. Head(todo) \in Js
    BY <1>11, HeadTail DEF JobRun, Typed, Loops
  <2>3. jobs' \in {jobs, jobs \cup {Head(todo)}}
    BY <1>11 DEF JobRun
  <2> QED
    BY <1>h, <2>1, <2>2, <2>3, FaultTypes DEF Held, Ports
<1>12. CASE JobRemove
  <2>1. UNCHANGED <<tools, images, up, dirs, files, jobs, ext>> /\ (Answered \/ Lost)
    BY <1>12 DEF JobRemove
  <2>2. tmp' \in {tmp, [tmp EXCEPT ![Job(Head(todo))] = "none"]}
    BY <1>12 DEF JobRemove
  <2>3. tmp' \in [TmpItems -> {"none", "whole", "cut"}]
    BY <1>h, <2>2 DEF Held
  <2> QED
    BY <1>h, <2>1, <2>3, FaultTypes DEF Held, Ports
<1>13. CASE Crash
  BY <1>0, <1>13, <1>h, FaultTypes DEF Crash
<1>14. CASE UNCHANGED vars
  BY <1>0, <1>14, <1>h DEF vars, Held
<1> QED
  BY <1>1, <1>2, <1>3, <1>4, <1>5, <1>6, <1>7, <1>8, <1>9, <1>10, <1>11, <1>12, <1>13, <1>14
     DEF Next, Recreate
------------------------------------------------------------------------------
(* A file in /tmp is removed, or its item is in trouble, before gs goes on with
   the next item (docker.go:306-325, nomad.go:144-177).                       *)
LEMMA AccountedInductive == Typed /\ Accounted /\ [Next]_vars => Accounted'
<1> SUFFICES ASSUME Typed, Accounted, [Next]_vars PROVE Accounted'
  OBVIOUS
<1>h. tmp \in [TmpItems -> {"none", "whole", "cut"}]
  BY DEF Typed, Held
<1>n. \A v, j, c : Running(c) \notin TmpItems /\ Compose \notin TmpItems /\ Volume(v) # Job(j)
  BY DEF Running, Compose, TmpItems, Volume, Job
<1>0. ASSUME UNCHANGED tmp, trouble \cap TmpItems \subseteq trouble',
             pc \notin {"vtar", "jrun", "jrm"}
      PROVE  Accounted'
  BY <1>0 DEF Accounted
<1>1. CASE Begin \/ Capture \/ Restore \/ VolumeMkdir
  <2>1. UNCHANGED <<tmp, trouble>> /\ pc \notin {"vtar", "jrun", "jrm"}
    BY <1>1 DEF Begin, Capture, Ps, Inspect, ListVolumes, TarVolume, ReadCompose,
                ValidateNomadInstall, ListJobs, InspectJob, Restore, VolumeMkdir, target
  <2> QED
    BY <1>0, <2>1
<1>2. CASE VolumeWrite
  <2> DEFINE v == Head(todo)
  <2>1. \A i \in TmpItems : i # Volume(v) => tmp'[i] = tmp[i]
    BY <1>2, <1>h DEF VolumeWrite
  <2>2. \/ pc' = "vtar" /\ UNCHANGED <<todo, trouble>>
        \/ trouble' = trouble \cup {Volume(v)}
    BY <1>2 DEF VolumeWrite, Fail
  <2>3. pc = "vwrite"
    BY <1>2 DEF VolumeWrite
  <2> QED
    BY <2>1, <2>2, <2>3 DEF Accounted
<1>3. CASE VolumeUnpack
  <2> DEFINE v == Head(todo)
  <2>1. pc = "vtar"
    BY <1>3 DEF VolumeUnpack
  <2>2. CASE tmp' = [tmp EXCEPT ![Volume(v)] = "none"] /\ Fine(Volume(v))
    <3>1. \A i \in TmpItems : IF i = Volume(v) THEN tmp'[i] = "none" ELSE tmp'[i] = tmp[i]
      BY <1>h, <2>2
    <3> QED
      BY <2>1, <2>2, <3>1 DEF Accounted, Fine
  <2>3. CASE tmp' \in {tmp, [tmp EXCEPT ![Volume(v)] = "none"]} /\ Fail(Volume(v))
    <3>1. \A i \in TmpItems : i # Volume(v) => tmp'[i] = tmp[i]
      BY <1>h, <2>3
    <3> QED
      BY <2>1, <2>3, <3>1 DEF Accounted, Fail
  <2> QED
    BY <1>3, <2>2, <2>3 DEF VolumeUnpack
<1>4. CASE ComposeWrite \/ ComposeUp \/ RunContainer
  <2>1. UNCHANGED tmp /\ pc \notin {"vtar", "jrun", "jrm"}
    BY <1>4 DEF ComposeWrite, ComposeUp, RunContainer, target
  <2>2. \/ trouble \subseteq trouble'
        \/ trouble' = trouble \ {Compose}
        \/ \E c : trouble' = trouble \ {Running(c)}
    BY <1>4 DEF ComposeWrite, ComposeUp, RunContainer, Fail, Fine
  <2>3. trouble \cap TmpItems \subseteq trouble'
    BY <1>n, <2>2
  <2> QED
    BY <1>0, <2>1, <2>3
<1>5. CASE JobWrite
  <2> DEFINE j == Head(todo)
  <2>1. \A i \in TmpItems : i # Job(j) => tmp'[i] = tmp[i]
    BY <1>5, <1>h DEF JobWrite
  <2>2. \/ pc' = "jrun" /\ UNCHANGED <<todo, trouble>>
        \/ trouble' = trouble \cup {Job(j)}
    BY <1>5 DEF JobWrite, Fail
  <2>3. pc = "jwrite"
    BY <1>5 DEF JobWrite
  <2> QED
    BY <2>1, <2>2, <2>3 DEF Accounted
<1>6. CASE JobRun
  <2> DEFINE j == Head(todo)
  <2>1. UNCHANGED tmp /\ pc = "jrun"
    BY <1>6 DEF JobRun
  <2>2. \/ pc' = "jrm" /\ UNCHANGED <<todo, trouble>>
        \/ trouble' = trouble \cup {Job(j)}
    BY <1>6 DEF JobRun, Fail
  <2> QED
    BY <2>1, <2>2 DEF Accounted
<1>7. CASE JobRemove
  <2> DEFINE j == Head(todo)
  <2>1. pc = "jrm"
    BY <1>7 DEF JobRemove
  <2>2. CASE tmp' = [tmp EXCEPT ![Job(j)] = "none"] /\ Fine(Job(j))
    <3>1. \A i \in TmpItems : IF i = Job(j) THEN tmp'[i] = "none" ELSE tmp'[i] = tmp[i]
      BY <1>h, <2>2
    <3> QED
      BY <2>1, <2>2, <3>1 DEF Accounted, Fine
  <2>3. CASE tmp' \in {tmp, [tmp EXCEPT ![Job(j)] = "none"]} /\ Fail(Job(j))
    <3>1. \A i \in TmpItems : i # Job(j) => tmp'[i] = tmp[i]
      BY <1>h, <2>3
    <3> QED
      BY <2>1, <2>3, <3>1 DEF Accounted, Fail
  <2> QED
    BY <1>7, <2>2, <2>3 DEF JobRemove
<1>8. CASE Crash
  BY <1>8 DEF Crash, target, Accounted
<1>9. CASE UNCHANGED vars
  BY <1>9 DEF vars, target, Accounted
<1> QED
  BY <1>1, <1>2, <1>3, <1>4, <1>5, <1>6, <1>7, <1>8, <1>9 DEF Next, Recreate
------------------------------------------------------------------------------
(* What is done stays done: nothing on the target is taken away, and an item is
   taken out of trouble only when it is there.                                *)
LEMMA DoneStays ==
    ASSUME Typed, Stages, [Next]_vars
    PROVE  /\ \A v \in Vols : VDone(v) => VDone(v)'
           /\ \A c \in Captured : CDone(c) => CDone(c)'
           /\ \A j \in Js : JDone(j) => JDone(j)'
<1>n. \A v, j, c : /\ Volume(v) # Job(j) /\ Volume(v) # Running(c) /\ Job(j) # Running(c)
                   /\ Compose \notin {Volume(v), Job(j), Running(c)}
  BY DEF Running, Compose, Volume, Job
<1>m. \A v, w : /\ Volume(v) = Volume(w) => v = w
                /\ Job(v) = Job(w) => v = w
                /\ Running(v) = Running(w) => v = w
  BY DEF Running, Volume, Job
<1>h. files \in [Vols -> SUBSET {MountPoint, Unpacked(MountPoint)}]
  BY DEF Typed, Held
<1>0. ASSUME trouble \subseteq trouble', jobs \subseteq jobs', DOMAIN up \subseteq DOMAIN up',
             \A v \in Vols : files[v] \subseteq files'[v]
      PROVE  /\ \A v \in Vols : VDone(v) => VDone(v)'
             /\ \A c \in Captured : CDone(c) => CDone(c)'
             /\ \A j \in Js : JDone(j) => JDone(j)'
  BY <1>0 DEF VDone, CDone, JDone
<1>1. CASE Begin \/ Capture \/ Restore \/ VolumeMkdir \/ VolumeWrite \/ ComposeWrite \/ JobWrite
           \/ Crash \/ UNCHANGED vars
  <2>1. trouble \subseteq trouble' /\ UNCHANGED <<jobs, up, files>>
    BY <1>1 DEF Begin, Capture, Ps, Inspect, ListVolumes, TarVolume, ReadCompose,
                ValidateNomadInstall, ListJobs, InspectJob, Restore, VolumeMkdir, VolumeWrite,
                ComposeWrite, JobWrite, Crash, Fail, vars, target
  <2> QED
    BY <1>0, <2>1
<1>2. CASE VolumeUnpack
  <2> DEFINE w == Head(todo)
             unpacked == [files EXCEPT ![w] = @ \cup {Unpacked(MountPoint)}]
  <2>1. UNCHANGED <<jobs, up>> /\ w \in Vols
    BY <1>2, HeadTail DEF VolumeUnpack, Typed, Loops
  <2>2. /\ \A v \in Vols : files[v] \subseteq unpacked[v]
        /\ unpacked[w] # {}
    BY <1>h, <2>1
  <2>3. \/ files' = unpacked /\ trouble' = trouble \ {Volume(w)}
        \/ files' \in {files, unpacked} /\ trouble' = trouble \cup {Volume(w)}
    BY <1>2 DEF VolumeUnpack, Fail, Fine
  <2> HIDE DEF w, unpacked
  <2>4. CASE files' = unpacked /\ trouble' = trouble \ {Volume(w)}
    BY <1>n, <1>m, <2>1, <2>2, <2>4 DEF VDone, CDone, JDone
  <2>5. CASE files' \in {files, unpacked} /\ trouble' = trouble \cup {Volume(w)}
    BY <1>0, <2>1, <2>2, <2>5
  <2> QED
    BY <2>3, <2>4, <2>5
<1>3. CASE ComposeUp
  <2>1. UNCHANGED <<jobs, files>> /\ DOMAIN up \subseteq DOMAIN up'
    BY <1>3 DEF ComposeUp, Started
  <2>2. trouble \subseteq trouble' \cup {Compose}
    BY <1>3 DEF ComposeUp, Fail, Fine
  <2> QED
    BY <1>n, <2>1, <2>2 DEF VDone, CDone, JDone
<1>4. CASE RunContainer
  <2> DEFINE d == Head(todo)
  <2>1. UNCHANGED <<jobs, files>> /\ DOMAIN up \subseteq DOMAIN up'
    BY <1>4 DEF RunContainer
  <2>2. \/ trouble' = trouble \ {Running(d.name)} /\ d.name \in DOMAIN up'
        \/ trouble \subseteq trouble'
    BY <1>4 DEF RunContainer, Fail, Fine
  <2> HIDE DEF d
  <2>3. CASE trouble' = trouble \ {Running(d.name)} /\ d.name \in DOMAIN up'
    BY <1>n, <1>m, <2>1, <2>3 DEF VDone, CDone, JDone
  <2>4. CASE trouble \subseteq trouble'
    BY <1>0, <2>1, <2>4
  <2> QED
    BY <2>2, <2>3, <2>4
<1>5. CASE JobRun
  <2>1. UNCHANGED <<up, files>> /\ jobs \subseteq jobs' /\ trouble \subseteq trouble'
    BY <1>5 DEF JobRun, Fail
  <2> QED
    BY <1>0, <2>1
<1>6. CASE JobRemove
  <2> DEFINE k == Head(todo)
  <2>1. UNCHANGED <<up, files, jobs>> /\ k \in jobs
    BY <1>6 DEF JobRemove, Stages
  <2>2. trouble \subseteq trouble' \cup {Job(k)}
    BY <1>6 DEF JobRemove, Fail, Fine
  <2> HIDE DEF k
  <2> QED
    BY <1>n, <1>m, <2>1, <2>2 DEF VDone, CDone, JDone
<1> QED
  BY <1>1, <1>2, <1>3, <1>4, <1>5, <1>6 DEF Next, Recreate

(* The jobs come when the containers and volumes are done with. *)
LEMMA EnterJobs ==
    ASSUME ext \in States, UNCHANGED ext, StartJobs, ContainersDone',
           ext.containers # <<>> => VolumesDone'
    PROVE  Loops' /\ Stages'
<1>1. ext.jobs \in Seq(Js)
  BY DEF States
<1>2. CASE ext.jobs = <<>>
  <2>1. pc' = "done" /\ todo' = ext.jobs /\ ToSet(ext.jobs) = {}
    BY <1>2 DEF StartJobs, Go, ToSet
  <2> QED
    BY <2>1 DEF Loops, Stages
<1>3. CASE ext.jobs # <<>>
  <2>1. pc' = "jwrite" /\ todo' = ext.jobs
    BY <1>3 DEF StartJobs, Go
  <2> QED
    BY <1>1, <1>3, <2>1 DEF Loops, Stages
<1> QED
  BY <1>2, <1>3

(* The containers come when the volumes are done with. *)
LEMMA EnterContainers ==
    ASSUME ext \in States, UNCHANGED ext, StartContainers, ext.containers # <<>>, VolumesDone'
    PROVE  Loops' /\ Stages'
<1>1. ext.containers \in Seq(Captured)
  BY DEF States
<1>2. pc' = "run" /\ todo' = ext.containers
  BY DEF StartContainers, Go
<1> QED
  BY <1>1, <1>2 DEF Loops, Stages

(* The rest of the volumes, or what comes behind them. *)
LEMMA EnterVolumes ==
    ASSUME ext \in States, UNCHANGED ext, NEW vs \in Seq(Vols), StartVolumes(vs),
           ext.containers # <<>>, \A v \in ToSet(ext.volumes) : v \in ToSet(vs) \/ VDone(v)'
    PROVE  Loops' /\ Stages'
<1>1. CASE vs # <<>>
  <2>1. pc' = "vmkdir" /\ todo' = vs
    BY <1>1 DEF StartVolumes, Go
  <2> QED
    BY <1>1, <2>1 DEF Loops, Stages
<1>2. CASE vs = <<>>
  <2>1. VolumesDone'
    BY <1>2 DEF VolumesDone, ToSet
  <2>2. CASE ext.compose = "yes"
    <3>1. pc' = "cwrite"
      BY <1>2, <2>2 DEF StartVolumes, Go, StartContainers
    <3> QED
      BY <2>1, <3>1 DEF Loops, Stages
  <2>3. CASE ext.compose = "no"
    <3>1. StartContainers
      BY <1>2, <2>3 DEF StartVolumes
    <3> QED
      BY <2>1, <3>1, EnterContainers
  <2> QED
    BY <2>2, <2>3 DEF States
<1> QED
  BY <1>1, <1>2

(* The rest of the jobs, or the end. *)
LEMMA NextJobStage ==
    ASSUME Typed, Stages, UNCHANGED ext, pc \in {"jwrite", "jrun", "jrm"}, NextJob,
           NEW k, k = Head(todo), JDone(k)', ContainersDone', ext.containers # <<>> => VolumesDone',
           \A j \in Js : JDone(j) => JDone(j)'
    PROVE  Loops' /\ Stages'
<1>1. todo \in Seq(Js) /\ todo # <<>> /\ ext.jobs \in Seq(Js)
  BY DEF Typed, Loops, States
<1>2. /\ Tail(todo) \in Seq(Js)
      /\ ToSet(todo) = {k} \cup ToSet(Tail(todo))
  BY <1>1, HeadTail
<1>3. \A j \in ToSet(ext.jobs) : j \in ToSet(Tail(todo)) \/ JDone(j)'
  <2>1. ToSet(ext.jobs) \subseteq Js
    BY <1>1 DEF ToSet
  <2>2. \A j \in ToSet(ext.jobs) : j \in ToSet(todo) \/ JDone(j)
    BY DEF Stages
  <2> QED
    BY <1>2, <2>1, <2>2
<1>4. CASE Tail(todo) = <<>>
  <2>1. pc' = "done" /\ ToSet(Tail(todo)) = {}
    BY <1>4 DEF NextJob, Go, ToSet
  <2> QED
    BY <1>3, <2>1 DEF Loops, Stages
<1>5. CASE Tail(todo) # <<>>
  <2>1. pc' = "jwrite" /\ todo' = Tail(todo)
    BY <1>5 DEF NextJob, Go
  <2> QED
    BY <1>2, <1>3, <1>5, <2>1 DEF Loops, Stages
<1> QED
  BY <1>4, <1>5

(* Capturing walks through its lists and restores nothing. *)
LEMMA CaptureLoops == Typed /\ Capture => Loops' /\ Stages'
<1> SUFFICES ASSUME Typed, Capture PROVE Loops' /\ Stages'
  OBVIOUS
<1>0. Containers \in Seq(Cs) /\ Volumes \in Seq(Vols) /\ Jobs \in Seq(Js)
  BY WorkloadsAssumption DEF Cs, Vols, Js, ToSet
<1>1. CASE Ps
  <2>1. pc' = "volumes" \/ (pc' = "inspect" /\ todo' = Containers /\ todo' # <<>>)
    BY <1>1 DEF Ps, Go
  <2> QED
    BY <1>0, <2>1 DEF Loops, Stages
<1>2. CASE Inspect
  <2>1. Tail(todo) \in Seq(Cs)
    BY <1>2, HeadTail DEF Inspect, Typed, Loops
  <2>2. pc' = "volumes" \/ (pc' = "inspect" /\ todo' = Tail(todo) /\ todo' # <<>>)
    BY <1>2 DEF Inspect, Go
  <2> QED
    BY <2>1, <2>2 DEF Loops, Stages
<1>3. CASE ListVolumes
  <2>1. pc' = "compose" \/ (pc' = "tar" /\ todo' = Volumes /\ todo' # <<>>)
    BY <1>3 DEF ListVolumes, Go
  <2> QED
    BY <1>0, <2>1 DEF Loops, Stages
<1>4. CASE TarVolume
  <2>1. Tail(todo) \in Seq(Vols)
    BY <1>4, HeadTail DEF TarVolume, Typed, Loops
  <2>2. pc' = "compose" \/ (pc' = "tar" /\ todo' = Tail(todo) /\ todo' # <<>>)
    BY <1>4 DEF TarVolume, Go
  <2> QED
    BY <2>1, <2>2 DEF Loops, Stages
<1>5. CASE ReadCompose \/ ValidateNomadInstall
  <2>1. pc' \in {"nomad", "jobs", "restore"}
    BY <1>5 DEF ReadCompose, ValidateNomadInstall
  <2> QED
    BY <2>1 DEF Loops, Stages
<1>6. CASE ListJobs
  <2>1. pc' = "restore" \/ (pc' = "job" /\ todo' = Jobs /\ todo' # <<>>)
    BY <1>6 DEF ListJobs, Go
  <2> QED
    BY <1>0, <2>1 DEF Loops, Stages
<1>7. CASE InspectJob
  <2>1. Tail(todo) \in Seq(Js)
    BY <1>7, HeadTail DEF InspectJob, Typed, Loops
  <2>2. pc' = "restore" \/ (pc' = "job" /\ todo' = Tail(todo) /\ todo' # <<>>)
    BY <1>7 DEF InspectJob, Go
  <2> QED
    BY <2>1, <2>2 DEF Loops, Stages
<1> QED
  BY <1>1, <1>2, <1>3, <1>4, <1>5, <1>6, <1>7 DEF Capture

(* Each stage of the restore leaves every captured item done or still to do. *)
LEMMA StagesInductive == Typed /\ Stages /\ [Next]_vars => Loops' /\ Stages'
<1> SUFFICES ASSUME Typed, Stages, [Next]_vars PROVE Loops' /\ Stages'
  OBVIOUS
<1>h. /\ ext \in States /\ Loops
      /\ ext.containers \in Seq(Captured) /\ ext.volumes \in Seq(Vols) /\ ext.jobs \in Seq(Js)
  BY DEF Typed, States
<1>s. /\ ToSet(ext.containers) \subseteq Captured
      /\ ToSet(ext.volumes) \subseteq Vols
      /\ ToSet(ext.jobs) \subseteq Js
  BY <1>h DEF ToSet
<1>d. /\ \A v \in Vols : VDone(v) => VDone(v)'
      /\ \A c \in Captured : CDone(c) => CDone(c)'
      /\ \A j \in Js : JDone(j) => JDone(j)'
  BY DoneStays
<1>v. UNCHANGED ext /\ VolumesDone => VolumesDone'
  BY <1>s, <1>d DEF VolumesDone
<1>c. UNCHANGED ext /\ ContainersDone => ContainersDone'
  BY <1>s, <1>d DEF ContainersDone
<1>1. CASE Begin
  BY <1>1 DEF Begin, Loops, Stages
<1>2. CASE Capture
  BY <1>2, CaptureLoops
<1>3. CASE Restore
  <2>1. UNCHANGED ext /\ pc = "restore"
    BY <1>3 DEF Restore
  <2>2. CASE ext.containers = <<>> /\ StartJobs
    <3>1. ContainersDone'
      BY <2>1, <2>2 DEF ContainersDone, ToSet
    <3> QED
      BY <1>h, <2>1, <2>2, <3>1, EnterJobs
  <2>3. CASE ext.containers # <<>> /\ StartVolumes(ext.volumes)
    BY <1>h, <2>1, <2>3, EnterVolumes
  <2> QED
    BY <1>3, <2>2, <2>3 DEF Restore
<1>4. CASE VolumeMkdir
  <2>1. UNCHANGED ext /\ pc = "vmkdir" /\ pc' = "vwrite"
    BY <1>4 DEF VolumeMkdir
  <2>2. PICK i \in DOMAIN todo : todo' = <<todo[i]>> \o RemoveAt(todo, i)
    BY <1>4 DEF VolumeMkdir
  <2>3. todo \in Seq(Vols)
    BY <1>h, <2>1 DEF Loops
  <2>4. todo' \in Seq(Vols) /\ todo' # <<>> /\ ToSet(todo') = ToSet(todo)
    BY <2>2, <2>3, ToFront
  <2> QED
    BY <1>s, <1>d, <2>1, <2>4 DEF Loops, Stages
<1>5. CASE VolumeWrite
  <2>1. UNCHANGED ext /\ pc = "vwrite" /\ todo \in Seq(Vols) /\ todo # <<>>
    BY <1>5, <1>h DEF VolumeWrite, Loops
  <2>2. CASE pc' = "vtar" /\ UNCHANGED <<todo, trouble>>
    BY <1>s, <1>d, <2>1, <2>2 DEF Loops, Stages
  <2>3. CASE NextVolume /\ Fail(Volume(Head(todo)))
    <3> PICK w : w = Head(todo)
      OBVIOUS
    <3>1. VDone(w)'
      BY <2>3 DEF VDone, Fail
    <3>2. Tail(todo) \in Seq(Vols) /\ ToSet(todo) = {w} \cup ToSet(Tail(todo))
      BY <2>1, HeadTail
    <3>3. \A v \in ToSet(ext.volumes) : v \in ToSet(Tail(todo)) \/ VDone(v)'
      BY <1>s, <1>d, <2>1, <3>1, <3>2 DEF Stages
    <3> QED
      BY <1>h, <2>1, <2>3, <3>2, <3>3, EnterVolumes DEF NextVolume, Stages
  <2> QED
    BY <1>5, <2>2, <2>3 DEF VolumeWrite
<1>6. CASE VolumeUnpack
  <2>1. UNCHANGED ext /\ pc = "vtar" /\ todo \in Seq(Vols) /\ todo # <<>> /\ NextVolume
    BY <1>6, <1>h DEF VolumeUnpack, Loops
  <2> PICK w : w = Head(todo)
    OBVIOUS
  <2>2. w \in Vols /\ Tail(todo) \in Seq(Vols) /\ ToSet(todo) = {w} \cup ToSet(Tail(todo))
    BY <2>1, HeadTail
  <2>3. VDone(w)'
    <3>1. CASE Fail(Volume(w))
      BY <3>1 DEF VDone, Fail
    <3>2. CASE files' = [files EXCEPT ![w] = @ \cup {Unpacked(MountPoint)}]
      <4>1. files'[w] # {}
        BY <2>2, <3>2 DEF Typed, Held
      <4> QED
        BY <4>1 DEF VDone
    <3> QED
      BY <1>6, <3>1, <3>2 DEF VolumeUnpack
  <2>4. \A v \in ToSet(ext.volumes) : v \in ToSet(Tail(todo)) \/ VDone(v)'
    BY <1>s, <1>d, <2>1, <2>2, <2>3 DEF Stages
  <2> QED
    BY <1>h, <2>1, <2>2, <2>4, EnterVolumes DEF NextVolume, Stages
<1>7. CASE ComposeWrite
  <2>1. UNCHANGED ext /\ pc = "cwrite" /\ (pc' = "cup" \/ StartContainers)
    BY <1>7 DEF ComposeWrite
  <2>2. VolumesDone' /\ ext.containers # <<>>
    BY <1>v, <2>1 DEF Stages
  <2>3. CASE pc' = "cup"
    BY <2>1, <2>2, <2>3 DEF Loops, Stages
  <2> QED
    BY <1>h, <2>1, <2>2, <2>3, EnterContainers
<1>8. CASE ComposeUp
  <2>1. UNCHANGED ext /\ pc = "cup" /\ StartContainers
    BY <1>8 DEF ComposeUp
  <2>2. VolumesDone' /\ ext.containers # <<>>
    BY <1>v, <2>1 DEF Stages
  <2> QED
    BY <1>h, <2>1, <2>2, EnterContainers
<1>9. CASE RunContainer
  <2>1. UNCHANGED ext /\ pc = "run" /\ todo \in Seq(Captured) /\ todo # <<>>
    BY <1>9, <1>h DEF RunContainer, Loops
  <2> PICK d, rest : d = Head(todo) /\ rest = Tail(todo)
    OBVIOUS
  <2>2. /\ rest \in Seq(Captured) /\ ToSet(todo) = {d} \cup ToSet(rest)
        /\ Len(todo) \in Nat \ {0} /\ Len(rest) = Len(todo) - 1
    BY <2>1, HeadTail
  <2>3. CDone(d)'
    BY <1>9 DEF RunContainer, CDone, Fail
  <2>4. \A c \in ToSet(ext.containers) : c \in ToSet(rest) \/ CDone(c)'
    BY <1>s, <1>d, <2>1, <2>2, <2>3 DEF Stages
  <2>5. VolumesDone' /\ ext.containers # <<>>
    BY <1>v, <2>1 DEF Stages
  <2>6. IF Len(todo) = 1 THEN StartJobs ELSE Go("run", rest, "done")
    BY <1>9 DEF RunContainer, AfterContainer
  <2>7. CASE Len(todo) = 1
    <3>1. ToSet(rest) = {}
      <4>1. Len(rest) = 0 /\ DOMAIN rest = 1..0
        BY <2>2, <2>7
      <4> QED
        BY <4>1 DEF ToSet
    <3>2. ContainersDone'
      BY <2>1, <2>4, <3>1 DEF ContainersDone
    <3> QED
      BY <1>h, <2>1, <2>5, <2>6, <2>7, <3>2, EnterJobs
  <2>8. CASE Len(todo) # 1
    <3>1. rest # <<>>
      BY <2>2, <2>8
    <3>2. pc' = "run" /\ todo' = rest
      BY <2>6, <2>8, <3>1 DEF Go
    <3> QED
      BY <2>1, <2>2, <2>4, <2>5, <3>1, <3>2 DEF Loops, Stages
  <2> QED
    BY <2>7, <2>8
<1>10. ASSUME UNCHANGED ext, pc \in {"jwrite", "jrun", "jrm"}
       PROVE  ContainersDone' /\ (ext.containers # <<>> => VolumesDone')
  BY <1>10, <1>v, <1>c DEF Stages
<1>11. ASSUME UNCHANGED <<ext, todo>>, pc \in {"jwrite", "jrun", "jrm"}, pc' \in {"jrun", "jrm"},
              pc' = "jrm" => Head(todo) \in jobs'
       PROVE  Loops' /\ Stages'
  <2>1. todo \in Seq(Js) /\ todo # <<>>
    BY <1>h, <1>11 DEF Loops
  <2>2. \A j \in ToSet(ext.jobs) : j \in ToSet(todo) \/ JDone(j)'
    BY <1>s, <1>d, <1>11 DEF Stages
  <2> QED
    BY <1>10, <1>11, <2>1, <2>2 DEF Loops, Stages
<1>12. CASE JobWrite
  <2>1. UNCHANGED ext /\ pc = "jwrite"
    BY <1>12 DEF JobWrite
  <2>2. CASE pc' = "jrun" /\ UNCHANGED todo
    BY <1>11, <2>1, <2>2
  <2>3. CASE NextJob /\ Fail(Job(Head(todo)))
    <3> PICK k : k = Head(todo)
      OBVIOUS
    <3>1. JDone(k)'
      BY <2>3 DEF JDone, Fail
    <3> QED
      BY <1>d, <1>10, <2>1, <2>3, <3>1, NextJobStage
  <2> QED
    BY <1>12, <2>2, <2>3 DEF JobWrite
<1>13. CASE JobRun
  <2>1. UNCHANGED ext /\ pc = "jrun"
    BY <1>13 DEF JobRun
  <2>2. CASE pc' = "jrm" /\ UNCHANGED todo /\ jobs' = jobs \cup {Head(todo)}
    BY <1>11, <2>1, <2>2
  <2>3. CASE NextJob /\ Fail(Job(Head(todo)))
    <3> PICK k : k = Head(todo)
      OBVIOUS
    <3>1. JDone(k)'
      BY <2>3 DEF JDone, Fail
    <3> QED
      BY <1>d, <1>10, <2>1, <2>3, <3>1, NextJobStage
  <2> QED
    BY <1>13, <2>2, <2>3 DEF JobRun
<1>14. CASE JobRemove
  <2>1. UNCHANGED <<ext, jobs>> /\ pc = "jrm" /\ NextJob
    BY <1>14 DEF JobRemove
  <2> PICK k : k = Head(todo)
    OBVIOUS
  <2>2. JDone(k)'
    BY <2>1 DEF JDone, Stages
  <2> QED
    BY <1>d, <1>10, <2>1, <2>2, NextJobStage
<1>15. CASE Crash
  BY <1>15 DEF Crash, Loops, Stages
<1>16. CASE UNCHANGED vars
  <2>1. UNCHANGED <<ext, pc, todo, jobs>>
    BY <1>16 DEF vars, target
  <2> QED
    BY <1>h, <1>s, <1>d, <1>v, <1>c, <2>1 DEF Loops, Stages
<1> QED
  BY <1>1, <1>2, <1>3, <1>4, <1>5, <1>6, <1>7, <1>8, <1>9, <1>12, <1>13, <1>14, <1>15, <1>16
     DEF Next, Recreate
------------------------------------------------------------------------------
(* The inductive invariant holds at every moment of every migration. *)
LEMMA WorkloadsInvariance == Spec => []IInv
<1>1. Init => IInv
  <2> SUFFICES ASSUME Init PROVE IInv
    OBVIOUS
  <2>1. 0 \in 0..MaxFaults
    BY WorkloadsAssumption
  <2>2. Nothing \in States
    BY DEF Nothing, States
  <2>3. Held
    BY <2>1 DEF Init, Held, Ports, Vols
  <2>4. Loops /\ Stages /\ Accounted
    BY DEF Init, Loops, Stages, Accounted
  <2> QED
    BY <2>2, <2>3, <2>4 DEF Init, IInv, Typed
<1>2. IInv /\ [Next]_vars => IInv'
  BY HeldInductive, AccountedInductive, StagesInductive DEF IInv, Typed
<1> QED
  BY <1>1, <1>2, PTL DEF Spec

(* Whatever fails, and however often the migration is repeated or gs dies, a
   restore that comes to its end has every captured volume, container and job on
   the target or has logged its failure (docker.go:274-326, nomad.go:136-152). *)
THEOREM FailuresStayIsolated == Spec => []FailureIsolated
<1>1. IInv => FailureIsolated
  <2> SUFFICES ASSUME IInv, pc = "done" PROVE FailureIsolated
    BY DEF FailureIsolated
  <2>1. /\ \A c \in ToSet(ext.containers) : CDone(c)
        /\ \A j \in ToSet(ext.jobs) : JDone(j)
        /\ ext.containers # <<>> => \A v \in ToSet(ext.volumes) : VDone(v)
    BY DEF IInv, Stages, ContainersDone, VolumesDone
  <2> QED
    BY <2>1 DEF ToSet, CDone, JDone, VDone, FailureIsolated
<1> QED
  BY <1>1, WorkloadsInvariance, PTL

(* Whatever fails, what a finished migration leaves in /tmp belongs to an item
   that failed, then or earlier (docker.go:310-325, nomad.go:155-177).        *)
THEOREM TempFilesExplained == Spec => []TempFilesAccounted
<1>1. IInv => TempFilesAccounted
  BY DEF IInv, Accounted, TempFilesAccounted
<1> QED
  BY <1>1, WorkloadsInvariance, PTL

(* Nothing appears on the target that the source does not have, and a port is
   published for a container port of that container only (docker.go:111-377). *)
THEOREM WorkloadsTypeCorrect == Spec => []TypeOK
<1>1. IInv => TypeOK
  <2> SUFFICES ASSUME IInv PROVE TypeOK
    OBVIOUS
  <2>1. ext.volumes \in Seq(Vols) /\ ext.jobs \in Seq(Js)
    BY DEF IInv, Typed, States
  <2>2. ToSet(ext.volumes) \subseteq Vols /\ ToSet(ext.jobs) \subseteq Js
    BY <2>1 DEF ToSet
  <2>3. pc \in {"run", "vmkdir", "jwrite", "inspect", "tar", "job"} => todo # <<>>
    BY DEF IInv, Typed, Loops
  <2> QED
    BY <2>2, <2>3 DEF IInv, Typed, Held, Ports, Known, Vols, Js, TypeOK
<1> QED
  BY <1>1, WorkloadsInvariance, PTL
==============================================================================
