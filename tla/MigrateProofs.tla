---------------------------- MODULE MigrateProofs ----------------------------
(* Theorems about Migrate, for any items, classes and bounds: workloads start on
   restored files, and a finished migration leaves nothing older than its start. *)
EXTENDS Migrate, TLAPS

(* The types the arguments need. *)
Typed ==
    /\ src \in [Items -> Nat]
    /\ began \in [Items -> Nat]
    /\ tgt \in [Files -> Int]
    /\ late \subseteq Files \X Int
    /\ todo \subseteq Items
    /\ DOMAIN state \subseteq Items
    /\ \A i \in DOMAIN state : state[i] \in Nat
    /\ pc = "restore" => todo \subseteq DOMAIN state \cap Restorable
    /\ pc = "done" => todo = {}

(* What a run has extracted is no older than its start, and no newer than now. *)
Fresh ==
    /\ \A i \in Items : began[i] <= src[i]
    /\ \A i \in DOMAIN state : began[i] <= state[i] /\ state[i] <= src[i]

Settled(i) == tgt[i] = state[i] \/ i \in logged \/ i \in touched

(* Files the restore is done with are in place or accounted for. *)
Restored ==
    pc \in {"restore", "done"} =>
        \A i \in DOMAIN state \cap Restorable \cap Files : i \notin todo => Settled(i)

(* Once the restore is done with one workload, it is done with all files. *)
FilesFirst ==
    pc = "restore" /\ DOMAIN state \cap Workloads # todo \cap Workloads =>
        todo \cap Files = {}

IInv == Typed /\ Fresh /\ Restored /\ FilesFirst

(* RestoreSystemState does every file before any workload. *)
LEMMA FilesRankFirst ==
    ASSUME NEW w \in Workloads \cap Restorable, NEW f \in Files \cap Restorable
    PROVE  RestoreRank[Class[f]] \in Int /\ RestoreRank[Class[w]] \in Int
           /\ ~(RestoreRank[Class[w]] <= RestoreRank[Class[f]])
<1>1. Class[w] \in {"docker", "nomad"}
  BY DEF Workloads, Is
<1>2. Class[f] \in {"db", "cert", "xray"}
  BY DEF Files, Workloads, Restorable, Is, RestoreRank
<1>3. RestoreRank[Class[w]] \in {4, 5}
  BY <1>1 DEF RestoreRank
<1>4. RestoreRank[Class[f]] \in {1, 2, 3}
  BY <1>2 DEF RestoreRank
<1> QED
  BY <1>3, <1>4

(* The inductive invariant holds before the first migration. *)
LEMMA InitInductive == Init => IInv
<1> SUFFICES ASSUME Init PROVE IInv
  OBVIOUS
<1>1. Typed
  BY DEF Init, Typed, Absent
<1>2. Fresh
  BY DEF Init, Fresh
<1> QED
  BY <1>1, <1>2 DEF Init, IInv, Restored, FilesFirst

(* A step of gs or of the world keeps the invariant. *)
LEMMA StepInductive == IInv /\ [Next]_vars => IInv'
<1> SUFFICES ASSUME IInv, [Next]_vars PROVE IInv'
  OBVIOUS
<1> USE DEF IInv
<1>1. CASE Begin
  BY <1>1 DEF Begin, Goto, Exit, bounds, target, Typed, Fresh, Restored, FilesFirst
<1>2. CASE ConnectSource
  BY <1>2 DEF ConnectSource, Goto, Exit, target, Typed, Fresh, Restored, FilesFirst
<1>3. CASE ExtractItem
  <2>1. PICK i \in Earliest(todo, ExtractRank) :
           /\ todo' = todo \ {i}
           /\ state' = state \/ (src[i] # 0 /\ state' = Kept(i))
    BY <1>3 DEF ExtractItem
  <2>2. i \in Items
    BY DEF Earliest, Typed
  <2>3. /\ DOMAIN state' \subseteq Items
        /\ \A j \in DOMAIN state' : \/ state'[j] = src[j]
                                    \/ j \in DOMAIN state /\ state'[j] = state[j]
    BY <2>1, <2>2 DEF Typed, Kept
  <2>4. UNCHANGED <<src, began, tgt, late, pc>> /\ pc = "extract"
    BY <1>3 DEF ExtractItem, target
  <2>5. Typed'
    BY <2>1, <2>3, <2>4 DEF Typed
  <2>6. Fresh'
    BY <2>3, <2>4 DEF Typed, Fresh
  <2> QED
    BY <2>4, <2>5, <2>6 DEF Restored, FilesFirst
<1>4. CASE Validate
  BY <1>4 DEF Validate, Goto, bounds, target, Typed, Fresh, Restored, FilesFirst
<1>5. CASE ConnectTarget
  BY <1>5 DEF ConnectTarget, Goto, Exit, target, Typed, Fresh, Restored, FilesFirst
<1>6. CASE Provision
  <2>1. Workloads \subseteq Restorable
    BY DEF Workloads, Restorable, Is, RestoreRank
  <2> QED
    BY <1>6, <2>1 DEF Provision, Goto, Exit, Typed, Fresh, Restored, FilesFirst
<1>7. CASE RestoreItem
  <2>1. PICK i \in Earliest(todo, RestoreRank) :
           /\ todo' = todo \ {i}
           /\ IF i \in Workloads THEN RestoreWorkload(i) ELSE RestoreFile(i)
    BY <1>7 DEF RestoreItem
  <2>2. UNCHANGED <<src, began, pc, state>> /\ pc = "restore"
    BY <1>7 DEF RestoreItem
  <2>3. i \in todo /\ i \in DOMAIN state \cap Restorable /\ i \in Items
    BY <2>1, <2>2 DEF Earliest, Typed
  <2>4. /\ tgt' \in [Files -> Int]
        /\ late' \subseteq Files \X Int
        /\ \A j \in Files : j # i => tgt'[j] = tgt[j]
        /\ logged \subseteq logged'
        /\ touched \subseteq touched' \cup {i}
        /\ i \in Files => Settled(i)'
    <3>1. CASE i \in Workloads
      BY <2>1, <3>1 DEF RestoreWorkload, Typed, Files
    <3>2. CASE i \in Files
      BY <2>1, <2>2, <2>3, <3>2 DEF RestoreFile, Typed, Files, Settled, Cut, Own
    <3> QED
      BY <2>3, <3>1, <3>2 DEF Files
  <2>5. Typed' /\ Fresh'
    BY <2>1, <2>2, <2>4 DEF Typed, Fresh
  <2>6. Restored'
    BY <2>1, <2>2, <2>4 DEF Restored, Settled
  <2>7. FilesFirst'
    <3>1. CASE i \in Workloads
      <4>1. \A f \in todo \cap Files : FALSE
        BY <2>1, <2>2, <2>3, <3>1, FilesRankFirst DEF Earliest, Typed
      <4> QED
        BY <2>1, <4>1 DEF FilesFirst
    <3>2. CASE i \in Files
      BY <2>1, <2>2, <2>3, <3>2 DEF FilesFirst, Files
    <3> QED
      BY <2>3, <3>1, <3>2 DEF Files
  <2> QED
    BY <2>5, <2>6, <2>7
<1>8. CASE Finish
  BY <1>8 DEF Finish, Goto, bounds, target, Typed, Fresh, Restored, FilesFirst, Settled
<1>9. CASE Crash
  BY <1>9 DEF Crash, Exit, Goto, target, Typed, Fresh, Restored, FilesFirst
<1>10. CASE LateWrite
  <2>0. PICK w \in late :
           /\ late' = late \ {w}
           /\ \E f \in {w[2], Cut} : tgt' = [tgt EXCEPT ![w[1]] = f]
           /\ touched' = touched \cup {w[1]}
    BY <1>10 DEF LateWrite
  <2>1. PICK f \in {w[2], Cut} :
           /\ late' = late \ {w}
           /\ tgt' = [tgt EXCEPT ![w[1]] = f]
           /\ touched' = touched \cup {w[1]}
    BY <2>0
  <2>2. UNCHANGED <<src, began, pc, todo, state, logged>>
    BY <1>10 DEF LateWrite
  <2>3. w[1] \in Files /\ f \in Int
    BY <2>1 DEF Typed, Cut
  <2>4. Typed' /\ Fresh'
    BY <2>1, <2>2, <2>3 DEF Typed, Fresh
  <2>5. Restored' /\ FilesFirst'
    BY <2>1, <2>2, <2>3 DEF Typed, Restored, Settled, FilesFirst
  <2> QED
    BY <2>4, <2>5
<1>11. CASE SourceWrites
  <2>1. PICK i \in Items : src' = [src EXCEPT ![i] = @ + 1]
    BY <1>11 DEF SourceWrites
  <2>2. UNCHANGED <<began, tgt, late, pc, todo, state, logged, touched>>
    BY <1>11 DEF SourceWrites, target
  <2>3. src' \in [Items -> Nat] /\ \A j \in Items : src[j] <= src'[j]
    BY <2>1 DEF Typed
  <2>4. Typed' /\ Fresh'
    BY <2>2, <2>3 DEF Typed, Fresh
  <2> QED
    BY <2>2, <2>4 DEF Restored, Settled, FilesFirst
<1>12. CASE TargetWrites
  <2>1. PICK i \in Is({"db"}) : tgt' = [tgt EXCEPT ![i] = Own] /\ touched' = touched \cup {i}
    BY <1>12 DEF TargetWrites
  <2>2. UNCHANGED <<src, began, late, pc, todo, state, logged>>
    BY <1>12 DEF TargetWrites
  <2>3. i \in Files
    BY DEF Is, Files, Workloads
  <2>4. Typed' /\ Fresh'
    BY <2>1, <2>2, <2>3 DEF Typed, Fresh, Own
  <2> QED
    BY <2>1, <2>2, <2>3, <2>4 DEF Typed, Restored, Settled, FilesFirst
<1>13. CASE UNCHANGED vars
  BY <1>13 DEF vars, target, bounds, Typed, Fresh, Restored, FilesFirst, Settled
<1> QED
  BY <1>1, <1>2, <1>3, <1>4, <1>5, <1>6, <1>7, <1>8, <1>9, <1>10, <1>11, <1>12, <1>13
     DEF Next, Step

(* The inductive invariant holds at every moment of every migration. *)
LEMMA MigrateInvariance == Spec => []IInv
  BY InitInductive, StepInductive, PTL DEF Spec

(* Whatever fails, changes or is repeated, gs migrate starts the workloads of the
   source on restored files, files whose failure was logged, or files another
   program wrote (extractor.go:234-289).                                      *)
THEOREM FilesBeforeWorkloads == Spec => []DataBeforeWorkloads
<1>1. IInv => DataBeforeWorkloads
  BY DEF IInv, Typed, Restored, FilesFirst, Settled, DataBeforeWorkloads
<1> QED
  BY <1>1, MigrateInvariance, PTL

(* Whatever fails, changes or is repeated, a migration that came to its end left
   no extracted file older than its start on the target (main.go:227-256).    *)
THEOREM NeverOlder == Spec => []NothingOlder
<1>1. IInv => NothingOlder
  BY DEF IInv, Typed, Fresh, Restored, Settled, NothingOlder, Files
<1> QED
  BY <1>1, MigrateInvariance, PTL
------------------------------------------------------------------------------
(* Every version is one that the source has had: there are as many as changes. *)
Numbered ==
    /\ \A i \in Items : src[i] <= changes + 1
    /\ \A i \in DOMAIN state : state[i] \in Versions

(* The types hold before the first migration. *)
LEMMA TypeInit == Init => TypeOK /\ Numbered
<1> SUFFICES ASSUME Init PROVE TypeOK /\ Numbered
  OBVIOUS
<1>1. 0 \in 0..MaxFaults /\ 0 \in 0..MaxChanges /\ 1 \in Versions
  BY MigrateAssumption DEF Versions
<1>2. Is({"db"}) \subseteq Files
  BY DEF Is, Files, Workloads
<1> QED
  BY <1>1, <1>2 DEF Init, TypeOK, Numbered

(* Every step keeps the types. *)
LEMMA TypeStep == TypeOK /\ Numbered /\ [Next]_vars => TypeOK' /\ Numbered'
<1> SUFFICES ASSUME TypeOK, Numbered, [Next]_vars PROVE TypeOK' /\ Numbered'
  OBVIOUS
<1>0. MaxFaults \in Nat /\ MaxChanges \in Nat
  BY MigrateAssumption
<1>a. Answered => changes' = changes /\ faults' = faults
  BY DEF Answered, bounds
<1>b. Lost => changes' = changes /\ faults' \in 0..MaxFaults
  BY <1>0 DEF Lost, TypeOK
<1>c. Disturb => faults' = faults /\ changes' \in 0..MaxChanges /\ changes' = changes + 1
  BY <1>0 DEF Disturb, TypeOK
<1>d. \A i \in Items : src[i] # 0 => src[i] \in Versions
  BY DEF TypeOK
<1>e. changes \in Int /\ \A i \in Items : src[i] \in Int
  BY <1>0 DEF TypeOK, Versions
<1>1. CASE Begin
  BY <1>1 DEF Begin, Goto, Exit, bounds, target, TypeOK, Numbered
<1>2. CASE ConnectSource
  BY <1>2, <1>a, <1>b DEF ConnectSource, Goto, Exit, target, TypeOK, Numbered
<1>3. CASE ExtractItem
  <2>1. PICK i \in Earliest(todo, ExtractRank) :
           /\ todo' = todo \ {i}
           /\ state' = state \/ (src[i] # 0 /\ state' = Kept(i))
           /\ Answered \/ Lost
    BY <1>3 DEF ExtractItem
  <2>2. i \in Items
    BY DEF Earliest, TypeOK
  <2>3. DOMAIN state' \subseteq Items /\ \A j \in DOMAIN state' : state'[j] \in Versions
    BY <2>1, <2>2, <1>d DEF TypeOK, Numbered, Kept
  <2>4. /\ UNCHANGED <<manifest, big, began, src, tgt, started, serving, late, pc, logged, touched>>
        /\ pc = "extract"
    BY <1>3 DEF ExtractItem, target
  <2> QED
    BY <2>1, <2>3, <2>4, <1>a, <1>b DEF TypeOK, Numbered
<1>4. CASE Validate
  BY <1>4 DEF Validate, Goto, bounds, target, TypeOK, Numbered
<1>5. CASE ConnectTarget
  BY <1>5, <1>a, <1>b DEF ConnectTarget, Goto, Exit, target, TypeOK, Numbered
<1>6. CASE Provision
  BY <1>6, <1>a, <1>b DEF Provision, Goto, Exit, target, TypeOK, Numbered
<1>7. CASE RestoreItem
  <2>1. PICK i \in Earliest(todo, RestoreRank) :
           /\ todo' = todo \ {i}
           /\ IF i \in Workloads THEN RestoreWorkload(i) ELSE RestoreFile(i)
    BY <1>7 DEF RestoreItem
  <2>2. UNCHANGED <<manifest, big, began, src, serving, pc, state>> /\ pc = "restore"
    BY <1>7 DEF RestoreItem
  <2>3. i \in DOMAIN state \cap Restorable /\ i \in Items /\ state[i] \in Versions
    BY <2>1, <2>2 DEF Earliest, TypeOK, Numbered
  <2>4. /\ tgt' \in [Files -> {Absent, Cut, Own} \cup Versions]
        /\ late' \subseteq Files \X Versions
        /\ started' \subseteq Workloads
        /\ logged' \subseteq Restorable
        /\ touched' \subseteq Files
        /\ Answered \/ Lost \/ Disturb
    <3>1. CASE i \in Workloads
      BY <2>1, <2>3, <3>1 DEF RestoreWorkload, TypeOK
    <3>2. CASE i \in Files
      BY <2>1, <2>3, <3>2 DEF RestoreFile, TypeOK, Files
    <3> QED
      BY <2>3, <3>1, <3>2 DEF Files
  <2>5. faults' \in 0..MaxFaults /\ changes' \in 0..MaxChanges /\ changes' \in {changes, changes + 1}
    BY <2>4, <1>a, <1>b, <1>c DEF TypeOK
  <2>6. TypeOK'
    BY <2>1, <2>2, <2>4, <2>5 DEF TypeOK
  <2>7. Numbered'
    BY <2>2, <2>5, <1>e DEF Numbered
  <2> QED
    BY <2>6, <2>7
<1>8. CASE Finish
  BY <1>8 DEF Finish, Goto, bounds, target, TypeOK, Numbered
<1>9. CASE Crash
  BY <1>9, <1>b DEF Crash, Exit, Goto, target, TypeOK, Numbered
<1>10. CASE LateWrite
  <2>1. PICK w \in late : \E f \in {w[2], Cut} :
           late' = late \ {w} /\ tgt' = [tgt EXCEPT ![w[1]] = f] /\ touched' = touched \cup {w[1]}
    BY <1>10 DEF LateWrite
  <2>2. w[1] \in Files /\ w[2] \in Versions
    BY <2>1 DEF TypeOK
  <2>3. UNCHANGED <<manifest, big, began, src, started, serving, pc, todo, state, logged, faults, changes>>
    BY <1>10 DEF LateWrite, bounds
  <2> QED
    BY <2>1, <2>2, <2>3 DEF TypeOK, Numbered
<1>11. CASE SourceWrites
  <2>1. PICK i \in Items : src' = [src EXCEPT ![i] = @ + 1]
    BY <1>11 DEF SourceWrites
  <2>2. /\ UNCHANGED <<manifest, big, began, tgt, started, serving, late, pc, todo, state, logged, touched>>
        /\ Disturb
    BY <1>11 DEF SourceWrites, target
  <2>3. \A j \in Items : src'[j] \in Int /\ src'[j] <= changes' + 1
    BY <2>1, <2>2, <1>c, <1>e DEF Numbered, TypeOK
  <2>4. \A j \in Items : src[j] \in 0..(MaxChanges + 1) /\ (src'[j] = src[j] \/ src'[j] = src[j] + 1)
    BY <2>1, <1>0 DEF TypeOK, Versions
  <2>5. \A j \in Items : src'[j] \in {0} \cup Versions
    BY <2>2, <2>3, <2>4, <1>c, <1>0 DEF Versions
  <2>6. src' \in [Items -> {0} \cup Versions]
    BY <2>1, <2>5 DEF TypeOK
  <2> QED
    BY <2>2, <2>3, <2>6, <1>c DEF TypeOK, Numbered
<1>12. CASE TargetWrites
  <2>1. PICK i \in Is({"db"}) : tgt' = [tgt EXCEPT ![i] = Own] /\ touched' = touched \cup {i}
    BY <1>12 DEF TargetWrites
  <2>2. /\ UNCHANGED <<manifest, big, began, src, started, serving, late, pc, todo, state, logged>>
        /\ Disturb
    BY <1>12 DEF TargetWrites
  <2>3. i \in Files
    BY DEF Is, Files, Workloads
  <2>4. TypeOK'
    BY <2>1, <2>2, <2>3, <1>c DEF TypeOK
  <2> QED
    BY <2>2, <2>4, <1>c, <1>e DEF Numbered
<1>13. CASE UNCHANGED vars
  BY <1>13 DEF vars, target, bounds, TypeOK, Numbered
<1> QED
  BY <1>1, <1>2, <1>3, <1>4, <1>5, <1>6, <1>7, <1>8, <1>9, <1>10, <1>11, <1>12, <1>13
     DEF Next, Step

(* A file of the target is absent, cut, written by a service or a version that
   the source really had, and so is every write still under way; failures are
   logged only for what is restored (main.go:176-263, extractor.go:234-289).  *)
THEOREM MigrateTypeCorrect == Spec => []TypeOK
<1>1. TypeOK /\ Numbered => TypeOK
  OBVIOUS
<1> QED
  BY TypeInit, TypeStep, <1>1, PTL DEF Spec
==============================================================================
