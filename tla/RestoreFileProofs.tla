-------------------------- MODULE RestoreFileProofs --------------------------
(* Proofs about RestoreFile for every set of contents and payloads, every
   digest that separates contents of one length, and every bound.             *)
EXTENDS RestoreFile, TLAPS

USE ContentsAssumption, BoundsAssumption

(* What the digest comparison rests on: the digest gs holds is the file's own
   as long as nobody else wrote the file since it was read.                   *)
DigestFresh ==
    pc \in {"stat1", "stat2"} /\ view = "fresh" => file # Absent /\ sha = Digest[file]

(* A call that found its payload in place still has it there, and what it has
   read of the file so far agrees with it.                                    *)
CalmState ==
    calm = "yes" =>
        /\ file = data
        /\ pc = "stat1" => sha = Digest[data]

IInv == TypeOK /\ DigestFresh /\ OkMeansInstalled /\ CalmState /\ NoNeedlessWrite

(* Every variable keeps its type: in particular gs never keeps a digest that is
   not one, and the fault budget is respected (restore.go, whole file).       *)
THEOREM TypeCorrect == Spec => []TypeOK
<1>1. Init => TypeOK
  BY DEF Init, TypeOK, Running, Returned
<1>2. TypeOK /\ [Next]_vars => TypeOK'
  <2> SUFFICES ASSUME TypeOK, [Next]_vars
               PROVE  TypeOK'
    OBVIOUS
  <2> USE DEF TypeOK, Running, Returned, Answered, Lost
  <2>1. ASSUME NEW d \in Payloads, Call(d) PROVE TypeOK'
    BY <2>1 DEF Call
  <2>2. CASE Sha1
    BY <2>2 DEF Sha1, ReadDigest
  <2>3. CASE Stat1
    BY <2>3 DEF Stat1, ReadSize
  <2>4. CASE Mkdir
    BY <2>4 DEF Mkdir
  <2>5. CASE Write
    BY <2>5 DEF Write
  <2>6. CASE Sha2
    BY <2>6 DEF Sha2, ReadDigest
  <2>7. CASE Stat2
    BY <2>7 DEF Stat2, ReadSize
  <2>8. CASE Crash
    BY <2>8 DEF Crash
  <2>9. ASSUME NEW d \in Payloads, LateWrite(d) PROVE TypeOK'
    BY <2>9 DEF LateWrite
  <2>10. CASE ForeignWrite
    BY <2>10 DEF ForeignWrite
  <2>11. CASE UNCHANGED vars
    BY <2>11 DEF vars
  <2> QED
    BY <2>1, <2>2, <2>3, <2>4, <2>5, <2>6, <2>7, <2>8, <2>9, <2>10, <2>11
       DEF Next, Step
<1> QED
  BY <1>1, <1>2, PTL DEF Spec

(* The inductive invariant.  A successful comparison implies the file is the
   payload only because the digest is the file's own (DigestFresh) and because
   digest and size together determine a content (DigestAssumption).           *)
LEMMA Inductive == IInv /\ TypeOK' /\ [Next]_vars => IInv'
<1> SUFFICES ASSUME IInv, TypeOK', [Next]_vars
             PROVE  DigestFresh' /\ OkMeansInstalled' /\ CalmState' /\ NoNeedlessWrite'
  BY DEF IInv
<1> USE ContentsAssumption, DigestAssumption
    DEF IInv, TypeOK, DigestFresh, OkMeansInstalled, CalmState, NoNeedlessWrite,
        Running, Returned, Answered, Lost
<1>1. ASSUME NEW d \in Payloads, Call(d)
      PROVE  DigestFresh' /\ OkMeansInstalled' /\ CalmState' /\ NoNeedlessWrite'
  BY <1>1 DEF Call
<1>2. CASE Sha1
  BY <1>2 DEF Sha1, ReadDigest
<1>3. CASE Stat1
  BY <1>3 DEF Stat1, ReadSize, Matches
<1>4. CASE Mkdir
  BY <1>4 DEF Mkdir
<1>5. CASE Write
  BY <1>5 DEF Write
<1>6. CASE Sha2
  BY <1>6 DEF Sha2, ReadDigest
<1>7. CASE Stat2
  BY <1>7 DEF Stat2, ReadSize, Matches
<1>8. CASE Crash
  BY <1>8 DEF Crash
<1>9. ASSUME NEW d \in Payloads, LateWrite(d)
      PROVE  DigestFresh' /\ OkMeansInstalled' /\ CalmState' /\ NoNeedlessWrite'
  BY <1>9 DEF LateWrite
<1>10. CASE ForeignWrite
  BY <1>10 DEF ForeignWrite
<1>11. CASE UNCHANGED vars
  BY <1>11 DEF vars
<1> QED
  BY <1>1, <1>2, <1>3, <1>4, <1>5, <1>6, <1>7, <1>8, <1>9, <1>10, <1>11 DEF Next, Step

(* The inductive invariant holds at every moment of every restore. *)
LEMMA Invariance == Spec => []IInv
<1>1. Init => IInv
  BY TypeCorrect
     DEF Init, IInv, TypeOK, DigestFresh, OkMeansInstalled, CalmState,
         NoNeedlessWrite, Running, Returned
<1> QED
  BY <1>1, TypeCorrect, Inductive, PTL DEF Spec

(* Success means installed, for every payload and every interleaving: this is
   what lets the rest of the restore rely on a nil error (restore.go:50-59).  *)
THEOREM OkSound == Spec => []OkMeansInstalled
<1>1. IInv => OkMeansInstalled
  BY DEF IInv
<1> QED
  BY <1>1, Invariance, PTL

(* Idempotence: a restore of what the file already holds never reaches a
   command that changes the target (restore.go:30-34).                        *)
THEOREM Idempotent == Spec => []NoNeedlessWrite
<1>1. IInv => NoNeedlessWrite
  BY DEF IInv
<1> QED
  BY <1>1, Invariance, PTL
(* restoreBytesIfChanged keeps the promise of Install: each command is one step
   of the abstract call or changes nothing the caller can see, and success is
   reported only where the abstract call may report it.                       *)
THEOREM Implements == Spec => ImplementsInstall
<1>1. Init => Promise!Init
  BY ContentsAssumption DEF Init, Promise!Init, Running
<1>2. IInv /\ IInv' /\ [Next]_vars => [Promise!Next]_(Promise!vars)
  <2> SUFFICES ASSUME IInv, IInv', [Next]_vars
               PROVE  Promise!Next \/ UNCHANGED Promise!vars
    OBVIOUS
  <2> USE DEF IInv, TypeOK, Running, Returned, Answered, Lost, Promise!vars
  <2>1. ASSUME NEW d \in Payloads, Call(d) PROVE Promise!Next
    <3>1. Promise!Call(d)
      BY <2>1 DEF Call, Promise!Call
    <3> QED
      BY <3>1 DEF Promise!Next
  <2>2. ASSUME NEW p, NEW q, NEW r, ReadDigest(p, q, r),
               p \in Running, q \in Running, r \in Running \cup {"error"}
        PROVE  Promise!Next \/ UNCHANGED Promise!vars
    <3>1. CASE view' = "fresh" /\ pc' = q
      <4>1. Promise!Look
        BY <2>2, <3>1 DEF ReadDigest, Promise!Look
      <4> QED
        BY <4>1 DEF Promise!Next
    <3>2. CASE pc' = r /\ UNCHANGED view /\ r # "error"
      BY <2>2, <3>2 DEF ReadDigest
    <3>3. CASE pc' = r /\ UNCHANGED view /\ r = "error"
      <4>1. Promise!GiveUp
        BY <2>2, <3>3 DEF ReadDigest, Promise!GiveUp
      <4> QED
        BY <4>1 DEF Promise!Next
    <3> QED
      BY <2>2, <3>1, <3>2, <3>3 DEF ReadDigest
  <2>3. ASSUME NEW p \in {"stat1", "stat2"}, NEW r \in {"mkdir", "error"}, ReadSize(p, r)
        PROVE  Promise!Next \/ UNCHANGED Promise!vars
    <3>1. CASE pc' = "ok"
      <4>1. view = "stale" \/ file = data
        BY <2>3, <3>1, ContentsAssumption, DigestAssumption
           DEF ReadSize, Matches, DigestFresh
      <4>2. Promise!Succeed
        BY <2>3, <3>1, <4>1 DEF ReadSize, Promise!Succeed
      <4> QED
        BY <4>2 DEF Promise!Next
    <3>2. CASE pc' = "mkdir"
      BY <2>3, <3>2 DEF ReadSize
    <3>3. CASE pc' = "error"
      <4>1. Promise!GiveUp
        BY <2>3, <3>3 DEF ReadSize, Promise!GiveUp
      <4> QED
        BY <4>1 DEF Promise!Next
    <3> QED
      BY <2>3, <3>1, <3>2, <3>3 DEF ReadSize
  <2>4. CASE Mkdir
    <3>1. CASE pc' = "write"
      BY <2>4, <3>1 DEF Mkdir
    <3>2. CASE pc' = "error"
      <4>1. Promise!GiveUp
        BY <2>4, <3>2 DEF Mkdir, Promise!GiveUp
      <4> QED
        BY <4>1 DEF Promise!Next
    <3> QED
      BY <2>4, <3>1, <3>2 DEF Mkdir
  <2>5. CASE Write
    <3>1. CASE UNCHANGED late /\ file' \in {data} \cup Torn[data]
      <4>1. Promise!Put
        BY <2>5, <3>1 DEF Write, Promise!Put
      <4> QED
        BY <4>1 DEF Promise!Next
    <3>2. CASE UNCHANGED <<file, late>> /\ pc' = "error"
      <4>1. Promise!GiveUp
        BY <2>5, <3>2 DEF Write, Promise!GiveUp
      <4> QED
        BY <4>1 DEF Promise!Next
    <3>3. CASE UNCHANGED file /\ late' = late \cup {data} /\ pc' = "error"
      <4>1. Promise!Delay
        BY <2>5, <3>3 DEF Write, Promise!Delay
      <4> QED
        BY <4>1 DEF Promise!Next
    <3> QED
      BY <2>5, <3>1, <3>2, <3>3 DEF Write
  <2>6. CASE Crash
    <3>1. CASE UNCHANGED late
      <4>1. Promise!GiveUp
        BY <2>6, <3>1 DEF Crash, Promise!GiveUp
      <4> QED
        BY <4>1 DEF Promise!Next
    <3>2. CASE late' = late \cup {data}
      <4>1. Promise!Delay
        BY <2>6, <3>2 DEF Crash, Promise!Delay
      <4> QED
        BY <4>1 DEF Promise!Next
    <3> QED
      BY <2>6, <3>1, <3>2 DEF Crash
  <2>7. ASSUME NEW d \in Payloads, LateWrite(d) PROVE Promise!Next
    <3>1. Promise!Interfere
      BY <2>7 DEF LateWrite, Promise!Interfere
    <3> QED
      BY <3>1 DEF Promise!Next
  <2>8. CASE ForeignWrite
    <3>1. Promise!Interfere
      BY <2>8 DEF ForeignWrite, Promise!Interfere
    <3> QED
      BY <3>1 DEF Promise!Next
  <2>9. CASE UNCHANGED vars
    BY <2>9 DEF vars
  <2> QED
    BY <2>1, <2>2, <2>3, <2>4, <2>5, <2>6, <2>7, <2>8, <2>9
       DEF Next, Step, Sha1, Sha2, Stat1, Stat2
<1> QED
  BY <1>1, <1>2, Invariance, PTL DEF Spec, ImplementsInstall, Promise!Spec
==============================================================================
