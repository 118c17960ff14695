--------------------------- MODULE TransportProofs ---------------------------
(* What travels is never mistaken for something else, for any files, contents,
   limits and number of packs.                                                *)
EXTENDS Transport, FiniteSetTheorems, TLAPS

(* Every member of an archive agrees with the state it was made of, the first one
   holds all of it, and no file has two members of its own.                   *)
Faithful(tar, s) ==
    /\ tar[1] = s
    /\ \A j \in 2..Len(tar) : \E f \in Files : tar[j] = [g \in {f} |-> s[g]]
    /\ \A i, j \in 2..Len(tar) : DOMAIN tar[i] \cap DOMAIN tar[j] # {} => i = j

(* PackSystemState writes STATE.yaml first and each file at most once
   (transport.go:78-130).                                                     *)
LEMMA ArchivesFaithful ==
    ASSUME NEW s \in States, NEW tar \in Archives(s)
    PROVE  Len(tar) \in Nat \ {0} /\ Faithful(tar, s)
<1>1. PICK kept \in SUBSET Files :
         tar \in {Archive(s, kept, o) : o \in Bijection(1..Cardinality(kept), kept)}
  BY DEF Archives
<1>2. PICK o \in Bijection(1..Cardinality(kept), kept) : tar = Archive(s, kept, o)
  BY <1>1
<1> DEFINE n == Cardinality(kept)
<1>3. n \in Nat
  <2>1. IsFiniteSet(kept)
    BY FS_Subset, TransportAssumption
  <2> QED
    BY <2>1, FS_CardinalityType
<1>4. /\ o \in [1..n -> kept]
      /\ \A i, j \in 1..n : o[i] = o[j] => i = j
  BY DEF Bijection, Injection, IsInjective
<1> HIDE DEF n
<1>5. tar = [j \in 1..(n + 1) |-> IF j = 1 THEN s ELSE [f \in {o[j - 1]} |-> s[f]]]
  BY <1>2 DEF n, Archive
<1>6. Len(tar) = n + 1
  BY <1>3, <1>5
<1>7. tar[1] = s
  BY <1>3, <1>5
<1>8. ASSUME NEW j \in 2..(n + 1)
      PROVE  tar[j] = [f \in {o[j - 1]} |-> s[f]] /\ j - 1 \in 1..n /\ o[j - 1] \in Files
  BY <1>3, <1>4, <1>5
<1>9. ASSUME NEW i \in 2..(n + 1), NEW j \in 2..(n + 1), DOMAIN tar[i] \cap DOMAIN tar[j] # {}
      PROVE  i = j
  <2>1. DOMAIN tar[i] = {o[i - 1]} /\ DOMAIN tar[j] = {o[j - 1]}
    BY <1>8
  <2>2. o[i - 1] = o[j - 1]
    BY <1>9, <2>1
  <2> QED
    BY <1>3, <1>4, <1>8, <2>2
<1>10. \A j \in 2..(n + 1) : \E f \in Files : tar[j] = [g \in {f} |-> s[g]]
  BY <1>8
<1>11. \A i, j \in 2..(n + 1) : DOMAIN tar[i] \cap DOMAIN tar[j] # {} => i = j
  BY <1>9
<1>12. Len(tar) \in Nat \ {0}
  BY <1>3, <1>6
<1> QED
  BY <1>6, <1>7, <1>10, <1>11, <1>12 DEF Faithful

(* Reading any number of members, the first included, gives back the state: what
   a member replaces, it replaces by the same (transport.go:198-241).         *)
LEMMA MergedIsState ==
    ASSUME NEW s \in States, NEW tar, Len(tar) \in Nat, Faithful(tar, s),
           NEW k \in 1..Len(tar)
    PROVE  Merged(tar, k) = s
<1> DEFINE Last(f, j) == f \in DOMAIN tar[j] /\ \A i \in (j + 1)..k : f \notin DOMAIN tar[i]
           Held == UNION {DOMAIN tar[j] : j \in 1..k}
<1>1. s = [f \in Files \cup {Rest} |-> s[f]] /\ DOMAIN s = Files \cup {Rest}
  BY DEF States
<1>2. \A j \in 1..k : /\ DOMAIN tar[j] \subseteq DOMAIN s
                      /\ \A f \in DOMAIN tar[j] : tar[j][f] = s[f]
  <2> TAKE j \in 1..k
  <2>1. CASE j = 1
    BY <2>1 DEF Faithful
  <2>2. CASE j # 1
    <3> j \in 2..Len(tar)
      BY <2>2
    <3>1. PICK f \in Files : tar[j] = [g \in {f} |-> s[g]]
      BY DEF Faithful
    <3> QED
      BY <1>1, <3>1
  <2> QED
    BY <2>1, <2>2
<1>3. Held = Files \cup {Rest}
  <2>1. 1 \in 1..k /\ DOMAIN tar[1] = Files \cup {Rest}
    BY <1>1 DEF Faithful
  <2> QED
    BY <1>1, <1>2, <2>1
<1>4. ASSUME NEW f \in Held PROVE \E j \in 1..k : Last(f, j)
  <2>1. CASE \E j \in 2..k : f \in DOMAIN tar[j]
    <3>1. PICK j \in 2..k : f \in DOMAIN tar[j]
      BY <2>1
    <3>2. ASSUME NEW i \in (j + 1)..k, f \in DOMAIN tar[i] PROVE FALSE
      <4>1. i \in 2..Len(tar) /\ j \in 2..Len(tar) /\ i # j
        OBVIOUS
      <4> QED
        BY <3>1, <3>2, <4>1 DEF Faithful
    <3> QED
      BY <3>1, <3>2
  <2>2. CASE ~\E j \in 2..k : f \in DOMAIN tar[j]
    <3>1. f \in DOMAIN tar[1]
      BY <1>1, <1>3, <1>4 DEF Faithful
    <3>2. 1 \in 1..k /\ (1 + 1)..k = 2..k
      OBVIOUS
    <3> QED
      BY <2>2, <3>1, <3>2
  <2> QED
    BY <2>1, <2>2
<1>5. ASSUME NEW f \in Held PROVE tar[CHOOSE j \in 1..k : Last(f, j)][f] = s[f]
  <2>1. PICK j \in 1..k : Last(f, j) /\ j = CHOOSE i \in 1..k : Last(f, i)
    BY <1>4, <1>5
  <2> QED
    BY <1>2, <2>1
<1>6. Merged(tar, k) = [f \in Held |-> tar[CHOOSE j \in 1..k : Last(f, j)][f]]
  BY DEF Merged
<1> QED
  BY <1>1, <1>3, <1>5, <1>6

(* The reader returns the state that was packed, or an error, however long the
   part of the archive is that it gets (transport.go:198-241).                *)
LEMMA ReadTarSound ==
    ASSUME NEW s \in States, NEW tar \in Archives(s), NEW len
    PROVE  ReadTar(tar, len) \in {Error, s}
<1>1. Len(tar) \in Nat /\ Faithful(tar, s)
  BY ArchivesFaithful
<1>2. CASE Whole(tar, len) # {}
  <2>1. PICK k \in Whole(tar, len) : k = CHOOSE j \in Whole(tar, len) : TRUE
    BY <1>2
  <2>2. k \in 1..Len(tar)
    BY DEF Whole
  <2>3. Merged(tar, k) = s
    BY <1>1, <2>2, MergedIsState
  <2> QED
    BY <1>2, <2>1, <2>3 DEF ReadTar
<1>3. CASE Whole(tar, len) = {}
  BY <1>3 DEF ReadTar
<1> QED
  BY <1>2, <1>3

(* The inductive invariant: what is remembered of a pack is an archive of its
   state.  Nothing is said of what travels.                                   *)
Tars == UNION {Archives(s) : s \in States}
Records == [state : States, tar : Tars, len : {End(t, Len(t)) % Wrap : t \in Tars}]
PacksSound ==
    /\ packs \in Seq(Records)
    /\ \A i \in DOMAIN packs : packs[i].tar \in Archives(packs[i].state)

(* Only Pack adds a pack (transport.go:71-161), and it adds a sound one. *)
LEMMA PacksStaySound == PacksSound /\ [Next]_vars => PacksSound'
<1> SUFFICES ASSUME PacksSound, [Next]_vars PROVE PacksSound'
  OBVIOUS
<1>1. ASSUME NEW s \in States, Pack(s) PROVE PacksSound'
  <2>1. PICK tar \in Archives(s) :
           packs' = Append(packs, [state |-> s, tar |-> tar,
                                   len |-> End(tar, Len(tar)) % Wrap])
    BY <1>1 DEF Pack
  <2> DEFINE new == [state |-> s, tar |-> tar, len |-> End(tar, Len(tar)) % Wrap]
  <2>2. tar \in Tars
    BY DEF Tars
  <2>3. new \in Records
    BY <2>2 DEF Records
  <2>4. new.state = s /\ new.tar = tar
    OBVIOUS
  <2> HIDE DEF new
  <2>5. packs' = Append(packs, new)
    BY <2>1 DEF new
  <2>6. packs' \in Seq(Records)
    BY <2>3, <2>5 DEF PacksSound
  <2>7. ASSUME NEW i \in DOMAIN packs' PROVE packs'[i].tar \in Archives(packs'[i].state)
    <3>1. CASE i \in DOMAIN packs
      <4>1. packs'[i] = packs[i]
        BY <2>3, <2>5, <3>1 DEF PacksSound
      <4> QED
        BY <3>1, <4>1 DEF PacksSound
    <3>2. CASE i \notin DOMAIN packs
      <4>1. packs'[i] = new
        BY <2>3, <2>5, <2>7, <3>2 DEF PacksSound
      <4> QED
        BY <2>4, <4>1
    <3> QED
      BY <3>1, <3>2
  <2> QED
    BY <2>6, <2>7 DEF PacksSound
<1>2. CASE UNCHANGED packs
  BY <1>2 DEF PacksSound
<1>3. CASE PackStub \/ Transmit \/ LateWrite \/ Unpack \/ Exit \/ UNCHANGED vars
  BY <1>2, <1>3 DEF PackStub, Transmit, LateWrite, Unpack, Exit, vars
<1> QED
  BY <1>1, <1>3 DEF Next

(* Whatever reaches the reader, torn, doubled, overlapped or cut by a cast, what
   it returns is the state that was packed or an error (streamer.cpp:42-47, 149;
   transport.go:163-241), for any files, contents, limits and number of packs. *)
THEOREM OpensWhatWasPacked == Spec => []NeverMistaken
<1>1. Init => PacksSound
  BY DEF Init, PacksSound
<1>2. PacksSound => NeverMistaken
  <2> SUFFICES ASSUME PacksSound, NEW i \in DOMAIN packs, NEW wire
               PROVE  Opened(wire, i) \in {Error, packs[i].state}
    BY DEF NeverMistaken
  <2>0. packs[i] \in Records
    BY DEF PacksSound
  <2>1. packs[i].state \in States /\ packs[i].tar \in Archives(packs[i].state)
    BY <2>0 DEF PacksSound, Records
  <2>2. ReadTar(packs[i].tar, packs[i].len) \in {Error, packs[i].state}
    BY <2>1, ReadTarSound
  <2> QED
    BY <2>2 DEF Opened
<1> QED
  BY <1>1, <1>2, PacksStaySound, PTL DEF Spec
------------------------------------------------------------------------------
(* Lengths are numbers: a union of finitely many finite sets is finite. *)
LEMMA FiniteUnion ==
    ASSUME NEW S, IsFiniteSet(S), NEW T, NEW f \in [S -> T], \A x \in S : IsFiniteSet(f[x]),
           NEW U, \A u \in U : \E x \in S : u \in f[x]
    PROVE  IsFiniteSet(U)
<1> DEFINE I == {f[x] : x \in S}
<1>1. f \in Surjection(S, I)
  BY DEF Surjection
<1>2. IsFiniteSet(I)
  BY <1>1, FS_Surjection
<1>3. IsFiniteSet(UNION I)
  BY <1>2, FS_UNION
<1>4. U \in SUBSET UNION I
  OBVIOUS
<1> QED
  BY <1>3, <1>4, FS_Subset

(* The members of an archive have a length. *)
LEMMA UnitsFinite ==
    ASSUME NEW D \in SUBSET (Files \cup {Rest}), NEW x \in [D -> Contents]
    PROVE  IsFiniteSet(Units(x))
<1> DEFINE part == [f \in D |-> {f} \X (0..Size[x[f]])]
           T == {part[f] : f \in D}
<1>1. IsFiniteSet(D)
  BY FS_Singleton, FS_Union, FS_Subset, TransportAssumption
<1>2. ASSUME NEW f \in D PROVE IsFiniteSet(part[f])
  <2>1. Size[x[f]] \in Nat
    BY TransportAssumption
  <2>2. IsFiniteSet(0..Size[x[f]])
    BY <2>1, FS_Interval
  <2>3. IsFiniteSet({f} \X (0..Size[x[f]]))
    BY <2>2, FS_Singleton, FS_Product
  <2> QED
    BY <2>3
<1>3. part \in [D -> T]
  OBVIOUS
<1>4. \A u \in Units(x) : \E f \in D : u \in part[f]
  BY DEF Units
<1> HIDE DEF part, T
<1> QED
  BY <1>1, <1>2, <1>3, <1>4, FiniteUnion

(* The members of an archive are pieces of the state, and its length a number. *)
LEMMA ArchiveTypes ==
    ASSUME NEW s \in States, NEW tar \in Archives(s)
    PROVE  tar \in Seq(Pieces) /\ End(tar, Len(tar)) \in Nat
<1>1. Len(tar) \in Nat \ {0} /\ Faithful(tar, s)
  BY ArchivesFaithful
<1>2. ASSUME NEW j \in 1..Len(tar)
      PROVE  \E D \in SUBSET (Files \cup {Rest}) : tar[j] \in [D -> Contents]
  <2>1. CASE j = 1
    BY <1>1, <2>1 DEF Faithful, States
  <2>2. CASE j # 1
    <3>1. j \in 2..Len(tar)
      BY <1>1, <2>2
    <3>2. PICK f \in Files : tar[j] = [g \in {f} |-> s[g]]
      BY <1>1, <3>1 DEF Faithful
    <3>3. tar[j] \in [{f} -> Contents] /\ {f} \subseteq Files \cup {Rest}
      BY <3>2 DEF States
    <3> QED
      BY <3>3
  <2> QED
    BY <2>1, <2>2
<1>3. tar = [j \in 1..Len(tar) |-> tar[j]]
  <2>1. PICK kept \in SUBSET Files :
           tar \in {Archive(s, kept, o) : o \in Bijection(1..Cardinality(kept), kept)}
    BY DEF Archives
  <2>2. PICK o \in Bijection(1..Cardinality(kept), kept) : tar = Archive(s, kept, o)
    BY <2>1
  <2>3. Cardinality(kept) \in Nat
    BY FS_Subset, FS_CardinalityType, TransportAssumption
  <2> QED
    BY <2>2, <2>3 DEF Archive
<1>4. tar \in Seq(Pieces)
  <2>1. \A j \in 1..Len(tar) : tar[j] \in Pieces
    BY <1>2 DEF Pieces
  <2>2. tar \in [1..Len(tar) -> Pieces]
    BY <1>3, <2>1
  <2> QED
    BY <1>1, <2>2
<1> DEFINE part == [j \in 1..Len(tar) |-> {j} \X Units(tar[j])]
           T == {part[j] : j \in 1..Len(tar)}
<1>5. IsFiniteSet(1..Len(tar))
  BY <1>1, FS_Interval
<1>6. ASSUME NEW j \in 1..Len(tar) PROVE IsFiniteSet(part[j])
  <2>1. IsFiniteSet(Units(tar[j]))
    BY <1>2, UnitsFinite
  <2>2. IsFiniteSet({j} \X Units(tar[j]))
    BY <2>1, FS_Singleton, FS_Product
  <2> QED
    BY <2>2
<1>7. part \in [1..Len(tar) -> T]
  OBVIOUS
<1> DEFINE U == UNION {{j} \X Units(tar[j]) : j \in 1..Len(tar)}
<1>8. End(tar, Len(tar)) = Cardinality(U) /\ \A u \in U : \E j \in 1..Len(tar) : u \in part[j]
  BY DEF End
<1> HIDE DEF part, T, U
<1>9. IsFiniteSet(U)
  BY <1>5, <1>6, <1>7, <1>8, FiniteUnion
<1> QED
  BY <1>4, <1>8, <1>9, FS_CardinalityType

(* What gs holds is what it sealed last, unless its memory was overwritten, and
   the length under the seal is that of the archive after the casts.          *)
Held ==
    /\ cur \in 0..Len(packs)
    /\ cur # 0 /\ intact = "yes" => data = Sealed(cur)
    /\ \A i \in DOMAIN packs : packs[i].len = End(packs[i].tar, Len(packs[i].tar)) % Wrap

(* Every step keeps what is known of the buffer gs holds. *)
LEMMA HeldInductive == PacksSound /\ Held /\ [Next]_vars => Held'
<1> SUFFICES ASSUME PacksSound, Held, [Next]_vars PROVE Held'
  OBVIOUS
<1>0. Len(packs) \in Nat /\ DOMAIN packs = 1..Len(packs)
  BY DEF PacksSound
<1>1. ASSUME NEW s \in States, Pack(s) PROVE Held'
  <2>1. PICK tar \in Archives(s) :
           /\ packs' = Append(packs, [state |-> s, tar |-> tar,
                                      len |-> End(tar, Len(tar)) % Wrap])
           /\ cur' = Len(packs) + 1
           /\ intact' = IF data' = Sealed(cur') THEN "yes" ELSE "no"
    BY <1>1 DEF Pack
  <2> DEFINE new == [state |-> s, tar |-> tar, len |-> End(tar, Len(tar)) % Wrap]
  <2>2. new.len = End(new.tar, Len(new.tar)) % Wrap
    OBVIOUS
  <2> HIDE DEF new
  <2>3. packs' = Append(packs, new)
    BY <2>1 DEF new
  <2>4. /\ Len(packs') = Len(packs) + 1
        /\ DOMAIN packs' = 1..(Len(packs) + 1)
        /\ \A i \in 1..Len(packs) : packs'[i] = packs[i]
        /\ packs'[Len(packs) + 1] = new
    BY <2>3, <1>0 DEF PacksSound
  <2>5. ASSUME NEW i \in DOMAIN packs'
        PROVE  packs'[i].len = End(packs'[i].tar, Len(packs'[i].tar)) % Wrap
    <3>1. CASE i \in DOMAIN packs
      BY <1>0, <2>4, <3>1 DEF Held
    <3>2. CASE i \notin DOMAIN packs
      <4>1. packs'[i] = new
        BY <1>0, <2>4, <3>2
      <4> QED
        BY <2>2, <4>1
    <3> QED
      BY <3>1, <3>2
  <2>6. cur' \in 0..Len(packs') /\ (intact' = "yes" => data' = Sealed(cur'))
    BY <1>0, <2>1, <2>4
  <2> QED
    BY <2>5, <2>6 DEF Held
<1>2. CASE Exit
  <2>1. cur' = 0 /\ packs' = packs /\ 0 \in 0..Len(packs)
    BY <1>0, <1>2 DEF Exit
  <2> QED
    BY <2>1 DEF Held
<1>3. CASE PackStub \/ Transmit \/ LateWrite \/ Unpack \/ UNCHANGED vars
  <2>1. UNCHANGED <<cur, packs, data, intact>>
    BY <1>3 DEF PackStub, Transmit, LateWrite, Unpack, vars
  <2> QED
    BY <2>1 DEF Held, Sealed, Nonce, Segment
<1> QED
  BY <1>1, <1>2, <1>3 DEF Next

(* What LZ4 may compress and the decompressor accepts is not cut by the casts, so
   that the whole archive comes back, and with it the whole state.            *)
LEMMA ReadTarComplete ==
    ASSUME NEW s \in States, NEW tar \in Archives(s), End(tar, Len(tar)) <= MaxData
    PROVE  /\ End(tar, Len(tar)) % Wrap = End(tar, Len(tar))
           /\ ReadTar(tar, End(tar, Len(tar))) = s
<1>1. Len(tar) \in Nat \ {0} /\ Faithful(tar, s)
  BY ArchivesFaithful
<1>2. End(tar, Len(tar)) \in Nat
  BY ArchiveTypes
<1> DEFINE len == End(tar, Len(tar))
<1>3. len % Wrap = len
  BY <1>2, TransportAssumption
<1>4. Len(tar) \in Whole(tar, len)
  BY <1>1 DEF Whole
<1>5. PICK k \in Whole(tar, len) : k = CHOOSE j \in Whole(tar, len) : TRUE
  BY <1>4
<1>6. k \in 1..Len(tar)
  BY DEF Whole
<1>7. Merged(tar, k) = s
  BY <1>1, <1>6, MergedIsState
<1> HIDE DEF len
<1>8. ReadTar(tar, len) = s
  BY <1>4, <1>5, <1>7 DEF ReadTar
<1> QED
  BY <1>3, <1>8 DEF len

(* A state that gs holds, within the limit of the decompressor and not overwritten
   in memory, can be opened and gives back all that was packed, for any files,
   contents, sizes and refused members (transport.go:78-130, streamer.cpp:60).  *)
THEOREM PackedOpens == Spec => []PackedIsRecoverable
<1>1. Init => PacksSound /\ Held
  BY DEF Init, PacksSound, Held
<1>2. PacksSound /\ Held => PackedIsRecoverable
  <2> SUFFICES ASSUME PacksSound, Held, cur # 0, intact = "yes",
                      End(packs[cur].tar, Len(packs[cur].tar)) <= MaxData
               PROVE  Opened(data, cur) = packs[cur].state
    BY DEF PackedIsRecoverable
  <2>1. cur \in DOMAIN packs
    BY DEF PacksSound, Held
  <2>2. packs[cur] \in Records
    BY <2>1 DEF PacksSound
  <2>3. packs[cur].state \in States /\ packs[cur].tar \in Archives(packs[cur].state)
    BY <2>1, <2>2 DEF PacksSound, Records
  <2>4. /\ packs[cur].len = End(packs[cur].tar, Len(packs[cur].tar))
        /\ ReadTar(packs[cur].tar, packs[cur].len) = packs[cur].state
    BY <2>1, <2>3, ReadTarComplete DEF Held
  <2>5. Authentic(data, cur) /\ Plausible(packs[cur].len)
    BY <2>4 DEF Held, Authentic, Plausible
  <2> QED
    BY <2>4, <2>5 DEF Opened
<1> QED
  BY <1>1, <1>2, PacksStaySound, HeldInductive, PTL DEF Spec
------------------------------------------------------------------------------
(* What two writers leave is made of what they wrote, what was there, and junk. *)
LEMMA OverlaidTypes ==
    ASSUME NEW w \in Seq(Segments), NEW old \in Seq(Segments), NEW f \in Overlaid(w, old)
    PROVE  f \in Seq(Segments)
<1>1. PICK J \in SUBSET DOMAIN w :
        f \in {[j \in 1..n |-> IF j \in J THEN w[j] ELSE IF j \in DOMAIN old THEN old[j] ELSE Junk] :
                  n \in {k \in {Len(old)} \cup J : \A j \in J : j <= k /\ Len(old) <= k}}
  BY DEF Overlaid
<1>2. PICK n \in {Len(old)} \cup J :
        f = [j \in 1..n |-> IF j \in J THEN w[j] ELSE IF j \in DOMAIN old THEN old[j] ELSE Junk]
  BY <1>1
<1>3. n \in Nat
  <2>1. Len(old) \in Nat /\ DOMAIN w \subseteq Nat
    OBVIOUS
  <2> QED
    BY <2>1
<1>4. Junk \in Segments
  BY TransportAssumption DEF Junk, Segment, Segments
<1>5. (\A j \in DOMAIN w : w[j] \in Segments) /\ (\A j \in DOMAIN old : old[j] \in Segments)
  OBVIOUS
<1>6. f \in [1..n -> Segments]
  BY <1>2, <1>4, <1>5
<1> QED
  BY <1>3, <1>6

(* Every step keeps the types. *)
LEMMA TypeInductive == PacksSound /\ TypeOK /\ [Next]_vars => TypeOK'
<1> SUFFICES ASSUME PacksSound, TypeOK, [Next]_vars PROVE TypeOK'
  OBVIOUS
<1> DEFINE R == [state : States, tar : Seq(Pieces), len : Nat]
<1>0. Len(packs) \in Nat /\ MaxPacks \in Nat /\ Wrap \in Nat \ {0} /\ packs \in Seq(R)
  BY TransportAssumption DEF TypeOK
<1>n. ASSUME NEW i \in 0..MaxPacks, NEW kind \in {"nonce", "body", "tag", "junk"}
      PROVE  Segment(kind, i) \in Segments
  BY DEF Segment, Segments
<1>w. WithNonce \in Seq(Segments)
  <2>1. cur \in 0..MaxPacks
    BY <1>0 DEF TypeOK
  <2>2. Nonce(cur) \in Segments
    BY <2>1, <1>n DEF Nonce
  <2> QED
    BY <2>2 DEF WithNonce, TypeOK
<1>1. ASSUME NEW s \in States, Pack(s) PROVE TypeOK'
  <2>1. PICK tar \in Archives(s) :
           /\ packs' = Append(packs, [state |-> s, tar |-> tar,
                                      len |-> End(tar, Len(tar)) % Wrap])
           /\ cur' = Len(packs) + 1
           /\ data' \in GoBytes(Sealed(cur'))
    BY <1>1 DEF Pack
  <2>2. Len(packs) < MaxPacks /\ pc' = "packed" /\ UNCHANGED <<build, file, late, result>>
    BY <1>1 DEF Pack
  <2> DEFINE new == [state |-> s, tar |-> tar, len |-> End(tar, Len(tar)) % Wrap]
  <2>3. End(tar, Len(tar)) % Wrap \in Nat
    BY <1>0, ArchiveTypes
  <2>4. new \in R
    BY <2>3, ArchiveTypes
  <2> HIDE DEF new, R
  <2>5. packs' \in Seq(R) /\ Len(packs') = Len(packs) + 1
    BY <2>1, <2>4, <1>0 DEF new
  <2>6. cur' \in 0..MaxPacks
    BY <1>0, <2>1, <2>2
  <2>7. Sealed(cur') \in Seq(Segments) /\ Junk \in Segments
    BY <2>6, <1>n, <1>0 DEF Sealed, Nonce, Junk
  <2>8. data' \in Seq(Segments)
    BY <2>1, <2>7 DEF GoBytes
  <2>9. Len(packs') <= MaxPacks /\ cur' \in 0..Len(packs')
    BY <1>0, <2>1, <2>2, <2>5
  <2> QED
    BY <2>2, <2>5, <2>8, <2>9 DEF TypeOK, R
<1>2. CASE PackStub
  BY <1>2 DEF PackStub, TypeOK
<1>3. CASE Transmit
  <2>0. file \in Seq(Segments) /\ <<>> \in Seq(Segments)
    BY DEF TypeOK
  <2>1. file' \in Seq(Segments)
    <3>1. CASE file' \in Overlaid(WithNonce, <<>>)
      BY <1>w, <2>0, <3>1, OverlaidTypes
    <3>2. CASE file' = file
      BY <2>0, <3>2
    <3> QED
      BY <1>3, <3>1, <3>2 DEF Transmit
  <2>2. late' \subseteq Seq(Segments)
    BY <1>3, <1>w DEF Transmit, TypeOK
  <2> QED
    BY <1>3, <2>1, <2>2 DEF Transmit, TypeOK
<1>4. CASE LateWrite
  <2>1. PICK w \in late : late' = late \ {w} /\ file' \in Overlaid(w, <<>>) \cup Overlaid(w, file)
    BY <1>4 DEF LateWrite
  <2>2. w \in Seq(Segments) /\ <<>> \in Seq(Segments) /\ file \in Seq(Segments)
    BY <2>1 DEF TypeOK
  <2>3. file' \in Seq(Segments)
    BY <2>1, <2>2, OverlaidTypes
  <2> QED
    BY <1>4, <2>1, <2>3 DEF LateWrite, TypeOK
<1>5. CASE Unpack
  BY <1>5 DEF Unpack, TypeOK
<1>6. CASE Exit
  <2>1. 0 \in 0..Len(packs) /\ <<>> \in Seq(Segments)
    BY <1>0
  <2> QED
    BY <1>6, <2>1 DEF Exit, TypeOK
<1>7. CASE UNCHANGED vars
  BY <1>7 DEF vars, TypeOK
<1> QED
  BY <1>1, <1>2, <1>3, <1>4, <1>5, <1>6, <1>7 DEF Next

(* What travels and what lies on the target is nonces, ciphertexts, tags and junk,
   never a key, whatever is cut, overlaid or overwritten (streamer.cpp:198-218,
   transport.go:244-263).                                                     *)
THEOREM TransportTypeCorrect == Spec => []TypeOK
<1>1. Init => PacksSound /\ TypeOK
  BY TransportAssumption DEF Init, PacksSound, TypeOK
<1> QED
  BY <1>1, PacksStaySound, TypeInductive, PTL DEF Spec
==============================================================================
