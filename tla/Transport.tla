------------------------------ MODULE Transport ------------------------------
(* gs extract after the extraction: PackSystemState, CompressAndEncrypt,
   TransmitState and UnpackSystemState (internal/extractor/transport.go and its
   stub) on the C++ streamer (clib/streamer.cpp).  An archive is a sequence of
   members, each a piece of the system state; what travels is a sequence of
   segments.  Lengths are counted in small units and keep the casts of the code. *)
EXTENDS Integers, Sequences, FiniteSets, Functions

CONSTANTS
    Files,        \* certificates, databases, configurations, keys: a member each
    Rest,         \* docker, nomad and system information: in STATE.yaml only
    Contents,     \* what they can hold
    Size,         \* length of a content
    MaxData,      \* MAX_DATA_SIZE, the largest length lz4_decompress accepts
    MaxInput,     \* LZ4_MAX_INPUT_SIZE
    Wrap,         \* 2^32: lengths are cast to uint32_t and int
    Error,        \* what a function that fails returns
    MaxPacks      \* bound: successful packs

ASSUME TransportAssumption ==
    /\ Rest \notin Files
    /\ IsFiniteSet(Files)
    /\ Size \in [Contents -> Nat]
    /\ MaxData \in Nat /\ MaxInput \in Nat /\ Wrap \in Nat /\ MaxPacks \in Nat
    /\ MaxData < Wrap          \* 256 MiB and 2^32
    /\ \A D \in SUBSET (Files \cup {Rest}) : Error \notin [D -> Contents]

VARIABLES
    build,        \* "cgo", or "stub" without the build tag cgo_streamer
    pc,           \* gs: "idle", "packed" or "unpacked"
    packs,        \* history: state, archive and sealed length of every pack
    cur,          \* gs: the pack whose key and nonce the StreamState holds, 0 if none
    data,         \* gs: StreamState.Data
    intact,       \* history: "no" when Data was read from overwritten memory
    file,         \* target: the file at targetPath
    late,         \* writes under way without a connection
    result        \* what the last UnpackSystemState returned

vars == <<build, pc, packs, cur, data, intact, file, late, result>>

States == [Files \cup {Rest} -> Contents]
------------------------------------------------------------------------------
(* Mutant: STATE.yaml is written last. *)
FilesFirst(s) == {<<[f \in {o} |-> s[f]], s>> : o \in Files}

(* STATE.yaml first, then a member for every file in the order of a Go map.  A
   member whose header is refused is left out.                                *)
Archive(s, kept, o) ==
    [j \in 1..(Cardinality(kept) + 1) |-> IF j = 1 THEN s ELSE [f \in {o[j - 1]} |-> s[f]]]
Archives(s) ==
    UNION {{Archive(s, kept, o) : o \in Bijection(1..Cardinality(kept), kept)} :
              kept \in SUBSET Files}

(* The units of a member: one of framing and what it holds for every piece.  The
   length of the first k members is the number of theirs.                     *)
Units(x) == UNION {{f} \X (0..Size[x[f]]) : f \in DOMAIN x}
End(tar, k) == Cardinality(UNION {{j} \X Units(tar[j]) : j \in 1..k})

(* The number of members that make up the first len units; none when the end is
   in the middle of a member.                                                 *)
Whole(tar, len) == {k \in 1..Len(tar) : End(tar, k) = len}

(* UnpackSystemState from tar.NewReader on: members replace what earlier ones
   said, STATE.yaml included; one that ends early is an error.                *)
Merged(tar, k) ==
    [f \in UNION {DOMAIN tar[j] : j \in 1..k} |->
        tar[CHOOSE j \in 1..k : /\ f \in DOMAIN tar[j]
                                /\ \A i \in (j + 1)..k : f \notin DOMAIN tar[i]][f]]
ReadTar(tar, len) ==
    IF Whole(tar, len) = {} THEN Error
    ELSE Merged(tar, CHOOSE k \in Whole(tar, len) : TRUE)

(* Segments of what travels.  Every pack has a key and a nonce of its own, so
   its index stands for both.                                                 *)
Segment(kind, i) == [kind |-> kind, of |-> i]
Junk == Segment("junk", 0)
Nonce(i) == Segment("nonce", i)

(* Mutant: the key travels in front of the nonce. *)
SealedWithKey(i) ==
    <<Segment("key", i), Nonce(i), Segment("body", i), Segment("tag", i)>>

(* compress_encrypt: nonce, ciphertext, tag. *)
Sealed(i) == <<Nonce(i), Segment("body", i), Segment("tag", i)>>

(* aes_gcm_decrypt with key i: the first segment is taken for the nonce, the last
   for the tag, and nonce, ciphertext and tag have to belong together.        *)
Authentic(wire, i) == wire = Sealed(i)

(* Mutant: lz4_decompress refuses its limit. *)
PlausibleStrict(len) == len < MaxData
Plausible(len) == len <= MaxData

Opened(wire, i) ==
    IF Authentic(wire, i) /\ Plausible(packs[i].len)
    THEN ReadTar(packs[i].tar, packs[i].len)
    ELSE Error

(* UnpackSystemState and TransmitState put the nonce in front of Data, which
   already begins with it.                                                    *)
WithNonce == <<Nonce(cur)>> \o data

(* The C wrappers return a pointer into a Result whose destructor has freed it:
   C.GoBytes copies what is left, and streamer_free frees it a second time.   *)
GoBytes(wire) == {wire, [wire EXCEPT ![1] = Junk]}
------------------------------------------------------------------------------
Init ==
    /\ build \in {"cgo", "stub"}
    /\ pc = "idle"
    /\ packs = <<>>
    /\ cur = 0
    /\ data = <<>>
    /\ intact = "yes"
    /\ file = <<>>
    /\ late = {}
    /\ result = Error

(* cmdExtract after ValidateState with the stub: PackSystemState returns an empty
   stream and no error, and success is printed.                               *)
PackStub ==
    /\ pc = "idle"
    /\ build = "stub"
    /\ pc' = "packed"
    /\ UNCHANGED <<build, packs, cur, data, intact, file, late, result>>

(* cmdExtract, PackSystemState and CompressAndEncrypt: archive, fresh key and
   nonce, LZ4 on as many units as the length has left after the casts, AES-GCM.
   Without randomness, with a length LZ4 refuses, or when the second free aborts
   gs, nothing is kept.                                                       *)
Pack(s) ==
    /\ pc = "idle"
    /\ build = "cgo"
    /\ Len(packs) < MaxPacks
    /\ \E tar \in Archives(s) :
          LET len == End(tar, Len(tar)) % Wrap
              new == Len(packs) + 1
          IN  /\ len <= MaxInput
              /\ packs' = Append(packs, [state |-> s, tar |-> tar, len |-> len])
              /\ cur' = new
              /\ data' \in GoBytes(Sealed(new))
              /\ intact' = IF data' = Sealed(new) THEN "yes" ELSE "no"
    /\ pc' = "packed"
    /\ UNCHANGED <<build, file, late, result>>

(* What two writers, or one that is cut off, leave of w over an old file: the
   segments J of w, up to the last of them or of the old file.                *)
Overlaid(w, old) ==
    UNION {{[j \in 1..n |-> IF j \in J THEN w[j] ELSE IF j \in DOMAIN old THEN old[j] ELSE Junk] :
               n \in {k \in {Len(old)} \cup J : \A j \in J : j <= k /\ Len(old) <= k}} :
              J \in SUBSET DOMAIN w}

(* TransmitState: echo | base64 -d | sudo tee.  It truncates the file first; the
   status is tee's, so a torn file may be reported as transmitted; with the
   connection lost the command may go on alone.                               *)
Transmit ==
    /\ pc = "packed"
    /\ build = "cgo"
    /\ \/ file' \in Overlaid(WithNonce, <<>>) /\ UNCHANGED late
       \/ late' = late \cup {WithNonce} /\ UNCHANGED file
    /\ UNCHANGED <<build, pc, packs, cur, data, intact, result>>

LateWrite ==
    /\ \E w \in late :
          /\ late' = late \ {w}
          /\ file' \in Overlaid(w, <<>>) \cup Overlaid(w, file)
    /\ UNCHANGED <<build, pc, packs, cur, data, intact, result>>

(* UnpackSystemState(stream), up to the plaintext it reads from freed memory. *)
Unpack ==
    /\ pc = "packed"
    /\ build = "cgo"
    /\ result' = Opened(WithNonce, cur)
    /\ pc' = "unpacked"
    /\ UNCHANGED <<build, packs, cur, data, intact, file, late>>

(* gs ends; the key was only in its memory. *)
Exit ==
    /\ pc \in {"packed", "unpacked"}
    /\ pc' = "idle"
    /\ cur' = 0
    /\ data' = <<>>
    /\ intact' = "yes"
    /\ UNCHANGED <<build, packs, file, late, result>>

Next ==
    \/ PackStub
    \/ \E s \in States : Pack(s)
    \/ Transmit \/ LateWrite \/ Unpack \/ Exit

Spec == Init /\ [][Next]_vars
------------------------------------------------------------------------------
Pieces == UNION {[D -> Contents] : D \in SUBSET (Files \cup {Rest})}
Segments == [kind : {"nonce", "body", "tag", "junk"}, of : 0..MaxPacks]

TypeOK ==
    /\ build \in {"cgo", "stub"}
    /\ pc \in {"idle", "packed", "unpacked"}
    /\ packs \in Seq([state : States, tar : Seq(Pieces), len : Nat])
    /\ Len(packs) <= MaxPacks
    /\ cur \in 0..Len(packs)
    /\ data \in Seq(Segments)
    /\ file \in Seq(Segments)
    /\ late \subseteq Seq(Segments)

(* Whatever is opened is what was packed or an error, never a part of it and
   never a mixture: for what gs holds and for the file on the target, with and
   without the nonce that is in front of it twice, after torn, late and
   overlapping writes, overwritten memory, and an archive so long that its
   length was cut by the cast (streamer.cpp:42-47, 149; transport.go:198-208). *)
NeverMistaken ==
    \A i \in DOMAIN packs : \A wire \in {data, file, SubSeq(file, 2, Len(file))} :
        Opened(wire, i) \in {Error, packs[i].state}

(* As long as the archive is within the limit of the decompressor and Data was
   not overwritten, decrypt_decompress and the reader give back every file,
   docker and nomad state included, whichever members were refused
   (transport.go:78-130, streamer.cpp:60, clib/test.cpp:24-27).               *)
PackedIsRecoverable ==
    cur # 0 /\ intact = "yes" /\ End(packs[cur].tar, Len(packs[cur].tar)) <= MaxData =>
        Opened(data, cur) = packs[cur].state

(* transport.go:163: "UnpackSystemState unpacks encrypted stream back to
   SystemState".                                                              *)
UnpackGivesBack ==
    pc = "unpacked" /\ intact = "yes" /\ End(packs[cur].tar, Len(packs[cur].tar)) <= MaxData =>
        result = packs[cur].state
==============================================================================
