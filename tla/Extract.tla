------------------------------- MODULE Extract -------------------------------
(* ExtractSystemState (internal/extractor/extractor.go, certs.go, sqlite.go) up
   to the docker and nomad state, and ExtractAllDatabases: system information,
   certificates, the xray configuration, x-ui databases, configuration texts and
   SSH keys are read one command at a time from a source server that stays in
   use, so a certificate may be renewed and a database written between two reads. *)
EXTENDS Integers, Sequences, FiniteSets, SequencesExt

CONSTANTS
    Infos,        \* what extractSystemInfo asks for, in order
    Domains,      \* certificate directories, in the order ls prints them
    XrayPaths,    \* where ExtractXrayConfig looks, in order
    DbPaths,      \* where extractDatabases looks, in order
    MoreDbPaths,  \* where ExtractAllDatabases looks after that
    Texts,        \* configuration files and SSH keys
    MaxFaults,    \* bound: failed commands
    MaxChanges    \* bound: changes of the source

ASSUME ExtractAssumption ==
    /\ MaxFaults \in Nat /\ MaxChanges \in Nat
    /\ Infos \in Seq(STRING) /\ Domains \in Seq(STRING) /\ XrayPaths \in Seq(STRING)
    /\ DbPaths \in Seq(STRING) /\ MoreDbPaths \in Seq(STRING)
    /\ Texts \subseteq STRING /\ IsFiniteSet(Texts)

VARIABLES
    src,          \* source: version of every file, 0 when missing
    start,        \* history: src when the extraction began
    job,          \* "state", or "all" for ExtractAllDatabases
    pc,           \* "idle", "info", "read" or "done"
    todo,         \* the loops still to be run, each as the files it has still to read
    try,          \* which of its commands is next for the first file
    state,        \* SystemState: name -> where its bytes come from
    listed,       \* history: the certificate directory could be listed
    bad,          \* history: failed commands of this extraction
    faults, changes

vars == <<src, start, job, pc, todo, try, state, listed, bad, faults, changes>>

Path(kind, where, part) == <<kind, where, part>>
Kind(p) == p[1]

InfoItems == [i \in DOMAIN Infos |-> Path("info", Infos[i], "")]

(* The files of one certificate, in the order they are read. *)
CertFiles(d) == <<Path("cert", d, "cert.pem"), Path("cert", d, "privkey.pem"),
                  Path("cert", d, "fullchain.pem")>>
Xrays == [i \in DOMAIN XrayPaths |-> Path("xray", XrayPaths[i], "")]
Dbs   == [i \in DOMAIN DbPaths |-> Path("db", DbPaths[i], "")]
AllDbs == Dbs \o [i \in DOMAIN MoreDbPaths |-> Path("db", MoreDbPaths[i], "")]
Certs == UNION {ToSet(CertFiles(Domains[i])) : i \in DOMAIN Domains}
TextFiles == {Path("text", t, "") : t \in Texts}
Paths == ToSet(InfoItems) \cup Certs \cup ToSet(Xrays) \cup ToSet(AllDbs) \cup TextFiles

(* Under which name a file is kept.  filepath.Base is the same for all database
   paths, and whichever xray configuration is found becomes xray.json;
   ExtractAllDatabases keeps the paths.                                       *)
Key(p) ==
    IF job = "all" THEN p
    ELSE CASE Kind(p) = "db"   -> Path("db", "x-ui.db", "")
           [] Kind(p) = "xray" -> Path("config", "xray.json", "")
           [] OTHER            -> p

(* Mutant: no sudo fallback. *)
AttemptsOnce(p) == 1

(* How many commands are tried for a file: cat, sudo cat, sudo -u root cat. *)
Attempts(p) ==
    CASE Kind(p) = "db" -> 3 [] Kind(p) \in {"info", "text"} -> 1 [] OTHER -> 2

(* What a command prints: the file, or the echo that stands for a missing text.
   The code compares that line with the marker alone, and keeps it.           *)
Out(p, text) == [path |-> p, text |-> text]
Bytes(p) == Out(p, <<src[p]>>)
Marker == <<0>>
Newline == <<-1>>
TextOut(p) == IF src[p] = 0 THEN Out(p, Marker \o Newline) ELSE Bytes(p)

Init ==
    /\ src \in [Paths -> {0, 1}]
    /\ \A p, q \in Certs : p[2] = q[2] => src[p] = src[q]
    /\ \A p \in ToSet(InfoItems) : src[p] = 1
    /\ start = src
    /\ job = "state"
    /\ pc = "idle"
    /\ todo = <<>>
    /\ try = 1
    /\ state = <<>>
    /\ listed = "no"
    /\ bad = 0
    /\ faults = 0
    /\ changes = 0

Answered == UNCHANGED <<bad, faults>>
Lost ==
    /\ faults < MaxFaults
    /\ faults' = faults + 1
    /\ bad' = bad + 1

Scope(j) ==
    /\ pc \in {"idle", "done"}
    /\ job' = j
    /\ pc' = IF j = "state" THEN "info" ELSE "read"
    /\ todo' = <<IF j = "state" THEN InfoItems ELSE AllDbs>>
    /\ try' = 1
    /\ start' = src
    /\ listed' = "no"
    /\ bad' = 0
    /\ UNCHANGED <<src, faults, changes>>

(* Mutant: a second extraction adds to the maps of the first. *)
BeginDirty(j) == Scope(j) /\ UNCHANGED state

(* ExtractSystemState or ExtractAllDatabases is called: all maps are new. *)
Begin(j) == Scope(j) /\ state' = <<>>

(* The certificates the loop over the domains will read: those ls printed. *)
CertLoops == [i \in DOMAIN Domains |->
                 IF src[CertFiles(Domains[i])[1]] # 0 THEN CertFiles(Domains[i]) ELSE <<>>]

(* ls of the certificate directory fixes what will be read, and in which order;
   the configuration texts are in a Go map, so in any order.                  *)
List ==
    /\ pc = "info"
    /\ todo = <<>>
    /\ \E texts \in {s \in [1..Cardinality(TextFiles) -> TextFiles] : IsInjective(s)} :
          \/ Answered /\ listed' = "yes" /\ todo' = CertLoops \o <<Xrays, Dbs, texts>>
          \/ Lost /\ UNCHANGED listed /\ todo' = <<Xrays, Dbs, texts>>
    /\ pc' = "read"
    /\ try' = 1
    /\ UNCHANGED <<src, start, job, state, changes>>

(* A loop goes on with its next file, is left, or comes to its end. *)
Continue == todo' = <<Tail(Head(todo))>> \o Tail(todo)
Leave    == todo' = Tail(todo)

EndLoop ==
    /\ pc \in {"info", "read"}
    /\ todo # <<>> /\ Head(todo) = <<>>
    /\ Leave
    /\ UNCHANGED <<src, start, job, pc, try, state, listed, bad, faults, changes>>

Store(p, bytes) ==
    state' = [k \in DOMAIN state \cup {Key(p)} |-> IF k = Key(p) THEN bytes ELSE state[k]]

(* Mutant: the next file starts with the command that worked for this one. *)
KeepTry(p, bytes) == Store(p, bytes) /\ Continue /\ UNCHANGED try

(* A file is kept under its name, over what was there; one xray configuration
   is enough.                                                                 *)
Keep(p, bytes) ==
    /\ Store(p, bytes)
    /\ try' = 1
    /\ IF Kind(p) = "xray" THEN Leave ELSE Continue

(* Mutant: the other files of an incomplete certificate are still read. *)
SkipOne(p) == try' = 1 /\ Continue /\ UNCHANGED state

(* Mutant: a file is asked for until it is there. *)
SkipNever(p) == try' = 1 /\ UNCHANGED <<todo, state>>

(* No command could read the file; the rest of its certificate is skipped. *)
Skip(p) ==
    /\ try' = 1
    /\ IF Kind(p) = "cert" THEN Leave ELSE Continue
    /\ UNCHANGED state

(* readRemoteFile and ExtractDatabase: an empty answer is a failure too. *)
ReadFile(p) ==
    /\ Kind(p) \notin {"info", "text"}
    /\ \/ src[p] # 0 /\ Answered /\ Keep(p, Bytes(p))
       \/ /\ \/ src[p] = 0 /\ Answered
             \/ Lost
          /\ \/ try < Attempts(p) /\ try' = try + 1 /\ UNCHANGED <<todo, state>>
             \/ try >= Attempts(p) /\ Skip(p)

(* extractSystemInfo, extractConfigs and extractSSHKeys *)
ReadText(p) ==
    /\ Kind(p) \in {"info", "text"}
    /\ \/ Answered /\ TextOut(p).text # Marker /\ Keep(p, TextOut(p))
       \/ Lost /\ Skip(p)

Read ==
    /\ pc \in {"info", "read"}
    /\ todo # <<>> /\ Head(todo) # <<>>
    /\ LET p == Head(Head(todo)) IN ReadFile(p) \/ ReadText(p)
    /\ UNCHANGED <<src, start, job, pc, listed, changes>>

Finish ==
    /\ pc = "read"
    /\ todo = <<>>
    /\ pc' = "done"
    /\ UNCHANGED <<src, start, job, todo, try, state, listed, bad, faults, changes>>

(* The source in use: certbot issues or renews a certificate, a program writes
   one of its files.                                                          *)
Change(files) ==
    /\ changes < MaxChanges
    /\ changes' = changes + 1
    /\ src' = [p \in Paths |-> IF p \in files THEN src[p] + 1 ELSE src[p]]
    /\ UNCHANGED <<start, job, pc, todo, try, state, listed, bad, faults>>

Renew == \E i \in DOMAIN Domains : Change(ToSet(CertFiles(Domains[i])))
WriteFile == \E p \in Paths \ Certs : Change({p})

Next == (\E j \in {"state", "all"} : Begin(j)) \/ List \/ Read \/ EndLoop \/ Finish \/ Renew
        \/ WriteFile

Spec == Init /\ [][Next]_vars
FairSpec == Spec /\ WF_vars(List \/ Read \/ EndLoop \/ Finish)
------------------------------------------------------------------------------
TypeOK ==
    /\ src \in [Paths -> 0..(MaxChanges + 1)]
    /\ start \in [Paths -> 0..(MaxChanges + 1)]
    /\ job \in {"state", "all"}
    /\ pc \in {"idle", "info", "read", "done"}
    /\ todo \in Seq(Seq(Paths))
    /\ todo # <<>> /\ Head(todo) # <<>> => try \in 1..Attempts(Head(Head(todo)))
    /\ DOMAIN state \subseteq
          Paths \cup {Path("db", "x-ui.db", ""), Path("config", "xray.json", "")}
    /\ bad \in 0..faults /\ faults \in 0..MaxFaults /\ changes \in 0..MaxChanges

(* What was extracted is no older than the extraction: every byte kept was on
   the source at some moment since it began, whatever changed, failed or was
   extracted before (extractor.go:34-46).                                     *)
NothingStale ==
    \A k \in DOMAIN state : state[k].text # Marker \o Newline =>
        state[k].text[1] \in start[state[k].path]..src[state[k].path]

(* However reading is interrupted, a key is never extracted without its
   certificate, nor a chain without its key (certs.go:34-56).                 *)
CertificatesWhole ==
    \A i \in DOMAIN Domains : \A j \in 2..3 :
        CertFiles(Domains[i])[j] \in DOMAIN state
            => CertFiles(Domains[i])[j - 1] \in DOMAIN state

(* Reference: what an extraction keeps of an idle source. *)
Expected(p) ==
    /\ p \in Paths /\ start[p] # 0
    /\ \/ job = "all" /\ p \in ToSet(AllDbs)
       \/ job = "state" /\ p \in Certs
       \/ job = "state" /\ \E i \in DOMAIN Xrays :
             p = Xrays[i] /\ \A j \in 1..(i - 1) : start[Xrays[j]] = 0
       \/ job = "state" /\ \E i \in DOMAIN Dbs :
             p = Dbs[i] /\ \A j \in (i + 1)..Len(Dbs) : start[Dbs[j]] = 0

(* One failed command loses no certificate, database or xray configuration and
   swaps none for another: each is asked for again with sudo (certs.go:115-127,
   sqlite.go:14-73).  Only the listing and the texts have no second chance.   *)
OneFaultTolerated ==
    pc = "done" /\ src = start /\ (listed = "yes" \/ job = "all") /\ bad <= 1 =>
        \A p \in Paths : Expected(p) =>
            Key(p) \in DOMAIN state /\ state[Key(p)] = Out(p, <<start[p]>>)

(* An extraction that began comes to its end, whatever fails. *)
ExtractionEnds == pc \in {"info", "read"} ~> pc = "done"

(* README.md:9: gs "Extracts full system state (databases, certs, ..)". *)
EveryDatabaseKept ==
    pc = "done" /\ faults = 0 /\ changes = 0 =>
        \A i \in DOMAIN Dbs : src[Dbs[i]] # 0 =>
            \E k \in DOMAIN state : state[k] = Bytes(Dbs[i])
==============================================================================
