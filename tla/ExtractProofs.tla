--------------------------- MODULE ExtractProofs ---------------------------
(* Theorems about Extract, for any domains, paths and texts and any number of
   failed commands and changes of the source: nothing stale is kept, certificates
   are kept whole, and one failed command loses nothing that is there.        *)
EXTENDS Extract, FiniteSetTheorems, SequenceTheorems, TLAPS

Keys == Paths \cup {Path("db", "x-ui.db", ""), Path("config", "xray.json", "")}

(* What a read of the source since the extraction began may have printed. *)
Fresh(o) ==
    \E q \in Paths : \/ o = Out(q, Marker \o Newline)
                     \/ \E v \in start[q]..src[q] : o = Out(q, <<v>>)

Held ==
    /\ src \in [Paths -> Nat] /\ start \in [Paths -> Nat]
    /\ \A p \in Paths : start[p] <= src[p] /\ src[p] <= changes + 1
    /\ job \in {"state", "all"} /\ pc \in {"idle", "info", "read", "done"}
    /\ bad \in 0..faults /\ faults \in 0..MaxFaults /\ changes \in 0..MaxChanges
    /\ \A k \in DOMAIN state : k \in Keys /\ Fresh(state[k])
    /\ pc \in {"idle", "done"} => todo = <<>>
    /\ pc = "info" => listed = "no"

Asking == todo # <<>> /\ Head(todo) # <<>>

(* A file is asked for no oftener than the code does; of one that is there, every
   command before this one has failed.                                        *)
Tries ==
    /\ ~Asking => try = 1
    /\ Asking => /\ try \in 1..Attempts(Head(Head(todo)))
                 /\ src = start /\ src[Head(Head(todo))] # 0 => try <= bad + 1

(* The files of a certificate change together. *)
Together == \A p, q \in Certs : p[2] = q[2] => src[p] = src[q]

(* A loop over files of one kind, and what is left of a loop over s. *)
Only(g, kind) == \A i \in 1..Len(g) : Kind(g[i]) = kind

Rest(g, s) == /\ Len(g) <= Len(s)
              /\ \A i \in 1..Len(g) : g[i] = s[Len(s) - Len(g) + i]

(* What is left of the certificate loop number n when these names are kept. *)
CertRest(g, n, kept) ==
    \/ g = <<>>
    \/ \E i \in DOMAIN Domains :
          LET f == CertFiles(Domains[i])
          IN  \/ g = f
              \/ n = 1 /\ f[1] \in kept /\ g = <<f[2], f[3]>>
              \/ n = 1 /\ f[2] \in kept /\ g = <<f[3]>>

(* A loop keeps its place counted from the end: texts, databases, xray, certificates. *)
StateLoops ==
    \A n \in 1..Len(todo) :
        /\ Len(todo) - n = 0 => Only(todo[n], "text")
        /\ Len(todo) - n = 1 => Rest(todo[n], Dbs)
        /\ Len(todo) - n = 2 => Rest(todo[n], Xrays)
        /\ Len(todo) - n >= 3 => CertRest(todo[n], n, DOMAIN state)

Loops ==
    /\ todo \in Seq(Seq(Paths))
    /\ pc = "info" => job = "state" /\ \A n \in 1..Len(todo) : Only(todo[n], "info")
    /\ pc = "read" /\ job = "all" => \A n \in 1..Len(todo) : n = Len(todo) /\ Rest(todo[n], AllDbs)
    /\ pc = "read" /\ job = "state" => StateLoops

Settled(p) == Key(p) \in DOMAIN state /\ state[Key(p)] = Out(p, <<start[p]>>)

(* The extraction OneFaultTolerated is about. *)
Quiet == /\ pc \in {"read", "done"} /\ src = start /\ bad <= 1
         /\ listed = "yes" \/ job = "all"

(* Item i of s is still to come in the loop that has r others behind it. *)
Pending(i, s, r) == r < Len(todo) /\ i > Len(s) - Len(todo[Len(todo) - r])

AllKept == \A i \in 1..Len(AllDbs) : start[AllDbs[i]] # 0 =>
              Pending(i, AllDbs, 0) \/ Settled(AllDbs[i])

CertsKept == \A p \in Certs : start[p] # 0 =>
    \/ \E n \in 1..Len(todo) : Len(todo) - n >= 3 /\ p \in ToSet(todo[n])
    \/ Settled(p)

XrayKept == \A i \in 1..Len(Xrays) :
    start[Xrays[i]] # 0 /\ (\A j \in 1..(i - 1) : start[Xrays[j]] = 0) =>
        IF 2 < Len(todo) THEN Pending(i, Xrays, 2) ELSE Settled(Xrays[i])

DbKept == \A i \in 1..Len(Dbs) :
    start[Dbs[i]] # 0 /\ (\A j \in (i + 1)..Len(Dbs) : start[Dbs[j]] = 0) =>
        Pending(i, Dbs, 1) \/ Settled(Dbs[i])

(* Whatever is expected is kept already or still to come. *)
Progress == Quiet => /\ job = "all" => AllKept
                     /\ job = "state" => CertsKept /\ XrayKept /\ DbKept

IInv == Held /\ Tries /\ Together /\ Loops /\ CertificatesWhole /\ Progress
------------------------------------------------------------------------------
(* The kind of a path. *)
LEMMA KindOf == \A kind, where, part : Kind(Path(kind, where, part)) = kind
  BY DEF Kind, Path

(* The length of a list is told by its domain. *)
LEMMA SameLength == ASSUME NEW m \in Nat, NEW n \in Nat, 1..m = 1..n PROVE m = n
<1>1. \A i \in Int : 1 <= i /\ i <= m <=> 1 <= i /\ i <= n
  OBVIOUS
<1> QED
  BY <1>1

(* A list of places gives a list of files. *)
LEMMA ListOf ==
    ASSUME NEW s \in Seq(STRING), NEW kind, NEW g,
           g = [i \in DOMAIN s |-> Path(kind, s[i], "")]
    PROVE  g \in Seq(ToSet(g)) /\ Only(g, kind)
<1> DEFINE n == Len(s)
<1>1. n \in Nat /\ DOMAIN s = 1..n
  BY LenProperties
<1>2. DOMAIN g = 1..n /\ \A i \in 1..n : Kind(g[i]) = kind
  BY <1>1, KindOf
<1> HIDE DEF n
<1>3. g \in [1..n -> ToSet(g)]
  <2>1. \A i \in 1..n : g[i] \in ToSet(g)
    BY <1>2 DEF ToSet
  <2>2. g = [i \in 1..n |-> g[i]]
    BY <1>2
  <2> QED
    BY <2>1, <2>2, Zenon
<1>4. g \in Seq(ToSet(g)) /\ Len(g) = n
  <2>1. g \in Seq(ToSet(g))
    BY <1>1, <1>3, SeqDef
  <2>2. Len(g) \in Nat /\ DOMAIN g = 1..Len(g)
    BY <2>1, LenProperties
  <2> QED
    BY <1>1, <1>2, <2>1, <2>2, SameLength
<1> QED
  BY <1>2, <1>4 DEF Only

(* The lists of files, and the kind of what is in each. *)
LEMMA Lists ==
    /\ InfoItems \in Seq(Paths) /\ Only(InfoItems, "info")
    /\ Xrays \in Seq(Paths) /\ Only(Xrays, "xray")
    /\ Dbs \in Seq(Paths) /\ Only(Dbs, "db")
    /\ AllDbs \in Seq(Paths) /\ Only(AllDbs, "db")
<1> DEFINE More == [i \in DOMAIN MoreDbPaths |-> Path("db", MoreDbPaths[i], "")]
<1>1. InfoItems \in Seq(ToSet(InfoItems)) /\ Only(InfoItems, "info")
  BY ExtractAssumption, ListOf DEF InfoItems
<1>2. Xrays \in Seq(ToSet(Xrays)) /\ Only(Xrays, "xray")
  BY ExtractAssumption, ListOf DEF Xrays
<1>3. Dbs \in Seq(ToSet(Dbs)) /\ Only(Dbs, "db")
  BY ExtractAssumption, ListOf DEF Dbs
<1>4. More \in Seq(ToSet(More)) /\ Only(More, "db")
  BY ExtractAssumption, ListOf
<1>5. AllDbs = Dbs \o More
  BY DEF AllDbs
<1> HIDE DEF More
<1>6. AllDbs \in Seq(ToSet(Dbs) \cup ToSet(More))
  BY <1>3, <1>4, <1>5
<1>7. Len(AllDbs) = Len(Dbs) + Len(More) /\ Len(Dbs) \in Nat /\ Len(More) \in Nat
  BY <1>3, <1>4, <1>5
<1>8. \A i \in 1..Len(AllDbs) : AllDbs[i] = IF i <= Len(Dbs) THEN Dbs[i] ELSE More[i - Len(Dbs)]
  BY <1>3, <1>4, <1>5
<1>9. Only(AllDbs, "db")
  BY <1>3, <1>4, <1>7, <1>8 DEF Only
<1>10. \A i \in 1..Len(Dbs) : Dbs[i] \in ToSet(AllDbs)
  <2> TAKE i \in 1..Len(Dbs)
  <2>1. i \in 1..Len(AllDbs) /\ AllDbs[i] = Dbs[i]
    BY <1>7, <1>8
  <2>2. i \in DOMAIN AllDbs
    BY <1>6, <2>1
  <2> QED
    BY <2>1, <2>2 DEF ToSet
<1>11. AllDbs \in Seq(ToSet(AllDbs))
  BY <1>6 DEF ToSet
<1>12. Dbs \in Seq(ToSet(AllDbs))
  BY <1>3, <1>10
<1> QED
  BY <1>1, <1>2, <1>3, <1>9, <1>11, <1>12 DEF Paths

(* The files of a certificate: their kind, their domain, and no others. *)
LEMMA CertFact ==
    /\ \A i \in DOMAIN Domains : \A j \in 1..3 :
          /\ CertFiles(Domains[i])[j] \in Certs
          /\ CertFiles(Domains[i])[j][2] = Domains[i]
    /\ \A p \in Certs : Kind(p) = "cert" /\ p \in Paths /\
          \E i \in DOMAIN Domains, j \in 1..3 : p = CertFiles(Domains[i])[j]
<1>1. \A d : DOMAIN CertFiles(d) = 1..3
  BY DEF CertFiles
<1>2. ASSUME NEW i \in DOMAIN Domains, NEW j \in 1..3
      PROVE  CertFiles(Domains[i])[j] \in Certs /\ CertFiles(Domains[i])[j][2] = Domains[i]
  <2>1. CertFiles(Domains[i])[j] \in ToSet(CertFiles(Domains[i]))
    BY <1>1 DEF ToSet
  <2>2. CertFiles(Domains[i])[j][2] = Domains[i]
    BY DEF CertFiles, Path
  <2> QED
    BY <2>1, <2>2 DEF Certs
<1>3. ASSUME NEW p \in Certs
      PROVE  Kind(p) = "cert" /\ \E i \in DOMAIN Domains, j \in 1..3 : p = CertFiles(Domains[i])[j]
  <2>1. PICK i \in DOMAIN Domains : p \in ToSet(CertFiles(Domains[i]))
    BY DEF Certs
  <2>2. PICK j \in 1..3 : p = CertFiles(Domains[i])[j]
    BY <1>1, <2>1 DEF ToSet
  <2>3. Kind(p) = "cert"
    BY <2>2 DEF CertFiles, Path, Kind
  <2> QED
    BY <2>2, <2>3
<1> QED
  BY <1>2, <1>3 DEF Paths

(* The texts can be put in an order. *)
LEMMA TextFact ==
    /\ IsFiniteSet(TextFiles) /\ Cardinality(TextFiles) \in Nat
    /\ \A p \in TextFiles : p \in Paths /\ Kind(p) = "text"
<1> DEFINE f == [t \in Texts |-> Path("text", t, "")]
<1>1. f \in Surjection(Texts, TextFiles)
  BY DEF Surjection, TextFiles
<1>2. IsFiniteSet(TextFiles)
  BY <1>1, FS_Surjection, ExtractAssumption
<1>3. \A p \in TextFiles : Kind(p) = "text"
  BY KindOf DEF TextFiles
<1> QED
  BY <1>2, <1>3, FS_CardinalityType DEF Paths
(* What is left of a list once its head is dealt with. *)
LEMMA TailFact ==
    ASSUME NEW S, NEW s \in Seq(S), s # <<>>
    PROVE  /\ Len(s) \in Nat \ {0} /\ Head(s) = s[1] /\ s[1] \in S
           /\ Tail(s) \in Seq(S) /\ Len(Tail(s)) = Len(s) - 1
           /\ \A i \in 1..(Len(s) - 1) : Tail(s)[i] = s[i + 1]
  OBVIOUS

(* A loop that goes on: it is shorter by its head, the others are as they were. *)
LEMMA ContinueFact ==
    ASSUME NEW S, NEW t \in Seq(Seq(S)), t # <<>>, Head(t) # <<>>,
           NEW u, u = <<Tail(Head(t))>> \o Tail(t)
    PROVE  /\ u \in Seq(Seq(S)) /\ Len(u) = Len(t)
           /\ u[1] = Tail(t[1]) /\ \A n \in 2..Len(t) : u[n] = t[n]
<1> DEFINE a == Tail(Head(t))
           b == Tail(t)
<1>1. Head(t) \in Seq(S) /\ Head(t) = t[1]
  BY TailFact
<1>2. a \in Seq(S)
  BY <1>1
<1>3. /\ b \in Seq(Seq(S)) /\ Len(b) = Len(t) - 1 /\ Len(t) \in Nat \ {0}
      /\ \A i \in 1..(Len(t) - 1) : b[i] = t[i + 1]
  BY TailFact
<1> HIDE DEF a, b
<1>4. u = <<a>> \o b
  BY DEF a, b
<1>5. <<a>> \in Seq(Seq(S)) /\ Len(<<a>>) = 1 /\ <<a>>[1] = a
  BY <1>2
<1>6. u \in Seq(Seq(S)) /\ Len(u) = Len(t)
  BY <1>3, <1>4, <1>5
<1>7. u[1] = a
  BY <1>3, <1>4, <1>5
<1>8. ASSUME NEW n \in 2..Len(t) PROVE u[n] = t[n]
  <2>1. n - 1 \in 1..(Len(t) - 1) /\ (n - 1) + 1 = n
    BY <1>3
  <2>2. u[n] = IF n <= 1 THEN <<a>>[n] ELSE b[n - 1]
    BY <1>3, <1>4, <1>5, ConcatProperties
  <2>3. ~(n <= 1)
    OBVIOUS
  <2> QED
    BY <1>3, <2>1, <2>2, <2>3
<1> QED
  BY <1>1, <1>6, <1>7, <1>8 DEF a

(* The head of what is left of a loop, and what is left behind it. *)
LEMMA RestFact ==
    ASSUME NEW S, NEW g \in Seq(S), NEW s \in Seq(S), g # <<>>, Rest(g, s)
    PROVE  /\ Len(s) - Len(g) + 1 \in 1..Len(s) /\ g[1] = s[Len(s) - Len(g) + 1]
           /\ Rest(Tail(g), s)
<1>1. /\ Len(g) \in Nat \ {0} /\ Len(Tail(g)) = Len(g) - 1
      /\ \A i \in 1..(Len(g) - 1) : Tail(g)[i] = g[i + 1]
  BY TailFact
<1>2. Len(s) \in Nat
  OBVIOUS
<1>3. g[1] = s[Len(s) - Len(g) + 1]
  BY <1>1 DEF Rest
<1>4. ASSUME NEW i \in 1..Len(Tail(g)) PROVE Tail(g)[i] = s[Len(s) - Len(Tail(g)) + i]
  <2>1. i + 1 \in 1..Len(g) /\ Tail(g)[i] = g[i + 1]
    BY <1>1
  <2>2. g[i + 1] = s[Len(s) - Len(g) + (i + 1)]
    BY <2>1 DEF Rest
  <2>3. Len(s) - Len(g) + (i + 1) = Len(s) - Len(Tail(g)) + i
    BY <1>1, <1>2
  <2> QED
    BY <2>1, <2>2, <2>3
<1> QED
  BY <1>1, <1>2, <1>3, <1>4 DEF Rest

(* What is left of a certificate loop. *)
LEMMA CertRestFact ==
    ASSUME NEW g, NEW n, NEW kept, CertRest(g, n, kept), g # <<>>
    PROVE  /\ g[1] \in Certs
           /\ \A p \in ToSet(g) : p \in Certs /\ p[2] = g[1][2]
           /\ g[1] \in kept => CertRest(Tail(g), 1, kept)
<1>1. PICK i \in DOMAIN Domains :
        LET f == CertFiles(Domains[i])
        IN  \/ g = f
            \/ n = 1 /\ f[1] \in kept /\ g = <<f[2], f[3]>>
            \/ n = 1 /\ f[2] \in kept /\ g = <<f[3]>>
  BY DEF CertRest
<1> DEFINE f == CertFiles(Domains[i])
<1>2. f = <<f[1], f[2], f[3]>>
  BY DEF CertFiles
<1>3. /\ f[1] \in Certs /\ f[2] \in Certs /\ f[3] \in Certs
      /\ f[1][2] = Domains[i] /\ f[2][2] = Domains[i] /\ f[3][2] = Domains[i]
  BY CertFact
<1>4. g = f \/ g = <<f[2], f[3]>> \/ g = <<f[3]>>
  BY <1>1
<1>5. \A h : (g[1] \in kept /\ h = Tail(g)) => 
             \/ h = <<>> 
             \/ h = <<f[2], f[3]>> /\ f[1] \in kept
             \/ h = <<f[3]>> /\ f[2] \in kept
  <2>1. CASE g = f
    <3>1. Tail(f) = <<f[2], f[3]>>
      BY DEF CertFiles
    <3> QED
      BY <2>1, <3>1
  <2>2. CASE g = <<f[2], f[3]>>
    <3> HIDE DEF f
    <3>1. Tail(<<f[2], f[3]>>) = <<f[3]>> /\ g[1] = f[2]
      BY <2>2
    <3> QED
      BY <2>2, <3>1
  <2>3. CASE g = <<f[3]>>
    <3> HIDE DEF f
    <3>1. Tail(<<f[3]>>) = <<>>
      OBVIOUS
    <3> QED
      BY <2>3, <3>1
  <2> QED
    BY <1>4, <2>1, <2>2, <2>3
<1>6. g[1] \in kept => CertRest(Tail(g), 1, kept)
  BY <1>5 DEF CertRest
<1> HIDE DEF f
<1>7. \A p \in ToSet(g) : p \in {f[1], f[2], f[3]}
  <2>1. CASE g = f
    <3>1. g = <<f[1], f[2], f[3]>>
      BY <1>2, <2>1
    <3> QED
      BY <3>1 DEF ToSet
  <2>2. CASE g = <<f[2], f[3]>>
    BY <2>2 DEF ToSet
  <2>3. CASE g = <<f[3]>>
    BY <2>3 DEF ToSet
  <2> QED
    BY <1>4, <2>1, <2>2, <2>3
<1>8. g[1] \in {f[1], f[2], f[3]}
  BY <1>4
<1> QED
  BY <1>3, <1>6, <1>7, <1>8

(* A name that is kept stays kept, so what is left of a certificate loop stays
   right when the loop moves to the front.                                    *)
LEMMA CertRestKept ==
    ASSUME NEW g, NEW n, NEW m, NEW kept, NEW more,
           CertRest(g, n, kept), m = n \/ n # 1, kept \subseteq more
    PROVE  CertRest(g, m, more)
  BY DEF CertRest

(* Which file is asked for, by the place of its loop. *)
LEMMA HeadFact ==
    ASSUME Loops, Asking, pc \in {"info", "read"}, job \in {"state", "all"},
           NEW p, p = Head(Head(todo))
    PROVE  LET g == todo[1]
               N == Len(todo)
           IN  /\ N \in Nat \ {0} /\ g \in Seq(Paths) /\ g # <<>> /\ p = g[1] /\ p \in Paths
               /\ Len(g) \in Nat \ {0}
               /\ pc = "info" => Kind(p) = "info" /\ Only(Tail(g), "info")
               /\ pc = "read" /\ job = "all" =>
                     /\ Kind(p) = "db" /\ N = 1 /\ Rest(g, AllDbs)
                     /\ p = AllDbs[Len(AllDbs) - Len(g) + 1] /\ Rest(Tail(g), AllDbs)
               /\ pc = "read" /\ job = "state" =>
                     /\ N = 1 => Kind(p) = "text" /\ Only(Tail(g), "text")
                     /\ N = 2 => /\ Kind(p) = "db" /\ Rest(g, Dbs)
                                 /\ p = Dbs[Len(Dbs) - Len(g) + 1] /\ Rest(Tail(g), Dbs)
                     /\ N = 3 => /\ Kind(p) = "xray" /\ Rest(g, Xrays)
                                 /\ p = Xrays[Len(Xrays) - Len(g) + 1] /\ Rest(Tail(g), Xrays)
                     /\ N > 3 => /\ Kind(p) = "cert" /\ p \in Certs
                                 /\ \A q \in ToSet(g) : q \in Certs /\ q[2] = p[2]
                                 /\ \A kept : p \in kept /\ DOMAIN state \subseteq kept => CertRest(Tail(g), 1, kept)
<1> DEFINE g == todo[1]
           N == Len(todo)
<1>1. todo \in Seq(Seq(Paths)) /\ todo # <<>> /\ Head(todo) # <<>>
  BY DEF Loops, Asking
<1>2. N \in Nat \ {0} /\ Head(todo) = g /\ g \in Seq(Paths)
  BY <1>1, TailFact
<1>3. /\ Len(g) \in Nat \ {0} /\ p = g[1] /\ p \in Paths /\ g # <<>>
      /\ Tail(g) \in Seq(Paths) /\ Len(Tail(g)) = Len(g) - 1
      /\ \A i \in 1..(Len(g) - 1) : Tail(g)[i] = g[i + 1]
  BY <1>1, <1>2, TailFact
<1>4. 1 \in 1..N
  BY <1>2
<1> HIDE DEF g, N
<1>5. ASSUME NEW kind, Only(g, kind) PROVE Kind(p) = kind /\ Only(Tail(g), kind)
  <2>1. Kind(p) = kind
    BY <1>3, <1>5 DEF Only
  <2>2. ASSUME NEW i \in 1..Len(Tail(g)) PROVE Kind(Tail(g)[i]) = kind
    <3>1. i + 1 \in 1..Len(g) /\ Tail(g)[i] = g[i + 1]
      BY <1>3
    <3> QED
      BY <1>5, <3>1 DEF Only
  <2> QED
    BY <2>1, <2>2 DEF Only
<1>6. ASSUME NEW s \in Seq(Paths), NEW kind, Only(s, kind), Rest(g, s)
      PROVE  Kind(p) = kind /\ p = s[Len(s) - Len(g) + 1] /\ Rest(Tail(g), s)
  <2>1. /\ Len(s) - Len(g) + 1 \in 1..Len(s) /\ g[1] = s[Len(s) - Len(g) + 1]
        /\ Rest(Tail(g), s)
    BY <1>2, <1>3, <1>6, RestFact
  <2> QED
    BY <1>3, <1>6, <2>1 DEF Only
<1>7. pc = "info" => Kind(p) = "info" /\ Only(Tail(g), "info")
  <2> HAVE pc = "info"
  <2>1. Only(g, "info")
    BY <1>4 DEF Loops, g, N
  <2> QED
    BY <1>5, <2>1
<1>8. pc = "read" /\ job = "all" =>
         /\ Kind(p) = "db" /\ N = 1 /\ Rest(g, AllDbs)
         /\ p = AllDbs[Len(AllDbs) - Len(g) + 1] /\ Rest(Tail(g), AllDbs)
  <2> HAVE pc = "read" /\ job = "all"
  <2>1. N = 1 /\ Rest(g, AllDbs)
    BY <1>4 DEF Loops, g, N
  <2> QED
    BY <1>6, <2>1, Lists
<1>9. pc = "read" /\ job = "state" =>
         /\ N - 1 = 0 => Only(g, "text")
         /\ N - 1 = 1 => Rest(g, Dbs)
         /\ N - 1 = 2 => Rest(g, Xrays)
         /\ N - 1 >= 3 => CertRest(g, 1, DOMAIN state)
  BY <1>4 DEF Loops, StateLoops, g, N
<1>10. pc = "read" /\ job = "state" /\ N = 1 => Kind(p) = "text" /\ Only(Tail(g), "text")
  BY <1>2, <1>5, <1>9
<1>11. pc = "read" /\ job = "state" /\ N = 2 =>
          /\ Kind(p) = "db" /\ Rest(g, Dbs)
          /\ p = Dbs[Len(Dbs) - Len(g) + 1] /\ Rest(Tail(g), Dbs)
  BY <1>2, <1>6, <1>9, Lists
<1>12. pc = "read" /\ job = "state" /\ N = 3 =>
          /\ Kind(p) = "xray" /\ Rest(g, Xrays)
          /\ p = Xrays[Len(Xrays) - Len(g) + 1] /\ Rest(Tail(g), Xrays)
  BY <1>2, <1>6, <1>9, Lists
<1>13. pc = "read" /\ job = "state" /\ N > 3 =>
          /\ Kind(p) = "cert" /\ p \in Certs
          /\ \A q \in ToSet(g) : q \in Certs /\ q[2] = p[2]
          /\ \A kept : p \in kept /\ DOMAIN state \subseteq kept => CertRest(Tail(g), 1, kept)
  <2> HAVE pc = "read" /\ job = "state" /\ N > 3
  <2>1. CertRest(g, 1, DOMAIN state)
    BY <1>2, <1>9
  <2>2. /\ g[1] \in Certs
        /\ \A q \in ToSet(g) : q \in Certs /\ q[2] = g[1][2]
    BY <1>3, <2>1, CertRestFact
  <2>3. ASSUME NEW kept, p \in kept, DOMAIN state \subseteq kept PROVE CertRest(Tail(g), 1, kept)
    <3>1. CertRest(g, 1, kept)
      BY <2>1, <2>3, CertRestKept
    <3> QED
      BY <1>3, <2>3, <3>1, CertRestFact
  <2> QED
    BY <1>3, <2>2, <2>3, CertFact
<1> QED
  BY <1>2, <1>3, <1>7, <1>8, <1>10, <1>11, <1>12, <1>13 DEF g, N

(* Leaving a loop. *)
LEMMA LoopsLeave ==
    ASSUME Loops, todo # <<>>, Leave, UNCHANGED <<pc, job>>, DOMAIN state \subseteq DOMAIN state'
    PROVE  Loops'
<1>1. /\ todo \in Seq(Seq(Paths)) /\ todo' = Tail(todo)
      /\ Len(todo) \in Nat \ {0} /\ todo' \in Seq(Seq(Paths)) /\ Len(todo') = Len(todo) - 1
      /\ \A i \in 1..(Len(todo) - 1) : todo'[i] = todo[i + 1]
  BY TailFact DEF Loops, Leave
<1>2. ASSUME NEW n \in 1..Len(todo')
      PROVE  n + 1 \in 1..Len(todo) /\ todo'[n] = todo[n + 1] /\ n + 1 # 1
             /\ Len(todo') - n = Len(todo) - (n + 1)
  BY <1>1
<1>3. pc' = "info" => job' = "state" /\ \A n \in 1..Len(todo') : Only(todo'[n], "info")
  <2> HAVE pc' = "info"
  <2>1. job' = "state" /\ \A n \in 1..Len(todo) : Only(todo[n], "info")
    BY DEF Loops
  <2>2. ASSUME NEW n \in 1..Len(todo') PROVE Only(todo'[n], "info")
    BY <1>2, <2>1
  <2> QED
    BY <2>1, <2>2
<1>4. pc' = "read" /\ job' = "all" => \A n \in 1..Len(todo') : n = Len(todo') /\ Rest(todo'[n], AllDbs)
  <2> HAVE pc' = "read" /\ job' = "all"
  <2>1. \A n \in 1..Len(todo) : n = Len(todo) /\ Rest(todo[n], AllDbs)
    BY DEF Loops
  <2> TAKE n \in 1..Len(todo')
  <2>2. Rest(todo[n + 1], AllDbs) /\ n + 1 = Len(todo) /\ todo'[n] = todo[n + 1]
    BY <1>2, <2>1
  <2>3. n = Len(todo')
    <3>1. Len(todo') - n = Len(todo) - (n + 1) /\ Len(todo') \in Nat /\ Len(todo) \in Nat
      BY <1>1, <1>2
    <3> QED
      BY <2>2, <3>1
  <2> QED
    BY <2>2, <2>3
<1>5. pc' = "read" /\ job' = "state" => StateLoops'
  <2> HAVE pc' = "read" /\ job' = "state"
  <2>1. StateLoops
    BY DEF Loops
  <2>2. ASSUME NEW n \in 1..Len(todo')
        PROVE  /\ Len(todo') - n = 0 => Only(todo'[n], "text")
               /\ Len(todo') - n = 1 => Rest(todo'[n], Dbs)
               /\ Len(todo') - n = 2 => Rest(todo'[n], Xrays)
               /\ Len(todo') - n >= 3 => CertRest(todo'[n], n, DOMAIN state')
    <3>1. /\ Len(todo') - n = 0 => Only(todo'[n], "text")
          /\ Len(todo') - n = 1 => Rest(todo'[n], Dbs)
          /\ Len(todo') - n = 2 => Rest(todo'[n], Xrays)
          /\ Len(todo') - n >= 3 => CertRest(todo'[n], n + 1, DOMAIN state)
      BY <1>2, <2>1 DEF StateLoops
    <3> QED
      BY <1>2, <3>1, CertRestKept
  <2> QED
    BY <2>2 DEF StateLoops
<1> QED
  BY <1>1, <1>3, <1>4, <1>5 DEF Loops

(* Going on with a loop, the file just read being kept if it is a certificate's. *)
LEMMA LoopsContinue ==
    ASSUME Loops, Asking, Continue, UNCHANGED <<pc, job>>, DOMAIN state \subseteq DOMAIN state',
           pc \in {"info", "read"}, job \in {"state", "all"},
           NEW p, p = Head(Head(todo)), Kind(p) = "cert" => p \in DOMAIN state'
    PROVE  Loops'
<1>1. todo \in Seq(Seq(Paths)) /\ todo # <<>> /\ Head(todo) # <<>>
  BY DEF Loops, Asking
<1>2. /\ todo' \in Seq(Seq(Paths)) /\ Len(todo') = Len(todo)
      /\ todo'[1] = Tail(todo[1]) /\ \A n \in 2..Len(todo) : todo'[n] = todo[n]
  BY <1>1, ContinueFact DEF Continue
<1>3. Len(todo) \in Nat \ {0}
  BY <1>1, TailFact
<1>4. \A n \in 1..Len(todo) : n = 1 \/ n \in 2..Len(todo)
  BY <1>3
<1>5. pc' = "info" => job' = "state" /\ \A n \in 1..Len(todo') : Only(todo'[n], "info")
  <2> HAVE pc' = "info"
  <2>1. job' = "state" /\ \A n \in 1..Len(todo) : Only(todo[n], "info")
    BY DEF Loops
  <2>2. Only(Tail(todo[1]), "info")
    BY HeadFact
  <2> QED
    BY <1>2, <1>4, <2>1, <2>2
<1>6. pc' = "read" /\ job' = "all" => \A n \in 1..Len(todo') : n = Len(todo') /\ Rest(todo'[n], AllDbs)
  <2> HAVE pc' = "read" /\ job' = "all"
  <2>1. Len(todo) = 1 /\ Rest(Tail(todo[1]), AllDbs)
    BY HeadFact
  <2>2. Rest(todo'[1], AllDbs) /\ Len(todo') = 1
    BY <1>2, <2>1
  <2>3. \A n \in 1..Len(todo') : n = 1
    BY <2>2
  <2> QED
    BY <2>2, <2>3
<1>7. pc' = "read" /\ job' = "state" => StateLoops'
  <2> HAVE pc' = "read" /\ job' = "state"
  <2>1. StateLoops
    BY DEF Loops
  <2>2. ASSUME NEW n \in 2..Len(todo)
        PROVE  /\ Len(todo') - n = 0 => Only(todo'[n], "text")
               /\ Len(todo') - n = 1 => Rest(todo'[n], Dbs)
               /\ Len(todo') - n = 2 => Rest(todo'[n], Xrays)
               /\ Len(todo') - n >= 3 => CertRest(todo'[n], n, DOMAIN state')
    <3>1. n \in 1..Len(todo) /\ todo'[n] = todo[n]
      BY <1>2, <1>3
    <3>2. Len(todo) - n >= 3 => CertRest(todo[n], n, DOMAIN state')
      BY <2>1, <3>1, CertRestKept DEF StateLoops
    <3> QED
      BY <1>2, <2>1, <3>1, <3>2 DEF StateLoops
  <2>3. /\ Len(todo) = 1 => Only(todo'[1], "text")
        /\ Len(todo) = 2 => Rest(todo'[1], Dbs)
        /\ Len(todo) = 3 => Rest(todo'[1], Xrays)
        /\ Len(todo) > 3 => CertRest(todo'[1], 1, DOMAIN state')
    BY <1>2, HeadFact
  <2>4. /\ Len(todo') - 1 = 0 => Only(todo'[1], "text")
        /\ Len(todo') - 1 = 1 => Rest(todo'[1], Dbs)
        /\ Len(todo') - 1 = 2 => Rest(todo'[1], Xrays)
        /\ Len(todo') - 1 >= 3 => CertRest(todo'[1], 1, DOMAIN state')
    BY <1>2, <1>3, <2>3
  <2>5. \A n \in 1..Len(todo') : n = 1 \/ n \in 2..Len(todo)
    BY <1>2, <1>4
  <2> QED
    BY <2>2, <2>4, <2>5 DEF StateLoops
<1> QED
  BY <1>2, <1>5, <1>6, <1>7 DEF Loops

------------------------------------------------------------------------------
(* What a command for file p may lead to. *)
Failed(p)  == (src[p] = 0 /\ Answered) \/ Lost
IsText(p)  == Kind(p) \in {"info", "text"}
Retried(p) == /\ ~IsText(p) /\ try < Attempts(p) /\ Failed(p)
              /\ try' = try + 1 /\ UNCHANGED <<todo, state>>
Kept(p, b) == /\ Answered /\ Keep(p, b) /\ Fresh(b)
              /\ ~IsText(p) => b = Bytes(p) /\ src[p] # 0
Skipped(p) == Skip(p) /\ (~IsText(p) => try >= Attempts(p) /\ Failed(p)) /\ (IsText(p) => Lost)

(* The kinds of files. *)
LEMMA Kinds == \A p \in Paths : Kind(p) \in {"info", "cert", "xray", "db", "text"}
<1> SUFFICES ASSUME NEW p \in Paths PROVE Kind(p) \in {"info", "cert", "xray", "db", "text"}
  OBVIOUS
<1>1. ASSUME NEW s \in Seq(Paths), NEW kind, Only(s, kind), p \in ToSet(s) PROVE Kind(p) = kind
  <2>1. PICK i \in DOMAIN s : p = s[i]
    BY <1>1 DEF ToSet
  <2>2. i \in 1..Len(s)
    OBVIOUS
  <2> QED
    BY <1>1, <2>1, <2>2 DEF Only
<1> QED
  BY <1>1, Lists, CertFact, TextFact DEF Paths

(* The name of a file tells its kind, and the name of a certificate the file. *)
LEMMA KeyFact ==
    ASSUME NEW p \in Paths
    PROVE  /\ Key(p) \in Keys
           /\ Kind(Key(p)) = IF Kind(p) = "xray" /\ job # "all" THEN "config" ELSE Kind(p)
           /\ Kind(p) = "cert" \/ job = "all" => Key(p) = p
           /\ job # "all" /\ Kind(p) = "db" => Key(p) = Path("db", "x-ui.db", "")
           /\ job # "all" /\ Kind(p) = "xray" => Key(p) = Path("config", "xray.json", "")
<1>1. CASE job = "all"
  BY <1>1 DEF Key, Keys
<1>2. CASE job # "all" /\ Kind(p) = "db"
  BY <1>2, KindOf DEF Key, Keys
<1>3. CASE job # "all" /\ Kind(p) = "xray"
  BY <1>3, KindOf DEF Key, Keys
<1>4. CASE job # "all" /\ Kind(p) \notin {"db", "xray"}
  BY <1>4 DEF Key, Keys
<1> QED
  BY <1>1, <1>2, <1>3, <1>4

(* What keeping a file does to the names and to what is under them. *)
LEMMA StoreFact ==
    ASSUME NEW p, NEW b, Store(p, b)
    PROVE  /\ DOMAIN state' = DOMAIN state \cup {Key(p)} /\ state'[Key(p)] = b
           /\ \A k \in DOMAIN state : k # Key(p) => state'[k] = state[k]
  BY DEF Store

(* What reading does: a command that failed is followed by another, or the file
   is kept, or given up.                                                      *)
LEMMA ReadFact ==
    ASSUME Held, Loops, Read, NEW p, p = Head(Head(todo))
    PROVE  /\ Asking /\ p \in Paths /\ pc \in {"info", "read"} /\ job \in {"state", "all"}
           /\ UNCHANGED <<src, start, job, pc, listed, changes>>
           /\ Retried(p) \/ (\E b : Kept(p, b)) \/ Skipped(p)
<1>1. /\ Asking /\ pc \in {"info", "read"} /\ job \in {"state", "all"}
      /\ UNCHANGED <<src, start, job, pc, listed, changes>>
      /\ ReadFile(p) \/ ReadText(p)
  BY DEF Read, Asking, Held
<1>2. p \in Paths
  BY <1>1, HeadFact
<1>3. Fresh(Bytes(p)) /\ Fresh(TextOut(p))
  <2>1. start[p] <= src[p] /\ start[p] \in Nat /\ src[p] \in Nat
    BY <1>2 DEF Held
  <2>2. src[p] \in start[p]..src[p]
    BY <2>1
  <2>3. Fresh(Bytes(p)) /\ Fresh(Out(p, Marker \o Newline))
    BY <1>2, <2>2, Zenon DEF Fresh, Bytes
  <2> QED
    BY <2>3 DEF TextOut
<1>4. CASE ReadFile(p)
  <2>1. ~IsText(p)
    BY <1>4 DEF ReadFile, IsText
  <2>2. CASE src[p] # 0 /\ Answered /\ Keep(p, Bytes(p))
    <3>1. Kept(p, Bytes(p))
      BY <1>3, <2>1, <2>2 DEF Kept
    <3> QED
      BY <1>1, <1>2, <3>1
  <2>3. CASE Failed(p) /\ try < Attempts(p) /\ try' = try + 1 /\ UNCHANGED <<todo, state>>
    BY <1>1, <1>2, <2>1, <2>3 DEF Retried
  <2>4. CASE Failed(p) /\ try >= Attempts(p) /\ Skip(p)
    BY <1>1, <1>2, <2>1, <2>4 DEF Skipped
  <2> QED
    BY <1>4, <2>2, <2>3, <2>4 DEF ReadFile, Failed
<1>5. CASE ReadText(p)
  <2>1. IsText(p)
    BY <1>5 DEF ReadText, IsText
  <2>2. CASE Answered /\ Keep(p, TextOut(p))
    <3>1. Kept(p, TextOut(p))
      BY <1>3, <2>1, <2>2 DEF Kept
    <3> QED
      BY <1>1, <1>2, <3>1
  <2>3. CASE Lost /\ Skip(p)
    BY <1>1, <1>2, <2>1, <2>3 DEF Skipped
  <2> QED
    BY <1>5, <2>2, <2>3 DEF ReadText
<1> QED
  BY <1>1, <1>4, <1>5

(* Reading only adds names, among them those of the certificate files it passes. *)
LEMMA NamesGrow ==
    ASSUME NEW p \in Paths, Retried(p) \/ (\E b : Kept(p, b)) \/ Skipped(p)
    PROVE  DOMAIN state \subseteq DOMAIN state'
<1>1. CASE Retried(p)
  BY <1>1 DEF Retried
<1>2. ASSUME NEW b, Kept(p, b) PROVE DOMAIN state \subseteq DOMAIN state'
  BY <1>2, StoreFact DEF Kept, Keep
<1>3. CASE Skipped(p)
  BY <1>3 DEF Skipped, Skip
<1> QED
  BY <1>1, <1>2, <1>3

(* Reading keeps the loops in shape. *)
LEMMA LoopsRead == Held /\ Loops /\ Read => Loops'
<1> SUFFICES ASSUME Held, Loops, Read PROVE Loops'
  OBVIOUS
<1>1. PICK p : p = Head(Head(todo))
  OBVIOUS
<1>2. /\ Asking /\ p \in Paths /\ pc \in {"info", "read"} /\ job \in {"state", "all"}
      /\ UNCHANGED <<pc, job>>
      /\ Retried(p) \/ (\E b : Kept(p, b)) \/ Skipped(p)
  BY <1>1, ReadFact
<1>3. DOMAIN state \subseteq DOMAIN state' /\ todo # <<>>
  BY <1>2, NamesGrow DEF Asking
<1>4. CASE Retried(p)
  BY <1>2, <1>4 DEF Retried, Loops, StateLoops
<1>5. ASSUME NEW b, Kept(p, b) PROVE Loops'
  <2>1. CASE Leave
    BY <1>2, <1>3, <2>1, LoopsLeave
  <2>2. CASE Continue
    <3>1. Kind(p) = "cert" => p \in DOMAIN state'
      BY <1>2, <1>5, KeyFact, StoreFact DEF Kept, Keep
    <3> QED
      BY <1>1, <1>2, <1>3, <2>2, <3>1, LoopsContinue
  <2> QED
    BY <1>5, <2>1, <2>2 DEF Kept, Keep
<1>6. CASE Skipped(p)
  <2>1. CASE Kind(p) = "cert"
    <3>1. Leave
      BY <1>6, <2>1 DEF Skipped, Skip
    <3> QED
      BY <1>2, <1>3, <3>1, LoopsLeave
  <2>2. CASE Kind(p) # "cert"
    <3>1. Continue
      BY <1>6, <2>2 DEF Skipped, Skip
    <3> QED
      BY <1>1, <1>2, <1>3, <2>2, <3>1, LoopsContinue
  <2> QED
    BY <2>1, <2>2
<1> QED
  BY <1>2, <1>4, <1>5, <1>6

------------------------------------------------------------------------------
(* A change of the source leaves it different from what it was at the start. *)
LEMMA ChangeFact ==
    ASSUME Held, NEW files, files \cap Paths # {}, Change(files)
    PROVE  /\ src' \in [Paths -> Nat] /\ src' # start'
           /\ \A p \in Paths : start'[p] <= src'[p] /\ src[p] <= src'[p] /\ src'[p] <= changes' + 1
           /\ \A p \in Paths : src'[p] = IF p \in files THEN src[p] + 1 ELSE src[p]
           /\ changes' \in 0..MaxChanges
           /\ UNCHANGED <<start, job, pc, todo, try, state, listed, bad, faults>>
<1>1. PICK f \in Paths : f \in files
  OBVIOUS
<1>2. /\ src \in [Paths -> Nat] /\ start \in [Paths -> Nat] /\ changes \in Nat
      /\ \A p \in Paths : start[p] <= src[p] /\ src[p] <= changes + 1
  BY DEF Held
<1>3. /\ src' = [p \in Paths |-> IF p \in files THEN src[p] + 1 ELSE src[p]]
      /\ changes' = changes + 1 /\ changes < MaxChanges
      /\ UNCHANGED <<start, job, pc, todo, try, state, listed, bad, faults>>
  BY DEF Change
<1>4. \A p \in Paths : src'[p] = IF p \in files THEN src[p] + 1 ELSE src[p]
  BY <1>3
<1>5. ASSUME NEW p \in Paths
      PROVE  /\ start'[p] <= src'[p] /\ src[p] <= src'[p] /\ src'[p] <= changes' + 1
             /\ src'[p] \in Nat
  <2>1. src[p] \in Nat /\ start[p] \in Nat /\ start[p] <= src[p] /\ src[p] <= changes + 1
    BY <1>2
  <2> QED
    BY <1>2, <1>3, <1>4, <2>1
<1>6. src'[f] # start'[f]
  <2>1. src[f] \in Nat /\ start[f] \in Nat /\ start[f] <= src[f]
    BY <1>1, <1>2
  <2> QED
    BY <1>1, <1>3, <1>4, <2>1
<1>7. changes' \in 0..MaxChanges
  BY <1>2, <1>3, ExtractAssumption
<1>8. src' \in [Paths -> Nat]
  BY <1>3, <1>5
<1> QED
  BY <1>3, <1>4, <1>5, <1>6, <1>7, <1>8

(* Whoever uses the source changes one of its files. *)
LEMMA UseFact ==
    ASSUME Renew \/ WriteFile
    PROVE  \E files : files \cap Paths # {} /\ Change(files)
<1>1. CASE Renew
  <2>1. PICK i \in DOMAIN Domains : Change(ToSet(CertFiles(Domains[i])))
    BY <1>1 DEF Renew
  <2>2. CertFiles(Domains[i])[1] \in ToSet(CertFiles(Domains[i]))
    BY DEF ToSet, CertFiles
  <2>3. CertFiles(Domains[i])[1] \in Paths
    BY CertFact
  <2> QED
    BY <2>1, <2>2, <2>3
<1>2. CASE WriteFile
  BY <1>2 DEF WriteFile
<1> QED
  BY <1>1, <1>2

(* The texts in any order, and the loops of ExtractSystemState with them. *)
LEMMA ListFact ==
    ASSUME List
    PROVE  /\ pc = "info" /\ pc' = "read" /\ try' = 1 /\ UNCHANGED <<src, start, job, state, changes>>
           /\ (Answered /\ listed' = "yes") \/ (Lost /\ UNCHANGED listed)
           /\ \E texts \in Seq(Paths) :
                 /\ Only(texts, "text")
                 /\ \/ listed' = "yes" /\ todo' = CertLoops \o <<Xrays, Dbs, texts>>
                    \/ UNCHANGED listed /\ todo' = <<Xrays, Dbs, texts>>
<1>1. /\ pc = "info" /\ pc' = "read" /\ try' = 1 /\ UNCHANGED <<src, start, job, state, changes>>
      /\ (Answered /\ listed' = "yes") \/ (Lost /\ UNCHANGED listed)
  BY DEF List
<1>2. PICK texts \in [1..Cardinality(TextFiles) -> TextFiles] :
          \/ Answered /\ listed' = "yes" /\ todo' = CertLoops \o <<Xrays, Dbs, texts>>
          \/ Lost /\ UNCHANGED listed /\ todo' = <<Xrays, Dbs, texts>>
  BY DEF List
<1> DEFINE n == Cardinality(TextFiles)
<1>3. n \in Nat /\ \A p \in TextFiles : p \in Paths /\ Kind(p) = "text"
  BY TextFact
<1> HIDE DEF n
<1>4. texts \in [1..n -> TextFiles]
  BY <1>2 DEF n
<1>5. texts \in Seq(TextFiles) /\ texts \in Seq(Paths)
  BY <1>3, <1>4, SeqDef
<1>6. Only(texts, "text")
  <2>1. \A i \in 1..Len(texts) : texts[i] \in TextFiles
    BY <1>5, ElementOfSeq
  <2> QED
    BY <1>3, <2>1 DEF Only
<1> QED
  BY <1>1, <1>2, <1>5, <1>6

------------------------------------------------------------------------------
(* What is kept stays fresh while the source only gets newer. *)
LEMMA FreshStays ==
    ASSUME src \in [Paths -> Nat], start \in [Paths -> Nat], src' \in [Paths -> Nat],
           UNCHANGED start, \A p \in Paths : src[p] <= src'[p],
           NEW o, Fresh(o)
    PROVE  Fresh(o)'
<1>1. PICK q \in Paths : \/ o = Out(q, Marker \o Newline)
                         \/ \E v \in start[q]..src[q] : o = Out(q, <<v>>)
  BY DEF Fresh
<1>2. \A v \in start[q]..src[q] : v \in start'[q]..src'[q]
  <2>1. src[q] \in Nat /\ start[q] \in Nat /\ src'[q] \in Nat /\ src[q] <= src'[q]
    OBVIOUS
  <2> QED
    BY <2>1
<1>3. \/ o = Out(q, Marker \o Newline)
      \/ \E v \in start'[q]..src'[q] : o = Out(q, <<v>>)
  BY <1>1, <1>2
<1> QED
  BY <1>3 DEF Fresh

(* A command is answered or lost. *)
LEMMA FaultFact ==
    ASSUME Held, Answered \/ Lost
    PROVE  /\ bad' \in 0..faults' /\ faults' \in 0..MaxFaults /\ bad \in Nat /\ bad' \in Nat
           /\ Lost => bad' = bad + 1
           /\ bad <= bad'
  BY ExtractAssumption DEF Held, Answered, Lost

(* The types, the freshness of what is kept, and that an extraction that is over
   has no loop left, are kept by every step.                                  *)
LEMMA HeldStep == Held /\ Loops /\ [Next]_vars => Held'
<1> SUFFICES ASSUME Held, Loops, [Next]_vars PROVE Held'
  OBVIOUS
<1>1. ASSUME NEW j \in {"state", "all"}, Begin(j) PROVE Held'
  <2>1. /\ src' = src /\ start' = src /\ job' = j /\ bad' = 0 /\ faults' = faults
        /\ changes' = changes /\ state' = <<>> /\ pc' \in {"info", "read"} /\ listed' = "no"
    BY <1>1 DEF Begin, Scope
  <2>2. \A p \in Paths : src[p] <= src[p]
    BY DEF Held
  <2>3. \A k \in DOMAIN state' : FALSE
    BY <2>1
  <2>4. bad' \in 0..faults'
    BY <2>1 DEF Held
  <2> QED
    BY <2>1, <2>2, <2>3, <2>4 DEF Held
<1>2. CASE List
  <2>1. /\ pc' = "read" /\ UNCHANGED <<src, start, job, state, changes>>
        /\ Answered \/ Lost
    BY <1>2, ListFact
  <2> QED
    BY <2>1, FaultFact DEF Held, Fresh
<1>3. CASE Read
  <2>1. PICK p : p = Head(Head(todo))
    OBVIOUS
  <2>2. /\ p \in Paths /\ pc \in {"info", "read"}
        /\ UNCHANGED <<src, start, job, pc, listed, changes>>
        /\ Retried(p) \/ (\E b : Kept(p, b)) \/ Skipped(p)
    BY <1>3, <2>1, ReadFact
  <2>3. Answered \/ Lost
    BY <2>2 DEF Retried, Kept, Skipped, Failed
  <2>4. \A k \in DOMAIN state' : k \in Keys /\ Fresh(state'[k])
    <3>1. CASE Retried(p) \/ Skipped(p)
      BY <3>1 DEF Retried, Skipped, Skip, Held
    <3>2. ASSUME NEW b, Kept(p, b) PROVE \A k \in DOMAIN state' : k \in Keys /\ Fresh(state'[k])
      <4>1. /\ DOMAIN state' = DOMAIN state \cup {Key(p)} /\ state'[Key(p)] = b
            /\ \A k \in DOMAIN state : k # Key(p) => state'[k] = state[k]
        BY <3>2, StoreFact DEF Kept, Keep
      <4>2. Key(p) \in Keys /\ Fresh(b)
        BY <2>2, <3>2, KeyFact DEF Kept
      <4>3. \A k \in DOMAIN state : k \in Keys /\ Fresh(state[k])
        BY DEF Held
      <4> QED
        BY <4>1, <4>2, <4>3
    <3> QED
      BY <2>2, <3>1, <3>2
  <2>5. \A k \in DOMAIN state' : k \in Keys /\ Fresh(state[k])'
    BY <2>2, <2>4 DEF Fresh
  <2> QED
    BY <2>2, <2>3, <2>5, FaultFact DEF Held
<1>4. CASE EndLoop
  BY <1>4 DEF EndLoop, Held, Fresh
<1>5. CASE Finish
  BY <1>5 DEF Finish, Held, Fresh
<1>6. CASE Renew \/ WriteFile
  <2>1. PICK files : files \cap Paths # {} /\ Change(files)
    BY <1>6, UseFact
  <2>2. /\ src' \in [Paths -> Nat]
        /\ \A p \in Paths : start'[p] <= src'[p] /\ src[p] <= src'[p] /\ src'[p] <= changes' + 1
        /\ changes' \in 0..MaxChanges
        /\ UNCHANGED <<start, job, pc, todo, try, state, listed, bad, faults>>
    BY <2>1, ChangeFact
  <2>3. ASSUME NEW k \in DOMAIN state' PROVE k \in Keys /\ Fresh(state[k])'
    <3>1. PICK o : o = state[k]
      OBVIOUS
    <3>2. k \in Keys /\ Fresh(o)
      BY <2>2, <3>1 DEF Held
    <3>3. Fresh(o)'
      BY <2>2, <3>2, FreshStays DEF Held
    <3>4. o = state'[k]
      BY <2>2, <3>1
    <3> QED
      BY <3>2, <3>3, <3>4 DEF Fresh
  <2> QED
    BY <2>2, <2>3 DEF Held
<1>7. CASE UNCHANGED vars
  BY <1>7 DEF vars, Held, Fresh
<1> QED
  BY <1>1, <1>2, <1>3, <1>4, <1>5, <1>6, <1>7 DEF Next

(* A file that has not been asked for yet. *)
LEMMA FirstTry == ASSUME try' = 1, bad' \in Nat PROVE Tries'
<1>1. \A p : 1 \in 1..Attempts(p)
  BY DEF Attempts
<1>2. 1 <= bad' + 1
  <2>1. \A b \in Nat : 1 <= b + 1
    OBVIOUS
  <2> QED
    BY <2>1
<1> QED
  BY <1>1, <1>2 DEF Tries

(* The commands for one file are counted right by every step. *)
LEMMA TriesStep == Held /\ Loops /\ Tries /\ [Next]_vars => Tries'
<1> SUFFICES ASSUME Held, Loops, Tries, [Next]_vars PROVE Tries'
  OBVIOUS
<1>1. ASSUME NEW j \in {"state", "all"}, Begin(j) PROVE Tries'
  BY <1>1, FirstTry DEF Begin, Scope
<1>2. CASE List
  <2>1. try' = 1 /\ (Answered \/ Lost)
    BY <1>2, ListFact
  <2> QED
    BY <2>1, FaultFact, FirstTry
<1>3. CASE Read
  <2>1. PICK p : p = Head(Head(todo))
    OBVIOUS
  <2>2. /\ Asking /\ p \in Paths /\ UNCHANGED <<src, start, job, pc, listed, changes>>
        /\ Retried(p) \/ (\E b : Kept(p, b)) \/ Skipped(p)
    BY <1>3, <2>1, ReadFact
  <2>3. Answered \/ Lost
    BY <2>2 DEF Retried, Kept, Skipped, Failed
  <2>4. CASE Retried(p)
    <3>1. /\ todo' = todo /\ try' = try + 1 /\ try < Attempts(p) /\ try \in 1..Attempts(p)
          /\ src = start /\ src[p] # 0 => try <= bad + 1
      BY <2>1, <2>2, <2>4 DEF Retried, Tries
    <3>2. Attempts(p) \in Nat
      BY DEF Attempts
    <3>3. try' \in 1..Attempts(p)
      BY <3>1, <3>2
    <3>4. src' = start' /\ src'[p] # 0 => try' <= bad' + 1
      <4>1. src[p] # 0 => bad' = bad + 1
        BY <2>4, FaultFact DEF Retried, Failed
      <4>2. bad \in Nat /\ bad' \in Nat
        BY <2>3, FaultFact
      <4> QED
        <5> HAVE src' = start' /\ src'[p] # 0
        <5>1. src = start /\ src[p] # 0
          BY <2>2
        <5>2. try <= bad + 1 /\ bad' = bad + 1 /\ try' = try + 1 /\ try \in Nat
          BY <3>1, <3>2, <4>1, <5>1
        <5> QED
          BY <4>2, <5>2
    <3>5. Asking' /\ p = Head(Head(todo'))
      BY <2>1, <2>2, <3>1 DEF Asking
    <3> QED
      BY <3>3, <3>4, <3>5 DEF Tries
  <2>5. CASE Skipped(p) \/ \E b : Kept(p, b)
    <3>1. try' = 1
      BY <2>5 DEF Kept, Keep, Skipped, Skip
    <3> QED
      BY <2>3, <3>1, FaultFact, FirstTry
  <2> QED
    BY <2>2, <2>4, <2>5
<1>4. CASE EndLoop
  <2>1. try' = 1 /\ bad' = bad
    BY <1>4 DEF EndLoop, Tries, Asking
  <2> QED
    BY <2>1, FirstTry DEF Held
<1>5. CASE Finish
  BY <1>5 DEF Finish, Tries, Asking
<1>6. CASE Renew \/ WriteFile
  <2>1. /\ src' # start' /\ UNCHANGED <<todo, try, bad>>
    BY <1>6, UseFact, ChangeFact
  <2> QED
    BY <2>1 DEF Tries, Asking
<1>7. CASE UNCHANGED vars
  BY <1>7 DEF vars, Tries, Asking
<1> QED
  BY <1>1, <1>2, <1>3, <1>4, <1>5, <1>6, <1>7 DEF Next

(* The files of a certificate change together in every step. *)
LEMMA TogetherStep == Held /\ Loops /\ Together /\ [Next]_vars => Together'
<1> SUFFICES ASSUME Held, Loops, Together, [Next]_vars PROVE Together'
  OBVIOUS
<1>1. CASE UNCHANGED src
  BY <1>1 DEF Together
<1>2. CASE Renew
  <2>1. PICK i \in DOMAIN Domains : Change(ToSet(CertFiles(Domains[i])))
    BY <1>2 DEF Renew
  <2> DEFINE files == ToSet(CertFiles(Domains[i]))
  <2>2. ASSUME NEW p \in Certs PROVE p \in files <=> p[2] = Domains[i]
    <3>1. PICK k \in DOMAIN Domains, j \in 1..3 : p = CertFiles(Domains[k])[j]
      BY CertFact
    <3>2. p[2] = Domains[k]
      BY <3>1, CertFact
    <3>3. DOMAIN CertFiles(Domains[i]) = 1..3
      BY DEF CertFiles
    <3>4. p[2] = Domains[i] => p \in files
      BY <3>1, <3>2, <3>3 DEF ToSet
    <3>5. p \in files => p[2] = Domains[i]
      BY <3>3, CertFact DEF ToSet
    <3> QED
      BY <3>4, <3>5
  <2>3. \A p \in Paths : src'[p] = IF p \in files THEN src[p] + 1 ELSE src[p]
    BY <2>1 DEF Change
  <2> HIDE DEF files
  <2>4. ASSUME NEW p \in Certs, NEW q \in Certs, p[2] = q[2] PROVE src'[p] = src'[q]
    BY <2>2, <2>3, <2>4, CertFact DEF Together
  <2> QED
    BY <2>4 DEF Together
<1>3. CASE WriteFile
  <2>1. PICK f \in Paths \ Certs : Change({f})
    BY <1>3 DEF WriteFile
  <2>2. \A p \in Certs : src'[p] = src[p]
    BY <2>1, CertFact DEF Change
  <2> QED
    BY <2>2 DEF Together
<1>4. CASE Read
  BY <1>1, <1>4 DEF Read
<1> QED
  BY <1>1, <1>2, <1>3, <1>4 DEF Next, Begin, Scope, List, EndLoop, Finish, vars

(* The loops over the certificates ls printed. *)
LEMMA CertLoopsFact ==
    /\ CertLoops \in Seq(Seq(Paths)) /\ Len(CertLoops) = Len(Domains) /\ Len(Domains) \in Nat
    /\ \A i \in 1..Len(Domains) :
          /\ CertRest(CertLoops[i], i, DOMAIN state)
          /\ src[CertFiles(Domains[i])[1]] # 0 => CertLoops[i] = CertFiles(Domains[i])
<1> DEFINE n == Len(Domains)
<1>1. n \in Nat /\ DOMAIN Domains = 1..n
  BY ExtractAssumption, LenProperties
<1>2. \A i \in 1..n : CertFiles(Domains[i]) \in Seq(Paths)
  <2> TAKE i \in 1..n
  <2>1. \A j \in 1..3 : CertFiles(Domains[i])[j] \in Paths
    BY <1>1, CertFact
  <2> DEFINE f == CertFiles(Domains[i])
  <2>2. f = <<f[1], f[2], f[3]>>
    BY DEF CertFiles
  <2> HIDE DEF f
  <2>3. f[1] \in Paths /\ f[2] \in Paths /\ f[3] \in Paths
    BY <2>1 DEF f
  <2>4. f \in Seq(Paths)
    BY <2>2, <2>3
  <2> QED
    BY <2>4 DEF f
<1> HIDE DEF n
<1>3. /\ DOMAIN CertLoops = 1..n
      /\ \A i \in 1..n : CertLoops[i] =
            IF src[CertFiles(Domains[i])[1]] # 0 THEN CertFiles(Domains[i]) ELSE <<>>
      /\ CertLoops = [i \in 1..n |-> CertLoops[i]]
  BY <1>1 DEF CertLoops
<1>4. \A i \in 1..n : CertLoops[i] \in Seq(Paths)
  <2>1. <<>> \in Seq(Paths)
    OBVIOUS
  <2>2. \A i \in 1..n : CertLoops[i] = CertFiles(Domains[i]) \/ CertLoops[i] = <<>>
    BY <1>3
  <2> QED
    BY <1>2, <2>1, <2>2, Zenon
<1>5. CertLoops \in [1..n -> Seq(Paths)]
  BY <1>3, <1>4, Zenon
<1>6. CertLoops \in Seq(Seq(Paths))
  BY <1>1, <1>5, SeqDef
<1>7. Len(CertLoops) = n
  <2>1. Len(CertLoops) \in Nat /\ DOMAIN CertLoops = 1..Len(CertLoops)
    BY <1>6, LenProperties
  <2> QED
    BY <1>1, <1>3, <2>1, SameLength
<1>8. \A i \in 1..n : CertRest(CertLoops[i], i, DOMAIN state)
  BY <1>1, <1>3 DEF CertRest
<1> QED
  BY <1>1, <1>3, <1>6, <1>7, <1>8 DEF n

(* The loops ExtractSystemState enters once it has listed the certificates: c of
   them for certificates, then one each for xray, the databases and the texts. *)
LEMMA ListLoops ==
    ASSUME Loops, List
    PROVE  \E c \in Nat :
              /\ todo' \in Seq(Seq(Paths)) /\ Len(todo') = c + 3
              /\ listed' = "yes" /\ listed # "yes" => c = Len(Domains)
              /\ \A i \in 1..c : /\ i \in DOMAIN Domains /\ CertRest(todo'[i], i, DOMAIN state)
                                 /\ src[CertFiles(Domains[i])[1]] # 0 => todo'[i] = CertFiles(Domains[i])
              /\ todo'[c + 1] = Xrays /\ todo'[c + 2] = Dbs /\ Only(todo'[c + 3], "text")
<1>1. PICK texts \in Seq(Paths) :
         /\ Only(texts, "text")
         /\ \/ listed' = "yes" /\ todo' = CertLoops \o <<Xrays, Dbs, texts>>
            \/ UNCHANGED listed /\ todo' = <<Xrays, Dbs, texts>>
  BY ListFact
<1> DEFINE fixed == <<Xrays, Dbs, texts>>
<1>2. /\ fixed \in Seq(Seq(Paths)) /\ Len(fixed) = 3
      /\ fixed[1] = Xrays /\ fixed[2] = Dbs /\ fixed[3] = texts
  BY Lists
<1> HIDE DEF fixed
<1>3. CASE listed' = "yes" /\ todo' = CertLoops \o fixed
  <2> DEFINE c == Len(Domains)
  <2>1. /\ CertLoops \in Seq(Seq(Paths)) /\ Len(CertLoops) = c /\ c \in Nat
        /\ \A i \in 1..c :
              /\ CertRest(CertLoops[i], i, DOMAIN state)
              /\ src[CertFiles(Domains[i])[1]] # 0 => CertLoops[i] = CertFiles(Domains[i])
    BY CertLoopsFact
  <2>2. DOMAIN Domains = 1..c
    BY ExtractAssumption, LenProperties
  <2> HIDE DEF c
  <2>3. /\ todo' \in Seq(Seq(Paths)) /\ Len(todo') = c + 3
        /\ \A i \in 1..(c + 3) : todo'[i] = IF i <= c THEN CertLoops[i] ELSE fixed[i - c]
    <3> DEFINE u == CertLoops \o fixed
    <3>1. u \in Seq(Seq(Paths))
      BY <1>2, <2>1, ConcatProperties
    <3>2. Len(u) = Len(CertLoops) + Len(fixed)
      BY <1>2, <2>1, ConcatProperties
    <3>3. \A i \in 1..(Len(CertLoops) + Len(fixed)) :
             u[i] = IF i <= Len(CertLoops) THEN CertLoops[i] ELSE fixed[i - Len(CertLoops)]
      BY <1>2, <2>1, ConcatProperties
    <3> HIDE DEF u
    <3>4. todo' = u
      BY <1>3 DEF u
    <3> QED
      BY <1>2, <2>1, <3>1, <3>2, <3>3, <3>4
  <2>4. \A i \in 1..c : todo'[i] = CertLoops[i]
    <3> TAKE i \in 1..c
    <3>1. i \in 1..(c + 3) /\ i <= c
      BY <2>1
    <3> QED
      BY <2>3, <3>1
  <2>5. todo'[c + 1] = Xrays /\ todo'[c + 2] = Dbs /\ todo'[c + 3] = texts
    <3>1. \A k \in 1..3 : c + k \in 1..(c + 3) /\ ~(c + k <= c) /\ (c + k) - c = k
      BY <2>1
    <3>2. \A k \in 1..3 : todo'[c + k] = fixed[k]
      BY <2>3, <3>1
    <3> QED
      BY <1>2, <3>2
  <2> QED
    BY <1>1, <1>3, <2>1, <2>2, <2>3, <2>4, <2>5 DEF c
<1>4. CASE UNCHANGED listed /\ todo' = fixed
  <2>1. \A i \in 1..0 : FALSE
    OBVIOUS
  <2>2. /\ todo' \in Seq(Seq(Paths)) /\ Len(todo') = 0 + 3
        /\ todo'[0 + 1] = Xrays /\ todo'[0 + 2] = Dbs /\ Only(todo'[0 + 3], "text")
    BY <1>1, <1>2, <1>4
  <2> QED
    BY <1>4, <2>1, <2>2
<1> QED
  BY <1>1, <1>3, <1>4 DEF fixed

(* The loops still to be run are in shape after every step. *)
LEMMA LoopsStep == Held /\ Loops /\ [Next]_vars => Loops'
<1> SUFFICES ASSUME Held, Loops, [Next]_vars PROVE Loops'
  OBVIOUS
<1>1. ASSUME NEW j \in {"state", "all"}, Begin(j) PROVE Loops'
  <2>1. job' = j /\ j = "state" => pc' = "info" /\ todo' = <<InfoItems>>
    BY <1>1 DEF Begin, Scope
  <2>2. job' = j /\ j = "all" => pc' = "read" /\ todo' = <<AllDbs>>
    BY <1>1 DEF Begin, Scope
  <2>3. job' = j
    BY <1>1 DEF Begin, Scope
  <2>4. ASSUME NEW g \in Seq(Paths), NEW t, t = <<g>>
        PROVE  t \in Seq(Seq(Paths)) /\ Len(t) = 1 /\ t[1] = g /\ \A n \in 1..Len(t) : n = 1
    BY <2>4
  <2>5. CASE j = "state"
    BY <2>1, <2>3, <2>4, <2>5, Lists DEF Loops
  <2>6. CASE j = "all"
    <3>1. Rest(AllDbs, AllDbs)
      <4>1. Len(AllDbs) \in Nat
        BY Lists
      <4>2. \A i \in 1..Len(AllDbs) : Len(AllDbs) - Len(AllDbs) + i = i
        BY <4>1
      <4> QED
        BY <4>1, <4>2 DEF Rest
    <3>2. pc' = "read" /\ job' = "all" /\ todo' = <<AllDbs>>
      BY <2>2, <2>3, <2>6
    <3>3. /\ todo' \in Seq(Seq(Paths)) /\ Len(todo') = 1 /\ todo'[1] = AllDbs
          /\ \A n \in 1..Len(todo') : n = 1
      BY <2>4, <3>2, Lists
    <3> QED
      BY <3>1, <3>2, <3>3 DEF Loops
  <2> QED
    BY <2>5, <2>6
<1>2. CASE List
  <2>1. PICK c \in Nat :
          /\ todo' \in Seq(Seq(Paths)) /\ Len(todo') = c + 3
          /\ \A i \in 1..c : CertRest(todo'[i], i, DOMAIN state)
          /\ todo'[c + 1] = Xrays /\ todo'[c + 2] = Dbs /\ Only(todo'[c + 3], "text")
    BY <1>2, ListLoops
  <2>2. pc' = "read" /\ job' = "state" /\ state' = state
    BY <1>2, ListFact DEF Loops
  <2>3. Rest(Dbs, Dbs) /\ Rest(Xrays, Xrays)
    <3>1. Len(Dbs) \in Nat /\ Len(Xrays) \in Nat
      BY Lists
    <3>2. /\ \A i \in 1..Len(Dbs) : Len(Dbs) - Len(Dbs) + i = i
          /\ \A i \in 1..Len(Xrays) : Len(Xrays) - Len(Xrays) + i = i
      BY <3>1
    <3> QED
      BY <3>1, <3>2 DEF Rest
  <2>4. ASSUME NEW n \in 1..Len(todo')
        PROVE  /\ Len(todo') - n = 0 => Only(todo'[n], "text")
               /\ Len(todo') - n = 1 => Rest(todo'[n], Dbs)
               /\ Len(todo') - n = 2 => Rest(todo'[n], Xrays)
               /\ Len(todo') - n >= 3 => CertRest(todo'[n], n, DOMAIN state')
    <3>1. /\ Len(todo') - n = 0 => n = c + 3
          /\ Len(todo') - n = 1 => n = c + 2
          /\ Len(todo') - n = 2 => n = c + 1
          /\ Len(todo') - n >= 3 => n \in 1..c
      BY <2>1
    <3> QED
      BY <2>1, <2>2, <2>3, <3>1
  <2>5. StateLoops'
    BY <2>4 DEF StateLoops
  <2> QED
    BY <2>1, <2>2, <2>5 DEF Loops
<1>3. CASE Read
  BY <1>3, LoopsRead
<1>4. CASE EndLoop
  BY <1>4, LoopsLeave DEF EndLoop
<1>5. CASE Finish
  BY <1>5 DEF Finish, Loops
<1>6. CASE Renew \/ WriteFile
  <2>1. UNCHANGED <<job, pc, todo, state>>
    BY <1>6, UseFact, ChangeFact
  <2> QED
    BY <2>1 DEF Loops, StateLoops
<1>7. CASE UNCHANGED vars
  BY <1>7 DEF vars, Loops, StateLoops
<1> QED
  BY <1>1, <1>2, <1>3, <1>4, <1>5, <1>6, <1>7 DEF Next

(* A file of a certificate is kept only after the one before it. *)
LEMMA WholeStep == Held /\ Loops /\ CertificatesWhole /\ [Next]_vars => CertificatesWhole'
<1> SUFFICES ASSUME Held, Loops, CertificatesWhole, [Next]_vars PROVE CertificatesWhole'
  OBVIOUS
<1>1. CASE UNCHANGED state
  BY <1>1 DEF CertificatesWhole
<1>2. ASSUME NEW j \in {"state", "all"}, Begin(j) PROVE CertificatesWhole'
  <2>1. DOMAIN state' = {}
    BY <1>2 DEF Begin
  <2> QED
    BY <2>1 DEF CertificatesWhole
<1>3. CASE Read
  <2>1. PICK p : p = Head(Head(todo))
    OBVIOUS
  <2>2. /\ Asking /\ p \in Paths /\ pc \in {"info", "read"} /\ job \in {"state", "all"}
        /\ Retried(p) \/ (\E b : Kept(p, b)) \/ Skipped(p)
    BY <1>3, <2>1, ReadFact
  <2>3. CASE Retried(p) \/ Skipped(p)
    BY <1>1, <2>3 DEF Retried, Skipped, Skip
  <2>4. ASSUME NEW b, Kept(p, b) PROVE CertificatesWhole'
    <3>1. DOMAIN state' = DOMAIN state \cup {Key(p)}
      BY <2>4, StoreFact DEF Kept, Keep
    <3> SUFFICES ASSUME NEW i \in DOMAIN Domains, NEW j \in 2..3,
                        CertFiles(Domains[i])[j] \in DOMAIN state'
                 PROVE  CertFiles(Domains[i])[j - 1] \in DOMAIN state'
      BY DEF CertificatesWhole
    <3>2. CASE CertFiles(Domains[i])[j] \in DOMAIN state
      BY <3>1, <3>2 DEF CertificatesWhole
    <3>3. CASE CertFiles(Domains[i])[j] = Key(p)
      <4>1. Kind(Key(p)) = "cert"
        BY <3>3, CertFact
      <4>2. Kind(p) = "cert" /\ Key(p) = p
        BY <2>2, <4>1, KeyFact
      <4>3. pc = "read" /\ job = "state" /\ Len(todo) - 1 >= 3 /\ 1 \in 1..Len(todo)
            /\ p = todo[1][1] /\ todo[1] # <<>>
        <5>1. /\ Len(todo) \in Nat \ {0} /\ p = todo[1][1] /\ todo[1] # <<>>
              /\ pc = "info" => Kind(p) = "info"
              /\ pc = "read" /\ job = "all" => Kind(p) = "db"
              /\ pc = "read" /\ job = "state" =>
                    /\ Len(todo) = 1 => Kind(p) = "text"
                    /\ Len(todo) = 2 => Kind(p) = "db"
                    /\ Len(todo) = 3 => Kind(p) = "xray"
          BY <2>1, <2>2, HeadFact
        <5>2. pc = "read" /\ job = "state"
          BY <2>2, <4>2, <5>1
        <5>3. Len(todo) # 1 /\ Len(todo) # 2 /\ Len(todo) # 3
          BY <4>2, <5>1, <5>2
        <5>4. \A N \in Nat \ {0} : N # 1 /\ N # 2 /\ N # 3 => N - 1 >= 3 /\ 1 \in 1..N
          OBVIOUS
        <5> QED
          BY <5>1, <5>2, <5>3, <5>4
      <4>4. CertRest(todo[1], 1, DOMAIN state)
        BY <4>3 DEF Loops, StateLoops
      <4>5. PICK k \in DOMAIN Domains :
              LET f == CertFiles(Domains[k])
              IN  \/ todo[1] = f
                  \/ f[1] \in DOMAIN state /\ todo[1] = <<f[2], f[3]>>
                  \/ f[2] \in DOMAIN state /\ todo[1] = <<f[3]>>
        BY <4>3, <4>4 DEF CertRest
      <4>6. \/ p = CertFiles(Domains[k])[1]
            \/ p = CertFiles(Domains[k])[2] /\ CertFiles(Domains[k])[1] \in DOMAIN state
            \/ p = CertFiles(Domains[k])[3] /\ CertFiles(Domains[k])[2] \in DOMAIN state
        BY <4>3, <4>5
      <4>7. p = CertFiles(Domains[i])[j]
        BY <3>3, <4>2
      <4>8. Domains[i] = Domains[k]
        BY <4>6, <4>7, CertFact
      <4>9. /\ CertFiles(Domains[k])[1] # CertFiles(Domains[k])[2]
            /\ CertFiles(Domains[k])[1] # CertFiles(Domains[k])[3]
            /\ CertFiles(Domains[k])[2] # CertFiles(Domains[k])[3]
        BY DEF CertFiles, Path
      <4>10. j = 2 \/ j = 3
        OBVIOUS
      <4>11. CertFiles(Domains[i])[j - 1] \in DOMAIN state
        BY <4>6, <4>7, <4>8, <4>9, <4>10
      <4> QED
        BY <3>1, <4>11
    <3> QED
      BY <3>1, <3>2, <3>3
  <2> QED
    BY <2>2, <2>3, <2>4
<1> QED
  BY <1>1, <1>2, <1>3 DEF Next, List, EndLoop, Finish, Renew, WriteFile, Change, vars

------------------------------------------------------------------------------
(* A step of a loop: the head loop goes on, or is left. *)
LEMMA MoveFact ==
    ASSUME todo \in Seq(Seq(Paths)), todo # <<>>
    PROVE  /\ Len(todo) \in Nat \ {0}
           /\ Leave => Len(todo') = Len(todo) - 1 /\ \A n \in 2..Len(todo) : todo'[n - 1] = todo[n]
           /\ Continue /\ Asking => /\ Len(todo') = Len(todo) /\ todo'[1] = Tail(todo[1])
                                    /\ \A n \in 2..Len(todo) : todo'[n] = todo[n]
<1>1. /\ Len(todo) \in Nat \ {0} /\ Len(Tail(todo)) = Len(todo) - 1
      /\ \A i \in 1..(Len(todo) - 1) : Tail(todo)[i] = todo[i + 1]
  BY TailFact
<1>2. ASSUME Leave PROVE Len(todo') = Len(todo) - 1 /\ \A n \in 2..Len(todo) : todo'[n - 1] = todo[n]
  <2>1. todo' = Tail(todo)
    BY <1>2 DEF Leave
  <2>2. ASSUME NEW n \in 2..Len(todo) PROVE todo'[n - 1] = todo[n]
    <3>1. n - 1 \in 1..(Len(todo) - 1) /\ (n - 1) + 1 = n
      BY <1>1
    <3> QED
      BY <1>1, <2>1, <3>1
  <2> QED
    BY <1>1, <2>1, <2>2
<1>3. ASSUME Continue, Asking
      PROVE  /\ Len(todo') = Len(todo) /\ todo'[1] = Tail(todo[1])
             /\ \A n \in 2..Len(todo) : todo'[n] = todo[n]
  BY <1>3, ContinueFact DEF Continue, Asking
<1> QED
  BY <1>1, <1>2, <1>3

(* What is to come in a later loop is still to come. *)
LEMMA PendingStays ==
    ASSUME todo \in Seq(Seq(Paths)), todo # <<>>, Leave \/ (Continue /\ Asking),
           NEW i, NEW s, NEW r \in Nat, r + 1 < Len(todo), Pending(i, s, r)
    PROVE  Pending(i, s, r)' /\ r < Len(todo')
<1>1. Len(todo) \in Nat \ {0} /\ Len(todo) - r \in 2..Len(todo)
  BY MoveFact
<1>2. i > Len(s) - Len(todo[Len(todo) - r])
  BY DEF Pending
<1>3. CASE Leave
  <2>1. Len(todo') = Len(todo) - 1 /\ todo'[(Len(todo) - r) - 1] = todo[Len(todo) - r]
    BY <1>1, <1>3, MoveFact
  <2>2. Len(todo') - r = (Len(todo) - r) - 1 /\ r < Len(todo')
    BY <1>1, <2>1
  <2> QED
    BY <1>2, <2>1, <2>2 DEF Pending
<1>4. CASE Continue /\ Asking
  <2>1. Len(todo') = Len(todo) /\ todo'[Len(todo) - r] = todo[Len(todo) - r]
    BY <1>1, <1>4, MoveFact
  <2>2. r < Len(todo')
    BY <1>1, <2>1
  <2> QED
    BY <1>2, <2>1, <2>2 DEF Pending
<1> QED
  BY <1>3, <1>4

(* What is kept under another name is still kept. *)
LEMMA SettledStays ==
    ASSUME NEW q, Settled(q), UNCHANGED <<start, job>>,
           \/ UNCHANGED state
           \/ \E p, b : Kept(p, b) /\ Key(p) # Key(q)
    PROVE  Settled(q)'
<1>1. Key(q)' = Key(q)
  BY DEF Key
<1>2. CASE UNCHANGED state
  BY <1>1, <1>2 DEF Settled
<1>3. ASSUME NEW p, NEW b, Kept(p, b), Key(p) # Key(q) PROVE Settled(q)'
  <2>1. /\ DOMAIN state' = DOMAIN state \cup {Key(p)}
        /\ \A k \in DOMAIN state : k # Key(p) => state'[k] = state[k]
    BY <1>3, StoreFact DEF Kept, Keep
  <2>2. Key(q) \in DOMAIN state' /\ state'[Key(q)] = Out(q, <<start[q]>>)
    BY <1>3, <2>1 DEF Settled
  <2> QED
    BY <1>1, <2>2 DEF Settled
<1> QED
  BY <1>2, <1>3

(* A file that is read from an idle source is kept as it was at the start. *)
LEMMA JustSettled ==
    ASSUME NEW p, NEW b, Kept(p, b), ~IsText(p), src = start, UNCHANGED <<start, job>>
    PROVE  Settled(p)' /\ src[p] # 0
<1>1. Key(p)' = Key(p)
  BY DEF Key
<1>2. Key(p) \in DOMAIN state' /\ state'[Key(p)] = b
  BY StoreFact DEF Kept, Keep
<1>3. b = Out(p, <<start[p]>>) /\ src[p] # 0
  BY DEF Kept, Bytes
<1> QED
  BY <1>1, <1>2, <1>3 DEF Settled

(* With one failed command at most, only a file that is not there is given up. *)
LEMMA GivenUp ==
    ASSUME Held, Tries, NEW p, p = Head(Head(todo)), Asking, Skipped(p), ~IsText(p),
           src = start, bad' <= 1
    PROVE  src[p] = 0
<1> SUFFICES ASSUME src[p] # 0 PROVE FALSE
  OBVIOUS
<1>1. try >= Attempts(p) /\ Lost
  BY DEF Skipped, Failed
<1>2. bad' = bad + 1 /\ bad \in Nat
  BY <1>1, FaultFact
<1>3. try \in 1..Attempts(p) /\ try <= bad + 1
  BY DEF Tries
<1>4. Attempts(p) \in {2, 3}
  BY DEF Attempts, IsText
<1> QED
  BY <1>1, <1>2, <1>3, <1>4

(* An answer that is kept, or a file that is given up. *)
Passed(p) == (\E b : Kept(p, b)) \/ Skipped(p)

(* What the following lemmas know of a file that is passed. *)
Passing(p) ==
    /\ Held /\ Tries /\ Together /\ Loops /\ Asking
    /\ p = Head(Head(todo)) /\ p \in Paths /\ Passed(p)
    /\ pc = "read" /\ src = start /\ bad' <= 1
    /\ UNCHANGED <<src, start, job, pc>>

(* A file that is passed leaves its loop or goes on with it. *)
LEMMA PassedMoves ==
    ASSUME NEW p, Passing(p)
    PROVE  /\ todo \in Seq(Seq(Paths)) /\ todo # <<>>
           /\ Leave \/ (Continue /\ Asking)
           /\ Skipped(p) => IF Kind(p) = "cert" THEN Leave ELSE Continue
           /\ ~Skipped(p) => IF Kind(p) = "xray" THEN Leave ELSE Continue
           /\ Kind(p) \notin {"xray", "cert"} => Continue
           /\ Skipped(p) => UNCHANGED state /\ (~IsText(p) => src[p] = 0)
           /\ ~IsText(p) /\ ~Skipped(p) => src[p] # 0 /\ Settled(p)'
<1>1. todo \in Seq(Seq(Paths)) /\ todo # <<>> /\ Asking
  BY DEF Passing, Loops, Asking
<1>2. ASSUME NEW b, Kept(p, b) PROVE IF Kind(p) = "xray" THEN Leave ELSE Continue
  BY <1>2 DEF Kept, Keep
<1>3. ASSUME Skipped(p)
      PROVE  /\ IF Kind(p) = "cert" THEN Leave ELSE Continue
             /\ UNCHANGED state
  BY <1>3 DEF Skipped, Skip
<1>4. ASSUME Skipped(p), ~IsText(p) PROVE src[p] = 0
  BY <1>4, GivenUp DEF Passing
<1>5. ASSUME ~IsText(p), ~Skipped(p) PROVE src[p] # 0 /\ Settled(p)'
  <2>1. PICK b : Kept(p, b)
    BY <1>5 DEF Passing, Passed
  <2> QED
    BY <1>5, <2>1, JustSettled DEF Passing
<1>6. Skipped(p) \/ \E b : Kept(p, b)
  BY DEF Passing, Passed
<1> QED
  BY <1>1, <1>2, <1>3, <1>4, <1>5, <1>6

(* Files of different kinds have different names. *)
LEMMA OtherName ==
    ASSUME NEW p \in Paths, NEW q \in Paths, Kind(p) # Kind(q)
    PROVE  Key(p) # Key(q)
<1>1. /\ Kind(p) \in {"info", "cert", "xray", "db", "text"}
      /\ Kind(q) \in {"info", "cert", "xray", "db", "text"}
  BY Kinds
<1>2. /\ Kind(Key(p)) = IF Kind(p) = "xray" /\ job # "all" THEN "config" ELSE Kind(p)
      /\ Kind(Key(q)) = IF Kind(q) = "xray" /\ job # "all" THEN "config" ELSE Kind(q)
  BY KeyFact
<1> QED
  BY <1>1, <1>2

(* A file that is passed leaves those of another kind as they were kept. *)
LEMMA OthersStay ==
    ASSUME NEW p, Passing(p), NEW q \in Paths, Settled(q),
           Kind(p) # Kind(q) \/ Key(p) # Key(q) \/ Skipped(p)
    PROVE  Settled(q)'
<1>1. p \in Paths /\ UNCHANGED <<start, job>> /\ (Skipped(p) \/ \E b : Kept(p, b))
  BY DEF Passing, Passed
<1>2. CASE Skipped(p)
  BY <1>1, <1>2, PassedMoves, SettledStays
<1>3. CASE ~Skipped(p)
  BY <1>1, <1>3, OtherName, SettledStays
<1> QED
  BY <1>2, <1>3

(* ExtractAllDatabases passes a file. *)
LEMMA AllRead ==
    ASSUME NEW p, Passing(p), job = "all", AllKept
    PROVE  AllKept'
<1> DEFINE g == todo[1]
           L == Len(AllDbs)
           h == L - Len(g) + 1
<1>1. /\ g \in Seq(Paths) /\ g # <<>> /\ Len(g) \in Nat \ {0}
      /\ Kind(p) = "db" /\ Len(todo) = 1 /\ p = AllDbs[h] /\ p \in Paths
  BY HeadFact DEF Passing, Held
<1>2. L \in Nat /\ \A i \in 1..L : AllDbs[i] \in Paths /\ Kind(AllDbs[i]) = "db"
  BY Lists, ElementOfSeq DEF Only
<1>3. Len(Tail(g)) = Len(g) - 1
  BY <1>1, TailFact
<1>4. Len(todo') = 1 /\ todo'[1] = Tail(g)
  <2>1. Continue /\ Asking /\ todo \in Seq(Seq(Paths)) /\ todo # <<>>
    BY <1>1, PassedMoves DEF Passing
  <2> QED
    BY <1>1, <2>1, MoveFact
<1>5. ~IsText(p)
  BY <1>1 DEF IsText
<1> SUFFICES ASSUME NEW i \in 1..L, start'[AllDbs[i]] # 0
             PROVE  Pending(i, AllDbs, 0)' \/ Settled(AllDbs[i])'
  BY DEF AllKept
<1>6. start[AllDbs[i]] # 0 /\ src = start
  BY DEF Passing
<1>7. CASE i > h
  <2>1. i > L - Len(todo'[1])
    BY <1>1, <1>2, <1>3, <1>4, <1>7
  <2>2. Pending(i, AllDbs, 0)'
    BY <1>4, <2>1 DEF Pending
  <2> QED
    BY <2>2
<1>8. CASE AllDbs[i] = p
  BY <1>5, <1>6, <1>8, PassedMoves
<1>9. CASE i <= h /\ AllDbs[i] # p
  <2>1. i # h
    BY <1>1, <1>9
  <2>2. ~(i > L - Len(g))
    BY <1>1, <1>2, <1>9, <2>1
  <2>3. Settled(AllDbs[i])
    BY <1>1, <1>6, <2>2 DEF AllKept, Pending
  <2>4. Key(p) # Key(AllDbs[i])
    BY <1>1, <1>2, <1>9, KeyFact
  <2> QED
    BY <1>2, <2>3, <2>4, OthersStay
<1>10. i > h \/ i <= h
  BY <1>1, <1>2
<1> QED
  BY <1>7, <1>8, <1>9, <1>10

(* ExtractSystemState passes a file: no certificate is lost. *)
LEMMA CertsRead ==
    ASSUME NEW p, Passing(p), job = "state", CertsKept
    PROVE  CertsKept'
<1> DEFINE N == Len(todo)
<1>1. /\ N \in Nat \ {0} /\ todo[1] \in Seq(Paths) /\ todo[1] # <<>> /\ p = todo[1][1]
      /\ N > 3 => /\ Kind(p) = "cert" /\ p \in Certs
                  /\ \A q \in ToSet(todo[1]) : q \in Certs /\ q[2] = p[2]
  BY HeadFact DEF Passing, Held
<1>2. /\ todo \in Seq(Seq(Paths)) /\ todo # <<>> /\ Asking
      /\ Leave \/ (Continue /\ Asking)
  BY PassedMoves DEF Passing
<1> SUFFICES ASSUME NEW c \in Certs, start'[c] # 0
             PROVE  \/ \E n \in 1..Len(todo') : Len(todo') - n >= 3 /\ c \in ToSet(todo'[n])
                    \/ Settled(c)'
  BY DEF CertsKept
<1>3. start[c] # 0 /\ src = start /\ c \in Paths /\ Kind(c) = "cert"
  BY CertFact DEF Passing
<1>4. ASSUME Settled(c) PROVE Settled(c)'
  <2>1. CASE p = c
    <3>1. ~IsText(p) /\ src[p] # 0
      BY <1>3, <2>1 DEF IsText
    <3> QED
      BY <2>1, <3>1, PassedMoves
  <2>2. CASE p # c
    <3>1. Kind(p) # Kind(c) \/ Key(p) # Key(c)
      BY <1>3, <2>2, KeyFact DEF Passing
    <3> QED
      BY <1>3, <1>4, <3>1, OthersStay
  <2> QED
    BY <2>1, <2>2
<1>5. ASSUME NEW n \in 2..N, N - n >= 3, c \in ToSet(todo[n])
      PROVE  \E m \in 1..Len(todo') : Len(todo') - m >= 3 /\ c \in ToSet(todo'[m])
  <2>1. CASE Leave
    <3>1. Len(todo') = N - 1 /\ todo'[n - 1] = todo[n]
      BY <1>2, <2>1, MoveFact
    <3>2. n - 1 \in 1..Len(todo') /\ Len(todo') - (n - 1) >= 3
      BY <1>1, <1>5, <3>1
    <3> QED
      BY <1>5, <3>1, <3>2
  <2>2. CASE Continue /\ Asking
    <3>1. Len(todo') = N /\ todo'[n] = todo[n]
      BY <1>2, <2>2, MoveFact
    <3>2. n \in 1..Len(todo') /\ Len(todo') - n >= 3
      BY <1>1, <1>5, <3>1
    <3> QED
      BY <1>5, <3>1, <3>2
  <2> QED
    BY <1>2, <2>1, <2>2
<1>6. ASSUME N - 1 >= 3, c \in ToSet(todo[1])
      PROVE  \/ \E m \in 1..Len(todo') : Len(todo') - m >= 3 /\ c \in ToSet(todo'[m])
             \/ Settled(c)'
  <2>1. Kind(p) = "cert" /\ p \in Certs /\ c[2] = p[2]
    BY <1>1, <1>6
  <2>2. src[p] # 0 /\ ~IsText(p)
    BY <1>3, <2>1 DEF Passing, Together, IsText
  <2>3. ~Skipped(p) /\ Settled(p)' /\ Continue
    BY <2>1, <2>2, PassedMoves
  <2>4. CASE c = p
    BY <2>3, <2>4
  <2>5. CASE c # p
    <3>1. Len(todo') = N /\ todo'[1] = Tail(todo[1])
      BY <1>2, <2>3, MoveFact
    <3>2. PICK k \in 1..Len(todo[1]) : c = todo[1][k]
      BY <1>1, <1>6 DEF ToSet
    <3>3. k # 1
      BY <1>1, <2>5, <3>2
    <3>4. /\ Len(todo[1]) \in Nat \ {0} /\ Tail(todo[1]) \in Seq(Paths)
          /\ Len(Tail(todo[1])) = Len(todo[1]) - 1
          /\ \A i \in 1..(Len(todo[1]) - 1) : Tail(todo[1])[i] = todo[1][i + 1]
      BY <1>1, TailFact
    <3>5. k - 1 \in 1..(Len(todo[1]) - 1) /\ (k - 1) + 1 = k
      BY <3>3, <3>4
    <3>6. k - 1 \in DOMAIN Tail(todo[1]) /\ Tail(todo[1])[k - 1] = c
      BY <3>2, <3>4, <3>5, LenProperties
    <3>7. c \in ToSet(todo'[1])
      BY <3>1, <3>6 DEF ToSet
    <3>8. 1 \in 1..Len(todo') /\ Len(todo') - 1 >= 3
      BY <1>1, <1>6, <3>1
    <3> QED
      BY <3>7, <3>8
  <2> QED
    BY <2>4, <2>5
<1>7. CASE Settled(c)
  BY <1>4, <1>7
<1>8. CASE ~Settled(c)
  <2>1. PICK n \in 1..N : N - n >= 3 /\ c \in ToSet(todo[n])
    BY <1>3, <1>8 DEF CertsKept
  <2>2. n = 1 \/ n \in 2..N
    BY <1>1
  <2> QED
    BY <1>5, <1>6, <2>1, <2>2
<1> QED
  BY <1>7, <1>8

(* Where item i of a list of l is, when m of them are left and h is next. *)
LEMMA Position ==
    ASSUME NEW l \in Nat, NEW m \in Nat \ {0}, NEW i \in Int, NEW h, h = l - m + 1
    PROVE  /\ i > l - (m - 1) <=> i > h
           /\ i > l - m <=> ~(i < h)
  OBVIOUS

(* ExtractSystemState passes a file: the first xray configuration is not lost. *)
LEMMA XrayRead ==
    ASSUME NEW p, Passing(p), job = "state", XrayKept
    PROVE  XrayKept'
<1> DEFINE N == Len(todo)
           g == todo[1]
           L == Len(Xrays)
           h == L - Len(g) + 1
<1>1. /\ N \in Nat \ {0} /\ g \in Seq(Paths) /\ g # <<>> /\ Len(g) \in Nat \ {0} /\ p \in Paths
      /\ N = 1 => Kind(p) = "text"
      /\ N = 2 => Kind(p) = "db"
      /\ N = 3 => Kind(p) = "xray" /\ p = Xrays[h] /\ Rest(g, Xrays)
  BY HeadFact DEF Passing, Held
<1>2. L \in Nat /\ \A i \in 1..L : Xrays[i] \in Paths /\ Kind(Xrays[i]) = "xray"
  BY Lists, ElementOfSeq DEF Only
<1>3. /\ todo \in Seq(Seq(Paths)) /\ todo # <<>> /\ Asking
      /\ Leave \/ (Continue /\ Asking)
  BY PassedMoves DEF Passing
<1>4. Len(Tail(g)) = Len(g) - 1 /\ h = L - Len(g) + 1 /\ h \in Int
  BY <1>1, <1>2, TailFact
<1> HIDE DEF h
<1>s. SUFFICES ASSUME NEW i \in 1..L, start'[Xrays[i]] # 0, \A j \in 1..(i - 1) : start'[Xrays[j]] = 0
             PROVE  IF 2 < Len(todo') THEN Pending(i, Xrays, 2)' ELSE Settled(Xrays[i])'
  BY DEF XrayKept
<1>p. /\ i > L - (Len(g) - 1) <=> i > h
      /\ i > L - Len(g) <=> ~(i < h)
  <2>1. L \in Nat
    BY <1>2
  <2>2. Len(g) \in Nat \ {0}
    BY <1>1
  <2>3. h = L - Len(g) + 1
    BY <1>4
  <2>4. i \in Int
    BY <2>1
  <2> HIDE DEF L, g
  <2> QED
    BY <2>1, <2>2, <2>3, <2>4, Position
<1>5. src = start /\ start[Xrays[i]] # 0 /\ \A j \in 1..(i - 1) : start[Xrays[j]] = 0
  BY <1>s DEF Passing
<1>6. IF 2 < N THEN Pending(i, Xrays, 2) ELSE Settled(Xrays[i])
  BY <1>5 DEF XrayKept
<1>7. CASE N \in {1, 2}
  <2>1. Settled(Xrays[i])' 
    BY <1>1, <1>2, <1>6, <1>7, OthersStay
  <2>2. ~(2 < Len(todo'))
    <3>1. Len(todo') = N - 1 \/ Len(todo') = N
      BY <1>3, MoveFact
    <3>2. \A k, l : k \in {1, 2} /\ (l = k - 1 \/ l = k) => ~(2 < l)
      OBVIOUS
    <3> QED
      BY <1>7, <3>1, <3>2
  <2> QED
    BY <2>1, <2>2
<1>8. CASE N = 3
  <2>1. ~IsText(p) /\ Kind(p) = "xray" /\ p = Xrays[h] /\ h \in 1..L /\ i > h - 1
    <3>1. Pending(i, Xrays, 2)
      BY <1>6, <1>8
    <3>2. i > L - Len(g)
      BY <1>8, <3>1 DEF Pending
    <3>3. Len(g) <= L
      BY <1>1, <1>8 DEF Rest
    <3> QED
      BY <1>1, <1>2, <1>4, <1>8, <3>2, <3>3 DEF IsText
  <2>2. CASE Skipped(p)
    <3>1. src[p] = 0 /\ Continue
      BY <2>1, <2>2, PassedMoves
    <3>2. i # h
      BY <1>5, <2>1, <3>1
    <3>3. Len(todo') = 3 /\ todo'[1] = Tail(g)
      BY <1>3, <1>8, <3>1, MoveFact
    <3>4. i > L - Len(todo'[1])
      <4>1. i > h
        BY <2>1, <3>2
      <4> QED
        BY <1>p, <1>4, <3>3, <4>1
    <3>5. Pending(i, Xrays, 2)'
      BY <3>3, <3>4 DEF Pending
    <3> QED
      BY <3>3, <3>5
  <2>3. CASE ~Skipped(p)
    <3>1. src[p] # 0 /\ Settled(p)' /\ Leave
      BY <2>1, <2>3, PassedMoves
    <3>2. ~(h < i)
      <4>1. h < i => h \in 1..(i - 1)
        BY <2>1
      <4> QED
        BY <1>5, <2>1, <3>1, <4>1
    <3>3. i = h
      BY <2>1, <3>2
    <3>4. Len(todo') = 2
      BY <1>3, <1>8, <3>1, MoveFact
    <3> QED
      BY <2>1, <3>1, <3>3, <3>4
  <2> QED
    BY <2>2, <2>3
<1>9. CASE N > 3
  <2>1. Pending(i, Xrays, 2) /\ 2 + 1 < N
    BY <1>1, <1>6, <1>9
  <2> QED
    BY <1>3, <2>1, PendingStays
<1>10. N \in {1, 2} \/ N = 3 \/ N > 3
  <2>1. \A k \in Nat \ {0} : k \in {1, 2} \/ k = 3 \/ k > 3
    OBVIOUS
  <2> QED
    BY <1>1, <2>1
<1> QED
  BY <1>7, <1>8, <1>9, <1>10

(* ExtractSystemState passes a file: the last database is not lost. *)
LEMMA DbRead ==
    ASSUME NEW p, Passing(p), job = "state", DbKept
    PROVE  DbKept'
<1> DEFINE N == Len(todo)
           g == todo[1]
           L == Len(Dbs)
           h == L - Len(g) + 1
<1>1. /\ N \in Nat \ {0} /\ g \in Seq(Paths) /\ g # <<>> /\ Len(g) \in Nat \ {0} /\ p \in Paths
      /\ N = 1 => Kind(p) = "text"
      /\ N = 2 => Kind(p) = "db" /\ p = Dbs[h] /\ Rest(g, Dbs)
      /\ N = 3 => Kind(p) = "xray"
      /\ N > 3 => Kind(p) = "cert"
  BY HeadFact DEF Passing, Held
<1>2. L \in Nat /\ \A i \in 1..L : Dbs[i] \in Paths /\ Kind(Dbs[i]) = "db"
  BY Lists, ElementOfSeq DEF Only
<1>3. /\ todo \in Seq(Seq(Paths)) /\ todo # <<>> /\ Asking
      /\ Leave \/ (Continue /\ Asking)
  BY PassedMoves DEF Passing
<1>4. Len(Tail(g)) = Len(g) - 1 /\ h = L - Len(g) + 1 /\ h \in Int
  BY <1>1, <1>2, TailFact
<1> HIDE DEF h
<1>s. SUFFICES ASSUME NEW i \in 1..L, start'[Dbs[i]] # 0, \A j \in (i + 1)..L : start'[Dbs[j]] = 0
             PROVE  Pending(i, Dbs, 1)' \/ Settled(Dbs[i])'
  BY DEF DbKept
<1>p. /\ i > L - (Len(g) - 1) <=> i > h
      /\ i > L - Len(g) <=> ~(i < h)
  <2>1. L \in Nat
    BY <1>2
  <2>2. Len(g) \in Nat \ {0}
    BY <1>1
  <2>3. h = L - Len(g) + 1
    BY <1>4
  <2>4. i \in Int
    BY <2>1
  <2> HIDE DEF L, g
  <2> QED
    BY <2>1, <2>2, <2>3, <2>4, Position
<1>5. src = start /\ start[Dbs[i]] # 0 /\ \A j \in (i + 1)..L : start[Dbs[j]] = 0
  BY <1>s DEF Passing
<1>6. Pending(i, Dbs, 1) \/ Settled(Dbs[i])
  BY <1>5 DEF DbKept
<1>7. CASE N = 1
  BY <1>1, <1>2, <1>6, <1>7, OthersStay DEF Pending
<1>8. CASE N = 2
  <2>1. ~IsText(p) /\ Kind(p) = "db" /\ p = Dbs[h] /\ h \in 1..L
    <3>1. Len(g) <= L
      BY <1>1, <1>8 DEF Rest
    <3> QED
      BY <1>1, <1>2, <1>4, <1>8, <3>1 DEF IsText
  <2>2. Len(todo') = 2 /\ todo'[1] = Tail(g)
    <3>1. Continue
      BY <2>1, PassedMoves
    <3> QED
      BY <1>3, <1>8, <3>1, MoveFact
  <2>3. CASE i > h
    <3>1. i > L - Len(todo'[1])
      BY <1>p, <1>4, <2>2, <2>3
    <3>2. Pending(i, Dbs, 1)'
      BY <2>2, <3>1 DEF Pending
    <3> QED
      BY <3>2
  <2>4. CASE i = h
    BY <1>5, <2>1, <2>4, PassedMoves
  <2>5. CASE i < h
    <3>1. src[p] = 0
      <4>1. h \in (i + 1)..L
        BY <2>1, <2>5
      <4> QED
        BY <1>5, <2>1, <4>1
    <3>2. Skipped(p)
      BY <2>1, <3>1, PassedMoves
    <3>3. Settled(Dbs[i])
      <4>1. ~(i > L - Len(g))
        BY <1>p, <2>5
      <4>2. N - 1 = 1
        BY <1>8
      <4> QED
        BY <1>6, <4>1, <4>2 DEF Pending
    <3> QED
      BY <1>2, <3>2, <3>3, OthersStay
  <2>6. i > h \/ i = h \/ i < h
    BY <2>1
  <2> QED
    BY <2>3, <2>4, <2>5, <2>6
<1>9. CASE N \notin {1, 2}
  <2>1. Kind(p) # "db" /\ 1 + 1 < N
    <3>1. \A k \in Nat \ {0} : k \notin {1, 2} => (k = 3 \/ k > 3) /\ 1 + 1 < k
      OBVIOUS
    <3> QED
      BY <1>1, <1>9, <3>1
  <2>2. CASE Settled(Dbs[i])
    BY <1>2, <2>1, <2>2, OthersStay
  <2>3. CASE Pending(i, Dbs, 1)
    BY <1>3, <2>1, <2>3, PendingStays
  <2> QED
    BY <1>6, <2>2, <2>3
<1> QED
  BY <1>7, <1>8, <1>9

(* A loop that has come to its end takes nothing with it. *)
LEMMA ProgressEnd == Held /\ Loops /\ Progress /\ EndLoop => Progress'
<1> SUFFICES ASSUME Held, Loops, Progress, EndLoop, Quiet'
             PROVE  /\ job' = "all" => AllKept'
                    /\ job' = "state" => CertsKept' /\ XrayKept' /\ DbKept'
  BY DEF Progress
<1> DEFINE N == Len(todo)
<1>1. /\ todo \in Seq(Seq(Paths)) /\ todo # <<>> /\ todo[1] = <<>> /\ Len(todo[1]) = 0 /\ Leave
      /\ UNCHANGED <<src, start, job, pc, state, listed, bad>>
  BY TailFact DEF Loops, EndLoop
<1>2. N \in Nat \ {0} /\ Len(todo') = N - 1 /\ \A n \in 2..N : todo'[n - 1] = todo[n]
  BY <1>1, MoveFact
<1>3. /\ Quiet /\ pc = "read"
      /\ job = "all" => AllKept
      /\ job = "state" => CertsKept /\ XrayKept /\ DbKept
  BY <1>1 DEF Quiet, EndLoop, Progress
<1>4. ASSUME NEW q, Settled(q) PROVE Settled(q)'
  BY <1>1, <1>4, SettledStays
<1>5. ASSUME NEW i, NEW s, NEW r \in Nat, i \in 1..Len(s), Len(s) \in Nat, Pending(i, s, r)
      PROVE  Pending(i, s, r)' /\ r < Len(todo')
  <2>1. r < N /\ i > Len(s) - Len(todo[N - r])
    BY <1>5 DEF Pending
  <2>2. N - r # 1
    BY <1>1, <1>5, <2>1
  <2>3. r + 1 < N
    BY <1>2, <2>1, <2>2
  <2> QED
    BY <1>1, <1>5, <2>3, PendingStays
<1>6. job' = "all" => AllKept'
  <2> SUFFICES ASSUME job = "all", NEW i \in 1..Len(AllDbs), start[AllDbs[i]] # 0
               PROVE  Pending(i, AllDbs, 0)' \/ Settled(AllDbs[i])'
    BY <1>1 DEF AllKept
  <2>1. Pending(i, AllDbs, 0) \/ Settled(AllDbs[i])
    BY <1>3 DEF AllKept
  <2> QED
    BY <1>4, <1>5, <2>1, Lists
<1>7. job' = "state" => CertsKept'
  <2> SUFFICES ASSUME job = "state", NEW c \in Certs, start[c] # 0
               PROVE  \/ \E n \in 1..Len(todo') : Len(todo') - n >= 3 /\ c \in ToSet(todo'[n])
                      \/ Settled(c)'
    BY <1>1 DEF CertsKept
  <2>1. CASE Settled(c)
    BY <1>4, <2>1
  <2>2. CASE ~Settled(c)
    <3>1. PICK n \in 1..N : N - n >= 3 /\ c \in ToSet(todo[n])
      BY <1>3, <2>2 DEF CertsKept
    <3>2. n # 1
      <4>1. ToSet(<<>>) = {}
        BY DEF ToSet
      <4> QED
        BY <1>1, <3>1, <4>1
    <3>3. n - 1 \in 1..Len(todo') /\ Len(todo') - (n - 1) >= 3 /\ n \in 2..N
      BY <1>2, <3>1, <3>2
    <3>4. c \in ToSet(todo'[n - 1])
      BY <1>2, <3>1, <3>3
    <3> QED
      BY <3>3, <3>4
  <2> QED
    BY <2>1, <2>2
<1>8. job' = "state" => XrayKept'
  <2> SUFFICES ASSUME job = "state", NEW i \in 1..Len(Xrays),
                      start[Xrays[i]] # 0, \A j \in 1..(i - 1) : start[Xrays[j]] = 0
               PROVE  IF 2 < Len(todo') THEN Pending(i, Xrays, 2)' ELSE Settled(Xrays[i])'
    BY <1>1 DEF XrayKept
  <2>1. IF 2 < N THEN Pending(i, Xrays, 2) ELSE Settled(Xrays[i])
    BY <1>3 DEF XrayKept
  <2>2. CASE 2 < N
    BY <1>5, <2>1, <2>2, Lists
  <2>3. CASE ~(2 < N)
    <3>1. ~(2 < Len(todo'))
      BY <1>2, <2>3
    <3> QED
      BY <1>4, <2>1, <2>3, <3>1
  <2> QED
    BY <2>2, <2>3
<1>9. job' = "state" => DbKept'
  <2> SUFFICES ASSUME job = "state", NEW i \in 1..Len(Dbs),
                      start[Dbs[i]] # 0, \A j \in (i + 1)..Len(Dbs) : start[Dbs[j]] = 0
               PROVE  Pending(i, Dbs, 1)' \/ Settled(Dbs[i])'
    BY <1>1 DEF DbKept
  <2>1. Pending(i, Dbs, 1) \/ Settled(Dbs[i])
    BY <1>3 DEF DbKept
  <2> QED
    BY <1>4, <1>5, <2>1, Lists
<1> QED
  BY <1>6, <1>7, <1>8, <1>9

(* Once the certificates are listed, all that is expected is still to come. *)
LEMMA ProgressList == Held /\ Together /\ Loops /\ List => Progress'
<1> SUFFICES ASSUME Held, Together, Loops, List, Quiet'
             PROVE  job' = "state" /\ CertsKept' /\ XrayKept' /\ DbKept'
  BY DEF Progress
<1>1. /\ job = "state" /\ listed # "yes"
      /\ UNCHANGED <<src, start, job, state>>
  BY ListFact DEF Held, Loops
<1>2. listed' = "yes" /\ src = start
  BY <1>1 DEF Quiet
<1>3. PICK c \in Nat :
        /\ Len(todo') = c + 3 /\ c = Len(Domains)
        /\ \A i \in 1..c : src[CertFiles(Domains[i])[1]] # 0 => todo'[i] = CertFiles(Domains[i])
        /\ todo'[c + 1] = Xrays /\ todo'[c + 2] = Dbs
  BY <1>1, <1>2, ListLoops
<1>4. CertsKept'
  <2> SUFFICES ASSUME NEW p \in Certs, start'[p] # 0
               PROVE  \E n \in 1..Len(todo') : Len(todo') - n >= 3 /\ p \in ToSet(todo'[n])
    BY DEF CertsKept
  <2>1. PICK i \in DOMAIN Domains, j \in 1..3 : p = CertFiles(Domains[i])[j]
    BY CertFact
  <2>2. i \in 1..c
    BY <1>3, ExtractAssumption, LenProperties
  <2>3. src[CertFiles(Domains[i])[1]] = src[p]
    BY <2>1, CertFact DEF Together
  <2>4. todo'[i] = CertFiles(Domains[i])
    BY <1>1, <1>2, <1>3, <2>2, <2>3
  <2>5. p \in ToSet(todo'[i])
    <3>1. DOMAIN CertFiles(Domains[i]) = 1..3
      BY DEF CertFiles
    <3> QED
      BY <2>1, <2>4, <3>1 DEF ToSet
  <2>6. i \in 1..Len(todo') /\ Len(todo') - i >= 3
    BY <1>3, <2>2
  <2> QED
    BY <2>5, <2>6
<1>5. ASSUME NEW s \in Seq(Paths), NEW i \in 1..Len(s), NEW r \in Nat, r < Len(todo'),
             todo'[Len(todo') - r] = s
      PROVE  Pending(i, s, r)'
  <2>1. i > Len(s) - Len(s)
    OBVIOUS
  <2> QED
    BY <1>5, <2>1 DEF Pending
<1>6. /\ 2 < Len(todo') /\ todo'[Len(todo') - 2] = Xrays
      /\ 1 < Len(todo') /\ todo'[Len(todo') - 1] = Dbs
  <2>1. Len(todo') - 2 = c + 1 /\ Len(todo') - 1 = c + 2 /\ 2 < Len(todo') /\ 1 < Len(todo')
    BY <1>3
  <2> QED
    BY <1>3, <2>1
<1>7. XrayKept'
  BY <1>5, <1>6, Lists DEF XrayKept
<1>8. DbKept'
  BY <1>5, <1>6, Lists DEF DbKept
<1> QED
  BY <1>1, <1>4, <1>7, <1>8

(* Whatever is expected stays kept or still to come, in every step. *)
LEMMA ProgressStep ==
    Held /\ Tries /\ Together /\ Loops /\ Progress /\ [Next]_vars => Progress'
<1> SUFFICES ASSUME Held, Tries, Together, Loops, Progress, [Next]_vars PROVE Progress'
  OBVIOUS
<1>1. ASSUME NEW j \in {"state", "all"}, Begin(j) PROVE Progress'
  <2>1. CASE j = "state"
    BY <1>1, <2>1 DEF Begin, Scope, Progress, Quiet
  <2>2. CASE j = "all"
    <3>1. job' = "all" /\ todo' = <<AllDbs>>
      BY <1>1, <2>2 DEF Begin, Scope
    <3>2. Len(todo') = 1 /\ todo'[1] = AllDbs /\ Len(AllDbs) \in Nat
      BY <3>1, Lists
    <3>3. \A i \in 1..Len(AllDbs) : 0 < Len(todo') /\ i > Len(AllDbs) - Len(todo'[Len(todo') - 0])
      BY <3>2
    <3>4. AllKept'
      BY <3>3 DEF AllKept, Pending
    <3> QED
      BY <3>1, <3>4 DEF Progress
  <2> QED
    BY <2>1, <2>2
<1>2. CASE List
  BY <1>2, ProgressList
<1>3. CASE Read
  <2> SUFFICES ASSUME Quiet'
               PROVE  /\ job' = "all" => AllKept'
                      /\ job' = "state" => CertsKept' /\ XrayKept' /\ DbKept'
    BY DEF Progress
  <2>1. PICK p : p = Head(Head(todo))
    OBVIOUS
  <2>2. /\ Asking /\ p \in Paths /\ pc \in {"info", "read"} /\ job \in {"state", "all"}
        /\ UNCHANGED <<src, start, job, pc, listed, changes>>
        /\ Retried(p) \/ (\E b : Kept(p, b)) \/ Skipped(p)
    BY <1>3, <2>1, ReadFact
  <2>3. Answered \/ Lost
    BY <2>2 DEF Retried, Kept, Skipped, Failed
  <2>4. pc = "read" /\ src = start /\ bad' <= 1 /\ (listed = "yes" \/ job = "all") /\ bad <= 1
    <3>1. bad \in Nat /\ bad' \in Nat /\ bad <= bad'
      BY <2>3, FaultFact
    <3>2. bad' <= 1
      BY DEF Quiet
    <3>3. bad <= 1
      BY <3>1, <3>2
    <3> QED
      BY <2>2, <3>2, <3>3 DEF Quiet
  <2>5. /\ job = "all" => AllKept
        /\ job = "state" => CertsKept /\ XrayKept /\ DbKept
    BY <2>4 DEF Progress, Quiet
  <2>6. CASE Retried(p)
    <3>1. UNCHANGED <<todo, state, start, job>>
      BY <2>2, <2>6 DEF Retried
    <3> QED
      BY <2>5, <3>1 DEF AllKept, CertsKept, XrayKept, DbKept, Pending, Settled, Key
  <2>7. CASE Passed(p)
    <3>1. Passing(p)
      BY <2>1, <2>2, <2>4, <2>7 DEF Passing
    <3> QED
      BY <2>2, <2>5, <3>1, AllRead, CertsRead, XrayRead, DbRead
  <2> QED
    BY <2>2, <2>6, <2>7 DEF Passed
<1>4. CASE EndLoop
  BY <1>4, ProgressEnd
<1>5. CASE Finish
  <2>1. UNCHANGED <<src, start, job, todo, state, listed, bad>> /\ pc = "read"
    BY <1>5 DEF Finish
  <2> QED
    BY <2>1 DEF Progress, Quiet, AllKept, CertsKept, XrayKept, DbKept, Pending, Settled, Key
<1>6. CASE Renew \/ WriteFile
  <2>1. src' # start'
    BY <1>6, UseFact, ChangeFact
  <2> QED
    BY <2>1 DEF Progress, Quiet
<1>7. CASE UNCHANGED vars
  BY <1>7 DEF vars, Progress, Quiet, AllKept, CertsKept, XrayKept, DbKept, Pending, Settled, Key
<1> QED
  BY <1>1, <1>2, <1>3, <1>4, <1>5, <1>6, <1>7 DEF Next

------------------------------------------------------------------------------
(* The inductive invariant holds when gs starts: no extraction has begun, and the
   source is as it will be compared with.                                     *)
LEMMA InitIInv == Init => IInv
<1> SUFFICES ASSUME Init PROVE IInv
  OBVIOUS
<1>1. /\ src \in [Paths -> {0, 1}] /\ start = src /\ pc = "idle" /\ todo = <<>> /\ try = 1
      /\ job = "state" /\ DOMAIN state = {} /\ bad = 0 /\ faults = 0 /\ changes = 0
  BY DEF Init
<1>2. /\ src \in [Paths -> Nat] /\ start \in [Paths -> Nat]
      /\ \A p \in Paths : start[p] <= src[p] /\ src[p] <= changes + 1
  <2>1. \A p \in Paths : src[p] \in {0, 1}
    BY <1>1
  <2>2. \A v \in {0, 1} : v <= v /\ v <= 0 + 1 /\ v \in Nat
    OBVIOUS
  <2>3. src \in [Paths -> Nat]
    BY <1>1, <2>2
  <2> QED
    BY <1>1, <2>1, <2>2, <2>3
<1>3. Held
  BY <1>1, <1>2, ExtractAssumption DEF Held
<1>4. Tries
  BY <1>1 DEF Tries, Asking
<1>5. Together
  BY DEF Init, Together
<1>6. Loops
  BY <1>1 DEF Loops
<1>7. CertificatesWhole
  BY <1>1 DEF CertificatesWhole
<1>8. Progress
  BY <1>1 DEF Progress, Quiet
<1> QED
  BY <1>3, <1>4, <1>5, <1>6, <1>7, <1>8 DEF IInv

(* The inductive invariant holds in every state of an extraction. *)
LEMMA Inductive == Spec => []IInv
<1>1. IInv /\ [Next]_vars => IInv'
  BY HeldStep, TriesStep, TogetherStep, LoopsStep, WholeStep, ProgressStep DEF IInv
<1> QED
  BY InitIInv, <1>1, PTL DEF Spec

(* The variables have their types, and a file is never asked for more often than
   the code has commands for it (certs.go:115-127, sqlite.go:14-73).          *)
THEOREM ExtractTypeCorrect == Spec => []TypeOK
<1>1. IInv => TypeOK
  <2> SUFFICES ASSUME IInv PROVE TypeOK
    OBVIOUS
  <2>1. Held /\ Tries /\ Loops
    BY DEF IInv
  <2>2. src \in [Paths -> 0..(MaxChanges + 1)] /\ start \in [Paths -> 0..(MaxChanges + 1)]
    <3>1. ASSUME NEW p \in Paths
          PROVE  src[p] \in 0..(MaxChanges + 1) /\ start[p] \in 0..(MaxChanges + 1)
      <4>1. src[p] \in Nat /\ start[p] \in Nat /\ start[p] <= src[p] /\ src[p] <= changes + 1
        BY <2>1 DEF Held
      <4>2. changes \in Nat /\ changes <= MaxChanges /\ MaxChanges \in Nat
        BY <2>1, ExtractAssumption DEF Held
      <4> QED
        BY <4>1, <4>2
    <3>2. src = [p \in Paths |-> src[p]] /\ start = [p \in Paths |-> start[p]]
      BY <2>1 DEF Held
    <3> QED
      BY <3>1, <3>2, Zenon
  <2>3. DOMAIN state \subseteq Keys
    BY <2>1 DEF Held
  <2> QED
    BY <2>1, <2>2, <2>3 DEF TypeOK, Held, Tries, Loops, Asking, Keys
<1> QED
  BY <1>1, Inductive, PTL

(* Whatever changes on the source, fails or was extracted before, every byte kept
   was on the source at some moment since the extraction began: the maps are new
   in every call, and a file is kept as one command printed it
   (extractor.go:34-46).                                                      *)
THEOREM NothingStaleKept == Spec => []NothingStale
<1>1. IInv => NothingStale
  <2> SUFFICES ASSUME IInv, NEW k \in DOMAIN state, state[k].text # Marker \o Newline
               PROVE  state[k].text[1] \in start[state[k].path]..src[state[k].path]
    BY DEF NothingStale
  <2>1. Fresh(state[k])
    BY DEF IInv, Held
  <2>2. PICK q \in Paths : \/ state[k] = Out(q, Marker \o Newline)
                           \/ \E v \in start[q]..src[q] : state[k] = Out(q, <<v>>)
    BY <2>1 DEF Fresh
  <2>3. state[k] # Out(q, Marker \o Newline)
    BY DEF Out
  <2>4. PICK v \in start[q]..src[q] : state[k] = Out(q, <<v>>)
    BY <2>2, <2>3
  <2>5. state[k].path = q /\ state[k].text = <<v>>
    BY <2>4 DEF Out
  <2> QED
    BY <2>5
<1> QED
  BY <1>1, Inductive, PTL

(* However reading is interrupted, no key is kept without its certificate and no
   chain without its key, for any list of domains (certs.go:34-56).           *)
THEOREM CertificatesKeptWhole == Spec => []CertificatesWhole
<1>1. IInv => CertificatesWhole
  BY DEF IInv
<1> QED
  BY <1>1, Inductive, PTL

(* With at most one failed command, an extraction of an idle source keeps every
   certificate, the first xray configuration and the last database, each as it is
   there (certs.go:115-127, sqlite.go:14-73).                                 *)
THEOREM OneFaultIsTolerated == Spec => []OneFaultTolerated
<1>1. IInv => OneFaultTolerated
  <2> SUFFICES ASSUME IInv, pc = "done", src = start, listed = "yes" \/ job = "all", bad <= 1,
                      NEW p \in Paths, Expected(p)
               PROVE  Settled(p)
    BY DEF OneFaultTolerated, Settled
  <2>1. /\ job = "all" => AllKept
        /\ job = "state" => CertsKept /\ XrayKept /\ DbKept
    BY DEF IInv, Progress, Quiet
  <2>2. Len(todo) = 0
    BY DEF IInv, Held
  <2>3. \A i, s, r : r \in Nat => ~Pending(i, s, r)
    <3>1. \A r \in Nat : ~(r < Len(todo))
      BY <2>2
    <3> QED
      BY <3>1 DEF Pending
  <2>4. start[p] # 0
    BY DEF Expected
  <2>5. CASE job = "all" /\ p \in ToSet(AllDbs)
    <3>1. PICK i \in 1..Len(AllDbs) : p = AllDbs[i]
      BY <2>5, Lists DEF ToSet
    <3> QED
      BY <2>1, <2>3, <2>4, <2>5, <3>1 DEF AllKept
  <2>6. CASE job = "state" /\ p \in Certs
    <3>1. ~\E n \in 1..Len(todo) : Len(todo) - n >= 3 /\ p \in ToSet(todo[n])
      BY <2>2
    <3> QED
      BY <2>1, <2>4, <2>6, <3>1 DEF CertsKept
  <2>7. CASE job = "state" /\ \E i \in DOMAIN Xrays :
               p = Xrays[i] /\ \A j \in 1..(i - 1) : start[Xrays[j]] = 0
    <3>1. PICK i \in 1..Len(Xrays) : p = Xrays[i] /\ \A j \in 1..(i - 1) : start[Xrays[j]] = 0
      BY <2>7, Lists
    <3>2. ~(2 < Len(todo))
      BY <2>2
    <3> QED
      BY <2>1, <2>4, <2>7, <3>1, <3>2 DEF XrayKept
  <2>8. CASE job = "state" /\ \E i \in DOMAIN Dbs :
               p = Dbs[i] /\ \A j \in (i + 1)..Len(Dbs) : start[Dbs[j]] = 0
    <3>1. DOMAIN Dbs = 1..Len(Dbs)
      BY Lists, LenProperties
    <3>2. PICK i \in 1..Len(Dbs) : p = Dbs[i] /\ \A j \in (i + 1)..Len(Dbs) : start[Dbs[j]] = 0
      BY <2>8, <3>1, Zenon
    <3> QED
      BY <2>1, <2>3, <2>4, <2>8, <3>2 DEF DbKept
  <2> QED
    BY <2>5, <2>6, <2>7, <2>8 DEF Expected
<1> QED
  BY <1>1, Inductive, PTL
============================================================================
