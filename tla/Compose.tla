------------------------------- MODULE Compose -------------------------------
(* The compose project of a node (internal/provisioner/services.go): what
   buildComposeProject refuses, the file it generates, and what docker compose
   makes of that file.  A text is its service blocks and the number of newlines
   it ends with.                                                              *)
EXTENDS Integers, Sequences, FiniteSets, SequencesExt

Text(body, newlines) == [body |-> body, newlines |-> newlines]

(* A missing file: `test -f f && cat f || true' prints the same for an empty one. *)
NoText == Text(<<>>, 0)

(* strings.TrimSpace; no text here starts with white space. *)
TrimSpace(text) == [text EXCEPT !.newlines = 0]

(* The replicas of a service; a count below 1 means 1. *)
Replicas(s) == IF s.count < 1 THEN 1 ELSE s.count

(* Mutant: a scaled service may publish ports. *)
RejectedButPorts(services) ==
    \/ \E i \in DOMAIN services : services[i].name = "" \/ services[i].image = ""
    \/ \E i, j \in DOMAIN services : i # j /\ services[i].name = services[j].name

(* buildComposeProject returns an error. *)
Rejected(services) ==
    \/ \E i \in DOMAIN services :
          \/ services[i].name = ""
          \/ services[i].image = ""
          \/ Replicas(services[i]) > 1 /\ services[i].ports # <<>>
    \/ \E i, j \in DOMAIN services : i # j /\ services[i].name = services[j].name

(* Environment keys are numbers, in the order sort.Strings gives them. *)
SortedKeys(env) == SetToSortSeq(DOMAIN env, <)

(* writeComposeService: the block of one service.  The count is not in it. *)
Block(s) ==
    [name    |-> s.name,
     image   |-> s.image,
     memory  |-> IF s.memory > 0 THEN s.memory ELSE 0,
     env     |-> LET keys == SortedKeys(s.env)
                 IN  [i \in DOMAIN keys |-> <<keys[i], s.env[keys[i]]>>],
     volumes |-> s.volumes,
     ports   |-> s.ports]

(* The YAML: one block per service, in order, and a final newline. *)
ComposeYAML(services) == Text([i \in DOMAIN services |-> Block(services[i])], 1)

(* The --scale arguments; docker compose does not mind their order. *)
ScaleArgs(services) ==
    {<<services[i].name, services[i].count>> :
        i \in {j \in DOMAIN services : Replicas(services[j]) > 1}}

(* The here-document of the write ends the text with one more newline. *)
HereDoc(text) == [text EXCEPT !.newlines = @ + 1]

(* What an interrupted write can leave: the first blocks, or just the newlines
   missing.                                                                   *)
Torn(text) == {Text(SubSeq(text.body, 1, n), 0) : n \in 0..Len(text.body)}

(* What docker compose runs for a service. *)
Container(image, memory, env, volumes, ports, replicas) ==
    [image |-> image, memory |-> memory, env |-> env, volumes |-> volumes,
     ports |-> ports, replicas |-> replicas]

(* docker compose up with the given file and --scale arguments. *)
UpService(text, scale, n) ==
    LET b == text.body[CHOOSE i \in DOMAIN text.body : text.body[i].name = n]
        k == {p \in scale : p[1] = n}
    IN  Container(b.image, b.memory, ToSet(b.env), b.volumes, b.ports,
                  IF k = {} THEN 1 ELSE (CHOOSE p \in k : TRUE)[2])

Up(text, scale) ==
    [n \in {text.body[i].name : i \in DOMAIN text.body} |-> UpService(text, scale, n)]

(* Reference: what a list of services asks for, read off the manifest. *)
Desired(services) ==
    [n \in {services[i].name : i \in DOMAIN services} |->
        LET s == services[CHOOSE i \in DOMAIN services : services[i].name = n]
        IN  Container(s.image, IF s.memory > 0 THEN s.memory ELSE 0,
                      {<<k, s.env[k]>> : k \in DOMAIN s.env},
                      s.volumes, s.ports,
                      IF s.count > 1 THEN s.count ELSE 1)]
==============================================================================
