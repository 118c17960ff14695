------------------------------- MODULE Install -------------------------------
(* What installing a payload in one file of the target server promises to the
   code that calls it, whatever commands carry it out: gs touches the file only
   while a call is outstanding, it leaves there the payload, a torn prefix of
   it or what was there, and it reports success for a non-empty payload only
   when the file holds it, unless somebody else interfered with the file.     *)
CONSTANTS
    Contents,    \* the byte strings a file can hold
    Payloads,    \* the ones gs is asked to install
    Absent,      \* no file
    Size,        \* length in bytes
    Torn         \* what an interrupted write of a content can leave

VARIABLES
    file,        \* the file on the target
    data,        \* payload of the last call
    status,      \* "idle", "busy", "ok" or "error"
    view,        \* "stale" once somebody else wrote the file since gs looked
    late         \* payloads of writes whose connection was lost, still under way

vars == <<file, data, status, view, late>>

Init ==
    /\ file \in Contents \cup {Absent}
    /\ data \in Payloads
    /\ status = "idle"
    /\ view = "fresh"
    /\ late = {}

Call(d) ==
    /\ status # "busy"
    /\ data' = d
    /\ status' = IF Size[d] = 0 THEN "ok" ELSE "busy"
    /\ UNCHANGED <<file, view, late>>

Look ==
    /\ status = "busy"
    /\ view' = "fresh"
    /\ UNCHANGED <<file, data, status, late>>

Put ==
    /\ status = "busy"
    /\ file' \in {data} \cup Torn[data]
    /\ status' \in {"busy", "error"}
    /\ UNCHANGED <<data, view, late>>

Delay ==
    /\ status = "busy"
    /\ late' = late \cup {data}
    /\ status' \in {"error", "idle"}
    /\ UNCHANGED <<file, data, view>>

Succeed ==
    /\ status = "busy"
    /\ view = "stale" \/ file = data
    /\ status' = "ok"
    /\ UNCHANGED <<file, data, view, late>>

GiveUp ==
    /\ status = "busy"
    /\ status' \in {"error", "idle"}
    /\ UNCHANGED <<file, data, view, late>>

(* The rest of the world: other programs of the target, and a delayed write. *)
Interfere ==
    /\ file' \in Contents \cup {Absent}
    /\ view' = "stale"
    /\ late' \subseteq late
    /\ UNCHANGED <<data, status>>

Next ==
    \/ \E d \in Payloads : Call(d)
    \/ Look \/ Put \/ Delay \/ Succeed \/ GiveUp
    \/ Interfere

Spec == Init /\ [][Next]_vars
==============================================================================
