----------------------------- MODULE MCTransport -----------------------------
(* One file and the rest, empty or not: archives of 2 to 9 units. *)
EXTENDS Transport

MCContents == {0, 2}
MCSize == [c \in MCContents |-> c]
==============================================================================
