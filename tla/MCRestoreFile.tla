---------------------------- MODULE MCRestoreFile ----------------------------
(* A small instance of RestoreFile: byte strings over two bytes.  The digest is
   the last byte, so that contents of different sizes share a digest, and the
   payloads include one that is as long as another, the empty one and one that
   is too long for a command.  What others write is one of the payloads, whole or
   torn: all that another gs can leave.                                       *)
EXTENDS RestoreFile, Sequences

MCPayloads == {<<1, 2>>, <<2, 1>>, <<>>, <<1, 2, 1, 1>>}
MCForeign  == {<<2>>, <<2, 1>>}
MCContents == MCPayloads \cup MCForeign \cup {<<1>>, <<1, 2, 1>>}
MCSize     == [c \in MCContents |-> Len(c)]
MCDigest   == [c \in MCContents |-> IF c = <<>> THEN 0 ELSE c[Len(c)]]
MCTorn     == [c \in MCContents |-> {SubSeq(c, 1, n) : n \in 0..(Len(c) - 1)}]
==============================================================================
