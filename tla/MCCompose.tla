------------------------------ MODULE MCCompose ------------------------------
(* Ann has a mailbox on this server and a key in the directory; Bob has    *)
(* neither, and the address book is empty.                                 *)
EXTENDS Compose

MCDirectory == [x \in Addresses |-> IF x = "ann" THEN [key |-> "kAnn", source |-> "local"]
                                    ELSE None]
MCKnownKeys == [x \in Addresses |-> None]
=============================================================================
