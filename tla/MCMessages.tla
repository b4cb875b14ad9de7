------------------------------ MODULE MCMessages ------------------------------
(* An instance of Messages for TLC: account a's voice clip m1 and an image   *)
(* m2 of somebody else are stored, an album m3 of the latter arrives more    *)
(* than a group's span later; account b is in the chat as well.              *)
EXTENDS Messages, TLC

CONSTANTS a, b, m1, m2, m3, k1, k2, k3, v, w, h

Stored2  == <<m1, m2>>
Authors  == (m1 :> a) @@ (m2 :> "peer") @@ (m3 :> "peer")
Minutes  == (m1 :> 0) @@ (m2 :> 1) @@ (m3 :> 3)
KeysOf   == (m1 :> {k1}) @@ (m2 :> {k2}) @@ (m3 :> {k3})
KindOf   == (m1 :> "audio") @@ (m2 :> "image") @@ (m3 :> "album")
Once     == [o \in Limited |-> CASE o = "edit" -> 2 [] o = "select" -> 0 [] OTHER -> 1]

Tried    == [o \in Limited |->
               CASE o = "receive" -> {m3} [] o = "peer" -> {m1} [] OTHER -> Msgs]

Symmetry == Permutations({v, w})
=============================================================================
