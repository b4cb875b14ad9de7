------------------------------ MODULE MCChatView ------------------------------
(* Instances of ChatView for TLC: the account has a chat q and is given its *)
(* "Saved Messages" s while the window is up; x arrives in q, the user      *)
(* sends o.                                                                 *)
EXTENDS ChatView, TLC

CONSTANTS q, s, x, o

JustQ  == <<q>>
InQ    == [m \in Foreign |-> q]

QThenS == <<q, s>>

(* Every operation once, selections twice; MaxOps bounds the combinations.  *)
Twice  == [k \in Limited |-> IF k = "select" THEN 2 ELSE 1]
SelectAndPin == [k \in Limited |-> IF k \in {"select", "pin"} THEN 1 ELSE 0]
=============================================================================
