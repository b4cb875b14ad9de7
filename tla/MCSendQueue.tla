----------------------------- MODULE MCSendQueue ------------------------------
(* Instances of SendQueue for TLC: one chat, which both accounts are in.   *)
EXTENDS SendQueue, TLC

CONSTANTS t, f, w,     \* a text, a forward, an attachment
          a, b,        \* accounts
          g            \* the chat

JustText     == t :> "text"
TextAndMedia == t :> "text" @@ w :> "media"
TextAndForward == t :> "text" @@ f :> "forward"

InOneChat    == [m \in Msgs |-> g]
OwnBodies    == [m \in Msgs |-> m]
AllInChat    == [x \in Accounts |-> {g}]
OnlyFirst    == [x \in Accounts |-> IF x = a THEN {g} ELSE {}]

(* The two accounts are interchangeable in these instances.                *)
Swaps        == Permutations(Accounts)

(* Budgets of the environment.                                             *)
Calm     == [x \in Faults |-> 0]
Relays   == [Calm EXCEPT !["outage"] = 1, !["error"] = 1]
Restarts == [Calm EXCEPT !["crash"] = 1, !["outage"] = 1]
Hostile  == [Calm EXCEPT !["crash"] = 1, !["outage"] = 1, !["switch"] = 1,
                         !["reset"] = 1, !["diskFull"] = 1]
OneCrash == [Calm EXCEPT !["crash"] = 1]
OneOutage == [Calm EXCEPT !["outage"] = 1]
TwoSwitches == [Calm EXCEPT !["switch"] = 2]
=============================================================================
