------------------------------- MODULE MCWindow -------------------------------
(* An instance of Window for TLC: two chats, of which marmot lists one or    *)
(* both at start, with two pictures in the one and one in the other.  Each   *)
(* plan brings together operations that can disturb each other.              *)
EXTENDS Window, TLC

CONSTANTS ann, bob, hello, p1, p2, p3, v1, v2

Lists  == {<<ann>>, <<ann, bob>>}
Albums == (ann :> <<p1, p2>>) @@ (bob :> <<p3>>)

Reading   == [tick |-> 1, arrive |-> 2, select |-> 1, merge |-> 1]
Switching == [tick |-> 1, arrive |-> 2, switch |-> 1]
Noticing  == [tick |-> 1, arrive |-> 2, refire |-> 1, page |-> 1]
Silencing == [tick |-> 1, arrive |-> 1, refire |-> 1, mute |-> 2]
Writing   == [type |-> 2, select |-> 2, edit |-> 1, exit |-> 1, refresh |-> 1]
Moving    == [type |-> 1, select |-> 1, join |-> 1, refresh |-> 1, switch |-> 1,
              crash |-> 1]
Looking   == [look |-> 2, leaf |-> 2, select |-> 1]
Drifting  == [look |-> 1, leaf |-> 1, switch |-> 1]
Watching  == [watch |-> 2]
Recording == [record |-> 2, cancel |-> 1]
Uses == {Reading, Switching, Noticing, Silencing, Writing, Moving, Looking, Drifting, Watching,
         Recording}
=============================================================================
