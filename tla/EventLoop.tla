------------------------------ MODULE EventLoop ------------------------------
(***************************************************************************)
(* The window's event loop, as the modules of the window share it: worker  *)
(* threads post closures, which run one at a time in the order they were   *)
(* posted.  What the user and the outside may do is drawn from a plan, so  *)
(* that TLC can bound it.                                                  *)
(***************************************************************************)
EXTENDS Integers, Sequences, SequencesExt, FiniteSets

CONSTANTS
  Plans,   \* bound: how often each operation may happen, one plan per behaviour
  MaxOps   \* bound: how many of them together, the clock's ticks apart

ASSUME LoopConstantsOK ==
  MaxOps \in Nat /\ \A p \in Plans : \A o \in DOMAIN p : p[o] \in Nat

VARIABLES
  uiq,     \* closures posted with invoke_from_event_loop
  allowed, \* what is left of the plan
  budget   \* what is left of MaxOps

plan == <<allowed, budget>>
loop == <<uiq, plan>>

LoopInit == uiq = <<>> /\ allowed \in Plans /\ budget = MaxOps

Post(c)    == uiq' = Append(uiq, c)
Turn(k)    == uiq # <<>> /\ Head(uiq).kind = k
Take(more) == uiq' = Tail(uiq) \o more
Queued(k)  == \E i \in DOMAIN uiq : uiq[i].kind = k

(* Something the plan allows happens; most of it also counts as one of all. *)
Draw(o) ==
  /\ o \in DOMAIN allowed /\ allowed[o] > 0
  /\ allowed' = [allowed EXCEPT ![o] = @ - 1]
Spend(o) == Draw(o) /\ budget > 0 /\ budget' = budget - 1
=============================================================================
