------------------------------- MODULE Window --------------------------------
(***************************************************************************)
(* The window: the chats' attention and the players share one event loop,  *)
(* and the players work for the chat that is open.  The process takes both *)
(* with it.                                                                *)
(***************************************************************************)
EXTENDS Attention, Players

ASSUME WindowConstantsOK == DOMAIN Pictures = Chats

WindowInit == AttentionInit /\ PlayersIdle /\ LoopInit

Restart ==
  /\ Exit \/ Crash
  /\ viewer' = [open |-> FALSE, busy |-> FALSE, shown |-> "none"] /\ slides' = NoSlides
  /\ decoded' = {} /\ reads' = EmptyBag /\ fetches' = EmptyBag
  /\ film' = NoFilm /\ films' = EmptyBag
  /\ mic' = [on |-> FALSE, shown |-> FALSE, secs |-> 0] /\ tickers' = EmptyBag
  /\ wanted' = "none" /\ crossed' = FALSE /\ missed' = {} /\ late' = FALSE
  /\ hasty' = FALSE

WindowNext ==
  \/ AttentionRuns /\ UNCHANGED players
  \/ PlayersNext(Open) /\ UNCHANGED awareness
  \/ Restart
WindowSpec == WindowInit /\ [][WindowNext]_<<loop, awareness, players>>
=============================================================================
