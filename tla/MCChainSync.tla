---------------------------- MODULE MCChainSync ----------------------------
(***************************************************************************)
(* A small instance of ChainSync for TLC: two logs of the game, one of     *)
(* which completes a queue, and two of other contracts; one of each is of  *)
(* a kind that is restored.                                                *)
(***************************************************************************)
EXTENDS ChainSync

MCGameLogs == {"completed", "renamed"}
MCOtherLogs == {"alliance", "invite"}
MCCompletions == {"completed"}
MCRestored == {"completed", "invite"}
MCTogether == {{"completed", "alliance"}, {"renamed", "invite"}}
=============================================================================
