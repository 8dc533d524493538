--------------------------- MODULE MCServerProcess ---------------------------
(* Small instance of ServerProcess: two clients, handlers of one           *)
(* transaction and of two.                                                 *)
EXTENDS ServerProcess

MCTxCounts == {1, 2}
=============================================================================
