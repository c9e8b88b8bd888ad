--------------------------- MODULE MCPlayerRole ---------------------------
(* PlayerRole on small instances.  The .cfg files choose the bounds and what *)
(* the server, the network and the application may do without waiting.       *)
EXTENDS PlayerRole

MCTags == (1..MaxStreams) \X (0..MaxSeeks)
============================================================================
