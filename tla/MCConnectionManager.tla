----------------------- MODULE MCConnectionManager -----------------------
(* ConnectionManager with named connections; the .cfg files choose which of *)
(* them are accepted and which are dialled.                                 *)
EXTENDS ConnectionManager, TLC

CONSTANTS i1, i2, o1, o2, home, away

(* Two accepted connections from two servers.                               *)
TwoServers == [c \in Conns |-> IF c = i1 THEN home ELSE away]

(* All connections lead to one server, and the dialled ones are alike.      *)
OneServer == [c \in Conns |-> home]
Dialled == Permutations(Outbound)
==========================================================================
