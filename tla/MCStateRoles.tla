---------------------------- MODULE MCStateRoles ----------------------------
(* StateRoles with one role of each kind that keeps a state.               *)
EXTENDS StateRoles
CONSTANTS controller, metadata, group, title, artist
OneOfEach == <<controller, metadata, group>>
=============================================================================
