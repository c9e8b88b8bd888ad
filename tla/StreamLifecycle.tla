--------------------------- MODULE StreamLifecycle ---------------------------
(************************************************************************** *)
(* What the player promises its listener and the sync thread obeys, with    *)
(* nothing said of threads, queues or flags: on_stream_start() and          *)
(* on_stream_end() come in pairs, and a stream is decoded only between the  *)
(* two of its own.  PlayerRole implements this when the server's messages   *)
(* are paced.                                                               *)
(************************************************************************** *)
EXTENDS Naturals

CONSTANT MaxStreams

VARIABLES
    heard,    \* the stream on_stream_start() was called for and on_stream_end() was not; 0 if none
    playing   \* the stream being decoded; 0 if none

lvars == <<heard, playing>>

LInit == heard = 0 /\ playing = 0

OnStart(n) == heard = 0 /\ playing = 0 /\ heard' = n /\ UNCHANGED playing
Play == heard # 0 /\ playing = 0 /\ playing' = heard /\ UNCHANGED heard
Idle == playing # 0 /\ playing' = 0 /\ UNCHANGED heard
OnEnd == heard # 0 /\ playing = 0 /\ heard' = 0 /\ UNCHANGED playing

LNext == Play \/ Idle \/ OnEnd \/ \E n \in 1..MaxStreams : OnStart(n)

LSpec == LInit /\ [][LNext]_lvars
=============================================================================
