--------------------------- MODULE MCAudioEngine ---------------------------
(* AudioEngine with a ring of a few frames.                                *)
EXTENDS AudioEngine
=============================================================================
