-------------------------- MODULE MCVisualizerRole --------------------------
(* VisualizerRole with a ring of few entries.                              *)
EXTENDS VisualizerRole
=============================================================================
