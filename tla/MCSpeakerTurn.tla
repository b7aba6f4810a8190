---------------------------- MODULE MCSpeakerTurn ----------------------------
(* A small instance of SpeakerTurn for TLC.                                *)
EXTENDS SpeakerTurn, TLC

\* All participants but Haruhi are interchangeable, and so are batch ids.
Symmetry == Permutations(Participants \ {Haruhi}) \union Permutations(Batches)
=============================================================================
