-------------------------- MODULE MCPlaceChannels ---------------------------
(* PlaceChannels for TLC.  No symmetry: liveness is checked.               *)
EXTENDS PlaceChannels

CONSTANTS main, a, b  \* model values
=============================================================================
