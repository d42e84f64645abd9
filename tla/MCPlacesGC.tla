----------------------------- MODULE MCPlacesGC -----------------------------
(* PlacesGC for TLC.  No symmetry: liveness is checked.                    *)
EXTENDS PlacesGC

CONSTANTS main, a, b  \* model values
=============================================================================
