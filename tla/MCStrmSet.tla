----------------------------- MODULE MCStrmSet -----------------------------
(* A side with the device itself and two other sources.                    *)
EXTENDS StrmSet

ThreeSources == {0, 1, 2}
=============================================================================
