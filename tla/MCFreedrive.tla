----------------------------- MODULE MCFreedrive -----------------------------
(* One arm, a bounded number of hand movements.                            *)
EXTENDS Freedrive
=============================================================================
