----------------------------- MODULE MCFrameRing -----------------------------
(* One reader, two words, two slots: the writer can lap the reader.        *)
EXTENDS FrameRing, TLC

(* The words are copied in any order and only compared with each other.    *)
WordSymmetry == Permutations(Words)
=============================================================================
