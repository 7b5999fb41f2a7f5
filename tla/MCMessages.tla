----------------------------- MODULE MCMessages -----------------------------
(***************************************************************************)
(* Messages for TLC: its readers are interchangeable.                      *)
(***************************************************************************)
EXTENDS Messages, TLC

Symmetry == Permutations(Readers)
=============================================================================
