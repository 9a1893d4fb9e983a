-------------------------- MODULE MCSignalGenerator --------------------------
(* A generator of two channels with a memory of four addresses.              *)
EXTENDS SignalGenerator, TLC

\* The names are interchangeable.
Symmetry == Permutations(Names)
=============================================================================
