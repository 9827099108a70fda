------------------------------ MODULE FirstFit ------------------------------
(***************************************************************************)
(* The tables and lists of the simulator are searched from their start:    *)
(* a search that looks for one of a set of places finds the first.         *)
(***************************************************************************)
EXTENDS Integers

First(S) == CHOOSE i \in S : \A j \in S : i <= j
=============================================================================
