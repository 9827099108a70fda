------------------------------- MODULE Tables --------------------------------
(***************************************************************************)
(* Tables as functions, built of single entries and of other tables.  The  *)
(* operators :> and @@ of the module TLC do the same, but no prover can    *)
(* expand those.                                                           *)
(***************************************************************************)
Single(d, e) == [x \in {d} |-> e]

\* Where both tables have an entry, the first one's counts.
Overlay(f, g) ==
  [x \in DOMAIN f \cup DOMAIN g |-> IF x \in DOMAIN f THEN f[x] ELSE g[x]]
=============================================================================
