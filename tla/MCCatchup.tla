----------------------------- MODULE MCCatchup -----------------------------
(* Small instances of Catchup: two requests for two programmes while a     *)
(* refresh renumbers them or drops one.                                    *)
EXTENDS Catchup, TLC

CallerSymmetry == Permutations(Callers) \cup Permutations(Keys)
=============================================================================
