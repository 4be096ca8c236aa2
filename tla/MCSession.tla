----------------------------- MODULE MCSession -----------------------------
(* Small instances of Session: requests that race each other and a refresh *)
(* for loginMu, with a session that can expire while they wait.            *)
EXTENDS Session, TLC

RequestSymmetry == Permutations(Requests)
=============================================================================
