------------------------------ MODULE FetchAll ------------------------------
(***************************************************************************)
(* What the fetch pool of refreshLocked (epg.go) promises: every pair of   *)
(* channel and date is fetched and its result counted exactly once, and    *)
(* the refresh goes on only when all are; a cancelled refresh may lose     *)
(* results, but never more than one per worker.                            *)
(***************************************************************************)
EXTENDS Naturals

CONSTANTS N,        \* how many pairs of channel and date there are
          Workers   \* the worker goroutines

Jobs == 1..N

VARIABLES got,        \* results counted, by job
          collected,  \* the refresh has gone on with what it has
          cancelled   \* the context was cancelled

allVars == <<got, collected, cancelled>>

FetchInit ==
  /\ got = [j \in Jobs |-> 0]
  /\ collected = FALSE
  /\ cancelled = FALSE

Deliver(j) ==
  /\ ~collected
  /\ got[j] = 0
  /\ got' = [got EXCEPT ![j] = 1]
  /\ UNCHANGED <<collected, cancelled>>

Missing == {j \in Jobs : got[j] = 0}

(* One missing result for each worker at most.                             *)
OnePerWorker(missing) ==
  \E lost \in [Workers -> Jobs] : missing \subseteq {lost[w] : w \in Workers}

GoOn ==
  /\ ~collected
  /\ Missing # {} => cancelled /\ OnePerWorker(Missing)
  /\ collected' = TRUE
  /\ UNCHANGED <<got, cancelled>>

CancelFetch ==
  /\ cancelled' = TRUE
  /\ UNCHANGED <<got, collected>>

FetchNext == (\E j \in Jobs : Deliver(j)) \/ GoOn \/ CancelFetch

FetchAllSpec == FetchInit /\ [][FetchNext]_allVars
=============================================================================
