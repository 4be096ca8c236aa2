----------------------------- MODULE FetchPool -----------------------------
(***************************************************************************)
(* The worker pool of refreshLocked (epg.go): a feeder goroutine, workers, *)
(* the two unbuffered channels jobs and results, the WaitGroup, and the    *)
(* refresh itself, which ranges over results.                              *)
(*                                                                         *)
(* An unbuffered channel is a rendezvous: the sender's and the receiver's  *)
(* step are one.  A worker looks at the context between taking a job and   *)
(* fetching it; fetchPrograms itself always returns a result, empty when   *)
(* the request failed.                                                     *)
(***************************************************************************)
EXTENDS Naturals

CONSTANTS
  N,        \* jobs: channels times dates
  Workers   \* max(1, epg_concurrency) goroutines

ASSUME PoolAssumption == N \in Nat /\ Workers # {}

Jobs == 1..N

VARIABLES
  next,       \* the job the feeder offers next
  feeder,     \* "feed", "wait" (jobs closed, in wg.Wait) or "gone"
  pc,         \* each worker: "take", "check", "send", "drained" or "quit"
  held,       \* the job each worker took last, 0 before the first
  got,        \* how often the result of each job was appended to programs
  collected,  \* the range over results has ended
  cancelled   \* ctx.Done() is closed

vars == <<next, feeder, pc, held, got, collected, cancelled>>

TypeOK ==
  /\ next \in 1..(N + 1)
  /\ feeder \in {"feed", "wait", "gone"}
  /\ pc \in [Workers -> {"take", "check", "send", "drained", "quit"}]
  /\ held \in [Workers -> 0..N]
  /\ got \in [Jobs -> Nat]
  /\ collected \in BOOLEAN
  /\ cancelled \in BOOLEAN

Init ==
  /\ next = 1
  /\ feeder = "feed"
  /\ pc = [w \in Workers |-> "take"]
  /\ held = [w \in Workers |-> 0]
  /\ got = [j \in Jobs |-> 0]
  /\ collected = FALSE
  /\ cancelled = FALSE

Goto(w, point) == pc' = [pc EXCEPT ![w] = point]

JobsClosed    == feeder # "feed"
ResultsClosed == feeder = "gone"

(* jobs <- job{ch, d} meets the range over jobs of worker w.               *)
Feed(w) ==
  /\ feeder = "feed" /\ next <= N /\ pc[w] = "take"
  /\ held' = [held EXCEPT ![w] = next]
  /\ next' = next + 1
  /\ Goto(w, "check")
  /\ UNCHANGED <<feeder, got, collected, cancelled>>

(* Mutation of CloseJobs: never reached.                                   *)
CloseJobsOffByOne ==
  /\ feeder = "feed" /\ next > N + 1
  /\ feeder' = "wait"
  /\ UNCHANGED <<next, pc, held, got, collected, cancelled>>

(* Every job has been taken: close(jobs).                                  *)
CloseJobs ==
  /\ feeder = "feed" /\ next > N
  /\ feeder' = "wait"
  /\ UNCHANGED <<next, pc, held, got, collected, cancelled>>

(* The range over jobs ends: wg.Done().                                    *)
Drained(w) ==
  /\ pc[w] = "take" /\ JobsClosed
  /\ Goto(w, "drained")
  /\ UNCHANGED <<next, feeder, held, got, collected, cancelled>>

(* Mutation of Check: a cancelled worker drops its job and goes on.        *)
CheckGoesOn(w) ==
  /\ pc[w] = "check"
  /\ Goto(w, IF cancelled THEN "take" ELSE "send")
  /\ UNCHANGED <<next, feeder, held, got, collected, cancelled>>

(* select on ctx.Done(): the worker returns with its job undone, or        *)
(* fetches.                                                                *)
Check(w) ==
  /\ pc[w] = "check"
  /\ Goto(w, IF cancelled THEN "quit" ELSE "send")
  /\ UNCHANGED <<next, feeder, held, got, collected, cancelled>>

(* results <- g.fetchPrograms(...) meets the range over results.           *)
Send(w) ==
  /\ pc[w] = "send" /\ ~ResultsClosed /\ ~collected
  /\ got' = [got EXCEPT ![held[w]] = @ + 1]
  /\ Goto(w, "take")
  /\ UNCHANGED <<next, feeder, held, collected, cancelled>>

(* Mutation of CloseResults: without wg.Wait.                              *)
CloseResultsUnwaited ==
  /\ feeder = "wait"
  /\ feeder' = "gone"
  /\ UNCHANGED <<next, pc, held, got, collected, cancelled>>

(* wg.Wait() returns: close(results).                                      *)
CloseResults ==
  /\ feeder = "wait"
  /\ \A w \in Workers : pc[w] \in {"drained", "quit"}
  /\ feeder' = "gone"
  /\ UNCHANGED <<next, pc, held, got, collected, cancelled>>

(* The range over results ends and the refresh goes on.                    *)
Collected ==
  /\ ResultsClosed /\ ~collected
  /\ collected' = TRUE
  /\ UNCHANGED <<next, feeder, pc, held, got, cancelled>>

(* The process is told to stop.                                            *)
Cancel ==
  /\ ~cancelled
  /\ cancelled' = TRUE
  /\ UNCHANGED <<next, feeder, pc, held, got, collected>>

WorkerStep(w) == Drained(w) \/ Check(w) \/ Send(w)

PoolStep ==
  \/ \E w \in Workers : Feed(w) \/ WorkerStep(w)
  \/ CloseJobs \/ CloseResults \/ Collected

Next == PoolStep \/ Cancel

Spec == Init /\ [][Next]_vars

(* Goroutines are scheduled and fetchPrograms has a timeout.               *)
FairSpec == Spec /\ WF_vars(PoolStep)

----------------------------------------------------------------------------
(* No send on a closed channel, which would panic: results is closed only  *)
(* after the last worker has stopped sending.                              *)
NoSendOnClosed ==
  ResultsClosed => \A w \in Workers : pc[w] \notin {"take", "check", "send"}

(* A job is with one worker at most, and not again once its result is in.  *)
Holding(w) == pc[w] \in {"check", "send", "quit"}

OneHolder ==
  \A w \in Workers : Holding(w) =>
    /\ got[held[w]] = 0
    /\ \A v \in Workers : Holding(v) /\ held[v] = held[w] => v = w

(* The pool does what FetchAll promises.                                   *)
Promise == INSTANCE FetchAll
PromiseKept == Promise!FetchAllSpec

(* Every worker has returned with a job it did not fetch, and the feeder   *)
(* offers the next one to nobody.                                          *)
Abandoned ==
  /\ cancelled /\ feeder = "feed" /\ next <= N
  /\ \A w \in Workers : pc[w] = "quit"

(* The refresh gets past the pool, cancelled or not, unless all workers    *)
(* have left jobs behind: there is no other way for the pool to hang.      *)
FetchEnds == <>(collected \/ Abandoned)
=============================================================================
