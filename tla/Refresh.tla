------------------------------ MODULE Refresh ------------------------------
(***************************************************************************)
(* The refresh task: epg.go (beginRefresh, finishRefresh, refreshAsync,    *)
(* refresh, refreshLocked, shouldProtectProgramCache, lastRefreshAt,       *)
(* scheduler), the /refresh handler of http.go, saveSnapshot and counts of *)
(* cache.go, setChannels and the channel load of newGateway.               *)
(*                                                                         *)
(* A refresh passes the gate refreshState.Running, takes refreshMu, logs   *)
(* in, fetches the guide, and writes in this order: the snapshot           *)
(* (channels and programmes, one transaction), the channels in memory, the *)
(* time stamp (another transaction) and lastRefreshError, which no lock    *)
(* guards.  The goroutine of a manual refresh reports its error after it   *)
(* has left the gate.                                                      *)
(*                                                                         *)
(* A lineup stands for the channels of one portal page, each with a        *)
(* ChannelID of its own; of the programmes only their number matters: how  *)
(* many were fetched, and how many distinct keys they have, which is how   *)
(* many the store keeps.                                                   *)
(***************************************************************************)
EXTENDS Integers

CONSTANTS
  Manuals,       \* goroutines of /refresh
  Scheduler,     \* the scheduler goroutine
  Lineups,       \* channel lists the portal may hand out
  NoLineup,      \* no channels
  Free,          \* refreshMu is not held
  MaxPrograms,   \* bound: programmes one refresh can fetch
  RefreshHours,  \* refresh_hours, in clock ticks; 0 is allowed
  Hour,          \* one hour, in clock ticks: max(1, refresh_hours)
  RetryDelay,    \* 10 minutes, after a failed scheduled refresh
  BusyDelay,     \* 300 seconds, after finding a refresh running
  Protect,       \* protect_cache_on_empty_refresh
  MaxRestarts    \* bound: restarts of the process

Tasks == Manuals \cup {Scheduler}

ASSUME RefreshAssumption ==
  /\ Scheduler \notin Manuals
  /\ NoLineup \notin Lineups
  /\ Free \notin Tasks
  /\ MaxPrograms \in Nat /\ MaxRestarts \in Nat
  /\ RefreshHours \in Nat
  /\ Hour \in Nat \ {0}
  /\ RetryDelay \in Nat \ {0} /\ BusyDelay \in Nat \ {0}
  /\ Protect \in BOOLEAN

Interval == IF RefreshHours = 0 THEN Hour ELSE RefreshHours

(* What the workers bring back: programmes fetched, and their distinct keys. *)
Answers ==
  {a \in [raw : 0..MaxPrograms, distinct : 0..MaxPrograms] :
     a.distinct <= a.raw /\ (a.raw > 0 => a.distinct > 0)}

VARIABLES
  stored,       \* the snapshot in the store: lineup and number of programmes
  channels,     \* g.channels
  stamped,      \* key last_refresh_unix exists
  age,          \* how old that stamp is, up to Interval
  running,      \* refreshState.Running
  refreshMu,    \* owner of g.refreshMu
  refreshError, \* g.lastRefreshError # ""
  pc,           \* where each task is
  job,          \* the local variables of each task's refresh
  wait,         \* what is left of the scheduler's timer
  restarts,     \* restarts so far
  outcome,      \* history: how the last refresh that was due ended
  overtaken     \* history: when the last refresh that was due succeeded, an
                \* older one had yet to report its error

vars == <<stored, channels, stamped, age, running, refreshMu, refreshError,
          pc, job, wait, restarts, outcome, overtaken>>

Jobs == [force : BOOLEAN, failed : BOOLEAN, lineup : Lineups \cup {NoLineup},
         raw : Nat, distinct : Nat]

NoJob == [force |-> FALSE, failed |-> FALSE, lineup |-> NoLineup,
          raw |-> 0, distinct |-> 0]

Working == {"lock", "login", "fetch", "save", "publish", "stamp", "clear",
            "finish"}
Points  == Working \cup {"idle", "plan", "sleep", "due", "delay", "report"}

TypeOK ==
  /\ stored \in [lineup : Lineups \cup {NoLineup}, programs : Nat]
  /\ channels \in Lineups \cup {NoLineup}
  /\ stamped \in BOOLEAN
  /\ age \in 0..Interval
  /\ running \in BOOLEAN
  /\ refreshMu \in Tasks \cup {Free}
  /\ refreshError \in BOOLEAN
  /\ pc \in [Tasks -> Points]
  /\ job \in [Tasks -> Jobs]
  /\ wait \in Nat
  /\ restarts \in Nat
  /\ outcome \in {"none", "ok", "failed"}
  /\ overtaken \in BOOLEAN

(* Where a task is between refreshes.                                      *)
Rest(t) == IF t = Scheduler THEN "plan" ELSE "idle"

(* First start with an empty data directory; Restart reaches the others.   *)
Init ==
  /\ stored = [lineup |-> NoLineup, programs |-> 0]
  /\ channels = NoLineup
  /\ stamped = FALSE
  /\ age = 0
  /\ running = FALSE
  /\ refreshMu = Free
  /\ refreshError = FALSE
  /\ pc = [t \in Tasks |-> Rest(t)]
  /\ job = [t \in Tasks |-> NoJob]
  /\ wait = 0
  /\ restarts = 0
  /\ outcome = "none"
  /\ overtaken = FALSE

Goto(t, point) == pc' = [pc EXCEPT ![t] = point]

guide   == <<stored, channels, stamped, age>>
ending  == <<outcome, overtaken>>
history == <<restarts, ending>>

----------------------------------------------------------------------------
(* The running, and who passes it.                                            *)

(* Mutation of BeginRefresh: the gate is open to all.                      *)
BeginRefreshAlways(t, force) ==
  /\ running' = TRUE
  /\ job' = [job EXCEPT ![t] = [NoJob EXCEPT !.force = force]]
  /\ Goto(t, "lock")

(* beginRefresh: one task at a time.                                       *)
BeginRefresh(t, force) ==
  /\ ~running
  /\ running' = TRUE
  /\ job' = [job EXCEPT ![t] = [NoJob EXCEPT !.force = force]]
  /\ Goto(t, "lock")

(* /refresh: accepted (202) if the gate lets it pass; refused (409), which *)
(* changes nothing, otherwise.                                             *)
Submit(t, force) ==
  /\ pc[t] = "idle"
  /\ BeginRefresh(t, force)
  /\ UNCHANGED <<guide, refreshMu, refreshError, wait, history>>

(* The head of the scheduler's loop: how long until the guide is due.      *)
Plan ==
  /\ pc[Scheduler] = "plan"
  /\ wait' = IF stamped THEN Interval - age ELSE 0
  /\ Goto(Scheduler, IF wait' = 0 THEN "due" ELSE "sleep")
  /\ UNCHANGED <<guide, running, refreshMu, refreshError, job, history>>

(* A timer has run out: after the sleep the refresh is due, after a delay  *)
(* the loop starts over.                                                   *)
TimerFires ==
  /\ pc[Scheduler] \in {"sleep", "delay"}
  /\ wait = 0
  /\ Goto(Scheduler, IF pc[Scheduler] = "sleep" THEN "due" ELSE "plan")
  /\ UNCHANGED <<guide, running, refreshMu, refreshError, job, wait, history>>

(* refresh(ctx, false), or errRefreshRunning and another try later.        *)
ScheduledRefresh ==
  /\ pc[Scheduler] = "due"
  /\ \/ BeginRefresh(Scheduler, FALSE) /\ UNCHANGED wait
     \/ /\ running
        /\ wait' = BusyDelay
        /\ Goto(Scheduler, "delay")
        /\ UNCHANGED <<running, job>>
  /\ UNCHANGED <<guide, refreshMu, refreshError, history>>

----------------------------------------------------------------------------
(* refreshLocked.                                                          *)

(* Every error return: refreshMu is released and the error handed on.      *)
Fail(t) ==
  /\ job' = [job EXCEPT ![t].failed = TRUE]
  /\ refreshMu' = Free
  /\ outcome' = "failed" /\ overtaken' = FALSE
  /\ Goto(t, "finish")

StillFresh(t) ==
  ~job[t].force /\ stamped /\ age < RefreshHours

(* Mutation of LockRefresh: force decides nothing, no stamp is fresh.      *)
LockRefreshAlways(t) ==
  /\ pc[t] = "lock"
  /\ refreshMu = Free
  /\ Goto(t, "login")
  /\ refreshMu' = t
  /\ UNCHANGED <<guide, running, refreshError, job, wait, history>>

LockRefresh(t) ==
  /\ pc[t] = "lock"
  /\ refreshMu = Free
  /\ \/ StillFresh(t) /\ Goto(t, "finish") /\ UNCHANGED refreshMu
     \/ ~StillFresh(t) /\ Goto(t, "login") /\ refreshMu' = t
  /\ UNCHANGED <<guide, running, refreshError, job, wait, history>>

(* login() fails, or its page has no channels, or it has.                  *)
LoginAndParse(t) ==
  /\ pc[t] = "login"
  /\ \/ Fail(t) /\ refreshError' = TRUE
     \/ Fail(t) /\ UNCHANGED refreshError
     \/ /\ \E l \in Lineups : job' = [job EXCEPT ![t].lineup = l]
        /\ Goto(t, "fetch")
        /\ UNCHANGED <<refreshMu, ending, refreshError>>
  /\ UNCHANGED <<guide, running, wait, restarts>>

(* Mutation of Protected: the factor is on the wrong side.                 *)
ProtectedFromGrowth(oldCount, newCount) ==
  Protect /\ oldCount > 0 /\ newCount < oldCount * 2

(* shouldProtectProgramCache                                               *)
Protected(oldCount, newCount) ==
  Protect /\ (newCount = 0 \/ (oldCount > 0 /\ newCount * 2 < oldCount))

(* The workers are done; their programmes are counted against the store.   *)
Fetch(t, a) ==
  /\ pc[t] = "fetch"
  /\ \/ Protected(stored.programs, a.raw) /\ Fail(t)
     \/ /\ ~Protected(stored.programs, a.raw)
        /\ job' = [job EXCEPT ![t].raw = a.raw, ![t].distinct = a.distinct]
        /\ Goto(t, "save")
        /\ UNCHANGED <<refreshMu, ending>>
  /\ UNCHANGED <<guide, running, refreshError, wait, restarts>>

(* saveSnapshot: both buckets are replaced in one transaction, or none.    *)
Save(t) ==
  /\ pc[t] = "save"
  /\ \/ Fail(t) /\ UNCHANGED stored
     \/ /\ stored' = [lineup |-> job[t].lineup, programs |-> job[t].distinct]
        /\ Goto(t, "publish")
        /\ UNCHANGED <<job, refreshMu, ending>>
  /\ UNCHANGED <<channels, stamped, age, running, refreshError, wait, restarts>>

(* setChannels                                                             *)
Publish(t) ==
  /\ pc[t] = "publish"
  /\ channels' = job[t].lineup
  /\ Goto(t, "stamp")
  /\ UNCHANGED <<stored, stamped, age, running, refreshMu, refreshError, job,
                 wait, history>>

(* Mutation of Stamp: without its stamp the snapshot is saved once more.   *)
StampOrSaveAgain(t) ==
  /\ pc[t] = "stamp"
  /\ \/ stamped' = TRUE /\ age' = 0 /\ Goto(t, "clear")
     \/ UNCHANGED <<stamped, age>> /\ Goto(t, "save")
  /\ UNCHANGED <<stored, channels, running, refreshMu, refreshError, job, wait,
                 history>>

(* stateSet("last_refresh_unix"): its error is dropped.                    *)
Stamp(t) ==
  /\ pc[t] = "stamp"
  /\ \/ stamped' = TRUE /\ age' = 0
     \/ UNCHANGED <<stamped, age>>
  /\ Goto(t, "clear")
  /\ UNCHANGED <<stored, channels, running, refreshMu, refreshError, job, wait,
                 history>>

(* Mutation of ClearError: an old error outlives the success.              *)
ClearErrorNot(t) ==
  /\ pc[t] = "clear"
  /\ refreshMu' = Free
  /\ outcome' = "ok"
  /\ overtaken' = \E u \in Tasks : pc[u] = "report"
  /\ Goto(t, "finish")
  /\ UNCHANGED <<guide, running, job, wait, restarts, refreshError>>

(* lastRefreshError = "", and refreshMu is released.                       *)
ClearError(t) ==
  /\ pc[t] = "clear"
  /\ refreshError' = FALSE
  /\ refreshMu' = Free
  /\ outcome' = "ok"
  /\ overtaken' = \E u \in Tasks : pc[u] = "report"
  /\ Goto(t, "finish")
  /\ UNCHANGED <<guide, running, job, wait, restarts>>

(* Mutation of FinishRefresh: after an error the gate stays shut.          *)
FinishRefreshOnSuccess(t) ==
  /\ pc[t] = "finish"
  /\ running' = job[t].failed
  /\ Goto(t, IF job[t].failed THEN "report" ELSE Rest(t))
  /\ job' = [job EXCEPT ![t] = NoJob]
  /\ UNCHANGED <<guide, refreshMu, refreshError, wait, history>>

(* finishRefresh: the gate opens before the error is reported.             *)
FinishRefresh(t) ==
  /\ pc[t] = "finish"
  /\ running' = FALSE
  /\ Goto(t, IF job[t].failed THEN "report" ELSE Rest(t))
  /\ job' = [job EXCEPT ![t] = NoJob]
  /\ UNCHANGED <<guide, refreshMu, refreshError, wait, history>>

(* lastRefreshError = err.Error(), by the goroutine of refreshAsync or by  *)
(* the scheduler, which then waits before its next try.                    *)
ReportError(t) ==
  /\ pc[t] = "report"
  /\ refreshError' = TRUE
  /\ IF t = Scheduler
     THEN Goto(t, "delay") /\ wait' = RetryDelay
     ELSE Goto(t, "idle") /\ UNCHANGED wait
  /\ UNCHANGED <<guide, running, refreshMu, job, history>>

----------------------------------------------------------------------------
(* Time passes; the process dies and starts again.                         *)

Tick ==
  /\ age' = IF age < Interval THEN age + 1 ELSE age
  /\ wait' = IF wait > 0 THEN wait - 1 ELSE 0
  /\ UNCHANGED <<stored, channels, stamped, running, refreshMu, refreshError,
                 pc, job, history>>

(* Mutation of Restart: the channels are not loaded from the store.        *)
RestartEmpty ==
  /\ restarts < MaxRestarts
  /\ restarts' = restarts + 1
  /\ channels' = NoLineup
  /\ running' = FALSE
  /\ refreshMu' = Free
  /\ refreshError' = FALSE
  /\ pc' = [t \in Tasks |-> Rest(t)]
  /\ job' = [t \in Tasks |-> NoJob]
  /\ wait' = 0
  /\ outcome' = "none"
  /\ overtaken' = FALSE
  /\ UNCHANGED <<stored, stamped, age>>

(* newGateway loads the channels; snapshot and stamp are as they were left. *)
Restart ==
  /\ restarts < MaxRestarts
  /\ restarts' = restarts + 1
  /\ channels' = stored.lineup
  /\ running' = FALSE
  /\ refreshMu' = Free
  /\ refreshError' = FALSE
  /\ pc' = [t \in Tasks |-> Rest(t)]
  /\ job' = [t \in Tasks |-> NoJob]
  /\ wait' = 0
  /\ outcome' = "none"
  /\ overtaken' = FALSE
  /\ UNCHANGED <<stored, stamped, age>>

RefreshStep(t) ==
  \/ LockRefresh(t) \/ LoginAndParse(t)
  \/ \E a \in Answers : Fetch(t, a)
  \/ Save(t) \/ Publish(t) \/ Stamp(t) \/ ClearError(t)
  \/ FinishRefresh(t) \/ ReportError(t)

SchedulerStep == Plan \/ TimerFires \/ ScheduledRefresh

Next ==
  \/ \E t \in Manuals, force \in BOOLEAN : Submit(t, force)
  \/ \E t \in Tasks : RefreshStep(t)
  \/ SchedulerStep
  \/ Tick
  \/ Restart

Spec == Init /\ [][Next]_vars

(* Goroutines are scheduled and their I/O has timeouts, so every task and  *)
(* the scheduler move on; time passes.  Nobody has to call /refresh.       *)
Fairness ==
  /\ \A t \in Tasks : WF_vars(RefreshStep(t))
  /\ WF_vars(SchedulerStep)
  /\ WF_vars(Tick)

FairSpec == Spec /\ Fairness

----------------------------------------------------------------------------
(* Safety.                                                                 *)

(* At most one refresh is between beginRefresh and finishRefresh, and the  *)
(* gate is shut exactly then; refreshMu is therefore never waited for.     *)
OneRefresh ==
  /\ \A t, u \in Tasks : pc[t] \in Working /\ pc[u] \in Working => t = u
  /\ running <=> \E t \in Tasks : pc[t] \in Working
  /\ \A t \in Tasks : pc[t] = "lock" => refreshMu = Free

(* What a task publishes and stamps is still what the store holds: nobody  *)
(* else's snapshot slips in between its three writes.                      *)
StampVouches ==
  \A t \in Tasks : pc[t] \in {"publish", "stamp"} =>
    stored = [lineup |-> job[t].lineup, programs |-> job[t].distinct]

(* The channels served from memory are those of the stored snapshot, but   *)
(* for the moment between saveSnapshot and setChannels; a crash at any     *)
(* point does not separate them.                                           *)
MemoryIsStored ==
  (\A t \in Tasks : pc[t] # "publish") => channels = stored.lineup

(* With the protection on, a snapshot is replaced only by one whose fetch  *)
(* brought at least half as many programmes as the store held, and a guide *)
(* that is not empty never becomes empty.                                  *)
GuideProtected ==
  [][Protect /\ stored' # stored =>
       /\ stored'.programs > 0
       /\ \E t \in Tasks : pc[t] = "save" /\ job[t].raw * 2 >= stored.programs
    ]_vars

(* A refresh that was not forced never replaces a guide younger than       *)
(* refresh_hours, whatever was refreshed while it waited.                  *)
FreshGuideKept ==
  [][stored' # stored =>
       \E t \in Tasks : pc[t] = "save" /\
         (job[t].force \/ ~stamped \/ age >= RefreshHours)]_vars

(* When no error is on its way, /status.json shows one exactly if the last *)
(* refresh that was due failed.  Only a success that left an older error   *)
(* unreported may be covered by it, and only until the next refresh ends.  *)
StatusErrorHonest ==
  (~overtaken /\ \A t \in Tasks : pc[t] # "report" /\ ~job[t].failed)
    => ((outcome = "failed") => refreshError)
       /\ ((outcome = "ok") => ~refreshError)

(* The message of shouldProtectProgramCache: a refresh whose programme     *)
(* count is below half of the old cache does not replace it.               *)
GuideHalfKept ==
  [][Protect /\ stored' # stored => stored'.programs * 2 >= stored.programs]_vars

----------------------------------------------------------------------------
(* Refinement: an attempt of Guide lasts as long as refreshMu is held, and *)
(* its stage is where the holder is.                                       *)
Stage(t) ==
  IF pc[t] = "publish" THEN "replaced"
  ELSE IF pc[t] = "stamp" THEN "shown"
  ELSE IF pc[t] = "clear" THEN "over"
  ELSE IF job[t].force THEN "forced" ELSE "unforced"

Attempt == IF refreshMu = Free THEN "none" ELSE Stage(refreshMu)

Promised == INSTANCE Guide WITH attempt <- Attempt

(* To those who read the guide, all the tasks, their running, their lock and  *)
(* the scheduler's timer are one refresher that keeps the promise of Guide *)
(* at every step, through failures and restarts.                           *)
ImplementsGuide == Promised!GuideSpec

----------------------------------------------------------------------------
(* Liveness.                                                               *)

(* A guide that is due is tried, whether it was never fetched or has aged, *)
(* whatever failed before and whoever held the gate.                       *)
StaleGuideTried ==
  (~stamped \/ age = Interval) ~> \E t \in Tasks : pc[t] = "login"
=============================================================================
