--------------------------- MODULE RefreshProofs ---------------------------
(***************************************************************************)
(* Proofs about Refresh for any number of manual refreshes, any intervals, *)
(* any delays, any number of restarts and any programme counts.            *)
(*                                                                         *)
(* The gate alone makes a refresh exclusive; who holds refreshMu, what was *)
(* checked before the save, and who may still have an error to report are  *)
(* what the checked invariants lack to be inductive.                       *)
(***************************************************************************)
EXTENDS Refresh, TLAPS

Locked == {"login", "fetch", "save", "publish", "stamp", "clear"}

(* refreshMu is held exactly by the task inside refreshLocked.             *)
MuOwned == \A t \in Tasks : refreshMu = t <=> pc[t] \in Locked

(* A failure is carried from refreshLocked to finishRefresh and no further. *)
FailedAtFinish ==
  \A t \in Tasks : job[t].failed => pc[t] = "finish" /\ outcome = "failed"

(* An error that is still to be reported is that of the last refresh, or   *)
(* that one succeeded and is known to be overtaken.                        *)
ReportsKnown ==
  \A t \in Tasks : pc[t] = "report" => outcome = "failed" \/ overtaken

(* What was checked against the store before the save is still true.       *)
SaveAllowed ==
  \A t \in Tasks : pc[t] = "save" /\ Protect =>
    job[t].distinct > 0 /\ job[t].raw * 2 >= stored.programs

(* What the freshness check found is still true at the save.               *)
DueOrForced ==
  \A t \in Tasks : pc[t] \in {"login", "fetch", "save"} =>
    job[t].force \/ ~stamped \/ age >= RefreshHours

IInv ==
  /\ TypeOK
  /\ OneRefresh
  /\ MuOwned
  /\ FailedAtFinish
  /\ ReportsKnown
  /\ StatusErrorHonest
  /\ SaveAllowed
  /\ DueOrForced
  /\ StampVouches
  /\ MemoryIsStored

LEMMA NoJobType == NoJob \in Jobs /\ ~NoJob.failed
BY DEF NoJob, Jobs

LEMMA IntervalType == Interval \in Nat \ {0} /\ Interval >= RefreshHours
BY RefreshAssumption DEF RefreshAssumption, Interval

LEMMA RestType ==
  \A t : Rest(t) \in {"plan", "idle"} /\ Rest(t) \in Points \ Working
BY DEF Rest, Points, Working

LEMMA InitIInv == Init => IInv
<1> SUFFICES ASSUME Init PROVE IInv
  OBVIOUS
<1> USE RefreshAssumption, NoJobType, IntervalType, RestType
    DEF RefreshAssumption, Init
<1>1. TypeOK
  <2>1. pc \in [Tasks -> Points] /\ job \in [Tasks -> Jobs]
    OBVIOUS
  <2>2. age \in 0..Interval /\ wait \in Nat /\ restarts \in Nat
    OBVIOUS
  <2>3. stored \in [lineup : Lineups \cup {NoLineup}, programs : Nat]
    OBVIOUS
  <2> QED
    BY <2>1, <2>2, <2>3, Zenon DEF TypeOK
<1>2. OneRefresh /\ MuOwned
  BY DEF OneRefresh, MuOwned, Locked, Working
<1>3. FailedAtFinish /\ ReportsKnown /\ StatusErrorHonest
  BY DEF FailedAtFinish, ReportsKnown, StatusErrorHonest
<1>4. SaveAllowed /\ DueOrForced /\ StampVouches /\ MemoryIsStored
  BY DEF SaveAllowed, DueOrForced, StampVouches, MemoryIsStored
<1> QED
  BY <1>1, <1>2, <1>3, <1>4 DEF IInv

(* A refresh that begins.                                                  *)
LEMMA BeginIInv ==
  ASSUME IInv, NEW t \in Tasks, NEW force \in BOOLEAN,
         pc[t] \in {"idle", "due"}, BeginRefresh(t, force),
         UNCHANGED <<guide, refreshMu, refreshError, wait, history>>
  PROVE  IInv'
<1> USE DEF BeginRefresh, Goto, guide, history, ending
<1>0. /\ \A u \in Tasks : pc[u] \notin Working
      /\ pc' = [pc EXCEPT ![t] = "lock"]
      /\ \A u \in Tasks : pc'[u] = IF u = t THEN "lock" ELSE pc[u]
      /\ \A u \in Tasks : u # t => job'[u] = job[u]
      /\ job'[t] \in Jobs /\ ~job'[t].failed
  BY NoJobType DEF IInv, OneRefresh, TypeOK, Jobs, NoJob
<1>1. TypeOK'
  <2>1. pc' \in [Tasks -> Points] /\ job' \in [Tasks -> Jobs]
    BY <1>0 DEF IInv, TypeOK, Points, Working
  <2>2. running' \in BOOLEAN
    BY Zenon
  <2> QED
    BY <2>1, <2>2, Zenon DEF IInv, TypeOK
<1>2. OneRefresh'
  BY <1>0, RefreshAssumption
  DEF IInv, OneRefresh, MuOwned, Locked, Working, TypeOK
<1>3. MuOwned'
  BY <1>0 DEF IInv, MuOwned, Locked
<1>4. FailedAtFinish' /\ ReportsKnown' /\ StatusErrorHonest'
  BY <1>0 DEF IInv, FailedAtFinish, ReportsKnown, StatusErrorHonest, Working
<1>5. SaveAllowed' /\ DueOrForced' /\ StampVouches' /\ MemoryIsStored'
  BY <1>0 DEF IInv, SaveAllowed, DueOrForced, StampVouches, MemoryIsStored
<1> QED
  BY <1>1, <1>2, <1>3, <1>4, <1>5 DEF IInv

(* A refresh that works is alone, and refreshMu is free before and after.  *)
LEMMA Alone ==
  ASSUME IInv, NEW t \in Tasks, pc[t] \in Working
  PROVE  /\ running
         /\ \A u \in Tasks : u # t => pc[u] \notin Working
         /\ \A u \in Tasks : u # t => ~job[u].failed
         /\ refreshMu \in {t, Free}
<1>1. \A u \in Tasks : u # t => pc[u] \notin Working
  BY DEF IInv, OneRefresh
<1> QED
  BY <1>1 DEF IInv, OneRefresh, FailedAtFinish, MuOwned, Locked, TypeOK,
              Working

(* Steps inside a refresh that fail.                                       *)
LEMMA FailIInv ==
  ASSUME IInv, NEW t \in Tasks, pc[t] \in {"login", "fetch", "save"}, Fail(t),
         refreshError' \in BOOLEAN,
         UNCHANGED <<guide, running, wait, restarts>>
  PROVE  IInv'
<1> USE DEF Fail, Goto, guide
<1>0. /\ pc[t] \in Working
      /\ pc' = [pc EXCEPT ![t] = "finish"]
      /\ \A u \in Tasks : pc'[u] = IF u = t THEN "finish" ELSE pc[u]
      /\ \A u \in Tasks : u # t => job'[u] = job[u]
      /\ job'[t] \in Jobs /\ job'[t].failed
  <2>1. pc \in [Tasks -> Points] /\ job \in [Tasks -> Jobs]
    BY Zenon DEF IInv, TypeOK
  <2>2. pc[t] \in Working
    BY DEF Working
  <2> QED
    BY <2>1, <2>2 DEF Jobs
<1>1. TypeOK'
  <2>1. pc' \in [Tasks -> Points] /\ job' \in [Tasks -> Jobs]
    BY <1>0 DEF IInv, TypeOK, Points, Working
  <2> QED
    BY <2>1, Zenon DEF IInv, TypeOK
<1>2. OneRefresh' /\ MuOwned'
  BY <1>0, Alone, RefreshAssumption
  DEF RefreshAssumption, IInv, OneRefresh, MuOwned, Locked, Working
<1>3. FailedAtFinish' /\ ReportsKnown' /\ StatusErrorHonest'
  BY <1>0, Alone
  DEF IInv, FailedAtFinish, ReportsKnown, StatusErrorHonest, Working
<1>4. SaveAllowed' /\ DueOrForced' /\ StampVouches' /\ MemoryIsStored'
  <2>1. SaveAllowed' /\ DueOrForced'
    BY <1>0 DEF IInv, SaveAllowed, DueOrForced
  <2>2. StampVouches'
    BY <1>0 DEF IInv, StampVouches
  <2>3. MemoryIsStored'
    BY <1>0 DEF IInv, MemoryIsStored
  <2> QED
    BY <2>1, <2>2, <2>3
<1> QED
  BY <1>1, <1>2, <1>3, <1>4 DEF IInv

(* The other steps move one task of the gate; what they share.             *)
LEMMA StepShape ==
  ASSUME IInv, NEW t \in Tasks, NEW from \in Working, NEW to \in Working,
         pc[t] = from, pc' = [pc EXCEPT ![t] = to],
         UNCHANGED running,
         refreshMu' = IF to \in Locked THEN t ELSE Free
  PROVE  /\ pc' \in [Tasks -> Points]
         /\ \A u \in Tasks : pc'[u] = IF u = t THEN to ELSE pc[u]
         /\ (to # "lock") => OneRefresh'
         /\ MuOwned'
<1>1. /\ pc' \in [Tasks -> Points]
      /\ \A u \in Tasks : pc'[u] = IF u = t THEN to ELSE pc[u]
  BY DEF IInv, TypeOK, Points
<1>2. (to # "lock") => OneRefresh'
  BY <1>1, Alone DEF IInv, OneRefresh, Working
<1>3. MuOwned'
  BY <1>1, Alone, RefreshAssumption
  DEF RefreshAssumption, IInv, MuOwned, Locked, Working
<1> QED
  BY <1>1, <1>2, <1>3

LEMMA LockIInv ==
  ASSUME IInv, NEW t \in Tasks, LockRefresh(t) PROVE IInv'
<1> USE DEF LockRefresh, Goto, guide, history, ending
<1> DEFINE to == IF StillFresh(t) THEN "finish" ELSE "login"
<1>1. /\ pc' = [pc EXCEPT ![t] = to]
      /\ refreshMu' = IF to \in Locked THEN t ELSE Free
      /\ pc[t] = "lock" /\ to \in Working /\ to # "lock"
      /\ UNCHANGED running
  BY DEF Locked, Working
<1>2. /\ pc' \in [Tasks -> Points]
      /\ \A u \in Tasks : pc'[u] = IF u = t THEN to ELSE pc[u]
      /\ OneRefresh' /\ MuOwned'
  BY <1>1, StepShape DEF Working
<1>3. TypeOK'
  BY <1>1, <1>2, Zenon DEF IInv, TypeOK
<1>4. FailedAtFinish' /\ ReportsKnown' /\ StatusErrorHonest'
  BY <1>1, <1>2
  DEF IInv, FailedAtFinish, ReportsKnown, StatusErrorHonest, Working
<1>5. SaveAllowed' /\ StampVouches' /\ MemoryIsStored'
  BY <1>1, <1>2 DEF IInv, SaveAllowed, StampVouches, MemoryIsStored
<1>6. DueOrForced'
  BY <1>1, <1>2, RefreshAssumption
  DEF RefreshAssumption, IInv, TypeOK, DueOrForced, StillFresh
<1> QED
  BY <1>2, <1>3, <1>4, <1>5, <1>6 DEF IInv

LEMMA LoginIInv ==
  ASSUME IInv, NEW t \in Tasks, LoginAndParse(t) PROVE IInv'
<1> USE DEF LoginAndParse
<1>1. CASE Fail(t)
  BY <1>1, FailIInv, Zenon DEF IInv, TypeOK
<1>2. CASE \E l \in Lineups : job' = [job EXCEPT ![t].lineup = l]
           /\ Goto(t, "fetch") /\ UNCHANGED <<refreshMu, ending, refreshError>>
  <2> USE <1>2 DEF Goto, guide, ending
  <2>1. /\ job' \in [Tasks -> Jobs]
        /\ \A u \in Tasks : /\ job'[u].failed = job[u].failed
                             /\ job'[u].force = job[u].force
        /\ \A u \in Tasks : u # t => job'[u] = job[u]
    BY DEF IInv, TypeOK, Jobs
  <2>2. refreshMu' = t
    BY DEF IInv, MuOwned, Locked
  <2>3. /\ pc' \in [Tasks -> Points]
        /\ \A u \in Tasks : pc'[u] = IF u = t THEN "fetch" ELSE pc[u]
        /\ OneRefresh' /\ MuOwned'
    BY <2>2, StepShape DEF Working, Locked
  <2>4. TypeOK'
    BY <2>1, <2>3, Zenon DEF IInv, TypeOK
  <2>5. FailedAtFinish' /\ ReportsKnown' /\ StatusErrorHonest'
    BY <2>1, <2>3
    DEF IInv, FailedAtFinish, ReportsKnown, StatusErrorHonest, Working
  <2>6. SaveAllowed' /\ StampVouches' /\ MemoryIsStored' /\ DueOrForced'
    BY <2>1, <2>3
    DEF IInv, SaveAllowed, StampVouches, MemoryIsStored, DueOrForced
  <2> QED
    BY <2>3, <2>4, <2>5, <2>6 DEF IInv
<1> QED
  BY <1>1, <1>2

LEMMA FetchIInv ==
  ASSUME IInv, NEW t \in Tasks, NEW a \in Answers, Fetch(t, a) PROVE IInv'
<1> USE DEF Fetch
<1>0. a.raw \in Nat /\ a.distinct \in Nat /\ (a.raw > 0 => a.distinct > 0)
  BY RefreshAssumption DEF RefreshAssumption, Answers
<1>1. CASE Fail(t)
  BY <1>1, FailIInv, Zenon DEF IInv, TypeOK
<1>2. CASE ~Fail(t)
  <2> USE <1>2 DEF Goto, guide, ending
  <2>1. /\ job' \in [Tasks -> Jobs]
        /\ \A u \in Tasks : /\ job'[u].failed = job[u].failed
                             /\ job'[u].force = job[u].force
        /\ \A u \in Tasks : u # t => job'[u] = job[u]
        /\ job'[t].raw = a.raw /\ job'[t].distinct = a.distinct
    <3> HIDE DEF Fetch, Goto, guide, ending
    <3>1. job' = [job EXCEPT ![t].raw = a.raw, ![t].distinct = a.distinct]
      BY <1>2, Zenon DEF Fetch
    <3>2. job \in [Tasks -> Jobs]
      BY Zenon DEF IInv, TypeOK
    <3> QED
      BY <1>0, <3>1, <3>2 DEF Jobs
  <2>2. refreshMu' = t
    BY DEF IInv, MuOwned, Locked
  <2>3. /\ pc' \in [Tasks -> Points]
        /\ \A u \in Tasks : pc'[u] = IF u = t THEN "save" ELSE pc[u]
        /\ OneRefresh' /\ MuOwned'
    BY <2>2, StepShape DEF Working, Locked
  <2>4. TypeOK'
    BY <2>1, <2>3, Zenon DEF IInv, TypeOK
  <2>5. FailedAtFinish' /\ ReportsKnown' /\ StatusErrorHonest'
    BY <2>1, <2>3
    DEF IInv, FailedAtFinish, ReportsKnown, StatusErrorHonest, Working
  <2>6. StampVouches' /\ MemoryIsStored' /\ DueOrForced'
    BY <2>1, <2>3 DEF IInv, StampVouches, MemoryIsStored, DueOrForced
  <2>7. SaveAllowed'
    <3>1. stored.programs \in Nat
      BY DEF IInv, TypeOK
    <3>2. Protect => a.raw > 0 /\ a.raw * 2 >= stored.programs
      BY <1>0, <3>1 DEF Protected
    <3> QED
      BY <1>0, <2>1, <2>3, <3>2 DEF IInv, SaveAllowed
  <2> QED
    BY <2>3, <2>4, <2>5, <2>6, <2>7 DEF IInv
<1> QED
  BY <1>1, <1>2

LEMMA SaveIInv ==
  ASSUME IInv, NEW t \in Tasks, Save(t) PROVE IInv'
<1> USE DEF Save
<1>1. CASE Fail(t)
  <2>1. stored' = stored
    BY <1>1 DEF Fail, Goto, IInv, TypeOK
  <2> QED
    BY <1>1, <2>1, FailIInv, Zenon DEF IInv, TypeOK, guide
<1>2. CASE ~Fail(t)
  <2> USE <1>2 DEF Goto, ending
  <2>1. /\ job[t] \in Jobs
        /\ stored' = [lineup |-> job[t].lineup, programs |-> job[t].distinct]
        /\ stored' \in [lineup : Lineups \cup {NoLineup}, programs : Nat]
    BY DEF IInv, TypeOK, Jobs
  <2>2. refreshMu' = t
    BY DEF IInv, MuOwned, Locked
  <2>3. /\ pc' \in [Tasks -> Points]
        /\ \A u \in Tasks : pc'[u] = IF u = t THEN "publish" ELSE pc[u]
        /\ OneRefresh' /\ MuOwned'
    BY <2>2, StepShape DEF Working, Locked
  <2>4. TypeOK'
    BY <2>1, <2>3, Zenon DEF IInv, TypeOK
  <2>5. FailedAtFinish' /\ ReportsKnown' /\ StatusErrorHonest'
    BY <2>3
    DEF IInv, FailedAtFinish, ReportsKnown, StatusErrorHonest, Working
  <2>6. \A u \in Tasks : u # t => pc[u] \notin Working
    BY Alone DEF Working
  <2>7. SaveAllowed' /\ StampVouches' /\ MemoryIsStored' /\ DueOrForced'
    BY <2>1, <2>3, <2>6
    DEF IInv, SaveAllowed, StampVouches, MemoryIsStored, DueOrForced, Working
  <2> QED
    BY <2>3, <2>4, <2>5, <2>7 DEF IInv
<1> QED
  BY <1>1, <1>2

LEMMA PublishIInv ==
  ASSUME IInv, NEW t \in Tasks, Publish(t) PROVE IInv'
<1> USE DEF Publish, Goto, history, ending
<1>1. refreshMu' = t
  BY DEF IInv, MuOwned, Locked
<1>2. /\ pc' \in [Tasks -> Points]
      /\ \A u \in Tasks : pc'[u] = IF u = t THEN "stamp" ELSE pc[u]
      /\ OneRefresh' /\ MuOwned'
  BY <1>1, StepShape DEF Working, Locked
<1>3. channels' = stored.lineup /\ channels' \in Lineups \cup {NoLineup}
  BY DEF IInv, TypeOK, StampVouches, Jobs
<1>4. TypeOK'
  BY <1>2, <1>3, Zenon DEF IInv, TypeOK
<1>5. FailedAtFinish' /\ ReportsKnown' /\ StatusErrorHonest'
  BY <1>2
  DEF IInv, FailedAtFinish, ReportsKnown, StatusErrorHonest, Working
<1>6. SaveAllowed' /\ StampVouches' /\ MemoryIsStored' /\ DueOrForced'
  BY <1>2, <1>3
  DEF IInv, SaveAllowed, StampVouches, MemoryIsStored, DueOrForced
<1> QED
  BY <1>2, <1>4, <1>5, <1>6 DEF IInv

LEMMA StampIInv ==
  ASSUME IInv, NEW t \in Tasks, Stamp(t) PROVE IInv'
<1> USE DEF Stamp, Goto, history, ending
<1>1. refreshMu' = t
  BY DEF IInv, MuOwned, Locked
<1>2. /\ pc' \in [Tasks -> Points]
      /\ \A u \in Tasks : pc'[u] = IF u = t THEN "clear" ELSE pc[u]
      /\ OneRefresh' /\ MuOwned'
  BY <1>1, StepShape DEF Working, Locked
<1>3. age' \in 0..Interval /\ stamped' \in BOOLEAN
  <2>1. CASE stamped' = TRUE /\ age' = 0
    BY <2>1, IntervalType
  <2>2. CASE UNCHANGED <<stamped, age>>
    BY <2>2 DEF IInv, TypeOK
  <2> QED
    BY <2>1, <2>2
<1>4. TypeOK'
  BY <1>2, <1>3, Zenon DEF IInv, TypeOK
<1>5. FailedAtFinish' /\ ReportsKnown' /\ StatusErrorHonest'
  BY <1>2
  DEF IInv, FailedAtFinish, ReportsKnown, StatusErrorHonest, Working
<1>6. \A u \in Tasks : u # t => pc[u] \notin Working
  BY Alone DEF Working
<1>7. SaveAllowed' /\ StampVouches' /\ MemoryIsStored' /\ DueOrForced'
  BY <1>2, <1>6
  DEF IInv, SaveAllowed, StampVouches, MemoryIsStored, DueOrForced, Working
<1> QED
  BY <1>2, <1>4, <1>5, <1>7 DEF IInv

LEMMA ClearIInv ==
  ASSUME IInv, NEW t \in Tasks, ClearError(t) PROVE IInv'
<1> USE DEF ClearError, Goto, guide
<1>1. /\ pc' \in [Tasks -> Points]
      /\ \A u \in Tasks : pc'[u] = IF u = t THEN "finish" ELSE pc[u]
      /\ OneRefresh' /\ MuOwned'
  BY StepShape DEF Working, Locked
<1>2. TypeOK'
  BY <1>1, Zenon DEF IInv, TypeOK
<1>3. \A u \in Tasks : ~job[u].failed
  BY Alone DEF IInv, FailedAtFinish, Working
<1>4. FailedAtFinish' /\ ReportsKnown' /\ StatusErrorHonest'
  BY <1>1, <1>3
  DEF IInv, FailedAtFinish, ReportsKnown, StatusErrorHonest, Working
<1>5. SaveAllowed' /\ StampVouches' /\ MemoryIsStored' /\ DueOrForced'
  BY <1>1 DEF IInv, SaveAllowed, StampVouches, MemoryIsStored, DueOrForced
<1> QED
  BY <1>1, <1>2, <1>4, <1>5 DEF IInv

LEMMA FinishIInv ==
  ASSUME IInv, NEW t \in Tasks, FinishRefresh(t) PROVE IInv'
<1> USE DEF FinishRefresh, Goto, guide, history, ending
<1> DEFINE to == IF job[t].failed THEN "report" ELSE Rest(t)
<1>0. /\ to \in {"report", "plan", "idle"}
      /\ job[t].failed => to = "report"
      /\ ~job[t].failed => to # "report"
      /\ \A u \in Tasks : u # t => pc[u] \notin Working /\ ~job[u].failed
      /\ refreshMu = Free
  BY RestType, Alone, RefreshAssumption
  DEF RefreshAssumption, Working, IInv, MuOwned, Locked, TypeOK
<1> HIDE DEF to
<1>1. /\ pc' \in [Tasks -> Points]
      /\ pc'[t] = to
      /\ \A u \in Tasks : pc'[u] = IF u = t THEN to ELSE pc[u]
      /\ job' \in [Tasks -> Jobs]
      /\ \A u \in Tasks : job'[u] = IF u = t THEN NoJob ELSE job[u]
  BY <1>0, NoJobType DEF IInv, TypeOK, Points, to
<1>2. TypeOK'
  BY <1>1, Zenon DEF IInv, TypeOK
<1>3. OneRefresh' /\ MuOwned'
  BY <1>0, <1>1 DEF IInv, OneRefresh, MuOwned, Working, Locked
<1>4. FailedAtFinish'
  BY <1>0, <1>1, NoJobType DEF FailedAtFinish
<1>5. ReportsKnown'
  <2>1. job[t].failed => outcome = "failed"
    BY DEF IInv, FailedAtFinish
  <2> QED
    BY <1>0, <1>1, <2>1 DEF IInv, ReportsKnown
<1>6. StatusErrorHonest'
  BY <1>0, <1>1, NoJobType DEF IInv, StatusErrorHonest
<1>7. SaveAllowed' /\ StampVouches' /\ MemoryIsStored' /\ DueOrForced'
  BY <1>0, <1>1
  DEF IInv, SaveAllowed, StampVouches, MemoryIsStored, DueOrForced
<1> QED
  BY <1>2, <1>3, <1>4, <1>5, <1>6, <1>7 DEF IInv

LEMMA ReportIInv ==
  ASSUME IInv, NEW t \in Tasks, ReportError(t) PROVE IInv'
<1> USE DEF ReportError, Goto, guide, history, ending
<1> DEFINE to == IF t = Scheduler THEN "delay" ELSE "idle"
<1>0. pc' = [pc EXCEPT ![t] = to] /\ to \in {"delay", "idle"} /\ wait' \in Nat
  BY RefreshAssumption DEF RefreshAssumption, IInv, TypeOK
<1> HIDE DEF to
<1>1. /\ pc' \in [Tasks -> Points]
      /\ \A u \in Tasks : pc'[u] = IF u = t THEN to ELSE pc[u]
  BY <1>0 DEF IInv, TypeOK, Points
<1>2. TypeOK'
  BY <1>0, <1>1, Zenon DEF IInv, TypeOK
<1>3. OneRefresh' /\ MuOwned'
  BY <1>0, <1>1 DEF IInv, OneRefresh, MuOwned, Working, Locked
<1>4. FailedAtFinish' /\ ReportsKnown'
  BY <1>0, <1>1 DEF IInv, FailedAtFinish, ReportsKnown, Working
<1>5. StatusErrorHonest'
  BY <1>0, <1>1 DEF IInv, ReportsKnown, StatusErrorHonest
<1>6. SaveAllowed' /\ StampVouches' /\ MemoryIsStored' /\ DueOrForced'
  BY <1>0, <1>1
  DEF IInv, SaveAllowed, StampVouches, MemoryIsStored, DueOrForced
<1> QED
  BY <1>2, <1>3, <1>4, <1>5, <1>6 DEF IInv

(* The scheduler between refreshes: it changes its timer and its place.    *)
LEMMA RestingIInv ==
  ASSUME IInv, NEW to \in {"sleep", "due", "delay", "plan"},
         pc[Scheduler] \in {"plan", "sleep", "due", "delay"},
         Goto(Scheduler, to), wait' \in Nat,
         UNCHANGED <<guide, running, refreshMu, refreshError, job, history>>
  PROVE  IInv'
<1> USE DEF Goto, guide, history, ending
<1>1. /\ pc' \in [Tasks -> Points]
      /\ \A u \in Tasks : pc'[u] = IF u = Scheduler THEN to ELSE pc[u]
      /\ Scheduler \in Tasks
  BY DEF IInv, TypeOK, Points, Tasks
<1>2. TypeOK'
  BY <1>1, Zenon DEF IInv, TypeOK
<1>3. OneRefresh' /\ MuOwned'
  BY <1>1 DEF IInv, OneRefresh, MuOwned, Working, Locked
<1>4. FailedAtFinish' /\ ReportsKnown' /\ StatusErrorHonest'
  BY <1>1
  DEF IInv, FailedAtFinish, ReportsKnown, StatusErrorHonest, Working
<1>5. SaveAllowed' /\ StampVouches' /\ MemoryIsStored' /\ DueOrForced'
  BY <1>1 DEF IInv, SaveAllowed, StampVouches, MemoryIsStored, DueOrForced
<1> QED
  BY <1>2, <1>3, <1>4, <1>5 DEF IInv

LEMMA SchedulerIInv == ASSUME IInv, SchedulerStep PROVE IInv'
<1>1. CASE Plan
  <2> DEFINE to == IF wait' = 0 THEN "due" ELSE "sleep"
  <2>1. wait' \in Nat
    BY <1>1, IntervalType DEF Plan, IInv, TypeOK
  <2>2. Goto(Scheduler, to) /\ to \in {"sleep", "due", "delay", "plan"}
    BY <1>1 DEF Plan
  <2> QED
    BY <1>1, <2>1, <2>2, RestingIInv DEF Plan
<1>2. CASE TimerFires
  <2> DEFINE to == IF pc[Scheduler] = "sleep" THEN "due" ELSE "plan"
  <2>1. Goto(Scheduler, to) /\ to \in {"sleep", "due", "delay", "plan"}
    BY <1>2 DEF TimerFires
  <2> QED
    BY <1>2, <2>1, RestingIInv DEF TimerFires, IInv, TypeOK
<1>3. CASE ScheduledRefresh
  <2>1. CASE BeginRefresh(Scheduler, FALSE) /\ UNCHANGED wait
    BY <1>3, <2>1, BeginIInv DEF ScheduledRefresh, Tasks
  <2>2. CASE ~(BeginRefresh(Scheduler, FALSE) /\ UNCHANGED wait)
    BY <1>3, <2>2, RestingIInv, RefreshAssumption
    DEF RefreshAssumption, ScheduledRefresh
  <2> QED
    BY <2>1, <2>2
<1> QED
  BY <1>1, <1>2, <1>3 DEF SchedulerStep

LEMMA TickIInv == ASSUME IInv, Tick PROVE IInv'
<1> USE DEF Tick, history, ending
<1>1. age' \in 0..Interval /\ age' >= age /\ wait' \in Nat
  BY IntervalType DEF IInv, TypeOK
<1>2. TypeOK'
  BY <1>1, Zenon DEF IInv, TypeOK
<1>3. OneRefresh' /\ MuOwned' /\ FailedAtFinish' /\ ReportsKnown'
  BY DEF IInv, OneRefresh, MuOwned, FailedAtFinish, ReportsKnown
<1>4. StatusErrorHonest' /\ SaveAllowed' /\ StampVouches' /\ MemoryIsStored'
  BY DEF IInv, StatusErrorHonest, SaveAllowed, StampVouches, MemoryIsStored
<1>5. DueOrForced'
  <2>1. age \in Int /\ age' \in Int /\ RefreshHours \in Int
    BY <1>1, IntervalType, RefreshAssumption
    DEF RefreshAssumption, IInv, TypeOK
  <2>2. age >= RefreshHours => age' >= RefreshHours
    BY <1>1, <2>1
  <2> QED
    BY <2>2 DEF IInv, DueOrForced
<1> QED
  BY <1>2, <1>3, <1>4, <1>5 DEF IInv

LEMMA RestartIInv == ASSUME IInv, Restart PROVE IInv'
<1> USE NoJobType, RestType DEF Restart
<1>0. /\ pc' \in [Tasks -> Points] /\ job' \in [Tasks -> Jobs]
      /\ \A t \in Tasks : pc'[t] \in {"plan", "idle"} /\ job'[t] = NoJob
  OBVIOUS
<1>1. TypeOK'
  <2>1. restarts' \in Nat /\ wait' \in Nat
    BY DEF IInv, TypeOK
  <2>2. channels' \in Lineups \cup {NoLineup}
    BY DEF IInv, TypeOK
  <2> QED
    BY <1>0, <2>1, <2>2, Zenon DEF IInv, TypeOK
<1>2. OneRefresh' /\ MuOwned'
  BY <1>0, RefreshAssumption
  DEF RefreshAssumption, OneRefresh, MuOwned, Locked, Working
<1>3. FailedAtFinish' /\ ReportsKnown' /\ StatusErrorHonest'
  BY <1>0 DEF FailedAtFinish, ReportsKnown, StatusErrorHonest
<1>4. SaveAllowed' /\ DueOrForced' /\ StampVouches' /\ MemoryIsStored'
  BY <1>0 DEF SaveAllowed, DueOrForced, StampVouches, MemoryIsStored
<1> QED
  BY <1>1, <1>2, <1>3, <1>4 DEF IInv

LEMMA NextIInv == IInv /\ [Next]_vars => IInv'
<1> SUFFICES ASSUME IInv, [Next]_vars PROVE IInv'
  OBVIOUS
<1>1. ASSUME NEW t \in Manuals, NEW force \in BOOLEAN, Submit(t, force)
      PROVE  IInv'
  BY <1>1, BeginIInv DEF Submit, Tasks
<1>2. ASSUME NEW t \in Tasks, RefreshStep(t) PROVE IInv'
  BY <1>2, LockIInv, LoginIInv, FetchIInv, SaveIInv, PublishIInv, StampIInv,
     ClearIInv, FinishIInv, ReportIInv DEF RefreshStep
<1>3. CASE UNCHANGED vars
  BY <1>3
  DEF vars, IInv, TypeOK, OneRefresh, MuOwned, FailedAtFinish, ReportsKnown,
      StatusErrorHonest, SaveAllowed, DueOrForced, StampVouches,
      MemoryIsStored
<1> QED
  BY <1>1, <1>2, <1>3, SchedulerIInv, TickIInv, RestartIInv DEF Next

LEMMA SpecIInv == Spec => []IInv
BY InitIInv, NextIInv, PTL DEF Spec

(* The variables of the refresh task keep their types.                     *)
THEOREM SpecTypeOK == Spec => []TypeOK
<1>1. IInv => TypeOK
  BY DEF IInv
<1> QED
  BY <1>1, SpecIInv, PTL

(* The gate lets one refresh through at a time; refreshMu is never waited  *)
(* for.                                                                    *)
THEOREM SpecOneRefresh == Spec => []OneRefresh
<1>1. IInv => OneRefresh
  BY DEF IInv
<1> QED
  BY <1>1, SpecIInv, PTL

(* What a refresh publishes and stamps is what the store holds.            *)
THEOREM SpecStampVouches == Spec => []StampVouches
<1>1. IInv => StampVouches
  BY DEF IInv
<1> QED
  BY <1>1, SpecIInv, PTL

(* Memory and store hold the same channels, across crashes at any point.   *)
THEOREM SpecMemoryIsStored == Spec => []MemoryIsStored
<1>1. IInv => MemoryIsStored
  BY DEF IInv
<1> QED
  BY <1>1, SpecIInv, PTL

(* The status page shows the error of the last refresh, unless a refresh   *)
(* overtook the report of an older one.                                    *)
THEOREM SpecStatusErrorHonest == Spec => []StatusErrorHonest
<1>1. IInv => StatusErrorHonest
  BY DEF IInv
<1> QED
  BY <1>1, SpecIInv, PTL

(* With the protection on, a guide is only ever replaced by one for which  *)
(* at least half as many programmes were fetched, and never by an empty    *)
(* one.                                                                    *)
THEOREM SpecGuideProtected == Spec => GuideProtected
<1> DEFINE A == Protect /\ stored' # stored =>
                  /\ stored'.programs > 0
                  /\ \E t \in Tasks : pc[t] = "save"
                                     /\ job[t].raw * 2 >= stored.programs
<1>1. IInv /\ [Next]_vars => [A]_vars
  <2> SUFFICES ASSUME IInv, Next, Protect, stored' # stored
               PROVE  A
    OBVIOUS
  <2>1. PICK t \in Tasks : Save(t)
    BY DEF Next, Submit, RefreshStep, LockRefresh, LoginAndParse, Fetch,
           Publish, Stamp, ClearError, FinishRefresh, ReportError,
           SchedulerStep, Plan, TimerFires, ScheduledRefresh, Tick, Restart,
           guide
  <2>2. pc[t] = "save" /\ stored'.programs = job[t].distinct
    BY <2>1 DEF Save
  <2> QED
    BY <2>2 DEF IInv, SaveAllowed
<1> QED
  BY <1>1, SpecIInv, PTL DEF Spec, GuideProtected

(* A refresh that was not forced never replaces a fresh guide.             *)
THEOREM SpecFreshGuideKept == Spec => FreshGuideKept
<1> DEFINE A == stored' # stored =>
                  \E t \in Tasks : pc[t] = "save" /\
                    (job[t].force \/ ~stamped \/ age >= RefreshHours)
<1>1. IInv /\ [Next]_vars => [A]_vars
  <2> SUFFICES ASSUME IInv, Next, stored' # stored PROVE A
    OBVIOUS
  <2>1. PICK t \in Tasks : Save(t)
    BY DEF Next, Submit, RefreshStep, LockRefresh, LoginAndParse, Fetch,
           Publish, Stamp, ClearError, FinishRefresh, ReportError,
           SchedulerStep, Plan, TimerFires, ScheduledRefresh, Tick, Restart,
           guide
  <2> QED
    BY <2>1 DEF Save, IInv, DueOrForced
<1> QED
  BY <1>1, SpecIInv, PTL DEF Spec, FreshGuideKept

----------------------------------------------------------------------------
(* The refinement of Guide.                                                *)

(* What the portal and the workers brought is what they can bring.         *)
Brought ==
  \A t \in Tasks :
    /\ pc[t] \in {"fetch", "save"} => job[t].lineup \in Lineups
    /\ pc[t] = "save" => [raw |-> job[t].raw, distinct |-> job[t].distinct] \in Answers

(* A step that moves one task, and not to a fetch or a save, keeps it.     *)
LEMMA BroughtElsewhere ==
  ASSUME Brought, NEW t \in Tasks, pc'[t] \notin {"fetch", "save"},
         \A u \in Tasks : u # t => pc'[u] = pc[u] /\ job'[u] = job[u]
  PROVE  Brought'
BY DEF Brought, Answers

LEMMA NextBrought == IInv /\ Brought /\ [Next]_vars => Brought'
<1> SUFFICES ASSUME IInv, Brought, [Next]_vars PROVE Brought'
  OBVIOUS
<1>0. pc \in [Tasks -> Points] /\ job \in [Tasks -> Jobs]
  BY Zenon DEF IInv, TypeOK
<1>1. ASSUME NEW t \in Manuals, NEW force \in BOOLEAN, Submit(t, force)
      PROVE  Brought'
  <2>1. t \in Tasks
    BY DEF Tasks
  <2> QED  BY <1>0, <1>1, <2>1, BroughtElsewhere DEF Submit, BeginRefresh, Goto
<1>2. ASSUME NEW t \in Tasks, LoginAndParse(t) PROVE Brought'
  <2>1. CASE Fail(t)
    BY <1>0, <2>1, BroughtElsewhere DEF Fail, Goto
  <2>2. CASE /\ \E l \in Lineups : job' = [job EXCEPT ![t].lineup = l]
             /\ Goto(t, "fetch")
    <3>1. job'[t].lineup \in Lineups /\ pc'[t] = "fetch"
      BY <1>0, <2>2 DEF Goto, Jobs
    <3>2. \A u \in Tasks : u # t => pc'[u] = pc[u] /\ job'[u] = job[u]
      BY <1>0, <2>2 DEF Goto
    <3> QED  BY <3>1, <3>2 DEF Brought
  <2> QED  BY <1>2, <2>1, <2>2 DEF LoginAndParse
<1>3. ASSUME NEW t \in Tasks, NEW a \in Answers, Fetch(t, a) PROVE Brought'
  <2>1. CASE Fail(t)
    BY <1>0, <2>1, BroughtElsewhere DEF Fail, Goto
  <2>2. CASE /\ job' = [job EXCEPT ![t].raw = a.raw, ![t].distinct = a.distinct]
             /\ Goto(t, "save")
    <3>1. /\ job'[t].lineup = job[t].lineup
          /\ job'[t].raw = a.raw /\ job'[t].distinct = a.distinct
          /\ pc'[t] = "save"
      BY <1>0, <2>2 DEF Goto, Jobs
    <3>2. \A u \in Tasks : u # t => pc'[u] = pc[u] /\ job'[u] = job[u]
      BY <1>0, <2>2 DEF Goto
    <3>3. job[t].lineup \in Lineups
      BY <1>3 DEF Fetch, Brought
    <3>4. [raw |-> a.raw, distinct |-> a.distinct] = a
      BY DEF Answers
    <3> QED  BY <3>1, <3>2, <3>3, <3>4 DEF Brought
  <2> QED  BY <1>3, <2>1, <2>2 DEF Fetch
<1>4. ASSUME NEW t \in Tasks,
             LockRefresh(t) \/ Publish(t) \/ Stamp(t) \/ ReportError(t)
      PROVE  Brought'
  BY <1>0, <1>4, BroughtElsewhere
  DEF LockRefresh, Publish, Stamp, ReportError, Goto
<1>5. ASSUME NEW t \in Tasks, Save(t) \/ ClearError(t) \/ FinishRefresh(t)
      PROVE  Brought'
  <2>1. CASE Save(t)
    BY <1>0, <2>1, BroughtElsewhere DEF Save, Fail, Goto
  <2>2. CASE ClearError(t)
    BY <1>0, <2>2, BroughtElsewhere DEF ClearError, Goto
  <2>3. CASE FinishRefresh(t)
    BY <1>0, <2>3, RestType, BroughtElsewhere
    DEF FinishRefresh, Goto, Points, Working
  <2> QED  BY <1>5, <2>1, <2>2, <2>3
<1>6. CASE SchedulerStep
  <2>1. Scheduler \in Tasks
    BY DEF Tasks
  <2> QED  BY <1>0, <1>6, <2>1, BroughtElsewhere
           DEF SchedulerStep, Plan, TimerFires, ScheduledRefresh,
               BeginRefresh, Goto
<1>7. CASE Tick \/ UNCHANGED vars
  BY <1>7 DEF Tick, vars, Brought, Answers
<1>8. CASE Restart
  BY <1>8, RestType DEF Restart, Brought, Points, Working
<1> QED
  BY <1>1, <1>2, <1>3, <1>4, <1>5, <1>6, <1>7, <1>8 DEF Next, RefreshStep

LEMMA SpecBrought == Spec => []Brought
<1>1. Init => Brought
  BY RestType DEF Init, Brought, Points, Working
<1> QED
  BY <1>1, NextBrought, SpecIInv, PTL DEF Spec

(* The attempt is the working task's as long as that holds refreshMu.      *)
LEMMA AttemptOf ==
  ASSUME IInv, NEW t \in Tasks, pc[t] \in Working
  PROVE  Attempt = IF pc[t] \in Locked THEN Stage(t) ELSE "none"
<1>1. pc[t] \in Locked => refreshMu = t /\ t # Free
  BY RefreshAssumption DEF RefreshAssumption, IInv, MuOwned
<1>2. pc[t] \notin Locked => refreshMu = Free
  BY Alone DEF IInv, MuOwned
<1> QED
  BY <1>1, <1>2 DEF Attempt

(* Where the attempt is after a step that gives refreshMu to t or takes it. *)
LEMMA AttemptNext ==
  ASSUME NEW t \in Tasks, refreshMu' \in {t, Free}
  PROVE  Attempt' = IF refreshMu' = t THEN Stage(t)' ELSE "none"
BY RefreshAssumption DEF RefreshAssumption, Attempt

(* A step of a task that does not hold refreshMu leaves the attempt alone. *)
LEMMA AttemptStays ==
  ASSUME IInv, NEW t \in Tasks, pc[t] \notin Locked, UNCHANGED refreshMu,
         \A u \in Tasks : u # t => pc'[u] = pc[u] /\ job'[u] = job[u]
  PROVE  UNCHANGED Attempt
<1>1. refreshMu \in Tasks \cup {Free} /\ refreshMu # t
  BY DEF IInv, TypeOK, MuOwned
<1> QED
  BY <1>1 DEF Attempt, Stage

(* What a step inside refreshLocked does to the attempt.                   *)
LEMMA AttemptMoves ==
  ASSUME IInv, NEW t \in Tasks, NEW to \in Points, pc[t] \in Locked,
         pc' = [pc EXCEPT ![t] = to], job'[t].force = job[t].force
  PROVE  /\ Attempt = Stage(t)
         /\ refreshMu' = Free => Attempt' = "none"
         /\ refreshMu' = refreshMu =>
              Attempt' = IF to = "publish" THEN "replaced"
                         ELSE IF to = "stamp" THEN "shown"
                         ELSE IF to = "clear" THEN "over"
                         ELSE IF job[t].force THEN "forced" ELSE "unforced"
<1>1. refreshMu = t /\ t # Free
  BY RefreshAssumption DEF RefreshAssumption, IInv, MuOwned
<1>2. pc'[t] = to
  BY Zenon DEF IInv, TypeOK
<1> QED
  BY <1>1, <1>2 DEF Attempt, Stage

(* A refresh that fails, or finds the guide fresh, promised nothing yet.   *)
LEMMA FailEnds ==
  ASSUME IInv, NEW t \in Tasks, pc[t] \in {"login", "fetch", "save"}, Fail(t),
         UNCHANGED guide
  PROVE  Promised!GuideNext
<1>1. pc[t] \in Locked /\ "finish" \in Points
  BY DEF Locked, Points, Working
<1>2. pc' = [pc EXCEPT ![t] = "finish"] /\ refreshMu' = Free
  BY DEF Fail, Goto
<1>3. job'[t].force = job[t].force
  BY DEF Fail, IInv, TypeOK, Jobs
<1>4. Attempt = Stage(t) /\ Attempt' = "none"
  BY <1>1, <1>2, <1>3, AttemptMoves
<1>5. Attempt \in {"forced", "unforced"}
  BY <1>4 DEF Stage
<1> QED
  BY <1>4, <1>5 DEF guide, Promised!GuideNext, Promised!End

(* The refresh that takes refreshMu begins an attempt.                     *)
LEMMA LockBegins ==
  ASSUME IInv, NEW t \in Tasks, LockRefresh(t)
  PROVE  Promised!GuideNext \/ UNCHANGED Promised!guideVars
<1> USE DEF LockRefresh, Goto
<1>1. Attempt = "none" /\ guide' = guide
  BY DEF Attempt
<1>2. CASE StillFresh(t) /\ UNCHANGED refreshMu
  <2>1. Attempt' = "none"
    BY <1>2 DEF Attempt
  <2> QED  BY <1>1, <2>1 DEF guide, Promised!guideVars
<1>3. CASE pc' = [pc EXCEPT ![t] = "login"] /\ refreshMu' = t
  <2>1. pc'[t] = "login"
    BY <1>3, Zenon DEF IInv, TypeOK
  <2>2. Attempt' \in {"forced", "unforced"}
    BY <1>3, <2>1, AttemptNext DEF Stage
  <2> QED  BY <1>1, <2>2 DEF guide, Promised!GuideNext, Promised!Begin
<1> QED
  BY <1>2, <1>3

(* The snapshot that is saved is one that Guide allows.                    *)
LEMMA SaveReplaces ==
  ASSUME IInv, Brought, NEW t \in Tasks, Save(t)
  PROVE  Promised!GuideNext
<1> USE DEF Save, Goto
<1>1. CASE Fail(t) /\ UNCHANGED stored
  BY <1>1, FailEnds DEF guide
<1>2. CASE /\ stored' = [lineup |-> job[t].lineup, programs |-> job[t].distinct]
           /\ pc' = [pc EXCEPT ![t] = "publish"]
           /\ UNCHANGED <<job, refreshMu, ending>>
  <2>1. Attempt = Stage(t) /\ Attempt' = "replaced"
    <3>1. pc[t] \in Locked /\ "publish" \in Points
      BY DEF Locked, Points, Working
    <3> QED  BY <1>2, <3>1, AttemptMoves
  <2>2. Attempt = "forced" \/ (Attempt = "unforced" /\ Promised!Due)
    BY <2>1 DEF Stage, IInv, DueOrForced, Promised!Due
  <2>3. /\ job[t].lineup \in Lineups
        /\ job[t].raw \in 0..MaxPrograms /\ job[t].distinct \in 0..MaxPrograms
        /\ job[t].distinct <= job[t].raw
        /\ job[t].raw > 0 => job[t].distinct > 0
    BY DEF Brought, Answers
  <2>4. Protect => job[t].raw > 0 /\ job[t].raw * 2 >= stored.programs
    BY <2>3, RefreshAssumption
    DEF RefreshAssumption, IInv, SaveAllowed
  <2>5. UNCHANGED <<channels, stamped, age>>
    OBVIOUS
  <2>6. Promised!Replace(job[t].lineup, job[t].raw, job[t].distinct)
    BY <1>2, <2>1, <2>2, <2>3, <2>4, <2>5 DEF Promised!Replace
  <2> QED  BY <2>3, <2>6 DEF Promised!GuideNext
<1> QED
  BY <1>1, <1>2

(* Steps of refreshLocked.                                                 *)
LEMMA LockedSteps ==
  ASSUME IInv, Brought, NEW t \in Tasks,
         \/ LoginAndParse(t) \/ \E a \in Answers : Fetch(t, a)
         \/ Publish(t) \/ Stamp(t) \/ ClearError(t)
  PROVE  Promised!GuideNext \/ UNCHANGED Promised!guideVars
<1>0. pc \in [Tasks -> Points] /\ job \in [Tasks -> Jobs]
  BY Zenon DEF IInv, TypeOK
<1>1. CASE LoginAndParse(t)
  <2>1. CASE Fail(t)
    BY <1>1, <2>1, FailEnds DEF LoginAndParse
  <2>2. CASE /\ \E l \in Lineups : job' = [job EXCEPT ![t].lineup = l]
             /\ Goto(t, "fetch")
             /\ UNCHANGED refreshMu
    <3>1. pc[t] \in Locked /\ "fetch" \in Points /\ job'[t].force = job[t].force
      BY <1>0, <1>1, <2>2 DEF LoginAndParse, Locked, Points, Working, Jobs
    <3>2. UNCHANGED Attempt
      BY <1>1, <2>2, <3>1, AttemptMoves DEF LoginAndParse, Goto, Stage
    <3> QED  BY <1>1, <3>2 DEF LoginAndParse, guide, Promised!guideVars
  <2> QED  BY <1>1, <2>1, <2>2 DEF LoginAndParse
<1>2. ASSUME NEW a \in Answers, Fetch(t, a)
      PROVE  Promised!GuideNext \/ UNCHANGED Promised!guideVars
  <2>1. CASE Fail(t)
    BY <1>2, <2>1, FailEnds DEF Fetch
  <2>2. CASE /\ job' = [job EXCEPT ![t].raw = a.raw, ![t].distinct = a.distinct]
             /\ Goto(t, "save")
             /\ UNCHANGED refreshMu
    <3>1. pc[t] \in Locked /\ "save" \in Points /\ job'[t].force = job[t].force
      BY <1>0, <1>2, <2>2 DEF Fetch, Locked, Points, Working, Jobs
    <3>2. UNCHANGED Attempt
      BY <1>2, <2>2, <3>1, AttemptMoves DEF Fetch, Goto, Stage
    <3> QED  BY <1>2, <3>2 DEF Fetch, guide, Promised!guideVars
  <2> QED  BY <1>2, <2>1, <2>2 DEF Fetch
<1>3. CASE Publish(t)
  <2>1. pc[t] \in Locked /\ "stamp" \in Points
    BY <1>3 DEF Publish, Locked, Points, Working
  <2>2. Attempt = "replaced" /\ Attempt' = "shown"
    BY <1>3, <2>1, AttemptMoves DEF Publish, Goto, Stage
  <2>3. channels' = stored.lineup
    BY <1>3 DEF Publish, IInv, StampVouches
  <2> QED  BY <1>3, <2>2, <2>3 DEF Publish, Promised!GuideNext, Promised!Show
<1>4. CASE Stamp(t)
  <2>1. pc[t] \in Locked /\ "clear" \in Points
    BY <1>4 DEF Stamp, Locked, Points, Working
  <2>2. Attempt = "shown" /\ Attempt' = "over"
    BY <1>4, <2>1, AttemptMoves DEF Stamp, Goto, Stage
  <2> QED  BY <1>4, <2>2 DEF Stamp, Promised!GuideNext, Promised!Vouch
<1>5. CASE ClearError(t)
  <2>1. pc[t] \in Locked /\ "finish" \in Points
    BY <1>5 DEF ClearError, Locked, Points, Working
  <2>2. Attempt = "over" /\ Attempt' = "none"
    BY <1>5, <2>1, AttemptMoves DEF ClearError, Goto, Stage
  <2> QED  BY <1>5, <2>2 DEF ClearError, guide, Promised!GuideNext, Promised!End
<1> QED
  BY <1>1, <1>2, <1>3, <1>4, <1>5

(* Steps outside refreshLocked are not seen.                               *)
LEMMA UnseenSteps ==
  ASSUME IInv, NEW t \in Tasks,
         \/ t \in Manuals /\ \E force \in BOOLEAN : Submit(t, force)
         \/ t = Scheduler /\ SchedulerStep
         \/ FinishRefresh(t) \/ ReportError(t)
  PROVE  UNCHANGED Promised!guideVars
<1>0. pc \in [Tasks -> Points] /\ job \in [Tasks -> Jobs]
  BY Zenon DEF IInv, TypeOK
<1>1. pc[t] \notin Locked /\ UNCHANGED <<guide, refreshMu>>
  BY DEF Submit, SchedulerStep, Plan, TimerFires, ScheduledRefresh,
         FinishRefresh, ReportError, Locked
<1>2. \A u \in Tasks : u # t => pc'[u] = pc[u] /\ job'[u] = job[u]
  BY <1>0 DEF Submit, SchedulerStep, Plan, TimerFires, ScheduledRefresh,
              BeginRefresh, FinishRefresh, ReportError, Goto
<1>3. UNCHANGED Attempt
  BY <1>1, <1>2, AttemptStays
<1> QED
  BY <1>1, <1>3 DEF guide, Promised!guideVars

(* Whoever asks for a refresh and whatever fails: what readers of the      *)
(* guide see is what Guide promises, one attempt at a time.                *)
THEOREM SpecImplementsGuide == Spec => ImplementsGuide
<1>1. Init => Promised!GuideInit
  BY DEF Init, Attempt, Promised!GuideInit
<1>2. IInv /\ Brought /\ [Next]_vars => [Promised!GuideNext]_(Promised!guideVars)
  <2> SUFFICES ASSUME IInv, Brought, [Next]_vars
               PROVE  Promised!GuideNext \/ UNCHANGED Promised!guideVars
    OBVIOUS
  <2>1. ASSUME NEW t \in Tasks, RefreshStep(t)
        PROVE  Promised!GuideNext \/ UNCHANGED Promised!guideVars
    BY <2>1, LockBegins, SaveReplaces, LockedSteps, UnseenSteps DEF RefreshStep
  <2>2. ASSUME NEW t \in Manuals, NEW force \in BOOLEAN, Submit(t, force)
        PROVE  UNCHANGED Promised!guideVars
    <3>1. t \in Tasks
      BY DEF Tasks
    <3> QED  BY <2>2, <3>1, UnseenSteps
  <2>3. CASE SchedulerStep
    <3>1. Scheduler \in Tasks
      BY DEF Tasks
    <3> QED  BY <2>3, <3>1, UnseenSteps
  <2>4. CASE Tick
    <3>1. UNCHANGED Attempt
      BY <2>4 DEF Tick, Attempt, Stage
    <3> QED  BY <2>4, <3>1 DEF Tick, Promised!GuideNext, Promised!GrowOld
  <2>5. CASE Restart
    <3>1. Attempt' = "none"
      BY <2>5 DEF Restart, Attempt
    <3> QED  BY <2>5, <3>1 DEF Restart, Promised!GuideNext, Promised!StartOver
  <2>6. CASE UNCHANGED vars
    BY <2>6 DEF vars, Attempt, Stage, Promised!guideVars
  <2> QED
    BY <2>1, <2>2, <2>3, <2>4, <2>5, <2>6 DEF Next
<1> QED
  BY <1>1, <1>2, SpecIInv, SpecBrought, PTL
  DEF Spec, ImplementsGuide, Promised!GuideSpec
=============================================================================
