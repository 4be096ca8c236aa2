-------------------------- MODULE FetchPoolProofs --------------------------
(***************************************************************************)
(* Proofs about FetchPool for any number of jobs and any set of workers:   *)
(* no send on a closed channel, no job counted twice or lost, and the pool *)
(* implements FetchAll.                                                    *)
(***************************************************************************)
EXTENDS FetchPool, TLAPS

Stopped == {"drained", "quit"}

HeldFed == \A w \in Workers : Holding(w) => held[w] \in 1..(next - 1)

(* Every job that was fed is counted or in somebody's hands.               *)
Accounted ==
  \A j \in Jobs :
    /\ j >= next => got[j] = 0
    /\ j < next => got[j] = 1 \/ \E w \in Workers : Holding(w) /\ held[w] = j

Closing ==
  /\ JobsClosed => next = N + 1
  /\ ResultsClosed => \A w \in Workers : pc[w] \in Stopped
  /\ collected => ResultsClosed

QuitWhenCancelled == \A w \in Workers : pc[w] = "quit" => cancelled

IInv ==
  /\ TypeOK
  /\ HeldFed
  /\ OneHolder
  /\ Accounted
  /\ Closing
  /\ QuitWhenCancelled

LEMMA InitIInv == Init => IInv
<1> SUFFICES ASSUME Init PROVE IInv
  OBVIOUS
<1> USE PoolAssumption DEF PoolAssumption, Init
<1>1. TypeOK
  <2>1. /\ next \in 1..(N + 1)
        /\ held \in [Workers -> 0..N]
        /\ got \in [Jobs -> Nat]
    OBVIOUS
  <2> QED
    BY <2>1, Zenon DEF TypeOK
<1>2. HeldFed /\ OneHolder /\ QuitWhenCancelled
  BY DEF HeldFed, OneHolder, QuitWhenCancelled, Holding
<1>3. Accounted /\ Closing
  BY DEF Accounted, Closing, Jobs, JobsClosed, ResultsClosed
<1> QED
  BY <1>1, <1>2, <1>3 DEF IInv

LEMMA FeedIInv == ASSUME IInv, NEW w \in Workers, Feed(w) PROVE IInv'
<1> USE PoolAssumption DEF PoolAssumption, Feed, Goto
<1>0. /\ next \in Jobs /\ next' = next + 1 /\ next \in Nat
      /\ \A v \in Workers : held'[v] = IF v = w THEN next ELSE held[v]
      /\ \A v \in Workers : pc'[v] = IF v = w THEN "check" ELSE pc[v]
      /\ \A v \in Workers : Holding(v) => held[v] # next
      /\ \A v \in Workers : held[v] \in Nat
  BY DEF IInv, TypeOK, HeldFed, Jobs
<1>1. TypeOK'
  <2>1. /\ next' \in 1..(N + 1)
        /\ held' \in [Workers -> 0..N]
        /\ pc' \in [Workers -> {"take", "check", "send", "drained", "quit"}]
    BY <1>0 DEF IInv, TypeOK, Jobs
  <2> QED
    BY <2>1, Zenon DEF IInv, TypeOK
<1>2. HeldFed'
  BY <1>0 DEF IInv, TypeOK, HeldFed, Holding
<1>3. OneHolder'
  <2>1. got[next] = 0
    BY <1>0 DEF IInv, Accounted
  <2> QED
    BY <1>0, <2>1 DEF IInv, OneHolder, Holding
<1>4. Accounted'
  <2> SUFFICES ASSUME NEW j \in Jobs
               PROVE  /\ j >= next' => got'[j] = 0
                      /\ j < next' => \/ got'[j] = 1
                                      \/ \E v \in Workers :
                                           Holding(v)' /\ held'[v] = j
    BY DEF Accounted
  <2>1. CASE j = next
    BY <1>0, <2>1 DEF Holding
  <2>2. CASE j # next
    BY <1>0, <2>2 DEF IInv, Accounted, Holding, Jobs
  <2> QED
    BY <2>1, <2>2
<1>5. Closing' /\ QuitWhenCancelled'
  BY <1>0 DEF IInv, Closing, QuitWhenCancelled, JobsClosed, ResultsClosed
<1> QED
  BY <1>1, <1>2, <1>3, <1>4, <1>5 DEF IInv

LEMMA SendIInv == ASSUME IInv, NEW w \in Workers, Send(w) PROVE IInv'
<1> USE PoolAssumption DEF PoolAssumption, Send, Goto
<1>0. /\ held[w] \in Jobs /\ got[held[w]] = 0 /\ Holding(w)
      /\ \A j \in Jobs : got'[j] = IF j = held[w] THEN 1 ELSE got[j]
      /\ \A v \in Workers : pc'[v] = IF v = w THEN "take" ELSE pc[v]
      /\ \A v \in Workers : Holding(v) /\ held[v] = held[w] => v = w
      /\ \A v \in Workers : Holding(v) => held[v] \in Jobs
  BY DEF IInv, TypeOK, HeldFed, OneHolder, Holding, Jobs
<1>1. TypeOK'
  <2>1. /\ got' \in [Jobs -> Nat]
        /\ pc' \in [Workers -> {"take", "check", "send", "drained", "quit"}]
    BY <1>0 DEF IInv, TypeOK
  <2> QED
    BY <2>1, Zenon DEF IInv, TypeOK
<1>2. HeldFed' /\ OneHolder'
  BY <1>0 DEF IInv, HeldFed, OneHolder, Holding
<1>3. Accounted'
  BY <1>0 DEF IInv, TypeOK, HeldFed, Accounted, Holding, Jobs
<1>4. Closing' /\ QuitWhenCancelled'
  BY <1>0
  DEF IInv, Closing, QuitWhenCancelled, JobsClosed, ResultsClosed, Stopped
<1> QED
  BY <1>1, <1>2, <1>3, <1>4 DEF IInv

(* A worker that looks at the context or stops, keeping what it holds.     *)
LEMMA WorkerMoves ==
  ASSUME IInv, NEW w \in Workers,
         NEW to \in {"send", "drained", "quit"},
         pc[w] = IF to = "drained" THEN "take" ELSE "check",
         to = "quit" => cancelled,
         Goto(w, to),
         UNCHANGED <<next, feeder, held, got, collected, cancelled>>
  PROVE  IInv'
<1> USE DEF Goto
<1>0. /\ \A v \in Workers : pc'[v] = IF v = w THEN to ELSE pc[v]
      /\ \A v \in Workers : Holding(v)' <=> Holding(v)
      /\ pc' \in [Workers -> {"take", "check", "send", "drained", "quit"}]
  BY DEF IInv, TypeOK, Holding
<1>1. TypeOK'
  BY <1>0, Zenon DEF IInv, TypeOK
<1>2. HeldFed' /\ OneHolder' /\ Accounted'
  BY <1>0 DEF IInv, HeldFed, OneHolder, Accounted
<1>3. Closing' /\ QuitWhenCancelled'
  BY <1>0
  DEF IInv, Closing, QuitWhenCancelled, JobsClosed, ResultsClosed, Stopped
<1> QED
  BY <1>1, <1>2, <1>3 DEF IInv

LEMMA NextIInv == IInv /\ [Next]_vars => IInv'
<1> SUFFICES ASSUME IInv, [Next]_vars PROVE IInv'
  OBVIOUS
<1>1. ASSUME NEW w \in Workers, Feed(w) \/ WorkerStep(w) PROVE IInv'
  <2>1. CASE Drained(w)
    BY <2>1, WorkerMoves DEF Drained
  <2>2. CASE Check(w)
    <3>1. CASE cancelled
      BY <2>2, <3>1, WorkerMoves DEF Check
    <3>2. CASE ~cancelled
      BY <2>2, <3>2, WorkerMoves DEF Check
    <3> QED
      BY <3>1, <3>2
  <2> QED
    BY <1>1, <2>1, <2>2, FeedIInv, SendIInv DEF WorkerStep
<1>2. CASE CloseJobs
  BY <1>2, PoolAssumption
  DEF PoolAssumption, CloseJobs, IInv, TypeOK, HeldFed, OneHolder, Accounted,
      Closing, QuitWhenCancelled, Holding, JobsClosed, ResultsClosed
<1>3. CASE CloseResults
  BY <1>3
  DEF CloseResults, IInv, TypeOK, HeldFed, OneHolder, Accounted, Closing,
      QuitWhenCancelled, Holding, JobsClosed, ResultsClosed, Stopped
<1>4. CASE Collected
  BY <1>4
  DEF Collected, IInv, TypeOK, HeldFed, OneHolder, Accounted, Closing,
      QuitWhenCancelled, Holding, JobsClosed, ResultsClosed
<1>5. CASE Cancel
  BY <1>5
  DEF Cancel, IInv, TypeOK, HeldFed, OneHolder, Accounted, Closing,
      QuitWhenCancelled, Holding, JobsClosed, ResultsClosed
<1>6. CASE UNCHANGED vars
  BY <1>6
  DEF vars, IInv, TypeOK, HeldFed, OneHolder, Accounted, Closing,
      QuitWhenCancelled, Holding, JobsClosed, ResultsClosed
<1> QED
  BY <1>1, <1>2, <1>3, <1>4, <1>5, <1>6 DEF Next, PoolStep

LEMMA SpecIInv == Spec => []IInv
BY InitIInv, NextIInv, PTL DEF Spec

(* The variables of the pool keep their types.                             *)
THEOREM SpecTypeOK == Spec => []TypeOK
<1>1. IInv => TypeOK
  BY DEF IInv
<1> QED
  BY <1>1, SpecIInv, PTL

(* No worker is left that could send on results once it is closed.         *)
THEOREM SpecNoSendOnClosed == Spec => []NoSendOnClosed
<1>1. IInv => NoSendOnClosed
  BY DEF IInv, Closing, Stopped, NoSendOnClosed
<1> QED
  BY <1>1, SpecIInv, PTL

(* No two workers fetch the same job, and none fetches it again.           *)
THEOREM SpecOneHolder == Spec => []OneHolder
<1>1. IInv => OneHolder
  BY DEF IInv
<1> QED
  BY <1>1, SpecIInv, PTL

(* The pool implements FetchAll: every job is counted exactly once before  *)
(* the refresh goes on, but for one lost job per worker when cancelled.    *)
THEOREM SpecPromiseKept == Spec => PromiseKept
<1> USE PoolAssumption DEF PoolAssumption, Jobs, Promise!Jobs
<1>1. Init => Promise!FetchInit
  BY DEF Init, Promise!FetchInit
<1>2. IInv /\ [Next]_vars => [Promise!FetchNext]_(Promise!allVars)
  <2> SUFFICES ASSUME IInv, [Next]_vars
               PROVE  Promise!FetchNext \/ UNCHANGED Promise!allVars
    OBVIOUS
  <2>1. ASSUME NEW w \in Workers, Send(w) PROVE Promise!FetchNext
    <3>1. held[w] \in Jobs /\ got[held[w]] = 0
      BY <2>1 DEF Send, IInv, TypeOK, HeldFed, OneHolder, Holding
    <3>2. got' = [got EXCEPT ![held[w]] = 1]
      BY <2>1, <3>1 DEF Send
    <3> QED
      BY <2>1, <3>1, <3>2 DEF Send, Promise!FetchNext, Promise!Deliver
  <2>2. ASSUME Collected PROVE Promise!FetchNext
    <3>1. \A j \in Promise!Missing :
            \E w \in Workers : pc[w] = "quit" /\ held[w] = j
      BY <2>2
      DEF Collected, Promise!Missing, IInv, TypeOK, Accounted, Closing,
          Holding, JobsClosed, ResultsClosed, Stopped
    <3>2. ASSUME NEW i \in Promise!Missing
          PROVE  cancelled /\ Promise!OnePerWorker(Promise!Missing)
      <4> DEFINE lost == [w \in Workers |->
                            IF held[w] \in Jobs THEN held[w] ELSE i]
      <4>1. lost \in [Workers -> Promise!Jobs]
        BY DEF Promise!Missing
      <4>2. Promise!Missing \subseteq {lost[w] : w \in Workers}
        BY <3>1 DEF Promise!Missing
      <4>3. cancelled
        BY <3>1 DEF IInv, QuitWhenCancelled
      <4> QED
        BY <4>1, <4>2, <4>3 DEF Promise!OnePerWorker
    <3> QED
      BY <2>2, <3>2 DEF Collected, Promise!FetchNext, Promise!GoOn
  <2>3. CASE Cancel
    BY <2>3 DEF Cancel, Promise!FetchNext, Promise!CancelFetch
  <2> QED
    BY <2>1, <2>2, <2>3
    DEF Next, PoolStep, WorkerStep, Feed, Drained, Check, CloseJobs,
        CloseResults, vars, Promise!allVars
<1> QED
  BY <1>1, <1>2, SpecIInv, PTL DEF Spec, PromiseKept, Promise!FetchAllSpec
=============================================================================
