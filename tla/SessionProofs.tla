--------------------------- MODULE SessionProofs ---------------------------
(***************************************************************************)
(* Proofs about Session for any number of requests and refreshes, any TTL  *)
(* and any Horizon.  The invariants the runs check are not inductive: what *)
(* is missing is who holds loginMu, that a login in progress keeps the     *)
(* session down, and that nobody observes a login that has not happened.   *)
(***************************************************************************)
EXTENDS Session, TLAPS

(* loginMu is held exactly by the actor inside loginLocked.                *)
OwnerLogsIn ==
  \A a \in Actors : pc[a] \in {"login", "persist"} <=> loginMu = a

(* While a login runs no reader finds the old session OK.                  *)
DownDuringLogin ==
  \A a \in Actors : pc[a] = "login" => authStatus # "loginOK"

NothingFromTheFuture ==
  /\ lastLogin <= now
  /\ \A a \in Actors : frame[a].observed <= lastLogin

(* A login made for a rejected request is newer than the one observed.     *)
ReloginIsNewer ==
  \A a \in Actors :
    pc[a] = "persist" /\ frame[a].purpose = "reject"
      => lastLogin > frame[a].observed

(* The saved base lags behind only while a login is about to save it.      *)
SavedUnlessPersisting ==
  (~saveFailed /\ \A a \in Actors : pc[a] # "persist") => savedBase = epgBase

IInv ==
  /\ TypeOK
  /\ OwnerLogsIn
  /\ DownDuringLogin
  /\ SessionComplete
  /\ NothingFromTheFuture
  /\ ReloginIsNewer
  /\ RetryOnNewSession
  /\ SavedUnlessPersisting

LEMMA NoFrameType == NoFrame \in Frames /\ NoFrame.observed = 0
BY DEF NoFrame, Frames, Purposes

LEMMA InitIInv == Init => IInv
<1> SUFFICES ASSUME Init PROVE IInv
  OBVIOUS
<1> USE SessionAssumption DEF SessionAssumption, Init
<1>1. TypeOK
  BY NoFrameType DEF TypeOK, Points
<1>2. OwnerLogsIn /\ DownDuringLogin /\ SessionComplete
  BY DEF OwnerLogsIn, DownDuringLogin, SessionComplete
<1>3. NothingFromTheFuture
  BY NoFrameType DEF NothingFromTheFuture
<1>4. ReloginIsNewer /\ RetryOnNewSession /\ SavedUnlessPersisting
  BY DEF ReloginIsNewer, RetryOnNewSession, SavedUnlessPersisting, Actors
<1> QED
  BY <1>1, <1>2, <1>3, <1>4 DEF IInv

(* Entering loginLocked with a free lock, from any of its three callers.   *)
LEMMA BeginLoginIInv ==
  ASSUME IInv, NEW a \in Actors, NEW why \in Purposes,
         pc[a] \in {"lockEnsure", "lockReject", "lockLogin"},
         loginMu = Free, BeginLogin(a, why),
         UNCHANGED <<now, lastLogin, epgBase, saved>>
  PROVE  IInv'
<1> USE SessionAssumption DEF SessionAssumption, IInv, BeginLogin, Goto, saved
<1>1. TypeOK'
  BY DEF TypeOK, Points, Frames
<1>2. OwnerLogsIn' /\ DownDuringLogin'
  BY DEF TypeOK, OwnerLogsIn, DownDuringLogin
<1>3. SessionComplete'
  BY DEF SessionComplete
<1>4. NothingFromTheFuture' /\ ReloginIsNewer' /\ RetryOnNewSession'
  BY DEF TypeOK, Frames, NothingFromTheFuture, ReloginIsNewer,
         RetryOnNewSession, Actors
<1>5. SavedUnlessPersisting'
  BY DEF TypeOK, SavedUnlessPersisting
<1> QED
  BY <1>1, <1>2, <1>3, <1>4, <1>5

(* A step that leaves session, lock, clock and saved base alone and moves  *)
(* one actor between points outside loginLocked.                           *)
LEMMA QuietStepIInv ==
  ASSUME IInv, NEW a \in Actors, NEW point \in Points, NEW fr \in Frames,
         pc[a] \notin {"login", "persist"},
         point \notin {"login", "persist"},
         fr.observed <= lastLogin,
         point = "retry" => lastLogin > fr.observed,
         pc' = [pc EXCEPT ![a] = point],
         frame' = [frame EXCEPT ![a] = fr],
         UNCHANGED <<now, session, loginMu, saved>>
  PROVE  IInv'
<1> USE SessionAssumption DEF SessionAssumption, IInv, session, saved
<1>1. TypeOK'
  BY DEF TypeOK
<1>2. OwnerLogsIn' /\ DownDuringLogin'
  BY DEF TypeOK, OwnerLogsIn, DownDuringLogin
<1>3. SessionComplete'
  BY DEF SessionComplete
<1>4. NothingFromTheFuture' /\ ReloginIsNewer' /\ RetryOnNewSession'
  BY DEF TypeOK, NothingFromTheFuture, ReloginIsNewer, RetryOnNewSession,
         Actors
<1>5. SavedUnlessPersisting'
  BY DEF TypeOK, SavedUnlessPersisting
<1> QED
  BY <1>1, <1>2, <1>3, <1>4, <1>5

LEMMA NextIInv == IInv /\ [Next]_vars => IInv'
<1> SUFFICES ASSUME IInv, [Next]_vars PROVE IInv'
  OBVIOUS
<1> USE SessionAssumption DEF SessionAssumption
<1>0. /\ NoFrame \in Frames
      /\ NoFrame.observed <= lastLogin
      /\ \A a \in Actors : /\ frame[a] \in Frames
                           /\ frame = [frame EXCEPT ![a] = frame[a]]
      /\ \A a \in Actors : frame[a].observed <= lastLogin
  BY NoFrameType DEF IInv, TypeOK, NothingFromTheFuture
<1>1. ASSUME NEW r \in Requests, StartRequest(r) PROVE IInv'
  <2>1. /\ frame' = [frame EXCEPT ![r] = frame[r]]
        /\ pc[r] = "idle" /\ r \in Actors
    BY <1>0, <1>1 DEF StartRequest, Actors
  <2> QED
    BY <1>0, <1>1, <2>1, QuietStepIInv DEF StartRequest, Goto, Points
<1>2. ASSUME NEW r \in Requests, EnsureFast(r) PROVE IInv'
  <2>1. r \in Actors /\ frame' = [frame EXCEPT ![r] = frame[r]]
    BY <1>0, <1>2 DEF EnsureFast, Actors
  <2>2. pc' = [pc EXCEPT ![r] = "observe"]
        \/ pc' = [pc EXCEPT ![r] = "lockEnsure"]
    BY <1>2 DEF EnsureFast, Goto
  <2> QED
    BY <1>0, <1>2, <2>1, <2>2, QuietStepIInv DEF EnsureFast, Points
<1>3. ASSUME NEW r \in Requests, EnsureLocked(r) PROVE IInv'
  <2>1. r \in Actors
    BY DEF Actors
  <2>2. CASE SessionOK
    BY <1>0, <1>3, <2>1, <2>2, QuietStepIInv
    DEF EnsureLocked, Goto, Points, session
  <2>3. CASE ~SessionOK
    BY <1>3, <2>1, <2>3, BeginLoginIInv DEF EnsureLocked, Purposes
  <2> QED
    BY <2>2, <2>3
<1>4. ASSUME NEW r \in Requests, Observe(r) PROVE IInv'
  <2> DEFINE fr == [frame[r] EXCEPT !.observed = lastLogin]
  <2>1. /\ fr \in Frames /\ fr.observed <= lastLogin
        /\ frame' = [frame EXCEPT ![r] = fr]
        /\ pc[r] = "observe" /\ r \in Actors
    BY <1>0, <1>4 DEF Observe, IInv, TypeOK, Frames, Actors
  <2> QED
    BY <1>4, <2>1, QuietStepIInv DEF Observe, Goto, Points
<1>5. ASSUME NEW r \in Requests, Send(r) PROVE IInv'
  <2> DEFINE fr == [frame[r] EXCEPT !.sentUnder = lastLogin]
  <2>1. /\ fr \in Frames /\ fr.observed <= lastLogin
        /\ pc[r] = "send" /\ r \in Actors
    BY <1>0, <1>5 DEF Send, IInv, TypeOK, Frames, Actors
  <2>2. CASE Return(r)
    BY <1>0, <1>5, <2>1, <2>2, QuietStepIInv DEF Send, Return, Goto, Points
  <2>3. CASE Goto(r, "lockReject") /\ frame' = [frame EXCEPT ![r] = fr]
    BY <1>5, <2>1, <2>3, QuietStepIInv DEF Send, Goto, Points
  <2> QED
    BY <1>5, <2>2, <2>3 DEF Send
<1>6. ASSUME NEW r \in Requests, RejectLocked(r) PROVE IInv'
  <2>1. r \in Actors
    BY DEF Actors
  <2>2. CASE SessionOK /\ lastLogin > frame[r].observed
    BY <1>0, <1>6, <2>1, <2>2, QuietStepIInv
    DEF RejectLocked, Goto, Points, session
  <2>3. CASE ~(SessionOK /\ lastLogin > frame[r].observed)
    BY <1>6, <2>1, <2>3, BeginLoginIInv DEF RejectLocked, Purposes
  <2> QED
    BY <2>2, <2>3
<1>7. ASSUME NEW r \in Requests, Retry(r) PROVE IInv'
  BY <1>0, <1>7, QuietStepIInv DEF Retry, Return, Goto, Points, Actors
<1>8. ASSUME NEW f \in Refreshers, StartRefresh(f) PROVE IInv'
  BY <1>0, <1>8, QuietStepIInv DEF StartRefresh, Goto, Points, Actors
<1>9. ASSUME NEW f \in Refreshers, LoginLocked(f) PROVE IInv'
  BY <1>9, BeginLoginIInv DEF LoginLocked, Purposes, Actors
<1>10. ASSUME NEW a \in Actors, LoginFails(a) PROVE IInv'
  <2> USE <1>0, <1>10 DEF LoginFails, Return, Goto, saved
  <2>1. TypeOK'
    BY DEF IInv, TypeOK, Points
  <2>2. OwnerLogsIn' /\ DownDuringLogin'
    BY DEF IInv, TypeOK, OwnerLogsIn, DownDuringLogin
  <2>3. SessionComplete'
    BY DEF SessionComplete
  <2>4. NothingFromTheFuture' /\ ReloginIsNewer' /\ RetryOnNewSession'
    BY DEF IInv, TypeOK, NothingFromTheFuture, ReloginIsNewer,
           RetryOnNewSession, Actors
  <2>5. SavedUnlessPersisting'
    BY DEF IInv, TypeOK, SavedUnlessPersisting
  <2> QED
    BY <2>1, <2>2, <2>3, <2>4, <2>5 DEF IInv
<1>11. ASSUME NEW a \in Actors, NEW b \in Bases, LoginSucceeds(a, b)
       PROVE  IInv'
  <2> USE <1>11 DEF LoginSucceeds, Goto, saved
  <2>0. \A x \in Actors : frame[x].observed \in Nat
    BY DEF IInv, TypeOK, Frames
  <2>1. TypeOK'
    BY DEF IInv, TypeOK, Points
  <2>2. OwnerLogsIn' /\ DownDuringLogin'
    BY DEF IInv, TypeOK, OwnerLogsIn, DownDuringLogin
  <2>3. SessionComplete'
    BY DEF IInv, TypeOK, SessionComplete
  <2>4. NothingFromTheFuture' /\ ReloginIsNewer' /\ RetryOnNewSession'
    BY <2>0 DEF IInv, TypeOK, NothingFromTheFuture, ReloginIsNewer,
                RetryOnNewSession, Actors
  <2>5. SavedUnlessPersisting'
    BY DEF IInv, TypeOK, SavedUnlessPersisting
  <2> QED
    BY <2>1, <2>2, <2>3, <2>4, <2>5 DEF IInv
<1>12. ASSUME NEW a \in Actors, PersistBase(a) PROVE IInv'
  <2> USE <1>0, <1>12 DEF PersistBase, Return, Goto, session
  <2>0. \A x \in Actors : x # a => pc[x] \notin {"login", "persist"}
    BY DEF IInv, OwnerLogsIn
  <2>1. TypeOK'
    <3>1. pc' \in [Actors -> Points]
      BY DEF IInv, TypeOK, Points
    <3>2. frame' \in [Actors -> Frames]
      BY DEF IInv, TypeOK
    <3> QED
      BY <3>1, <3>2 DEF IInv, TypeOK
  <2>2. OwnerLogsIn' /\ DownDuringLogin'
    BY <2>0 DEF IInv, TypeOK, OwnerLogsIn, DownDuringLogin
  <2>3. SessionComplete'
    BY DEF IInv, SessionComplete
  <2>4. NothingFromTheFuture' /\ ReloginIsNewer'
    BY <2>0 DEF IInv, TypeOK, NothingFromTheFuture, ReloginIsNewer
  <2>5. RetryOnNewSession'
    BY DEF IInv, TypeOK, ReloginIsNewer, RetryOnNewSession, Actors
  <2>6. SavedUnlessPersisting'
    BY <2>0 DEF IInv, TypeOK, SavedUnlessPersisting
  <2> QED
    BY <2>1, <2>2, <2>3, <2>4, <2>5, <2>6 DEF IInv
<1>13. CASE Tick
  BY <1>13
  DEF Tick, session, saved, IInv, TypeOK, OwnerLogsIn, DownDuringLogin,
      SessionComplete, NothingFromTheFuture, ReloginIsNewer,
      RetryOnNewSession, SavedUnlessPersisting
<1>14. CASE Restart
  <2> USE <1>14 DEF Restart
  <2>1. TypeOK'
    <3>1. pc' \in [Actors -> Points] /\ frame' \in [Actors -> Frames]
      BY NoFrameType DEF Points
    <3>2. now' \in Nat
      BY DEF IInv, TypeOK
    <3> QED
      BY <3>1, <3>2, Zenon DEF IInv, TypeOK
  <2>2. OwnerLogsIn' /\ DownDuringLogin' /\ SessionComplete'
    BY DEF OwnerLogsIn, DownDuringLogin, SessionComplete
  <2>3. NothingFromTheFuture'
    BY NoFrameType DEF IInv, TypeOK, NothingFromTheFuture
  <2>4. ReloginIsNewer' /\ RetryOnNewSession' /\ SavedUnlessPersisting'
    BY DEF ReloginIsNewer, RetryOnNewSession, SavedUnlessPersisting, Actors
  <2> QED
    BY <2>1, <2>2, <2>3, <2>4 DEF IInv
<1>15. CASE UNCHANGED vars
  BY <1>15
  DEF vars, IInv, TypeOK, OwnerLogsIn, DownDuringLogin, SessionComplete,
      NothingFromTheFuture, ReloginIsNewer, RetryOnNewSession,
      SavedUnlessPersisting
<1> QED
  BY <1>1, <1>2, <1>3, <1>4, <1>5, <1>6, <1>7, <1>8, <1>9, <1>10, <1>11,
     <1>12, <1>13, <1>14, <1>15 DEF Next, RequestStep, LoginStep, Done

LEMMA SpecIInv == Spec => []IInv
BY InitIInv, NextIInv, PTL DEF Spec

(* The variables of the portal session keep their types.                   *)
THEOREM SpecTypeOK == Spec => []TypeOK
<1>1. IInv => TypeOK
  BY DEF IInv
<1> QED
  BY <1>1, SpecIInv, PTL

(* No reader of authSnapshot finds a half-published login.                 *)
THEOREM SpecSessionComplete == Spec => []SessionComplete
<1>1. IInv => SessionComplete
  BY DEF IInv
<1> QED
  BY <1>1, SpecIInv, PTL

(* A rejected request retries only on a login newer than it had observed.  *)
THEOREM SpecRetryOnNewSession == Spec => []RetryOnNewSession
<1>1. IInv => RetryOnNewSession
  BY DEF IInv
<1> QED
  BY <1>1, SpecIInv, PTL

(* Outside logins the saved base is the one in use, unless its save failed. *)
THEOREM SpecBaseSaved == Spec => []BaseSaved
<1>1. IInv => BaseSaved
  BY SessionAssumption
  DEF SessionAssumption, IInv, OwnerLogsIn, SavedUnlessPersisting, BaseSaved
<1> QED
  BY <1>1, SpecIInv, PTL

(* Callers that wait for loginMu do not undo each other's logins: a usable *)
(* session is dropped only by a refresh, a restart or a request that was   *)
(* rejected having observed that session.                                  *)
THEOREM SpecNoHealthySessionDropped == Spec => NoHealthySessionDropped
<1>1. IInv /\ [Next]_vars => [DroppedSession => DroppedForCause]_vars
  <2> SUFFICES ASSUME IInv, Next, DroppedSession PROVE DroppedForCause
    BY DEF DroppedSession, SessionOK, vars
  <2> USE SessionAssumption DEF SessionAssumption, DroppedSession, SessionOK
  <2>1. ASSUME NEW r \in Requests, StartRequest(r) \/ RequestStep(r)
        PROVE  DroppedForCause
    <3>1. RejectLocked(r)
      BY <2>1 DEF StartRequest, RequestStep, EnsureFast, EnsureLocked,
                  Observe, Send, Retry, session
    <3>2. loginMu' = r /\ pc[r] = "lockReject" /\ lastLogin <= frame[r].observed
      BY <3>1 DEF RejectLocked, BeginLogin, IInv, TypeOK, Frames, Actors
    <3>3. frame[r].observed = lastLogin
      BY <3>2 DEF IInv, TypeOK, Frames, NothingFromTheFuture, Actors
    <3> QED
      BY <3>2, <3>3 DEF DroppedForCause
  <2>2. ASSUME NEW f \in Refreshers, StartRefresh(f) \/ LoginLocked(f)
        PROVE  DroppedForCause
    BY <2>2 DEF StartRefresh, LoginLocked, BeginLogin, session,
                DroppedForCause
  <2>3. ASSUME NEW a \in Actors, LoginStep(a) PROVE DroppedForCause
    BY <2>3 DEF LoginStep, LoginFails, LoginSucceeds, PersistBase, session,
                IInv, DownDuringLogin
  <2>4. CASE Tick \/ Restart \/ Done
    BY <2>4 DEF Tick, Restart, Done, vars, session, DroppedForCause
  <2> QED
    BY <2>1, <2>2, <2>3, <2>4 DEF Next
<1> QED
  BY <1>1, SpecIInv, PTL DEF Spec, NoHealthySessionDropped
=============================================================================
