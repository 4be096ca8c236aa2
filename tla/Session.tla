------------------------------ MODULE Session ------------------------------
(***************************************************************************)
(* The portal session of the gateway: auth.go (login, ensureLogin,         *)
(* loginAfterRejectedSession, loginLocked), gateway.go (authSnapshot,      *)
(* newGateway) and portal.go (request, sessionRejected).                   *)
(*                                                                         *)
(* Every EPG fetch and TVOD lookup runs request(): it makes sure a session *)
(* exists, sends, and when the portal rejects the session logs in again    *)
(* and retries once.  The refresh task calls login() unconditionally.  All *)
(* logins are serialised by loginMu; the status fields are guarded by the  *)
(* short lock mu, so each read or write of them is one step here.          *)
(*                                                                         *)
(* The portal is outside the gateway: it may answer, fail or reject any    *)
(* attempt, and each login may be given another EPG base.  A critical      *)
(* section's lock and its first re-check are one action: only the owner of *)
(* loginMu writes what the re-check reads.                                 *)
(***************************************************************************)
EXTENDS Naturals

CONSTANTS
  Requests,    \* callers of request(): EPG fetch workers and TVOD lookups
  Refreshers,  \* callers of login(): refresh tasks
  Bases,       \* EPG base addresses a login may discover
  NoBase,      \* no EPG base known: epgBaseURL = ""
  Free,        \* loginMu is not held
  TTL,         \* auth_session_ttl_seconds, in clock ticks
  Horizon      \* bound: no tick, restart or new call starts at or after it

Actors == Requests \cup Refreshers

ASSUME SessionAssumption ==
  /\ Requests \cap Refreshers = {}
  /\ NoBase \notin Bases
  /\ Free \notin Actors
  /\ TTL \in Nat \ {0}
  /\ Horizon \in Nat

VARIABLES
  now,         \* the clock
  authStatus,  \* g.authStatus by its message; OK iff it is "loginOK"
  lastLogin,   \* g.lastLogin, 0 for the zero time
  epgBase,     \* g.epgBaseURL
  savedBase,   \* key epg_base of the state bucket
  loginMu,     \* owner of g.loginMu
  pc,          \* where each actor is
  frame,       \* the local variables of each actor's running call
  saveFailed   \* history: the last save of epg_base failed

vars == <<now, authStatus, lastLogin, epgBase, savedBase, loginMu, pc,
          frame, saveFailed>>

Purposes == {"ensure", "reject", "refresh"}

(* purpose: which caller entered loginLocked; observed: observedLogin of   *)
(* request(); sentUnder: history, lastLogin when the rejected attempt was  *)
(* sent.                                                                   *)
Frames == [purpose : Purposes, observed : Nat, sentUnder : Nat]

NoFrame == [purpose |-> "refresh", observed |-> 0, sentUnder |-> 0]

Points == {"idle", "ensure", "lockEnsure", "observe", "send", "lockReject",
           "retry", "lockLogin", "login", "persist"}

TypeOK ==
  /\ now \in Nat
  /\ authStatus \in {"notLoggedIn", "loginFailed", "loginOK"}
  /\ lastLogin \in Nat
  /\ epgBase \in Bases \cup {NoBase}
  /\ savedBase \in Bases \cup {NoBase}
  /\ loginMu \in Actors \cup {Free}
  /\ pc \in [Actors -> Points]
  /\ frame \in [Actors -> Frames]
  /\ saveFailed \in BOOLEAN

(* authSnapshot().OK: logged in, and not for longer than the TTL.          *)
SessionOK ==
  /\ authStatus = "loginOK"
  /\ lastLogin # 0
  /\ now - lastLogin < TTL

Init ==
  /\ now = 0
  /\ authStatus = "notLoggedIn"
  /\ lastLogin = 0
  /\ savedBase \in Bases \cup {NoBase}
  /\ epgBase = savedBase
  /\ loginMu = Free
  /\ pc = [a \in Actors |-> "idle"]
  /\ frame = [a \in Actors |-> NoFrame]
  /\ saveFailed = FALSE

Goto(a, point) == pc' = [pc EXCEPT ![a] = point]

(* The call ends and its local variables with it.                          *)
Return(a) ==
  /\ Goto(a, "idle")
  /\ frame' = [frame EXCEPT ![a] = NoFrame]

session == <<authStatus, lastLogin, epgBase>>
saved   == <<savedBase, saveFailed>>

----------------------------------------------------------------------------
(* loginLocked, entered with loginMu held.                                 *)

(* The first thing a login does is to drop the status of the session.      *)
BeginLogin(a, why) ==
  /\ loginMu' = a
  /\ authStatus' = "notLoggedIn"
  /\ frame' = [frame EXCEPT ![a].purpose = why]
  /\ Goto(a, "login")

(* Mutation of LoginFails: an early return forgets the lock.               *)
LoginFailsKeepsLock(a) ==
  /\ pc[a] = "login"
  /\ authStatus' = "loginFailed"
  /\ Return(a)
  /\ UNCHANGED <<now, lastLogin, epgBase, loginMu, saved>>

(* fail(err): configuration missing, a request failed, a page without the  *)
(* expected token, form or entry.                                          *)
LoginFails(a) ==
  /\ pc[a] = "login"
  /\ authStatus' = "loginFailed"
  /\ loginMu' = Free
  /\ Return(a)
  /\ UNCHANGED <<now, lastLogin, epgBase, saved>>

(* Mutation of LoginSucceeds: the lock is released before the base is saved. *)
LoginSucceedsUnlocks(a, b) ==
  /\ pc[a] = "login"
  /\ now' = now + 1
  /\ lastLogin' = now + 1
  /\ epgBase' = b
  /\ authStatus' = "loginOK"
  /\ loginMu' = Free
  /\ Goto(a, "persist")
  /\ UNCHANGED <<frame, saved>>

(* A login takes several round trips: it ends strictly later than any      *)
(* login before it.                                                        *)
LoginSucceeds(a, b) ==
  /\ pc[a] = "login"
  /\ now' = now + 1
  /\ lastLogin' = now + 1
  /\ epgBase' = b
  /\ authStatus' = "loginOK"
  /\ Goto(a, "persist")
  /\ UNCHANGED <<loginMu, frame, saved>>

(* stateSet("epg_base"): a failure is only logged.  loginMu is still held, *)
(* so epgBase is what this login discovered.                               *)
PersistBase(a) ==
  /\ pc[a] = "persist"
  /\ \/ savedBase' = epgBase /\ saveFailed' = FALSE
     \/ savedBase' = savedBase /\ saveFailed' = TRUE
  /\ loginMu' = Free
  /\ \/ frame[a].purpose = "ensure" /\ Goto(a, "observe") /\ UNCHANGED frame
     \/ frame[a].purpose = "reject" /\ Goto(a, "retry") /\ UNCHANGED frame
     \/ frame[a].purpose = "refresh" /\ Return(a)
  /\ UNCHANGED <<now, session>>

----------------------------------------------------------------------------
(* request(), and the URL its caller builds first.                         *)

(* epgURL / tvodURL read the base; without one the caller returns an error *)
(* before request() is reached.                                            *)
StartRequest(r) ==
  /\ pc[r] = "idle"
  /\ now < Horizon
  /\ epgBase # NoBase
  /\ Goto(r, "ensure")
  /\ UNCHANGED <<now, session, loginMu, frame, saved>>

(* ensureLogin's first look, without the lock.                             *)
EnsureFast(r) ==
  /\ pc[r] = "ensure"
  /\ Goto(r, IF SessionOK THEN "observe" ELSE "lockEnsure")
  /\ UNCHANGED <<now, session, loginMu, frame, saved>>

(* Mutation of EnsureLocked: no second look once the lock is held.         *)
EnsureLockedBlindly(r) ==
  /\ pc[r] = "lockEnsure"
  /\ loginMu = Free
  /\ BeginLogin(r, "ensure")
  /\ UNCHANGED <<now, lastLogin, epgBase, saved>>

(* ensureLogin's second look, with the lock.                               *)
EnsureLocked(r) ==
  /\ pc[r] = "lockEnsure"
  /\ loginMu = Free
  /\ \/ /\ SessionOK
        /\ Goto(r, "observe")
        /\ UNCHANGED <<authStatus, loginMu, frame>>
     \/ /\ ~SessionOK
        /\ BeginLogin(r, "ensure")
  /\ UNCHANGED <<now, lastLogin, epgBase, saved>>

(* observedLogin := lastLoginSnapshot()                                    *)
Observe(r) ==
  /\ pc[r] = "observe"
  /\ frame' = [frame EXCEPT ![r].observed = lastLogin]
  /\ Goto(r, "send")
  /\ UNCHANGED <<now, session, loginMu, saved>>

(* requestRaw: an answer or a transport error ends the request, a rejected *)
(* session (401, 403 or the rebuild page) does not.                        *)
Send(r) ==
  /\ pc[r] = "send"
  /\ \/ Return(r)
     \/ /\ Goto(r, "lockReject")
        /\ frame' = [frame EXCEPT ![r].sentUnder = lastLogin]
  /\ UNCHANGED <<now, session, loginMu, saved>>

(* Mutation of RejectLocked: whoever finds a session does not log in.      *)
RejectLockedAnySession(r) ==
  /\ pc[r] = "lockReject"
  /\ loginMu = Free
  /\ \/ /\ SessionOK
        /\ Goto(r, "retry")
        /\ UNCHANGED <<authStatus, loginMu, frame>>
     \/ /\ ~SessionOK
        /\ BeginLogin(r, "reject")
  /\ UNCHANGED <<now, lastLogin, epgBase, saved>>

(* loginAfterRejectedSession: a session newer than the one observed before *)
(* sending is used as it is, otherwise a new login is made.                *)
RejectLocked(r) ==
  /\ pc[r] = "lockReject"
  /\ loginMu = Free
  /\ \/ /\ SessionOK /\ lastLogin > frame[r].observed
        /\ Goto(r, "retry")
        /\ UNCHANGED <<authStatus, loginMu, frame>>
     \/ /\ ~(SessionOK /\ lastLogin > frame[r].observed)
        /\ BeginLogin(r, "reject")
  /\ UNCHANGED <<now, lastLogin, epgBase, saved>>

(* The one retry: whatever comes back is the result.                       *)
Retry(r) ==
  /\ pc[r] = "retry"
  /\ Return(r)
  /\ UNCHANGED <<now, session, loginMu, saved>>

----------------------------------------------------------------------------
(* login() from a refresh, the clock, and a restart of the process.        *)

StartRefresh(f) ==
  /\ pc[f] = "idle"
  /\ now < Horizon
  /\ Goto(f, "lockLogin")
  /\ UNCHANGED <<now, session, loginMu, frame, saved>>

LoginLocked(f) ==
  /\ pc[f] = "lockLogin"
  /\ loginMu = Free
  /\ BeginLogin(f, "refresh")
  /\ UNCHANGED <<now, lastLogin, epgBase, saved>>

Tick ==
  /\ now < Horizon
  /\ now' = now + 1
  /\ UNCHANGED <<session, loginMu, pc, frame, saved>>

(* The process dies at any point; newGateway starts without a session and  *)
(* with the base that was saved.                                           *)
Restart ==
  /\ now < Horizon
  /\ now' = now + 1
  /\ authStatus' = "notLoggedIn"
  /\ lastLogin' = 0
  /\ epgBase' = savedBase
  /\ loginMu' = Free
  /\ pc' = [a \in Actors |-> "idle"]
  /\ frame' = [a \in Actors |-> NoFrame]
  /\ saveFailed' = FALSE
  /\ UNCHANGED savedBase

(* Nothing is left to do below the bound.                                  *)
Done ==
  /\ now >= Horizon
  /\ \A a \in Actors : pc[a] = "idle"
  /\ UNCHANGED vars

RequestStep(r) ==
  \/ EnsureFast(r) \/ EnsureLocked(r) \/ Observe(r)
  \/ Send(r) \/ RejectLocked(r) \/ Retry(r)

LoginStep(a) ==
  \/ LoginFails(a)
  \/ \E b \in Bases : LoginSucceeds(a, b)
  \/ PersistBase(a)

Next ==
  \/ \E r \in Requests : StartRequest(r) \/ RequestStep(r)
  \/ \E f \in Refreshers : StartRefresh(f) \/ LoginLocked(f)
  \/ \E a \in Actors : LoginStep(a)
  \/ Tick
  \/ Restart
  \/ Done

Spec == Init /\ [][Next]_vars

(* Every HTTP call has a timeout, so a request and a login always move on; *)
(* Go's sync.Mutex hands a starving waiter the lock, so waiting for loginMu *)
(* is strongly fair.  Nothing obliges a new request, a tick or a restart.  *)
Unhindered(r) ==
  EnsureFast(r) \/ Observe(r) \/ Send(r) \/ Retry(r) \/ LoginStep(r)

Fairness ==
  /\ \A r \in Requests :
       /\ WF_vars(Unhindered(r))
       /\ SF_vars(EnsureLocked(r) \/ RejectLocked(r))
  /\ \A f \in Refreshers : WF_vars(LoginStep(f)) /\ SF_vars(LoginLocked(f))

FairSpec == Spec /\ Fairness

----------------------------------------------------------------------------
(* Safety.                                                                 *)

(* A session that counts as logged in has a login time and an EPG base: no *)
(* reader of authSnapshot can see OK with half of a login published.       *)
SessionComplete ==
  authStatus = "loginOK" => lastLogin # 0 /\ epgBase # NoBase

(* Outside a login the saved base is the one in use, unless the save       *)
(* failed: a restart comes back to the base of the last login, whatever    *)
(* order logins overlapped in.                                             *)
BaseSaved ==
  (loginMu = Free /\ ~saveFailed) => savedBase = epgBase

(* A request retries only once a login newer than the session it had       *)
(* observed has been published, however many requests were rejected        *)
(* together and whoever of them made the login.                            *)
RetryOnNewSession ==
  \A r \in Requests : pc[r] = "retry" => lastLogin > frame[r].observed

(* A usable session is dropped only by a refresh or by a request that had  *)
(* observed that very session: requests that queue on loginMu after their  *)
(* session expired or was rejected do not undo each other's login.         *)
DroppedSession ==
  SessionOK /\ authStatus' # "loginOK"

DroppedForCause ==
  \/ lastLogin' = 0
  \/ \E f \in Refreshers : loginMu' = f /\ pc[f] = "lockLogin"
  \/ \E r \in Requests :
       loginMu' = r /\ pc[r] = "lockReject" /\ frame[r].observed = lastLogin

NoHealthySessionDropped == [][DroppedSession => DroppedForCause]_vars

(* README: after a session rejection the gateway logs in again and then    *)
(* retries.  The session of the retry would have to be newer than the one  *)
(* the rejected attempt was sent under.                                    *)
RetryAfterRelogin ==
  \A r \in Requests : pc[r] = "retry" => lastLogin > frame[r].sentUnder

----------------------------------------------------------------------------
(* Liveness: every request comes back to its caller, so loginMu is never   *)
(* kept for ever.                                                          *)
RequestsReturn == \A r \in Requests : pc[r] # "idle" ~> pc[r] = "idle"
=============================================================================
