-------------------------------- MODULE Login --------------------------------
(***************************************************************************)
(* What a login is made of: auth.go (loginLocked) and portal.go            *)
(* (epgDiscovery, initEPGSession).                                         *)
(*                                                                         *)
(* With loginMu held, the gateway fetches the login page, posts the        *)
(* authenticator, follows the pages the platform redirects it to until one *)
(* names the EPG service entry, asks the entry for the EPG, runs through   *)
(* the pages of the EPG, and then publishes and saves the new session.     *)
(* Session takes all of this as one step; this module implements it, which *)
(* ImplementsSession states.                                               *)
(*                                                                         *)
(* The platform is outside the gateway: a page may redirect anywhere, the  *)
(* same page not always the same way, and any request may fail or lack     *)
(* what is looked for.  URLs are taken after resolveReference.             *)
(***************************************************************************)
EXTENDS Naturals

CONSTANTS
  Callers,    \* callers of login(): refresh tasks
  Pages,      \* URLs the platform redirects to
  Entries,    \* those with /iptvepg/function/index.jsp in them
  Fallbacks,  \* entries built from the CTCSetConfig EPGDomain
  Bases,      \* origins of EPG services
  NoUrl,      \* no location, no entry, no EPGDomain: ""
  NoBase,     \* no EPG base known: ""
  Free,       \* loginMu is not held
  MaxHops,    \* pages followed at most: 4
  Horizon     \* bound: no tick, restart or new login starts at or after it

ASSUME LoginAssumption ==
  /\ Entries \subseteq Pages
  /\ NoUrl \notin Pages \cup Fallbacks
  /\ NoBase \notin Bases
  /\ Free \notin Callers
  /\ MaxHops \in Nat \ {0}
  /\ Horizon \in Nat

VARIABLES
  now, authStatus, lastLogin, epgBase, savedBase, loginMu, saveFailed,
              \* as in Session
  pc,         \* where each caller is
  d,          \* the epgDiscovery of the login that runs
  hops,       \* the loop counter of its walk
  asked,      \* history: requests answered in it
  first       \* history: the first entry that a page of it named

session == <<authStatus, lastLogin, epgBase>>
saved   == <<savedBase, saveFailed>>
locals  == <<d, hops, asked, first>>
vars    == <<now, session, saved, loginMu, pc, locals>>

(* The pages that are asked for one after the other, and what follows each. *)
Following ==
  [loginPage |-> "userToken", epgIndex |-> "portalAuth",
   portalAuth |-> "setConfig", setConfig |-> "frame", frame |-> "judger",
   judger |-> "builder", builder |-> "publish"]

Working == {"loginPage", "userToken", "walk", "easip", "epgIndex", "portalAuth",
            "setConfig", "frame", "judger", "builder", "publish"}

(* nextURL, easipEntryURL, EPGDomain and epgBase of an epgDiscovery.       *)
NoDiscovery ==
  [next |-> NoUrl, easip |-> NoUrl, domain |-> NoUrl, base |-> NoBase]

Discoveries ==
  [next : Pages \cup {NoUrl}, easip : Entries \cup Fallbacks \cup {NoUrl},
   domain : Fallbacks \cup {NoUrl}, base : Bases \cup {NoBase}]

TypeOK ==
  /\ now \in Nat /\ lastLogin \in Nat
  /\ authStatus \in {"notLoggedIn", "loginFailed", "loginOK"}
  /\ epgBase \in Bases \cup {NoBase} /\ savedBase \in Bases \cup {NoBase}
  /\ loginMu \in Callers \cup {Free}
  /\ saveFailed \in BOOLEAN
  /\ pc \in [Callers -> Working \cup {"idle", "lock", "persist"}]
  /\ d \in Discoveries
  /\ hops \in 0..MaxHops
  /\ asked \in Nat
  /\ first \in Entries \cup {NoUrl}

Init ==
  /\ now = 0
  /\ authStatus = "notLoggedIn"
  /\ lastLogin = 0
  /\ savedBase \in Bases \cup {NoBase}
  /\ epgBase = savedBase
  /\ saveFailed = FALSE
  /\ loginMu = Free
  /\ pc = [c \in Callers |-> "idle"]
  /\ d = NoDiscovery /\ hops = 0 /\ asked = 0 /\ first = NoUrl

Goto(c, point) == pc' = [pc EXCEPT ![c] = point]

(* The call ends: its local variables with it, and the lock is released.   *)
Return(c) ==
  /\ Goto(c, "idle")
  /\ loginMu' = Free
  /\ d' = NoDiscovery /\ hops' = 0 /\ asked' = 0 /\ first' = NoUrl

Answered == asked' = asked + 1

----------------------------------------------------------------------------
(* login                                                                   *)
StartLogin(c) ==
  /\ pc[c] = "idle"
  /\ now < Horizon
  /\ Goto(c, "lock")
  /\ UNCHANGED <<now, session, saved, loginMu, locals>>

Enter(c) ==
  /\ pc[c] = "lock"
  /\ loginMu = Free
  /\ loginMu' = c
  /\ authStatus' = "notLoggedIn"
  /\ Goto(c, "loginPage")
  /\ UNCHANGED <<now, lastLogin, epgBase, saved, locals>>

(* nextAuthURL has a page to follow: none named the entry so far.          *)
MoreToWalk ==
  /\ hops < MaxHops
  /\ d.easip = NoUrl
  /\ d.next # NoUrl
  /\ d.next \notin Entries

(* The entry the walk has found, else the one EPGDomain gives.             *)
Entry ==
  IF d.easip # NoUrl THEN d.easip
  ELSE IF d.next \in Entries /\ hops < MaxHops THEN d.next
  ELSE d.domain

(* Mutations of Fail: the base is forgotten with the session; an early     *)
(* return forgets the lock.                                                *)
FailForgetsBase(c) ==
  /\ pc[c] \in Working \ {"publish"}
  /\ pc[c] = "walk" => MoreToWalk \/ Entry = NoUrl
  /\ authStatus' = "loginFailed"
  /\ Return(c)
  /\ epgBase' = NoBase
  /\ UNCHANGED <<now, lastLogin, saved>>

FailKeepsLock(c) ==
  /\ pc[c] \in Working \ {"publish"}
  /\ pc[c] = "walk" => MoreToWalk \/ Entry = NoUrl
  /\ authStatus' = "loginFailed"
  /\ Goto(c, "idle")
  /\ UNCHANGED <<now, lastLogin, epgBase, saved, loginMu, locals>>

(* fail(err): the configuration is incomplete, a request failed, or a page *)
(* lacks its token, action, entry or form.                                 *)
Fail(c) ==
  /\ pc[c] \in Working \ {"publish"}
  /\ pc[c] = "walk" => MoreToWalk \/ Entry = NoUrl
  /\ authStatus' = "loginFailed"
  /\ Return(c)
  /\ UNCHANGED <<now, lastLogin, epgBase, saved>>

(* A page with nothing in it that decides where the login goes.            *)
Page(c) ==
  /\ pc[c] \in DOMAIN Following
  /\ Goto(c, Following[pc[c]])
  /\ Answered
  /\ UNCHANGED <<now, session, saved, loginMu, d, hops, first>>

(* The platform accepts the authenticator; its answer may redirect and may *)
(* name an EPGDomain.                                                      *)
UserToken(c) ==
  /\ pc[c] = "userToken"
  /\ \E location \in Pages \cup {NoUrl}, domain \in Fallbacks \cup {NoUrl} :
       /\ d' = [NoDiscovery EXCEPT !.next = location, !.domain = domain]
       /\ first' = IF location \in Entries THEN location ELSE NoUrl
  /\ Goto(c, "walk")
  /\ Answered
  /\ UNCHANGED <<now, session, saved, loginMu, hops>>

(* Mutation of Hop: hops are not counted.                                  *)
HopUncounted(c) ==
  /\ pc[c] = "walk" /\ MoreToWalk
  /\ \E location \in Pages \cup {NoUrl}, final \in Pages :
       LET named == IF location \in Entries THEN location
                    ELSE IF final \in Entries THEN final ELSE NoUrl
       IN  /\ d' = [d EXCEPT !.next = IF location = NoUrl THEN @ ELSE location,
                             !.easip = named]
           /\ first' = IF first = NoUrl THEN named ELSE first
  /\ Answered
  /\ UNCHANGED <<now, session, saved, loginMu, pc, hops>>

(* One page is followed: it redirects to location, or not at all, and was  *)
(* itself answered at final once HTTP redirects were followed.  A page     *)
(* that does not redirect is asked again.                                  *)
Hop(c) ==
  /\ pc[c] = "walk" /\ MoreToWalk
  /\ \E location \in Pages \cup {NoUrl}, final \in Pages :
       LET named == IF location \in Entries THEN location
                    ELSE IF final \in Entries THEN final ELSE NoUrl
       IN  /\ d' = [d EXCEPT !.next = IF location = NoUrl THEN @ ELSE location,
                             !.easip = named]
           /\ first' = IF first = NoUrl THEN named ELSE first
  /\ hops' = hops + 1
  /\ Answered
  /\ UNCHANGED <<now, session, saved, loginMu, pc>>

(* Mutation of WalkEnds: EPGDomain goes before what the pages name.        *)
WalkEndsDomainFirst(c) ==
  /\ pc[c] = "walk" /\ ~MoreToWalk /\ Entry # NoUrl
  /\ d' = [d EXCEPT !.easip = IF d.domain # NoUrl THEN d.domain ELSE Entry]
  /\ Goto(c, "easip")
  /\ UNCHANGED <<now, session, saved, loginMu, hops, asked, first>>

WalkEnds(c) ==
  /\ pc[c] = "walk" /\ ~MoreToWalk /\ Entry # NoUrl
  /\ d' = [d EXCEPT !.easip = Entry]
  /\ Goto(c, "easip")
  /\ UNCHANGED <<now, session, saved, loginMu, hops, asked, first>>

(* The entry names the EPG, and with it the base.                          *)
Easip(c) ==
  /\ pc[c] = "easip"
  /\ \E b \in Bases : d' = [d EXCEPT !.base = b]
  /\ Goto(c, "epgIndex")
  /\ Answered
  /\ UNCHANGED <<now, session, saved, loginMu, hops, first>>

(* The session is published under mu, later than any session before it.    *)
Publish(c) ==
  /\ pc[c] = "publish"
  /\ now' = now + 1
  /\ lastLogin' = now + 1
  /\ epgBase' = d.base
  /\ authStatus' = "loginOK"
  /\ Goto(c, "persist")
  /\ UNCHANGED <<saved, loginMu, locals>>

(* stateSet("epg_base"): a failure is only logged.                         *)
Persist(c) ==
  /\ pc[c] = "persist"
  /\ \/ savedBase' = d.base /\ saveFailed' = FALSE
     \/ savedBase' = savedBase /\ saveFailed' = TRUE
  /\ Return(c)
  /\ UNCHANGED <<now, session>>

Tick ==
  /\ now < Horizon
  /\ now' = now + 1
  /\ UNCHANGED <<session, saved, loginMu, pc, locals>>

(* The process dies at any point and comes back with the base it saved.    *)
Restart ==
  /\ now < Horizon
  /\ now' = now + 1
  /\ authStatus' = "notLoggedIn"
  /\ lastLogin' = 0
  /\ epgBase' = savedBase
  /\ loginMu' = Free
  /\ pc' = [c \in Callers |-> "idle"]
  /\ saveFailed' = FALSE
  /\ d' = NoDiscovery /\ hops' = 0 /\ asked' = 0 /\ first' = NoUrl
  /\ UNCHANGED savedBase

(* Nothing is left to do below the bound.                                  *)
Done ==
  /\ now >= Horizon
  /\ \A c \in Callers : pc[c] = "idle"
  /\ UNCHANGED vars

LoginStep(c) ==
  \/ Fail(c) \/ Page(c) \/ UserToken(c) \/ Hop(c) \/ WalkEnds(c)
  \/ Easip(c) \/ Publish(c) \/ Persist(c)

Next ==
  \/ \E c \in Callers : StartLogin(c) \/ Enter(c) \/ LoginStep(c)
  \/ Tick
  \/ Restart
  \/ Done

Spec == Init /\ [][Next]_vars

(* Every request of a login has a timeout; waiting for loginMu is fair.    *)
FairSpec ==
  Spec /\ \A c \in Callers : WF_vars(LoginStep(c)) /\ SF_vars(Enter(c))

----------------------------------------------------------------------------
(* Seen from outside, a login is one step that either publishes a session  *)
(* with a base or leaves everything but the status as it was, under        *)
(* loginMu from its start to the end of the save: every page in between is *)
(* invisible, wherever the platform leads and wherever it fails.           *)
SessionPoint(point) ==
  IF point = "lock" THEN "lockLogin"
  ELSE IF point \in Working THEN "login" ELSE point

Abstract == INSTANCE Session WITH
  Requests <- {}, Refreshers <- Callers, TTL <- 1,
  pc <- [c \in Callers |-> SessionPoint(pc[c])],
  frame <- [c \in Callers |->
              [purpose |-> "refresh", observed |-> 0, sentUnder |-> 0]]

ImplementsSession == Abstract!Spec

(* The EPG service is asked at the first entry that any page of this login *)
(* named, by a redirect or by its own address; the EPGDomain is used only  *)
(* when none did.                                                          *)
WalkOver == {"easip", "epgIndex", "portalAuth", "setConfig", "frame", "judger",
             "builder", "publish"}

FirstEntryTaken ==
  \A c \in Callers : pc[c] \in WalkOver =>
    d.easip = IF first # NoUrl THEN first ELSE d.domain

(* However the platform redirects, a login asks for at most nine pages and *)
(* those of its walk: that many timeouts bound the time every other login  *)
(* and every request without a session waits for loginMu.                  *)
RequestsBounded == asked <= MaxHops + 9

(* Every login comes to an end and gives loginMu to the next.              *)
LoginsReturn == \A c \in Callers : pc[c] # "idle" ~> pc[c] = "idle"
=============================================================================
