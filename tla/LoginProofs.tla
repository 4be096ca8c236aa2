----------------------------- MODULE LoginProofs -----------------------------
(***************************************************************************)
(* Proofs about Login, for any pages, entries, bases and callers, and any  *)
(* number of hops: its invariants, and that it implements Session.         *)
(*                                                                         *)
(* One caller at a time is in a login, namely the owner of loginMu; how    *)
(* many requests it has made follows from its point and its hops, and how  *)
(* the entry it found relates to the first one named from its walk.        *)
(***************************************************************************)
EXTENDS Login, TLAPS

InLogin == Working \cup {"persist"}

(* The requests answered before a point is reached, hops aside.            *)
Before(point) ==
  IF point = "loginPage" THEN 0 ELSE IF point = "userToken" THEN 1
  ELSE IF point \in {"walk", "easip"} THEN 2
  ELSE IF point = "epgIndex" THEN 3 ELSE IF point = "portalAuth" THEN 4
  ELSE IF point = "setConfig" THEN 5 ELSE IF point = "frame" THEN 6
  ELSE IF point = "judger" THEN 7 ELSE IF point = "builder" THEN 8 ELSE 9

(* Whoever is in a login owns loginMu, and without a login the variables   *)
(* local to it are as they are initially.                                  *)
Owned ==
  /\ \A c \in Callers : pc[c] \in InLogin <=> loginMu = c
  /\ loginMu = Free =>
       d = NoDiscovery /\ hops = 0 /\ asked = 0 /\ first = NoUrl

Counted ==
  \A c \in Callers : pc[c] \in InLogin => asked = Before(pc[c]) + hops

(* Until the walk nothing is named or hopped; in it the entry, the one     *)
(* about to be found or nothing is the first named.                        *)
Walked ==
  \A c \in Callers :
    /\ pc[c] \in {"loginPage", "userToken"} => hops = 0 /\ first = NoUrl
    /\ pc[c] = "walk" =>
         IF d.easip # NoUrl THEN first = d.easip
         ELSE IF d.next \in Entries THEN first = d.next /\ hops = 0
         ELSE first = NoUrl

(* From the entry's answer on there is a base; once published it is the    *)
(* one in use.                                                             *)
Based ==
  \A c \in Callers :
    /\ pc[c] \in InLogin \ {"loginPage", "userToken", "walk", "easip"} =>
         d.base \in Bases
    /\ pc[c] = "persist" => epgBase = d.base

IInv == TypeOK /\ Owned /\ Counted /\ Walked /\ Based /\ FirstEntryTaken
----------------------------------------------------------------------------
(* A discovery begins with nothing.                                        *)
LEMMA NothingDiscovered == NoDiscovery \in Discoveries
  BY DEF NoDiscovery, Discoveries

(* The initial states satisfy the invariant.                               *)
LEMMA InitInv == Init => IInv
<1> SUFFICES ASSUME Init PROVE IInv
  OBVIOUS
<1> USE LoginAssumption DEF LoginAssumption, Init
<1>1. TypeOK
  <2>1. 0 \in 0..MaxHops
    OBVIOUS
  <2> QED
    BY <2>1, NothingDiscovered, Zenon DEF TypeOK
<1>2. \A c \in Callers : pc[c] \notin InLogin /\ loginMu # c
  BY DEF InLogin, Working
<1>3. Owned /\ Counted /\ Based
  BY <1>2 DEF Owned, Counted, Based
<1>4. Walked /\ FirstEntryTaken
  BY <1>2 DEF Walked, FirstEntryTaken, InLogin, Working, WalkOver
<1> QED
  BY <1>1, <1>3, <1>4 DEF IInv

(* A page that decides nothing leads to the point that follows it, and     *)
(* both are in the login.                                                  *)
LEMMA PageLeads ==
  ASSUME NEW c \in Callers, Page(c)
  PROVE  LET q == Following[pc[c]]
         IN  /\ pc[c] \in Working \ {"walk", "easip", "userToken", "publish"}
             /\ q \in Working \ {"loginPage", "walk", "easip", "epgIndex"}
             /\ pc[c] # "loginPage" => q \in WalkOver /\ pc[c] \in WalkOver
             /\ pc[c] = "loginPage" => q = "userToken"
             /\ Before(q) = Before(pc[c]) + 1
<1>1. pc[c] \in {"loginPage", "epgIndex", "portalAuth", "setConfig", "frame",
                 "judger", "builder"}
  BY DEF Page, Following
<1> QED
  BY <1>1 DEF Following, Working, WalkOver, Before

(* The end of a login.                                                     *)
LEMMA ReturnInv ==
  ASSUME IInv, NEW c \in Callers, pc[c] \in InLogin, Return(c),
         UNCHANGED <<lastLogin, epgBase>>,
         now' = now, savedBase' \in Bases \cup {NoBase},
         saveFailed' \in BOOLEAN,
         authStatus' \in {"notLoggedIn", "loginFailed", "loginOK"}
  PROVE  IInv'
<1> USE LoginAssumption DEF LoginAssumption, IInv
<1>1. TypeOK'
  BY NothingDiscovered DEF Return, Goto, TypeOK
<1>2. \A e \in Callers : pc'[e] \notin InLogin
  BY DEF Return, Goto, TypeOK, Owned, InLogin, Working
<1>3. Owned' /\ Counted' /\ Based'
  BY <1>2 DEF Return, Owned, Counted, Based, InLogin
<1>4. Walked' /\ FirstEntryTaken'
  BY <1>2 DEF Walked, FirstEntryTaken, InLogin, Working, WalkOver
<1> QED
  BY <1>1, <1>3, <1>4

(* A step of the owner that stays in the login disturbs nobody else.       *)
LEMMA OthersOut ==
  ASSUME TypeOK, Owned, NEW c \in Callers, pc[c] \in InLogin,
         NEW q \in InLogin, pc' = [pc EXCEPT ![c] = q]
  PROVE  /\ pc'[c] = q
         /\ \A e \in Callers \ {c} : pc'[e] = pc[e] /\ pc[e] \notin InLogin
         /\ \A e \in Callers : pc'[e] \in InLogin <=> e = c
         /\ loginMu = c /\ loginMu # Free
  BY LoginAssumption DEF LoginAssumption, TypeOK, Owned

(* Every step keeps the invariant.                                         *)
LEMMA NextInv == IInv /\ [Next]_vars => IInv'
<1> SUFFICES ASSUME IInv, [Next]_vars PROVE IInv'
  OBVIOUS
<1> USE LoginAssumption DEF LoginAssumption, IInv
<1>1. ASSUME NEW c \in Callers, StartLogin(c) PROVE IInv'
  <2>1. TypeOK'
    BY <1>1 DEF StartLogin, Goto, TypeOK, session, saved, locals
  <2>2. \A e \in Callers : pc'[e] = IF e = c THEN "lock" ELSE pc[e]
    BY <1>1 DEF StartLogin, Goto, TypeOK
  <2>3. Owned' /\ Counted' /\ Based'
    BY <1>1, <2>2 DEF StartLogin, session, locals, Owned, Counted, Based,
                      InLogin, Working
  <2>4. Walked' /\ FirstEntryTaken'
    BY <1>1, <2>2 DEF StartLogin, locals, Walked, FirstEntryTaken, WalkOver
  <2> QED
    BY <2>1, <2>3, <2>4
<1>2. ASSUME NEW c \in Callers, Enter(c) PROVE IInv'
  <2>1. TypeOK'
    BY <1>2 DEF Enter, Goto, TypeOK, Working, saved, locals
  <2>2. \A e \in Callers : pc'[e] \in InLogin <=> e = c
    BY <1>2 DEF Enter, Goto, TypeOK, Owned, InLogin, Working
  <2>3. pc'[c] = "loginPage"
    BY <1>2 DEF Enter, Goto, TypeOK
  <2>4. Owned'
    BY <1>2, <2>2 DEF Enter, Owned
  <2>5. Counted' /\ Based'
    BY <1>2, <2>2, <2>3 DEF Enter, locals, Owned, Counted, Based, Before, InLogin
  <2>6. Walked' /\ FirstEntryTaken'
    BY <1>2, <2>2, <2>3 DEF Enter, locals, Owned, Walked, FirstEntryTaken,
                            InLogin, Working, WalkOver
  <2> QED
    BY <2>1, <2>4, <2>5, <2>6
<1>3. ASSUME NEW c \in Callers, Fail(c) PROVE IInv'
  BY <1>3, ReturnInv DEF Fail, InLogin, TypeOK, saved
<1>4. ASSUME NEW c \in Callers, Page(c) PROVE IInv'
  <2> DEFINE q == Following[pc[c]]
  <2>1. /\ pc[c] \in Working \ {"walk", "easip", "userToken", "publish"}
        /\ q \in Working \ {"loginPage", "walk", "easip", "epgIndex"}
        /\ pc[c] # "loginPage" => q \in WalkOver /\ pc[c] \in WalkOver
        /\ pc[c] = "loginPage" => q = "userToken"
        /\ Before(q) = Before(pc[c]) + 1
    BY <1>4, PageLeads
  <2>2. pc' = [pc EXCEPT ![c] = q] /\ asked' = asked + 1
        /\ UNCHANGED <<now, session, saved, loginMu, d, hops, first>>
    BY <1>4 DEF Page, Goto, Answered
  <2> HIDE DEF q
  <2>3. /\ pc'[c] = q /\ loginMu = c /\ loginMu # Free
        /\ \A e \in Callers : pc'[e] \in InLogin <=> e = c
        /\ pc[c] \in InLogin /\ q \in InLogin
    BY <2>1, <2>2, OthersOut DEF InLogin
  <2>4. TypeOK'
    BY <2>1, <2>2 DEF TypeOK, session, saved
  <2>5. Owned'
    BY <2>2, <2>3 DEF Owned
  <2>6. Counted'
    BY <2>1, <2>2, <2>3 DEF Counted, TypeOK, Before
  <2>7. Walked' /\ FirstEntryTaken' /\ Based'
    BY <2>1, <2>2, <2>3 DEF Walked, FirstEntryTaken, Based, session, InLogin,
                            Working, WalkOver
  <2> QED
    BY <2>4, <2>5, <2>6, <2>7
<1>5. ASSUME NEW c \in Callers, UserToken(c) PROVE IInv'
  <2>1. PICK location \in Pages \cup {NoUrl}, domain \in Fallbacks \cup {NoUrl} :
          /\ d' = [NoDiscovery EXCEPT !.next = location, !.domain = domain]
          /\ first' = IF location \in Entries THEN location ELSE NoUrl
    BY <1>5 DEF UserToken
  <2>2. pc[c] = "userToken" /\ pc' = [pc EXCEPT ![c] = "walk"]
        /\ asked' = asked + 1 /\ UNCHANGED <<now, session, saved, loginMu, hops>>
    BY <1>5 DEF UserToken, Goto, Answered
  <2>3. /\ pc'[c] = "walk" /\ loginMu = c /\ loginMu # Free
        /\ \A e \in Callers : pc'[e] \in InLogin <=> e = c
        /\ pc[c] \in InLogin
    BY <2>2, OthersOut DEF InLogin, Working
  <2>4. d'.next = location /\ d'.easip = NoUrl /\ hops' = 0
    BY <2>1, <2>2 DEF NoDiscovery, Walked
  <2>5. d' \in Discoveries /\ first' \in Entries \cup {NoUrl}
    BY <2>1 DEF NoDiscovery, Discoveries
  <2>8. TypeOK'
    BY <2>2, <2>5 DEF TypeOK, Working, session, saved
  <2>6. Owned' /\ Counted'
    BY <2>2, <2>3 DEF Owned, Counted, TypeOK, Before
  <2>7. Walked' /\ FirstEntryTaken' /\ Based'
    BY <2>1, <2>2, <2>3, <2>4 DEF Walked, FirstEntryTaken, Based, InLogin,
                                  Working, WalkOver
  <2> QED
    BY <2>6, <2>7, <2>8
<1>6. ASSUME NEW c \in Callers, Hop(c) PROVE IInv'
  <2>1. PICK location \in Pages \cup {NoUrl}, final \in Pages :
          LET named == IF location \in Entries THEN location
                       ELSE IF final \in Entries THEN final ELSE NoUrl
          IN  /\ d' = [d EXCEPT !.next = IF location = NoUrl THEN @ ELSE location,
                                !.easip = named]
              /\ first' = IF first = NoUrl THEN named ELSE first
    BY <1>6 DEF Hop
  <2> DEFINE named == IF location \in Entries THEN location
                      ELSE IF final \in Entries THEN final ELSE NoUrl
  <2>2. pc[c] = "walk" /\ pc' = pc /\ asked' = asked + 1 /\ hops' = hops + 1
        /\ MoreToWalk /\ UNCHANGED <<now, session, saved, loginMu>>
    BY <1>6 DEF Hop, Answered
  <2>3. first = NoUrl
    BY <2>2 DEF Walked, MoreToWalk
  <2>4. /\ d' = [d EXCEPT !.next = IF location = NoUrl THEN @ ELSE location,
                          !.easip = named]
        /\ first' = named /\ named \in Entries \cup {NoUrl}
    BY <2>1, <2>3
  <2>5. d'.easip = named /\ (named = NoUrl => d'.next \notin Entries)
    BY <2>2, <2>4 DEF TypeOK, MoreToWalk, Discoveries
  <2>10. d' \in Discoveries
    BY <2>4 DEF TypeOK, Discoveries
  <2>6. TypeOK'
    BY <2>2, <2>4, <2>10 DEF TypeOK, MoreToWalk, session, saved
  <2>7. \A e \in Callers : pc[e] \in InLogin => e = c
    BY <2>2 DEF Owned, InLogin, Working
  <2>8. Owned' /\ Counted'
    BY <2>2, <2>7 DEF Owned, Counted, TypeOK, Before, InLogin, Working
  <2>9. Walked' /\ FirstEntryTaken' /\ Based'
    BY <2>2, <2>4, <2>5, <2>7 DEF Walked, FirstEntryTaken, Based, InLogin,
                                  Working, WalkOver
  <2> QED
    BY <2>6, <2>8, <2>9
<1>7. ASSUME NEW c \in Callers, WalkEnds(c) PROVE IInv'
  <2>1. pc[c] = "walk" /\ pc' = [pc EXCEPT ![c] = "easip"]
        /\ ~MoreToWalk /\ Entry # NoUrl /\ d' = [d EXCEPT !.easip = Entry]
        /\ UNCHANGED <<now, session, saved, loginMu, hops, asked, first>>
    BY <1>7 DEF WalkEnds, Goto
  <2>2. /\ pc'[c] = "easip" /\ loginMu = c /\ loginMu # Free
        /\ \A e \in Callers : pc'[e] \in InLogin <=> e = c
        /\ pc[c] \in InLogin
    BY <2>1, OthersOut DEF InLogin, Working
  <2>3. Entry = IF first # NoUrl THEN first ELSE d.domain
    BY <2>1 DEF Entry, Walked, MoreToWalk, TypeOK
  <2>4. Entry \in Entries \cup Fallbacks
    BY <2>1, <2>3 DEF TypeOK, Discoveries
  <2>5. TypeOK'
    BY <2>1, <2>4 DEF TypeOK, Discoveries, Working, session, saved
  <2>6. d'.easip = Entry /\ d'.domain = d.domain
    BY <2>1 DEF TypeOK, Discoveries
  <2>7. Owned' /\ Counted'
    BY <2>1, <2>2 DEF Owned, Counted, Before
  <2>8. Walked' /\ FirstEntryTaken' /\ Based'
    BY <2>1, <2>2, <2>3, <2>6 DEF Walked, FirstEntryTaken, Based, InLogin,
                                  Working, WalkOver
  <2> QED
    BY <2>5, <2>7, <2>8
<1>8. ASSUME NEW c \in Callers, Easip(c) PROVE IInv'
  <2>1. PICK b \in Bases : d' = [d EXCEPT !.base = b]
    BY <1>8 DEF Easip
  <2>2. pc[c] = "easip" /\ pc' = [pc EXCEPT ![c] = "epgIndex"]
        /\ asked' = asked + 1
        /\ UNCHANGED <<now, session, saved, loginMu, hops, first>>
    BY <1>8 DEF Easip, Goto, Answered
  <2>3. /\ pc'[c] = "epgIndex" /\ loginMu = c /\ loginMu # Free
        /\ \A e \in Callers : pc'[e] \in InLogin <=> e = c
        /\ pc[c] \in InLogin
    BY <2>2, OthersOut DEF InLogin, Working
  <2>4. d'.base = b /\ d'.easip = d.easip /\ d'.domain = d.domain
    BY <2>1 DEF TypeOK, Discoveries
  <2>5. TypeOK'
    BY <2>1, <2>2 DEF TypeOK, Discoveries, Working, session, saved
  <2>6. Owned' /\ Counted'
    BY <2>2, <2>3 DEF Owned, Counted, TypeOK, Before
  <2>7. Walked' /\ FirstEntryTaken' /\ Based'
    BY <2>2, <2>3, <2>4 DEF Walked, FirstEntryTaken, Based, InLogin, Working,
                            WalkOver
  <2> QED
    BY <2>5, <2>6, <2>7
<1>9. ASSUME NEW c \in Callers, Publish(c) PROVE IInv'
  <2>1. /\ pc[c] = "publish" /\ pc' = [pc EXCEPT ![c] = "persist"]
        /\ now' = now + 1 /\ lastLogin' = now + 1 /\ epgBase' = d.base
        /\ authStatus' = "loginOK" /\ UNCHANGED <<saved, loginMu, locals>>
    BY <1>9 DEF Publish, Goto
  <2>2. /\ pc'[c] = "persist" /\ loginMu = c /\ loginMu # Free
        /\ \A e \in Callers : pc'[e] \in InLogin <=> e = c
        /\ pc[c] \in InLogin
    BY <2>1, OthersOut DEF InLogin, Working
  <2>3. d.base \in Bases
    BY <2>1, <2>2 DEF Based
  <2>4. TypeOK'
    BY <2>1, <2>3 DEF TypeOK, saved, locals
  <2>5. Owned' /\ Counted'
    BY <2>1, <2>2 DEF Owned, Counted, Before, locals
  <2>6. Walked' /\ FirstEntryTaken' /\ Based'
    BY <2>1, <2>2, <2>3 DEF Walked, FirstEntryTaken, Based, InLogin, Working,
                            WalkOver, locals
  <2> QED
    BY <2>4, <2>5, <2>6
<1>10. ASSUME NEW c \in Callers, Persist(c) PROVE IInv'
  <2>1. d.base \in Bases
    BY <1>10 DEF Persist, Based, InLogin, Working
  <2> QED
    BY <1>10, <2>1, ReturnInv DEF Persist, InLogin, TypeOK, session
<1>11. CASE Tick
  <2>1. TypeOK'
    BY <1>11 DEF Tick, TypeOK, session, saved, locals
  <2>2. Owned' /\ Counted' /\ Walked' /\ Based' /\ FirstEntryTaken'
    BY <1>11 DEF Tick, session, saved, locals, Owned, Counted, Walked, Based,
                 FirstEntryTaken
  <2> QED
    BY <2>1, <2>2
<1>12. CASE Restart
  <2>1. TypeOK'
    <3>1. 0 \in 0..MaxHops /\ now + 1 \in Nat
      BY DEF TypeOK
    <3> QED
      BY <1>12, <3>1, NothingDiscovered, Zenon DEF Restart, TypeOK
  <2>2. \A e \in Callers : pc'[e] \notin InLogin
    BY <1>12 DEF Restart, InLogin, Working
  <2>3. Owned' /\ Counted' /\ Based'
    BY <1>12, <2>2 DEF Restart, Owned, Counted, Based
  <2>4. Walked' /\ FirstEntryTaken'
    BY <2>2 DEF Walked, FirstEntryTaken, InLogin, Working, WalkOver
  <2> QED
    BY <2>1, <2>3, <2>4
<1>13. CASE UNCHANGED vars
  <2>1. TypeOK'
    BY <1>13 DEF vars, TypeOK, session, saved, locals
  <2>2. Owned' /\ Counted' /\ Walked' /\ Based' /\ FirstEntryTaken'
    BY <1>13 DEF vars, session, saved, locals, Owned, Counted, Walked, Based,
                 FirstEntryTaken
  <2> QED
    BY <2>1, <2>2
<1>14. Done => UNCHANGED vars
  BY DEF Done
<1> QED
  BY <1>1, <1>2, <1>3, <1>4, <1>5, <1>6, <1>7, <1>8, <1>9, <1>10, <1>11,
     <1>12, <1>13, <1>14 DEF Next, LoginStep

(* The invariant holds in every reachable state.                           *)
THEOREM SpecInv == Spec => []IInv
  BY InitInv, NextInv, PTL DEF Spec

(* Every variable keeps its type.                                          *)
THEOREM SpecTypeOK == Spec => []TypeOK
  BY SpecInv, PTL DEF IInv

(* initEPGSession asks the first entry that a page of the login named, and *)
(* the EPGDomain only when none did.                                       *)
THEOREM SpecFirstEntryTaken == Spec => []FirstEntryTaken
  BY SpecInv, PTL DEF IInv

(* A login asks for at most nine pages and those of its walk.              *)
THEOREM SpecRequestsBounded == Spec => []RequestsBounded
<1>1. IInv => RequestsBounded
  <2> SUFFICES ASSUME IInv PROVE RequestsBounded
    OBVIOUS
  <2> USE DEF IInv, TypeOK, RequestsBounded
  <2>1. CASE loginMu = Free
    BY <2>1, LoginAssumption DEF LoginAssumption, Owned
  <2>2. ASSUME NEW c \in Callers, loginMu = c PROVE RequestsBounded
    <3>1. asked = Before(pc[c]) + hops
      BY <2>2 DEF Owned, Counted
    <3>2. Before(pc[c]) \in 0..9
      BY DEF Before
    <3> QED
      BY <3>1, <3>2, LoginAssumption DEF LoginAssumption
  <2> QED
    BY <2>1, <2>2
<1> QED
  BY <1>1, SpecInv, PTL

----------------------------------------------------------------------------
(* The refinement: each step of Login is a step of Session or invisible.   *)

Points == [c \in Callers |-> SessionPoint(pc[c])]
Frame  == [c \in Callers |->
             [purpose |-> "refresh", observed |-> 0, sentUnder |-> 0]]

(* A caller that moves does so in Session.                                 *)
LEMMA PointMoves ==
  ASSUME TypeOK, NEW c \in Callers, NEW q, pc' = [pc EXCEPT ![c] = q]
  PROVE  Points' = [Points EXCEPT ![c] = SessionPoint(q)]
  BY DEF TypeOK, Points

(* A caller that moves between points Session does not tell apart stays.   *)
LEMMA PointStays ==
  ASSUME TypeOK, NEW c \in Callers, NEW q, pc' = [pc EXCEPT ![c] = q],
         SessionPoint(q) = SessionPoint(pc[c])
  PROVE  Points' = Points
  BY DEF TypeOK, Points

(* The frame of a login() never changes.                                   *)
LEMMA FrameStays ==
  ASSUME NEW c \in Callers
  PROVE  /\ [Frame EXCEPT ![c].purpose = "refresh"] = Frame
         /\ [Frame EXCEPT ![c] = Abstract!NoFrame] = Frame
         /\ Frame[c].purpose = "refresh"
<1>1. Frame[c] = [purpose |-> "refresh", observed |-> 0, sentUnder |-> 0]
  BY DEF Frame
<1>2. [Frame EXCEPT ![c] = Abstract!NoFrame] = Frame
  BY DEF Frame, Abstract!NoFrame
<1>3. [Frame[c] EXCEPT !.purpose = "refresh"] = Frame[c]
  BY <1>1
<1>4. [Frame EXCEPT ![c] = [Frame[c] EXCEPT !.purpose = "refresh"]] = Frame
  BY <1>3 DEF Frame
<1> QED
  BY <1>1, <1>2, <1>4

(* A step that leaves the mapped variables alone is invisible.             *)
LEMMA Invisible ==
  ASSUME Points' = Points,
         UNCHANGED <<now, session, saved, loginMu>>
  PROVE  UNCHANGED Abstract!vars
  BY DEF Points, Abstract!vars, session, saved

(* loginLocked, with everything initEPGSession does, implements the login  *)
(* of Session: one success that publishes a base or one failure.           *)
THEOREM SpecImplementsSession == Spec => ImplementsSession
<1> USE DEF Abstract!Actors
<1>1. Init => Abstract!Init
  BY DEF Init, Abstract!Init, Abstract!NoFrame, SessionPoint, Working
<1>2. IInv /\ [Next]_vars => [Abstract!Next]_(Abstract!vars)
  <2> SUFFICES ASSUME IInv, [Next]_vars
               PROVE  Abstract!Next \/ UNCHANGED Abstract!vars
    OBVIOUS
  <2> USE DEF IInv
  <2>1. ASSUME NEW c \in Callers, StartLogin(c) PROVE Abstract!Next
    <3>1. Points' = [Points EXCEPT ![c] = "lockLogin"]
      BY <2>1, PointMoves DEF StartLogin, Goto, SessionPoint
    <3>2. Points[c] = "idle"
      BY <2>1 DEF StartLogin, Points, SessionPoint, Working
    <3>3. Abstract!StartRefresh(c)
      BY <2>1, <3>1, <3>2
      DEF StartLogin, session, saved, Points, Abstract!StartRefresh,
          Abstract!Goto, Abstract!session, Abstract!saved
    <3> QED
      BY <3>3 DEF Abstract!Next
  <2>2. ASSUME NEW c \in Callers, Enter(c) PROVE Abstract!Next
    <3>1. Points' = [Points EXCEPT ![c] = "login"]
      BY <2>2, PointMoves DEF Enter, Goto, SessionPoint, Working
    <3>2. Points[c] = "lockLogin"
      BY <2>2 DEF Enter, Points, SessionPoint, Working
    <3>3. Abstract!LoginLocked(c)
      BY <2>2, <3>1, <3>2, FrameStays
      DEF Enter, saved, Points, Frame, Abstract!LoginLocked,
          Abstract!BeginLogin, Abstract!Goto, Abstract!saved
    <3> QED
      BY <3>3 DEF Abstract!Next
  <2>3. ASSUME NEW c \in Callers, Fail(c) PROVE Abstract!Next
    <3>1. Points' = [Points EXCEPT ![c] = "idle"]
      BY <2>3, PointMoves DEF Fail, Return, Goto, SessionPoint, Working
    <3>2. Points[c] = "login"
      BY <2>3 DEF Fail, Points, SessionPoint, Working
    <3>3. Abstract!LoginFails(c)
      BY <2>3, <3>1, <3>2, FrameStays
      DEF Fail, Return, saved, Points, Frame, Abstract!LoginFails,
          Abstract!Return, Abstract!Goto, Abstract!saved
    <3> QED
      BY <3>3 DEF Abstract!Next, Abstract!LoginStep
  <2>4. ASSUME NEW c \in Callers, Page(c) PROVE UNCHANGED Abstract!vars
    <3>1. /\ pc[c] \in Working /\ Following[pc[c]] \in Working
          /\ pc' = [pc EXCEPT ![c] = Following[pc[c]]]
      BY <2>4, PageLeads DEF Page, Goto
    <3>2. Points' = Points
      BY <3>1, PointStays DEF SessionPoint, Working
    <3> QED
      BY <2>4, <3>2, Invisible DEF Page
  <2>5. ASSUME NEW c \in Callers, UserToken(c) PROVE UNCHANGED Abstract!vars
    <3>1. Points' = Points
      BY <2>5, PointStays DEF UserToken, Goto, SessionPoint, Working
    <3> QED
      BY <2>5, <3>1, Invisible DEF UserToken
  <2>6. ASSUME NEW c \in Callers, Hop(c) PROVE UNCHANGED Abstract!vars
    BY <2>6, Invisible DEF Hop, Points
  <2>7. ASSUME NEW c \in Callers, WalkEnds(c) PROVE UNCHANGED Abstract!vars
    <3>1. Points' = Points
      BY <2>7, PointStays DEF WalkEnds, Goto, SessionPoint, Working
    <3> QED
      BY <2>7, <3>1, Invisible DEF WalkEnds
  <2>8. ASSUME NEW c \in Callers, Easip(c) PROVE UNCHANGED Abstract!vars
    <3>1. Points' = Points
      BY <2>8, PointStays DEF Easip, Goto, SessionPoint, Working
    <3> QED
      BY <2>8, <3>1, Invisible DEF Easip
  <2>9. ASSUME NEW c \in Callers, Publish(c) PROVE Abstract!Next
    <3>1. Points' = [Points EXCEPT ![c] = "persist"]
      BY <2>9, PointMoves DEF Publish, Goto, SessionPoint, Working
    <3>2. Points[c] = "login"
      BY <2>9 DEF Publish, Points, SessionPoint, Working
    <3>3. d.base \in Bases
      BY <2>9 DEF Publish, Based, InLogin, Working
    <3>4. Abstract!LoginSucceeds(c, d.base)
      BY <2>9, <3>1, <3>2
      DEF Publish, saved, Points, Abstract!LoginSucceeds, Abstract!Goto,
          Abstract!saved
    <3> QED
      BY <3>3, <3>4 DEF Abstract!Next, Abstract!LoginStep
  <2>10. ASSUME NEW c \in Callers, Persist(c) PROVE Abstract!Next
    <3>1. Points' = [Points EXCEPT ![c] = "idle"]
      BY <2>10, PointMoves DEF Persist, Return, Goto, SessionPoint, Working
    <3>2. Points[c] = "persist"
      BY <2>10 DEF Persist, Points, SessionPoint, Working
    <3>3. epgBase = d.base
      BY <2>10 DEF Persist, Based
    <3>4. Abstract!PersistBase(c)
      BY <2>10, <3>1, <3>2, <3>3, FrameStays
      DEF Persist, Return, session, Points, Frame, Abstract!PersistBase,
          Abstract!Return, Abstract!Goto, Abstract!session
    <3> QED
      BY <3>4 DEF Abstract!Next, Abstract!LoginStep
  <2>11. CASE Tick
    BY <2>11
    DEF Tick, session, saved, Abstract!Next, Abstract!Tick, Abstract!session,
        Abstract!saved
  <2>12. CASE Restart
    <3>1. Points' = [c \in Callers |-> "idle"]
      BY <2>12 DEF Restart, Points, SessionPoint, Working
    <3> QED
      BY <2>12, <3>1
      DEF Restart, Points, Abstract!Next, Abstract!Restart, Abstract!NoFrame
  <2>13. CASE UNCHANGED vars
    BY <2>13, Invisible DEF vars, Points, session, saved
  <2>14. Done => UNCHANGED vars
    BY DEF Done
  <2> QED
    BY <2>1, <2>2, <2>3, <2>4, <2>5, <2>6, <2>7, <2>8, <2>9, <2>10, <2>11,
       <2>12, <2>13, <2>14 DEF Next, LoginStep
<1> QED
  BY <1>1, <1>2, SpecInv, PTL DEF Spec, ImplementsSession, Abstract!Spec
=============================================================================
