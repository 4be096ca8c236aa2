--------------------------- MODULE CatchupProofs ---------------------------
(***************************************************************************)
(* Proofs about Catchup for any set of requests and programmes, snapshots  *)
(* of any size and any number of refreshes.                                *)
(***************************************************************************)
EXTENDS Catchup, TLAPS

Found == {"resolve", "update"}

(* What a request holds was obtained for the programme it asks for, unless *)
(* it comes out of a table that was crossed.                               *)
FramesBelong ==
  \A r \in Callers :
    pc[r] \in Found \cup {"describe"} /\ ~frame[r].quick
      /\ frame[r].url # NoUrl /\ ~frame[r].tainted
        => frame[r].url.of = frame[r].key

(* A URL out of a crossed table does not outlive the table unmarked.       *)
TaintedCrossed ==
  \A r \in Callers :
    pc[r] \in Found /\ frame[r].tainted => frame[r].stale \/ crossed

NotQuick == \A r \in Callers : pc[r] \in Found => ~frame[r].quick

(* Without a refresh since, a request's ID is still its programme's.       *)
IdsCurrent ==
  \A r \in Callers : pc[r] \in Found =>
    /\ frame[r].id > 0
    /\ frame[r].stale \/ ids[frame[r].key] = frame[r].id

(* No URL is newer than the last lookup.                                   *)
LookedUp(url) == url # NoUrl => url.lookup <= calls

AllLookedUp ==
  /\ \A k \in Keys : LookedUp(urls[k])
  /\ \A r \in Callers : LookedUp(frame[r].url) /\ LookedUp(frame[r].failed)

SecondRoundFresh ==
  ResolvePlayURL => \A r \in Callers :
    pc[r] \in {"update", "describe"} /\ frame[r].force =>
      /\ frame[r].url # frame[r].failed
      /\ frame[r].url # NoUrl /\ frame[r].url.of = frame[r].key

IInv ==
  /\ TypeOK
  /\ UrlsBelong
  /\ FramesBelong
  /\ TaintedCrossed
  /\ NotQuick
  /\ IdsCurrent
  /\ AllLookedUp
  /\ SecondRoundFresh

(* The variables of a new request.                                         *)
LEMMA NewFrameFacts ==
  \A k \in Keys : /\ NewFrame(k) \in Frames /\ NewFrame(k).key = k
                  /\ NewFrame(k).url = NoUrl /\ NewFrame(k).failed = NoUrl
                  /\ ~NewFrame(k).quick
BY CatchupAssumption DEF CatchupAssumption, NewFrame, Frames

(* What a request keeps when its copy is out of scope, or becomes old.     *)
LEMMA FrameReturned ==
  ASSUME NEW f \in Frames
  PROVE  LET g == [f EXCEPT !.id = 0, !.stale = FALSE]
         IN  /\ g \in Frames
             /\ g.key = f.key /\ g.url = f.url /\ g.failed = f.failed
             /\ g.force = f.force /\ g.quick = f.quick
             /\ g.tainted = f.tainted
<1>1. 0 \in 0..MaxId
  BY CatchupAssumption DEF CatchupAssumption
<1> QED
  BY <1>1 DEF Frames

LEMMA FrameStale ==
  ASSUME NEW f \in Frames, NEW old \in BOOLEAN
  PROVE  LET g == [f EXCEPT !.stale = old]
         IN  /\ g \in Frames /\ g.stale = old
             /\ g.key = f.key /\ g.url = f.url /\ g.failed = f.failed
             /\ g.force = f.force /\ g.quick = f.quick /\ g.id = f.id
             /\ g.tainted = f.tainted
BY DEF Frames

LEMMA InitIInv == Init => IInv
<1> SUFFICES ASSUME Init PROVE IInv
  OBVIOUS
<1> USE CatchupAssumption DEF CatchupAssumption, Init
<1>0. frame \in [Callers -> {NewFrame(k) : k \in Keys}]
  OBVIOUS
<1>00. \A r \in Callers : \E k \in Keys : frame[r] = NewFrame(k)
  BY <1>0
<1>1. frame \in [Callers -> Frames]
  BY <1>0, <1>00, NewFrameFacts
<1>2. ASSUME NEW r \in Callers
      PROVE  frame[r].url = NoUrl /\ frame[r].failed = NoUrl
  <2>1. PICK k \in Keys : frame[r] = NewFrame(k)
    BY <1>00
  <2> QED  BY <2>1, NewFrameFacts, Zenon
<1>3. TypeOK
  BY <1>1, Zenon DEF TypeOK, Points
<1>4. /\ UrlsBelong /\ FramesBelong /\ TaintedCrossed
      /\ NotQuick /\ IdsCurrent /\ SecondRoundFresh
  BY DEF UrlsBelong, FramesBelong, TaintedCrossed, NotQuick, IdsCurrent,
         SecondRoundFresh, Found
<1>5. AllLookedUp
  BY <1>2 DEF AllLookedUp, LookedUp
<1> QED
  BY <1>3, <1>4, <1>5 DEF IInv

(* A step that leaves the table alone and gives one request a new place    *)
(* and new local variables that fit there.                                 *)
LEMMA RequestMoves ==
  ASSUME IInv, NEW r \in Callers, NEW to \in Points, NEW fr \in Frames,
         pc' = [pc EXCEPT ![r] = to],
         frame' = [frame EXCEPT ![r] = fr],
         UNCHANGED <<table, history>>,
         calls' \in Nat, calls' >= calls,
         fr.url # NoUrl => fr.url.lookup <= calls',
         fr.failed # NoUrl => fr.failed.lookup <= calls',
         to \in Found \cup {"describe"} /\ ~fr.quick
           /\ fr.url # NoUrl /\ ~fr.tainted => fr.url.of = fr.key,
         to \in Found => ~fr.quick,
         to \in Found /\ fr.tainted => fr.stale \/ crossed,
         to \in Found => fr.id > 0 /\ (fr.stale \/ ids[fr.key] = fr.id),
         ResolvePlayURL /\ to \in {"update", "describe"} /\ fr.force
           => /\ fr.url # fr.failed
              /\ fr.url # NoUrl /\ fr.url.of = fr.key
  PROVE  IInv'
<1> USE DEF table, history
<1>0. /\ \A c \in Callers : pc'[c] = IF c = r THEN to ELSE pc[c]
      /\ \A c \in Callers : frame'[c] = IF c = r THEN fr ELSE frame[c]
      /\ pc' \in [Callers -> Points]
      /\ frame' \in [Callers -> Frames]
  BY DEF IInv, TypeOK
<1>1. TypeOK'
  BY <1>0, Zenon DEF IInv, TypeOK
<1>2. UrlsBelong'
  BY DEF IInv, UrlsBelong
<1>3. FramesBelong' /\ NotQuick' /\ TaintedCrossed'
  BY <1>0 DEF IInv, FramesBelong, NotQuick, TaintedCrossed
<1>4. IdsCurrent'
  BY <1>0 DEF IInv, IdsCurrent
<1>5. AllLookedUp'
  <2>1. ASSUME NEW u \in Urls \cup {NoUrl}, LookedUp(u) PROVE LookedUp(u)'
    BY <2>1 DEF LookedUp, Urls, IInv, TypeOK
  <2>2. \A k \in Keys : LookedUp(urls[k])'
    <3> SUFFICES ASSUME NEW k \in Keys PROVE LookedUp(urls[k])'
      OBVIOUS
    <3>1. urls[k] \in Urls \cup {NoUrl} /\ LookedUp(urls[k]) /\ urls'[k] = urls[k]
      BY DEF IInv, TypeOK, AllLookedUp
    <3> QED
      BY <2>1, <3>1 DEF LookedUp
  <2>3. \A c \in Callers : LookedUp(frame[c].url)' /\ LookedUp(frame[c].failed)'
    <3> SUFFICES ASSUME NEW c \in Callers
                 PROVE  LookedUp(frame[c].url)' /\ LookedUp(frame[c].failed)'
      OBVIOUS
    <3>1. CASE c = r
      BY <1>0, <3>1 DEF LookedUp
    <3>2. CASE c # r
      <4>1. /\ frame'[c] = frame[c]
            /\ frame[c].url \in Urls \cup {NoUrl}
            /\ frame[c].failed \in Urls \cup {NoUrl}
            /\ LookedUp(frame[c].url) /\ LookedUp(frame[c].failed)
        BY <1>0, <3>2 DEF IInv, TypeOK, Frames, AllLookedUp
      <4> QED
        BY <2>1, <4>1 DEF LookedUp
    <3> QED
      BY <3>1, <3>2
  <2> QED
    BY <2>2, <2>3 DEF AllLookedUp
<1>6. SecondRoundFresh'
  BY <1>0 DEF IInv, SecondRoundFresh
<1> QED
  BY <1>1, <1>2, <1>3, <1>4, <1>5, <1>6 DEF IInv

(* What every step may use about the request it moves.                     *)
LEMMA FrameFacts ==
  ASSUME IInv, NEW r \in Callers
  PROVE  /\ frame[r] \in Frames
         /\ frame = [frame EXCEPT ![r] = frame[r]]
         /\ calls \in Nat
         /\ frame[r].url # NoUrl => frame[r].url.lookup <= calls
         /\ frame[r].failed # NoUrl => frame[r].failed.lookup <= calls
         /\ frame[r].url # NoUrl => frame[r].url \in Urls
         /\ frame[r].failed # NoUrl => frame[r].failed \in Urls
BY DEF IInv, TypeOK, Frames, AllLookedUp, LookedUp

(* Steps after which the request is idle.                                  *)
LEMMA RequestLeaves ==
  ASSUME IInv, NEW r \in Callers, End(r),
         UNCHANGED <<table, calls, history>>
  PROVE  IInv'
<1> DEFINE fr == NewFrame(frame[r].key)
<1>1. /\ fr \in Frames /\ fr.url = NoUrl /\ fr.failed = NoUrl
      /\ frame' = [frame EXCEPT ![r] = fr]
      /\ pc' = [pc EXCEPT ![r] = "idle"]
      /\ calls' \in Nat /\ calls' >= calls
  BY FrameFacts, NewFrameFacts DEF End, Goto, Frames
<1>2. /\ "idle" \in Points /\ "idle" \notin Found \cup {"describe"}
      /\ "idle" \notin Found /\ "idle" \notin {"update", "describe"}
  BY DEF Points, Found
<1> HIDE DEF fr
<1> QED
  BY <1>1, <1>2, RequestMoves

LEMMA FindQuickIInv ==
  ASSUME IInv, NEW r \in Callers, FindQuick(r) PROVE IInv'
<1> DEFINE fr == [frame[r] EXCEPT !.quick = TRUE]
<1>1. /\ fr \in Frames /\ fr.quick /\ ~fr.force
      /\ frame' = [frame EXCEPT ![r] = fr]
      /\ pc' = [pc EXCEPT ![r] = "describe"]
      /\ UNCHANGED <<table, history>>
  BY FrameFacts DEF FindQuick, Frames, Goto
<1>2. /\ calls' \in Nat /\ calls' >= calls
      /\ fr.url # NoUrl => fr.url.lookup <= calls'
      /\ fr.failed # NoUrl => fr.failed.lookup <= calls'
  BY FrameFacts DEF FindQuick, Frames
<1>3. "describe" \in Points /\ "describe" \notin Found
  BY DEF Points, Found
<1> HIDE DEF fr
<1> QED
  BY <1>1, <1>2, <1>3, RequestMoves

LEMMA FindProgramIInv ==
  ASSUME IInv, NEW r \in Callers, FindProgram(r) PROVE IInv'
<1> DEFINE k  == frame[r].key
           fr == [frame[r] EXCEPT !.id = ids[k], !.url = urls[k],
                                  !.quick = FALSE, !.stale = FALSE,
                                  !.tainted = crossed /\ urls[k] # NoUrl]
<1>0. k \in Keys /\ urls[k] \in Urls \cup {NoUrl} /\ ids[k] \in 0..MaxId
  BY FrameFacts DEF Frames, IInv, TypeOK, Numberings
<1>1. /\ fr \in Frames /\ fr.key = k /\ fr.id = ids[k] /\ fr.url = urls[k]
      /\ ~fr.quick /\ fr.failed = frame[r].failed
      /\ ~fr.stale /\ fr.tainted = (crossed /\ fr.url # NoUrl)
      /\ frame' = [frame EXCEPT ![r] = fr]
      /\ pc' = [pc EXCEPT ![r] = "resolve"]
      /\ UNCHANGED <<table, history>>
  <2>1. frame[r] \in Frames
    BY FrameFacts
  <2>2. /\ fr \in Frames /\ fr.key = k /\ fr.id = ids[k] /\ fr.url = urls[k]
        /\ ~fr.quick /\ fr.failed = frame[r].failed
        /\ ~fr.stale /\ fr.tainted = (crossed /\ fr.url # NoUrl)
    BY <1>0, <2>1 DEF Frames, IInv, TypeOK
  <2> QED
    BY <2>2, Zenon DEF FindProgram, Goto
<1>2. calls' \in Nat /\ calls' >= calls /\ calls' = calls
  BY FrameFacts DEF FindProgram
<1>3. /\ fr.url # NoUrl => fr.url.lookup <= calls'
      /\ fr.failed # NoUrl => fr.failed.lookup <= calls'
  BY <1>0, <1>1, <1>2, FrameFacts DEF IInv, AllLookedUp, LookedUp
<1>4. ~fr.tainted /\ fr.url # NoUrl => fr.url.of = fr.key
  BY <1>0, <1>1 DEF IInv, UrlsBelong
<1>5. fr.id > 0 /\ ids[fr.key] = fr.id
  BY <1>1 DEF FindProgram
<1>6. "resolve" \in Points /\ "resolve" \notin {"update", "describe"}
  BY DEF Points
<1> HIDE DEF fr, k
<1> QED
  BY <1>1, <1>2, <1>3, <1>4, <1>5, <1>6, RequestMoves

LEMMA ResolveCachedIInv ==
  ASSUME IInv, NEW r \in Callers, ResolveCached(r) PROVE IInv'
<1> DEFINE fr == frame[r]
<1>1. /\ fr \in Frames /\ frame' = [frame EXCEPT ![r] = fr]
      /\ pc' = [pc EXCEPT ![r] = "update"]
      /\ UNCHANGED <<table, history>>
      /\ calls' \in Nat /\ calls' >= calls
      /\ fr.url # NoUrl => fr.url.lookup <= calls'
      /\ fr.failed # NoUrl => fr.failed.lookup <= calls'
  BY FrameFacts DEF ResolveCached, Goto
<1>2. /\ ~fr.quick
      /\ fr.url # NoUrl /\ ~fr.tainted => fr.url.of = fr.key
      /\ fr.tainted => fr.stale \/ crossed
      /\ fr.id > 0 /\ (fr.stale \/ ids[fr.key] = fr.id)
  BY DEF ResolveCached, IInv, FramesBelong, NotQuick, TaintedCrossed,
         IdsCurrent, Found
<1>3. ResolvePlayURL => ~fr.force
  BY DEF ResolveCached, UrlAtHand
<1>4. "update" \in Points
  BY DEF Points
<1> HIDE DEF fr
<1> QED
  BY <1>1, <1>2, <1>3, <1>4, RequestMoves

LEMMA ResolveTVODIInv ==
  ASSUME IInv, NEW r \in Callers, ResolveTVOD(r) PROVE IInv'
<1> DEFINE u  == [of |-> frame[r].key, lookup |-> calls + 1]
           fr == [frame[r] EXCEPT !.url = u, !.tainted = FALSE]
<1>1. u \in Urls /\ u # NoUrl
  BY FrameFacts, CatchupAssumption DEF CatchupAssumption, Urls, Frames
<1>2. fr \in Frames /\ fr.url = u /\ fr.key = frame[r].key
      /\ fr.id = frame[r].id /\ fr.stale = frame[r].stale
      /\ fr.quick = frame[r].quick
      /\ fr.failed = frame[r].failed /\ fr.force = frame[r].force
      /\ ~fr.tainted
  BY <1>1, FrameFacts DEF Frames
<1>3. /\ frame' = [frame EXCEPT ![r] = fr] /\ calls' = calls + 1
      /\ pc' = [pc EXCEPT ![r] = "update"]
      /\ UNCHANGED <<table, history>>
  BY FrameFacts DEF ResolveTVOD, Goto
<1>4. fr.failed # NoUrl => fr.failed.lookup < calls + 1
                           /\ fr.failed.lookup <= calls'
  BY <1>2, <1>3, FrameFacts DEF Urls
<1>5. fr.url # fr.failed
  BY <1>1, <1>2, <1>4, FrameFacts DEF Urls
<1>6. ~fr.quick /\ fr.id > 0 /\ (fr.stale \/ ids[fr.key] = fr.id)
  BY <1>2 DEF ResolveTVOD, IInv, IdsCurrent, NotQuick, Found
<1>7. u.of = fr.key /\ u.lookup <= calls' /\ calls' >= calls /\ calls' \in Nat
  BY <1>2, <1>3, FrameFacts
<1>8. "update" \in Points
  BY DEF Points
<1> HIDE DEF u, fr
<1> QED
  BY <1>1, <1>2, <1>3, <1>4, <1>5, <1>6, <1>7, <1>8, RequestMoves

(* A URL lands on its own programme unless a refresh came in between.      *)
LEMMA UpdateIInv ==
  ASSUME IInv, NEW r \in Callers, UpdatePlayURL(r) PROVE IInv'
<1> USE DEF UpdatePlayURL, Return, Goto
<1>0. frame[r] \in Frames /\ frame \in [Callers -> Frames]
  BY FrameFacts DEF IInv, TypeOK
<1>1. /\ pc' \in [Callers -> Points]
      /\ \A c \in Callers : pc'[c] = IF c = r THEN "describe" ELSE pc[c]
      /\ \A k \in Keys :
           \/ urls'[k] = urls[k]
           \/ /\ ids[k] > 0 /\ ids[k] = frame[r].id
              /\ urls'[k] = frame[r].url
              /\ frame[r].stale => crossed'
      /\ urls' \in [Keys -> Urls \cup {NoUrl}]
  BY FrameFacts DEF IInv, TypeOK, Frames, Points
<1>2. /\ frame' \in [Callers -> Frames]
      /\ \A c \in Callers : c # r => frame'[c] = frame[c]
      /\ frame'[r].key = frame[r].key /\ frame'[r].url = frame[r].url
      /\ frame'[r].force = frame[r].force /\ frame'[r].quick = frame[r].quick
      /\ frame'[r].failed = frame[r].failed
      /\ frame'[r].tainted = frame[r].tainted
  <2> DEFINE fr == [frame[r] EXCEPT !.id = 0, !.stale = FALSE]
  <2>1. /\ fr \in Frames
        /\ fr.key = frame[r].key /\ fr.url = frame[r].url
        /\ fr.force = frame[r].force /\ fr.quick = frame[r].quick
        /\ fr.failed = frame[r].failed /\ fr.tainted = frame[r].tainted
    BY <1>0, FrameReturned, Zenon
  <2>2. frame' = [frame EXCEPT ![r] = fr]
    BY <1>0
  <2> HIDE DEF fr
  <2> QED  BY <1>0, <2>1, <2>2
<1>3. crossed' \in BOOLEAN /\ (crossed => crossed')
  BY <1>0, Zenon DEF IInv, TypeOK, Frames
<1>4. TypeOK'
  BY <1>1, <1>2, <1>3, Zenon DEF IInv, TypeOK
<1>5. UrlsBelong'
  <2> SUFFICES ASSUME ~crossed', NEW k \in Keys, urls'[k] # NoUrl
               PROVE  urls'[k].of = k
    BY DEF UrlsBelong
  <2>1. CASE /\ ids[k] > 0 /\ ids[k] = frame[r].id
             /\ urls'[k] = frame[r].url
             /\ frame[r].stale => crossed'
    <3>1. ~crossed /\ ~frame[r].stale /\ frame[r].key \in Keys
      BY <1>0, <1>3, <2>1 DEF Frames
    <3>2. ids[frame[r].key] = ids[k]
      BY <2>1, <3>1 DEF IInv, IdsCurrent, Found
    <3>3. k = frame[r].key
      BY <2>1, <3>1, <3>2 DEF IInv, TypeOK, Numberings
    <3>4. ~frame[r].tainted
      BY <3>1 DEF IInv, TaintedCrossed, Found
    <3>5. frame[r].url.of = frame[r].key
      BY <2>1, <3>4 DEF IInv, FramesBelong, NotQuick, Found
    <3> QED
      BY <2>1, <3>3, <3>5
  <2>2. CASE urls'[k] = urls[k]
    BY <1>3, <2>2 DEF IInv, UrlsBelong
  <2> QED
    BY <1>1, <2>1, <2>2
<1>6. FramesBelong' /\ NotQuick' /\ TaintedCrossed' /\ IdsCurrent'
  <2>1. FramesBelong'
    BY <1>1, <1>2 DEF IInv, FramesBelong, Found
  <2>2. NotQuick' /\ TaintedCrossed' /\ IdsCurrent'
    BY <1>1, <1>2, <1>3 DEF IInv, NotQuick, TaintedCrossed, IdsCurrent, Found
  <2> QED
    BY <2>1, <2>2
<1>7. SecondRoundFresh'
  BY <1>1, <1>2 DEF IInv, SecondRoundFresh
<1>8. AllLookedUp'
  <2>1. \A c \in Callers : /\ frame'[c].url = frame[c].url
                           /\ frame'[c].failed = frame[c].failed
    BY <1>2
  <2>2. \A k \in Keys : LookedUp(urls[k])'
    BY <1>1, FrameFacts DEF IInv, AllLookedUp, LookedUp
  <2> QED
    BY <2>1, <2>2 DEF IInv, AllLookedUp, LookedUp
<1> QED
  BY <1>4, <1>5, <1>6, <1>7, <1>8 DEF IInv

LEMMA ChainFailsIInv ==
  ASSUME IInv, NEW r \in Callers, ChainFails(r) PROVE IInv'
<1>1. CASE frame[r].force
  BY <1>1, RequestLeaves DEF ChainFails
<1>2. CASE ~frame[r].force
  <2> DEFINE k  == frame[r].key
             fr == [NewFrame(k) EXCEPT !.force = TRUE, !.failed = frame[r].url]
  <2>0. fr \in Frames /\ fr.url = NoUrl /\ fr.failed = frame[r].url
    <3>1. k \in Keys /\ frame[r].url \in Urls \cup {NoUrl}
      BY FrameFacts DEF Frames
    <3>2. NewFrame(k) \in Frames /\ NewFrame(k).url = NoUrl
      BY <3>1, NewFrameFacts
    <3> QED  BY <3>1, <3>2 DEF Frames
  <2>1. /\ frame' = [frame EXCEPT ![r] = fr]
        /\ pc' = [pc EXCEPT ![r] = "find"]
        /\ UNCHANGED <<table, history>>
    BY <1>2, FrameFacts DEF ChainFails, Goto
  <2>2. /\ calls' \in Nat /\ calls' >= calls
        /\ fr.url # NoUrl => fr.url.lookup <= calls'
        /\ fr.failed # NoUrl => fr.failed.lookup <= calls'
    BY <2>0, FrameFacts DEF ChainFails
  <2>3. /\ "find" \in Points /\ "find" \notin Found \cup {"describe"}
        /\ "find" \notin Found /\ "find" \notin {"update", "describe"}
    BY DEF Points, Found
  <2> HIDE DEF fr
  <2> QED
    BY <2>0, <2>1, <2>2, <2>3, RequestMoves
<1> QED
  BY <1>1, <1>2

LEMMA AskIInv ==
  ASSUME IInv, NEW r \in Callers, NEW k \in Keys, Ask(r, k) PROVE IInv'
<1> DEFINE fr == NewFrame(k)
<1>1. /\ fr \in Frames /\ fr.url = NoUrl /\ fr.failed = NoUrl
      /\ frame' = [frame EXCEPT ![r] = fr]
      /\ pc' = [pc EXCEPT ![r] = "find"]
      /\ UNCHANGED <<table, history>>
      /\ calls' \in Nat /\ calls' >= calls
  BY NewFrameFacts DEF Ask, Goto, IInv, TypeOK
<1>2. /\ "find" \in Points /\ "find" \notin Found \cup {"describe"}
      /\ "find" \notin Found /\ "find" \notin {"update", "describe"}
  BY DEF Points, Found
<1> HIDE DEF fr
<1> QED
  BY <1>1, <1>2, RequestMoves

LEMMA SaveSnapshotIInv ==
  ASSUME IInv, NEW n \in Numberings, SaveSnapshot(n) PROVE IInv'
<1> USE DEF SaveSnapshot, Renumber
<1>0. frame \in [Callers -> Frames]
  BY DEF IInv, TypeOK
<1> DEFINE fr(r) == [frame[r] EXCEPT !.stale = frame[r].id > 0]
<1>1. ASSUME NEW r \in Callers
      PROVE  /\ frame'[r] \in Frames /\ frame'[r].stale = (frame[r].id > 0)
             /\ frame'[r].key = frame[r].key /\ frame'[r].url = frame[r].url
             /\ frame'[r].failed = frame[r].failed
             /\ frame'[r].quick = frame[r].quick
             /\ frame'[r].force = frame[r].force
             /\ frame'[r].id = frame[r].id
             /\ frame'[r].tainted = frame[r].tainted
  <2> DEFINE old == frame[r].id > 0
             g   == [frame[r] EXCEPT !.stale = old]
  <2>1. frame'[r] = g
    OBVIOUS
  <2>2. frame[r] \in Frames /\ old \in BOOLEAN
    BY <1>0
  <2> HIDE DEF SaveSnapshot, Renumber, old
  <2>3. /\ g \in Frames /\ g.stale = old
        /\ g.key = frame[r].key /\ g.url = frame[r].url
        /\ g.failed = frame[r].failed /\ g.force = frame[r].force
        /\ g.quick = frame[r].quick /\ g.id = frame[r].id
        /\ g.tainted = frame[r].tainted
    BY <2>2, FrameStale, Zenon
  <2> HIDE DEF g
  <2>4. /\ frame'[r] \in Frames /\ frame'[r].stale = old
        /\ frame'[r].key = frame[r].key /\ frame'[r].url = frame[r].url
        /\ frame'[r].failed = frame[r].failed
        /\ frame'[r].force = frame[r].force
        /\ frame'[r].quick = frame[r].quick /\ frame'[r].id = frame[r].id
        /\ frame'[r].tainted = frame[r].tainted
    BY <2>1, <2>3
  <2> QED  BY <2>4, Zenon DEF old
<1>11. frame' \in [Callers -> Frames]
  <2>1. frame' = [r \in Callers |-> fr(r)]
    OBVIOUS
  <2> HIDE DEF fr
  <2> QED  BY <1>1, <2>1
<1>2. TypeOK'
  <2>1. urls' \in [Keys -> Urls \cup {NoUrl}] /\ refreshes' \in Nat
    BY DEF IInv, TypeOK
  <2> QED
    BY <1>11, <2>1, Zenon DEF IInv, TypeOK
<1>3. pc' = pc /\ urls' = [k \in Keys |-> NoUrl] /\ calls' = calls
  OBVIOUS
<1> HIDE DEF SaveSnapshot, Renumber
<1>4. UrlsBelong' /\ FramesBelong' /\ NotQuick'
  BY <1>1, <1>3 DEF IInv, UrlsBelong, FramesBelong, NotQuick
<1>5. IdsCurrent' /\ TaintedCrossed'
  BY <1>1, <1>3 DEF IInv, IdsCurrent, TaintedCrossed
<1>6. SecondRoundFresh'
  BY <1>1, <1>3 DEF IInv, SecondRoundFresh
<1>7. AllLookedUp'
  BY <1>1, <1>3 DEF IInv, AllLookedUp, LookedUp
<1> QED
  BY <1>2, <1>4, <1>5, <1>6, <1>7 DEF IInv

LEMMA NextIInv == IInv /\ [Next]_vars => IInv'
<1> SUFFICES ASSUME IInv, [Next]_vars PROVE IInv'
  OBVIOUS
<1>1. ASSUME NEW r \in Callers, RequestStep(r) PROVE IInv'
  <2>1. CASE NotFound(r) \/ ResolveFails(r) \/ Played(r)
    BY <2>1, RequestLeaves DEF NotFound, ResolveFails, Played
  <2> QED
    BY <1>1, <2>1, FindQuickIInv, FindProgramIInv, ResolveCachedIInv,
       ResolveTVODIInv, UpdateIInv, ChainFailsIInv DEF RequestStep
<1>2. CASE UNCHANGED vars
  BY <1>2
  DEF vars, IInv, TypeOK, UrlsBelong, FramesBelong, TaintedCrossed, NotQuick,
      IdsCurrent, AllLookedUp, LookedUp, SecondRoundFresh
<1> QED
  BY <1>1, <1>2, AskIInv, SaveSnapshotIInv DEF Next

LEMMA SpecIInv == Spec => []IInv
BY InitIInv, NextIInv, PTL DEF Spec

(* The variables of the catch-up requests keep their types.                *)
THEOREM SpecTypeOK == Spec => []TypeOK
<1>1. IInv => TypeOK
  BY DEF IInv
<1> QED
  BY <1>1, SpecIInv, PTL

(* Every stored URL is its programme's, unless one was written across a    *)
(* refresh since the last snapshot.                                        *)
THEOREM SpecUrlsBelong == Spec => []UrlsBelong
<1>1. IInv => UrlsBelong
  BY DEF IInv
<1> QED
  BY <1>1, SpecIInv, PTL

(* ... and so is every URL a player is sent to, if it does not come out of *)
(* a table so written.                                                     *)
THEOREM SpecAnswersBelong == Spec => []AnswersBelong
<1>1. IInv => AnswersBelong
  BY DEF IInv, FramesBelong, AnswersBelong
<1> QED
  BY <1>1, SpecIInv, PTL

(* The fallback never tries the failed URL again, and always one of the    *)
(* programme asked for.                                                    *)
THEOREM SpecFallbackIsFresh == Spec => []FallbackIsFresh
<1>1. IInv => FallbackIsFresh
  BY DEF IInv, SecondRoundFresh, FallbackIsFresh
<1> QED
  BY <1>1, SpecIInv, PTL
=============================================================================
