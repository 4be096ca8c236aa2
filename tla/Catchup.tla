------------------------------ MODULE Catchup ------------------------------
(***************************************************************************)
(* Catch-up requests against the programme table: catchup.go               *)
(* (resolveCatchupPlayURL, resolveFinalCatchup), epg.go (resolvePlayURL),  *)
(* cache.go (findProgram, updatePlayURL and the programme side of          *)
(* saveSnapshot).                                                          *)
(*                                                                         *)
(* A request copies its programme out of the table, may ask TVOD for a     *)
(* play URL, writes the URL back by the programme's numeric ID, and follows *)
(* the RTSP redirects; if those fail it does all of it once more with a    *)
(* forced TVOD lookup.  IDs are positions in one snapshot: every refresh   *)
(* numbers the programmes anew and forgets their URLs.                     *)
(*                                                                         *)
(* A key stands for programKey, the identity of a programme; TVOD and the  *)
(* RTSP servers are outside and answer as they like.                       *)
(***************************************************************************)
EXTENDS Naturals

CONSTANTS
  Callers,         \* catch-up requests (RTSP, /catchup.ts, /catchup_debug)
  Keys,            \* programmes, by programKey
  NoUrl,           \* Program.PlayURL = ""
  MaxId,           \* programmes in the largest snapshot
  MaxCalls,        \* bound: TVOD lookups that succeed
  MaxRefreshes,    \* bound: snapshots saved
  ResolvePlayURL   \* resolve_play_url of the configuration

(* What TVOD hands out: the programme it was asked for, and which lookup.  *)
Urls == [of : Keys, lookup : Nat]

ASSUME CatchupAssumption ==
  /\ NoUrl \notin Urls
  /\ MaxId \in Nat /\ MaxCalls \in Nat /\ MaxRefreshes \in Nat
  /\ ResolvePlayURL \in BOOLEAN

(* saveSnapshot numbers the programmes by position, 0 for those that are   *)
(* not listed; of duplicates the last one stays, so no ID has two keys.    *)
Numberings ==
  {n \in [Keys -> 0..MaxId] :
     \A k1, k2 \in Keys : n[k1] = n[k2] /\ n[k1] > 0 => k1 = k2}

VARIABLES
  ids,        \* Program.ID by key in the store, 0 if not listed
  urls,       \* Program.PlayURL by key in the store
  pc,         \* where each request is
  frame,      \* its local variables
  calls,      \* TVOD lookups so far
  refreshes,  \* snapshots saved so far
  crossed     \* history: a request that found its programme in an older
              \* snapshot has written a URL since the last one

vars == <<ids, urls, pc, frame, calls, refreshes, crossed>>

(* key: what is asked for; id, url: the copy of the programme; force:      *)
(* second round; quick: the channel's TimeShiftURL is used; failed: what   *)
(* did not play in the first round; stale: history, refreshed since found; *)
(* tainted: history, its URL comes from a table that was crossed.          *)
Frames == [key : Keys, id : 0..MaxId, url : Urls \cup {NoUrl},
           force : BOOLEAN, quick : BOOLEAN,
           failed : Urls \cup {NoUrl}, stale : BOOLEAN, tainted : BOOLEAN]

(* The variables of a request for k that has done nothing yet.             *)
NewFrame(k) == [key |-> k, id |-> 0, url |-> NoUrl, force |-> FALSE,
                quick |-> FALSE, failed |-> NoUrl, stale |-> FALSE,
                tainted |-> FALSE]

Points == {"idle", "find", "resolve", "update", "describe"}

TypeOK ==
  /\ ids \in Numberings
  /\ urls \in [Keys -> Urls \cup {NoUrl}]
  /\ pc \in [Callers -> Points]
  /\ frame \in [Callers -> Frames]
  /\ calls \in Nat
  /\ refreshes \in Nat
  /\ crossed \in BOOLEAN

Init ==
  /\ ids \in Numberings
  /\ urls = [k \in Keys |-> NoUrl]
  /\ pc = [r \in Callers |-> "idle"]
  /\ frame \in [Callers -> {NewFrame(k) : k \in Keys}]
  /\ calls = 0
  /\ refreshes = 0
  /\ crossed = FALSE

Goto(r, point) == pc' = [pc EXCEPT ![r] = point]
table   == <<ids, urls>>
history == <<refreshes, crossed>>

(* The request is over: its variables are gone.                            *)
End(r) ==
  /\ Goto(r, "idle")
  /\ frame' = [frame EXCEPT ![r] = NewFrame(frame[r].key)]

----------------------------------------------------------------------------
(* A request for programme k arrives.                                      *)
Ask(r, k) ==
  /\ pc[r] = "idle"
  /\ frame' = [frame EXCEPT ![r] = NewFrame(k)]
  /\ Goto(r, "find")
  /\ UNCHANGED <<table, calls, history>>

(* Channel or programme unknown: the request ends.  The channel list of    *)
(* the moment is not modelled, so this may happen to any request.          *)
NotFound(r) ==
  /\ pc[r] = "find"
  /\ End(r)
  /\ UNCHANGED <<table, calls, history>>

(* A start within the timeshift window goes to the channel's TimeShiftURL, *)
(* unless TVOD is forced.                                                  *)
FindQuick(r) ==
  /\ pc[r] = "find"
  /\ ids[frame[r].key] > 0
  /\ ~frame[r].force
  /\ frame' = [frame EXCEPT ![r].quick = TRUE]
  /\ Goto(r, "describe")
  /\ UNCHANGED <<table, calls, history>>

(* findProgram copies the programme out of the table.                      *)
FindProgram(r) ==
  /\ pc[r] = "find"
  /\ ids[frame[r].key] > 0
  /\ frame' = [frame EXCEPT ![r].id = ids[frame[r].key],
                            ![r].url = urls[frame[r].key],
                            ![r].quick = FALSE, ![r].stale = FALSE,
                            ![r].tainted =
                               crossed /\ urls[frame[r].key] # NoUrl]
  /\ Goto(r, "resolve")
  /\ UNCHANGED <<table, calls, history>>

(* Mutation of UrlAtHand: force is not handed down.                        *)
UrlAtHandUnforced(r) == ~ResolvePlayURL \/ frame[r].url # NoUrl

(* resolvePlayURL has nothing to ask.                                      *)
UrlAtHand(r) ==
  \/ ~ResolvePlayURL
  \/ frame[r].url # NoUrl /\ ~frame[r].force

ResolveCached(r) ==
  /\ pc[r] = "resolve"
  /\ UrlAtHand(r)
  /\ Goto(r, "update")
  /\ UNCHANGED <<table, frame, calls, history>>

(* getTVODPlayURL by the programme's code.                                 *)
ResolveTVOD(r) ==
  /\ pc[r] = "resolve"
  /\ ~UrlAtHand(r)
  /\ calls < MaxCalls
  /\ calls' = calls + 1
  /\ frame' = [frame EXCEPT ![r].url = [of |-> frame[r].key,
                                        lookup |-> calls + 1],
                            ![r].tainted = FALSE]
  /\ Goto(r, "update")
  /\ UNCHANGED <<table, history>>

(* No base, a failed request or an answer without a URL: the request ends. *)
ResolveFails(r) ==
  /\ pc[r] = "resolve"
  /\ ~UrlAtHand(r)
  /\ End(r)
  /\ UNCHANGED <<table, calls, history>>

(* resolveCatchupPlayURL returns the URL; the copy is out of scope.        *)
Return(r) ==
  /\ frame' = [frame EXCEPT ![r].id = 0, ![r].stale = FALSE]
  /\ Goto(r, "describe")
  /\ UNCHANGED <<ids, calls, refreshes>>

(* Mutation of UpdatePlayURL: the first programme listed gets the URL.     *)
UpdatePlayURLFirst(r) ==
  /\ pc[r] = "update"
  /\ urls' = [k \in Keys |-> IF ids[k] = 1 THEN frame[r].url ELSE urls[k]]
  /\ crossed' = (crossed \/ frame[r].stale)
  /\ Return(r)

(* updatePlayURL: the programme that has this ID now gets the URL; an      *)
(* error is dropped.                                                       *)
UpdatePlayURL(r) ==
  /\ pc[r] = "update"
  /\ \/ /\ urls' = [k \in Keys |-> IF ids[k] > 0 /\ ids[k] = frame[r].id
                                  THEN frame[r].url ELSE urls[k]]
        /\ crossed' = (crossed \/ frame[r].stale)
     \/ UNCHANGED <<urls, crossed>>
  /\ Return(r)

(* resolveRTSPChain reaches a server that answers 200: the player is sent  *)
(* there.                                                                  *)
Played(r) ==
  /\ pc[r] = "describe"
  /\ End(r)
  /\ UNCHANGED <<table, calls, history>>

(* Mutation of ChainFails: it falls back, unforced, as long as it fails.   *)
ChainFailsUnforced(r) ==
  /\ pc[r] = "describe"
  /\ Goto(r, "find")
  /\ frame' = [frame EXCEPT ![r].failed = frame[r].url]
  /\ UNCHANGED <<table, calls, history>>

(* It fails: the second round forces TVOD, there is no third.              *)
ChainFails(r) ==
  /\ pc[r] = "describe"
  /\ \/ /\ ~frame[r].force
        /\ Goto(r, "find")
        /\ frame' = [frame EXCEPT ![r] =
             [NewFrame(frame[r].key) EXCEPT !.force = TRUE,
                                            !.failed = frame[r].url]]
     \/ frame[r].force /\ End(r)
  /\ UNCHANGED <<table, calls, history>>

----------------------------------------------------------------------------
(* What a snapshot does to the requests on the way: their copies are old.  *)
Renumber(n) ==
  /\ refreshes < MaxRefreshes
  /\ refreshes' = refreshes + 1
  /\ ids' = n
  /\ frame' = [r \in Callers |-> [frame[r] EXCEPT !.stale = frame[r].id > 0]]
  /\ crossed' = FALSE
  /\ UNCHANGED <<pc, calls>>

(* Mutation of SaveSnapshot: URLs known by number are carried over.        *)
SaveSnapshotKeepsURLs(n) ==
  /\ Renumber(n)
  /\ urls' = [k \in Keys |-> IF \E j \in Keys : n[k] > 0 /\ ids[j] = n[k]
                             THEN urls[CHOOSE j \in Keys : ids[j] = n[k]]
                             ELSE NoUrl]

(* saveSnapshot of a refresh: all programmes are new ones, without URLs.   *)
SaveSnapshot(n) ==
  /\ Renumber(n)
  /\ urls' = [k \in Keys |-> NoUrl]

RequestStep(r) ==
  \/ NotFound(r) \/ FindQuick(r) \/ FindProgram(r)
  \/ ResolveCached(r) \/ ResolveTVOD(r) \/ ResolveFails(r)
  \/ UpdatePlayURL(r) \/ Played(r) \/ ChainFails(r)

Next ==
  \/ \E r \in Callers : (\E k \in Keys : Ask(r, k)) \/ RequestStep(r)
  \/ \E n \in Numberings : SaveSnapshot(n)

Spec == Init /\ [][Next]_vars

(* Every lookup and every RTSP exchange has a timeout.                     *)
FairSpec == Spec /\ \A r \in Callers : WF_vars(RequestStep(r))

----------------------------------------------------------------------------
(* Every URL in the store was obtained for the programme it is stored      *)
(* with, however requests overlap, unless a request that found its         *)
(* programme before a refresh has written after it; and the next refresh   *)
(* ends that, whoever is still on the way.                                 *)
UrlsBelong ==
  ~crossed => \A k \in Keys : urls[k] # NoUrl => urls[k].of = k

(* Every player is sent to the programme it asked for, unless it was given *)
(* a URL out of a table so written.                                        *)
AnswersBelong ==
  \A r \in Callers :
    pc[r] = "describe" /\ ~frame[r].quick /\ frame[r].url # NoUrl
      /\ ~frame[r].tainted => frame[r].url.of = frame[r].key

(* The second round does not play what a lookup before it has brought and  *)
(* failed in the first, but the answer of a lookup made since, for the     *)
(* programme asked for, whatever the table holds.                          *)
FallbackIsFresh ==
  ResolvePlayURL => \A r \in Callers :
    pc[r] = "describe" /\ frame[r].force =>
      /\ frame[r].url # frame[r].failed
      /\ frame[r].url # NoUrl /\ frame[r].url.of = frame[r].key

(* README: historical programmes are looked up at TVOD by the guide.  The  *)
(* URL a player is sent to would have to be its programme's, also when a   *)
(* refresh runs at the time.                                               *)
ServedAsListed ==
  \A r \in Callers :
    pc[r] = "describe" /\ ~frame[r].quick /\ frame[r].url # NoUrl
      => frame[r].url.of = frame[r].key

(* Every request is answered.                                              *)
RequestEnds == \A r \in Callers : pc[r] # "idle" ~> pc[r] = "idle"
=============================================================================
