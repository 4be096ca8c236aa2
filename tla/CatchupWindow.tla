---------------------------- MODULE CatchupWindow ----------------------------
(***************************************************************************)
(* Which programme and which time range a catch-up request gets:           *)
(* catchup.go (parseCatchupCandidates, resolveCatchupPlayURL but for its   *)
(* TVOD lookup) and cache.go (findProgram).                                *)
(*                                                                         *)
(* A request names a start and maybe an end on a clock that may be the     *)
(* local one or UTC.  Each reading of the start is looked up in the guide, *)
(* the local one first, by a loop over the programmes of the channel; the  *)
(* programme of the first that matches is played, from the channel's       *)
(* timeshift if the start is recent enough, else from TVOD.  Times are     *)
(* small numbers on the local clock; a UTC reading is Offset later.        *)
(***************************************************************************)
EXTENDS Integers, Sequences

CONSTANTS
  MaxTime,    \* times are 0..MaxTime
  Offset,     \* from UTC to local time: eight hours
  Tolerance,  \* catchup_match_tolerance_seconds
  Length,     \* timeshift length of the channel, or of the configuration
  Safety,     \* timeshift_safety_margin_seconds
  Lead,       \* how far a start may lie ahead: two minutes
  MaxListed   \* bound: programmes of the channel

ASSUME WindowAssumption ==
  /\ MaxTime \in Nat /\ Offset \in Nat \ {0}
  /\ Tolerance \in Nat /\ Length \in Nat \ {0} /\ Safety \in Nat
  /\ Lead \in Nat /\ MaxListed \in Nat

VARIABLES
  guide,     \* the programmes of the channel, in the order of their keys
  request,
  turn,      \* which candidate is looked up
  cursor,    \* which programme findProgram reads next
  best,      \* best
  answer

windowVars == <<guide, request, turn, cursor, best, answer>>

Times == 0..MaxTime

(* A time that is absent or cannot be parsed; no programme.                *)
NoTime  == -1
Nothing == [start |-> NoTime, end |-> NoTime]

Programs == {p \in [start : Times, end : Times] : p.start < p.end}

KeyBefore(p, q) ==
  \/ p.start < q.start
  \/ p.start = q.start /\ p.end < q.end

Guides ==
  {g \in UNION {[1..n -> Programs] : n \in 0..MaxListed} :
     \A n \in 1..(Len(g) - 1) : KeyBefore(g[n], g[n + 1])}

(* timeshift: the channel has an RTSP TimeShiftURL and it is enabled.      *)
Requests ==
  [start : Times \cup {NoTime}, end : Times \cup {NoTime},
   mode : {"local", "utc", "auto"}, now : Times,
   timeshift : BOOLEAN, force : BOOLEAN]

----------------------------------------------------------------------------
Distance(t1, t2) == IF t1 < t2 THEN t2 - t1 ELSE t1 - t2

(* findProgram's condition: the programme, widened by the tolerance.       *)
Matches(p, t) == p.start <= t + Tolerance /\ p.end > t - Tolerance

(* A time read on a clock; an end that cannot be read counts as none.      *)
ReadAs(clock, t) == IF t = NoTime \/ clock = "local" THEN t ELSE t + Offset

(* Mutation of Clocks: UTC is tried first.                                 *)
ClocksUTCFirst(mode) ==
  IF mode \in {"local", "utc"} THEN <<mode>> ELSE <<"utc", "local">>

Clocks(mode) ==
  IF mode \in {"local", "utc"} THEN <<mode>> ELSE <<"local", "utc">>

(* parseCatchupCandidates                                                  *)
Candidates(req) ==
  IF req.start = NoTime THEN <<>>
  ELSE LET Reading(clock) == [clock |-> clock,
                              start |-> ReadAs(clock, req.start),
                              end   |-> ReadAs(clock, req.end)]
           clocks == Clocks(req.mode)
       IN  [n \in DOMAIN clocks |-> Reading(clocks[n])]

(* Mutation of RangeEnd: an end before the start is taken as it is.        *)
RangeEndAsked(start, end, p) == IF end = NoTime THEN p.end ELSE end

(* Without an end after the start, the programme's.                        *)
RangeEnd(start, end, p) ==
  IF end = NoTime \/ end <= start THEN p.end ELSE end

Positive(n) == IF n > 0 THEN n ELSE 0
Window == Positive(Length - Safety)

(* Mutation of Quick: the window has no far end.                           *)
QuickAnyAge(req, start) ==
  ~req.force /\ req.timeshift /\ start < req.now + Lead

(* The start lies within the timeshift of the channel, TVOD is not forced. *)
Quick(req, start) ==
  /\ ~req.force /\ req.timeshift
  /\ start > req.now - Window
  /\ start < req.now + Lead

----------------------------------------------------------------------------
WindowInit ==
  /\ guide \in Guides
  /\ request \in Requests
  /\ turn = 1 /\ cursor = 1 /\ best = Nothing
  /\ answer = [status |-> "pending"]

Trying    == answer.status = "pending" /\ turn <= Len(Candidates(request))
Candidate == Candidates(request)[turn]

(* Mutation of Scan: the first match is taken.                             *)
ScanFirst ==
  /\ Trying /\ cursor <= Len(guide)
  /\ LET p == guide[cursor] IN
       best' = IF Matches(p, Candidate.start) /\ best = Nothing THEN p ELSE best
  /\ cursor' = cursor + 1
  /\ UNCHANGED <<guide, request, turn, answer>>

(* findProgram reads a programme: of those that match, the one that starts *)
(* nearest is kept, of equally near ones the first.                        *)
Scan ==
  /\ Trying /\ cursor <= Len(guide)
  /\ LET p == guide[cursor]
         t == Candidate.start
     IN  best' = IF /\ Matches(p, t)
                    /\ \/ best = Nothing
                       \/ Distance(p.start, t) < Distance(best.start, t)
                 THEN p ELSE best
  /\ cursor' = cursor + 1
  /\ UNCHANGED <<guide, request, turn, answer>>

(* Nothing matches this reading: on to the next.                           *)
TryNext ==
  /\ Trying /\ cursor > Len(guide)
  /\ best = Nothing
  /\ turn' = turn + 1 /\ cursor' = 1
  /\ UNCHANGED <<guide, request, best, answer>>

Refuse ==
  /\ answer.status = "pending" /\ turn > Len(Candidates(request))
  /\ answer' = [status |-> "refused"]
  /\ UNCHANGED <<guide, request, turn, cursor, best>>

Resolve ==
  /\ Trying /\ cursor > Len(guide)
  /\ best # Nothing
  /\ LET c == Candidate
         q == Quick(request, c.start)
         e == RangeEnd(c.start, c.end, best)
     IN  answer' = [status |-> "matched", clock |-> c.clock, program |-> best,
                    quick |-> q, start |-> c.start,
                    end |-> IF q /\ e > request.now THEN request.now ELSE e]
  /\ UNCHANGED <<guide, request, turn, cursor, best>>

WindowNext == Scan \/ TryNext \/ Refuse \/ Resolve

WindowSpec == WindowInit /\ [][WindowNext]_windowVars

----------------------------------------------------------------------------
Answered == answer.status # "pending"
Matched  == answer.status = "matched"
Listed   == {guide[n] : n \in 1..Len(guide)}

(* The programme played matches the start, and no other that does starts   *)
(* nearer.                                                                 *)
NearestProgram ==
  Matched =>
    /\ answer.program \in Listed /\ Matches(answer.program, answer.start)
    /\ \A p \in Listed : Matches(p, answer.start) =>
         Distance(answer.program.start, answer.start)
           <= Distance(p.start, answer.start)

(* A request is refused only if no clock it allows gives a match, and UTC  *)
(* is believed only where asked for or where local time gives none.        *)
ClockRespected ==
  Answered =>
    LET Hit(clock) ==
          /\ request.start # NoTime
          /\ \E p \in Listed : Matches(p, ReadAs(clock, request.start))
    IN  /\ Matched <=>
             \/ request.mode # "utc" /\ Hit("local")
             \/ request.mode # "local" /\ Hit("utc")
        /\ Matched => answer.clock =
             IF request.mode # "utc" /\ Hit("local") THEN "local" ELSE "utc"

(* The range played runs backwards in two cases only: a live start that is *)
(* not yet past, and a start that is within the tolerance after the end of *)
(* the programme, with no later end asked for.                             *)
ForwardRange ==
  Matched /\ answer.end <= answer.start =>
    \/ answer.quick /\ answer.start >= request.now
    \/ /\ answer.start >= answer.program.end
       /\ request.end <= request.start

(* Timeshift is asked only for what it still holds and no further than now. *)
TimeshiftHolds ==
  Matched /\ answer.quick =>
    /\ answer.start + Length > request.now
    /\ answer.end <= request.now
=============================================================================
