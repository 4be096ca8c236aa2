-------------------------- MODULE SequentialProofs --------------------------
(***************************************************************************)
(* Proofs about the parts that run on their own: the redirect chain, the   *)
(* catch-up log, the comments of the configuration, the time window and    *)
(* the channel list.  They hold for inputs of any size.                    *)
(*                                                                         *)
(* What a loop or a sorted list does is shown by induction over the        *)
(* naturals, which Least and SetInduction give for sets.                   *)
(***************************************************************************)
EXTENDS RedirectChain, CatchupWindow, Lineup, CatchupLog, JSONComments,
        FiniteSetTheorems, SequenceTheorems, WellFoundedInduction, TLAPS

----------------------------------------------------------------------------
(* Naturals                                                                *)

Less == {p \in Nat \X Nat : p[1] < p[2]}

(* Every set of naturals that has an element has a least one.              *)
LEMMA Least ==
  ASSUME NEW T, T \subseteq Nat, T # {}
  PROVE  \E m \in T : \A n \in T : m <= n
<1>1. OpToRel(<, Nat) = Less
  BY DEF OpToRel, Less
<1>2. IsWellFoundedOn(Less, Nat)
  BY <1>1, NatLessThanWellFounded
<1>3. PICK m \in T : \A n \in T : <<n, m>> \notin Less
  BY <1>2, WFMin
<1>4. ASSUME NEW n \in T PROVE m <= n
  <2>1. <<n, m>> \in Nat \X Nat /\ <<n, m>>[1] = n /\ <<n, m>>[2] = m
    OBVIOUS
  <2>2. ~(n < m)
    BY <1>3, <2>1 DEF Less
  <2> QED  BY <2>2
<1> QED  BY <1>4

(* Induction, for a set in the place of a predicate.                       *)
LEMMA SetInduction ==
  ASSUME NEW T, 0 \in T, \A n \in Nat : n \in T => n + 1 \in T
  PROVE  \A n \in Nat : n \in T
<1>1. SUFFICES ASSUME Nat \ T # {} PROVE FALSE
  OBVIOUS
<1>2. PICK m \in Nat \ T : \A n \in Nat \ T : m <= n
  BY <1>1, Least
<1>3. m - 1 \in Nat /\ m - 1 \in T
  BY <1>2
<1> QED  BY <1>2, <1>3

----------------------------------------------------------------------------
(* The redirect chain.  What is said of its answer follows from how the    *)
(* three records of the walk keep in step: seen is the set of URLs asked,  *)
(* i the number of them that redirected, and hops one entry per URL that   *)
(* answered.                                                               *)

(* The records at the head of the loop, while a URL is asked, and at the   *)
(* end.                                                                    *)
InStep ==
  /\ seen = {asked[m] : m \in 1..Len(asked)}
  /\ \A m \in 1..(Len(hops) - 1) : hops[m] = "3xx"
  /\ pc = "loop" =>
       /\ Len(asked) = i /\ Len(hops) = i /\ outcome = "none"
       /\ \A m \in 1..Len(hops) : hops[m] = "3xx"
  /\ pc = "describe" =>
       /\ i <= MaxHops
       /\ Len(asked) = i + 1 /\ Len(hops) = i /\ outcome = "none"
       /\ asked[Len(asked)] = cur
       /\ \A m \in 1..Len(hops) : hops[m] = "3xx"

ChainInv == TypeOK /\ InStep /\ AskedOnce /\ AnswerConfirmed /\ HopsComplete
----------------------------------------------------------------------------
(* Appending to a sequence without repetition something not in it.         *)
LEMMA AppendFresh ==
  ASSUME NEW S, NEW s \in Seq(S), NEW x \in S,
         \A m, n \in 1..Len(s) : s[m] = s[n] => m = n,
         \A m \in 1..Len(s) : s[m] # x
  PROVE  \A m, n \in 1..Len(Append(s, x)) :
           Append(s, x)[m] = Append(s, x)[n] => m = n
  OBVIOUS

(* The set of elements grows by the one appended.                          *)
LEMMA AppendElements ==
  ASSUME NEW S, NEW s \in Seq(S), NEW x \in S
  PROVE  {Append(s, x)[m] : m \in 1..Len(Append(s, x))}
           = {s[m] : m \in 1..Len(s)} \cup {x}
  OBVIOUS

(* The initial states satisfy the invariant.                               *)
LEMMA ChainInitInv == Init => ChainInv
  BY ChainAssumption
  DEF ChainAssumption, Init, ChainInv, TypeOK, InStep, AskedOnce,
      AnswerConfirmed, HopsComplete, Statuses, Errors

(* Every step keeps it.                                                    *)
LEMMA ChainNextInv == ChainInv /\ [Next]_vars => ChainInv'
<1> SUFFICES ASSUME ChainInv, [Next]_vars PROVE ChainInv'
  OBVIOUS
<1> USE ChainAssumption DEF ChainAssumption, ChainInv
<1>1. CASE TooMany
  BY <1>1 DEF TooMany, Return, TypeOK, InStep, AskedOnce, AnswerConfirmed,
              HopsComplete, Errors
<1>2. CASE Loop
  BY <1>2 DEF Loop, Return, TypeOK, InStep, AskedOnce, AnswerConfirmed,
              HopsComplete, Errors
<1>3. CASE Enter
  <2>1. TypeOK'
    BY <1>3 DEF Enter, TypeOK
  <2>2. seen' = {asked'[m] : m \in 1..Len(asked')}
    BY <1>3, AppendElements DEF Enter, TypeOK, InStep
  <2>3. InStep'
    BY <1>3, <2>2 DEF Enter, TypeOK, InStep
  <2>4. AskedOnce'
    <3>1. \A m \in 1..Len(asked) : asked[m] # cur
      BY <1>3 DEF Enter, InStep
    <3>2. \A m, n \in 1..Len(asked') : asked'[m] = asked'[n] => m = n
      BY <1>3, <3>1, AppendFresh DEF Enter, TypeOK, AskedOnce
    <3>3. Len(asked') <= MaxHops + 1
      BY <1>3 DEF Enter, TypeOK, InStep
    <3> QED  BY <3>2, <3>3 DEF AskedOnce
  <2>5. AnswerConfirmed' /\ HopsComplete'
    BY <1>3 DEF Enter, InStep, AnswerConfirmed, HopsComplete
  <2> QED  BY <2>1, <2>3, <2>4, <2>5
<1>4. CASE DescribeFails
  BY <1>4 DEF DescribeFails, Return, TypeOK, InStep, AskedOnce,
              AnswerConfirmed, HopsComplete, Errors
<1>5. CASE \E url \in Urls : Redirect(url)
  <2> PICK url \in Urls : Redirect(url)
    BY <1>5
  <2>1. TypeOK'
    BY DEF Redirect, TypeOK, Statuses, InStep
  <2>2. InStep'
    BY DEF Redirect, TypeOK, Statuses, InStep
  <2>3. AskedOnce' /\ AnswerConfirmed' /\ HopsComplete'
    BY DEF Redirect, InStep, AskedOnce, AnswerConfirmed, HopsComplete
  <2> QED  BY <2>1, <2>2, <2>3
<1>6. CASE NoLocation
  <2>1. TypeOK' /\ InStep'
    BY <1>6 DEF NoLocation, Return, TypeOK, Statuses, Errors, InStep
  <2>2. AskedOnce' /\ AnswerConfirmed' /\ HopsComplete'
    BY <1>6 DEF NoLocation, Return, TypeOK, Statuses, Errors, InStep,
                AskedOnce, AnswerConfirmed, HopsComplete
  <2> QED  BY <2>1, <2>2
<1>7. CASE Found
  <2>1. TypeOK' /\ InStep'
    BY <1>7 DEF Found, Return, TypeOK, Statuses, Errors, InStep
  <2>2. AskedOnce' /\ AnswerConfirmed' /\ HopsComplete'
    BY <1>7 DEF Found, Return, TypeOK, Statuses, Errors, InStep,
                AskedOnce, AnswerConfirmed, HopsComplete
  <2> QED  BY <2>1, <2>2
<1>8. CASE OtherStatus
  <2>1. TypeOK' /\ InStep'
    BY <1>8 DEF OtherStatus, Return, TypeOK, Statuses, Errors, InStep
  <2>2. AskedOnce' /\ AnswerConfirmed' /\ HopsComplete'
    BY <1>8 DEF OtherStatus, Return, TypeOK, Statuses, Errors, InStep,
                AskedOnce, AnswerConfirmed, HopsComplete
  <2> QED  BY <2>1, <2>2
<1>9. CASE UNCHANGED vars
  BY <1>9 DEF vars, TypeOK, InStep, AskedOnce, AnswerConfirmed, HopsComplete
<1> QED
  BY <1>1, <1>2, <1>3, <1>4, <1>5, <1>6, <1>7, <1>8, <1>9 DEF Next

(* The invariant holds in every reachable state.                           *)
THEOREM SpecChainInv == Spec => []ChainInv
  BY ChainInitInv, ChainNextInv, PTL DEF Spec

(* Every variable keeps its type.                                          *)
THEOREM SpecChainTypeOK == Spec => []TypeOK
  BY SpecChainInv, PTL DEF ChainInv

(* resolveRTSPChain asks no URL twice and follows at most                  *)
(* rtsp_redirect_max_hops redirects.                                       *)
THEOREM SpecAskedOnce == Spec => []AskedOnce
  BY SpecChainInv, PTL DEF ChainInv

(* The URL resolveRTSPChain returns was asked last and answered 2xx.       *)
THEOREM SpecAnswerConfirmed == Spec => []AnswerConfirmed
  BY SpecChainInv, PTL DEF ChainInv

(* The hops resolveRTSPChain returns are all that answered.                *)
THEOREM SpecHopsComplete == Spec => []HopsComplete
  BY SpecChainInv, PTL DEF ChainInv

----------------------------------------------------------------------------
(* The catch-up log.                                                       *)

(* The log is the end of the numbers given out: its last entry is the last *)
(* number and the others go back one by one.                               *)
LogInv ==
  /\ size \in Sizes
  /\ added \in Nat
  /\ log \in Seq(Nat) /\ Len(log) <= added
  /\ \A n \in 1..Len(log) : log[n] = added - Len(log) + n

(* The initial states satisfy the invariant.                               *)
LEMMA LogInitInv == LogInit => LogInv
  BY DEF LogInit, LogInv

(* Every step keeps it: what is trimmed goes from the front, or all goes.  *)
LEMMA LogNextInv == LogInv /\ [LogNext]_logVars => LogInv'
<1> SUFFICES ASSUME LogInv, [LogNext]_logVars PROVE LogInv'
  OBVIOUS
<1>1. CASE AddCatchupLog
  <2> DEFINE entries == Append(log, added + 1)
             kept    == Smaller(MaxLogs, Len(entries))
  <2>1. /\ entries \in Seq(Nat) /\ Len(entries) = Len(log) + 1
        /\ \A n \in 1..Len(entries) :
             entries[n] = (added + 1) - Len(entries) + n
    BY DEF LogInv
  <2>2. kept \in 1..Len(entries)
    BY <2>1, LogAssumption DEF LogInv, LogAssumption, MaxLogs, Smaller
  <2> HIDE DEF entries, kept
  <2>3. added' = added + 1 /\ size' = size
    BY <1>1 DEF AddCatchupLog
  <2>4. CASE log' = <<>>
    BY <2>3, <2>4 DEF LogInv
  <2>5. CASE log' = SubSeq(entries, Len(entries) - kept + 1, Len(entries))
    <3>1. /\ log' \in Seq(Nat) /\ Len(log') = kept
          /\ \A n \in 1..kept : log'[n] = entries[Len(entries) - kept + n]
      BY <2>1, <2>2, <2>5, SubSeqProperties
    <3>2. added \in Nat
      BY DEF LogInv
    <3>3. ASSUME NEW n \in 1..kept PROVE log'[n] = (added + 1) - kept + n
      <4>1. Len(entries) - kept + n \in 1..Len(entries)
        BY <2>1, <2>2
      <4>2. entries[Len(entries) - kept + n]
              = (added + 1) - Len(entries) + (Len(entries) - kept + n)
        BY <2>1, <4>1
      <4> QED  BY <2>1, <2>2, <3>1, <3>2, <4>2
    <3> QED  BY <2>1, <2>2, <2>3, <3>1, <3>2, <3>3 DEF LogInv
  <2>6. CASE log' = entries
    <3>1. log' \in Seq(Nat) /\ Len(log') = Len(log) + 1
      BY <2>1, <2>6
    <3>2. \A n \in 1..Len(log') : log'[n] = (added + 1) - Len(log') + n
      BY <2>1, <2>6
    <3> QED  BY <2>3, <3>1, <3>2 DEF LogInv
  <2>7. \/ log' = <<>> \/ log' = entries
        \/ log' = SubSeq(entries, Len(entries) - kept + 1, Len(entries))
    BY <1>1, Zenon DEF AddCatchupLog, Trimmed, entries, kept
  <2> QED  BY <2>4, <2>5, <2>6, <2>7
<1>2. CASE RestartResized
  BY <1>2 DEF RestartResized, LogInv
<1>3. CASE UNCHANGED logVars
  BY <1>3 DEF logVars, LogInv
<1> QED  BY <1>1, <1>2, <1>3 DEF LogNext

(* The invariant holds in every reachable state.                           *)
THEOREM SpecLogInv == LogSpec => []LogInv
  BY LogInitInv, LogNextInv, PTL DEF LogSpec

(* loadCatchupLogs shows the requests made last, newest first, without a   *)
(* gap, whatever size the log has had and however addCatchupLog counts.    *)
THEOREM SpecLogIsRecent == LogSpec => []LogIsRecent
<1>1. LogInv => LogIsRecent
  BY LogAssumption
  DEF LogInv, LogIsRecent, LoadCatchupLogs, LogAssumption, MaxLogs, Smaller
<1> QED  BY <1>1, SpecLogInv, PTL

----------------------------------------------------------------------------
(* The time window.  Whatever findProgram and the clocks have come to, the *)
(* programmes read so far bear it out.                                     *)

Readings == Candidates(request)

(* best is the nearest match among the programmes read for this reading of *)
(* the start, or Nothing where none of them matches.                       *)
NearestYet ==
  LET t    == Candidate.start
      Read == 1..(cursor - 1)
  IN  \/ /\ best = Nothing
         /\ \A n \in Read : ~Matches(guide[n], t)
      \/ /\ \E n \in Read : best = guide[n]
         /\ Matches(best, t)
         /\ \A n \in Read : Matches(guide[n], t) =>
              Distance(best.start, t) <= Distance(guide[n].start, t)

(* What resolveCatchupPlayURL makes of the programme found.                *)
Resolution ==
  LET c == Candidate
      q == Quick(request, c.start)
      e == RangeEnd(c.start, c.end, best)
  IN  [status |-> "matched", clock |-> c.clock, program |-> best,
       quick |-> q, start |-> c.start,
       end |-> IF q /\ e > request.now THEN request.now ELSE e]

WindowInv ==
  /\ guide \in Guides /\ request \in Requests
  /\ turn \in 1..(Len(Readings) + 1)
  /\ cursor \in 1..(Len(guide) + 1)
  /\ best \in Programs \cup {Nothing}
  /\ \A k \in 1..(turn - 1) : \A n \in 1..Len(guide) :
       ~Matches(guide[n], Readings[k].start)
  /\ turn > Len(Readings) => best = Nothing
  /\ turn <= Len(Readings) => NearestYet
  /\ \/ answer = [status |-> "pending"]
     \/ answer = [status |-> "refused"] /\ turn > Len(Readings)
     \/ /\ answer = Resolution /\ best # Nothing
        /\ turn <= Len(Readings) /\ cursor = Len(guide) + 1

(* The programmes of a channel are a sequence.                             *)
LEMMA GuidesAreSequences == \A g \in Guides : g \in Seq(Programs)
<1> SUFFICES ASSUME NEW g \in Guides PROVE g \in Seq(Programs)
  OBVIOUS
<1>1. PICK n \in 0..MaxListed : g \in [1..n -> Programs]
  BY DEF Guides
<1>2. n \in Nat
  BY WindowAssumption DEF WindowAssumption
<1> QED  BY <1>1, <1>2

(* No programme is taken for none.                                         *)
LEMMA NothingIsNone == Nothing \notin Programs
  BY WindowAssumption
  DEF WindowAssumption, Nothing, NoTime, Programs, Times

(* A request without a start has no readings, else it has one for each     *)
(* clock its mode allows, local time first.                                *)
LEMMA ReadingsAre ==
  ASSUME NEW req \in Requests
  PROVE  LET R == Candidates(req) IN
           /\ Len(R) = IF req.start = NoTime THEN 0
                       ELSE IF req.mode = "auto" THEN 2 ELSE 1
           /\ \A k \in 1..Len(R) :
                /\ R[k].clock =
                     IF req.mode # "utc" /\ k = 1 THEN "local" ELSE "utc"
                /\ R[k].start = ReadAs(R[k].clock, req.start)
                /\ R[k].end = ReadAs(R[k].clock, req.end)
                /\ R[k].start \in Nat /\ R[k].end \in Int
<1> DEFINE R == Candidates(req)
           clocks == Clocks(req.mode)
<1>1. CASE req.start = NoTime
  BY <1>1 DEF Candidates
<1>2. CASE req.start # NoTime
  <2>1. req.start \in Nat /\ req.end \in Int
    BY <1>2, WindowAssumption DEF Requests, Times, NoTime, WindowAssumption
  <2>2. \A c : ReadAs(c, req.start) \in Nat /\ ReadAs(c, req.end) \in Int
    BY <2>1, WindowAssumption DEF ReadAs, WindowAssumption
  <2>3. req.mode \in {"local", "utc", "auto"}
    BY DEF Requests
  <2>4. clocks = IF req.mode = "auto" THEN <<"local", "utc">> ELSE <<req.mode>>
    BY <2>3 DEF Clocks
  <2>5. R = [n \in DOMAIN clocks |->
               [clock |-> clocks[n], start |-> ReadAs(clocks[n], req.start),
                end |-> ReadAs(clocks[n], req.end)]]
    BY <1>2, Zenon DEF Candidates
  <2> HIDE DEF R, clocks
  <2>6. /\ DOMAIN clocks = 1..Len(clocks) /\ Len(clocks) \in Nat
        /\ Len(clocks) = IF req.mode = "auto" THEN 2 ELSE 1
    <3>1. CASE req.mode = "auto"
      BY <2>4, <3>1
    <3>2. CASE req.mode # "auto"
      BY <2>4, <3>2
    <3> QED  BY <3>1, <3>2
  <2>7. \A k \in 1..Len(clocks) :
          clocks[k] = IF req.mode # "utc" /\ k = 1 THEN "local" ELSE "utc"
    BY <2>3, <2>4, <2>6
  <2>8. Len(R) = Len(clocks)
    BY <2>5, <2>6
  <2>9. ASSUME NEW k \in 1..Len(R)
        PROVE  /\ R[k].clock = clocks[k]
               /\ R[k].start = ReadAs(clocks[k], req.start)
               /\ R[k].end = ReadAs(clocks[k], req.end)
    BY <2>5, <2>6, <2>8, <2>9
  <2> QED  BY <1>2, <2>2, <2>6, <2>7, <2>8, <2>9 DEF R
<1> QED  BY <1>1, <1>2

(* The initial states satisfy the invariant.                               *)
LEMMA WindowInitInv == WindowInit => WindowInv
<1> SUFFICES ASSUME WindowInit PROVE WindowInv
  OBVIOUS
<1>1. /\ guide \in Guides /\ request \in Requests /\ turn = 1 /\ cursor = 1
      /\ best = Nothing /\ answer = [status |-> "pending"]
  BY DEF WindowInit
<1>2. Len(guide) \in Nat /\ Len(Readings) \in Nat
  BY <1>1, GuidesAreSequences, ReadingsAre DEF Readings
<1>3. NearestYet
  BY <1>1 DEF NearestYet
<1> QED  BY <1>1, <1>2, <1>3 DEF WindowInv

(* Every step keeps it: one more programme read leaves the nearest so far, *)
(* and a reading is given up only when no programme matches it.            *)
LEMMA WindowNextInv == WindowInv /\ [WindowNext]_windowVars => WindowInv'
<1> SUFFICES ASSUME WindowInv, [WindowNext]_windowVars PROVE WindowInv'
  OBVIOUS
<1>1. /\ guide \in Seq(Programs) /\ Len(guide) \in Nat /\ Len(Readings) \in Nat
      /\ turn \in Nat /\ cursor \in Nat
  BY GuidesAreSequences, ReadingsAre DEF WindowInv, Readings
<1>2. CASE Scan
  <2> DEFINE p == guide[cursor]
             t == Candidate.start
  <2>1. /\ turn <= Len(Readings) /\ cursor <= Len(guide)
        /\ answer.status = "pending"
    BY <1>2 DEF Scan, Trying, Readings
  <2>2. UNCHANGED <<guide, request, turn, answer>> /\ cursor' = cursor + 1
    BY <1>2 DEF Scan
  <2>3. Readings' = Readings /\ Candidate' = Candidate
    BY <2>2 DEF Readings, Candidate
  <2>4. p \in Programs
    BY <1>1, <2>1 DEF WindowInv
  <2>5. t \in Nat
    BY <2>1, ReadingsAre DEF WindowInv, Readings, Candidate
  <2>6. best' = IF /\ Matches(p, t)
                   /\ best = Nothing \/ Distance(p.start, t) < Distance(best.start, t)
                THEN p ELSE best
    BY <1>2 DEF Scan
  <2>7. \A q \in Programs : Distance(q.start, t) \in Nat
    BY <2>5, WindowAssumption
    DEF Distance, Programs, Times, WindowAssumption
  <2>8. (1..(cursor' - 1)) = (1..(cursor - 1)) \cup {cursor}
    BY <2>2 DEF WindowInv
  <2>9. NearestYet
    BY <2>1 DEF WindowInv
  <2>10. NearestYet'
    <3> HIDE DEF p, t
    <3>1. guide' = guide /\ t' = t
      BY <2>2, <2>3 DEF t
    <3>2. \A n \in 1..(cursor - 1) : guide[n] \in Programs
      BY <1>1, <2>1
    <3>3. CASE Matches(p, t) /\ best = Nothing
      BY <2>4, <2>6, <2>7, <2>8, <2>9, <3>1, <3>2, <3>3, NothingIsNone
      DEF NearestYet, p, t
    <3>4. CASE Matches(p, t) /\ best # Nothing
      BY <2>4, <2>6, <2>7, <2>8, <2>9, <3>1, <3>2, <3>4, NothingIsNone
      DEF NearestYet, p, t
    <3>5. CASE ~Matches(p, t)
      BY <2>6, <2>8, <2>9, <3>1, <3>5 DEF NearestYet, p, t
    <3> QED  BY <3>3, <3>4, <3>5
  <2>11. best' \in Programs \cup {Nothing}
    BY <2>4, <2>6 DEF WindowInv
  <2>12. answer = [status |-> "pending"]
    BY <2>1 DEF WindowInv, Resolution
  <2>13. cursor' \in 1..(Len(guide') + 1)
    BY <1>1, <2>1, <2>2
  <2> QED  BY <2>1, <2>2, <2>3, <2>10, <2>11, <2>12, <2>13 DEF WindowInv
<1>3. CASE TryNext
  <2>1. /\ turn <= Len(Readings) /\ cursor > Len(guide) /\ best = Nothing
        /\ answer.status = "pending"
    BY <1>3 DEF TryNext, Trying, Readings
  <2>2. /\ UNCHANGED <<guide, request, best, answer>>
        /\ turn' = turn + 1 /\ cursor' = 1
    BY <1>3 DEF TryNext
  <2>3. Readings' = Readings
    BY <2>2 DEF Readings
  <2>4. cursor - 1 = Len(guide)
    BY <1>1, <2>1 DEF WindowInv
  <2>5. \A n \in 1..Len(guide) : ~Matches(guide[n], Readings[turn].start)
    <3>1. NearestYet
      BY <2>1 DEF WindowInv
    <3>2. \A n \in 1..Len(guide) : guide[n] \in Programs
      BY <1>1
    <3> QED
      BY <2>1, <2>4, <3>1, <3>2, NothingIsNone
      DEF NearestYet, Candidate, Readings
  <2>6. (1..(turn' - 1)) = (1..(turn - 1)) \cup {turn}
    BY <2>2 DEF WindowInv
  <2>7. NearestYet'
    BY <2>1, <2>2 DEF NearestYet
  <2>8. answer = [status |-> "pending"]
    BY <2>1 DEF WindowInv, Resolution
  <2>9. turn' \in 1..(Len(Readings) + 1) /\ cursor' \in 1..(Len(guide) + 1)
    BY <1>1, <2>1, <2>2
  <2> QED
    BY <2>1, <2>2, <2>3, <2>5, <2>6, <2>7, <2>8, <2>9 DEF WindowInv
<1>4. CASE Refuse
  <2>1. /\ UNCHANGED <<guide, request, turn, cursor, best>>
        /\ answer' = [status |-> "refused"] /\ turn > Len(Readings)
    BY <1>4 DEF Refuse, Readings
  <2>2. Readings' = Readings /\ ~(turn <= Len(Readings))
    BY <1>1, <2>1 DEF Readings
  <2> QED  BY <2>1, <2>2 DEF WindowInv
<1>5. CASE Resolve
  <2>1. /\ UNCHANGED <<guide, request, turn, cursor, best>>
        /\ turn <= Len(Readings) /\ cursor > Len(guide) /\ best # Nothing
    BY <1>5 DEF Resolve, Trying, Readings
  <2>2. answer' = Resolution
    BY <1>5 DEF Resolve, Resolution
  <2>3. Resolution' = Resolution /\ Readings' = Readings /\ NearestYet' = NearestYet
    BY <2>1 DEF Resolution, Readings, NearestYet, Candidate
  <2>4. cursor = Len(guide) + 1
    BY <1>1, <2>1 DEF WindowInv
  <2> QED  BY <2>1, <2>2, <2>3, <2>4 DEF WindowInv
<1>6. CASE UNCHANGED windowVars
  <2>1. UNCHANGED <<guide, request, turn, cursor, best, answer>>
    BY <1>6 DEF windowVars
  <2>2. Resolution' = Resolution /\ Readings' = Readings /\ NearestYet' = NearestYet
    BY <2>1 DEF Resolution, Readings, NearestYet, Candidate
  <2> QED  BY <2>1, <2>2 DEF WindowInv
<1> QED  BY <1>2, <1>3, <1>4, <1>5, <1>6 DEF WindowNext

(* The invariant holds in every reachable state.                           *)
THEOREM SpecWindowInv == WindowSpec => []WindowInv
  BY WindowInitInv, WindowNextInv, PTL DEF WindowSpec

(* What is known once a request has been resolved.                         *)
LEMMA MatchedFacts ==
  ASSUME WindowInv, Matched
  PROVE  /\ turn \in 1..Len(Readings) /\ Candidate = Readings[turn]
         /\ answer.program = best /\ best \in Programs
         /\ answer.start = Candidate.start /\ answer.clock = Candidate.clock
         /\ answer.quick = Quick(request, answer.start)
         /\ LET e == RangeEnd(answer.start, Candidate.end, best)
            IN  answer.end = IF answer.quick /\ e > request.now
                             THEN request.now ELSE e
         /\ Matches(best, answer.start)
         /\ \E n \in 1..Len(guide) : best = guide[n]
         /\ \A n \in 1..Len(guide) : Matches(guide[n], answer.start) =>
              Distance(best.start, answer.start)
                <= Distance(guide[n].start, answer.start)
<1>1. Len(guide) \in Nat /\ Len(Readings) \in Nat
  BY GuidesAreSequences, ReadingsAre DEF WindowInv, Readings
<1>2. /\ answer = Resolution /\ best # Nothing
      /\ turn <= Len(Readings) /\ cursor = Len(guide) + 1
  BY DEF WindowInv, Matched
<1>3. answer.start = Candidate.start /\ answer.program = best
  BY <1>2 DEF Resolution
<1>4. NearestYet /\ cursor - 1 = Len(guide)
  BY <1>1, <1>2 DEF WindowInv
<1>5. /\ Matches(best, answer.start)
      /\ \E n \in 1..Len(guide) : best = guide[n]
      /\ \A n \in 1..Len(guide) : Matches(guide[n], answer.start) =>
           Distance(best.start, answer.start)
             <= Distance(guide[n].start, answer.start)
  BY <1>2, <1>3, <1>4 DEF NearestYet
<1>6. turn \in 1..Len(Readings) /\ Candidate = Readings[turn] /\ best \in Programs
  BY <1>1, <1>2 DEF WindowInv, Candidate, Readings
<1>7. /\ answer.clock = Candidate.clock
      /\ answer.quick = Quick(request, answer.start)
      /\ LET e == RangeEnd(answer.start, Candidate.end, best)
         IN  answer.end = IF answer.quick /\ e > request.now
                          THEN request.now ELSE e
  BY <1>2, <1>3 DEF Resolution
<1> QED  BY <1>3, <1>5, <1>6, <1>7

(* findProgram's programme matches the start, and none that does starts    *)
(* nearer.                                                                 *)
THEOREM SpecNearestProgram == WindowSpec => []NearestProgram
<1>1. ASSUME WindowInv PROVE NearestProgram
  BY <1>1, MatchedFacts DEF NearestProgram, Listed
<1> QED  BY <1>1, SpecWindowInv, PTL

(* resolveCatchupPlayURL refuses only what no allowed clock matches, and   *)
(* believes UTC only where asked for or where local time gives nothing.    *)
THEOREM SpecClockRespected == WindowSpec => []ClockRespected
<1>1. ASSUME WindowInv PROVE ClockRespected
  <2> DEFINE Hit(clock) ==
               /\ request.start # NoTime
               /\ \E p \in Listed : Matches(p, ReadAs(clock, request.start))
             Finds(k) == \E n \in 1..Len(guide) : Matches(guide[n], Readings[k].start)
  <2>1. SUFFICES ASSUME Answered
        PROVE  /\ Matched <=>
                    \/ request.mode # "utc" /\ Hit("local")
                    \/ request.mode # "local" /\ Hit("utc")
               /\ Matched => answer.clock =
                    IF request.mode # "utc" /\ Hit("local") THEN "local" ELSE "utc"
    BY DEF ClockRespected
  <2>2. request \in Requests /\ request.mode \in {"local", "utc", "auto"}
    BY <1>1 DEF WindowInv, Requests
  <2>3. /\ Len(Readings) = IF request.start = NoTime THEN 0
                           ELSE IF request.mode = "auto" THEN 2 ELSE 1
        /\ \A k \in 1..Len(Readings) :
             /\ Readings[k].clock =
                  IF request.mode # "utc" /\ k = 1 THEN "local" ELSE "utc"
             /\ Readings[k].start = ReadAs(Readings[k].clock, request.start)
    BY <2>2, ReadingsAre DEF Readings
  <2>4. \A k \in 1..Len(Readings) : Finds(k) <=> Hit(Readings[k].clock)
    BY <2>3 DEF Listed
  <2>5. request.start = NoTime => ~Hit("local") /\ ~Hit("utc")
    OBVIOUS
  <2>6. \A k \in 1..(turn - 1) : ~Finds(k)
    BY <1>1 DEF WindowInv
  <2>7. turn \in Nat \ {0} /\ turn <= Len(Readings) + 1
    BY <1>1, <2>3 DEF WindowInv
  <2>8. Matched => /\ turn <= Len(Readings) /\ Finds(turn)
                   /\ answer.clock = Readings[turn].clock
    BY <1>1, MatchedFacts
  <2>9. ~Matched => turn > Len(Readings)
    BY <1>1, <2>1 DEF WindowInv, Answered, Matched, Resolution
  <2> HIDE DEF Hit, Finds
  <2>10. CASE request.start = NoTime
    BY <2>3, <2>5, <2>7, <2>8, <2>10
  <2>11. CASE request.start # NoTime /\ request.mode = "auto"
    <3>1. /\ Len(Readings) = 2 /\ Readings[1].clock = "local"
          /\ Readings[2].clock = "utc"
      BY <2>3, <2>11
    <3> QED
      BY <2>4, <2>6, <2>7, <2>8, <2>9, <2>11, <3>1
  <2>12. CASE request.start # NoTime /\ request.mode # "auto"
    <3>1. /\ Len(Readings) = 1
          /\ Readings[1].clock = request.mode
      BY <2>2, <2>3, <2>12
    <3> QED
      BY <2>2, <2>4, <2>6, <2>7, <2>8, <2>9, <2>12, <3>1
  <2> QED  BY <2>10, <2>11, <2>12
<1> QED  BY <1>1, SpecWindowInv, PTL

(* Only a live start that is not past, and a start within the tolerance    *)
(* after the programme's end, make a range run backwards.                  *)
THEOREM SpecForwardRange == WindowSpec => []ForwardRange
<1>1. ASSUME WindowInv PROVE ForwardRange
  <2>1. SUFFICES ASSUME Matched, answer.end <= answer.start
        PROVE  \/ answer.quick /\ answer.start >= request.now
               \/ /\ answer.start >= answer.program.end
                  /\ request.end <= request.start
    BY DEF ForwardRange
  <2> DEFINE s == answer.start
             e == RangeEnd(s, Candidate.end, best)
  <2>2. /\ turn \in 1..Len(Readings) /\ Candidate = Readings[turn]
        /\ s = Candidate.start /\ answer.program = best /\ best \in Programs
        /\ answer.end = IF answer.quick /\ e > request.now
                        THEN request.now ELSE e
    BY <1>1, <2>1, MatchedFacts
  <2>3. /\ request.start \in Nat \/ request.start = NoTime
        /\ request.end \in Nat \/ request.end = NoTime
        /\ request.now \in Nat
    BY <1>1, WindowAssumption
    DEF WindowInv, Requests, Times, WindowAssumption
  <2>4. /\ request.start # NoTime /\ s \in Nat /\ Candidate.end \in Int
        /\ s = ReadAs(Candidate.clock, request.start)
        /\ Candidate.end = ReadAs(Candidate.clock, request.end)
    BY <1>1, <2>2, ReadingsAre DEF WindowInv, Readings
  <2>5. best.end \in Nat
    BY <2>2, WindowAssumption DEF Programs, Times, WindowAssumption
  <2>6. CASE answer.quick /\ e > request.now
    BY <2>1, <2>2, <2>6
  <2>7. CASE ~(answer.quick /\ e > request.now)
    <3>1. e <= s
      BY <2>1, <2>2, <2>7
    <3>2. e = best.end /\ (Candidate.end = NoTime \/ Candidate.end <= s)
      BY <2>4, <2>5, <3>1 DEF RangeEnd, NoTime
    <3>3. request.end <= request.start
      BY <2>3, <2>4, <3>2, WindowAssumption
      DEF ReadAs, NoTime, WindowAssumption
    <3> QED  BY <2>2, <3>1, <3>2, <3>3
  <2> QED  BY <2>6, <2>7
<1> QED  BY <1>1, SpecWindowInv, PTL

(* resolveCatchupPlayURL asks the timeshift only for what it still holds,  *)
(* and no further than now.                                                *)
THEOREM SpecTimeshiftHolds == WindowSpec => []TimeshiftHolds
<1>1. ASSUME WindowInv PROVE TimeshiftHolds
  <2>1. SUFFICES ASSUME Matched, answer.quick
        PROVE  /\ answer.start + Length > request.now
               /\ answer.end <= request.now
    BY DEF TimeshiftHolds
  <2> DEFINE e == RangeEnd(answer.start, Candidate.end, best)
  <2>2. /\ turn \in 1..Len(Readings) /\ Candidate = Readings[turn]
        /\ answer.start = Candidate.start /\ best \in Programs
        /\ answer.quick = Quick(request, answer.start)
        /\ answer.end = IF answer.quick /\ e > request.now
                        THEN request.now ELSE e
    BY <1>1, <2>1, MatchedFacts
  <2>3. /\ answer.start \in Nat /\ Candidate.end \in Int
        /\ best.end \in Nat /\ request.now \in Nat
    BY <1>1, <2>2, ReadingsAre, WindowAssumption
    DEF WindowInv, Readings, Requests, Programs, Times, WindowAssumption
  <2>4. e \in Int
    BY <2>3 DEF RangeEnd
  <2>5. answer.end <= request.now
    BY <2>1, <2>2, <2>3, <2>4
  <2>6. answer.start > request.now - Window
    BY <2>1, <2>2 DEF Quick
  <2>7. Window \in Nat /\ Window <= Length
    BY WindowAssumption DEF Window, Positive, WindowAssumption
  <2> QED  BY <2>3, <2>5, <2>6, <2>7, WindowAssumption DEF WindowAssumption
<1> QED  BY <1>1, SpecWindowInv, PTL

----------------------------------------------------------------------------
(* The comments of the configuration.  The pass of stripJSONComments keeps *)
(* in step with what each byte of the file is in.                          *)

(* What is kept beside the text is what its bytes lead to.                 *)
Lexed ==
  /\ text \in Seq(Bytes) /\ context \in Seq(Contexts)
  /\ Len(context) = Len(text) + 1
  /\ context[1] = "json"
  /\ \A n \in 1..Len(text) : context[n + 1] = After(context[n], text[n])

(* Between two bytes the flags tell a string, and the pass is not inside a *)
(* comment: at the newline after one at most.                              *)
InPlace ==
  LET c == context[pos]
  IN  /\ inString <=> c \in {"string", "escape"}
      /\ escaped <=> c = "escape"
      /\ c \notin {"block", "star"}
      /\ c = "line" /\ pos <= Len(text) => text[pos] = "newline"
      /\ c = "slash" /\ pos <= Len(text) => text[pos] \notin {"slash", "star"}

(* Of the bytes before pos those outside comments have been copied.        *)
CopiedYet ==
  /\ {copied[m] : m \in 1..Len(copied)}
       = {n \in 1..Len(text) : n < pos /\ ~InComment(n)}
  /\ \A m, n \in 1..Len(copied) : m < n => copied[m] < copied[n]

StripInv ==
  /\ StripTypeOK /\ Lexed /\ CopiedYet
  /\ pos = 0 => ~inString /\ ~escaped /\ copied = <<>>
  /\ pos \in 1..(Len(text) + 1) => InPlace
  /\ pos > Len(text) + 1 =>
       /\ context[Len(text) + 1] \in {"block", "star"}
       /\ ~inString /\ ~escaped

(* A least number.                                                         *)
LEMMA MinIsLeast ==
  ASSUME NEW T, T \subseteq Nat, T # {}
  PROVE  Min(T) \in T /\ \A n \in T : Min(T) <= n
  BY Least DEF Min

(* A byte leads to a context.                                              *)
LEMMA AfterIsContext ==
  \A c \in Contexts, byte \in Bytes : After(c, byte) \in Contexts
  BY DEF Contexts, Bytes, After

(* A line comment lasts until a newline.                                   *)
LEMMA LineRuns ==
  ASSUME Lexed, NEW p \in Nat \ {0}, NEW q \in Nat, q <= Len(text) + 1,
         context[p] = "line", \A k \in p..(q - 1) : text[k] # "newline"
  PROVE  \A k \in p..q : context[k] = "line"
<1> DEFINE Out == {k \in p..q : context[k] # "line"}
<1>1. SUFFICES ASSUME Out # {} PROVE FALSE
  OBVIOUS
<1>2. PICK m \in Out : \A k \in Out : m <= k
  <2>1. Out \subseteq Nat
    OBVIOUS
  <2> QED  BY <1>1, <2>1, Least
<1>3. m > p /\ m - 1 \in p..(q - 1) /\ context[m - 1] = "line"
  BY <1>2
<1>4. Len(text) \in Nat /\ m - 1 \in 1..Len(text)
  BY <1>3 DEF Lexed
<1>5. context[m] = After("line", text[m - 1])
  <2> DEFINE j == m - 1
  <2>1. j \in 1..Len(text) /\ j + 1 = m /\ context[j] = "line"
    BY <1>2, <1>3, <1>4
  <2> HIDE DEF j
  <2>2. context[j + 1] = After(context[j], text[j])
    BY <2>1 DEF Lexed
  <2>3. j = m - 1
    BY DEF j
  <2> QED  BY <2>1, <2>2, <2>3
<1>6. context[m] = "line"
  BY <1>3, <1>5 DEF After
<1> QED  BY <1>2, <1>6

(* A block comment lasts until a slash right after a star.                 *)
LEMMA BlockRuns ==
  ASSUME Lexed, NEW p \in Nat \ {0}, NEW q \in Nat, q <= Len(text) + 1,
         context[p] = "block",
         \A k \in p..(q - 2) : ~(text[k] = "star" /\ text[k + 1] = "slash")
  PROVE  \A k \in p..q : context[k] \in {"block", "star"}
<1> DEFINE Out == {k \in p..q : context[k] \notin {"block", "star"}}
<1>1. SUFFICES ASSUME Out # {} PROVE FALSE
  OBVIOUS
<1>2. PICK m \in Out : \A k \in Out : m <= k
  <2>1. Out \subseteq Nat
    OBVIOUS
  <2> QED  BY <1>1, <2>1, Least
<1>3. m > p /\ m - 1 \in p..(q - 1) /\ context[m - 1] \in {"block", "star"}
  BY <1>2
<1>4. Len(text) \in Nat /\ m - 1 \in 1..Len(text)
  BY <1>3 DEF Lexed
<1>5. context[m] = After(context[m - 1], text[m - 1])
  BY <1>2, <1>3, <1>4 DEF Lexed
<1>6. context[m - 1] = "star" /\ text[m - 1] = "slash"
  BY <1>2, <1>3, <1>5 DEF After
<1>7. m - 1 > p /\ m - 2 \in p..(q - 2) /\ context[m - 2] \in {"block", "star"}
  BY <1>2, <1>3, <1>6
<1>8. context[m - 1] = After(context[m - 2], text[m - 2])
  BY <1>4, <1>7 DEF Lexed
<1>9. text[m - 2] = "star"
  BY <1>6, <1>7, <1>8 DEF After
<1> QED  BY <1>6, <1>7, <1>9

(* What each context becomes.                                              *)
LEMMA AfterLeads ==
  ASSUME NEW byte \in Bytes
  PROVE  /\ After("escape", byte) = "string"
         /\ After("string", byte) = IF byte = "quote" THEN "json"
                                    ELSE IF byte = "escape" THEN "escape"
                                    ELSE "string"
         /\ After("slash", "slash") = "line"
         /\ After("slash", "star") = "block"
         /\ byte \notin {"slash", "star", "quote"} =>
              After("slash", byte) = "json"
         /\ After("json", "slash") = "slash"
         /\ \A c \in {"json", "slash"} : After(c, "quote") = "string"
         /\ byte \notin {"slash", "quote"} => After("json", byte) = "json"
         /\ After("line", "newline") = "json"
         /\ \A c \in {"block", "star"} : After(c, "star") = "star"
         /\ After("star", "slash") = "json"
<1>1. After("escape", byte) = "string"
  BY DEF After
<1>2. After("string", "quote") = "json"
  BY DEF After
<1>3. After("string", "escape") = "escape"
  BY DEF After
<1>4. byte \notin {"quote", "escape"} => After("string", byte) = "string"
  BY DEF After
<1>5. After("slash", "slash") = "line"
  BY DEF After
<1>6. After("slash", "star") = "block"
  BY DEF After
<1>7. byte \notin {"slash", "star", "quote"} => After("slash", byte) = "json"
  BY DEF After
<1>8. After("json", "quote") = "string"
  BY DEF After
<1>9. After("slash", "quote") = "string"
  BY DEF After
<1>10. After("json", "slash") = "slash"
  BY DEF After
<1>11. byte \notin {"slash", "quote"} => After("json", byte) = "json"
  BY DEF After
<1>12. After("line", "newline") = "json"
  BY DEF After
<1>13. After("star", "slash") = "json"
  BY DEF After
<1>14. After("block", "star") = "star"
  BY DEF After
<1>15. After("star", "star") = "star"
  BY DEF After
<1> QED  BY <1>1, <1>2, <1>3, <1>4, <1>5, <1>6, <1>7, <1>8,
            <1>9, <1>10, <1>11, <1>12, <1>13, <1>14, <1>15

(* The initial states satisfy the invariant.                               *)
LEMMA StripInitInv == StripInit => StripInv
<1> SUFFICES ASSUME StripInit PROVE StripInv
  OBVIOUS
<1>1. StripTypeOK
  <2>1. text \in Seq(Bytes) /\ copied \in Seq(Nat)
    BY DEF StripInit
  <2>2. "json" \in Contexts
    BY DEF Contexts
  <2>3. context \in Seq(Contexts)
    BY <2>2 DEF StripInit
  <2> QED  BY <2>1, <2>3 DEF StripInit, StripTypeOK
<1>2. Lexed
  BY <1>1 DEF StripInit, StripTypeOK, Lexed
<1>3. CopiedYet
  BY DEF StripInit, CopiedYet
<1> QED  BY <1>1, <1>2, <1>3 DEF StripInit, StripInv

(* One more byte written.                                                  *)
LEMMA WriteInv ==
  ASSUME StripInv, NEW byte \in Bytes, Write(byte)
  PROVE  StripInv'
<1>1. /\ pos = 0 /\ text' = Append(text, byte)
      /\ context' = Append(context, After(context[Len(context)], byte))
      /\ pos' = pos /\ inString' = inString /\ escaped' = escaped
      /\ copied' = copied
  BY DEF Write
<1>2. /\ text \in Seq(Bytes) /\ context \in Seq(Contexts)
      /\ Len(context) = Len(text) + 1 /\ context[1] = "json"
      /\ \A n \in 1..Len(text) : context[n + 1] = After(context[n], text[n])
  BY DEF StripInv, Lexed
<1>3. Len(text) \in Nat /\ context[Len(context)] \in Contexts
  BY <1>2
<1>4. After(context[Len(context)], byte) \in Contexts
  BY <1>3, AfterIsContext
<1>5. Lexed'
  <2>1. /\ text' \in Seq(Bytes) /\ Len(text') = Len(text) + 1
        /\ \A n \in 1..Len(text) : text'[n] = text[n]
        /\ text'[Len(text) + 1] = byte
    BY <1>1, <1>2
  <2>2. /\ context' \in Seq(Contexts) /\ Len(context') = Len(context) + 1
        /\ \A n \in 1..Len(context) : context'[n] = context[n]
        /\ context'[Len(context) + 1] = After(context[Len(context)], byte)
    BY <1>1, <1>2, <1>4
  <2>3. context'[1] = "json"
    BY <1>2, <1>3, <2>2
  <2>4. ASSUME NEW n \in 1..Len(text')
        PROVE  context'[n + 1] = After(context'[n], text'[n])
    <3>1. CASE n \in 1..Len(text)
      BY <1>2, <1>3, <2>1, <2>2, <3>1
    <3>2. CASE n = Len(text) + 1
      BY <1>2, <1>3, <2>1, <2>2, <3>2
    <3> QED  BY <1>3, <2>1, <3>1, <3>2
  <2> QED  BY <1>2, <2>1, <2>2, <2>3, <2>4 DEF Lexed
<1>6. StripTypeOK'
  BY <1>1, <1>5 DEF StripInv, StripTypeOK, Lexed
<1>7. copied' = <<>> /\ ~inString' /\ ~escaped' /\ pos' = 0 /\ Len(text') \in Nat
  BY <1>1, <1>5 DEF StripInv, Lexed
<1>8. CopiedYet'
  BY <1>7 DEF CopiedYet
<1> QED  BY <1>5, <1>6, <1>7, <1>8 DEF StripInv

(* A byte outside comments is copied.                                      *)
LEMMA CopyInv ==
  ASSUME StripInv, pos \in 1..Len(text), UNCHANGED <<text, context>>,
         ~InComment(pos), Copy
  PROVE  CopiedYet'
<1>1. /\ copied \in Seq(Nat) /\ pos \in Nat /\ CopiedYet
      /\ copied' = Append(copied, pos) /\ pos' = pos + 1
  BY DEF StripInv, StripTypeOK, Copy
<1>2. \A n : InComment(n)' <=> InComment(n)
  BY DEF InComment
<1>3. \A m \in 1..Len(copied) : copied[m] < pos
  BY <1>1 DEF CopiedYet
<1>4. {copied'[m] : m \in 1..Len(copied')}
        = {copied[m] : m \in 1..Len(copied)} \cup {pos}
  BY <1>1, AppendElements
<1>5. {n \in 1..Len(text) : n < pos + 1 /\ ~InComment(n)}
        = {n \in 1..Len(text) : n < pos /\ ~InComment(n)} \cup {pos}
  BY <1>1
<1>6. \A m, n \in 1..Len(copied') : m < n => copied'[m] < copied'[n]
  <2>1. \A m, n \in 1..Len(copied) : m < n => copied[m] < copied[n]
    BY <1>1 DEF CopiedYet
  <2>2. /\ Len(copied') = Len(copied) + 1 /\ copied'[Len(copied) + 1] = pos
        /\ \A m \in 1..Len(copied) : copied'[m] = copied[m]
    BY <1>1
  <2>3. Len(copied) \in Nat
    BY <1>1
  <2> QED  BY <1>3, <2>1, <2>2, <2>3
<1> QED  BY <1>1, <1>2, <1>4, <1>5, <1>6 DEF CopiedYet

(* Bytes of a comment that are skipped.                                    *)
LEMMA SkipInv ==
  ASSUME StripInv, UNCHANGED <<text, context, copied>>,
         pos' \in Nat, pos <= pos',
         \A n \in 1..Len(text) : pos <= n /\ n < pos' => InComment(n)
  PROVE  CopiedYet'
<1>1. \A n : InComment(n)' <=> InComment(n)
  BY DEF InComment
<1>2. pos \in Nat /\ CopiedYet
  BY DEF StripInv, StripTypeOK
<1>3. {n \in 1..Len(text) : n < pos' /\ ~InComment(n)}
        = {n \in 1..Len(text) : n < pos /\ ~InComment(n)}
  BY <1>2
<1> QED  BY <1>1, <1>2, <1>3 DEF CopiedYet

(* What a step over one byte has to show, where the text stays.            *)
LEMMA StepInv ==
  ASSUME StripInv, pos \in 1..Len(text), UNCHANGED <<text, context>>,
         pos' \in Nat \ {0}, StripTypeOK', CopiedYet',
         pos' <= Len(text) + 1 => InPlace',
         pos' > Len(text) + 1 =>
           /\ context[Len(text) + 1] \in {"block", "star"}
           /\ ~inString' /\ ~escaped'
  PROVE  StripInv'
<1>1. Lexed'
  BY DEF StripInv, Lexed
<1>2. Len(text') = Len(text) /\ Len(text) \in Nat
  BY DEF StripInv, Lexed
<1> QED  BY <1>1, <1>2 DEF StripInv

(* The byte after the one in place is in what this one leads to.           *)
LEMMA Place ==
  ASSUME StripInv, pos \in 1..Len(text)
  PROVE  /\ pos \in Nat /\ Len(text) \in Nat
         /\ text[pos] \in Bytes /\ context[pos] \in Contexts
         /\ context[pos + 1] = After(context[pos], text[pos])
         /\ InPlace
<1>1. Len(text) \in Nat /\ pos \in 1..(Len(text) + 1)
  BY DEF StripInv, Lexed
<1>2. /\ text[pos] \in Bytes /\ context[pos] \in Contexts
      /\ context[pos + 1] = After(context[pos], text[pos])
  BY <1>1 DEF StripInv, Lexed
<1> QED  BY <1>1, <1>2 DEF StripInv

(* A byte in a string: a quote ends it, unless it is escaped.              *)
LEMMA InStringInv == ASSUME StripInv, InString PROVE StripInv'
<1>1. /\ pos \in 1..Len(text) /\ inString /\ Copy
      /\ pos' = pos + 1 /\ text' = text /\ context' = context
      /\ escaped' = (~escaped /\ text[pos] = "escape")
      /\ inString' = (escaped \/ text[pos] # "quote")
  BY DEF InString, Reading, Here, Copy, StripInv, StripTypeOK, Lexed
<1>2. /\ pos \in Nat /\ Len(text) \in Nat /\ text[pos] \in Bytes
      /\ context[pos + 1] = After(context[pos], text[pos])
      /\ InPlace
  BY <1>1, Place
<1>3. /\ context[pos] \in {"string", "escape"}
      /\ escaped <=> context[pos] = "escape"
  BY <1>1, <1>2 DEF InPlace
<1>4. context[pos + 1] \in {"string", "escape", "json"}
  BY <1>2, <1>3, AfterLeads
<1>5. CopiedYet'
  <2>1. ~InComment(pos)
    BY <1>3, <1>4 DEF InComment
  <2> QED  BY <1>1, <2>1, CopyInv
<1>6. InPlace'
  <2>1. /\ inString' <=> context[pos + 1] \in {"string", "escape"}
        /\ escaped' <=> context[pos + 1] = "escape"
    <3>1. CASE context[pos] = "escape"
      <4>1. context[pos + 1] = "string"
        BY <1>2, <3>1, AfterLeads
      <4>2. inString' /\ ~escaped'
        BY <1>1, <1>3, <3>1
      <4> QED  BY <4>1, <4>2
    <3>2. CASE context[pos] = "string" /\ text[pos] = "quote"
      <4>1. context[pos + 1] = "json"
        BY <1>2, <3>2, AfterLeads
      <4>2. ~inString' /\ ~escaped'
        BY <1>1, <1>3, <3>2
      <4> QED  BY <4>1, <4>2
    <3>3. CASE context[pos] = "string" /\ text[pos] = "escape"
      <4>1. context[pos + 1] = "escape"
        BY <1>2, <3>3, AfterLeads
      <4>2. inString' /\ escaped'
        BY <1>1, <1>3, <3>3
      <4> QED  BY <4>1, <4>2
    <3>4. CASE context[pos] = "string" /\ text[pos] \notin {"quote", "escape"}
      <4>1. context[pos + 1] = "string"
        BY <1>2, <3>4, AfterLeads
      <4>2. inString' /\ ~escaped'
        BY <1>1, <1>3, <3>4
      <4> QED  BY <4>1, <4>2
    <3> QED  BY <1>3, <3>1, <3>2, <3>3, <3>4
  <2> QED  BY <1>1, <1>4, <2>1 DEF InPlace
<1>7. StripTypeOK'
  BY <1>1, <1>2 DEF StripInv, StripTypeOK, Copy
<1> QED  BY <1>1, <1>2, <1>5, <1>6, <1>7, StepInv

(* A quote outside comments begins a string.                               *)
LEMMA QuoteInv == ASSUME StripInv, Quote PROVE StripInv'
<1>1. /\ pos \in 1..Len(text) /\ ~inString /\ Copy /\ text[pos] = "quote"
      /\ pos' = pos + 1 /\ text' = text /\ context' = context
      /\ escaped' = escaped /\ inString' = TRUE
  BY DEF Quote, Reading, Here, Copy, StripInv, StripTypeOK, Lexed
<1>2. /\ pos \in Nat /\ Len(text) \in Nat /\ context[pos] \in Contexts
      /\ context[pos + 1] = After(context[pos], text[pos])
      /\ InPlace
  BY <1>1, Place
<1>3. context[pos] \in {"json", "slash"} /\ ~escaped
  BY <1>1, <1>2 DEF InPlace, Contexts
<1>4. context[pos + 1] = "string"
  BY <1>1, <1>2, <1>3, AfterLeads DEF Bytes
<1>5. CopiedYet'
  <2>1. ~InComment(pos)
    BY <1>1, <1>3, <1>4 DEF InComment
  <2> QED  BY <1>1, <2>1, CopyInv
<1>6. InPlace'
  BY <1>1, <1>3, <1>4 DEF InPlace
<1>7. StripTypeOK'
  BY <1>1, <1>2 DEF StripInv, StripTypeOK, Copy
<1> QED  BY <1>1, <1>2, <1>5, <1>6, <1>7, StepInv

(* A byte of JSON outside strings.                                         *)
LEMMA PlainInv == ASSUME StripInv, Plain PROVE StripInv'
<1>1. /\ pos \in 1..Len(text) /\ ~inString /\ Copy /\ text[pos] # "quote"
      /\ pos' = pos + 1 /\ text' = text /\ context' = context
      /\ escaped' = escaped /\ inString' = inString
      /\ text[pos] = "slash" /\ pos < Len(text) =>
           text[pos + 1] \notin {"slash", "star"}
  BY DEF Plain, Reading, Here, Follows, Copy, StripInv, StripTypeOK, Lexed
<1>2. /\ pos \in Nat /\ Len(text) \in Nat /\ context[pos] \in Contexts
      /\ text[pos] \in Bytes
      /\ context[pos + 1] = After(context[pos], text[pos])
      /\ InPlace
  BY <1>1, Place
<1>3. /\ context[pos] \in {"json", "slash", "line"} /\ ~escaped
      /\ context[pos] = "slash" => text[pos] \notin {"slash", "star"}
      /\ context[pos] = "line" => text[pos] = "newline"
  BY <1>1, <1>2 DEF InPlace, Contexts
<1>4. context[pos + 1] = IF context[pos] = "json" /\ text[pos] = "slash"
                         THEN "slash" ELSE "json"
  BY <1>1, <1>2, <1>3, AfterLeads
<1>5. CopiedYet'
  <2>1. ~InComment(pos)
    BY <1>1, <1>3, <1>4 DEF InComment
  <2> QED  BY <1>1, <2>1, CopyInv
<1>6. InPlace'
  BY <1>1, <1>2, <1>3, <1>4 DEF InPlace
<1>7. StripTypeOK'
  BY <1>1, <1>2 DEF StripInv, StripTypeOK, Copy
<1> QED  BY <1>1, <1>2, <1>5, <1>6, <1>7, StepInv

(* Where a comment begins, its two bytes lead from JSON into it.           *)
LEMMA CommentBegins ==
  ASSUME StripInv, pos \in 1..(Len(text) - 1), ~inString,
         text[pos] = "slash"
  PROVE  /\ ~escaped /\ context[pos + 1] = "slash"
         /\ text[pos + 1] = "slash" => context[pos + 2] = "line"
         /\ text[pos + 1] = "star" => context[pos + 2] = "block"
<1>1. Len(text) \in Nat /\ pos \in Nat /\ pos \in 1..Len(text)
  BY DEF StripInv, Lexed
<1>2. /\ context[pos] \in Contexts /\ text[pos] \in Bytes
      /\ context[pos + 1] = After(context[pos], text[pos])
      /\ InPlace
  BY <1>1, Place
<1>3. context[pos] = "json" /\ ~escaped
  BY <1>1, <1>2 DEF InPlace, Contexts
<1>4. context[pos + 1] = "slash"
  BY <1>2, <1>3, AfterLeads
<1>5. /\ context[pos + 2] = After(context[pos + 1], text[pos + 1])
      /\ text[pos + 1] \in Bytes
  <2>1. pos + 1 \in 1..Len(text) /\ (pos + 1) + 1 = pos + 2
    BY <1>1
  <2>2. context[(pos + 1) + 1] = After(context[pos + 1], text[pos + 1])
    BY <2>1 DEF StripInv, Lexed
  <2> QED  BY <2>1, <2>2 DEF StripInv, Lexed
<1> QED  BY <1>3, <1>4, <1>5, AfterLeads

(* The jump lands on the newline that ends the comment, or past the text.  *)
LEMMA LineCommentInv == ASSUME StripInv, LineComment PROVE StripInv'
<1> DEFINE Ends == {k \in (pos + 2)..(Len(text) + 1) :
                      k <= Len(text) => text[k] = "newline"}
           e == Min(Ends)
<1>1. /\ pos \in 1..(Len(text) - 1) /\ ~inString
      /\ text[pos] = "slash" /\ text[pos + 1] = "slash"
      /\ text' = text /\ context' = context /\ inString' = inString
      /\ escaped' = escaped /\ copied' = copied /\ pos' = e
  BY DEF LineComment, Reading, Here, Follows, StripInv, StripTypeOK, Lexed
<1>2. Len(text) \in Nat /\ pos \in Nat /\ pos \in 1..Len(text) /\ Lexed
  BY <1>1 DEF StripInv, Lexed
<1>3. ~escaped /\ context[pos + 1] = "slash" /\ context[pos + 2] = "line"
  BY <1>1, CommentBegins
<1>4. e \in Ends /\ \A k \in Ends : e <= k
  <2>1. Ends \subseteq Nat /\ Len(text) + 1 \in Ends
    BY <1>1, <1>2
  <2> HIDE DEF Ends
  <2> QED  BY <1>1, <2>1, MinIsLeast
<1> HIDE DEF e
<1>5. /\ pos' = e /\ e \in Nat /\ pos + 2 <= e /\ e <= Len(text) + 1
      /\ e <= Len(text) => text[e] = "newline"
  BY <1>1, <1>2, <1>4
<1>6. \A k \in (pos + 2)..(e - 1) : text[k] # "newline"
  <2>1. ASSUME NEW k \in (pos + 2)..(e - 1), text[k] = "newline"
        PROVE  FALSE
    <3>1. k \in (pos + 2)..(Len(text) + 1) /\ k < e
      BY <1>2, <1>5
    <3>2. k \in Ends
      BY <2>1, <3>1
    <3> QED  BY <1>4, <1>5, <3>1, <3>2
  <2> QED  BY <2>1
<1> HIDE DEF Ends
<1>7. \A k \in (pos + 2)..e : context[k] = "line"
  <2>1. pos + 2 \in Nat \ {0}
    BY <1>2
  <2> QED  BY <1>2, <1>3, <1>5, <1>6, <2>1, LineRuns
<1>8. CopiedYet'
  <2>1. ASSUME NEW n \in 1..Len(text), pos <= n, n < pos' PROVE InComment(n)
    <3>1. CASE n = pos
      BY <1>1, <1>2, <1>3, <3>1 DEF InComment
    <3>2. CASE n = pos + 1
      BY <1>1, <1>2, <1>3, <3>2 DEF InComment
    <3>3. CASE n >= pos + 2
      <4>1. n \in (pos + 2)..(e - 1) /\ n \in (pos + 2)..e
        BY <1>2, <1>5, <2>1, <3>3
      <4>2. context[n] = "line" /\ text[n] # "newline"
        BY <1>6, <1>7, <4>1
      <4> QED  BY <4>2 DEF InComment
    <3> QED  BY <1>2, <2>1, <3>1, <3>2, <3>3
  <2> QED  BY <1>1, <1>2, <1>5, <2>1, SkipInv
<1>9. InPlace'
  BY <1>1, <1>2, <1>3, <1>5, <1>7 DEF InPlace
<1>10. StripTypeOK'
  BY <1>1, <1>5 DEF StripInv, StripTypeOK
<1> QED  BY <1>1, <1>2, <1>5, <1>8, <1>9, <1>10, StepInv

(* The jump lands after the slash that ends the comment, or past the text; *)
(* past it by one where the comment is not ended.                          *)
LEMMA BlockCommentInv == ASSUME StripInv, BlockComment PROVE StripInv'
<1> DEFINE Ends == {k \in (pos + 2)..(Len(text) + 1) :
                      k < Len(text) => text[k] = "star" /\ text[k + 1] = "slash"}
           e == Min(Ends)
<1>1. /\ pos \in 1..(Len(text) - 1) /\ ~inString
      /\ text[pos] = "slash" /\ text[pos + 1] = "star"
      /\ text' = text /\ context' = context /\ inString' = inString
      /\ escaped' = escaped /\ copied' = copied /\ pos' = 2 + e
  BY DEF BlockComment, Reading, Here, Follows, StripInv, StripTypeOK, Lexed
<1>2. Len(text) \in Nat /\ pos \in Nat /\ pos \in 1..Len(text) /\ Lexed
  BY <1>1 DEF StripInv, Lexed
<1>3. ~escaped /\ context[pos + 1] = "slash" /\ context[pos + 2] = "block"
  BY <1>1, CommentBegins
<1>4. e \in Ends /\ \A k \in Ends : e <= k
  <2>1. Ends \subseteq Nat /\ Len(text) + 1 \in Ends
    BY <1>1, <1>2
  <2> HIDE DEF Ends
  <2> QED  BY <1>1, <2>1, MinIsLeast
<1> HIDE DEF e
<1>5. /\ e \in Nat /\ pos + 2 <= e /\ e <= Len(text) + 1 /\ pos' = e + 2
      /\ e < Len(text) => text[e] = "star" /\ text[e + 1] = "slash"
  BY <1>1, <1>2, <1>4
<1>6. \A k \in (pos + 2)..(e - 1) : k < Len(text) =>
        ~(text[k] = "star" /\ text[k + 1] = "slash")
  BY <1>2, <1>4, <1>5
<1>7. e < Len(text) \/ e = Len(text) \/ e = Len(text) + 1
  BY <1>2, <1>5
<1>8. StripTypeOK'
  BY <1>1, <1>5 DEF StripInv, StripTypeOK
<1> HIDE DEF Ends
<1>9. ASSUME \A k \in (pos + 2)..(pos' - 1) :
               k <= Len(text) => context[k] \in {"block", "star"}
      PROVE  CopiedYet'
  <2>1. ASSUME NEW n \in 1..Len(text), pos <= n, n < pos' PROVE InComment(n)
    <3>1. CASE n = pos
      BY <1>1, <1>2, <1>3, <3>1 DEF InComment
    <3>2. CASE n = pos + 1
      BY <1>1, <1>2, <1>3, <3>2 DEF InComment
    <3>3. CASE n >= pos + 2
      BY <1>2, <1>5, <1>9, <2>1, <3>3 DEF InComment
    <3> QED  BY <1>2, <2>1, <3>1, <3>2, <3>3
  <2> QED  BY <1>1, <1>2, <1>5, <2>1, SkipInv
<1>10. CASE e < Len(text)
  <2>1. \A k \in (pos + 2)..(e + 1) : context[k] \in {"block", "star"}
    <3>1. \A k \in (pos + 2)..((e + 1) - 2) :
            ~(text[k] = "star" /\ text[k + 1] = "slash")
      BY <1>2, <1>5, <1>6, <1>10
    <3>2. pos + 2 \in Nat \ {0} /\ e + 1 \in Nat /\ e + 1 <= Len(text) + 1
      BY <1>2, <1>5, <1>10
    <3> QED  BY <1>2, <1>3, <3>1, <3>2, BlockRuns
  <2>2. context[e + 1] = "star"
    <3>1. context[e + 1] = After(context[e], text[e])
      BY <1>2, <1>5, <1>10 DEF Lexed
    <3>2. context[e] \in {"block", "star"}
      BY <1>5, <2>1
    <3> QED  BY <1>5, <1>10, <3>1, <3>2, AfterLeads DEF Bytes
  <2>3. context[e + 2] = "json"
    <3>1. e + 1 \in 1..Len(text) /\ (e + 1) + 1 = e + 2
      BY <1>2, <1>5, <1>10
    <3>2. context[(e + 1) + 1] = After(context[e + 1], text[e + 1])
      BY <1>2, <3>1 DEF Lexed
    <3> QED  BY <1>5, <1>10, <2>2, <3>1, <3>2, AfterLeads DEF Bytes
  <2>4. CopiedYet'
    BY <1>2, <1>5, <1>9, <2>1
  <2>5. InPlace'
    BY <1>1, <1>3, <1>5, <2>3 DEF InPlace
  <2>6. pos' \in Nat \ {0} /\ pos' <= Len(text) + 1
    BY <1>2, <1>5, <1>10
  <2> QED  BY <1>1, <1>2, <1>8, <2>4, <2>5, <2>6, StepInv
<1>11. CASE e >= Len(text)
  <2>1. \A k \in (pos + 2)..(Len(text) + 1) : context[k] \in {"block", "star"}
    <3>1. \A k \in (pos + 2)..((Len(text) + 1) - 2) :
            ~(text[k] = "star" /\ text[k + 1] = "slash")
      BY <1>2, <1>5, <1>6, <1>11
    <3>2. pos + 2 \in Nat \ {0} /\ Len(text) + 1 \in Nat
      BY <1>2
    <3> QED  BY <1>2, <1>3, <3>1, <3>2, BlockRuns
  <2>2. CopiedYet'
    BY <1>2, <1>5, <1>9, <2>1
  <2>3. context[Len(text) + 1] \in {"block", "star"}
    BY <1>1, <1>2, <2>1
  <2>4. pos' \in Nat \ {0} /\ pos' > Len(text) + 1
    BY <1>2, <1>5, <1>11
  <2>5. ~(pos' <= Len(text) + 1) /\ ~inString' /\ ~escaped'
    BY <1>1, <1>2, <1>3, <2>4
  <2> QED  BY <1>1, <1>2, <1>8, <2>2, <2>3, <2>4, <2>5, StepInv
<1> QED  BY <1>2, <1>5, <1>10, <1>11

(* The pass begins.                                                        *)
LEMMA BeginInv == ASSUME StripInv, Begin PROVE StripInv'
<1>1. /\ pos = 0 /\ pos' = 1 /\ ~inString /\ ~escaped /\ copied = <<>>
      /\ text' = text /\ context' = context /\ inString' = inString
      /\ escaped' = escaped /\ copied' = copied
  BY DEF Begin, StripInv
<1>2. Lexed /\ Len(text) \in Nat
  BY DEF StripInv, Lexed
<1>3. Lexed' /\ StripTypeOK'
  BY <1>1 DEF StripInv, Lexed, StripTypeOK
<1>4. CopiedYet'
  BY <1>1, <1>2 DEF CopiedYet
<1>5. InPlace'
  BY <1>1, <1>2 DEF InPlace, Lexed
<1>6. ~(pos' = 0) /\ ~(pos' > Len(text') + 1)
  BY <1>1, <1>2
<1> QED  BY <1>3, <1>4, <1>5, <1>6 DEF StripInv

(* Every step keeps the invariant.                                         *)
LEMMA StripNextInv == StripInv /\ [StripNext]_stripVars => StripInv'
<1> SUFFICES ASSUME StripInv, [StripNext]_stripVars PROVE StripInv'
  OBVIOUS
<1>1. CASE UNCHANGED stripVars
  BY <1>1
  DEF stripVars, StripInv, StripTypeOK, Lexed, CopiedYet, InPlace, InComment
<1> QED
  BY <1>1, WriteInv, BeginInv, InStringInv, QuoteInv, LineCommentInv,
     BlockCommentInv, PlainInv DEF StripNext

(* The invariant holds in every reachable state.                           *)
THEOREM SpecStripInv == StripSpec => []StripInv
  BY StripInitInv, StripNextInv, PTL DEF StripSpec

(* stripJSONComments takes out the comments, all of them and nothing else, *)
(* of a file of any length and content.                                    *)
THEOREM SpecOnlyCommentsGo == StripSpec => []OnlyCommentsGo
<1>1. ASSUME StripInv PROVE OnlyCommentsGo
  <2>1. SUFFICES ASSUME pos > Len(text) PROVE OnlyCommentsGo
    BY DEF OnlyCommentsGo
  <2>2. /\ Len(text) \in Nat /\ pos \in Nat /\ Len(context) = Len(text) + 1
        /\ CopiedYet
    BY <1>1 DEF StripInv, StripTypeOK, Lexed
  <2>3. {n \in 1..Len(text) : n < pos /\ ~InComment(n)}
          = {n \in 1..Len(text) : ~InComment(n)}
    BY <2>1, <2>2
  <2>4. /\ inString <=> context[Len(context)] \in {"string", "escape"}
        /\ escaped <=> context[Len(context)] = "escape"
    <3>1. CASE pos = Len(text) + 1
      BY <1>1, <2>2, <3>1 DEF StripInv, InPlace
    <3>2. CASE pos > Len(text) + 1
      BY <1>1, <2>2, <3>2 DEF StripInv
    <3> QED  BY <2>1, <2>2, <3>1, <3>2
  <2> QED  BY <2>2, <2>3, <2>4 DEF OnlyCommentsGo, CopiedYet
<1> QED  BY <1>1, SpecStripInv, PTL

----------------------------------------------------------------------------
(* The channel list.                                                       *)

ElementsOf(s) == {s[n] : n \in 1..Len(s)}

(* An arrangement of a list has its elements, each as often: a permutation *)
(* of the places leads from one to the other.                              *)
LEMMA ArrangementKeeps ==
  ASSUME NEW S, NEW list \in Seq(S), NEW s \in Arrangements(list)
  PROVE  /\ s \in Seq(S) /\ Len(s) = Len(list)
         /\ ElementsOf(s) = ElementsOf(list)
         /\ (\A m, n \in 1..Len(list) : list[m] = list[n] => m = n)
              => \A m, n \in 1..Len(s) : s[m] = s[n] => m = n
<1>1. PICK f \in Bijection(1..Len(list), 1..Len(list)) :
             s = [n \in 1..Len(list) |-> list[f[n]]]
  BY DEF Arrangements
<1>2. /\ f \in [1..Len(list) -> 1..Len(list)]
      /\ \A m, n \in 1..Len(list) : f[m] = f[n] => m = n
      /\ \A m \in 1..Len(list) : \E n \in 1..Len(list) : f[n] = m
  BY DEF Bijection, Injection, Surjection, IsInjective
<1>3. Len(list) \in Nat /\ \A n \in 1..Len(list) : list[n] \in S
  OBVIOUS
<1>4. s \in [1..Len(list) -> S]
  BY <1>1, <1>2, <1>3
<1>5. s \in Seq(S) /\ Len(s) = Len(list)
  BY <1>1, <1>3, <1>4
<1>6. \A n \in 1..Len(list) : s[n] = list[f[n]]
  BY <1>1
<1>7. ElementsOf(s) = ElementsOf(list)
  <2>1. ASSUME NEW n \in 1..Len(s) PROVE s[n] \in ElementsOf(list)
    <3>1. f[n] \in 1..Len(list) /\ s[n] = list[f[n]]
      BY <1>2, <1>5, <1>6
    <3> QED  BY <3>1 DEF ElementsOf
  <2>2. ASSUME NEW m \in 1..Len(list) PROVE list[m] \in ElementsOf(s)
    <3>1. PICK n \in 1..Len(list) : f[n] = m
      BY <1>2
    <3>2. n \in 1..Len(s) /\ s[n] = list[m]
      BY <1>5, <1>6, <3>1
    <3> QED  BY <3>2 DEF ElementsOf
  <2> QED  BY <2>1, <2>2 DEF ElementsOf
<1>8. ASSUME \A m, n \in 1..Len(list) : list[m] = list[n] => m = n
      PROVE  \A m, n \in 1..Len(s) : s[m] = s[n] => m = n
  <2> SUFFICES ASSUME NEW m \in 1..Len(s), NEW n \in 1..Len(s), s[m] = s[n]
               PROVE  m = n
    OBVIOUS
  <2>1. m \in 1..Len(list) /\ n \in 1..Len(list)
    BY <1>5
  <2>2. /\ f[m] \in 1..Len(list) /\ f[n] \in 1..Len(list)
        /\ list[f[m]] = list[f[n]]
    BY <1>2, <1>6, <2>1
  <2>3. f[m] = f[n]
    BY <1>8, <2>2
  <2> QED  BY <1>2, <2>1, <2>3
<1> QED  BY <1>5, <1>7, <1>8

(* Where each is before the next and before is transitive, each is before  *)
(* all that follow.                                                        *)
LEMMA EachBeforeLater ==
  ASSUME NEW E, NEW R, NEW s \in Seq(E),
         \A c, d, e \in E : <<c, d>> \in R /\ <<d, e>> \in R => <<c, e>> \in R,
         \A n \in 1..(Len(s) - 1) : <<s[n], s[n + 1]>> \in R
  PROVE  \A m, n \in 1..Len(s) : m < n => <<s[m], s[n]>> \in R
<1> SUFFICES ASSUME NEW m \in 1..Len(s)
             PROVE  \A n \in 1..Len(s) : m < n => <<s[m], s[n]>> \in R
  OBVIOUS
<1> DEFINE T == {k \in Nat : m + k + 1 <= Len(s) => <<s[m], s[m + k + 1]>> \in R}
<1>1. Len(s) \in Nat /\ m \in Nat /\ \A n \in 1..Len(s) : s[n] \in E
  OBVIOUS
<1>2. 0 \in T
  BY <1>1
<1>3. ASSUME NEW k \in Nat, k \in T PROVE k + 1 \in T
  <2>1. SUFFICES ASSUME m + (k + 1) + 1 <= Len(s)
                 PROVE  <<s[m], s[m + (k + 1) + 1]>> \in R
    OBVIOUS
  <2> DEFINE j == m + k + 1
  <2>2. j \in 1..(Len(s) - 1) /\ m + (k + 1) + 1 = j + 1
    BY <1>1, <2>1
  <2>3. <<s[m], s[j]>> \in R
    BY <1>1, <1>3, <2>2
  <2>4. <<s[j], s[j + 1]>> \in R
    BY <2>2
  <2>5. s[m] \in E /\ s[j] \in E /\ s[j + 1] \in E
    BY <1>1, <2>2
  <2> QED  BY <2>2, <2>3, <2>4, <2>5
<1>4. \A k \in Nat : k \in T
  <2> HIDE DEF T
  <2> QED  BY <1>2, <1>3, SetInduction
<1>5. ASSUME NEW n \in 1..Len(s), m < n PROVE <<s[m], s[n]>> \in R
  <2> DEFINE k == n - (m + 1)
  <2>1. k \in Nat /\ m + k + 1 = n
    BY <1>1, <1>5
  <2>2. k \in T
    BY <1>4, <2>1
  <2> QED  BY <2>1, <2>2
<1> QED  BY <1>5

(* Two lists of the same elements, each element before all that follow it, *)
(* are one.                                                                *)
LEMMA OneOrder ==
  ASSUME NEW E, NEW R, NEW s \in Seq(E), NEW t \in Seq(E),
         ElementsOf(s) = ElementsOf(t),
         \A c \in E : <<c, c>> \notin R,
         \A c, d, e \in E : <<c, d>> \in R /\ <<d, e>> \in R => <<c, e>> \in R,
         \A m, n \in 1..Len(s) : m < n => <<s[m], s[n]>> \in R,
         \A m, n \in 1..Len(t) : m < n => <<t[m], t[n]>> \in R
  PROVE  s = t
<1>1. /\ Len(s) \in Nat /\ \A n \in 1..Len(s) : s[n] \in E
      /\ Len(t) \in Nat /\ \A n \in 1..Len(t) : t[n] \in E
  OBVIOUS
<1>2. /\ \A n \in 1..Len(s) : \E k \in 1..Len(t) : t[k] = s[n]
      /\ \A n \in 1..Len(t) : \E k \in 1..Len(s) : s[k] = t[n]
  <2>1. \A n \in 1..Len(s) : s[n] \in ElementsOf(t)
    BY DEF ElementsOf
  <2>2. \A n \in 1..Len(t) : t[n] \in ElementsOf(s)
    BY DEF ElementsOf
  <2>3. \A n \in 1..Len(s) : \E k \in 1..Len(t) : t[k] = s[n]
    BY <2>1, Zenon DEF ElementsOf
  <2>4. \A n \in 1..Len(t) : \E k \in 1..Len(s) : s[k] = t[n]
    BY <2>2, Zenon DEF ElementsOf
  <2> QED  BY <2>3, <2>4
<1> DEFINE Differ == {n \in 1..Len(s) : n <= Len(t) /\ s[n] # t[n]}
<1>3. ASSUME Differ # {} PROVE FALSE
  <2>1. Differ \subseteq Nat
    OBVIOUS
  <2>2. PICK m \in Differ : \A n \in Differ : m <= n
    BY <1>3, <2>1, Least
  <2>3. m \in 1..Len(s) /\ m \in 1..Len(t) /\ s[m] # t[m]
    BY <1>1, <2>2
  <2>4. PICK k \in 1..Len(t) : t[k] = s[m]
    BY <1>2, <2>3
  <2>5. PICK j \in 1..Len(s) : s[j] = t[m]
    BY <1>2, <2>3
  <2>6. k > m
    <3>1. k # m
      BY <2>3, <2>4
    <3>2. ASSUME k < m PROVE FALSE
      <4>1. k \in 1..Len(s) /\ k \notin Differ
        BY <1>1, <2>2, <2>3, <3>2
      <4>2. s[k] = s[m]
        BY <1>1, <2>4, <4>1
      <4>3. <<s[k], s[m]>> \in R
        BY <2>3, <3>2, <4>1
      <4> QED  BY <1>1, <2>3, <4>2, <4>3
    <3> QED  BY <1>1, <2>3, <3>1, <3>2
  <2>7. j > m
    <3>1. j # m
      BY <2>3, <2>5
    <3>2. ASSUME j < m PROVE FALSE
      <4>1. j \in 1..Len(t) /\ j \notin Differ
        BY <1>1, <2>2, <2>3, <3>2
      <4>2. t[j] = t[m]
        BY <1>1, <2>5, <4>1
      <4>3. <<t[j], t[m]>> \in R
        BY <2>3, <3>2, <4>1
      <4> QED  BY <1>1, <2>3, <4>2, <4>3
    <3> QED  BY <1>1, <2>3, <3>1, <3>2
  <2>8. <<t[m], s[m]>> \in R /\ <<s[m], t[m]>> \in R
    BY <2>3, <2>4, <2>5, <2>6, <2>7
  <2> QED  BY <1>1, <2>3, <2>8
<1>4. \A n \in 1..Len(s) : n <= Len(t) => s[n] = t[n]
  BY <1>3
<1> HIDE DEF Differ
<1>5. ASSUME Len(s) < Len(t) PROVE FALSE
  <2> DEFINE n == Len(s) + 1
  <2>1. n \in 1..Len(t)
    BY <1>1, <1>5
  <2>2. PICK k \in 1..Len(s) : s[k] = t[n]
    BY <1>2, <2>1
  <2>3. k \in 1..Len(t) /\ k < n /\ t[k] = t[n]
    BY <1>1, <1>4, <1>5, <2>2
  <2>4. <<t[k], t[n]>> \in R
    BY <2>1, <2>3
  <2> QED  BY <1>1, <2>1, <2>3, <2>4
<1>6. ASSUME Len(t) < Len(s) PROVE FALSE
  <2> DEFINE n == Len(t) + 1
  <2>1. n \in 1..Len(s)
    BY <1>1, <1>6
  <2>2. PICK k \in 1..Len(t) : t[k] = s[n]
    BY <1>2, <2>1
  <2>3. k \in 1..Len(s) /\ k < n /\ s[k] = s[n]
    BY <1>1, <1>4, <1>6, <2>2
  <2>4. <<s[k], s[n]>> \in R
    BY <2>1, <2>3
  <2> QED  BY <1>1, <2>1, <2>3, <2>4
<1>7. Len(s) = Len(t)
  BY <1>1, <1>5, <1>6
<1> QED  BY <1>1, <1>4, <1>7

(* A greatest number.                                                      *)
LEMMA MaxIsGreatest ==
  ASSUME NEW T, T \subseteq Nat, T # {}, NEW b \in Nat, \A n \in T : n <= b
  PROVE  Max(T) \in T /\ \A n \in T : n <= Max(T)
<1> DEFINE D == {b - n : n \in T}
<1>1. D \subseteq Nat /\ D # {}
  <2>1. \A n \in T : b - n \in Nat
    OBVIOUS
  <2> QED  BY <2>1
<1>2. PICK d \in D : \A e \in D : d <= e
  <2> HIDE DEF D
  <2> QED  BY <1>1, Least
<1>3. PICK m \in T : d = b - m
  OBVIOUS
<1>4. \A n \in T : n <= m
  <2> SUFFICES ASSUME NEW n \in T PROVE n <= m
    OBVIOUS
  <2>1. d <= b - n
    BY <1>2
  <2>2. m \in Nat /\ n \in Nat
    OBVIOUS
  <2> QED  BY <1>3, <2>1, <2>2
<1>5. \A n \in T : m >= n
  BY <1>4
<1> QED  BY <1>5 DEF Max

(* IDs are those of the elements.                                          *)
LEMMA IdsOfElements == \A s : IdsOf(s) = {c.id : c \in ElementsOf(s)}
  BY DEF IdsOf, ElementsOf

(* The last place of an ID holds a channel with it.                        *)
LEMMA LastHasId ==
  ASSUME NEW list \in Seq(Channels), NEW id \in IdsOf(list)
  PROVE  LastOf(list, id) \in 1..Len(list) /\ list[LastOf(list, id)].id = id
<1> DEFINE T == {n \in 1..Len(list) : list[n].id = id}
<1>1. T \subseteq Nat /\ T # {} /\ Len(list) \in Nat /\ \A n \in T : n <= Len(list)
  BY DEF IdsOf
<1>2. Max(T) \in T
  <2> HIDE DEF T
  <2> QED  BY <1>1, MaxIsGreatest
<1> QED  BY <1>2 DEF LastOf

(* What saveSnapshot stores for an ID is a channel of the list, with it.   *)
LEMMA StoredIs ==
  ASSUME NEW list \in Seq(Channels)
  PROVE  /\ DOMAIN Stored(list) = IdsOf(list)
         /\ \A id \in IdsOf(list) : /\ Stored(list)[id] \in ElementsOf(list)
                                    /\ Stored(list)[id].id = id
<1>1. DOMAIN Stored(list) = IdsOf(list)
  BY DEF Stored
<1>2. ASSUME NEW id \in IdsOf(list)
      PROVE  Stored(list)[id] \in ElementsOf(list) /\ Stored(list)[id].id = id
  <2>1. Stored(list)[id] = list[LastOf(list, id)]
    BY DEF Stored
  <2> QED  BY <2>1, LastHasId DEF ElementsOf
<1> QED  BY <1>1, <1>2

(* A list has finitely many IDs.                                           *)
LEMMA IdsAreFinite ==
  ASSUME NEW list \in Seq(Channels)
  PROVE  IsFiniteSet(IdsOf(list))
<1> DEFINE f == [n \in 1..Len(list) |-> list[n].id]
<1>1. f \in Surjection(1..Len(list), IdsOf(list))
  BY DEF Surjection, IdsOf
<1>2. IsFiniteSet(1..Len(list))
  BY FS_Interval
<1> HIDE DEF f
<1> QED  BY <1>1, <1>2, FS_Surjection

(* loadChannels gives back one channel for each ID, each of the list that  *)
(* was stored.                                                             *)
LEMMA LoadedIs ==
  ASSUME NEW list \in Seq(Channels), NEW loaded \in InKeyOrder(Stored(list))
  PROVE  /\ loaded \in Seq(Channels)
         /\ IdsOf(loaded) = IdsOf(list)
         /\ ElementsOf(loaded) \subseteq ElementsOf(list)
         /\ \A m, n \in 1..Len(loaded) : loaded[m].id = loaded[n].id => m = n
<1> DEFINE stored == Stored(list)
           count == Cardinality(IdsOf(list))
<1>1. /\ DOMAIN stored = IdsOf(list)
      /\ \A id \in IdsOf(list) : stored[id] \in ElementsOf(list) /\ stored[id].id = id
  BY StoredIs
<1>2. count \in Nat
  BY IdsAreFinite, FS_CardinalityType
<1> HIDE DEF stored, count
<1>3. PICK ids \in Bijection(1..count, IdsOf(list)) :
             loaded = [n \in DOMAIN ids |-> stored[ids[n]]]
  BY <1>1 DEF InKeyOrder, stored, count
<1>4. /\ ids \in [1..count -> IdsOf(list)]
      /\ \A m, n \in 1..count : ids[m] = ids[n] => m = n
      /\ \A id \in IdsOf(list) : \E n \in 1..count : ids[n] = id
  BY <1>3 DEF Bijection, Injection, Surjection, IsInjective
<1>5. ElementsOf(list) \subseteq Channels
  BY DEF ElementsOf
<1>6. \A n \in 1..count : /\ loaded[n] = stored[ids[n]]
                          /\ loaded[n] \in ElementsOf(list)
                          /\ loaded[n].id = ids[n]
  BY <1>1, <1>3, <1>4
<1>7. loaded \in [1..count -> Channels]
  BY <1>3, <1>4, <1>5, <1>6
<1>8. loaded \in Seq(Channels) /\ Len(loaded) = count
  BY <1>2, <1>7
<1>9. ElementsOf(loaded) \subseteq ElementsOf(list)
  BY <1>6, <1>8 DEF ElementsOf
<1>10. IdsOf(loaded) = IdsOf(list)
  <2>1. ASSUME NEW n \in 1..Len(loaded) PROVE loaded[n].id \in IdsOf(list)
    BY <1>4, <1>6, <1>8
  <2>2. ASSUME NEW id \in IdsOf(list)
        PROVE  \E n \in 1..Len(loaded) : loaded[n].id = id
    BY <1>4, <1>6, <1>8
  <2>3. IdsOf(loaded) = {loaded[n].id : n \in 1..Len(loaded)}
    BY DEF IdsOf
  <2> QED  BY <2>1, <2>2, <2>3
<1>11. \A m, n \in 1..Len(loaded) : loaded[m].id = loaded[n].id => m = n
  BY <1>4, <1>6, <1>8
<1> QED  BY <1>8, <1>9, <1>10, <1>11

(* A playlist has the IDs and URLs of the channels, in their order.        *)
LEMMA PlaylistIs ==
  ASSUME NEW list \in Seq(Channels)
  PROVE  /\ Len(Playlist(list)) = Len(list)
         /\ \A n \in 1..Len(list) :
              /\ Playlist(list)[n].id = list[n].id
              /\ Playlist(list)[n].url = list[n].url
              /\ Playlist(list)[n].name =
                   IF list[n].id \in DOMAIN DisplayNames(list)
                   THEN DisplayNames(list)[list[n].id] ELSE <<>>
         /\ IdsOf(Playlist(list)) = IdsOf(list)
<1>1. Len(list) \in Nat
  OBVIOUS
<1>2. Len(Playlist(list)) = Len(list)
  BY <1>1 DEF Playlist
<1>3. \A n \in 1..Len(list) :
        /\ Playlist(list)[n].id = list[n].id
        /\ Playlist(list)[n].url = list[n].url
        /\ Playlist(list)[n].name =
             IF list[n].id \in DOMAIN DisplayNames(list)
             THEN DisplayNames(list)[list[n].id] ELSE <<>>
  BY DEF Playlist
<1> QED  BY <1>2, <1>3 DEF IdsOf

(* Orderly says of the elements what it says of the places.                *)
LEMMA OrderlyElements ==
  ASSUME NEW list \in Seq(Channels), Orderly(list)
  PROVE  /\ \A c \in ElementsOf(list) : c \in Channels /\ Numbered(c)
         /\ \A c, e \in ElementsOf(list) : c.id = e.id => c = e
         /\ \A c, e \in ElementsOf(list) :
              c.name = e.name /\ c.index.number = e.index.number => c = e
         /\ \A m, n \in 1..Len(list) : list[m] = list[n] => m = n
<1>1. \A n \in 1..Len(list) : list[n] \in Channels /\ Numbered(list[n])
  BY DEF Orderly
<1>2. \A m, n \in 1..Len(list) :
        \/ list[m].id = list[n].id
        \/ /\ list[m].name = list[n].name
           /\ list[m].index.number = list[n].index.number
        => m = n
  BY DEF Orderly
<1> QED  BY <1>1, <1>2 DEF ElementsOf

(* On numbered channels that tell by name and number, sortChannels has a   *)
(* strict total order.                                                     *)
LEMMA ServedBeforeIsStrict ==
  ASSUME NEW E, \A c \in E : c \in Channels /\ Numbered(c),
         \A c, e \in E : c.name = e.name /\ c.index.number = e.index.number => c = e
  PROVE  /\ \A c \in E : ~ServedBefore(c, c)
         /\ \A c, d, e \in E :
              ServedBefore(c, d) /\ ServedBefore(d, e) => ServedBefore(c, e)
         /\ \A c, e \in E : c # e => ServedBefore(c, e) \/ ServedBefore(e, c)
<1>1. \A c \in E : /\ GroupRank[c.name] \in Nat /\ Rank[c.name] \in Nat
                   /\ c.index.number \in Nat /\ Numbered(c) /\ c.name \in Names
  <2> SUFFICES ASSUME NEW c \in E
               PROVE  /\ GroupRank[c.name] \in Nat /\ Rank[c.name] \in Nat
                      /\ c.index.number \in Nat /\ Numbered(c) /\ c.name \in Names
    OBVIOUS
  <2>1. c.name \in Names /\ c.index \in Indexes /\ Numbered(c)
    BY DEF Channels
  <2>2. c.index \in [number : Nat, text : Nat, rank : Nat]
    BY <2>1, LineupAssumption DEF LineupAssumption
  <2> QED  BY <2>1, <2>2, LineupAssumption DEF LineupAssumption
<1>2. \A c, e \in E :
        ServedBefore(c, e) <=>
          \/ GroupRank[c.name] < GroupRank[e.name]
          \/ /\ GroupRank[c.name] = GroupRank[e.name]
             /\ \/ c.index.number < e.index.number
                \/ c.index.number = e.index.number /\ Rank[c.name] < Rank[e.name]
  BY <1>1 DEF ServedBefore, NameBefore, Numbered
<1>3. \A c \in E : ~ServedBefore(c, c)
  BY <1>1, <1>2
<1>4. \A c, d, e \in E :
        ServedBefore(c, d) /\ ServedBefore(d, e) => ServedBefore(c, e)
  <2> SUFFICES ASSUME NEW c \in E, NEW d \in E, NEW e \in E,
                      ServedBefore(c, d), ServedBefore(d, e)
               PROVE  ServedBefore(c, e)
    OBVIOUS
  <2>1. \/ GroupRank[c.name] < GroupRank[d.name]
        \/ /\ GroupRank[c.name] = GroupRank[d.name]
           /\ \/ c.index.number < d.index.number
              \/ c.index.number = d.index.number /\ Rank[c.name] < Rank[d.name]
    BY <1>2
  <2>2. \/ GroupRank[d.name] < GroupRank[e.name]
        \/ /\ GroupRank[d.name] = GroupRank[e.name]
           /\ \/ d.index.number < e.index.number
              \/ d.index.number = e.index.number /\ Rank[d.name] < Rank[e.name]
    BY <1>2
  <2>3. \/ GroupRank[c.name] < GroupRank[e.name]
        \/ /\ GroupRank[c.name] = GroupRank[e.name]
           /\ \/ c.index.number < e.index.number
              \/ c.index.number = e.index.number /\ Rank[c.name] < Rank[e.name]
    BY <1>1, <2>1, <2>2
  <2> QED  BY <1>2, <2>3
<1>5. ASSUME NEW c \in E, NEW e \in E, c # e
      PROVE  ServedBefore(c, e) \/ ServedBefore(e, c)
  <2>1. c.name # e.name \/ c.index.number # e.index.number
    BY <1>5
  <2>2. c.index.number = e.index.number => Rank[c.name] # Rank[e.name]
    BY <1>1, <2>1, LineupAssumption DEF LineupAssumption
  <2> QED  BY <1>1, <1>2, <2>2
<1> QED  BY <1>3, <1>4, <1>5

(* What sortChannels makes of such channels, each there once, is in order. *)
LEMMA ServedInOrder ==
  ASSUME NEW E, \A c \in E : c \in Channels /\ Numbered(c),
         \A c, e \in E : c.name = e.name /\ c.index.number = e.index.number => c = e,
         NEW list \in Seq(E), NEW s \in ServedOrders(list),
         \A m, n \in 1..Len(list) : list[m] = list[n] => m = n
  PROVE  LET R == {p \in E \X E : ServedBefore(p[1], p[2])}
         IN  /\ s \in Seq(E) /\ ElementsOf(s) = ElementsOf(list)
             /\ \A m, n \in 1..Len(s) : m < n => <<s[m], s[n]>> \in R
<1> DEFINE R == {p \in E \X E : ServedBefore(p[1], p[2])}
<1>1. /\ s \in Arrangements(list)
      /\ \A n \in 1..(Len(s) - 1) : ~ServedBefore(s[n + 1], s[n])
  BY DEF ServedOrders
<1>2. /\ s \in Seq(E) /\ ElementsOf(s) = ElementsOf(list)
      /\ \A m, n \in 1..Len(s) : s[m] = s[n] => m = n
  BY <1>1, ArrangementKeeps
<1>3. \A c, e \in E : <<c, e>> \in R <=> ServedBefore(c, e)
  OBVIOUS
<1> HIDE DEF R
<1>4. \A c, d, e \in E : <<c, d>> \in R /\ <<d, e>> \in R => <<c, e>> \in R
  BY <1>3, ServedBeforeIsStrict
<1>5. ASSUME NEW n \in 1..(Len(s) - 1) PROVE <<s[n], s[n + 1]>> \in R
  <2>1. n \in 1..Len(s) /\ n + 1 \in 1..Len(s) /\ n # n + 1
    BY <1>2
  <2>2. s[n] \in E /\ s[n + 1] \in E /\ s[n] # s[n + 1]
    BY <1>2, <2>1
  <2>3. ServedBefore(s[n], s[n + 1])
    BY <1>1, <2>2, ServedBeforeIsStrict
  <2> QED  BY <1>3, <2>2, <2>3
<1>6. \A m, n \in 1..Len(s) : m < n => <<s[m], s[n]>> \in R
  BY <1>2, <1>4, <1>5, EachBeforeLater
<1> QED  BY <1>2, <1>6 DEF R

(* An orderly list comes back from the bucket as it was served.            *)
LEMMA SameAfterReload ==
  ASSUME NEW list \in Seq(Channels), Orderly(list),
         NEW sorted \in PortalOrders(list),
         NEW before \in ServedOrders(sorted),
         NEW loaded \in InKeyOrder(Stored(sorted)),
         NEW after \in ServedOrders(loaded)
  PROVE  after = before
<1> DEFINE E == ElementsOf(list)
           R == {p \in E \X E : ServedBefore(p[1], p[2])}
<1>1. /\ \A c \in E : c \in Channels /\ Numbered(c)
      /\ \A c, e \in E : c.id = e.id => c = e
      /\ \A c, e \in E : c.name = e.name /\ c.index.number = e.index.number => c = e
      /\ \A m, n \in 1..Len(list) : list[m] = list[n] => m = n
  BY OrderlyElements
<1>2. list \in Seq(E)
  BY DEF ElementsOf
<1>3. /\ sorted \in Seq(E) /\ sorted \in Seq(Channels) /\ ElementsOf(sorted) = E
      /\ \A m, n \in 1..Len(sorted) : sorted[m] = sorted[n] => m = n
  BY <1>1, <1>2, ArrangementKeeps DEF PortalOrders
<1>4. /\ loaded \in Seq(Channels) /\ IdsOf(loaded) = IdsOf(sorted)
      /\ ElementsOf(loaded) \subseteq E
      /\ \A m, n \in 1..Len(loaded) : loaded[m].id = loaded[n].id => m = n
  BY <1>3, LoadedIs
<1> HIDE DEF E
<1>5. loaded \in Seq(E)
  BY <1>4 DEF ElementsOf
<1>6. ElementsOf(loaded) = E
  <2>1. ASSUME NEW c \in E PROVE c \in ElementsOf(loaded)
    <3>1. c.id \in IdsOf(loaded)
      BY <1>3, <1>4, IdsOfElements
    <3>2. PICK e \in ElementsOf(loaded) : e.id = c.id
      BY <3>1, IdsOfElements
    <3> QED  BY <1>1, <1>4, <3>2
  <2> QED  BY <1>4, <2>1
<1>7. \A m, n \in 1..Len(loaded) : loaded[m] = loaded[n] => m = n
  BY <1>4
<1>8. /\ before \in Seq(E) /\ ElementsOf(before) = E
      /\ \A m, n \in 1..Len(before) : m < n => <<before[m], before[n]>> \in R
  BY <1>1, <1>3, ServedInOrder
<1>9. /\ after \in Seq(E) /\ ElementsOf(after) = E
      /\ \A m, n \in 1..Len(after) : m < n => <<after[m], after[n]>> \in R
  BY <1>1, <1>5, <1>6, <1>7, ServedInOrder
<1>10. /\ \A c \in E : <<c, c>> \notin R
       /\ \A c, d, e \in E : <<c, d>> \in R /\ <<d, e>> \in R => <<c, e>> \in R
  <2>1. \A c, e \in E : <<c, e>> \in R <=> ServedBefore(c, e)
    OBVIOUS
  <2> HIDE DEF R
  <2> QED  BY <1>1, <2>1, ServedBeforeIsStrict
<1> HIDE DEF R
<1> QED  BY <1>8, <1>9, <1>10, OneOrder

(* What has become of the list so far.                                     *)
LineupInv ==
  /\ parsed \in Seq(Channels)
  /\ channels \in Seq(Channels)
  /\ stage = "portal" => channels = <<>>
  /\ stage = "served" =>
       \E sorted \in PortalOrders(parsed) :
         bucket = Stored(sorted) /\ channels \in ServedOrders(sorted)
  /\ stage = "restarted" =>
       \E sorted \in PortalOrders(parsed) :
         /\ bucket = Stored(sorted)
         /\ \E before \in ServedOrders(sorted) : served = Playlist(before)
         /\ \E loaded \in InKeyOrder(bucket) : channels \in ServedOrders(loaded)

(* The initial states satisfy the invariant.                               *)
LEMMA LineupInitInv == LineupInit => LineupInv
  BY DEF LineupInit, LineupInv

(* Every step keeps it.                                                    *)
LEMMA LineupNextInv == LineupInv /\ [LineupNext]_lineupVars => LineupInv'
<1> SUFFICES ASSUME LineupInv, [LineupNext]_lineupVars PROVE LineupInv'
  OBVIOUS
<1>1. CASE \E c \in Offered : ParseEntry(c)
  <2>1. Offered \subseteq Channels
    BY LineupAssumption DEF LineupAssumption, Channels
  <2> QED  BY <1>1, <2>1 DEF ParseEntry, LineupInv
<1>2. CASE ReplaceLineup
  <2>1. PICK sorted \in PortalOrders(parsed) :
               bucket' = Stored(sorted) /\ channels' \in ServedOrders(sorted)
    BY <1>2 DEF ReplaceLineup
  <2>2. stage' = "served" /\ parsed' = parsed
    BY <1>2 DEF ReplaceLineup
  <2>3. sorted \in Seq(Channels)
    BY ArrangementKeeps DEF LineupInv, PortalOrders
  <2>4. channels' \in Seq(Channels)
    BY <2>1, <2>3, ArrangementKeeps DEF ServedOrders
  <2> QED  BY <2>1, <2>2, <2>4 DEF LineupInv
<1>3. CASE ReloadLineup
  <2>1. PICK loaded \in InKeyOrder(bucket) : channels' \in ServedOrders(loaded)
    BY <1>3 DEF ReloadLineup
  <2>2. /\ stage = "served" /\ stage' = "restarted" /\ served' = Playlist(channels)
        /\ parsed' = parsed /\ bucket' = bucket
    BY <1>3 DEF ReloadLineup
  <2>3. PICK sorted \in PortalOrders(parsed) :
               bucket = Stored(sorted) /\ channels \in ServedOrders(sorted)
    BY <2>2 DEF LineupInv
  <2>4. sorted \in Seq(Channels)
    BY ArrangementKeeps DEF LineupInv, PortalOrders
  <2>5. loaded \in Seq(Channels)
    BY <2>1, <2>3, <2>4, LoadedIs
  <2>6. channels' \in Seq(Channels)
    BY <2>1, <2>5, ArrangementKeeps DEF ServedOrders
  <2> QED  BY <2>1, <2>2, <2>3, <2>6 DEF LineupInv
<1>4. CASE UNCHANGED lineupVars
  BY <1>4 DEF lineupVars, LineupInv
<1> QED  BY <1>1, <1>2, <1>3, <1>4 DEF LineupNext

(* The invariant holds in every reachable state.                           *)
THEOREM SpecLineupInv == LineupSpec => []LineupInv
  BY LineupInitInv, LineupNextInv, PTL DEF LineupSpec

(* A restart loses no channel ID, adds nothing, and gives a list whose     *)
(* channels tell apart back as the very same playlist, in whatever order   *)
(* sort.Slice leaves what compares equal.                                  *)
THEOREM SpecRestartKeepsList == LineupSpec => []RestartKeepsList
<1>1. ASSUME LineupInv PROVE RestartKeepsList
  <2> DEFINE list == Playlist(channels)
  <2>1. SUFFICES ASSUME stage = "restarted"
        PROVE  /\ IdsOf(list) = IdsOf(served)
               /\ \A n \in 1..Len(list) : \E m \in 1..Len(served) :
                    served[m].id = list[n].id /\ served[m].url = list[n].url
               /\ Orderly(parsed) => list = served
    BY DEF RestartKeepsList
  <2>2. /\ parsed \in Seq(Channels) /\ channels \in Seq(Channels)
        /\ \E sorted \in PortalOrders(parsed) :
             /\ bucket = Stored(sorted)
             /\ \E before \in ServedOrders(sorted) : served = Playlist(before)
             /\ \E loaded \in InKeyOrder(bucket) : channels \in ServedOrders(loaded)
    BY <1>1, <2>1 DEF LineupInv
  <2>3. PICK sorted \in PortalOrders(parsed) :
               /\ bucket = Stored(sorted)
               /\ \E before \in ServedOrders(sorted) : served = Playlist(before)
               /\ \E loaded \in InKeyOrder(bucket) : channels \in ServedOrders(loaded)
    BY <2>2
  <2>4. PICK before \in ServedOrders(sorted) : served = Playlist(before)
    BY <2>3
  <2>5. PICK loaded \in InKeyOrder(Stored(sorted)) : channels \in ServedOrders(loaded)
    BY <2>3
  <2>6. sorted \in Seq(Channels)
    BY <2>2, ArrangementKeeps DEF PortalOrders
  <2>7. before \in Seq(Channels) /\ ElementsOf(before) = ElementsOf(sorted)
    BY <2>6, ArrangementKeeps DEF ServedOrders
  <2>8. /\ loaded \in Seq(Channels) /\ IdsOf(loaded) = IdsOf(sorted)
        /\ ElementsOf(loaded) \subseteq ElementsOf(sorted)
    BY <2>6, LoadedIs
  <2>9. ElementsOf(channels) = ElementsOf(loaded)
    BY <2>5, <2>8, ArrangementKeeps DEF ServedOrders
  <2>10. IdsOf(list) = IdsOf(channels) /\ IdsOf(served) = IdsOf(before)
    BY <2>2, <2>4, <2>7, PlaylistIs
  <2>11. IdsOf(list) = IdsOf(served)
    <3>1. IdsOf(channels) = IdsOf(loaded)
      BY <2>9, IdsOfElements
    <3>2. IdsOf(before) = IdsOf(sorted)
      BY <2>7, IdsOfElements
    <3> QED  BY <2>8, <2>10, <3>1, <3>2
  <2>12. ASSUME NEW n \in 1..Len(list)
         PROVE  \E m \in 1..Len(served) :
                  served[m].id = list[n].id /\ served[m].url = list[n].url
    <3>1. /\ n \in 1..Len(channels)
          /\ list[n].id = channels[n].id /\ list[n].url = channels[n].url
      BY <2>2, PlaylistIs
    <3>2. channels[n] \in ElementsOf(before)
      BY <2>7, <2>8, <2>9, <3>1 DEF ElementsOf
    <3>3. PICK m \in 1..Len(before) : before[m] = channels[n]
      BY <3>2 DEF ElementsOf
    <3>4. /\ m \in 1..Len(served)
          /\ served[m].id = before[m].id /\ served[m].url = before[m].url
      BY <2>4, <2>7, PlaylistIs
    <3> QED  BY <3>1, <3>3, <3>4
  <2>13. ASSUME Orderly(parsed) PROVE list = served
    <3>1. channels = before
      BY <2>2, <2>5, <2>13, SameAfterReload
    <3> QED  BY <2>4, <3>1
  <2> QED  BY <2>11, <2>12, <2>13
<1> QED  BY <1>1, SpecLineupInv, PTL

(* The first channel of a name is the one no earlier channel shares it     *)
(* with.                                                                   *)
LEMMA FirstOfName ==
  ASSUME NEW list, NEW n \in Nat \ {0}
  PROVE  Occurrence(list, n) = 1
           <=> \A m \in 1..(n - 1) : Called(list, m) # Called(list, n)
<1> DEFINE Alike == {m \in 1..n : Called(list, m) = Called(list, n)}
<1>1. n \in Alike
  OBVIOUS
<1>2. IsFiniteSet(Alike)
  <2>1. IsFiniteSet(1..n) /\ Alike \in SUBSET (1..n)
    BY FS_Interval
  <2> HIDE DEF Alike
  <2> QED  BY <2>1, FS_Subset
<1>3. Cardinality(Alike) = 1 <=> Alike = {n}
  <2> HIDE DEF Alike
  <2>1. Cardinality(Alike) = 1 <=> \E x : Alike = {x}
    BY <1>2, FS_Singleton
  <2> QED  BY <1>1, <2>1
<1>4. Alike = {n} <=>
        \A m \in 1..(n - 1) : Called(list, m) # Called(list, n)
  OBVIOUS
<1> QED  BY <1>3, <1>4 DEF Occurrence

(* A name with a number tells both.                                        *)
LEMMA NumberedNames ==
  \A s, t \in Seq(Nat), a, b \in Nat :
    Append(s, a) = Append(t, b) => s = t /\ a = b
  BY AppendInjective

(* What is left of a name when it is trimmed is a name.                    *)
LEMMA TrimIsName == ASSUME NEW name \in Seq(Nat) PROVE Trim(name) \in Seq(Nat)
<1> DEFINE inked == {n \in DOMAIN name : name[n] # Blank}
<1>1. CASE inked = {}
  BY <1>1 DEF Trim
<1>2. CASE inked # {}
  <2>1. Len(name) \in Nat /\ inked \subseteq 1..Len(name)
    OBVIOUS
  <2> HIDE DEF inked
  <2>2. Max(inked) \in 1..Len(name)
    <3>1. inked \subseteq Nat /\ \A n \in inked : n <= Len(name)
      BY <2>1
    <3> QED  BY <1>2, <2>1, <3>1, MaxIsGreatest
  <2>3. Min(inked) \in 1..Len(name)
    <3>1. inked \subseteq Nat
      BY <2>1
    <3> QED  BY <1>2, <2>1, <3>1, MinIsLeast
  <2>4. SubSeq(name, Min(inked), Max(inked)) \in Seq(Nat)
    <3>1. \A n \in Min(inked)..Max(inked) : name[n] \in Nat
      <4> SUFFICES ASSUME NEW n \in Min(inked)..Max(inked) PROVE name[n] \in Nat
        OBVIOUS
      <4>1. n \in 1..Len(name)
        BY <2>1, <2>2, <2>3
      <4> QED  BY <4>1
    <3>2. Min(inked) \in Int /\ Max(inked) \in Int
      BY <2>2, <2>3
    <3> QED  BY <3>1, <3>2, SubSeqProperties
  <2> QED  BY <1>2, <2>4 DEF Trim, inked
<1> QED  BY <1>1, <1>2

(* What a channel is listed as, where IDs are distinct.                    *)
LEMMA ListedAs ==
  ASSUME NEW list \in Seq(Channels), NEW n \in 1..Len(list),
         \A m \in 1..Len(list) : list[m].id = list[n].id => m = n,
         list[n].index.text # NoText
  PROVE  Playlist(list)[n].name =
           IF Called(list, n) = <<>> THEN <<>>
           ELSE IF \A m \in 1..(n - 1) : Called(list, m) # Called(list, n)
                THEN Called(list, n)
                ELSE Append(Called(list, n), list[n].index.text)
<1> DEFINE id == list[n].id
           names == DisplayNames(list)
<1>1. DOMAIN names = {list[m].id : m \in Named(list)}
  BY DEF DisplayNames
<1>2. Playlist(list)[n].name = IF id \in DOMAIN names THEN names[id] ELSE <<>>
  BY PlaylistIs
<1>3. CASE Called(list, n) = <<>>
  <2>1. n \notin Named(list) /\ Named(list) \subseteq 1..Len(list)
    BY <1>3 DEF Named
  <2>2. id \notin DOMAIN names
    BY <1>1, <2>1
  <2> QED  BY <1>2, <1>3, <2>2
<1>4. CASE Called(list, n) # <<>>
  <2>1. n \in Named(list) /\ Named(list) \subseteq 1..Len(list)
    BY <1>4 DEF Named
  <2>2. {m \in Named(list) : list[m].id = id} = {n}
    BY <2>1
  <2>3. Max({n}) = n
    BY MaxIsGreatest
  <2>4. id \in DOMAIN names /\ names[id] = DisplayName(list, n)
    <3>1. id \in {list[m].id : m \in Named(list)}
      BY <2>1
    <3>2. names[id] =
            DisplayName(list, Max({m \in Named(list) : list[m].id = id}))
      BY <3>1 DEF DisplayNames
    <3> QED  BY <1>1, <2>2, <2>3, <3>1, <3>2
  <2>5. Occurrence(list, n) = 1
          <=> \A m \in 1..(n - 1) : Called(list, m) # Called(list, n)
    BY FirstOfName
  <2> QED  BY <1>2, <1>4, <2>4, <2>5 DEF DisplayName
<1> QED  BY <1>3, <1>4

(* uniqueChannelDisplayNames: where channels tell by ID, and by what can   *)
(* be read of name and index, two are listed under one name only if one is *)
(* called like the other with its index or both names are blank; the first *)
(* of a name keeps it, and only blank ones are listed without a name.      *)
THEOREM SpecNamesTell == LineupSpec => []NamesTell
<1>1. ASSUME channels \in Seq(Channels) PROVE NamesTell
  <2> DEFINE list == Playlist(channels)
             name(n) == Called(channels, n)
             mark(n) == channels[n].index.text
             First(n) == \A m \in 1..(n - 1) : name(m) # name(n)
  <2>1. SUFFICES
          ASSUME TellApart(channels)
          PROVE  \A n \in 1..Len(list) :
                   /\ name(n) = <<>> <=> list[n].name = <<>>
                   /\ First(n) => list[n].name = name(n)
                   /\ \A m \in 1..Len(list) : list[m].name = list[n].name =>
                        \/ m = n \/ name(n) = <<>>
                        \/ Clash(channels, m, n) \/ Clash(channels, n, m)
    BY DEF NamesTell
  <2>2. /\ \A n \in 1..Len(channels) : mark(n) # NoText
        /\ \A m, n \in 1..Len(channels) :
             m # n => /\ channels[m].id # channels[n].id
                      /\ name(m) # name(n) \/ mark(m) # mark(n)
    BY <2>1 DEF TellApart
  <2>3. Len(list) = Len(channels) /\ Len(channels) \in Nat
    BY <1>1, PlaylistIs
  <2>4. ASSUME NEW n \in 1..Len(list)
        PROVE  /\ name(n) \in Seq(Nat) /\ mark(n) \in Nat
               /\ list[n].name = IF name(n) = <<>> THEN <<>>
                                 ELSE IF First(n) THEN name(n)
                                 ELSE Append(name(n), mark(n))
    <3>1. n \in 1..Len(channels) /\ channels[n] \in Channels
      BY <1>1, <2>3
    <3>2. channels[n].name \in Names /\ channels[n].index \in Indexes
      BY <3>1 DEF Channels
    <3>3. /\ channels[n].name \in Seq(Nat)
          /\ channels[n].index \in [number : Nat, text : Nat, rank : Nat]
      BY <3>2, LineupAssumption DEF LineupAssumption
    <3>4. name(n) \in Seq(Nat)
      BY <3>3, TrimIsName DEF Called
    <3>5. list[n].name = IF name(n) = <<>> THEN <<>>
                         ELSE IF First(n) THEN name(n)
                         ELSE Append(name(n), mark(n))
      BY <1>1, <2>2, <3>1, ListedAs
    <3> QED  BY <3>3, <3>4, <3>5
  <2> HIDE DEF list, name, mark
  <2>5. ASSUME NEW n \in 1..Len(list)
        PROVE  /\ name(n) = <<>> <=> list[n].name = <<>>
               /\ First(n) => list[n].name = name(n)
    <3>1. Append(name(n), mark(n)) # <<>>
      BY <2>4, AppendProperties
    <3> QED  BY <2>4, <3>1
  <2>6. ASSUME NEW m \in 1..Len(list), NEW n \in 1..Len(list), m < n,
               list[m].name = list[n].name, name(n) # <<>>
        PROVE  name(m) = Append(name(n), mark(n)) \/ name(n) = Append(name(m), mark(m))
    <3>1. name(m) # <<>> /\ m \in 1..(n - 1)
      BY <2>3, <2>5, <2>6
    <3>2. CASE First(m) /\ First(n)
      BY <2>4, <2>6, <3>1, <3>2
    <3>3. CASE First(m) /\ ~First(n)
      BY <2>4, <2>6, <3>1, <3>3
    <3>4. CASE ~First(m) /\ First(n)
      BY <2>4, <2>6, <3>1, <3>4
    <3>5. CASE ~First(m) /\ ~First(n)
      <4>1. Append(name(m), mark(m)) = Append(name(n), mark(n))
        BY <2>4, <2>6, <3>1, <3>5
      <4>2. /\ name(m) \in Seq(Nat) /\ mark(m) \in Nat
            /\ name(n) \in Seq(Nat) /\ mark(n) \in Nat
        BY <2>4
      <4>3. name(m) = name(n) /\ mark(m) = mark(n)
        BY <4>1, <4>2, NumberedNames
      <4> QED  BY <2>2, <2>3, <2>6, <4>3
    <3> QED  BY <3>2, <3>3, <3>4, <3>5
  <2>7. ASSUME NEW m \in 1..Len(list), NEW n \in 1..Len(list),
               list[m].name = list[n].name, m # n, name(n) # <<>>
        PROVE  Clash(channels, m, n) \/ Clash(channels, n, m)
    <3>1. m < n \/ n < m
      BY <2>3, <2>7
    <3>2. name(m) # <<>>
      BY <2>5, <2>7
    <3>3. name(m) = Append(name(n), mark(n)) \/ name(n) = Append(name(m), mark(m))
      BY <2>6, <2>7, <3>1, <3>2
    <3> QED  BY <3>3 DEF Clash, name, mark
  <2> QED  BY <2>5, <2>7
<1> QED  BY <1>1, SpecLineupInv, PTL DEF LineupInv
=============================================================================
