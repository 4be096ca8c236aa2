---------------------------- MODULE RedirectChain ----------------------------
(***************************************************************************)
(* The RTSP redirect chain: rtsp.go (rtspDescribe, resolveRTSPChain,       *)
(* resolveLocation).                                                       *)
(*                                                                         *)
(* Starting from an entry URL, each hop is asked with a DESCRIBE of its    *)
(* own; a 3xx leads to the next one, a 2xx is the answer, and anything     *)
(* else, a URL met before or too many hops is an error.  Whoever resolves  *)
(* gets the hops that answered, also with an error.                        *)
(*                                                                         *)
(* The servers are outside and answer as they like, the same URL not       *)
(* always the same way.  A Location is taken after resolveLocation, which  *)
(* makes it absolute: a URL.                                               *)
(***************************************************************************)
EXTENDS Naturals, Sequences, FiniteSets

CONSTANTS
  Urls,     \* RTSP URLs, the entry and what servers redirect to
  MaxHops   \* rtsp_redirect_max_hops

ASSUME ChainAssumption == MaxHops \in Nat

VARIABLES
  pc,         \* "loop" at the head of the loop, "describe", "done"
  cur,        \* cur
  i,          \* the loop counter
  seen,       \* seen
  hops,       \* hops: the status class of each
  asked,      \* history: the URLs asked, in order
  outcome     \* what is returned

vars == <<pc, cur, i, seen, hops, asked, outcome>>

Statuses == {"2xx", "3xx", "other"}
Errors   == {"loop", "tooMany", "failed", "noLocation", "status"}

TypeOK ==
  /\ pc \in {"loop", "describe", "done"}
  /\ cur \in Urls
  /\ i \in 0..(MaxHops + 1)
  /\ seen \subseteq Urls
  /\ hops \in Seq(Statuses)
  /\ asked \in Seq(Urls)
  /\ outcome \in {"none", "ok"} \cup Errors

Init ==
  /\ pc = "loop"
  /\ cur \in Urls
  /\ i = 0
  /\ seen = {}
  /\ hops = <<>>
  /\ asked = <<>>
  /\ outcome = "none"

Return(result) == pc' = "done" /\ outcome' = result

(* The condition of the loop no longer holds.                              *)
TooMany ==
  /\ pc = "loop" /\ i > MaxHops
  /\ Return("tooMany")
  /\ UNCHANGED <<cur, i, seen, hops, asked>>

Loop ==
  /\ pc = "loop" /\ i <= MaxHops
  /\ cur \in seen
  /\ Return("loop")
  /\ UNCHANGED <<cur, i, seen, hops, asked>>

(* Mutation of Enter: only the entry is remembered.                        *)
EnterForgets ==
  /\ pc = "loop" /\ i <= MaxHops
  /\ cur \notin seen
  /\ seen' = IF i = 0 THEN {cur} ELSE seen
  /\ asked' = Append(asked, cur)
  /\ pc' = "describe"
  /\ UNCHANGED <<cur, i, hops, outcome>>

(* A URL not met before is marked and asked: DESCRIBE is sent.             *)
Enter ==
  /\ pc = "loop" /\ i <= MaxHops
  /\ cur \notin seen
  /\ seen' = seen \cup {cur}
  /\ asked' = Append(asked, cur)
  /\ pc' = "describe"
  /\ UNCHANGED <<cur, i, hops, outcome>>

(* rtspDescribe fails: no connection, no status line, no header, deadline. *)
DescribeFails ==
  /\ pc = "describe"
  /\ Return("failed")
  /\ UNCHANGED <<cur, i, seen, hops, asked>>

(* Mutation of Redirect: one back to a known URL is taken as the answer.   *)
RedirectAnswers(url) ==
  /\ pc = "describe"
  /\ hops' = Append(hops, "3xx")
  /\ cur' = url
  /\ i' = i + 1
  /\ IF url \in seen THEN Return("ok") ELSE pc' = "loop" /\ UNCHANGED outcome
  /\ UNCHANGED <<seen, asked>>

(* 3xx with a Location: go on there.                                       *)
Redirect(url) ==
  /\ pc = "describe"
  /\ hops' = Append(hops, "3xx")
  /\ cur' = url
  /\ i' = i + 1
  /\ pc' = "loop"
  /\ UNCHANGED <<seen, asked, outcome>>

(* 3xx without a Location.                                                 *)
NoLocation ==
  /\ pc = "describe"
  /\ hops' = Append(hops, "3xx")
  /\ Return("noLocation")
  /\ UNCHANGED <<cur, i, seen, asked>>

Found ==
  /\ pc = "describe"
  /\ hops' = Append(hops, "2xx")
  /\ Return("ok")
  /\ UNCHANGED <<cur, i, seen, asked>>

OtherStatus ==
  /\ pc = "describe"
  /\ hops' = Append(hops, "other")
  /\ Return("status")
  /\ UNCHANGED <<cur, i, seen, asked>>

Next ==
  \/ TooMany \/ Loop \/ Enter \/ DescribeFails
  \/ (\E url \in Urls : Redirect(url))
  \/ NoLocation \/ Found \/ OtherStatus

Spec == Init /\ [][Next]_vars

----------------------------------------------------------------------------
(* No URL is asked twice, and at most MaxHops redirects are followed.      *)
AskedOnce ==
  /\ \A m, n \in 1..Len(asked) : asked[m] = asked[n] => m = n
  /\ Len(asked) <= MaxHops + 1

(* What is returned as the answer was itself asked last and said 2xx, and  *)
(* everything before it redirected: the player is never sent to a URL that *)
(* was only announced.                                                     *)
AnswerConfirmed ==
  outcome = "ok" =>
    /\ Len(asked) > 0 /\ Len(hops) = Len(asked)
    /\ asked[Len(asked)] = cur
    /\ hops[Len(hops)] = "2xx"
    /\ \A m \in 1..(Len(hops) - 1) : hops[m] = "3xx"

(* The hops reported with an error are all that answered: every URL asked, *)
(* but for the one that failed.                                            *)
HopsComplete ==
  pc = "done" =>
    Len(asked) = Len(hops) + (IF outcome = "failed" THEN 1 ELSE 0)
=============================================================================
