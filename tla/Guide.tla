------------------------------- MODULE Guide -------------------------------
(***************************************************************************)
(* What the refresh task (epg.go) promises to those who read the guide:    *)
(* whoever asks and however often, attempts are made one at a time; an     *)
(* attempt that was not forced replaces the snapshot only when the guide   *)
(* is due; the new snapshot is not empty and not half as large as what was *)
(* there; it is written once, then shown, then stamped, in that order; and *)
(* a restart cuts an attempt short but shows what is stored.               *)
(***************************************************************************)
EXTENDS Naturals

CONSTANTS
  Lineups, NoLineup,  \* channel lists, and none
  MaxPrograms,        \* bound: programmes one attempt can fetch
  RefreshHours,       \* a guide younger than this is not due
  Interval,           \* the age at which the clock stops counting
  Protect             \* protect_cache_on_empty_refresh

VARIABLES
  stored,    \* the snapshot: channels and how many programmes
  channels,  \* the channels that are shown
  stamped,   \* an attempt has stamped its snapshot
  age,       \* how long ago
  attempt    \* how far the attempt is

guideVars == <<stored, channels, stamped, age, attempt>>

GuideInit ==
  /\ stored = [lineup |-> NoLineup, programs |-> 0]
  /\ channels = NoLineup
  /\ stamped = FALSE
  /\ age = 0
  /\ attempt = "none"

Begin ==
  /\ attempt = "none"
  /\ attempt' \in {"forced", "unforced"}
  /\ UNCHANGED <<stored, channels, stamped, age>>

Due == ~stamped \/ age >= RefreshHours

(* fetched programmes make listed ones: duplicates are listed once.        *)
Replace(lineup, fetched, listed) ==
  /\ attempt = "forced" \/ (attempt = "unforced" /\ Due)
  /\ listed <= fetched /\ (fetched > 0 => listed > 0)
  /\ Protect => fetched > 0 /\ fetched * 2 >= stored.programs
  /\ stored' = [lineup |-> lineup, programs |-> listed]
  /\ attempt' = "replaced"
  /\ UNCHANGED <<channels, stamped, age>>

Show ==
  /\ attempt = "replaced"
  /\ channels' = stored.lineup
  /\ attempt' = "shown"
  /\ UNCHANGED <<stored, stamped, age>>

(* The stamp may fail to be written: the guide stays due.                  *)
Vouch ==
  /\ attempt = "shown"
  /\ \/ stamped' = TRUE /\ age' = 0
     \/ UNCHANGED <<stamped, age>>
  /\ attempt' = "over"
  /\ UNCHANGED <<stored, channels>>

(* Given up before the snapshot is written, or over.                       *)
End ==
  /\ attempt \in {"forced", "unforced", "over"}
  /\ attempt' = "none"
  /\ UNCHANGED <<stored, channels, stamped, age>>

GrowOld ==
  /\ age' = IF age < Interval THEN age + 1 ELSE age
  /\ UNCHANGED <<stored, channels, stamped, attempt>>

StartOver ==
  /\ channels' = stored.lineup
  /\ attempt' = "none"
  /\ UNCHANGED <<stored, stamped, age>>

GuideNext ==
  \/ Begin
  \/ \E lineup \in Lineups, fetched, listed \in 0..MaxPrograms :
       Replace(lineup, fetched, listed)
  \/ Show \/ Vouch \/ End \/ GrowOld \/ StartOver

GuideSpec == GuideInit /\ [][GuideNext]_guideVars
=============================================================================
