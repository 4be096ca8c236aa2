---------------------------- MODULE MCSequential ----------------------------
(* Small instances of the parts that run on their own, in one goroutine or *)
(* one transaction: the time window, the redirect chain, the channel list, *)
(* the catch-up log and the configuration.  subject says which of them a   *)
(* behaviour is about; the others rest in one state each.                  *)
EXTENDS CatchupWindow, RedirectChain, Lineup, CatchupLog, JSONComments, TLC

(* Names of two groups: two that differ in a blank, the same with a 2, a   *)
(* blank one, and another.                                                 *)
MCNames     == {<<1>>, <<0, 1>>, <<1, 2>>, <<0>>, <<2>>}
MCRank      == [n \in MCNames |-> CHOOSE r \in 1..5 : <<n, r>> \in
                 {<<<<0>>, 1>>, <<<<0, 1>>, 2>>, <<<<1>>, 3>>,
                  <<<<1, 2>>, 4>>, <<<<2>>, 5>>}]
MCGroupRank == [n \in MCNames |-> IF n \in {<<0>>, <<2>>} THEN 2 ELSE 1]

(* "", " 1", "1" and "3"                                                   *)
NoIndex   == [number |-> 0, text |-> 0, rank |-> 0]
Padded    == [number |-> 0, text |-> 1, rank |-> 1]
Index(n)  == [number |-> n, text |-> n, rank |-> n + 1]
MCIndexes == {NoIndex, Padded, Index(1), Index(3)}

(* Blank and padded channels, some, and one ID with two addresses.         *)
MCOffered ==
  {c \in [id : Ids, name : MCNames, index : MCIndexes, url : Addresses] :
     /\ c.id # 1 => c.url = CHOOSE url \in Addresses : TRUE
     /\ c.name \in {<<0, 1>>, <<0>>} => c.index \in {Index(1), Index(3)}
     /\ c.index = Padded => c.name = <<1>>}

VARIABLE subject

sequentialVars == <<subject, windowVars, vars, lineupVars, logVars, stripVars>>

WindowRests ==
  /\ guide = <<>> /\ turn = 1 /\ cursor = 1 /\ best = Nothing
  /\ answer = [status |-> "pending"]
  /\ request = [start |-> NoTime, end |-> NoTime, mode |-> "local",
                now |-> 0, timeshift |-> FALSE, force |-> FALSE]

ChainRests ==
  /\ pc = "loop" /\ cur = (CHOOSE url \in Urls : TRUE) /\ i = 0
  /\ seen = {} /\ hops = <<>> /\ asked = <<>> /\ outcome = "none"

LineupRests ==
  /\ stage = "portal" /\ parsed = <<>>
  /\ channels = <<>> /\ bucket = <<>> /\ served = <<>>

LogRests ==
  /\ sees = TRUE /\ size = (CHOOSE s \in Sizes : TRUE)
  /\ log = <<>> /\ added = 0

StripRests ==
  /\ text = <<>> /\ context = <<"json">> /\ pos = 0
  /\ inString = FALSE /\ escaped = FALSE /\ copied = <<>>

SequentialInit ==
  \/ /\ subject = "comments" /\ StripInit
     /\ WindowRests /\ ChainRests /\ LineupRests /\ LogRests
  \/ /\ subject = "log" /\ LogInit
     /\ WindowRests /\ ChainRests /\ LineupRests /\ StripRests
  \/ /\ subject = "lineup" /\ LineupInit
     /\ WindowRests /\ ChainRests /\ LogRests /\ StripRests
  \/ /\ subject = "chain" /\ Init
     /\ WindowRests /\ LineupRests /\ LogRests /\ StripRests
  \/ /\ subject = "window" /\ WindowInit
     /\ ChainRests /\ LineupRests /\ LogRests /\ StripRests

SequentialNext ==
  \/ /\ subject = "window" /\ WindowNext
     /\ UNCHANGED <<subject, vars, lineupVars, logVars, stripVars>>
  \/ /\ subject = "chain" /\ Next
     /\ UNCHANGED <<subject, windowVars, lineupVars, logVars, stripVars>>
  \/ /\ subject = "lineup" /\ LineupNext
     /\ UNCHANGED <<subject, windowVars, vars, logVars, stripVars>>
  \/ /\ subject = "log" /\ LogNext
     /\ UNCHANGED <<subject, windowVars, vars, lineupVars, stripVars>>
  \/ /\ subject = "comments" /\ StripNext
     /\ UNCHANGED <<subject, windowVars, vars, lineupVars, logVars>>

SequentialSpec == SequentialInit /\ [][SequentialNext]_sequentialVars
=============================================================================
