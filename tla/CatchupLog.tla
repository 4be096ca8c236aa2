----------------------------- MODULE CatchupLog -----------------------------
(***************************************************************************)
(* The log of catch-up requests: cache.go (addCatchupLog,                  *)
(* loadCatchupLogs).                                                       *)
(*                                                                         *)
(* Each entry gets the next number of the bucket's sequence and is stored  *)
(* and the bucket trimmed in one transaction.  How many entries there are  *)
(* is asked of the bucket's statistics, inside that transaction.  bbolt    *)
(* counts the pages of the bucket, and what a transaction writes gets to   *)
(* its pages only with the commit; sees is the other reading, in which the *)
(* statistics know of the writes before them.                              *)
(***************************************************************************)
EXTENDS Integers, Sequences

CONSTANTS
  Sizes,     \* catchup_log_size in the runs of the process
  MaxAdded   \* bound: entries added

ASSUME LogAssumption == Sizes \subseteq Int /\ MaxAdded \in Nat

VARIABLES
  sees,   \* statistics see the writes of their own transaction
  size,   \* catchup_log_size of this run
  log,    \* the numbers in the logs bucket, in order
  added   \* the sequence of the bucket

logVars == <<sees, size, log, added>>

Smaller(m, n) == IF m < n THEN m ELSE n
MaxLogs == IF size < 1 THEN 1 ELSE size

LogInit ==
  /\ sees \in BOOLEAN /\ size \in Sizes
  /\ log = <<>> /\ added = 0

(* The loop deletes the first entry as long as there is one and the count  *)
(* is too high; a count of what was committed never changes in the loop.   *)
Trimmed(entries) ==
  IF sees
  THEN SubSeq(entries, Len(entries) - Smaller(MaxLogs, Len(entries)) + 1,
              Len(entries))
  ELSE IF Len(log) > MaxLogs THEN <<>> ELSE entries

(* Mutation of AddCatchupLog: the number is one more than the entries, not *)
(* the next of the sequence.                                               *)
AddCatchupLogByCount ==
  /\ added < MaxAdded
  /\ added' = added + 1
  /\ log' = Trimmed(Append(log, Len(log) + 1))
  /\ UNCHANGED <<sees, size>>

AddCatchupLog ==
  /\ added < MaxAdded
  /\ added' = added + 1
  /\ log' = Trimmed(Append(log, added + 1))
  /\ UNCHANGED <<sees, size>>

(* The process comes back, maybe with another catchup_log_size.            *)
RestartResized ==
  /\ \E s \in Sizes : size' = s
  /\ UNCHANGED <<sees, log, added>>

LogNext == AddCatchupLog \/ RestartResized

LogSpec == LogInit /\ [][LogNext]_logVars

(* loadCatchupLogs: the newest first.                                      *)
LoadCatchupLogs ==
  [n \in 1..Smaller(MaxLogs, Len(log)) |-> log[Len(log) + 1 - n]]

----------------------------------------------------------------------------
(* Whatever the statistics count and however the size changes, the log     *)
(* shown is of the requests made last, newest first, without a gap.        *)
LogIsRecent ==
  \A n \in DOMAIN LoadCatchupLogs : LoadCatchupLogs[n] = added - n + 1

(* The loop of addCatchupLog runs while the log is longer than maxLogs: it *)
(* ends with the newest entries that fit, the one just added among them.   *)
NewestKept == added > 0 => Len(log) > 0 /\ log[Len(log)] = added
=============================================================================
