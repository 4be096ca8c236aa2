----------------------------- MODULE ServerProofs -----------------------------
(***************************************************************************)
(* Proofs about Server for any number of connections and HTTP requests and *)
(* any deadline.                                                           *)
(*                                                                         *)
(* The heart of the argument is Counted: the acceptor is counted for as    *)
(* long as it can start a handler, so the count cannot leave zero.         *)
(***************************************************************************)
EXTENDS Server, TLAPS

(* Whoever can use the store or start somebody who can is in the count.    *)
Counted ==
  /\ acceptor \in {"accept", "spawn"} => "acceptor" \in wg
  /\ main = "start" => acceptor = "off"
  /\ \A c \in Conns : pc[c] = "accepted" =>
       acceptor = "spawn" /\ \A d \in Conns : pc[d] = "accepted" => d = c
  /\ \A c \in Conns : pc[c] \notin {"none", "accepted"} => c \in wg

(* The count is zero from the end of wg.Wait on.                           *)
Waited ==
  /\ main = "closeStore" => wg = {}
  /\ store = "closed" => main = "exit" /\ wg = {}

(* HTTP handlers run before Shutdown ends, or were left running.           *)
Shut ==
  /\ main \in {"start", "listen"} => https = {}
  /\ main \in {"closeRTSP", "waitRTSP", "closeStore"} => https = {} \/ cut
  /\ store = "closed" => https = {} \/ cut

(* A request is left behind only when there is nobody, no time or no sense. *)
LeftBehind ==
  \A c \in Conns : pc[c] \in {"read", "end"} /\ asked[c] =>
    left[c] = 0 \/ gone[c] \/ malformed[c]

IInv == TypeOK /\ Counted /\ Waited /\ Shut /\ LeftBehind

----------------------------------------------------------------------------
(* Every step keeps the types.                                             *)
LEMMA NextTypeOK == TypeOK /\ [Next]_vars => TypeOK'
<1> SUFFICES ASSUME TypeOK, [Next]_vars PROVE TypeOK'
  OBVIOUS
<1> USE ServerAssumption DEF ServerAssumption, TypeOK, server, conns
<1>1. CASE MainStep
  <2>1. CASE Start \/ ListenHTTP
    BY <2>1 DEF Start, ListenHTTP
  <2>2. CASE Shutdown \/ ServeFails \/ ShutdownEnds
    BY <2>2 DEF Shutdown, ServeFails, ShutdownEnds
  <2>3. CASE CloseListener \/ WaitRTSP \/ CloseStore
    BY <2>3 DEF CloseListener, WaitRTSP, CloseStore
  <2> QED  BY <1>1, <2>1, <2>2, <2>3 DEF MainStep
<1>2. CASE AcceptFails \/ Signal
  <2>1. CASE AcceptFails
    BY <2>1 DEF AcceptFails
  <2>2. CASE Signal
    BY <2>2 DEF Signal
  <2> QED  BY <1>2, <2>1, <2>2
<1>3. ASSUME NEW c \in Conns, Accept(c) \/ Spawn(c) \/ Request(c) PROVE TypeOK'
  <2>1. CASE Accept(c)
    BY <2>1 DEF Accept
  <2>2. CASE Spawn(c)
    <3>1. Deadline \in 0..Deadline
      OBVIOUS
    <3> QED  BY <2>2, <3>1, Zenon DEF Spawn
  <2>3. CASE Request(c)
    <3>1. CASE ReadLine(c)
      BY <3>1 DEF ReadLine
    <3>2. CASE BadLine(c)
      BY <3>2 DEF BadLine
    <3>3. CASE ReadHeader(c)
      BY <3>3 DEF ReadHeader
    <3>4. CASE BadHeader(c)
      BY <3>4 DEF BadHeader
    <3> QED  BY <2>3, <3>1, <3>2, <3>3, <3>4 DEF Request
  <2> QED  BY <1>3, <2>1, <2>2, <2>3
<1>4. ASSUME NEW c \in Conns, HandlerStep(c) PROVE TypeOK'
  BY <1>4 DEF HandlerStep, ReadFails, Options, Refuse, Describe, Resolved,
              End, Respond
<1>5. ASSUME NEW c \in Conns, Tick(c) \/ ClientLeaves(c) PROVE TypeOK'
  <2>1. CASE Tick(c)
    <3>1. left[c] - 1 \in 0..Deadline
      BY <2>1 DEF Tick
    <3> QED  BY <2>1, <3>1, Zenon DEF Tick
  <2>2. CASE ClientLeaves(c)
    BY <2>2 DEF ClientLeaves
  <2> QED  BY <1>5, <2>1, <2>2
<1>6. ASSUME NEW h \in Https, BeginHTTP(h) \/ EndHTTP(h) PROVE TypeOK'
  BY <1>6 DEF BeginHTTP, EndHTTP
<1>7. CASE UNCHANGED vars
  BY <1>7 DEF vars
<1> QED
  BY <1>1, <1>2, <1>3, <1>4, <1>5, <1>6, <1>7 DEF Next

(* Every step keeps the count and what hangs on it.                        *)
LEMMA NextCounted ==
  TypeOK /\ Counted /\ Waited /\ [Next]_vars => Counted' /\ Waited'
<1> SUFFICES ASSUME TypeOK, Counted, Waited, [Next]_vars
             PROVE  Counted' /\ Waited'
  OBVIOUS
<1> USE ServerAssumption
    DEF ServerAssumption, TypeOK, Counted, Waited, server, conns, Alive
<1>1. CASE MainStep
  <2>1. CASE Start
    BY <2>1 DEF Start
  <2>2. CASE ListenHTTP \/ Shutdown \/ ServeFails \/ ShutdownEnds
    BY <2>2 DEF ListenHTTP, Shutdown, ServeFails, ShutdownEnds
  <2>3. CASE CloseListener \/ WaitRTSP \/ CloseStore
    BY <2>3 DEF CloseListener, WaitRTSP, CloseStore
  <2> QED  BY <1>1, <2>1, <2>2, <2>3 DEF MainStep
<1>2. CASE AcceptFails \/ Signal
  BY <1>2 DEF AcceptFails, Signal
<1>3. ASSUME NEW c \in Conns, Accept(c) \/ Spawn(c) \/ Request(c)
      PROVE  Counted' /\ Waited'
  <2>1. CASE Accept(c)
    BY <2>1 DEF Accept
  <2>2. CASE Spawn(c)
    BY <2>2 DEF Spawn
  <2>3. CASE Request(c)
    BY <2>3 DEF Request, ReadLine, BadLine, ReadHeader, BadHeader
  <2> QED  BY <1>3, <2>1, <2>2, <2>3
<1>4. ASSUME NEW c \in Conns, HandlerStep(c) PROVE Counted' /\ Waited'
  BY <1>4 DEF HandlerStep, ReadFails, Options, Refuse, Describe, Resolved,
              End
<1>5. ASSUME NEW c \in Conns, Tick(c) \/ ClientLeaves(c)
      PROVE  Counted' /\ Waited'
  BY <1>5 DEF Tick, ClientLeaves
<1>6. ASSUME NEW h \in Https, BeginHTTP(h) \/ EndHTTP(h)
      PROVE  Counted' /\ Waited'
  BY <1>6 DEF BeginHTTP, EndHTTP
<1>7. CASE UNCHANGED vars
  BY <1>7 DEF vars
<1> QED
  BY <1>1, <1>2, <1>3, <1>4, <1>5, <1>6, <1>7 DEF Next

(* Every step keeps what is known of HTTP handlers and of requests left.   *)
LEMMA NextShut == IInv /\ [Next]_vars => Shut' /\ LeftBehind'
<1> SUFFICES ASSUME IInv, [Next]_vars PROVE Shut' /\ LeftBehind'
  OBVIOUS
<1> USE DEF IInv, TypeOK, Waited, Shut, LeftBehind, server, conns, Alive
<1>1. CASE MainStep
  BY <1>1 DEF MainStep, Start, ListenHTTP, Shutdown, ServeFails,
              ShutdownEnds, CloseListener, WaitRTSP, CloseStore
<1>2. CASE AcceptFails \/ Signal
  BY <1>2 DEF AcceptFails, Signal
<1>3. ASSUME NEW c \in Conns, Accept(c) \/ Spawn(c) \/ Request(c)
      PROVE  Shut' /\ LeftBehind'
  BY <1>3 DEF Accept, Spawn, Request, ReadLine, BadLine, ReadHeader,
              BadHeader
<1>4. ASSUME NEW c \in Conns, HandlerStep(c) PROVE Shut' /\ LeftBehind'
  BY <1>4 DEF HandlerStep, ReadFails, Options, Refuse, Describe, Resolved,
              End, Respond
<1>5. ASSUME NEW c \in Conns, Tick(c) \/ ClientLeaves(c)
      PROVE  Shut' /\ LeftBehind'
  BY <1>5 DEF Tick, ClientLeaves
<1>6. ASSUME NEW h \in Https, BeginHTTP(h) \/ EndHTTP(h)
      PROVE  Shut' /\ LeftBehind'
  BY <1>6 DEF BeginHTTP, EndHTTP
<1>7. CASE UNCHANGED vars
  BY <1>7 DEF vars
<1> QED
  BY <1>1, <1>2, <1>3, <1>4, <1>5, <1>6, <1>7 DEF Next

(* The invariant holds in every reachable state.                           *)
THEOREM SpecInv == Spec => []IInv
<1>1. Init => IInv
  <2> SUFFICES ASSUME Init PROVE IInv
    OBVIOUS
  <2>1. TypeOK
    <3>1. 0 \in 0..Deadline
      BY ServerAssumption DEF ServerAssumption
    <3> QED  BY <3>1, Zenon DEF Init, TypeOK
  <2>2. Counted /\ Waited /\ Shut /\ LeftBehind
    BY DEF Init, Counted, Waited, Shut, LeftBehind
  <2> QED  BY <2>1, <2>2 DEF IInv
<1>2. IInv /\ [Next]_vars => IInv'
  BY NextTypeOK, NextCounted, NextShut DEF IInv
<1> QED
  BY <1>1, <1>2, PTL DEF Spec

(* Every variable keeps its type.                                          *)
THEOREM SpecTypeOK == Spec => []TypeOK
  BY SpecInv, PTL DEF IInv

(* g.close comes after the last RTSP handler and, but for those Shutdown   *)
(* gave up, the last HTTP handler.                                         *)
THEOREM SpecStoreOutlivesHandlers == Spec => []StoreOutlivesHandlers
<1>1. IInv => StoreOutlivesHandlers
  BY DEF IInv, TypeOK, Counted, Waited, Shut, StoreOutlivesHandlers
<1> QED
  BY SpecInv, <1>1, PTL

(* Once wg.Wait has returned, no connection is accepted and no handler     *)
(* runs: Add never meets a finished Wait.                                  *)
THEOREM SpecWaitIsFinal == Spec => WaitIsFinal
<1> DEFINE Final == main = "closeStore" =>
             \A c \in Conns : pc[c] = "none" /\ pc'[c] = "none"
<1>1. IInv /\ [Next]_vars => [Final]_vars
  <2> SUFFICES ASSUME IInv, [Next]_vars, main = "closeStore"
               PROVE  \A c \in Conns : pc[c] = "none" /\ pc'[c] = "none"
    OBVIOUS
  <2>1. /\ \A c \in Conns : pc[c] = "none"
        /\ acceptor \notin {"accept", "spawn"}
    BY DEF IInv, TypeOK, Counted, Waited
  <2>2. IInv'
    BY NextTypeOK, NextCounted, NextShut DEF IInv
  <2>3. wg' = {}
    BY <2>1 DEF IInv, Waited, Next, vars, MainStep, Start, ListenHTTP, Shutdown,
           ServeFails, ShutdownEnds, CloseListener, WaitRTSP, CloseStore,
           AcceptFails, Signal, Accept, Spawn, Request, ReadLine, BadLine,
           ReadHeader, BadHeader, HandlerStep, ReadFails, Options, Refuse,
           Describe, Resolved, End, Tick, ClientLeaves, BeginHTTP, EndHTTP,
           server, conns
  <2>4. acceptor' = acceptor
    BY <2>1 DEF IInv, Next, vars, MainStep, Start, ListenHTTP, Shutdown,
           ServeFails, ShutdownEnds, CloseListener, WaitRTSP, CloseStore,
           AcceptFails, Signal, Accept, Spawn, Request, ReadLine, BadLine,
           ReadHeader, BadHeader, HandlerStep, ReadFails, Options, Refuse,
           Describe, Resolved, End, Tick, ClientLeaves, BeginHTTP, EndHTTP,
           server, conns
  <2> QED
    BY <2>1, <2>2, <2>3, <2>4 DEF IInv, TypeOK, Counted
<1> QED
  BY SpecInv, <1>1, PTL DEF Spec, WaitIsFinal

(* A connection's last request goes without an answer only when its time   *)
(* is over, its client is gone or its header is malformed.                 *)
THEOREM SpecAnswered == Spec => []Answered
<1>1. IInv => Answered
  BY DEF IInv, LeftBehind, Answered
<1> QED
  BY SpecInv, <1>1, PTL
=============================================================================
