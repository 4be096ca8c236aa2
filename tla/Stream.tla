------------------------------- MODULE Stream -------------------------------
(***************************************************************************)
(* GET /catchup.ts: stream.go (streamTS).                                  *)
(*                                                                         *)
(* A request takes a slot of tsSem, resolves its programme, opens an RTSP  *)
(* session upstream and copies MPEG-TS packets to the client.  Packets     *)
(* arrive in a callback that runs in the RTSP library's reader and pushes  *)
(* into a buffered channel; when that is full the callback waits for room  *)
(* or for the end of the context.  On every return the deferred calls run  *)
(* in reverse order: cancel, close of the RTSP client, release of the slot. *)
(*                                                                         *)
(* The RTSP library is outside: its Close waits for the reader, hence for  *)
(* a callback in progress, and its Wait returns when the reader has ended. *)
(* Packets are numbered as they arrive; the RTP decoder refuses some.      *)
(***************************************************************************)
EXTENDS Naturals, Sequences, FiniteSets

CONSTANTS
  Streams,     \* requests for /catchup.ts
  Slots,       \* capacity of tsSem: max(1, ts_max_concurrent)
  Buffer,      \* capacity of packets: 256
  MaxPackets   \* bound: packets of one stream

ASSUME StreamAssumption ==
  /\ IsFiniteSet(Streams)
  /\ Slots \in Nat \ {0} /\ Buffer \in Nat \ {0} /\ MaxPackets \in Nat

VARIABLES
  taken,      \* slots taken: len(tsSem)
  pc,         \* where each request is
  gone,       \* the client has left: r.Context() is done
  cancelled,  \* cancel() was called
  session,    \* an RTSP session is open upstream
  callback,   \* "off", "idle", or "blocked" on a full channel
  arrived,    \* packets that have reached the callback
  decoded,    \* history: those of them that the decoder took
  packets,    \* the channel
  inHand,     \* the packet about to be written
  written,    \* packets written to the client
  ended,      \* waitErr has a value
  response    \* what the client was answered

vars == <<taken, pc, gone, cancelled, session, callback, arrived, decoded,
          packets, inHand, written, ended, response>>

Points == {"idle", "acquire", "resolve", "start", "describe", "play",
           "first", "write", "select", "cancel", "close", "release"}

TypeOK ==
  /\ taken \in 0..Slots
  /\ pc \in [Streams -> Points]
  /\ gone \in [Streams -> BOOLEAN]
  /\ cancelled \in [Streams -> BOOLEAN]
  /\ session \in [Streams -> BOOLEAN]
  /\ callback \in [Streams -> {"off", "idle", "blocked"}]
  /\ arrived \in [Streams -> 0..MaxPackets]
  /\ decoded \in [Streams -> Seq(1..MaxPackets)]
  /\ packets \in [Streams -> Seq(1..MaxPackets)]
  /\ inHand \in [Streams -> 0..MaxPackets]
  /\ written \in [Streams -> Seq(1..MaxPackets)]
  /\ ended \in [Streams -> BOOLEAN]
  /\ response \in [Streams -> {"none", "200", "error"}]

Init ==
  /\ taken = 0
  /\ pc = [s \in Streams |-> "idle"]
  /\ gone = [s \in Streams |-> FALSE]
  /\ cancelled = [s \in Streams |-> FALSE]
  /\ session = [s \in Streams |-> FALSE]
  /\ callback = [s \in Streams |-> "off"]
  /\ arrived = [s \in Streams |-> 0]
  /\ decoded = [s \in Streams |-> <<>>]
  /\ packets = [s \in Streams |-> <<>>]
  /\ inHand = [s \in Streams |-> 0]
  /\ written = [s \in Streams |-> <<>>]
  /\ ended = [s \in Streams |-> FALSE]
  /\ response = [s \in Streams |-> "none"]

Goto(s, point) == pc' = [pc EXCEPT ![s] = point]
Respond(s, code) == response' = [response EXCEPT ![s] = code]

source   == <<callback, arrived, decoded, ended>>
pipe     == <<packets, inHand, written>>
upstream == <<session, cancelled, source, pipe>>

----------------------------------------------------------------------------
(* The request.                                                            *)

Get(s) ==
  /\ pc[s] = "idle"
  /\ Goto(s, "acquire")
  /\ gone' = [gone EXCEPT ![s] = FALSE]
  /\ UNCHANGED <<taken, response, upstream>>

(* A slot, or the client's end while waiting for one.                      *)
Acquire(s) ==
  /\ pc[s] = "acquire"
  /\ \/ taken < Slots /\ taken' = taken + 1 /\ Goto(s, "resolve")
     \/ gone[s] /\ Goto(s, "idle") /\ UNCHANGED taken
  /\ UNCHANGED <<gone, response, upstream>>

(* Mutation of Resolve: an error returns without the deferred release.     *)
ResolveKeepsSlot(s) ==
  /\ pc[s] = "resolve"
  /\ \/ Goto(s, "start") /\ UNCHANGED response
     \/ Goto(s, "idle") /\ Respond(s, "error")
  /\ UNCHANGED <<taken, gone, upstream>>

(* resolveFinalCatchup and the parse of its URL.                           *)
Resolve(s) ==
  /\ pc[s] = "resolve"
  /\ \/ Goto(s, "start") /\ UNCHANGED response
     \/ Goto(s, "release") /\ Respond(s, "error")
  /\ UNCHANGED <<taken, gone, upstream>>

(* c.Start()                                                               *)
StartClient(s) ==
  /\ pc[s] = "start"
  /\ \/ /\ Goto(s, "describe")
        /\ session' = [session EXCEPT ![s] = TRUE]
        /\ UNCHANGED response
     \/ /\ Goto(s, "release")
        /\ Respond(s, "error")
        /\ UNCHANGED session
  /\ UNCHANGED <<taken, gone, cancelled, source, pipe>>

(* Mutation of Describe: an error returns before the deferred close.       *)
DescribeKeepsSession(s) ==
  /\ pc[s] = "describe"
  /\ \/ /\ Goto(s, "play")
        /\ callback' = [callback EXCEPT ![s] = "idle"]
        /\ UNCHANGED response
     \/ /\ Goto(s, "release")
        /\ Respond(s, "error")
        /\ UNCHANGED callback
  /\ UNCHANGED <<taken, gone, cancelled, session, arrived, decoded, ended,
                 pipe>>

(* c.Describe, findMPEGTS, c.Setup; then the callback is registered.       *)
Describe(s) ==
  /\ pc[s] = "describe"
  /\ \/ /\ Goto(s, "play")
        /\ callback' = [callback EXCEPT ![s] = "idle"]
        /\ UNCHANGED response
     \/ /\ Goto(s, "close")
        /\ Respond(s, "error")
        /\ UNCHANGED callback
  /\ UNCHANGED <<taken, gone, cancelled, session, arrived, decoded, ended,
                 pipe>>

(* c.Play                                                                  *)
Play(s) ==
  /\ pc[s] = "play"
  /\ \/ Goto(s, "first") /\ UNCHANGED response
     \/ Goto(s, "cancel") /\ Respond(s, "error")
  /\ UNCHANGED <<taken, gone, upstream>>

TakePacket(s) ==
  /\ packets[s] # <<>>
  /\ inHand' = [inHand EXCEPT ![s] = Head(packets[s])]
  /\ packets' = [packets EXCEPT ![s] = Tail(packets[s])]
  /\ Goto(s, "write")
  /\ UNCHANGED written

(* Mutation of First: the start timer ends the request without an answer.  *)
FirstSilentTimeout(s) ==
  /\ pc[s] = "first"
  /\ \/ TakePacket(s) /\ Respond(s, "200")
     \/ ended[s] /\ Goto(s, "cancel") /\ Respond(s, "error") /\ UNCHANGED pipe
     \/ Goto(s, "cancel") /\ UNCHANGED <<pipe, response>>
  /\ UNCHANGED <<taken, gone, cancelled, session, source>>

(* The first select: a packet, the end of the session, the start timer, or *)
(* the end of the client; any that is ready may be chosen.                 *)
First(s) ==
  /\ pc[s] = "first"
  /\ \/ TakePacket(s) /\ Respond(s, "200")
     \/ ended[s] /\ Goto(s, "cancel") /\ Respond(s, "error") /\ UNCHANGED pipe
     \/ Goto(s, "cancel") /\ Respond(s, "error") /\ UNCHANGED pipe
     \/ gone[s] /\ Goto(s, "cancel") /\ UNCHANGED <<pipe, response>>
  /\ UNCHANGED <<taken, gone, cancelled, session, source>>

(* w.Write fails only if the client has left; for the first packet the     *)
(* error is ignored.                                                       *)
Write(s) ==
  /\ pc[s] = "write"
  /\ \/ /\ Goto(s, "select")
        /\ written' = [written EXCEPT ![s] = Append(@, inHand[s])]
     \/ /\ gone[s]
        /\ Goto(s, IF written[s] = <<>> THEN "select" ELSE "cancel")
        /\ UNCHANGED written
  /\ UNCHANGED <<taken, gone, response, session, cancelled, source, packets,
                 inHand>>

(* The select of the loop: a packet, the end of the session, the idle      *)
(* timer, or the end of the client.                                        *)
Select(s) ==
  /\ pc[s] = "select"
  /\ \/ TakePacket(s)
     \/ Goto(s, "cancel") /\ UNCHANGED pipe
  /\ UNCHANGED <<taken, gone, cancelled, session, source, response>>

(* Mutation of CancelContext: the client is closed before the context ends. *)
CancelContextNot(s) ==
  /\ pc[s] = "cancel"
  /\ Goto(s, "close")
  /\ UNCHANGED <<taken, gone, response, session, source, pipe, cancelled>>

(* The deferred calls, last first: cancel(), ...                           *)
CancelContext(s) ==
  /\ pc[s] = "cancel"
  /\ cancelled' = [cancelled EXCEPT ![s] = TRUE]
  /\ Goto(s, "close")
  /\ UNCHANGED <<taken, gone, response, session, source, pipe>>

(* ... c.Close(), which waits for the callback, ...                        *)
CloseClient(s) ==
  /\ pc[s] = "close"
  /\ callback[s] # "blocked"
  /\ session' = [session EXCEPT ![s] = FALSE]
  /\ callback' = [callback EXCEPT ![s] = "off"]
  /\ Goto(s, "release")
  /\ UNCHANGED <<taken, gone, response, cancelled, arrived, decoded, ended,
                 pipe>>

(* ... and <-g.tsSem; what was local to the request is gone.               *)
Release(s) ==
  /\ pc[s] = "release"
  /\ taken' = taken - 1
  /\ Goto(s, "idle")
  /\ cancelled' = [cancelled EXCEPT ![s] = FALSE]
  /\ arrived' = [arrived EXCEPT ![s] = 0]
  /\ decoded' = [decoded EXCEPT ![s] = <<>>]
  /\ packets' = [packets EXCEPT ![s] = <<>>]
  /\ inHand' = [inHand EXCEPT ![s] = 0]
  /\ written' = [written EXCEPT ![s] = <<>>]
  /\ ended' = [ended EXCEPT ![s] = FALSE]
  /\ Respond(s, "none")
  /\ UNCHANGED <<gone, session, callback>>

----------------------------------------------------------------------------
(* The callback, the upstream server and the client.                       *)

(* Mutation of Packet: a full channel drops the packet.                    *)
PacketDropped(s) ==
  /\ callback[s] = "idle" /\ ~ended[s] /\ arrived[s] < MaxPackets
  /\ arrived' = [arrived EXCEPT ![s] = @ + 1]
  /\ decoded' = [decoded EXCEPT ![s] = Append(@, arrived[s] + 1)]
  /\ packets' = [packets EXCEPT ![s] =
       IF Len(@) < Buffer THEN Append(@, arrived[s] + 1) ELSE @]
  /\ UNCHANGED <<callback, taken, pc, gone, response, session, cancelled,
                 ended, inHand, written>>

(* The callback of OnPacketRTP is called with the next packet.  One that   *)
(* does not decode is forgotten; ...                                       *)
Undecodable(s) ==
  /\ callback[s] = "idle" /\ ~ended[s] /\ arrived[s] < MaxPackets
  /\ arrived' = [arrived EXCEPT ![s] = @ + 1]
  /\ UNCHANGED <<taken, pc, gone, response, session, cancelled, ended,
                 callback, decoded, pipe>>

(* ... any other goes into the channel, or the callback waits for room.    *)
Packet(s) ==
  /\ callback[s] = "idle" /\ ~ended[s] /\ arrived[s] < MaxPackets
  /\ arrived' = [arrived EXCEPT ![s] = @ + 1]
  /\ decoded' = [decoded EXCEPT ![s] = Append(@, arrived[s] + 1)]
  /\ \/ /\ Len(packets[s]) < Buffer
        /\ packets' = [packets EXCEPT ![s] = Append(@, arrived[s] + 1)]
        /\ UNCHANGED callback
     \/ /\ Len(packets[s]) = Buffer
        /\ callback' = [callback EXCEPT ![s] = "blocked"]
        /\ UNCHANGED packets
  /\ UNCHANGED <<taken, pc, gone, response, session, cancelled, ended,
                 inHand, written>>

(* A waiting callback finds room, or its context done.                     *)
Unblock(s) ==
  /\ callback[s] = "blocked"
  /\ callback' = [callback EXCEPT ![s] = "idle"]
  /\ \/ /\ Len(packets[s]) < Buffer
        /\ packets' = [packets EXCEPT ![s] = Append(@, arrived[s])]
     \/ /\ cancelled[s] \/ gone[s]
        /\ UNCHANGED packets
  /\ UNCHANGED <<taken, pc, gone, response, session, cancelled, arrived,
                 decoded, ended, inHand, written>>

(* The session ends: c.Wait() returns into waitErr.                        *)
SessionEnds(s) ==
  /\ callback[s] = "idle" /\ ~ended[s]
  /\ pc[s] \in {"first", "write", "select"}
  /\ ended' = [ended EXCEPT ![s] = TRUE]
  /\ UNCHANGED <<taken, pc, gone, response, session, cancelled, callback,
                 arrived, decoded, pipe>>

ClientLeaves(s) ==
  /\ pc[s] # "idle" /\ ~gone[s]
  /\ gone' = [gone EXCEPT ![s] = TRUE]
  /\ UNCHANGED <<taken, pc, response, upstream>>

Deferred(s) == CancelContext(s) \/ CloseClient(s) \/ Release(s)

HandlerStep(s) ==
  \/ Acquire(s) \/ Resolve(s) \/ StartClient(s) \/ Describe(s) \/ Play(s)
  \/ First(s) \/ Write(s) \/ Select(s) \/ Deferred(s)

Next ==
  \E s \in Streams :
    \/ Get(s) \/ HandlerStep(s)
    \/ Packet(s) \/ Undecodable(s) \/ Unblock(s) \/ SessionEnds(s)
    \/ ClientLeaves(s)

Spec == Init /\ [][Next]_vars

(* The handler goes on while something in its select is ready, and some    *)
(* timer always gets ready; a client reads or leaves.  A slot goes to the  *)
(* waiters in turn.  Of a select's ready cases each is taken sometimes.    *)
FairSpec ==
  /\ Spec
  /\ \A s \in Streams :
       /\ WF_vars(HandlerStep(s)) /\ SF_vars(Acquire(s))
       /\ WF_vars(Unblock(s))
       /\ SF_vars(gone[s] /\ Select(s) /\ pc'[s] = "cancel")

----------------------------------------------------------------------------
(* A slot is held from Acquire to Release and by nobody else, on every way *)
(* out.                                                                    *)
SlotsHeld ==
  taken = Cardinality({s \in Streams : pc[s] \notin {"idle", "acquire"}})

(* No more sessions are open upstream than there are slots: a slot is      *)
(* free only after its session has been closed.                            *)
SessionsBounded == Cardinality({s \in Streams : session[s]}) <= Slots

(* A client that stays is answered, whatever went wrong.                   *)
Answered ==
  \A s \in Streams :
    pc[s] = "release" /\ ~gone[s] => response[s] # "none"

(* What was written, what is in hand, in the channel and in the callback   *)
(* are together the packets the decoder took, each once and in the order   *)
(* they arrived, as long as the client is there and nobody has cancelled:  *)
(* a slow client delays packets and never loses one, and nothing but the   *)
(* decoder leaves one out.                                                 *)
InHand(s) == IF pc[s] = "write" THEN <<inHand[s]>> ELSE <<>>
Held(s)   == IF callback[s] = "blocked" THEN <<arrived[s]>> ELSE <<>>

DecodedDelivered ==
  \A s \in Streams : ~gone[s] /\ ~cancelled[s] =>
    written[s] \o InHand(s) \o packets[s] \o Held(s) = decoded[s]

(* A request that is on its way out, or whose client has left, gives its   *)
(* slot back, even with the callback stuck on a full channel.              *)
SlotFreed ==
  \A s \in Streams : gone[s] \/ pc[s] \in {"cancel", "close"}
                     ~> pc[s] \in {"idle", "acquire"}
=============================================================================
