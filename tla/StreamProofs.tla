----------------------------- MODULE StreamProofs -----------------------------
(***************************************************************************)
(* Proofs about Stream for any number of requests and slots, any channel   *)
(* and any number of packets.                                              *)
(*                                                                         *)
(* DecodedDelivered is inductive with the types; a step moves a packet     *)
(* across one of the seams of its concatenation, which the lemmas about    *)
(* sequences say does not change the whole.                                *)
(***************************************************************************)
EXTENDS Stream, FiniteSetTheorems, SequenceTheorems, TLAPS

Holders == {s \in Streams : pc[s] \notin {"idle", "acquire"}}

(* A packet in hand or held by the callback is one that arrived.           *)
Real ==
  \A s \in Streams :
    /\ pc[s] = "write" => inHand[s] # 0
    /\ callback[s] = "blocked" => arrived[s] # 0

(* The session and the callback live only between their start and close,   *)
(* and the context is over only after cancel().                            *)
Open ==
  \A s \in Streams :
    /\ session[s] => pc[s] \in {"describe", "play", "first", "write", "select",
                                "cancel", "close"}
    /\ callback[s] # "off" => pc[s] \in {"play", "first", "write", "select",
                                         "cancel", "close"}
    /\ cancelled[s] => pc[s] \in {"close", "release"}

(* Who copies packets has answered, and who is on the way out has, or has  *)
(* nobody to answer.                                                       *)
Replied ==
  \A s \in Streams :
    /\ pc[s] \in {"write", "select"} => response[s] # "none"
    /\ pc[s] \in {"cancel", "close", "release"} /\ ~gone[s]
         => response[s] # "none"

(* A request that has no slot has no packets.                              *)
Clean ==
  \A s \in Streams : pc[s] \in {"idle", "acquire"} =>
    written[s] = <<>> /\ packets[s] = <<>> /\ decoded[s] = <<>>

IInv == TypeOK /\ Real /\ SlotsHeld /\ Open /\ Replied /\ Clean /\ DecodedDelivered

----------------------------------------------------------------------------
(* Every step keeps the types; the slots counted never exceed Slots, since *)
(* they are held.                                                          *)
LEMMA TakeTypes ==
  ASSUME TypeOK, NEW s \in Streams, TakePacket(s)
  PROVE  /\ packets' \in [Streams -> Seq(1..MaxPackets)]
         /\ inHand' \in [Streams -> 0..MaxPackets]
         /\ written' \in [Streams -> Seq(1..MaxPackets)]
         /\ pc' \in [Streams -> Points]
         /\ inHand'[s] # 0
<1>1. packets[s] \in Seq(1..MaxPackets) /\ packets[s] # <<>>
  BY DEF TypeOK, TakePacket
<1>2. Head(packets[s]) \in 1..MaxPackets /\ Tail(packets[s]) \in Seq(1..MaxPackets)
  BY <1>1, HeadTailProperties
<1> QED  BY <1>2, StreamAssumption DEF StreamAssumption, TypeOK, TakePacket,
            Goto, Points

LEMMA NextTypeOK ==
  ASSUME TypeOK, SlotsHeld, Real, [Next]_vars PROVE TypeOK'
<1> USE StreamAssumption DEF StreamAssumption, TypeOK, Points, Goto, Respond,
        source, pipe, upstream
<1>1. CASE UNCHANGED vars
  BY <1>1 DEF vars
<1>2. ASSUME NEW s \in Streams, Get(s) PROVE TypeOK'
  BY <1>2 DEF Get
<1>3. ASSUME NEW s \in Streams, Acquire(s) PROVE TypeOK'
  <2>1. taken' \in 0..Slots
    BY <1>3 DEF Acquire
  <2>2. pc' \in [Streams -> Points]
    <3>1. \E point \in {"resolve", "idle"} : pc' = [pc EXCEPT ![s] = point]
      BY <1>3 DEF Acquire
    <3> QED  BY <3>1
  <2> QED  BY <1>3, <2>1, <2>2 DEF Acquire
<1>4. ASSUME NEW s \in Streams,
             Resolve(s) \/ StartClient(s) \/ Describe(s) \/ Play(s)
      PROVE  TypeOK'
  <2>1. CASE Resolve(s)
    BY <2>1 DEF Resolve
  <2>2. CASE StartClient(s)
    BY <2>2 DEF StartClient
  <2>3. CASE Describe(s)
    BY <2>3 DEF Describe
  <2>4. CASE Play(s)
    BY <2>4 DEF Play
  <2> QED  BY <1>4, <2>1, <2>2, <2>3, <2>4
<1>5. ASSUME NEW s \in Streams, First(s) \/ Select(s) PROVE TypeOK'
  <2>1. pc' \in [Streams -> Points]
    <3>1. \E point \in {"write", "cancel"} : pc' = [pc EXCEPT ![s] = point]
      BY <1>5 DEF First, Select, TakePacket
    <3> QED  BY <3>1
  <2>2. response' \in [Streams -> {"none", "200", "error"}]
    BY <1>5 DEF First, Select
  <2>3. /\ packets' \in [Streams -> Seq(1..MaxPackets)]
        /\ inHand' \in [Streams -> 0..MaxPackets]
        /\ written' \in [Streams -> Seq(1..MaxPackets)]
    <3>1. CASE TakePacket(s)
      BY <3>1, TakeTypes
    <3>2. CASE UNCHANGED pipe
      BY <3>2
    <3> QED  BY <1>5, <3>1, <3>2 DEF First, Select
  <2> QED  BY <1>5, <2>1, <2>2, <2>3 DEF First, Select
<1>6. ASSUME NEW s \in Streams, Write(s) PROVE TypeOK'
  <2>1. pc' \in [Streams -> Points]
    <3>1. \E point \in {"select", "cancel"} : pc' = [pc EXCEPT ![s] = point]
      BY <1>6 DEF Write
    <3> QED  BY <3>1
  <2>2. inHand[s] \in 1..MaxPackets
    BY <1>6 DEF Real, Write
  <2>3. written' \in [Streams -> Seq(1..MaxPackets)]
    <3>1. Append(written[s], inHand[s]) \in Seq(1..MaxPackets)
      BY <2>2, AppendProperties
    <3> QED  BY <1>6, <3>1 DEF Write
  <2> QED  BY <1>6, <2>1, <2>3 DEF Write
<1>7. ASSUME NEW s \in Streams, Deferred(s) PROVE TypeOK'
  <2>1. CASE CancelContext(s)
    BY <2>1 DEF CancelContext
  <2>2. CASE CloseClient(s)
    BY <2>2 DEF CloseClient
  <2>3. CASE Release(s)
    <3>1. s \in Holders /\ IsFiniteSet(Holders)
      BY <2>3, FS_Subset DEF Release, Holders
    <3>2. Cardinality(Holders) # 0
      BY <3>1, FS_EmptySet
    <3>3. taken # 0
      BY <3>2 DEF SlotsHeld, Holders
    <3> QED  BY <2>3, <3>3 DEF Release
  <2> QED  BY <1>7, <2>1, <2>2, <2>3 DEF Deferred
<1>8. ASSUME NEW s \in Streams, Packet(s) PROVE TypeOK'
  <2>1. arrived[s] + 1 \in 1..MaxPackets
    BY <1>8 DEF Packet
  <2>2. arrived' \in [Streams -> 0..MaxPackets]
    BY <1>8, <2>1 DEF Packet
  <2>3. packets' \in [Streams -> Seq(1..MaxPackets)]
    <3>1. Append(packets[s], arrived[s] + 1) \in Seq(1..MaxPackets)
      BY <2>1, AppendProperties
    <3> QED  BY <1>8, <3>1 DEF Packet
  <2>4. callback' \in [Streams -> {"off", "idle", "blocked"}]
    <3>1. callback' = callback \/ callback' = [callback EXCEPT ![s] = "blocked"]
      BY <1>8 DEF Packet
    <3> QED  BY <3>1
  <2>5. decoded' \in [Streams -> Seq(1..MaxPackets)]
    <3>1. Append(decoded[s], arrived[s] + 1) \in Seq(1..MaxPackets)
      BY <2>1, AppendProperties
    <3> QED  BY <1>8, <3>1 DEF Packet
  <2> QED  BY <1>8, <2>2, <2>3, <2>4, <2>5 DEF Packet
<1>9. ASSUME NEW s \in Streams, Unblock(s) PROVE TypeOK'
  <2>1. arrived[s] \in 1..MaxPackets
    BY <1>9 DEF Unblock, Real
  <2>2. packets' \in [Streams -> Seq(1..MaxPackets)]
    <3>1. Append(packets[s], arrived[s]) \in Seq(1..MaxPackets)
      BY <2>1, AppendProperties
    <3> QED  BY <1>9, <3>1 DEF Unblock
  <2> QED  BY <1>9, <2>2 DEF Unblock
<1>10. ASSUME NEW s \in Streams, SessionEnds(s) \/ ClientLeaves(s)
              \/ Undecodable(s)
       PROVE  TypeOK'
  <2>1. CASE SessionEnds(s)
    BY <2>1 DEF SessionEnds
  <2>2. CASE ClientLeaves(s)
    BY <2>2 DEF ClientLeaves
  <2>3. CASE Undecodable(s)
    BY <2>3 DEF Undecodable
  <2> QED  BY <1>10, <2>1, <2>2, <2>3
<1> QED  BY <1>1, <1>2, <1>3, <1>4, <1>5, <1>6, <1>7, <1>8, <1>9, <1>10
         DEF Next, HandlerStep

(* A packet in hand and one held by the callback have come from somewhere. *)
LEMMA NextReal == ASSUME TypeOK, Open, Real, [Next]_vars PROVE Real'
<1> SUFFICES ASSUME NEW s \in Streams
             PROVE  /\ pc'[s] = "write" => inHand'[s] # 0
                    /\ callback'[s] = "blocked" => arrived'[s] # 0
  BY DEF Real
<1> USE DEF TypeOK, Real, Goto, Respond, source, pipe, upstream
<1>1. CASE UNCHANGED vars
  BY <1>1 DEF vars
<1>2. ASSUME NEW r \in Streams, TakePacket(r)
      PROVE  pc'[s] = "write" => inHand'[s] # 0
  BY <1>2, TakeTypes DEF TakePacket
<1>3. ASSUME NEW r \in Streams, First(r) \/ Select(r)
      PROVE  /\ pc'[s] = "write" => inHand'[s] # 0
             /\ UNCHANGED source
  <2>1. CASE TakePacket(r)
    BY <1>2, <1>3, <2>1 DEF First, Select
  <2>2. CASE Goto(r, "cancel") /\ UNCHANGED pipe
    BY <1>3, <2>2 DEF First, Select
  <2> QED  BY <1>3, <2>1, <2>2 DEF First, Select
<1>4. ASSUME NEW r \in Streams, Get(r) \/ Acquire(r) \/ Resolve(r)
             \/ StartClient(r) \/ Describe(r) \/ Play(r) \/ Write(r)
      PROVE  /\ pc'[s] = "write" => inHand'[s] # 0
             /\ callback'[s] = "blocked" => arrived'[s] # 0
  <2>1. CASE Get(r)
    BY <2>1 DEF Open, Get
  <2>2. CASE Acquire(r)
    BY <2>2 DEF Acquire
  <2>3. CASE Resolve(r)
    BY <2>3 DEF Resolve
  <2>4. CASE StartClient(r)
    BY <2>4 DEF StartClient
  <2>5. CASE Describe(r)
    BY <2>5 DEF Describe
  <2>6. CASE Play(r)
    BY <2>6 DEF Play
  <2>7. CASE Write(r)
    BY <2>7 DEF Write
  <2> QED  BY <1>4, <2>1, <2>2, <2>3, <2>4, <2>5, <2>6, <2>7
<1>5. ASSUME NEW r \in Streams, Deferred(r)
      PROVE  /\ pc'[s] = "write" => inHand'[s] # 0
             /\ callback'[s] = "blocked" => arrived'[s] # 0
  <2>1. CASE CancelContext(r) \/ CloseClient(r)
    BY <2>1 DEF CancelContext, CloseClient
  <2>2. CASE Release(r)
    <3>1. callback[r] = "off"
      BY <2>2 DEF Release, Open
    <3> QED  BY <2>2, <3>1 DEF Release
  <2> QED  BY <1>5, <2>1, <2>2 DEF Deferred
<1>6. ASSUME NEW r \in Streams,
             Packet(r) \/ Undecodable(r) \/ Unblock(r) \/ SessionEnds(r)
             \/ ClientLeaves(r)
      PROVE  /\ pc'[s] = "write" => inHand'[s] # 0
             /\ callback'[s] = "blocked" => arrived'[s] # 0
  BY <1>6 DEF Packet, Undecodable, Unblock, SessionEnds, ClientLeaves
<1> QED  BY <1>1, <1>3, <1>4, <1>5, <1>6 DEF Next, HandlerStep

----------------------------------------------------------------------------
(* What a step does to the requests between acquire and release: one comes *)
(* in, one goes out, or none of either.                                    *)
LEMMA NextHolders ==
  ASSUME TypeOK, [Next]_vars
  PROVE  \/ UNCHANGED taken /\ Holders' = Holders
         \/ \E s \in Streams :
              /\ s \notin Holders /\ Holders' = Holders \cup {s}
              /\ taken' = taken + 1
         \/ \E s \in Streams :
              /\ s \in Holders /\ Holders' = Holders \ {s}
              /\ taken' = taken - 1
<1> USE DEF TypeOK, Holders, Goto, source, pipe, upstream
<1>1. CASE UNCHANGED vars
  BY <1>1 DEF vars
<1>2. ASSUME NEW s \in Streams, Get(s)
      PROVE  UNCHANGED taken /\ Holders' = Holders
  BY <1>2 DEF Get
<1>3. ASSUME NEW s \in Streams, Acquire(s)
      PROVE  \/ UNCHANGED taken /\ Holders' = Holders
             \/ /\ s \notin Holders /\ Holders' = Holders \cup {s}
                /\ taken' = taken + 1
  <2>1. CASE taken' = taken + 1 /\ Goto(s, "resolve")
    BY <1>3, <2>1 DEF Acquire
  <2>2. CASE Goto(s, "idle") /\ UNCHANGED taken
    BY <1>3, <2>2 DEF Acquire
  <2> QED  BY <1>3, <2>1, <2>2 DEF Acquire
<1>4. ASSUME NEW s \in Streams, Release(s)
      PROVE  /\ s \in Holders /\ Holders' = Holders \ {s}
             /\ taken' = taken - 1
  BY <1>4 DEF Release
<1>5. ASSUME NEW s \in Streams, Resolve(s) \/ StartClient(s) \/ Describe(s)
             \/ Play(s) \/ First(s) \/ Write(s) \/ Select(s)
             \/ CancelContext(s) \/ CloseClient(s)
      PROVE  UNCHANGED taken /\ Holders' = Holders
  BY <1>5 DEF Resolve, StartClient, Describe, Play, First, Write, Select,
              TakePacket, CancelContext, CloseClient
<1>6. ASSUME NEW s \in Streams,
             Packet(s) \/ Undecodable(s) \/ Unblock(s) \/ SessionEnds(s)
             \/ ClientLeaves(s)
      PROVE  UNCHANGED taken /\ Holders' = Holders
  BY <1>6 DEF Packet, Undecodable, Unblock, SessionEnds, ClientLeaves
<1> QED  BY <1>1, <1>2, <1>3, <1>4, <1>5, <1>6 DEF Next, HandlerStep, Deferred

LEMMA NextSlotsHeld == ASSUME TypeOK, SlotsHeld, [Next]_vars PROVE SlotsHeld'
<1>1. IsFiniteSet(Holders) /\ taken = Cardinality(Holders)
  BY StreamAssumption, FS_Subset DEF StreamAssumption, Holders, SlotsHeld
<1>2. taken' = Cardinality(Holders')
  <2>1. CASE UNCHANGED taken /\ Holders' = Holders
    BY <1>1, <2>1
  <2>2. ASSUME NEW s \in Streams, s \notin Holders, taken' = taken + 1,
               Holders' = Holders \cup {s}
        PROVE  taken' = Cardinality(Holders')
    BY <1>1, <2>2, FS_AddElement
  <2>3. ASSUME NEW s \in Streams, s \in Holders, taken' = taken - 1,
               Holders' = Holders \ {s}
        PROVE  taken' = Cardinality(Holders')
    BY <1>1, <2>3, FS_RemoveElement
  <2> QED  BY <2>1, <2>2, <2>3, NextHolders
<1> QED  BY <1>2 DEF SlotsHeld, Holders

----------------------------------------------------------------------------
(* Sessions, callbacks and cancelled contexts stay within their request.   *)
LEMMA NextOpen == ASSUME TypeOK, Open, [Next]_vars PROVE Open'
<1> USE DEF TypeOK, Open, Goto, source, pipe, upstream
<1>1. CASE UNCHANGED vars
  BY <1>1 DEF vars
<1>2. ASSUME NEW s \in Streams, Get(s) \/ Acquire(s) PROVE Open'
  <2>1. CASE Get(s)
    BY <2>1 DEF Get
  <2>2. CASE Acquire(s)
    BY <2>2 DEF Acquire
  <2> QED  BY <1>2, <2>1, <2>2
<1>3. ASSUME NEW s \in Streams,
             Resolve(s) \/ StartClient(s) \/ Describe(s) \/ Play(s)
      PROVE  Open'
  <2>1. CASE Resolve(s)
    BY <2>1 DEF Resolve
  <2>2. CASE StartClient(s)
    <3>1. UNCHANGED <<cancelled, callback>> /\ pc[s] = "start"
      BY <2>2 DEF StartClient
    <3>2. CASE /\ pc' = [pc EXCEPT ![s] = "describe"]
               /\ session' = [session EXCEPT ![s] = TRUE]
      BY <3>1, <3>2
    <3>3. CASE pc' = [pc EXCEPT ![s] = "release"] /\ UNCHANGED session
      BY <3>1, <3>3
    <3> QED  BY <2>2, <3>2, <3>3 DEF StartClient
  <2>3. CASE Describe(s)
    <3>1. UNCHANGED <<session, cancelled>> /\ pc[s] = "describe"
      BY <2>3 DEF Describe
    <3>2. CASE /\ pc' = [pc EXCEPT ![s] = "play"]
               /\ callback' = [callback EXCEPT ![s] = "idle"]
      BY <3>1, <3>2
    <3>3. CASE pc' = [pc EXCEPT ![s] = "close"] /\ UNCHANGED callback
      BY <3>1, <3>3
    <3> QED  BY <2>3, <3>2, <3>3 DEF Describe
  <2>4. CASE Play(s)
    BY <2>4 DEF Play
  <2> QED  BY <1>3, <2>1, <2>2, <2>3, <2>4
<1>4. ASSUME NEW s \in Streams, First(s) \/ Write(s) \/ Select(s) PROVE Open'
  <2>1. CASE First(s)
    BY <2>1 DEF First, TakePacket
  <2>2. CASE Write(s)
    BY <2>2 DEF Write
  <2>3. CASE Select(s)
    BY <2>3 DEF Select, TakePacket
  <2> QED  BY <1>4, <2>1, <2>2, <2>3
<1>5. ASSUME NEW s \in Streams, Deferred(s) PROVE Open'
  <2>1. CASE CancelContext(s)
    BY <2>1 DEF CancelContext
  <2>2. CASE CloseClient(s)
    BY <2>2 DEF CloseClient
  <2>3. CASE Release(s)
    BY <2>3 DEF Release
  <2> QED  BY <1>5, <2>1, <2>2, <2>3 DEF Deferred
<1>6. ASSUME NEW s \in Streams,
             Packet(s) \/ Undecodable(s) \/ Unblock(s) \/ SessionEnds(s)
             \/ ClientLeaves(s)
      PROVE  Open'
  BY <1>6 DEF Packet, Undecodable, Unblock, SessionEnds, ClientLeaves
<1> QED  BY <1>1, <1>2, <1>3, <1>4, <1>5, <1>6 DEF Next, HandlerStep

(* Packets come only while there is a slot, and go with it.                *)
LEMMA NextClean == ASSUME TypeOK, Open, Clean, [Next]_vars PROVE Clean'
<1> USE DEF TypeOK, Clean, Goto, source, pipe, upstream
<1>1. CASE UNCHANGED vars
  BY <1>1 DEF vars
<1>2. ASSUME NEW s \in Streams,
             Get(s) \/ Acquire(s) \/ Resolve(s) \/ StartClient(s)
             \/ Describe(s) \/ Play(s)
      PROVE  Clean'
  <2>1. UNCHANGED <<written, packets, decoded>>
    BY <1>2 DEF Get, Acquire, Resolve, StartClient, Describe, Play
  <2>2. \A r \in Streams : pc'[r] \in {"idle", "acquire"} =>
                           pc[r] \in {"idle", "acquire"}
    BY <1>2 DEF Get, Acquire, Resolve, StartClient, Describe, Play
  <2> QED  BY <2>1, <2>2
<1>3. ASSUME NEW s \in Streams, First(s) \/ Write(s) \/ Select(s) PROVE Clean'
  <2>1. CASE First(s)
    BY <2>1 DEF First, TakePacket
  <2>2. CASE Write(s)
    BY <2>2 DEF Write
  <2>3. CASE Select(s)
    BY <2>3 DEF Select, TakePacket
  <2> QED  BY <1>3, <2>1, <2>2, <2>3
<1>4. ASSUME NEW s \in Streams, Deferred(s) PROVE Clean'
  <2>1. CASE CancelContext(s)
    BY <2>1 DEF CancelContext
  <2>2. CASE CloseClient(s)
    BY <2>2 DEF CloseClient
  <2>3. CASE Release(s)
    BY <2>3 DEF Release
  <2> QED  BY <1>4, <2>1, <2>2, <2>3 DEF Deferred
<1>5. ASSUME NEW s \in Streams, Packet(s) \/ Unblock(s) PROVE Clean'
  <2>1. pc[s] \notin {"idle", "acquire"}
    BY <1>5 DEF Packet, Unblock, Open
  <2> QED  BY <1>5, <2>1 DEF Packet, Unblock
<1>6. ASSUME NEW s \in Streams,
             Undecodable(s) \/ SessionEnds(s) \/ ClientLeaves(s)
      PROVE  Clean'
  BY <1>6 DEF Undecodable, SessionEnds, ClientLeaves
<1> QED  BY <1>1, <1>2, <1>3, <1>4, <1>5, <1>6 DEF Next, HandlerStep

(* Every way out leads past an answer, or the client's end.                *)
LEMMA NextReplied == ASSUME TypeOK, Replied, [Next]_vars PROVE Replied'
<1> USE DEF TypeOK, Replied, Goto, Respond, source, pipe, upstream
<1>1. CASE UNCHANGED vars
  BY <1>1 DEF vars
<1>2. ASSUME NEW s \in Streams, Get(s) \/ Acquire(s) PROVE Replied'
  <2>1. CASE Get(s)
    BY <2>1 DEF Get
  <2>2. CASE Acquire(s)
    BY <2>2 DEF Acquire
  <2> QED  BY <1>2, <2>1, <2>2
<1>3. ASSUME NEW s \in Streams,
             Resolve(s) \/ StartClient(s) \/ Describe(s) \/ Play(s)
      PROVE  Replied'
  <2>1. CASE Resolve(s)
    BY <2>1 DEF Resolve
  <2>2. CASE StartClient(s)
    BY <2>2 DEF StartClient
  <2>3. CASE Describe(s)
    BY <2>3 DEF Describe
  <2>4. CASE Play(s)
    BY <2>4 DEF Play
  <2> QED  BY <1>3, <2>1, <2>2, <2>3, <2>4
<1>4. ASSUME NEW s \in Streams, First(s) \/ Write(s) \/ Select(s) PROVE Replied'
  <2>1. CASE First(s)
    BY <2>1 DEF First, TakePacket
  <2>2. CASE Write(s)
    BY <2>2 DEF Write
  <2>3. CASE Select(s)
    BY <2>3 DEF Select, TakePacket
  <2> QED  BY <1>4, <2>1, <2>2, <2>3
<1>5. ASSUME NEW s \in Streams, Deferred(s) PROVE Replied'
  <2>1. CASE CancelContext(s)
    BY <2>1 DEF CancelContext
  <2>2. CASE CloseClient(s)
    BY <2>2 DEF CloseClient
  <2>3. CASE Release(s)
    BY <2>3 DEF Release
  <2> QED  BY <1>5, <2>1, <2>2, <2>3 DEF Deferred
<1>6. ASSUME NEW s \in Streams,
             Packet(s) \/ Undecodable(s) \/ Unblock(s) \/ SessionEnds(s)
             \/ ClientLeaves(s)
      PROVE  Replied'
  BY <1>6 DEF Packet, Undecodable, Unblock, SessionEnds, ClientLeaves
<1> QED  BY <1>1, <1>2, <1>3, <1>4, <1>5, <1>6 DEF Next, HandlerStep

----------------------------------------------------------------------------
(* One request's packets, on their way and as decoded.                     *)
Whole(s) == written[s] \o InHand(s) \o packets[s] \o Held(s)

WholeOf(s) == ~gone[s] /\ ~cancelled[s] => Whole(s) = decoded[s]

LEMMA Nothing == <<>> \o <<>> \o <<>> \o <<>> = <<>>
  BY ConcatEmptySeq

(* Their types.                                                            *)
LEMMA WholeTypes ==
  ASSUME TypeOK, NEW s \in Streams
  PROVE  /\ written[s] \in Seq(0..MaxPackets) /\ InHand(s) \in Seq(0..MaxPackets)
         /\ packets[s] \in Seq(0..MaxPackets) /\ Held(s) \in Seq(0..MaxPackets)
         /\ inHand[s] \in 0..MaxPackets /\ arrived[s] \in 0..MaxPackets
<1>1. /\ written[s] \in Seq(1..MaxPackets) /\ packets[s] \in Seq(1..MaxPackets)
      /\ inHand[s] \in 0..MaxPackets /\ arrived[s] \in 0..MaxPackets
  BY DEF TypeOK
<1>2. 1..MaxPackets \subseteq 0..MaxPackets
  BY StreamAssumption DEF StreamAssumption
<1>3. written[s] \in Seq(0..MaxPackets) /\ packets[s] \in Seq(0..MaxPackets)
  BY <1>1, <1>2, SeqMonotonic
<1>4. InHand(s) \in Seq(0..MaxPackets) /\ Held(s) \in Seq(0..MaxPackets)
  <2>1. /\ <<inHand[s]>> \in Seq(0..MaxPackets)
        /\ <<arrived[s]>> \in Seq(0..MaxPackets)
        /\ <<>> \in Seq(0..MaxPackets)
    BY <1>1
  <2> QED  BY <2>1 DEF InHand, Held
<1> QED  BY <1>1, <1>3, <1>4

(* A request to which none of this happens keeps its packets.              *)
LEMMA WholeStays ==
  ASSUME NEW s \in Streams, WholeOf(s),
         ~gone'[s] => ~gone[s], ~cancelled'[s] => ~cancelled[s],
         written'[s] = written[s], packets'[s] = packets[s],
         arrived'[s] = arrived[s] \/ callback'[s] # "blocked",
         inHand'[s] = inHand[s], decoded'[s] = decoded[s],
         pc'[s] = "write" <=> pc[s] = "write",
         callback'[s] = "blocked" <=> callback[s] = "blocked"
  PROVE  WholeOf(s)'
<1>1. Held(s)' = Held(s)
  BY DEF Held
<1>2. InHand(s)' = InHand(s)
  BY DEF InHand
<1> QED  BY <1>1, <1>2 DEF WholeOf, Whole

(* A sequence is its head and its tail.                                    *)
LEMMA HeadOnTail ==
  ASSUME NEW S, NEW q \in Seq(S), q # <<>>
  PROVE  \E h \in Seq(S), t \in Seq(S) :
           h = <<Head(q)>> /\ t = Tail(q) /\ h \o t = q
<1>1. PICK h \in Seq(S), t \in Seq(S), l \in Nat :
        /\ h = <<Head(q)>> /\ t = Tail(q)
        /\ Len(h) = 1 /\ h[1] = q[1]
        /\ Len(t) = l /\ Len(q) = l + 1
        /\ \A i \in 1..l : t[i] = q[i + 1]
  <2>1. /\ Head(q) \in S /\ Tail(q) \in Seq(S) /\ Len(Tail(q)) = Len(q) - 1
        /\ \A i \in 1..Len(Tail(q)) : Tail(q)[i] = q[i + 1]
    BY HeadTailProperties
  <2>2. Len(q) \in Nat /\ Len(Tail(q)) \in Nat /\ Len(q) = Len(Tail(q)) + 1
    BY <2>1
  <2>3. Head(q) = q[1]
    OBVIOUS
  <2>4. <<Head(q)>> \in Seq(S) /\ Len(<<Head(q)>>) = 1 /\ <<Head(q)>>[1] = q[1]
    BY <2>1, <2>3
  <2> QED  BY <2>1, <2>2, <2>4
<1>2. /\ h \o t \in Seq(S) /\ Len(h \o t) = 1 + l
      /\ \A i \in 1..(1 + l) : (h \o t)[i] = IF i <= 1 THEN h[i] ELSE t[i - 1]
  BY <1>1, ConcatProperties
<1>3. ASSUME NEW i \in 1..(1 + l) PROVE (h \o t)[i] = q[i]
  <2>1. CASE i = 1
    BY <1>1, <1>2, <2>1
  <2>2. CASE i # 1
    <3>1. i - 1 \in 1..l /\ (i - 1) + 1 = i /\ ~(i <= 1)
      BY <2>2
    <3>2. t[i - 1] = q[(i - 1) + 1]
      BY <1>1, <3>1
    <3> QED  BY <1>2, <3>1, <3>2
  <2> QED  BY <2>1, <2>2
<1>4. h \o t = q
  BY <1>1, <1>2, <1>3, SeqEqual
<1> QED  BY <1>1, <1>4

(* An element on either side of an empty place.                            *)
LEMMA TakeSeam ==
  ASSUME NEW S, NEW w \in Seq(S), NEW h \in Seq(S), NEW t \in Seq(S)
  PROVE (w \o <<>>) \o (h \o t) = (w \o h) \o t
<1>1. w \o <<>> = w
  BY ConcatEmptySeq
<1>2. (w \o h) \o t = w \o (h \o t)
  BY ConcatAssociative
<1> QED BY <1>1, <1>2

(* An element added to the last but one of the parts, or the last.         *)
LEMMA AppendSeam ==
  ASSUME NEW S, NEW w \in Seq(S), NEW p \in Seq(S), NEW n \in S
  PROVE  /\ (w \o Append(p, n)) \o <<>> = Append(w \o p, n)
         /\ (w \o p) \o <<n>> = Append(w \o p, n)
<1>1. <<n>> \in Seq(S) /\ w \o p \in Seq(S)
  BY ConcatProperties
<1>2. Append(p, n) = p \o <<n>> /\ Append(w \o p, n) = (w \o p) \o <<n>>
  BY <1>1, AppendIsConcat
<1>3. w \o (p \o <<n>>) = (w \o p) \o <<n>>
  BY <1>1, ConcatAssociative
<1>4. w \o (p \o <<n>>) \in Seq(S)
  BY <1>1, ConcatProperties
<1> QED BY <1>2, <1>3, <1>4, ConcatEmptySeq

(* From the channel to the hand: the next packet is taken.                 *)
LEMMA WholeTaken ==
  ASSUME TypeOK, NEW s \in Streams, WholeOf(s), TakePacket(s),
         pc[s] # "write", UNCHANGED <<gone, cancelled, source>>
  PROVE  WholeOf(s)'
<1>1. /\ written[s] \in Seq(0..MaxPackets)
      /\ packets[s] \in Seq(0..MaxPackets) /\ packets[s] # <<>>
  BY WholeTypes DEF TakePacket
<1>2. PICK x \in Seq(0..MaxPackets), rest \in Seq(0..MaxPackets) :
        /\ x = <<Head(packets[s])>> /\ rest = Tail(packets[s])
        /\ x \o rest = packets[s]
  BY <1>1, HeadOnTail
<1>3. /\ InHand(s) = <<>> /\ InHand(s)' = x /\ packets'[s] = rest
      /\ written'[s] = written[s] /\ decoded'[s] = decoded[s]
      /\ Held(s)' = Held(s)
  BY <1>2 DEF TypeOK, TakePacket, InHand, Held, Goto, source
<1>4. (written[s] \o <<>>) \o packets[s] = (written[s] \o x) \o rest
  <2>1. PICK w \in Seq(0..MaxPackets) : w = written[s]
    BY <1>1
  <2>2. (w \o <<>>) \o (x \o rest) = (w \o x) \o rest
    BY TakeSeam
  <2> QED  BY <1>2, <2>1, <2>2
<1>5. Whole(s)' = Whole(s)
  BY <1>3, <1>4 DEF Whole
<1> QED  BY <1>3, <1>5 DEF WholeOf, source

(* From the hand to the client.                                            *)
LEMMA WholeWritten ==
  ASSUME TypeOK, NEW s \in Streams, WholeOf(s), Write(s) PROVE WholeOf(s)'
<1> SUFFICES ASSUME ~gone[s] PROVE WholeOf(s)'
  BY DEF WholeOf, Write
<1>1. written[s] \in Seq(0..MaxPackets) /\ inHand[s] \in 0..MaxPackets
  BY WholeTypes
<1>2. /\ InHand(s) = <<inHand[s]>> /\ InHand(s)' = <<>>
      /\ written'[s] = Append(written[s], inHand[s])
      /\ packets'[s] = packets[s] /\ decoded'[s] = decoded[s]
      /\ Held(s)' = Held(s)
  BY DEF TypeOK, Write, InHand, Held, Goto, source
<1>3. Append(written[s], inHand[s]) \o <<>> = written[s] \o <<inHand[s]>>
  <2>1. /\ Append(written[s], inHand[s]) \in Seq(0..MaxPackets)
        /\ Append(written[s], inHand[s]) = written[s] \o <<inHand[s]>>
    BY <1>1, AppendProperties, AppendIsConcat
  <2> QED  BY <2>1, ConcatEmptySeq
<1>4. Whole(s)' = Whole(s)
  BY <1>2, <1>3 DEF Whole
<1> QED  BY <1>2, <1>4 DEF WholeOf, Write

(* From the callback into the channel, at once or when there is room.      *)
LEMMA WholeArrived ==
  ASSUME TypeOK, NEW s \in Streams, WholeOf(s), Packet(s) \/ Unblock(s)
  PROVE  WholeOf(s)'
<1> SUFFICES ASSUME ~gone[s], ~cancelled[s] PROVE WholeOf(s)'
  BY DEF WholeOf, Packet, Unblock
<1>1. PICK w \in Seq(0..MaxPackets), p \in Seq(0..MaxPackets) :
        w = written[s] \o InHand(s) /\ p = packets[s]
  BY WholeTypes, ConcatProperties
<1>2. written'[s] \o InHand(s)' = w
  BY <1>1 DEF Packet, Unblock, InHand
<1>3. ASSUME NEW n \in 0..MaxPackets
      PROVE  /\ (w \o Append(p, n)) \o <<>> = Append(w \o p, n)
             /\ (w \o p) \o <<n>> = Append(w \o p, n)
  BY AppendSeam
<1>4. (w \o p) \o <<>> = w \o p
  <2>1. PICK all \in Seq(0..MaxPackets) : all = w \o p
    BY ConcatProperties
  <2>2. all \o <<>> = all
    BY ConcatEmptySeq
  <2> QED  BY <2>1, <2>2
<1>5. CASE Packet(s)
  <2>1. PICK n \in 0..MaxPackets : n = arrived[s] + 1
    <3>1. arrived[s] + 1 \in 0..MaxPackets
      BY <1>5, WholeTypes, StreamAssumption DEF Packet, StreamAssumption
    <3> QED  BY <3>1
  <2>2. /\ Held(s) = <<>> /\ decoded'[s] = Append(decoded[s], n)
        /\ arrived'[s] = n
    BY <1>5, <2>1 DEF Packet, Held, TypeOK
  <2>3. decoded[s] = w \o p
    <3>1. (w \o p) \o <<>> = decoded[s]
      BY <1>1, <2>2 DEF WholeOf, Whole
    <3> QED  BY <1>4, <3>1
  <2>4. CASE packets' = [packets EXCEPT ![s] = Append(@, arrived[s] + 1)]
             /\ UNCHANGED callback
    <3>1. packets'[s] = Append(p, n) /\ Held(s)' = <<>>
      BY <1>1, <1>5, <2>1, <2>4 DEF Packet, Held, TypeOK
    <3> QED  BY <1>2, <1>3, <2>2, <2>3, <3>1 DEF WholeOf, Whole
  <2>5. CASE callback' = [callback EXCEPT ![s] = "blocked"] /\ UNCHANGED packets
    <3>1. packets'[s] = p /\ Held(s)' = <<n>>
      BY <1>1, <2>2, <2>5 DEF Held, TypeOK
    <3> QED  BY <1>2, <1>3, <2>2, <2>3, <3>1 DEF WholeOf, Whole
  <2> QED  BY <1>5, <2>4, <2>5 DEF Packet
<1>6. CASE Unblock(s)
  <2>1. PICK n \in 0..MaxPackets : n = arrived[s]
    BY WholeTypes
  <2>2. /\ Held(s) = <<n>> /\ Held(s)' = <<>> /\ decoded'[s] = decoded[s]
        /\ packets'[s] = Append(p, n)
    BY <1>1, <1>6, <2>1 DEF Unblock, Held, TypeOK
  <2>3. decoded[s] = (w \o p) \o <<n>>
    BY <1>1, <2>2 DEF WholeOf, Whole
  <2> QED  BY <1>2, <1>3, <2>2, <2>3 DEF WholeOf, Whole
<1> QED  BY <1>5, <1>6

(* No step loses or reorders a decoded packet of a request that goes on.   *)
LEMMA NextDelivered ==
  ASSUME TypeOK, Open, Clean, DecodedDelivered, [Next]_vars
  PROVE  DecodedDelivered'
<1> SUFFICES ASSUME NEW s \in Streams, WholeOf(s) PROVE WholeOf(s)'
  BY DEF DecodedDelivered, WholeOf, Whole
<1> USE DEF TypeOK, Goto, source, pipe, upstream
<1>1. CASE UNCHANGED vars
  BY <1>1, WholeStays DEF vars
<1>2. ASSUME NEW r \in Streams, Get(r) PROVE WholeOf(s)'
  <2>1. CASE r = s
    <3>1. /\ written'[s] = <<>> /\ packets'[s] = <<>> /\ decoded'[s] = <<>>
          /\ pc'[s] = "acquire" /\ callback'[s] = "off"
      BY <1>2, <2>1 DEF Get, Open, Clean
    <3> QED  BY <3>1, Nothing DEF WholeOf, Whole, InHand, Held
  <2>2. CASE r # s
    BY <1>2, <2>2, WholeStays DEF Get
  <2> QED  BY <2>1, <2>2
<1>3. ASSUME NEW r \in Streams, Acquire(r) \/ Resolve(r) \/ StartClient(r)
             \/ Play(r) \/ SessionEnds(r) \/ ClientLeaves(r) \/ Undecodable(r)
      PROVE  WholeOf(s)'
  <2>1. CASE Acquire(r)
    BY <2>1, WholeStays DEF Acquire
  <2>2. CASE Resolve(r)
    BY <2>2, WholeStays DEF Resolve
  <2>3. CASE StartClient(r)
    BY <2>3, WholeStays DEF StartClient
  <2>4. CASE Play(r)
    BY <2>4, WholeStays DEF Play
  <2>5. CASE SessionEnds(r) \/ ClientLeaves(r)
    BY <2>5, WholeStays DEF SessionEnds, ClientLeaves
  <2>6. CASE Undecodable(r)
    <3>1. callback'[r] # "blocked"
      BY <2>6 DEF Undecodable
    <3> QED  BY <2>6, <3>1, WholeStays DEF Undecodable
  <2> QED  BY <1>3, <2>1, <2>2, <2>3, <2>4, <2>5, <2>6
<1>4. ASSUME NEW r \in Streams, Describe(r) PROVE WholeOf(s)'
  <2>1. callback[r] = "off"
    BY <1>4 DEF Describe, Open
  <2>2. callback'[s] = "blocked" <=> callback[s] = "blocked"
    BY <1>4, <2>1 DEF Describe
  <2> QED  BY <1>4, <2>2, WholeStays DEF Describe
<1>5. ASSUME NEW r \in Streams, First(r) \/ Select(r) PROVE WholeOf(s)'
  <2>1. pc[r] # "write" /\ UNCHANGED <<gone, cancelled, source>>
    BY <1>5 DEF First, Select
  <2>2. CASE TakePacket(r)
    <3>1. CASE r = s
      BY <2>1, <2>2, <3>1, WholeTaken
    <3>2. CASE r # s
      BY <2>1, <2>2, <3>2, WholeStays DEF TakePacket
    <3> QED  BY <3>1, <3>2
  <2>3. CASE Goto(r, "cancel") /\ UNCHANGED pipe
    BY <2>1, <2>3, WholeStays
  <2> QED  BY <1>5, <2>2, <2>3 DEF First, Select
<1>6. ASSUME NEW r \in Streams, Write(r) PROVE WholeOf(s)'
  <2>1. CASE r = s
    BY <1>6, <2>1, WholeWritten
  <2>2. CASE r # s
    BY <1>6, <2>2, WholeStays DEF Write
  <2> QED  BY <2>1, <2>2
<1>7. ASSUME NEW r \in Streams, Deferred(r) PROVE WholeOf(s)'
  <2>1. CASE CancelContext(r)
    BY <2>1, WholeStays DEF CancelContext
  <2>2. CASE CloseClient(r)
    BY <2>2, WholeStays DEF CloseClient
  <2>3. CASE Release(r)
    <3>1. CASE r = s
      <4>1. /\ written'[s] = <<>> /\ packets'[s] = <<>> /\ decoded'[s] = <<>>
            /\ pc'[s] = "idle" /\ callback'[s] = "off"
        BY <2>3, <3>1 DEF Release, Open
      <4> QED  BY <4>1, Nothing DEF WholeOf, Whole, InHand, Held
    <3>2. CASE r # s
      BY <2>3, <3>2, WholeStays DEF Release
    <3> QED  BY <3>1, <3>2
  <2> QED  BY <1>7, <2>1, <2>2, <2>3 DEF Deferred
<1>8. ASSUME NEW r \in Streams, Packet(r) \/ Unblock(r) PROVE WholeOf(s)'
  <2>1. CASE r = s
    BY <1>8, <2>1, WholeArrived
  <2>2. CASE r # s
    BY <1>8, <2>2, WholeStays DEF Packet, Unblock
  <2> QED  BY <2>1, <2>2
<1> QED  BY <1>1, <1>2, <1>3, <1>4, <1>5, <1>6, <1>7, <1>8 DEF Next, HandlerStep

----------------------------------------------------------------------------
LEMMA InitInv == Init => IInv
<1> SUFFICES ASSUME Init PROVE IInv
  OBVIOUS
<1>1. TypeOK
  BY StreamAssumption DEF StreamAssumption, Init, TypeOK, Points
<1>2. Real /\ Open /\ Replied /\ Clean
  BY DEF Init, Real, Open, Replied, Clean
<1>3. SlotsHeld
  <2>1. {s \in Streams : pc[s] \notin {"idle", "acquire"}} = {}
    BY DEF Init
  <2> QED  BY <2>1, FS_EmptySet DEF Init, SlotsHeld
<1>4. DecodedDelivered
  BY Nothing DEF Init, DecodedDelivered, InHand, Held
<1> QED  BY <1>1, <1>2, <1>3, <1>4 DEF IInv

(* The inductive invariant holds.                                          *)
THEOREM SpecInv == Spec => []IInv
<1>1. ASSUME IInv, [Next]_vars PROVE IInv'
  BY <1>1, NextTypeOK, NextReal, NextSlotsHeld, NextOpen, NextReplied,
     NextClean, NextDelivered DEF IInv
<1> QED  BY <1>1, InitInv, PTL DEF Spec

(* The variables keep their types; above all the semaphore never holds     *)
(* more than its capacity, and is never released below nothing.            *)
THEOREM SpecTypeOK == Spec => []TypeOK
<1>1. IInv => TypeOK
  BY DEF IInv
<1> QED  BY <1>1, SpecInv, PTL

(* A slot is held from Acquire to Release, on every way out of streamTS.   *)
THEOREM SpecSlotsHeld == Spec => []SlotsHeld
<1>1. IInv => SlotsHeld
  BY DEF IInv
<1> QED  BY <1>1, SpecInv, PTL

(* There are never more upstream sessions than slots.                      *)
THEOREM SpecSessionsBounded == Spec => []SessionsBounded
<1>1. ASSUME IInv PROVE SessionsBounded
  <2>1. {s \in Streams : session[s]} \subseteq Holders
    BY <1>1 DEF IInv, Open, Holders
  <2>2. IsFiniteSet(Holders)
    BY StreamAssumption, FS_Subset DEF StreamAssumption, Holders
  <2>3. /\ Cardinality({s \in Streams : session[s]}) <= Cardinality(Holders)
        /\ Cardinality({s \in Streams : session[s]}) \in Nat
    BY <2>1, <2>2, FS_Subset, FS_CardinalityType
  <2>4. Cardinality(Holders) = taken /\ taken \in 0..Slots
    BY <1>1 DEF IInv, SlotsHeld, Holders, TypeOK
  <2> QED  BY <2>3, <2>4, StreamAssumption DEF SessionsBounded, StreamAssumption
<1> QED  BY <1>1, SpecInv, PTL

(* Whatever went wrong, a client that stays has its answer when its slot   *)
(* is given back.                                                          *)
THEOREM SpecAnswered == Spec => []Answered
<1>1. IInv => Answered
  BY DEF IInv, Replied, Answered
<1> QED  BY <1>1, SpecInv, PTL

(* The client is sent the packets that decode, each once and in order,     *)
(* however slow it is: none is lost or overtaken on its way through the    *)
(* callback, the channel and the connection.                               *)
THEOREM SpecDecodedDelivered == Spec => []DecodedDelivered
<1>1. IInv => DecodedDelivered
  BY DEF IInv
<1> QED  BY <1>1, SpecInv, PTL
=============================================================================
