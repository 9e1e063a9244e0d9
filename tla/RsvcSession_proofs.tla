------------------------- MODULE RsvcSession_proofs -------------------------
(***************************************************************************)
(* Proofs about RsvcSession, for every MAX_IN_FLIGHT and every peer: its    *)
(* types, the account of the semaphore and that put_nowait never meets a    *)
(* full queue; then, from the order in which blocks leave the queue, that   *)
(* answers keep it, that the engine follows the stream, that a block keeps  *)
(* the configuration of its receipt, and the bound on blocks in flight; at  *)
(* last, that all this makes the session an InOrderService.                 *)
(***************************************************************************)
EXTENDS RsvcSession, FiniteSetTheorems, SequenceTheorems, TLAPS

Busy == IF Working THEN 1 ELSE 0

\* The None that ends _run_inference is the last request, once the session is
\* closed, and only then.
SentinelLast ==
  \A i \in DOMAIN requests : requests[i] = NoItem <=> (serve = "closed" /\ i = Len(requests))

\* Every slot is free, in the queue, or with _run_inference.
Held == Len(requests) - IF serve = "closed" /\ requests # <<>> THEN 1 ELSE 0
SlotsAccounted == slots + Held + Busy = MaxInFlight

\* Both threads have in hand what they are working on.
InHand == /\ serve = "send" => reply \in ServiceFrame
          /\ Working => item \in Item
          /\ serve \in {"hello", "open"} => infer = "off" /\ requests = <<>>

IInv == TypeOK /\ SentinelLast /\ SlotsAccounted /\ InHand

USE MaxInFlightAssumption, NoItemAssumption

\* The initial state satisfies the invariant: every slot is free.
LEMMA InitIInv == Init => IInv
BY DEF Init, IInv, TypeOK, SentinelLast, SlotsAccounted, Held, Busy, InHand, Working, Configs,
       ServePhases, InferPhases

----------------------------------------------------------------------------
(* The frames.                                                              *)

\* recv_message returns a frame the peer wrote.
LEMMA NextFrameType == ASSUME TypeOK, HasFrame PROVE NextFrame \in PeerFrame
BY DEF TypeOK, HasFrame, NextFrame

\* sendall gives up: nothing more, or part of a frame.
LEMMA FailedSend == ASSUME TypeOK, SendFails PROVE s2c' \in Seq(ServiceFrame)
<1>1. Cut \in ServiceFrame BY DEF Cut, ServiceFrame
<1>2. s2c \in Seq(ServiceFrame) BY DEF TypeOK
<1>3. Append(s2c, Cut) \in Seq(ServiceFrame) BY <1>1, <1>2
<1> QED BY <1>2, <1>3 DEF SendFails

\* What serve_client finds in a frame of each type.
LEMMA FrameFields ==
  ASSUME NEW f \in PeerFrame
  PROVE  /\ f.type = "HEARTBEAT" => f.seq \in Nat
         /\ f.type = "CONFIG_UPDATE" => f.seq \in Nat
         /\ f.type = "AUDIO_IN" => f.seq \in Nat /\ f.disc \in BOOLEAN /\ f.epoch \in Nat
BY DEF PeerFrame

\* A request taken from the queue is an Item, or the None that ends the thread.
LEMMA ItemIsNoNone == NoItem \notin Item
BY DEF Item, Configs

\* What Append and Tail do to the length and the elements of the queue.
LEMMA AppendFacts ==
  ASSUME NEW S, NEW s \in Seq(S), NEW x
  PROVE  /\ Len(Append(s, x)) = Len(s) + 1 /\ Append(s, x) # <<>>
         /\ DOMAIN Append(s, x) = 1..(Len(s) + 1)
         /\ \A i \in DOMAIN Append(s, x) :
              Append(s, x)[i] = IF i \in DOMAIN s THEN s[i] ELSE x
         /\ DOMAIN s = 1..Len(s) /\ Len(s) \in Nat
OBVIOUS

\* The counts that the account adds up are natural numbers.
LEMMA CountsAreNaturals ==
  ASSUME TypeOK, NEW S \in SUBSET DOMAIN sent
  PROVE  Cardinality(S) \in Nat
<1>1. IsFiniteSet(1..Len(sent)) BY FS_Interval DEF TypeOK
<1>2. S \subseteq 1..Len(sent) BY DEF TypeOK
<1> QED BY <1>1, <1>2, FS_Subset, FS_CardinalityType

\* The peer only appends a frame, stalls, or goes.
LEMMA PeerKeeps == ASSUME IInv, Peer PROVE IInv'
<1> USE DEF IInv
<1>1. CASE PeerFate
  BY <1>1 DEF PeerFate, TypeOK, SentinelLast, SlotsAccounted, Held, Busy, InHand, Working
<1>2. ASSUME NEW f \in PeerFrame, Put(f) PROVE IInv'
  <2>1. TypeOK'
    BY <1>2 DEF Put, TypeOK
  <2>2. (SentinelLast /\ SlotsAccounted /\ InHand)'
    BY <1>2 DEF Put, TypeOK, SentinelLast, SlotsAccounted, Held, Busy, InHand, Working
  <2> QED BY <2>1, <2>2
<1>3. [type |-> "HELLO"] \in PeerFrame /\ [type |-> "SESSION_OPEN"] \in PeerFrame
  BY DEF PeerFrame
<1>4. CASE PeerHello BY <1>2, <1>3, <1>4 DEF PeerHello
<1>5. CASE PeerOpen BY <1>2, <1>3, <1>5 DEF PeerOpen
<1>6. CASE PeerAudio
  <2>1. CountOf(sent, "AUDIO_IN") \in Nat /\ LastEpoch \in Nat
    BY CountsAreNaturals DEF CountOf, LastEpoch, Audio
  <2>2. PICK disc \in BOOLEAN :
          Put([type |-> "AUDIO_IN", seq |-> CountOf(sent, "AUDIO_IN") + 1, disc |-> disc,
               epoch |-> IF disc THEN LastEpoch + 1 ELSE LastEpoch])
    BY <1>6 DEF PeerAudio
  <2> QED BY <1>2, <2>1, <2>2 DEF PeerFrame
<1>7. CASE PeerConfig
  <2>1. PICK seq \in 0..MaxConfigs, value \in ConfigValues \cup {InvalidConfig} :
          Put([type |-> "CONFIG_UPDATE", seq |-> seq, value |-> value])
    BY <1>7 DEF PeerConfig
  <2> QED BY <1>2, <2>1 DEF PeerFrame
<1>8. CASE PeerHeartbeat
  <2>1. CountOf(sent, "HEARTBEAT") \in Nat
    BY CountsAreNaturals DEF CountOf
  <2> QED BY <1>2, <1>8, <2>1 DEF PeerHeartbeat, PeerFrame
<1>9. CASE PeerEnd
  BY <1>2, <1>9 DEF PeerEnd, PeerFrame
<1> QED BY <1>1, <1>4, <1>5, <1>6, <1>7, <1>8, <1>9 DEF Peer

----------------------------------------------------------------------------
(* serve_client.                                                            *)

\* A step that leaves the queue, the semaphore and _run_inference alone keeps
\* their account, as long as the session is not closed in it.
LEMMA AccountKept ==
  ASSUME IInv, UNCHANGED <<inferVars, requests, slots>>,
         serve \notin {"finally", "closed"}, serve' \notin {"hello", "open", "closed"},
         serve' = "send" => reply' \in ServiceFrame
  PROVE  (SentinelLast /\ SlotsAccounted /\ InHand)'
BY DEF IInv, TypeOK, SentinelLast, SlotsAccounted, Held, Busy, InHand, Working, inferVars

\* serve_client keeps the account: it takes a slot, fills it, or gives up.
LEMMA ServeKeeps == ASSUME IInv, Serve \/ ServeRecvFails PROVE IInv'
<1> USE DEF IInv
<1>1. CASE RecvHello
  <2>1. TypeOK' BY <1>1 DEF RecvHello, Handshake, HasFrame, TypeOK, ServiceFrame, ServePhases,
                           netVars, configVars, inferVars
  <2>2. (SentinelLast /\ SlotsAccounted /\ InHand)'
    BY <1>1 DEF RecvHello, Handshake, TypeOK, SentinelLast, SlotsAccounted, Held, Busy, InHand,
                Working, inferVars
  <2> QED BY <2>1, <2>2
<1>2. CASE RecvSessionOpen
  <2>1. TypeOK' BY <1>2 DEF RecvSessionOpen, Handshake, HasFrame, TypeOK, ServiceFrame,
                           ServePhases, InferPhases, netVars, configVars
  <2>2. (SentinelLast /\ SlotsAccounted /\ InHand)'
    BY <1>2 DEF RecvSessionOpen, Handshake, TypeOK, SentinelLast, SlotsAccounted, Held, Busy,
                InHand, Working
  <2> QED BY <2>1, <2>2
<1>3. CASE HandshakeFails
  <2>1. TypeOK' BY <1>3 DEF HandshakeFails, TypeOK, ServePhases, netVars, configVars, inferVars
  <2>2. (SentinelLast /\ SlotsAccounted /\ InHand)'
    BY <1>3 DEF HandshakeFails, TypeOK, SentinelLast, SlotsAccounted, Held, Busy, InHand,
                Working, inferVars
  <2> QED BY <2>1, <2>2
<1>4. CASE ServeHeartbeat
  <2>1. NextFrame.seq \in Nat
    BY <1>4, NextFrameType, FrameFields DEF ServeHeartbeat, Reading
  <2>2. [type |-> "HEARTBEAT_ACK", seq |-> NextFrame.seq] \in ServiceFrame
    BY <2>1 DEF ServiceFrame
  <2>3. TypeOK' BY <1>4, <2>2 DEF ServeHeartbeat, Reading, Reply, HasFrame, TypeOK, ServePhases,
                                 netVars, configVars, inferVars
  <2> QED BY <1>4, <2>2, <2>3, AccountKept DEF ServeHeartbeat, Reading, Reply
<1>5. CASE ServeConfigUpdate
  <2> DEFINE ack == ApplyStatus(NextFrame)
  <2>1. NextFrame.seq \in Nat
    BY <1>5, NextFrameType, FrameFields DEF ServeConfigUpdate, Reading
  <2>2. ack \in 0..2 /\ (ack = 0 => NextFrame.value \in ConfigValues)
    BY DEF ApplyStatus
  <2>3. [type |-> "CONFIG_ACK", seq |-> NextFrame.seq, status |-> ack] \in ServiceFrame
    BY <2>1, <2>2 DEF ServiceFrame
  <2> HIDE DEF ack
  <2>4. /\ reply' = [type |-> "CONFIG_ACK", seq |-> NextFrame.seq, status |-> ack]
        /\ config' = IF ack = 0 THEN NextFrame.value ELSE config
        /\ lastSequence' = IF ack = 0 THEN NextFrame.seq ELSE lastSequence
        /\ serve = "recv" /\ serve' = "send" /\ HasFrame /\ rcvd' = rcvd + 1
    BY <1>5 DEF ack, ServeConfigUpdate, Reading, Reply
  <2>5. TypeOK' BY <1>5, <2>1, <2>2, <2>3, <2>4 DEF ServeConfigUpdate, HasFrame, TypeOK, Configs,
                                       ServePhases, netVars, inferVars
  <2> QED BY <1>5, <2>3, <2>4, <2>5, AccountKept DEF ServeConfigUpdate
<1>6. CASE ServeAudioAccept
  <2> DEFINE new == [seq |-> NextFrame.seq, disc |-> NextFrame.disc,
                     epoch |-> NextFrame.epoch, config |-> config]
  <2>1. new \in Item
    BY <1>6, NextFrameType, FrameFields DEF ServeAudioAccept, Reading, Item, TypeOK
  <2> HIDE DEF new
  <2>2. requests' = Append(requests, new) BY <1>6 DEF ServeAudioAccept, new
  <2>3. new # NoItem BY <2>1, ItemIsNoNone
  <2>4. TypeOK' BY <1>6, <2>1, <2>2 DEF ServeAudioAccept, Reading, HasFrame, TypeOK, netVars,
                                       configVars, inferVars
  <2>5. serve = "recv" /\ serve' = "recv" /\ slots' = slots - 1 /\ UNCHANGED inferVars
    BY <1>6 DEF ServeAudioAccept, Reading
  <2>6. SentinelLast' BY <2>2, <2>3, <2>5, AppendFacts DEF SentinelLast, TypeOK
  <2>7. SlotsAccounted'
    BY <2>2, <2>5, AppendFacts DEF SlotsAccounted, Held, Busy, Working, TypeOK, inferVars
  <2>8. InHand' BY <2>5 DEF InHand, Working, inferVars
  <2> QED BY <2>4, <2>6, <2>7, <2>8
<1>7. CASE ServeAudioSkip
  <2>1. NextFrame.seq \in Nat
    BY <1>7, NextFrameType, FrameFields DEF ServeAudioSkip, Reading
  <2>2. [type |-> "AUDIO_SKIP", seq |-> NextFrame.seq] \in ServiceFrame
    BY <2>1 DEF ServiceFrame
  <2>3. TypeOK' BY <1>7, <2>2 DEF ServeAudioSkip, Reading, Reply, HasFrame, TypeOK, ServePhases,
                                 netVars, configVars, inferVars
  <2> QED BY <1>7, <2>2, <2>3, AccountKept DEF ServeAudioSkip, Reading, Reply
<1>8. CASE ServeEnd
  <2>1. TypeOK' BY <1>8 DEF ServeEnd, Reading, HasFrame, TypeOK, ServePhases, netVars, configVars,
                           inferVars
  <2> QED BY <1>8, <2>1, AccountKept DEF ServeEnd, Reading
<1>9. CASE ServeRecvFails
  <2>1. TypeOK' BY <1>9 DEF ServeRecvFails, TypeOK, ServePhases, netVars, configVars, inferVars
  <2> QED BY <1>9, <2>1, AccountKept DEF ServeRecvFails
<1>10. CASE ServeFinally
  <2>1. TypeOK' BY <1>10 DEF ServeFinally, TypeOK, ServePhases, netVars, configVars, inferVars
  <2>2. /\ serve = "finally" /\ serve' = "closed" /\ slots' = slots /\ UNCHANGED inferVars
        /\ requests' = Append(requests, NoItem)
    BY <1>10 DEF ServeFinally
  <2>3. SentinelLast' BY <2>2, AppendFacts DEF SentinelLast, TypeOK
  <2>4. SlotsAccounted'
    <3>1. Len(requests') = Len(requests) + 1 /\ requests' # <<>> /\ Len(requests) \in Nat
      BY <2>2, AppendFacts DEF TypeOK
    <3>2. Held' = Held BY <2>2, <3>1 DEF Held
    <3>3. Busy' = Busy BY <2>2 DEF Busy, Working, inferVars
    <3> QED BY <2>2, <3>2, <3>3 DEF SlotsAccounted
  <2>5. InHand' BY <2>2 DEF InHand, Working, inferVars
  <2> QED BY <2>1, <2>3, <2>4, <2>5
<1>11. CASE ServeTakeSendLock
  <2>1. TypeOK' BY <1>11 DEF ServeTakeSendLock, TakeSendLock, TypeOK, netVars, configVars, inferVars
  <2> QED BY <1>11, <2>1, AccountKept DEF ServeTakeSendLock, InHand
<1>12. CASE ServeSent
  <2>1. reply \in ServiceFrame BY <1>12 DEF ServeSent, InHand
  <2>2. s2c' \in Seq(ServiceFrame) BY <1>12, <2>1 DEF ServeSent, Sends, TypeOK
  <2>3. TypeOK' BY <1>12, <2>2 DEF ServeSent, TypeOK, ServePhases, netVars, configVars, inferVars
  <2> QED BY <1>12, <2>3, AccountKept DEF ServeSent
<1>13. CASE ServeSendFails
  <2>1. s2c' \in Seq(ServiceFrame) BY <1>13, FailedSend DEF ServeSendFails
  <2>2. TypeOK' BY <1>13, <2>1 DEF ServeSendFails, TypeOK, ServePhases, netVars, configVars,
                                  inferVars
  <2> QED BY <1>13, <2>2, AccountKept DEF ServeSendFails
<1> QED BY <1>1, <1>2, <1>3, <1>4, <1>5, <1>6, <1>7, <1>8, <1>9, <1>10, <1>11, <1>12, <1>13
        DEF Serve

----------------------------------------------------------------------------
(* _run_inference.                                                          *)

\* A step that leaves the queue, the semaphore and the read loop alone keeps
\* the account, as long as _run_inference stays busy, or stays idle.
LEMMA AccountKeptByInfer ==
  ASSUME IInv, UNCHANGED <<serve, reply, requests, slots>>,
         infer # "off", Working' = Working, Working' => item' \in Item
  PROVE  (SentinelLast /\ SlotsAccounted /\ InHand)'
BY DEF IInv, TypeOK, SentinelLast, SlotsAccounted, Held, Busy, InHand

\* _run_inference keeps the account: it empties a slot, then frees it.
LEMMA InferKeeps == ASSUME IInv, Infer PROVE IInv'
<1> USE DEF IInv
<1>1. CASE InferGet
  <2> DEFINE first == Head(requests)
  <2>1. /\ requests # <<>> /\ requests' = Tail(requests) /\ infer = "get"
        /\ UNCHANGED <<netVars, configVars, memory, rcvd, s2c, serve, reply, slots, sendLock>>
        /\ IF first = NoItem THEN infer' = "exit" /\ UNCHANGED item
                             ELSE infer' = "process" /\ item' = first
    BY <1>1 DEF InferGet
  <2>2. /\ first \in Item \cup {NoItem} /\ first = requests[1]
        /\ Tail(requests) \in Seq(Item \cup {NoItem})
        /\ Len(Tail(requests)) = Len(requests) - 1
        /\ \A i \in DOMAIN Tail(requests) : Tail(requests)[i] = requests[i + 1] /\ i + 1 \in DOMAIN requests
        /\ 1 \in DOMAIN requests /\ Len(requests) \in Nat /\ Len(requests) > 0
        /\ DOMAIN Tail(requests) = 1..(Len(requests) - 1)
    BY <2>1 DEF TypeOK
  <2> HIDE DEF first
  <2>3. TypeOK' BY <2>1, <2>2 DEF TypeOK, InferPhases, netVars, configVars
  <2>4. SentinelLast' BY <2>1, <2>2 DEF SentinelLast, TypeOK
  <2>5. InHand' BY <2>1, <2>2 DEF InHand, Working
  <2>6. SlotsAccounted'
    <3>1. CASE first = NoItem
      <4>1. serve = "closed" /\ Len(requests) = 1 BY <2>2, <3>1 DEF SentinelLast
      <4>2. requests' = <<>> BY <2>1, <2>2, <4>1 DEF TypeOK
      <4>3. Held = 0 /\ Held' = 0 BY <2>1, <2>2, <4>1, <4>2 DEF Held
      <4>4. Busy = 0 /\ Busy' = 0 BY <2>1, <3>1 DEF Busy, Working
      <4> QED BY <2>1, <4>3, <4>4 DEF SlotsAccounted
    <3>2. CASE first # NoItem
      <4>1. serve = "closed" => Len(requests) > 1 BY <2>2, <3>2 DEF SentinelLast
      <4>2. Len(requests') = Len(requests) - 1 BY <2>1, <2>2
      <4>3. serve = "closed" => requests' # <<>> BY <2>2, <4>1, <4>2
      <4>4. Held' = Held - 1 BY <2>1, <2>2, <4>2, <4>3 DEF Held
      <4>5. Busy = 0 /\ Busy' = 1 BY <2>1, <3>2 DEF Busy, Working
      <4> QED BY <2>1, <2>2, <4>4, <4>5 DEF SlotsAccounted, Held, TypeOK
    <3> QED BY <3>1, <3>2
  <2> QED BY <2>3, <2>4, <2>5, <2>6
<1>2. CASE InferProcess \/ InferRaises
  <2>1. item \in Item /\ item.epoch \in Nat
    BY <1>2 DEF InferProcess, InferRaises, InHand, Working, Item
  <2>2. TypeOK' BY <1>2, <2>1 DEF InferProcess, InferRaises, TypeOK, InferPhases, netVars, configVars
  <2> QED BY <1>2, <2>1, <2>2, AccountKeptByInfer DEF InferProcess, InferRaises, Working
<1>3. CASE InferTakeSendLock
  <2>1. TypeOK' BY <1>3 DEF InferTakeSendLock, TakeSendLock, TypeOK, netVars, configVars, inferVars
  <2>2. item \in Item BY <1>3 DEF InferTakeSendLock, InHand, Working
  <2> QED BY <1>3, <2>1, <2>2, AccountKeptByInfer DEF InferTakeSendLock, Working, inferVars
<1>4. CASE InferSent
  <2> DEFINE out == [type |-> "AUDIO_OUT", seq |-> item.seq, config |-> item.config,
                     epoch |-> item.epoch, memory |-> memory]
  <2>1. item \in Item BY <1>4 DEF InferSent, InHand, Working
  <2>2. out \in ServiceFrame BY <2>1 DEF Item, ServiceFrame, TypeOK
  <2> HIDE DEF out
  <2>3. s2c' = Append(s2c, out) BY <1>4 DEF out, InferSent, Sends
  <2>4. TypeOK' BY <1>4, <2>2, <2>3 DEF InferSent, TypeOK, InferPhases, netVars, configVars
  <2> QED BY <1>4, <2>1, <2>4, AccountKeptByInfer DEF InferSent, Working
<1>5. CASE InferSendFails
  <2>1. item \in Item BY <1>5 DEF InferSendFails, InHand, Working
  <2>2. s2c' \in Seq(ServiceFrame)
    BY <1>5, FailedSend DEF InferSendFails
  <2>3. TypeOK' BY <1>5, <2>2 DEF InferSendFails, TypeOK, InferPhases, netVars, configVars
  <2> QED BY <1>5, <2>1, <2>3, AccountKeptByInfer DEF InferSendFails, Working
<1>6. CASE InferRelease
  <2>1. /\ Working /\ ~Working' /\ slots' = slots + 1 /\ item' = NoItem
        /\ UNCHANGED <<serve, reply, requests>>
    BY <1>6 DEF InferRelease, Working
  <2>2. Held' = Held /\ Held \in Nat
    BY <2>1 DEF Held, TypeOK
  <2>3. Busy = 1 /\ Busy' = 0 BY <2>1 DEF Busy
  <2>4. SlotsAccounted' BY <2>1, <2>2, <2>3 DEF SlotsAccounted, TypeOK
  <2>5. slots' \in 0..MaxInFlight BY <2>1, <2>2, <2>3 DEF SlotsAccounted, TypeOK
  <2>6. TypeOK' BY <1>6, <2>5 DEF InferRelease, TypeOK, InferPhases, netVars, configVars
  <2>7. SentinelLast' BY <2>1 DEF SentinelLast
  <2>8. InHand' BY <1>6, <2>1 DEF InferRelease, InHand, Working
  <2> QED BY <2>4, <2>6, <2>7, <2>8
<1> QED BY <1>1, <1>2, <1>3, <1>4, <1>5, <1>6 DEF Infer

----------------------------------------------------------------------------
(* Types and the room in the queue.                                         *)

\* Every step of the peer and of the two threads keeps the invariant.
LEMMA NextIInv == IInv /\ [Next]_vars => IInv'
<1> SUFFICES ASSUME IInv, [Next]_vars PROVE IInv' OBVIOUS
<1>1. CASE UNCHANGED vars
  BY <1>1 DEF vars, IInv, TypeOK, SentinelLast, SlotsAccounted, Held, Busy, InHand, Working
<1> QED BY <1>1, PeerKeeps, ServeKeeps, InferKeeps DEF Next

\* The inductive invariant holds in every reachable state.
LEMMA InvariantHolds == Spec => []IInv
BY InitIInv, NextIInv, PTL DEF Spec

\* The variables of a session keep their types; slots stays within the bound
\* of BoundedSemaphore, whose release() would raise beyond it.
THEOREM TypesCorrect == Spec => []TypeOK
BY InvariantHolds, PTL DEF IInv

\* requests.put_nowait, called once slots.acquire succeeded, never raises
\* queue.Full, for every MAX_IN_FLIGHT and whatever the peer sends.
THEOREM RoomInQueue == Spec => []QueueHasRoom
<1>1. IInv => QueueHasRoom
  BY DEF IInv, TypeOK, SlotsAccounted, Held, Busy, QueueHasRoom
<1> QED BY InvariantHolds, <1>1, PTL
----------------------------------------------------------------------------
(* The order of the answers.                                                *)

\* The peer numbers its blocks.
Numbered ==
  /\ \A i \in Audio(sent) : sent[i].seq \in 1..CountOf(sent, "AUDIO_IN")
  /\ \A i, j \in Audio(sent) : i < j => sent[i].seq < sent[j].seq

\* Requests that wait, a block in hand that is not answered yet, the AUDIO_OUT
\* among the frames written, and an AUDIO_SKIP on its way.
InQueue == {i \in DOMAIN requests : requests[i] # NoItem}
Unsent == infer \in {"process", "send"}
Outs == {o \in DOMAIN s2c : s2c[o].type = "AUDIO_OUT"}
Skipping == serve = "send" /\ reply.type = "AUDIO_SKIP"

\* A request is a block that was read, with the configuration of its place.
BlockOf(r, n) == /\ r.seq = sent[n].seq /\ r.epoch = sent[n].epoch
                 /\ r.config = ConfigBefore(n)
Traced ==
  /\ \A i \in InQueue : \E n \in Accepted : BlockOf(requests[i], n) /\ requests[i].disc = sent[n].disc
  /\ Working => \E n \in Accepted : BlockOf(item, n) /\ item.disc = sent[n].disc
  /\ \A o \in Outs : \E n \in Accepted : BlockOf(s2c[o], n)
  /\ \A o \in Answers : \E n \in Accepted : s2c[o].seq = sent[n].seq
  /\ Skipping => \E n \in Accepted : reply.seq = sent[n].seq

\* Blocks leave in the order in which they were read.
Ordered ==
  /\ \A i, j \in InQueue : i < j => requests[i].seq < requests[j].seq
  /\ Unsent => \A i \in InQueue : item.seq < requests[i].seq
  /\ \A o \in Outs : /\ \A i \in InQueue : s2c[o].seq < requests[i].seq
                     /\ Unsent => s2c[o].seq < item.seq

\* A block that is skipped is not converted.
Apart(seq) == /\ \A i \in InQueue : requests[i].seq # seq
              /\ Unsent => item.seq # seq
SkipsApart ==
  /\ \A o \in Answers \ Outs : Apart(s2c[o].seq)
  /\ Skipping => Apart(reply.seq) /\ \A o \in Answers : s2c[o].seq # reply.seq

\* The configuration in force is that of the last block read.
ConfigCurrent ==
  \/ /\ config = DefaultConfig /\ lastSequence = 0
     /\ \A i \in DOMAIN sent : ~Applicable(i, rcvd + 1)
  \/ \E i \in DOMAIN sent :
       /\ Applicable(i, rcvd + 1) /\ config = sent[i].value /\ lastSequence = sent[i].seq
       /\ \A j \in DOMAIN sent : Applicable(j, rcvd + 1) /\ j # i =>
            sent[j].seq < sent[i].seq \/ (sent[j].seq = sent[i].seq /\ i < j)

\* No block that was read is lost while both threads work.
Kept ==
  ~Over /\ infer \notin {"dying", "exit"} =>
    \A n \in Accepted : \/ \E o \in Answers : s2c[o].seq = sent[n].seq
                        \/ Skipping /\ reply.seq = sent[n].seq
                        \/ \E i \in InQueue : requests[i].seq = sent[n].seq
                        \/ Unsent /\ item.seq = sent[n].seq

\* The block that opened stream e was skipped, so nothing reset the engine.
Excused(e) == \E i \in Skipped : sent[i].disc /\ sent[i].epoch = e

\* A block that is not flagged continues the stream of the block before it.
Epochs ==
  /\ \/ Audio(sent) = {} /\ LastEpoch = 0
     \/ \E n \in Audio(sent) : sent[n].epoch = LastEpoch /\ \A m \in Audio(sent) : m <= n
  /\ \A n \in Audio(sent) : ~sent[n].disc =>
       \/ sent[n].epoch = 0 /\ \A m \in Audio(sent) : n <= m
       \/ \E m \in Audio(sent) : /\ m < n /\ sent[m].epoch = sent[n].epoch
                                 /\ \A k \in Audio(sent) : k <= m \/ n <= k

\* The stream the engine's buffers hold when the i-th request is its turn.
Before(i) == IF i > 1 THEN requests[i - 1].epoch ELSE IF infer = "process" THEN item.epoch ELSE memory

\* Each request continues the stream before it, opens one, or is excused.
Chain ==
  infer \notin {"dying", "exit"} =>
    /\ infer = "process" => item.disc \/ memory = item.epoch \/ Excused(item.epoch)
    /\ infer = "send" => memory = item.epoch \/ Excused(item.epoch)
    /\ \A i \in InQueue : requests[i].disc \/ requests[i].epoch = Before(i) \/ Excused(requests[i].epoch)

\* The last block read left its stream at the end of the queue.
LastRead ==
  ~Over /\ infer \notin {"dying", "exit"} =>
    /\ Accepted = {} => Before(Len(requests) + 1) = 0
    /\ \A n \in Accepted : (\A m \in Accepted : m <= n) =>
         \/ Excused(sent[n].epoch)
         \/ Before(Len(requests) + 1) = sent[n].epoch
         \/ Skipping /\ \E k \in Accepted : sent[k].seq = reply.seq /\ sent[k].disc /\ sent[k].epoch = sent[n].epoch

\* A frame that the peer sends comes after all the others.
LEMMA SentAppend ==
  ASSUME TypeOK, NEW f, sent' = Append(sent, f)
  PROVE  /\ DOMAIN sent' = DOMAIN sent \cup {Len(sent) + 1} /\ DOMAIN sent = 1..Len(sent) /\ Len(sent) \in Nat
         /\ \A i \in DOMAIN sent : sent'[i] = sent[i]
         /\ sent'[Len(sent) + 1] = f
         /\ Audio(sent)' = IF f.type = "AUDIO_IN" THEN Audio(sent) \cup {Len(sent) + 1} ELSE Audio(sent)
<1>1. sent \in Seq(PeerFrame) BY DEF TypeOK
<1>2. /\ DOMAIN sent' = 1..(Len(sent) + 1) /\ DOMAIN sent = 1..Len(sent) /\ Len(sent) \in Nat
      /\ \A i \in 1..Len(sent) : sent'[i] = sent[i]
      /\ sent'[Len(sent) + 1] = f
  BY <1>1
<1>3. DOMAIN sent' = DOMAIN sent \cup {Len(sent) + 1} BY <1>2
<1>4. Audio(sent)' = IF f.type = "AUDIO_IN" THEN Audio(sent) \cup {Len(sent) + 1} ELSE Audio(sent)
  BY <1>2, <1>3 DEF Audio
<1> QED BY <1>2, <1>3, <1>4

\* The blocks, and the flagged ones among them, are finitely many.
LEMMA AudioFinite ==
  ASSUME TypeOK, NEW S \in SUBSET Audio(sent)
  PROVE  IsFiniteSet(S) /\ Cardinality(S) \in Nat
<1>1. IsFiniteSet(1..Len(sent)) BY FS_Interval DEF TypeOK
<1>2. S \subseteq 1..Len(sent) BY DEF TypeOK, Audio
<1> QED BY <1>1, <1>2, FS_Subset, FS_CardinalityType

\* A frame that is no block leaves the numbers as they are.
LEMMA OtherFrames ==
  ASSUME TypeOK, Numbered, Epochs, NEW f, sent' = Append(sent, f), f.type # "AUDIO_IN"
  PROVE  Numbered' /\ Epochs'
<1>1. Audio(sent)' = Audio(sent) /\ \A i \in Audio(sent) : sent'[i] = sent[i] BY SentAppend DEF Audio
<1>2. CountOf(sent, "AUDIO_IN")' = CountOf(sent, "AUDIO_IN") BY <1>1 DEF CountOf, Audio
<1>3. LastEpoch' = LastEpoch
  <2>1. {i \in Audio(sent)' : sent'[i].disc} = {i \in Audio(sent) : sent[i].disc} BY <1>1
  <2> QED BY <2>1 DEF LastEpoch
<1> QED BY <1>1, <1>2, <1>3 DEF Numbered, Epochs

\* The peer gives each block the next number, and the epoch of the stream.
LEMMA AudioFrames ==
  ASSUME TypeOK, Numbered, Epochs, NEW new \in Nat, NEW disc \in BOOLEAN,
         Audio(sent)' = Audio(sent) \cup {new}, new \notin Audio(sent),
         \A i \in Audio(sent) : sent'[i] = sent[i] /\ i < new /\ i \in Nat,
         sent'[new].seq = CountOf(sent, "AUDIO_IN") + 1, sent'[new].disc = disc,
         sent'[new].epoch = IF disc THEN LastEpoch + 1 ELSE LastEpoch
  PROVE  Numbered' /\ Epochs'
<1> DEFINE flagged == {i \in Audio(sent) : sent[i].disc}
<1>1. CountOf(sent, "AUDIO_IN") \in Nat /\ CountOf(sent, "AUDIO_IN")' = CountOf(sent, "AUDIO_IN") + 1
  <2>1. Cardinality(Audio(sent)) \in Nat /\ Cardinality(Audio(sent)') = Cardinality(Audio(sent)) + 1
    BY AudioFinite, FS_AddElement
  <2> QED BY <2>1 DEF CountOf, Audio
<1>2. Numbered'
  <2>1. \A i \in Audio(sent)' : sent'[i].seq \in 1..CountOf(sent, "AUDIO_IN")' BY <1>1 DEF Numbered
  <2>2. \A i, j \in Audio(sent)' : i < j => sent'[i].seq < sent'[j].seq
    <3>1. \A i \in Audio(sent) : sent[i].seq \in Nat /\ sent[i].seq < sent'[new].seq BY <1>1 DEF Numbered
    <3> QED BY <3>1 DEF Numbered
  <2> QED BY <2>1, <2>2 DEF Numbered
<1>3. LastEpoch \in Nat /\ LastEpoch' = IF disc THEN LastEpoch + 1 ELSE LastEpoch
  <2>1. IsFiniteSet(flagged) /\ Cardinality(flagged) \in Nat /\ new \notin flagged BY AudioFinite
  <2>2. {i \in Audio(sent)' : sent'[i].disc} = IF disc THEN flagged \cup {new} ELSE flagged OBVIOUS
  <2>3. Cardinality(flagged \cup {new}) = Cardinality(flagged) + 1 BY <2>1, FS_AddElement
  <2> QED BY <2>1, <2>2, <2>3 DEF LastEpoch
<1>4. sent'[new].epoch = LastEpoch' /\ \A m \in Audio(sent)' : m <= new BY <1>3
<1>5. ASSUME ~disc
      PROVE  \/ sent'[new].epoch = 0 /\ \A m \in Audio(sent)' : new <= m
             \/ \E m \in Audio(sent) : /\ m < new /\ sent'[m].epoch = sent'[new].epoch
                                       /\ \A k \in Audio(sent)' : k <= m \/ new <= k
  <2>1. CASE Audio(sent) = {} /\ LastEpoch = 0 BY <1>5, <2>1
  <2>2. ASSUME NEW m \in Audio(sent), sent[m].epoch = LastEpoch, \A k \in Audio(sent) : k <= m
        PROVE  /\ m < new /\ sent'[m].epoch = sent'[new].epoch
               /\ \A k \in Audio(sent)' : k <= m \/ new <= k
    BY <1>5, <2>2
  <2> QED BY <2>1, <2>2 DEF Epochs
<1>6. ASSUME NEW n \in Audio(sent), ~sent[n].disc
      PROVE  \/ sent'[n].epoch = 0 /\ \A m \in Audio(sent)' : n <= m
             \/ \E m \in Audio(sent) : /\ m < n /\ sent'[m].epoch = sent'[n].epoch
                                       /\ \A k \in Audio(sent)' : k <= m \/ n <= k
  <2>1. CASE sent[n].epoch = 0 /\ \A m \in Audio(sent) : n <= m BY <2>1
  <2>2. ASSUME NEW m \in Audio(sent), m < n, sent[m].epoch = sent[n].epoch,
               \A k \in Audio(sent) : k <= m \/ n <= k
        PROVE  sent'[m].epoch = sent'[n].epoch /\ \A k \in Audio(sent)' : k <= m \/ n <= k
    BY <2>2
  <2> QED BY <1>6, <2>1, <2>2 DEF Epochs
<1>7. Epochs' BY <1>4, <1>5, <1>6 DEF Epochs
<1> QED BY <1>2, <1>7

serviceVars == <<rcvd, s2c, serve, reply, infer, requests, item, slots, sendLock, config, lastSequence, memory>>

\* The peer moves nothing of the service.
LEMMA PeerFrames ==
  ASSUME TypeOK, Numbered, Epochs, Peer
  PROVE  /\ Numbered' /\ Epochs' /\ UNCHANGED serviceVars
         /\ sent' = sent \/ \E f : sent' = Append(sent, f)
<1> USE DEF serviceVars
<1>1. CASE PeerFate BY <1>1 DEF PeerFate, Numbered, Epochs, LastEpoch
<1>2. ASSUME NEW f, Put(f), f.type # "AUDIO_IN"
      PROVE  Numbered' /\ Epochs' /\ UNCHANGED serviceVars /\ sent' = Append(sent, f)
  BY <1>2, OtherFrames DEF Put
<1>3. CASE PeerHello \/ PeerOpen \/ PeerEnd BY <1>2, <1>3 DEF PeerHello, PeerOpen, PeerEnd
<1>4. CASE PeerConfig BY <1>2, <1>4 DEF PeerConfig
<1>5. CASE PeerHeartbeat BY <1>2, <1>5 DEF PeerHeartbeat
<1>6. CASE PeerAudio
  <2>1. PICK disc \in BOOLEAN :
          Put([type |-> "AUDIO_IN", seq |-> CountOf(sent, "AUDIO_IN") + 1, disc |-> disc,
               epoch |-> IF disc THEN LastEpoch + 1 ELSE LastEpoch])
    BY <1>6 DEF PeerAudio
  <2> DEFINE f == [type |-> "AUDIO_IN", seq |-> CountOf(sent, "AUDIO_IN") + 1, disc |-> disc,
                   epoch |-> IF disc THEN LastEpoch + 1 ELSE LastEpoch]
  <2>2. /\ f.type = "AUDIO_IN" /\ f.seq = CountOf(sent, "AUDIO_IN") + 1 /\ f.disc = disc
        /\ f.epoch = IF disc THEN LastEpoch + 1 ELSE LastEpoch
    OBVIOUS
  <2>3. sent' = Append(sent, f) /\ UNCHANGED serviceVars BY <2>1 DEF Put
  <2> HIDE DEF f
  <2>4. /\ Audio(sent)' = Audio(sent) \cup {Len(sent) + 1} /\ Len(sent) + 1 \notin Audio(sent)
        /\ \A i \in Audio(sent) : sent'[i] = sent[i] /\ i < Len(sent) + 1 /\ i \in Nat
        /\ sent'[Len(sent) + 1] = f /\ Len(sent) + 1 \in Nat
    BY <2>2, <2>3, SentAppend DEF Audio
  <2>5. Numbered' /\ Epochs' BY <2>2, <2>4, AudioFrames
  <2> QED BY <2>3, <2>5
<1> QED BY <1>1, <1>3, <1>4, <1>5, <1>6 DEF Peer

\* What the peer sends later changes nothing of what it sent: neither a frame
\* nor the configuration that is in force at its place.
LEMMA PastKept ==
  ASSUME TypeOK, sent' = sent \/ \E f : sent' = Append(sent, f)
  PROVE  /\ DOMAIN sent \subseteq DOMAIN sent' /\ \A i \in DOMAIN sent' \ DOMAIN sent : i = Len(sent) + 1
         /\ \A n \in DOMAIN sent : sent'[n] = sent[n] /\ ConfigBefore(n)' = ConfigBefore(n)
         /\ \A i \in DOMAIN sent' : \A n \in 1..(Len(sent) + 1) :
              Applicable(i, n)' <=> i \in DOMAIN sent /\ Applicable(i, n)
         /\ DOMAIN sent = 1..Len(sent) /\ Len(sent) \in Nat
<1>1. /\ DOMAIN sent \subseteq DOMAIN sent' /\ \A i \in DOMAIN sent' \ DOMAIN sent : i = Len(sent) + 1
      /\ \A n \in DOMAIN sent : sent'[n] = sent[n]
      /\ DOMAIN sent = 1..Len(sent) /\ Len(sent) \in Nat
  BY SentAppend DEF TypeOK
<1>2. ASSUME NEW n \in 1..(Len(sent) + 1), NEW i \in DOMAIN sent'
      PROVE  Applicable(i, n)' <=> i \in DOMAIN sent /\ Applicable(i, n)
  BY <1>1 DEF Applicable
<1>3. ASSUME NEW n \in DOMAIN sent PROVE ConfigBefore(n)' = ConfigBefore(n)
  <2> DEFINE top == {i \in DOMAIN sent : /\ Applicable(i, n)
                                         /\ \A j \in DOMAIN sent : Applicable(j, n) /\ j # i =>
                                              \/ sent[j].seq < sent[i].seq
                                              \/ sent[j].seq = sent[i].seq /\ i < j}
  <2>1. n \in 1..(Len(sent) + 1) BY <1>1
  <2>2. \A i \in DOMAIN sent' : Applicable(i, n)' <=> i \in DOMAIN sent /\ Applicable(i, n) BY <1>2, <2>1
  <2>3. top' = top BY <1>1, <2>2
  <2>4. top # {} => (CHOOSE i \in top : TRUE) \in DOMAIN sent OBVIOUS
  <2>5. ConfigBefore(n) = IF top = {} THEN DefaultConfig ELSE sent[CHOOSE i \in top : TRUE].value
    BY DEF ConfigBefore
  <2>6. ConfigBefore(n)' = IF top' = {} THEN DefaultConfig ELSE sent'[CHOOSE i \in top' : TRUE].value
    BY DEF ConfigBefore
  <2> HIDE DEF top
  <2> QED BY <1>1, <2>3, <2>4, <2>5, <2>6
<1> QED BY <1>1, <1>2, <1>3

----------------------------------------------------------------------------
(* Steps that answer nothing and hand nothing on.                           *)

\* What the two threads owe the peer.
Debts == Traced /\ Ordered /\ SkipsApart /\ Kept /\ Chain /\ LastRead /\ AnsweredOnceInOrder /\ EngineFollowsStream

\* The frames read, the answers given and the queue stay as they are.
SameFrames == /\ Accepted' = Accepted
              /\ \A n \in Accepted : sent'[n] = sent[n] /\ ConfigBefore(n)' = ConfigBefore(n)
SameAnswers == Answers' = Answers /\ Outs' = Outs /\ \A o \in Answers : s2c'[o] = s2c[o]
SameQueue == InQueue' = InQueue /\ \A i \in InQueue : requests'[i] = requests[i]
Ending == infer \in {"dying", "exit"}

\* A frame at the end of s2c.
LEMMA AnswerAppend ==
  ASSUME TypeOK, NEW g, s2c' = Append(s2c, g)
  PROVE  /\ \A o \in DOMAIN s2c : s2c'[o] = s2c[o]
         /\ DOMAIN s2c' = DOMAIN s2c \cup {Len(s2c) + 1} /\ s2c'[Len(s2c) + 1] = g
         /\ \A o \in DOMAIN s2c : o \in Nat /\ o < Len(s2c) + 1
         /\ Len(s2c) + 1 \in Nat
         /\ Answers' = IF g.type \in {"AUDIO_OUT", "AUDIO_SKIP"} THEN Answers \cup {Len(s2c) + 1} ELSE Answers
         /\ Outs' = IF g.type = "AUDIO_OUT" THEN Outs \cup {Len(s2c) + 1} ELSE Outs
<1>1. s2c \in Seq(ServiceFrame) BY DEF TypeOK
<1>2. /\ DOMAIN s2c' = 1..(Len(s2c) + 1) /\ DOMAIN s2c = 1..Len(s2c) /\ Len(s2c) \in Nat
      /\ \A i \in 1..Len(s2c) : s2c'[i] = s2c[i]
      /\ s2c'[Len(s2c) + 1] = g
  BY <1>1
<1>3. DOMAIN s2c' = DOMAIN s2c \cup {Len(s2c) + 1} BY <1>2
<1>4. Answers' = IF g.type \in {"AUDIO_OUT", "AUDIO_SKIP"} THEN Answers \cup {Len(s2c) + 1} ELSE Answers
  BY <1>2, <1>3 DEF Answers
<1>5. Outs' = IF g.type = "AUDIO_OUT" THEN Outs \cup {Len(s2c) + 1} ELSE Outs
  BY <1>2, <1>3 DEF Outs
<1> QED BY <1>2, <1>3, <1>4, <1>5

\* A stream that is excused stays so.
LEMMA ExcusedStays ==
  ASSUME TypeOK, sent' = sent \/ \E f : sent' = Append(sent, f),
         Answers \subseteq Answers', \A o \in Answers : s2c'[o] = s2c[o],
         NEW e, Excused(e)
  PROVE  Excused(e)'
<1>1. PICK i \in Skipped : sent[i].disc /\ sent[i].epoch = e BY DEF Excused
<1>2. i \in Audio(sent) /\ \E o \in Answers : s2c[o].type = "AUDIO_SKIP" /\ s2c[o].seq = sent[i].seq
  BY <1>1 DEF Skipped
<1>3. i \in Audio(sent)' /\ sent'[i] = sent[i] BY <1>2, PastKept DEF Audio
<1>4. i \in Skipped' BY <1>2, <1>3 DEF Skipped
<1> QED BY <1>1, <1>3, <1>4 DEF Excused

\* Such a step keeps every debt.
LEMMA QuietKeeps ==
  ASSUME IInv, Debts, SameFrames, SameAnswers,
         sent' = sent \/ \E f : sent' = Append(sent, f),
         SameQueue, requests' = requests \/ Over',
         Working' => Working /\ item' = item,
         Unsent' => Unsent, Unsent /\ ~Ending' => Unsent',
         Ending => Ending', ~Ending' => (infer' = "process" <=> infer = "process") /\ memory' = memory,
         Over => Over', Skipping' => Skipping /\ reply' = reply, Skipping /\ ~Over' => Skipping'
  PROVE  Debts'
<1>1. Unsent' => Unsent /\ item' = item BY DEF Unsent, Working
<1>2. Outs \subseteq Answers /\ \A o \in Outs : s2c'[o] = s2c[o] BY DEF Outs, Answers, SameAnswers
<1>3. \A e : Excused(e) => Excused(e)' BY ExcusedStays DEF IInv, SameAnswers
<1>4. Traced'
  <2>1. \A x : \A n \in Accepted : BlockOf(x, n) => BlockOf(x, n)' BY DEF BlockOf, SameFrames
  <2>2. \A i \in InQueue' : \E n \in Accepted' : BlockOf(requests[i], n)' /\ requests'[i].disc = sent'[n].disc
    BY DEF Debts, Traced, SameFrames, SameQueue, BlockOf
  <2>3. Working' => \E n \in Accepted' : BlockOf(item, n)' /\ item'.disc = sent'[n].disc
    BY DEF Debts, Traced, SameFrames, BlockOf
  <2>4. \A o \in Outs' : \E n \in Accepted' : BlockOf(s2c[o], n)'
    BY <1>2 DEF Debts, Traced, SameFrames, SameAnswers, BlockOf
  <2>5. \A o \in Answers' : \E n \in Accepted' : s2c'[o].seq = sent'[n].seq
    BY DEF Debts, Traced, SameFrames, SameAnswers
  <2>6. Skipping' => \E n \in Accepted' : reply'.seq = sent'[n].seq
    BY DEF Debts, Traced, SameFrames
  <2> QED BY <2>2, <2>3, <2>4, <2>5, <2>6 DEF Traced
<1>5. Ordered' BY <1>1, <1>2 DEF Debts, Ordered, SameQueue, SameAnswers
<1>6. SkipsApart'
  <2>1. \A s : Apart(s) => (\A i \in InQueue' : requests'[i].seq # s) /\ (Unsent' => item'.seq # s)
    BY <1>1 DEF Apart, SameQueue
  <2>2. \A o \in Answers' \ Outs' : Apart(s2c[o].seq)'
    <3>1. \A o \in Answers \ Outs : Apart(s2c[o].seq) /\ s2c'[o] = s2c[o] BY DEF Debts, SkipsApart, SameAnswers
    <3> QED BY <2>1, <3>1 DEF Apart, SameAnswers
  <2>3. Skipping' => Apart(reply.seq)' /\ \A o \in Answers' : s2c'[o].seq # reply'.seq
    <3>1. Skipping' => Apart(reply.seq) /\ reply' = reply /\ \A o \in Answers : s2c[o].seq # reply.seq
      BY DEF Debts, SkipsApart
    <3> QED BY <2>1, <3>1 DEF Apart, SameAnswers
  <2> QED BY <2>2, <2>3 DEF SkipsApart
<1>7. Kept' BY <1>1 DEF Debts, Kept, SameFrames, SameAnswers, SameQueue, Ending, Over
<1>8. Chain'
  <2> SUFFICES ASSUME ~Ending'
               PROVE  /\ infer' = "process" => item'.disc \/ memory' = item'.epoch \/ Excused(item.epoch)'
                      /\ infer' = "send" => memory' = item'.epoch \/ Excused(item.epoch)'
                      /\ \A i \in InQueue' : requests'[i].disc \/ requests'[i].epoch = Before(i)' \/ Excused(requests[i].epoch)'
    BY DEF Chain, Ending
  <2>1. infer' = "send" => infer = "send" BY DEF Unsent
  <2>2. infer' \in {"process", "send"} => item' = item BY <1>1 DEF Unsent
  <2>3. \A i \in InQueue : Before(i)' = Before(i)
    <3>1. requests \in Seq(Item \cup {NoItem}) BY DEF IInv, TypeOK
    <3>2. CASE requests' = requests BY <2>2, <3>2 DEF Before
    <3>3. CASE Over'
      <4>1. \A i \in InQueue : i > 1 => i - 1 \in InQueue
        BY <3>1 DEF InQueue, IInv, SentinelLast
      <4> QED BY <2>2, <4>1 DEF Before, SameQueue
    <3> QED BY <3>2, <3>3
  <2> QED BY <1>3, <2>1, <2>2, <2>3 DEF Debts, Chain, Ending, SameQueue
<1>9. LastRead'
  <2> SUFFICES ASSUME ~Over', ~Ending'
               PROVE  /\ Accepted' = {} => Before(Len(requests) + 1)' = 0
                      /\ \A n \in Accepted' : (\A m \in Accepted' : m <= n) =>
                           \/ Excused(sent[n].epoch)'
                           \/ Before(Len(requests) + 1)' = sent'[n].epoch
                           \/ Skipping' /\ \E k \in Accepted' : sent'[k].seq = reply'.seq /\ sent'[k].disc
                                                             /\ sent'[k].epoch = sent'[n].epoch
    BY DEF LastRead, Ending
  <2>1. requests' = requests OBVIOUS
  <2>2. Before(Len(requests) + 1)' = Before(Len(requests) + 1) BY <1>1, <2>1 DEF Before, Unsent
  <2>3. Skipping => Skipping' /\ reply' = reply OBVIOUS
  <2> QED BY <1>3, <2>2, <2>3 DEF Debts, LastRead, Ending, SameFrames
<1>10. AnsweredOnceInOrder' BY DEF Debts, AnsweredOnceInOrder, SameAnswers
<1>11. EngineFollowsStream'
  <2>1. \A o \in Outs : s2c[o].memory = s2c[o].epoch \/ Excused(s2c[o].epoch)
    BY DEF Debts, EngineFollowsStream, Outs, Excused
  <2>2. \A o \in Outs' : s2c'[o].memory = s2c'[o].epoch \/ Excused(s2c[o].epoch)'
    BY <1>2, <1>3, <2>1 DEF SameAnswers
  <2> QED BY <2>2 DEF EngineFollowsStream, Outs, Excused
<1> QED BY <1>4, <1>5, <1>6, <1>7, <1>8, <1>9, <1>10, <1>11 DEF Debts

----------------------------------------------------------------------------
(* serve_client reads a block.                                              *)

\* The block that is read is later than those before, and of the stream of the
\* last one unless it is flagged.
LEMMA BlockRead ==
  ASSUME TypeOK, Numbered, Epochs, HasFrame, NextFrame.type = "AUDIO_IN",
         sent' = sent, rcvd' = rcvd + 1, NEW k, k = rcvd + 1
  PROVE  /\ k \in DOMAIN sent /\ NextFrame = sent[k] /\ Accepted' = Accepted \cup {k}
         /\ sent[k].seq \in Nat
         /\ \A n \in Accepted : /\ n \in DOMAIN sent /\ n \in Nat /\ n < k
                                /\ sent[n].seq \in Nat /\ sent[n].seq < sent[k].seq
         /\ \/ sent[k].disc
            \/ Accepted = {} /\ sent[k].epoch = 0
            \/ \E m \in Accepted : (\A n \in Accepted : n <= m) /\ sent[m].epoch = sent[k].epoch
<1>1. k \in Audio(sent) /\ k \in Nat /\ Len(sent) \in Nat /\ DOMAIN sent = 1..Len(sent) /\ rcvd \in Nat
  BY DEF TypeOK, HasFrame, NextFrame, Audio
<1>2. Accepted = {n \in Audio(sent) : n < k} BY <1>1 DEF Accepted, Audio, TypeOK
<1>3. Accepted' = Accepted \cup {k} BY <1>1 DEF Accepted, Audio, TypeOK
<1>4. \A n \in Audio(sent) : n \in Nat /\ sent[n].seq \in Nat
  <2>1. CountOf(sent, "AUDIO_IN") \in Nat BY CountsAreNaturals DEF CountOf
  <2> QED BY <1>1, <2>1 DEF Numbered, Audio
<1>5. \A n \in Accepted : n \in DOMAIN sent /\ n < k /\ sent[n].seq < sent[k].seq
  BY <1>1, <1>2 DEF Numbered, Audio
<1>6. \/ sent[k].disc
      \/ Accepted = {} /\ sent[k].epoch = 0
      \/ \E m \in Accepted : (\A n \in Accepted : n <= m) /\ sent[m].epoch = sent[k].epoch
  <2>1. CASE sent[k].epoch = 0 /\ \A m \in Audio(sent) : k <= m
    <3>1. ASSUME NEW n \in Accepted PROVE FALSE
      <4>1. n \in Audio(sent) /\ n < k BY <1>2
      <4>2. k <= n /\ n \in Nat BY <1>4, <2>1, <4>1
      <4> QED BY <1>1, <4>1, <4>2
    <3> QED BY <2>1, <3>1
  <2>2. ASSUME NEW m \in Audio(sent), m < k, sent[m].epoch = sent[k].epoch,
               \A n \in Audio(sent) : n <= m \/ k <= n
        PROVE  m \in Accepted /\ \A n \in Accepted : n <= m
    BY <1>1, <1>2, <1>4, <2>2
  <2> QED BY <1>1, <2>1, <2>2 DEF Epochs
<1>7. k \in DOMAIN sent /\ NextFrame = sent[k] /\ sent[k].seq \in Nat BY <1>1, <1>4 DEF NextFrame, Audio
<1>8. \A n \in Accepted : n \in Nat /\ sent[n].seq \in Nat BY <1>2, <1>4
<1> QED BY <1>3, <1>5, <1>6, <1>7, <1>8

\* The last update accepted is the one that counts at the next frame.
LEMMA ConfigInForce == ASSUME TypeOK, ConfigCurrent PROVE ConfigBefore(rcvd + 1) = config
<1> DEFINE k == rcvd + 1
           Last(i) == /\ Applicable(i, k)
                      /\ \A j \in DOMAIN sent : Applicable(j, k) /\ j # i =>
                           \/ sent[j].seq < sent[i].seq
                           \/ sent[j].seq = sent[i].seq /\ i < j
           top == {i \in DOMAIN sent : Last(i)}
<1>1. ConfigBefore(k) = IF top = {} THEN DefaultConfig ELSE sent[CHOOSE i \in top : TRUE].value
  BY DEF ConfigBefore
<1>2. CASE config = DefaultConfig /\ \A i \in DOMAIN sent : ~Applicable(i, k) BY <1>1, <1>2
<1>3. ASSUME NEW i \in DOMAIN sent, Applicable(i, k), config = sent[i].value,
             \A j \in DOMAIN sent : Applicable(j, k) /\ j # i =>
               sent[j].seq < sent[i].seq \/ (sent[j].seq = sent[i].seq /\ i < j)
      PROVE  ConfigBefore(k) = config
  <2>1. i \in top BY <1>3
  <2>2. ASSUME NEW j \in top PROVE j = i
    <3>1. sent \in Seq(PeerFrame) BY DEF TypeOK
    <3>2. sent[i].seq \in Nat /\ sent[j].seq \in Nat /\ i \in Nat /\ j \in Nat
      BY <1>3, <2>2, <3>1, FrameFields DEF Applicable
    <3>3. SUFFICES ASSUME j # i PROVE FALSE OBVIOUS
    <3>4. sent[j].seq < sent[i].seq \/ (sent[j].seq = sent[i].seq /\ i < j) BY <1>3, <2>2, <3>3
    <3>5. sent[i].seq < sent[j].seq \/ (sent[i].seq = sent[j].seq /\ j < i) BY <1>3, <2>2, <3>3
    <3> QED BY <3>2, <3>4, <3>5
  <2> HIDE DEF top
  <2>3. (CHOOSE j \in top : TRUE) = i BY <2>1, <2>2
  <2> QED BY <1>1, <1>3, <2>1, <2>3
<1> QED BY <1>2, <1>3 DEF ConfigCurrent

\* Frames after those read do not count, nor does one that is no update.
LEMMA ConfigStays ==
  ASSUME IInv, ConfigCurrent, UNCHANGED configVars, sent' = sent \/ \E f : sent' = Append(sent, f),
         rcvd' = rcvd \/ (rcvd' = rcvd + 1 /\ HasFrame /\ ~Applicable(rcvd + 1, rcvd + 2))
  PROVE  ConfigCurrent'
<1>1. rcvd + 1 \in 1..(Len(sent) + 1) /\ Len(sent) \in Nat /\ rcvd \in Nat BY DEF IInv, TypeOK
<1>2. \A i \in DOMAIN sent' : Applicable(i, rcvd + 1)' <=> i \in DOMAIN sent /\ Applicable(i, rcvd + 1)
  <2>1. CASE rcvd' = rcvd
    <3>1. \A i \in DOMAIN sent' : Applicable(i, rcvd + 1)' <=> i \in DOMAIN sent' /\ i < rcvd + 1 /\ sent'[i].type = "CONFIG_UPDATE"
                                       /\ sent'[i].value \in ConfigValues /\ sent'[i].seq > 0
      BY <2>1 DEF Applicable
    <3> QED BY <1>1, <3>1, PastKept DEF Applicable, IInv
  <2>2. CASE rcvd' = rcvd + 1 /\ HasFrame /\ ~Applicable(rcvd + 1, rcvd + 2)
    <3>1. rcvd + 1 \in DOMAIN sent /\ \A i \in DOMAIN sent : i \in Nat BY <1>1, <2>2 DEF HasFrame, IInv, TypeOK
    <3>2. \A i \in DOMAIN sent' : Applicable(i, rcvd + 1)' <=> i < rcvd + 2 /\ sent'[i].type = "CONFIG_UPDATE"
                                       /\ sent'[i].value \in ConfigValues /\ sent'[i].seq > 0
      BY <1>1, <2>2 DEF Applicable
    <3>3. \A i \in DOMAIN sent' \ DOMAIN sent : ~(i < rcvd + 2)
      BY <1>1, <2>2, PastKept DEF HasFrame, IInv
    <3>4. \A i \in DOMAIN sent : i < rcvd + 2 => i < rcvd + 1 \/ i = rcvd + 1 BY <1>1, <3>1
    <3>5. ~(sent[rcvd + 1].type = "CONFIG_UPDATE" /\ sent[rcvd + 1].value \in ConfigValues /\ sent[rcvd + 1].seq > 0)
      BY <1>1, <2>2 DEF Applicable
    <3>6. \A i \in DOMAIN sent : sent'[i] = sent[i] /\ i \in DOMAIN sent' BY PastKept DEF IInv
    <3> QED BY <1>1, <3>1, <3>2, <3>3, <3>4, <3>5, <3>6 DEF Applicable
  <2> QED BY <2>1, <2>2
<1>3. \A i \in DOMAIN sent : i \in DOMAIN sent' /\ sent'[i] = sent[i] BY PastKept DEF IInv
<1>4. config' = config /\ lastSequence' = lastSequence BY DEF configVars
<1>5. CASE config = DefaultConfig /\ lastSequence = 0 /\ \A i \in DOMAIN sent : ~Applicable(i, rcvd + 1)
  BY <1>2, <1>4, <1>5 DEF ConfigCurrent
<1>6. ASSUME NEW i \in DOMAIN sent, Applicable(i, rcvd + 1), config = sent[i].value, lastSequence = sent[i].seq,
             \A j \in DOMAIN sent : Applicable(j, rcvd + 1) /\ j # i =>
               sent[j].seq < sent[i].seq \/ (sent[j].seq = sent[i].seq /\ i < j)
      PROVE  ConfigCurrent'
  <2>1. /\ i \in DOMAIN sent' /\ Applicable(i, rcvd + 1)' /\ config' = sent'[i].value /\ lastSequence' = sent'[i].seq
    BY <1>2, <1>3, <1>4, <1>6
  <2>2. \A j \in DOMAIN sent' : Applicable(j, rcvd + 1)' /\ j # i =>
           sent'[j].seq < sent'[i].seq \/ (sent'[j].seq = sent'[i].seq /\ i < j)
    BY <1>2, <1>3, <1>6
  <2> QED BY <2>1, <2>2 DEF ConfigCurrent
<1> QED BY <1>5, <1>6 DEF ConfigCurrent

\* SessionConfigState.apply keeps the last update with the highest number.
LEMMA ApplyKeeps == ASSUME IInv, ConfigCurrent, ServeConfigUpdate PROVE ConfigCurrent'
<1> DEFINE k == rcvd + 1
           f == sent[k]
<1>1. /\ sent' = sent /\ rcvd' = k /\ HasFrame /\ NextFrame = f /\ f.type = "CONFIG_UPDATE"
      /\ k \in DOMAIN sent /\ k \in Nat /\ DOMAIN sent = 1..Len(sent) /\ Len(sent) \in Nat
  BY DEF ServeConfigUpdate, Reading, HasFrame, NextFrame, netVars, IInv, TypeOK
<1>2. \A i \in DOMAIN sent : sent[i].type = "CONFIG_UPDATE" => sent[i].seq \in Nat
  BY FrameFields DEF IInv, TypeOK
<1>3. \A i \in DOMAIN sent : Applicable(i, k + 1) <=>
        \/ Applicable(i, k)
        \/ i = k /\ f.value \in ConfigValues /\ f.seq > 0
  BY <1>1 DEF Applicable
<1>4. lastSequence \in Nat BY DEF IInv, TypeOK
<1>5. \A i \in DOMAIN sent : Applicable(i, rcvd + 1)' <=> Applicable(i, k + 1) BY <1>1 DEF Applicable
<1>6. CASE ApplyStatus(NextFrame) = 0
  <2>1. f.value \in ConfigValues /\ f.seq > lastSequence /\ f.seq \in Nat /\ f.seq > 0
    BY <1>1, <1>2, <1>4, <1>6 DEF ApplyStatus
  <2>2. config' = f.value /\ lastSequence' = f.seq BY <1>1, <1>6 DEF ServeConfigUpdate
  <2>3. \A j \in DOMAIN sent : Applicable(j, k) => sent[j].seq <= lastSequence
    BY <1>2, <1>4 DEF ConfigCurrent, Applicable
  <2>4. \A j \in DOMAIN sent : Applicable(j, k + 1) /\ j # k => sent[j].seq < f.seq
    BY <1>2, <1>3, <1>4, <2>1, <2>3 DEF Applicable
  <2>5. Applicable(k, k + 1) BY <1>1, <1>3, <2>1
  <2> QED BY <1>1, <1>5, <2>2, <2>4, <2>5 DEF ConfigCurrent
<1>7. CASE ApplyStatus(NextFrame) # 0
  <2>1. f.value \notin ConfigValues \/ f.seq = 0 \/ f.seq <= lastSequence BY <1>1, <1>7 DEF ApplyStatus
  <2>2. config' = config /\ lastSequence' = lastSequence BY <1>7 DEF ServeConfigUpdate
  <2>3. CASE config = DefaultConfig /\ lastSequence = 0 /\ \A i \in DOMAIN sent : ~Applicable(i, k)
    <3>1. ~(f.value \in ConfigValues /\ f.seq > 0) BY <1>1, <1>2, <2>1, <2>3
    <3>2. \A i \in DOMAIN sent : ~Applicable(i, rcvd + 1)' BY <1>3, <1>5, <2>3, <3>1
    <3> QED BY <1>1, <2>2, <2>3, <3>2 DEF ConfigCurrent
  <2>4. ASSUME NEW i \in DOMAIN sent, Applicable(i, k), config = sent[i].value, lastSequence = sent[i].seq,
               \A j \in DOMAIN sent : Applicable(j, k) /\ j # i =>
                 sent[j].seq < sent[i].seq \/ (sent[j].seq = sent[i].seq /\ i < j)
        PROVE  ConfigCurrent'
    <3>1. i < k BY <2>4 DEF Applicable
    <3>2. f.value \in ConfigValues /\ f.seq > 0 => f.seq < sent[i].seq \/ (f.seq = sent[i].seq /\ i < k)
      BY <1>1, <1>2, <1>4, <2>1, <2>4, <3>1
    <3>3. \A j \in DOMAIN sent : Applicable(j, k + 1) /\ j # i =>
            sent[j].seq < sent[i].seq \/ (sent[j].seq = sent[i].seq /\ i < j)
      BY <1>3, <2>4, <3>2
    <3> QED BY <1>1, <1>3, <1>5, <2>2, <2>4, <3>3 DEF ConfigCurrent
  <2> QED BY <2>3, <2>4 DEF ConfigCurrent
<1> QED BY <1>6, <1>7

----------------------------------------------------------------------------
(* Steps that take a block in.                                              *)

\* Answers that stay stay excused.
LEMMA ExcusedSame ==
  ASSUME TypeOK, UNCHANGED <<sent, s2c>>, NEW e PROVE Excused(e)' <=> Excused(e)
BY DEF Excused, Skipped, Answers

\* Requests, answers and replies are blocks that were read.
LEMMA DebtsAreRead ==
  ASSUME Traced
  PROVE  /\ \A i \in InQueue : \E n \in Accepted : requests[i].seq = sent[n].seq
         /\ Working => \E n \in Accepted : item.seq = sent[n].seq
         /\ \A o \in Answers : \E n \in Accepted : s2c[o].seq = sent[n].seq
BY DEF Traced, BlockOf

\* A block that is read is later than everything the two threads hold.
LEMMA ReadIsLatest ==
  ASSUME Traced, NEW s, \A n \in Accepted : sent[n].seq \in Nat /\ sent[n].seq < s
  PROVE  /\ \A i \in InQueue : requests[i].seq \in Nat /\ requests[i].seq < s
         /\ Working => item.seq \in Nat /\ item.seq < s
         /\ \A o \in Answers : s2c[o].seq \in Nat /\ s2c[o].seq < s
BY DebtsAreRead

\* A block is queued with the configuration in force.
LEMMA AcceptKeeps ==
  ASSUME IInv, Numbered, Epochs, ConfigCurrent, Debts, HasFrame, NextFrame.type = "AUDIO_IN",
         serve = "recv", serve' = "recv", rcvd' = rcvd + 1, UNCHANGED <<sent, s2c, reply, infer, item, memory>>,
         NEW r, requests' = Append(requests, r), r # NoItem,
         r.seq = NextFrame.seq, r.disc = NextFrame.disc, r.epoch = NextFrame.epoch, r.config = config
  PROVE  Debts'
<1>k. PICK k : k = rcvd + 1 OBVIOUS
<1>last. PICK last : last = Len(requests) + 1 OBVIOUS
<1>1. /\ k \in DOMAIN sent /\ NextFrame = sent[k] /\ Accepted' = Accepted \cup {k} /\ sent[k].seq \in Nat
      /\ \A n \in Accepted : n \in DOMAIN sent /\ n \in Nat /\ n < k /\ sent[n].seq \in Nat /\ sent[n].seq < sent[k].seq
      /\ \/ sent[k].disc
         \/ Accepted = {} /\ sent[k].epoch = 0
         \/ \E m \in Accepted : (\A n \in Accepted : n <= m) /\ sent[m].epoch = sent[k].epoch
  BY <1>k, BlockRead DEF IInv
<1>2. /\ requests \in Seq(Item \cup {NoItem}) /\ Len(requests) \in Nat
      /\ DOMAIN requests = 1..Len(requests) /\ DOMAIN requests' = 1..last
      /\ \A i \in DOMAIN requests : requests'[i] = requests[i] /\ requests[i] # NoItem
      /\ requests'[last] = r /\ Len(requests') = last
  BY <1>last DEF IInv, TypeOK, SentinelLast
<1>3. InQueue = 1..Len(requests) /\ InQueue' = 1..last BY <1>last, <1>2 DEF InQueue
<1>4. /\ r.seq = sent[k].seq /\ r.disc = sent[k].disc /\ r.epoch = sent[k].epoch
      /\ r.config = ConfigBefore(k)
  BY <1>k, <1>1, ConfigInForce DEF IInv
<1>5. /\ \A n \in DOMAIN sent : ConfigBefore(n)' = ConfigBefore(n)
      /\ Answers' = Answers /\ Outs' = Outs /\ Unsent' = Unsent /\ Working' = Working /\ ~Skipping /\ ~Skipping'
  BY PastKept DEF IInv, Answers, Outs, Unsent, Working, Skipping
<1>6. /\ \A i \in InQueue : requests[i].seq \in Nat /\ requests[i].seq < sent[k].seq
      /\ Working => item.seq \in Nat /\ item.seq < sent[k].seq
      /\ \A o \in Answers : s2c[o].seq \in Nat /\ s2c[o].seq < sent[k].seq
  BY <1>1, ReadIsLatest DEF Debts
<1>7. Outs \subseteq Answers /\ (Unsent => Working) BY DEF Outs, Answers, Unsent, Working
<1>8. k \in Accepted' /\ Accepted \subseteq Accepted' BY <1>1
<1>9. Traced'
  <2>1. \A i \in InQueue : \E n \in Accepted' : BlockOf(requests[i], n)' /\ requests'[i].disc = sent'[n].disc
    BY <1>1, <1>2, <1>3, <1>5 DEF Debts, Traced, BlockOf
  <2>2. BlockOf(requests[last], k)' /\ requests'[last].disc = sent'[k].disc
    BY <1>1, <1>2, <1>4, <1>5 DEF BlockOf
  <2>3. \A i \in InQueue' : i \in InQueue \/ i = last BY <1>last, <1>2, <1>3
  <2>4. Working' => \E n \in Accepted' : BlockOf(item, n)' /\ item'.disc = sent'[n].disc
    BY <1>1, <1>5 DEF Debts, Traced, BlockOf
  <2>5. \A o \in Outs' : \E n \in Accepted' : BlockOf(s2c[o], n)' BY <1>1, <1>5 DEF Debts, Traced, BlockOf
  <2>6. \A o \in Answers' : \E n \in Accepted' : s2c'[o].seq = sent'[n].seq BY <1>5, <1>8 DEF Debts, Traced
  <2> QED BY <1>5, <1>8, <2>1, <2>2, <2>3, <2>4, <2>5, <2>6 DEF Traced
<1>10. Ordered'
  <2>1. \A i, j \in InQueue' : i < j => requests'[i].seq < requests'[j].seq
    <3>1. \A i \in InQueue' : i \in InQueue \/ i = last BY <1>last, <1>2, <1>3
    <3>2. \A i \in InQueue' : ~(last < i) BY <1>last, <1>2, <1>3
    <3> QED BY <1>2, <1>3, <1>4, <1>6, <3>1, <3>2 DEF Debts, Ordered
  <2>2. \A i \in InQueue' : i \in InQueue \/ i = last BY <1>last, <1>2, <1>3
  <2>3. Unsent' => \A i \in InQueue' : item'.seq < requests'[i].seq
    BY <1>2, <1>3, <1>4, <1>5, <1>6, <1>7, <2>2 DEF Debts, Ordered
  <2>4. \A o \in Outs' : \A i \in InQueue' : s2c'[o].seq < requests'[i].seq
    BY <1>2, <1>3, <1>4, <1>5, <1>6, <1>7, <2>2 DEF Debts, Ordered
  <2> QED BY <1>5, <2>1, <2>3, <2>4 DEF Debts, Ordered
<1>11. SkipsApart'
  <2>1. ASSUME NEW o \in Answers \ Outs PROVE Apart(s2c[o].seq)'
    <3>1. \A i \in InQueue' : i \in InQueue \/ i = last BY <1>last, <1>2, <1>3
    <3>2. Apart(s2c[o].seq) BY DEF Debts, SkipsApart
    <3> QED BY <1>2, <1>3, <1>4, <1>5, <1>6, <3>1, <3>2 DEF Apart
  <2> QED BY <1>5, <2>1 DEF SkipsApart
<1>12. Kept'
  <2> SUFFICES ASSUME ~Over', ~Ending', NEW n \in Accepted'
               PROVE  \/ \E o \in Answers' : s2c'[o].seq = sent'[n].seq
                      \/ \E i \in InQueue' : requests'[i].seq = sent'[n].seq
                      \/ Unsent' /\ item'.seq = sent'[n].seq
    BY DEF Kept, Ending
  <2>1. ~Over /\ ~Ending BY DEF Over, Ending
  <2>2. CASE n = k
    <3>1. last \in InQueue' BY <1>last, <1>2, <1>3
    <3> QED BY <1>2, <1>4, <2>2, <3>1
  <2>3. CASE n \in Accepted
    <3>1. InQueue \subseteq InQueue' BY <1>last, <1>2, <1>3
    <3> QED BY <1>2, <1>3, <1>5, <2>1, <2>3, <3>1 DEF Debts, Kept, Ending
  <2> QED BY <1>1, <2>2, <2>3
<1>13. \A e : Excused(e)' <=> Excused(e) BY ExcusedSame DEF IInv
<1>14. (~Ending) => r.disc \/ r.epoch = Before(last) \/ Excused(r.epoch)
  BY <1>last, <1>1, <1>4, <1>5 DEF Debts, LastRead, Ending, Over
<1>15. \A i \in InQueue' : Before(i)' = Before(i)
  <2>1. \A i \in InQueue' : i > 1 => i - 1 \in DOMAIN requests BY <1>last, <1>2, <1>3
  <2> QED BY <1>2, <2>1 DEF Before
<1>16. Chain'
  <2>1. \A i \in InQueue' : i \in InQueue \/ i = last BY <1>last, <1>2, <1>3
  <2>2. \A i \in InQueue : i \in DOMAIN requests BY <1>2, <1>3
  <2> SUFFICES ASSUME ~Ending
               PROVE  /\ infer = "process" => item.disc \/ memory = item.epoch \/ Excused(item.epoch)'
                      /\ infer = "send" => memory = item.epoch \/ Excused(item.epoch)'
                      /\ \A i \in InQueue' : requests'[i].disc \/ requests'[i].epoch = Before(i)' \/ Excused(requests[i].epoch)'
    BY DEF Chain, Ending
  <2>3. Excused(item.epoch)' <=> Excused(item.epoch) BY <1>13
  <2>4. \A i \in InQueue' : Excused(requests[i].epoch)' <=> Excused(requests'[i].epoch) BY <1>13
  <2>5. \A i \in InQueue : requests'[i].disc \/ requests'[i].epoch = Before(i)' \/ Excused(requests[i].epoch)'
    <3>1. \A i \in InQueue : requests[i].disc \/ requests[i].epoch = Before(i) \/ Excused(requests[i].epoch)
      BY DEF Debts, Chain, Ending
    <3>2. InQueue \subseteq InQueue' BY <1>last, <1>2, <1>3
    <3> QED BY <1>2, <1>15, <2>2, <2>4, <3>1, <3>2
  <2>6. requests'[last].disc \/ requests'[last].epoch = Before(last)' \/ Excused(requests[last].epoch)'
    <3>1. last \in InQueue' BY <1>last, <1>2, <1>3
    <3> QED BY <1>2, <1>14, <1>15, <2>4, <3>1
  <2> QED BY <2>1, <2>3, <2>5, <2>6 DEF Debts, Chain, Ending
<1>17. LastRead'
  <2>1. Before(Len(requests) + 1)' = sent'[k].epoch
    <3>1. last + 1 > 1 /\ last + 1 - 1 = last BY <1>last, <1>2
    <3>2. Before(Len(requests) + 1)' = requests'[last].epoch BY <1>2, <3>1 DEF Before
    <3> QED BY <1>2, <1>4, <3>2
  <2>2. \A n \in Accepted' : (\A m \in Accepted' : m <= n) => n = k
    <3>1. k \in Nat BY <1>k DEF IInv, TypeOK
    <3> QED BY <1>1, <3>1
  <2> QED BY <1>8, <2>1, <2>2 DEF LastRead
<1>18. AnsweredOnceInOrder' BY <1>5 DEF Debts, AnsweredOnceInOrder
<1>19. EngineFollowsStream'
  <2>1. \A o \in Outs : s2c[o].memory = s2c[o].epoch \/ Excused(s2c[o].epoch)
    BY DEF Debts, EngineFollowsStream, Outs, Excused
  <2>2. \A o \in Outs' : s2c'[o].memory = s2c'[o].epoch \/ Excused(s2c[o].epoch)'
    BY <1>5, <1>13, <2>1
  <2> QED BY <2>2 DEF EngineFollowsStream, Outs, Excused
<1> QED BY <1>9, <1>10, <1>11, <1>12, <1>16, <1>17, <1>18, <1>19 DEF Debts

\* A block beyond the limit is owed an AUDIO_SKIP.
LEMMA SkipKeeps ==
  ASSUME IInv, Numbered, Epochs, Debts, HasFrame, NextFrame.type = "AUDIO_IN",
         serve = "recv", serve' = "send", rcvd' = rcvd + 1, UNCHANGED <<sent, s2c, requests, infer, item, memory>>,
         reply'.type = "AUDIO_SKIP", reply'.seq = NextFrame.seq
  PROVE  Debts'
<1>k. PICK k : k = rcvd + 1 OBVIOUS
<1>1. /\ k \in DOMAIN sent /\ NextFrame = sent[k] /\ Accepted' = Accepted \cup {k} /\ sent[k].seq \in Nat
      /\ \A n \in Accepted : n \in DOMAIN sent /\ n \in Nat /\ n < k /\ sent[n].seq \in Nat /\ sent[n].seq < sent[k].seq
      /\ \/ sent[k].disc
         \/ Accepted = {} /\ sent[k].epoch = 0
         \/ \E m \in Accepted : (\A n \in Accepted : n <= m) /\ sent[m].epoch = sent[k].epoch
  BY <1>k, BlockRead DEF IInv
<1>2. /\ \A n \in DOMAIN sent : ConfigBefore(n)' = ConfigBefore(n)
      /\ Answers' = Answers /\ Outs' = Outs /\ Unsent' = Unsent /\ Working' = Working /\ InQueue' = InQueue
      /\ ~Skipping /\ Skipping'
  BY PastKept DEF IInv, Answers, Outs, Unsent, Working, InQueue, Skipping
<1>3. /\ \A i \in InQueue : requests[i].seq \in Nat /\ requests[i].seq < sent[k].seq
      /\ Working => item.seq \in Nat /\ item.seq < sent[k].seq
      /\ \A o \in Answers : s2c[o].seq \in Nat /\ s2c[o].seq < sent[k].seq
  BY <1>1, ReadIsLatest DEF Debts
<1>4. Unsent => Working BY DEF Unsent, Working
<1>5. \A e : Excused(e)' <=> Excused(e) BY ExcusedSame DEF IInv
<1>6. \A i : Before(i)' = Before(i) BY DEF Before
<1>7. k \in Accepted' /\ Accepted \subseteq Accepted' /\ reply'.seq = sent'[k].seq BY <1>1
<1>8. Traced'
  <2>1. \A i \in InQueue' : \E n \in Accepted' : BlockOf(requests[i], n)' /\ requests'[i].disc = sent'[n].disc
    BY <1>1, <1>2 DEF Debts, Traced, BlockOf
  <2>2. Working' => \E n \in Accepted' : BlockOf(item, n)' /\ item'.disc = sent'[n].disc
    BY <1>1, <1>2 DEF Debts, Traced, BlockOf
  <2>3. \A o \in Outs' : \E n \in Accepted' : BlockOf(s2c[o], n)' BY <1>1, <1>2 DEF Debts, Traced, BlockOf
  <2>4. \A o \in Answers' : \E n \in Accepted' : s2c'[o].seq = sent'[n].seq BY <1>2, <1>7 DEF Debts, Traced
  <2> QED BY <1>7, <2>1, <2>2, <2>3, <2>4 DEF Traced
<1>9. Ordered' BY <1>2 DEF Debts, Ordered
<1>10. SkipsApart'
  <2>1. \A o \in Answers' \ Outs' : Apart(s2c[o].seq)' BY <1>2 DEF Debts, SkipsApart, Apart
  <2>2. Apart(reply.seq)' /\ \A o \in Answers' : s2c'[o].seq # reply'.seq
    BY <1>1, <1>2, <1>3, <1>4 DEF Apart
  <2> QED BY <2>1, <2>2 DEF SkipsApart
<1>11. Kept'
  <2>1. Over' <=> FALSE BY DEF Over
  <2> QED BY <1>1, <1>2, <1>7 DEF Debts, Kept, Over
<1>12. Chain' BY <1>2, <1>5, <1>6 DEF Debts, Chain
<1>13. LastRead'
  <2> SUFFICES ASSUME ~Ending', NEW n \in Accepted', \A m \in Accepted' : m <= n
               PROVE  \/ Excused(sent[n].epoch)'
                      \/ Before(Len(requests) + 1)' = sent'[n].epoch
                      \/ \E j \in Accepted' : sent'[j].seq = reply'.seq /\ sent'[j].disc /\ sent'[j].epoch = sent'[n].epoch
    BY <1>2, <1>7 DEF LastRead, Ending
  <2>1. n = k
    <3>1. k \in Nat BY <1>k DEF IInv, TypeOK
    <3> QED BY <1>1, <3>1
  <2>2. Before(Len(requests) + 1)' = Before(Len(requests) + 1) BY DEF Before
  <2>3. ~Over /\ ~Ending BY DEF Over, Ending
  <2>4. CASE sent[k].disc BY <1>7, <2>1, <2>4
  <2>5. CASE Accepted = {} /\ sent[k].epoch = 0 BY <2>1, <2>2, <2>3, <2>5 DEF Debts, LastRead, Ending
  <2>6. ASSUME NEW m \in Accepted, \A j \in Accepted : j <= m, sent[m].epoch = sent[k].epoch
        PROVE  Excused(sent[k].epoch) \/ Before(Len(requests) + 1) = sent[k].epoch
    BY <1>2, <2>3, <2>6 DEF Debts, LastRead, Ending
  <2>7. Excused(sent[n].epoch)' <=> Excused(sent[k].epoch) BY <1>5, <2>1
  <2> QED BY <1>1, <2>1, <2>2, <2>4, <2>5, <2>6, <2>7
<1>14. AnsweredOnceInOrder' BY <1>2 DEF Debts, AnsweredOnceInOrder
<1>15. EngineFollowsStream'
  <2>1. \A o \in Outs : s2c[o].memory = s2c[o].epoch \/ Excused(s2c[o].epoch)
    BY DEF Debts, EngineFollowsStream, Outs, Excused
  <2>2. \A o \in Outs' : s2c'[o].memory = s2c'[o].epoch \/ Excused(s2c[o].epoch)'
    BY <1>2, <1>5, <2>1
  <2> QED BY <2>2 DEF EngineFollowsStream, Outs, Excused
<1> QED BY <1>8, <1>9, <1>10, <1>11, <1>12, <1>13, <1>14, <1>15 DEF Debts

----------------------------------------------------------------------------
(* Steps that answer a block or hand it on.                                 *)

\* The AUDIO_SKIP is sent.
LEMMA SkipSentKeeps ==
  ASSUME IInv, Debts, Skipping, ~Over', serve' # "send", UNCHANGED <<sent, rcvd, requests, infer, item, memory>>,
         NEW l \in Nat, Answers' = Answers \cup {l}, Outs' = Outs, s2c'[l] = reply,
         \A o \in Answers : s2c'[o] = s2c[o] /\ o \in Nat /\ o < l
  PROVE  Debts'
<1>1. /\ \A o \in Answers : s2c'[o] = s2c[o] /\ o \in Nat /\ o < l
      /\ Answers' = Answers \cup {l} /\ Outs' = Outs /\ s2c'[l] = reply /\ Outs \subseteq Answers
  BY DEF Answers, Outs
<1>2. /\ Accepted' = Accepted /\ \A n \in Accepted : n \in DOMAIN sent
      /\ \A n \in DOMAIN sent : ConfigBefore(n)' = ConfigBefore(n)
      /\ Unsent' = Unsent /\ Working' = Working /\ InQueue' = InQueue /\ ~Skipping' /\ Skipping
  BY PastKept DEF IInv, TypeOK, Accepted, Unsent, Working, InQueue, Skipping
<1>3. \A e : Excused(e) => Excused(e)'
  <2>1. Answers \subseteq Answers' /\ \A o \in Answers : s2c'[o] = s2c[o] BY <1>1
  <2> QED BY <2>1, ExcusedStays DEF IInv
<1>4. reply.type = "AUDIO_SKIP" /\ Apart(reply.seq) /\ \A o \in Answers : s2c[o].seq # reply.seq
  BY DEF Debts, SkipsApart, Skipping
<1>new. /\ l \in Answers' /\ s2c'[l].type = "AUDIO_SKIP" /\ s2c'[l].seq = reply.seq
        /\ \A o \in Answers' : o \in Answers \/ o = l
        /\ \A o \in Answers : o \in Answers' /\ s2c'[o] = s2c[o] /\ ~(l < o)
        /\ \A o \in Outs : s2c'[o] = s2c[o]
        /\ ~(l < l)
  BY <1>1, <1>4
<1>5. Traced'
  <2>1. \A i \in InQueue' : \E n \in Accepted' : BlockOf(requests[i], n)' /\ requests'[i].disc = sent'[n].disc
    BY <1>2 DEF Debts, Traced, BlockOf
  <2>2. Working' => \E n \in Accepted' : BlockOf(item, n)' /\ item'.disc = sent'[n].disc
    BY <1>2 DEF Debts, Traced, BlockOf
  <2>3. \A o \in Outs' : \E n \in Accepted' : BlockOf(s2c[o], n)' BY <1>1, <1>2, <1>new DEF Debts, Traced, BlockOf
  <2>4. \A o \in Answers' : \E n \in Accepted' : s2c'[o].seq = sent'[n].seq
    <3>1. \E n \in Accepted : reply.seq = sent[n].seq BY <1>2 DEF Debts, Traced
    <3>2. \A o \in Answers : \E n \in Accepted : s2c[o].seq = sent[n].seq BY DEF Debts, Traced
    <3> QED BY <1>2, <1>new, <3>1, <3>2
  <2> QED BY <1>2, <2>1, <2>2, <2>3, <2>4 DEF Traced
<1>6. Ordered' BY <1>1, <1>2 DEF Debts, Ordered
<1>7. SkipsApart'
  <2>1. \A o \in Answers' \ Outs' : o \in Answers \ Outs \/ o = l BY <1>1
  <2>2. \A o \in Answers \ Outs : Apart(s2c[o].seq)' BY <1>1, <1>2 DEF Debts, SkipsApart, Apart
  <2>3. Apart(s2c[l].seq)' BY <1>1, <1>2, <1>4 DEF Apart
  <2> QED BY <1>2, <2>1, <2>2, <2>3 DEF SkipsApart
<1>8. Kept'
  <2>1. ~Over BY DEF Skipping, Over
  <2> SUFFICES ASSUME ~Ending', NEW n \in Accepted'
               PROVE  \/ \E o \in Answers' : s2c'[o].seq = sent'[n].seq
                      \/ \E i \in InQueue' : requests'[i].seq = sent'[n].seq
                      \/ Unsent' /\ item'.seq = sent'[n].seq
    BY DEF Kept, Ending
  <2>2. \/ \E o \in Answers : s2c[o].seq = sent[n].seq
        \/ reply.seq = sent[n].seq
        \/ \E i \in InQueue : requests[i].seq = sent[n].seq
        \/ Unsent /\ item.seq = sent[n].seq
    BY <1>2, <2>1 DEF Debts, Kept, Ending
  <2> QED BY <1>2, <1>new, <2>2
<1>9. Chain'
  <2>1. \A i : Before(i)' = Before(i) BY DEF Before
  <2> QED BY <1>2, <1>3, <2>1 DEF Debts, Chain
<1>10. LastRead'
  <2>1. Before(Len(requests) + 1)' = Before(Len(requests) + 1) /\ ~Over BY DEF Before, Skipping, Over
  <2>2. ASSUME NEW k \in Accepted, sent[k].seq = reply.seq, sent[k].disc PROVE Excused(sent[k].epoch)'
    <3>1. k \in Audio(sent) BY <1>2 DEF Accepted, Audio
    <3>2. k \in Audio(sent)' /\ sent'[k] = sent[k] BY <3>1
    <3>3. s2c'[l].seq = sent'[k].seq BY <1>new, <2>2, <3>2
    <3>4. k \in Skipped' BY <1>new, <3>2, <3>3 DEF Skipped
    <3> QED BY <2>2, <3>2, <3>4 DEF Excused
  <2> QED BY <1>2, <1>3, <2>1, <2>2 DEF Debts, LastRead
<1>11. AnsweredOnceInOrder'
  <2> SUFFICES ASSUME NEW i \in Answers', NEW j \in Answers', i < j
               PROVE  /\ s2c'[i].seq # s2c'[j].seq
                      /\ s2c'[i].type = "AUDIO_OUT" /\ s2c'[j].type = "AUDIO_OUT" => s2c'[i].seq < s2c'[j].seq
    BY DEF AnsweredOnceInOrder
  <2>1. i \in Answers BY <1>new
  <2>2. CASE j \in Answers BY <1>new, <2>1, <2>2 DEF Debts, AnsweredOnceInOrder
  <2>3. CASE j = l BY <1>4, <1>new, <2>1, <2>3
  <2> QED BY <1>new, <2>2, <2>3
<1>12. EngineFollowsStream'
  <2>1. \A o \in Outs : s2c[o].memory = s2c[o].epoch \/ Excused(s2c[o].epoch)
    BY DEF Debts, EngineFollowsStream, Outs, Excused
  <2>2. \A o \in Outs' : s2c'[o].memory = s2c'[o].epoch \/ Excused(s2c[o].epoch)'
    BY <1>1, <1>3, <2>1
  <2> QED BY <2>2 DEF EngineFollowsStream, Outs, Excused
<1> QED BY <1>5, <1>6, <1>7, <1>8, <1>9, <1>10, <1>11, <1>12 DEF Debts

\* What Tail does to the queue.
LEMMA TailFacts ==
  ASSUME IInv, requests # <<>>, requests' = Tail(requests)
  PROVE  /\ Len(requests) \in Nat /\ 1 \in DOMAIN requests /\ Head(requests) = requests[1]
         /\ DOMAIN requests = 1..Len(requests) /\ DOMAIN requests' = 1..(Len(requests) - 1)
         /\ Len(requests') = Len(requests) - 1
         /\ \A i \in DOMAIN requests' : requests'[i] = requests[i + 1] /\ i + 1 \in DOMAIN requests
<1>1. requests \in Seq(Item \cup {NoItem}) BY DEF IInv, TypeOK
<1> QED BY <1>1

\* An index other than the first has one before it.
LEMMA IndexBefore ==
  ASSUME NEW n \in Nat, NEW i \in 1..n
  PROVE  i \in Nat /\ (i = 1 \/ (i > 1 /\ i - 1 \in 1..(n - 1) /\ (i - 1) + 1 = i))
OBVIOUS

\* The inference thread takes the first request.
LEMMA GetKeeps ==
  ASSUME IInv, Debts, infer = "get", infer' = "process", requests[1] # NoItem, item' = requests[1],
         Len(requests) \in Nat, 1 \in DOMAIN requests, DOMAIN requests = 1..Len(requests),
         DOMAIN requests' = 1..(Len(requests) - 1), Len(requests') = Len(requests) - 1,
         \A i \in DOMAIN requests' : requests'[i] = requests[i + 1] /\ i + 1 \in DOMAIN requests,
         UNCHANGED <<sent, rcvd, s2c, serve, reply, memory>>
  PROVE  Debts'
<1>1. /\ Len(requests) \in Nat /\ 1 \in InQueue /\ Len(requests') = Len(requests) - 1
      /\ \A i \in InQueue' : requests'[i] = requests[i + 1] /\ i + 1 \in InQueue /\ i \in Nat /\ i > 0
      /\ \A i \in InQueue : i \in Nat /\ (i = 1 \/ (i > 1 /\ i - 1 \in InQueue' /\ requests'[i - 1] = requests[i]))
  <2>2. \A i \in DOMAIN requests : i \in Nat /\ (i = 1 \/ (i > 1 /\ i - 1 \in DOMAIN requests' /\ (i - 1) + 1 = i))
    BY IndexBefore
  <2>3. \A i \in InQueue : i \in Nat /\ (i = 1 \/ (i > 1 /\ i - 1 \in InQueue' /\ requests'[i - 1] = requests[i]))
    BY <2>2 DEF InQueue
  <2>4. \A i \in InQueue' : requests'[i] = requests[i + 1] /\ i + 1 \in InQueue /\ i \in Nat /\ i > 0
    BY DEF InQueue
  <2> QED BY <2>3, <2>4 DEF InQueue
<1>2. /\ Accepted' = Accepted /\ \A n \in Accepted : n \in DOMAIN sent
      /\ \A n \in DOMAIN sent : ConfigBefore(n)' = ConfigBefore(n)
      /\ ~Unsent /\ Unsent' /\ Skipping' = Skipping /\ Answers' = Answers /\ Outs' = Outs
  BY PastKept DEF IInv, TypeOK, Accepted, Unsent, Skipping, Answers, Outs
<1>3. \A e : Excused(e)' <=> Excused(e) BY ExcusedSame DEF IInv
<1>4. Traced'
  <2>1. \A i \in InQueue' : \E n \in Accepted' : BlockOf(requests[i], n)' /\ requests'[i].disc = sent'[n].disc
    BY <1>1, <1>2 DEF Debts, Traced, BlockOf
  <2>2. \E n \in Accepted' : BlockOf(item, n)' /\ item'.disc = sent'[n].disc
    BY <1>1, <1>2 DEF Debts, Traced, BlockOf
  <2>3. \A o \in Outs' : \E n \in Accepted' : BlockOf(s2c[o], n)' BY <1>2 DEF Debts, Traced, BlockOf
  <2> QED BY <1>2, <2>1, <2>2, <2>3 DEF Debts, Traced
<1>5. Ordered'
  <2>1. ASSUME NEW i \in InQueue', NEW j \in InQueue', i < j PROVE requests'[i].seq < requests'[j].seq
    <3>1. i + 1 \in InQueue /\ j + 1 \in InQueue /\ i + 1 < j + 1 BY <1>1, <2>1
    <3>2. requests[i + 1].seq < requests[j + 1].seq BY <3>1 DEF Debts, Ordered
    <3> QED BY <1>1, <3>2
  <2>2. \A i \in InQueue' : item'.seq < requests'[i].seq BY <1>1 DEF Debts, Ordered
  <2>3. \A o \in Outs' : (\A i \in InQueue' : s2c'[o].seq < requests'[i].seq) /\ s2c'[o].seq < item'.seq
    BY <1>1, <1>2 DEF Debts, Ordered
  <2> QED BY <2>1, <2>2, <2>3 DEF Ordered
<1>6. SkipsApart'
  <2>1. \A s : Apart(s) => (\A i \in InQueue' : requests'[i].seq # s) /\ item'.seq # s BY <1>1 DEF Apart
  <2>2. \A o \in Answers' \ Outs' : Apart(s2c[o].seq)' BY <1>2, <2>1 DEF Debts, SkipsApart, Apart
  <2>3. Skipping' => Apart(reply.seq)' BY <1>2, <2>1 DEF Debts, SkipsApart, Apart
  <2> QED BY <1>2, <2>2, <2>3 DEF Debts, SkipsApart
<1>7. Kept'
  <2> SUFFICES ASSUME ~Over', NEW n \in Accepted'
               PROVE  \/ \E o \in Answers' : s2c'[o].seq = sent'[n].seq
                      \/ Skipping' /\ reply'.seq = sent'[n].seq
                      \/ \E i \in InQueue' : requests'[i].seq = sent'[n].seq
                      \/ Unsent' /\ item'.seq = sent'[n].seq
    BY DEF Kept
  <2>1. ~Over BY DEF Over
  <2>2. ASSUME NEW i \in InQueue, requests[i].seq = sent[n].seq
        PROVE  (\E j \in InQueue' : requests'[j].seq = sent[n].seq) \/ item'.seq = sent[n].seq
    BY <1>1, <2>2
  <2> QED BY <1>2, <2>1, <2>2 DEF Debts, Kept
<1>8. /\ Before(1) = memory
      /\ \A i \in InQueue' : Before(i)' = Before(i + 1)
      /\ Before(Len(requests) + 1)' = Before(Len(requests) + 1)
  <2>1. Before(1) = memory BY DEF Before
  <2>2. \A i \in InQueue' : i > 1 => i - 1 \in InQueue' BY <1>1 DEF InQueue, IInv, SentinelLast
  <2>3. \A i \in InQueue' : Before(i)' = Before(i + 1) BY <1>1, <2>2 DEF Before
  <2>4. Before(Len(requests) + 1)' = Before(Len(requests) + 1) BY <1>1 DEF Before
  <2> QED BY <2>1, <2>3, <2>4
<1>9. Chain'
  <2>1. \A i \in InQueue : requests[i].disc \/ requests[i].epoch = Before(i) \/ Excused(requests[i].epoch)
    BY DEF Debts, Chain
  <2>2. item'.disc \/ memory' = item'.epoch \/ Excused(item.epoch)' BY <1>1, <1>3, <1>8, <2>1
  <2>3. \A i \in InQueue' : requests'[i].disc \/ requests'[i].epoch = Before(i)' \/ Excused(requests[i].epoch)'
    BY <1>1, <1>3, <1>8, <2>1
  <2> QED BY <2>2, <2>3 DEF Chain
<1>10. LastRead'
  <2>1. ~Over' => ~Over BY DEF Over
  <2> QED BY <1>2, <1>3, <1>8, <2>1 DEF Debts, LastRead
<1>11. AnsweredOnceInOrder' BY <1>2 DEF Debts, AnsweredOnceInOrder
<1>12. EngineFollowsStream'
  <2>1. \A o \in Outs : s2c[o].memory = s2c[o].epoch \/ Excused(s2c[o].epoch)
    BY DEF Debts, EngineFollowsStream, Outs, Excused
  <2>2. \A o \in Outs' : s2c'[o].memory = s2c'[o].epoch \/ Excused(s2c[o].epoch)'
    BY <1>2, <1>3, <2>1
  <2> QED BY <2>2 DEF EngineFollowsStream, Outs, Excused
<1> QED BY <1>4, <1>5, <1>6, <1>7, <1>9, <1>10, <1>11, <1>12 DEF Debts

\* The engine converts the block in hand.
LEMMA ProcessKeeps ==
  ASSUME IInv, Debts, infer = "process", infer' = "send", memory' = IF item.disc THEN item.epoch ELSE memory,
         UNCHANGED <<sent, rcvd, s2c, serve, reply, requests, item>>
  PROVE  Debts'
<1>1. /\ Accepted' = Accepted /\ \A n \in Accepted : n \in DOMAIN sent
      /\ \A n \in DOMAIN sent : ConfigBefore(n)' = ConfigBefore(n)
      /\ Unsent /\ Unsent' /\ Working /\ Working' /\ Skipping' = Skipping
      /\ Answers' = Answers /\ Outs' = Outs /\ InQueue' = InQueue
  BY PastKept DEF IInv, TypeOK, Accepted, Unsent, Working, Skipping, Answers, Outs, InQueue
<1>2. \A e : Excused(e)' <=> Excused(e) BY ExcusedSame DEF IInv
<1>3. memory' = item.epoch \/ Excused(item.epoch) BY DEF Debts, Chain
<1>4. Traced' BY <1>1 DEF Debts, Traced, BlockOf
<1>5. Ordered' BY <1>1 DEF Debts, Ordered
<1>6. SkipsApart' BY <1>1 DEF Debts, SkipsApart, Apart
<1>7. Kept' BY <1>1 DEF Debts, Kept, Over
<1>8. \A i : Before(i)' = Before(i) \/ (Before(i) = item.epoch /\ Before(i)' = memory') BY DEF Before
<1>9. Chain'
  <2>1. ASSUME NEW i \in InQueue
        PROVE  requests[i].disc \/ requests[i].epoch = Before(i)' \/ Excused(requests[i].epoch)
    <3>1. requests[i].disc \/ requests[i].epoch = Before(i) \/ Excused(requests[i].epoch) BY DEF Debts, Chain
    <3> QED BY <1>3, <1>8, <3>1
  <2>2. memory' = item'.epoch \/ Excused(item.epoch)' BY <1>2, <1>3
  <2>3. \A i \in InQueue' : requests'[i].disc \/ requests'[i].epoch = Before(i)' \/ Excused(requests[i].epoch)'
    BY <1>1, <1>2, <2>1
  <2> QED BY <2>2, <2>3 DEF Chain
<1>10. LastRead'
  <2> SUFFICES ASSUME ~Over', NEW n \in Accepted', \A m \in Accepted' : m <= n
               PROVE  \/ Excused(sent[n].epoch)'
                      \/ Before(Len(requests) + 1)' = sent'[n].epoch
                      \/ Skipping' /\ \E k \in Accepted' : sent'[k].seq = reply'.seq /\ sent'[k].disc
                                                        /\ sent'[k].epoch = sent'[n].epoch
    <3>1. Accepted' # {} BY <1>1, DebtsAreRead DEF Debts
    <3> QED BY <3>1 DEF LastRead
  <2>1. \/ Excused(sent[n].epoch)
        \/ Before(Len(requests) + 1) = sent[n].epoch
        \/ Skipping /\ \E k \in Accepted : sent[k].seq = reply.seq /\ sent[k].disc /\ sent[k].epoch = sent[n].epoch
    BY <1>1 DEF Debts, LastRead, Over
  <2>2. Before(Len(requests) + 1) = sent[n].epoch => Excused(sent[n].epoch) \/ Before(Len(requests) + 1)' = sent[n].epoch
    BY <1>3 DEF Before
  <2> QED BY <1>1, <1>2, <2>1, <2>2
<1>11. AnsweredOnceInOrder' BY <1>1 DEF Debts, AnsweredOnceInOrder
<1>12. EngineFollowsStream'
  <2>1. \A o \in Outs : s2c[o].memory = s2c[o].epoch \/ Excused(s2c[o].epoch)
    BY DEF Debts, EngineFollowsStream, Outs, Excused
  <2>2. \A o \in Outs' : s2c'[o].memory = s2c'[o].epoch \/ Excused(s2c[o].epoch)'
    BY <1>1, <1>2, <2>1
  <2> QED BY <2>2 DEF EngineFollowsStream, Outs, Excused
<1> QED BY <1>4, <1>5, <1>6, <1>7, <1>9, <1>10, <1>11, <1>12 DEF Debts

\* The AUDIO_OUT is sent.
LEMMA OutSentKeeps ==
  ASSUME IInv, Debts, infer = "send", infer' = "release",
         UNCHANGED <<sent, rcvd, serve, reply, requests, item, memory>>,
         NEW l \in Nat, Answers' = Answers \cup {l}, Outs' = Outs \cup {l},
         \A o \in Answers : s2c'[o] = s2c[o] /\ o \in Nat /\ o < l,
         s2c'[l].seq = item.seq, s2c'[l].config = item.config, s2c'[l].epoch = item.epoch, s2c'[l].memory = memory
  PROVE  Debts'
<1>1. /\ Accepted' = Accepted /\ \A n \in Accepted : n \in DOMAIN sent
      /\ \A n \in DOMAIN sent : ConfigBefore(n)' = ConfigBefore(n)
      /\ Unsent /\ ~Unsent' /\ Working /\ Working' /\ Skipping' = Skipping /\ InQueue' = InQueue
      /\ Outs \subseteq Answers
  BY PastKept DEF IInv, TypeOK, Accepted, Unsent, Working, Skipping, Answers, Outs, InQueue
<1>2. \A e : Excused(e) => Excused(e)'
  <2>1. Answers \subseteq Answers' /\ \A o \in Answers : s2c'[o] = s2c[o] OBVIOUS
  <2> QED BY <2>1, ExcusedStays DEF IInv
<1>3. /\ \A o \in Answers' : o \in Answers \/ o = l
      /\ \A o \in Answers : o \in Answers' /\ ~(l < o)
      /\ \A o \in Outs : s2c'[o] = s2c[o]
      /\ l \in Answers' /\ ~(l < l)
  BY <1>1
<1>4. \A o \in Outs : s2c[o].seq < item.seq /\ s2c[o].seq \in Nat
  <2>1. \A n \in Accepted : sent[n].seq \in Nat BY FrameFields DEF IInv, TypeOK, Accepted
  <2> QED BY <1>1, <2>1, DebtsAreRead DEF Debts, Ordered
<1>5. \A o \in Answers : s2c[o].seq # item.seq
  <2>1. item.seq \in Nat
    <3>1. \A n \in Accepted : sent[n].seq \in Nat BY FrameFields DEF IInv, TypeOK, Accepted
    <3> QED BY <1>1, <3>1, DebtsAreRead DEF Debts
  <2>2. \A o \in Answers \ Outs : s2c[o].seq # item.seq BY <1>1 DEF Debts, SkipsApart, Apart
  <2> QED BY <1>4, <2>1, <2>2
<1>6. Traced'
  <2>1. \E n \in Accepted : BlockOf(item, n) /\ item.disc = sent[n].disc BY <1>1 DEF Debts, Traced
  <2>2. \A i \in InQueue' : \E n \in Accepted' : BlockOf(requests[i], n)' /\ requests'[i].disc = sent'[n].disc
    BY <1>1 DEF Debts, Traced, BlockOf
  <2>3. \E n \in Accepted' : BlockOf(item, n)' /\ item'.disc = sent'[n].disc BY <1>1, <2>1 DEF BlockOf
  <2>4. \A o \in Outs' : \E n \in Accepted' : BlockOf(s2c[o], n)'
    <3>1. \E n \in Accepted' : BlockOf(s2c[l], n)' BY <1>1, <2>1 DEF BlockOf
    <3>2. \A o \in Outs : \E n \in Accepted' : BlockOf(s2c[o], n)' BY <1>1, <1>3 DEF Debts, Traced, BlockOf
    <3> QED BY <3>1, <3>2
  <2>5. \A o \in Answers' : \E n \in Accepted' : s2c'[o].seq = sent'[n].seq
    <3>1. \A o \in Answers : \E n \in Accepted : s2c[o].seq = sent[n].seq BY DEF Debts, Traced
    <3>2. \E n \in Accepted : item.seq = sent[n].seq BY <2>1 DEF BlockOf
    <3> QED BY <1>1, <1>3, <3>1, <3>2
  <2> QED BY <1>1, <2>2, <2>3, <2>4, <2>5 DEF Debts, Traced
<1>7. Ordered' BY <1>1, <1>3 DEF Debts, Ordered
<1>8. SkipsApart'
  <2>1. \A o \in Answers' \ Outs' : o \in Answers \ Outs /\ s2c'[o] = s2c[o] BY <1>3
  <2>2. \A o \in Answers' \ Outs' : Apart(s2c[o].seq)' BY <1>1, <2>1 DEF Debts, SkipsApart, Apart
  <2>3. Skipping' => Apart(reply.seq)' BY <1>1 DEF Debts, SkipsApart, Apart
  <2>4. Skipping' => item.seq # reply.seq /\ \A o \in Answers : s2c[o].seq # reply.seq
    BY <1>1 DEF Debts, SkipsApart, Apart
  <2>5. Skipping' => \A o \in Answers' : s2c'[o].seq # reply'.seq BY <1>3, <2>4
  <2> QED BY <2>2, <2>3, <2>5 DEF SkipsApart
<1>9. Kept'
  <2> SUFFICES ASSUME ~Over', NEW n \in Accepted'
               PROVE  \/ \E o \in Answers' : s2c'[o].seq = sent'[n].seq
                      \/ Skipping' /\ reply'.seq = sent'[n].seq
                      \/ \E i \in InQueue' : requests'[i].seq = sent'[n].seq
    BY DEF Kept
  <2>1. \/ \E o \in Answers : s2c[o].seq = sent[n].seq
        \/ Skipping /\ reply.seq = sent[n].seq
        \/ \E i \in InQueue : requests[i].seq = sent[n].seq
        \/ item.seq = sent[n].seq
    BY <1>1 DEF Debts, Kept, Over
  <2> QED BY <1>1, <1>3, <2>1
<1>10. \A i : Before(i)' = Before(i) BY DEF Before
<1>11. Chain' BY <1>1, <1>2, <1>10 DEF Debts, Chain
<1>12. LastRead' BY <1>1, <1>2, <1>10 DEF Debts, LastRead, Over
<1>13. AnsweredOnceInOrder'
  <2> SUFFICES ASSUME NEW i \in Answers', NEW j \in Answers', i < j
               PROVE  /\ s2c'[i].seq # s2c'[j].seq
                      /\ s2c'[i].type = "AUDIO_OUT" /\ s2c'[j].type = "AUDIO_OUT" => s2c'[i].seq < s2c'[j].seq
    BY DEF AnsweredOnceInOrder
  <2>1. i \in Answers BY <1>3
  <2>2. CASE j \in Answers BY <2>1, <2>2 DEF Debts, AnsweredOnceInOrder
  <2>3. CASE j = l
    <3>1. s2c'[i].type = "AUDIO_OUT" => i \in Outs BY <2>1 DEF Outs, Answers
    <3> QED BY <1>4, <1>5, <2>1, <2>3, <3>1
  <2> QED BY <1>3, <2>2, <2>3
<1>14. EngineFollowsStream'
  <2>1. \A o \in Outs : s2c[o].memory = s2c[o].epoch \/ Excused(s2c[o].epoch)
    BY DEF Debts, EngineFollowsStream, Outs, Excused
  <2>2. memory = item.epoch \/ Excused(item.epoch) BY DEF Debts, Chain
  <2>3. \A o \in Outs : s2c'[o].memory = s2c'[o].epoch \/ Excused(s2c[o].epoch)' BY <1>2, <1>3, <2>1
  <2>4. s2c'[l].memory = s2c'[l].epoch \/ Excused(s2c[l].epoch)' BY <1>2, <2>2
  <2>5. \A o \in Outs' : s2c'[o].memory = s2c'[o].epoch \/ Excused(s2c[o].epoch)' BY <2>3, <2>4
  <2> QED BY <2>5 DEF EngineFollowsStream, Outs, Excused
<1> QED BY <1>6, <1>7, <1>8, <1>9, <1>11, <1>12, <1>13, <1>14 DEF Debts

----------------------------------------------------------------------------
(* Every step keeps the order.                                              *)

\* serve_client converts no block.
Replies == serve = "send" => reply.type # "AUDIO_OUT"

SInv == IInv /\ Numbered /\ Epochs /\ ConfigCurrent /\ Replies /\ Debts

\* Nothing is owed at first.
LEMMA InitOrder == Init => Numbered /\ Epochs /\ ConfigCurrent /\ Debts
<1> SUFFICES ASSUME Init PROVE Numbered /\ Epochs /\ ConfigCurrent /\ Debts OBVIOUS
<1>1. /\ sent = <<>> /\ rcvd = 0 /\ s2c = <<>> /\ requests = <<>> /\ infer = "off" /\ serve = "hello"
      /\ config = DefaultConfig /\ lastSequence = 0 /\ memory = 0
  BY DEF Init
<1>2. /\ Audio(sent) = {} /\ Accepted = {} /\ Answers = {} /\ Outs = {} /\ InQueue = {}
      /\ ~Unsent /\ ~Working /\ ~Skipping /\ DOMAIN sent = {} /\ DOMAIN s2c = {}
  BY <1>1 DEF Audio, Accepted, Answers, Outs, InQueue, Unsent, Working, Skipping
<1>3. LastEpoch = 0
  <2>1. {i \in Audio(sent) : sent[i].disc} = {} BY <1>2
  <2> QED BY <2>1, FS_EmptySet DEF LastEpoch
<1>4. Numbered /\ Epochs BY <1>2, <1>3 DEF Numbered, Epochs
<1>5. ConfigCurrent BY <1>1, <1>2 DEF ConfigCurrent
<1>6. Traced /\ Ordered /\ SkipsApart /\ Kept BY <1>2 DEF Traced, Ordered, SkipsApart, Kept
<1>7. Chain BY <1>1, <1>2 DEF Chain
<1>8. LastRead
  <2>1. Before(Len(requests) + 1) = 0 BY <1>1 DEF Before
  <2> QED BY <1>2, <2>1 DEF LastRead
<1>9. AnsweredOnceInOrder /\ EngineFollowsStream BY <1>2 DEF AnsweredOnceInOrder, EngineFollowsStream
<1> QED BY <1>4, <1>5, <1>6, <1>7, <1>8, <1>9 DEF Debts

\* Frames that stay as they are keep their numbers.
LEMMA SameNumbers == ASSUME Numbered, Epochs, sent' = sent PROVE Numbered' /\ Epochs'
BY DEF Numbered, Epochs, LastEpoch

\* Reading a frame that is no block accepts none.
LEMMA AcceptedSame ==
  ASSUME TypeOK, sent' = sent,
         rcvd' = rcvd \/ (rcvd' = rcvd + 1 /\ HasFrame /\ NextFrame.type # "AUDIO_IN")
  PROVE  SameFrames
<1>1. Accepted' = Accepted BY DEF Accepted, HasFrame, NextFrame, TypeOK
<1>2. \A n \in Accepted : n \in DOMAIN sent BY DEF Accepted, TypeOK
<1> QED BY <1>1, <1>2, PastKept DEF SameFrames

\* A frame that is no answer leaves the answers as they are.
LEMMA AnswersSame ==
  ASSUME TypeOK, s2c' = s2c \/ \E g : s2c' = Append(s2c, g) /\ g.type \notin {"AUDIO_OUT", "AUDIO_SKIP"}
  PROVE  SameAnswers
<1>1. CASE s2c' = s2c BY <1>1 DEF SameAnswers, Answers, Outs
<1>2. ASSUME NEW g, s2c' = Append(s2c, g), g.type \notin {"AUDIO_OUT", "AUDIO_SKIP"} PROVE SameAnswers
  BY <1>2, AnswerAppend DEF SameAnswers, Answers
<1> QED BY <1>1, <1>2

\* A sendall that gives up answers nothing.
LEMMA FailedAnswer == ASSUME TypeOK, SendFails PROVE SameAnswers
<1>1. Cut.type = "CUT" BY DEF Cut
<1>2. s2c' = s2c \/ s2c' = Append(s2c, Cut) BY DEF SendFails
<1> QED BY <1>1, <1>2, AnswersSame

\* A step of serve_client that takes no block in and answers none.
LEMMA QuietServe ==
  ASSUME IInv, Debts, SameAnswers, UNCHANGED <<sent, requests, item, memory>>,
         infer' = infer \/ (infer = "off" /\ infer' = "get"),
         rcvd' = rcvd \/ (rcvd' = rcvd + 1 /\ HasFrame /\ NextFrame.type # "AUDIO_IN"),
         Over => Over', Skipping' => Skipping /\ reply' = reply, Skipping /\ ~Over' => Skipping'
  PROVE  Debts'
<1>1. SameFrames BY AcceptedSame DEF IInv
<1>2. SameQueue BY DEF SameQueue, InQueue
<1>3. /\ Working' => Working /\ item' = item
      /\ Unsent' = Unsent /\ Ending' = Ending
      /\ (infer' = "process" <=> infer = "process") /\ memory' = memory
  BY DEF Working, Unsent, Ending
<1> QED BY <1>1, <1>2, <1>3, QuietKeeps

\* A step of _run_inference that answers no block and hands none on.
LEMMA QuietInfer ==
  ASSUME IInv, Debts, SameAnswers, UNCHANGED <<sent, rcvd, serve, reply>>,
         SameQueue, requests' = requests \/ Over,
         Working' => Working /\ item' = item,
         Unsent' => Unsent, Unsent /\ ~Ending' => Unsent', Ending => Ending',
         ~Ending' => (infer' = "process" <=> infer = "process") /\ memory' = memory
  PROVE  Debts'
<1>1. SameFrames BY AcceptedSame DEF IInv
<1>2. Over' = Over /\ Skipping' = Skipping BY DEF Over, Skipping
<1> QED BY <1>1, <1>2, QuietKeeps

\* The configuration in force changes with an update only.
LEMMA ConfigSame ==
  ASSUME IInv, ConfigCurrent, UNCHANGED <<configVars, sent>>,
         rcvd' = rcvd \/ (rcvd' = rcvd + 1 /\ HasFrame /\ NextFrame.type # "CONFIG_UPDATE")
  PROVE  ConfigCurrent'
<1>1. NextFrame.type # "CONFIG_UPDATE" => ~Applicable(rcvd + 1, rcvd + 2) BY DEF NextFrame, Applicable
<1> QED BY <1>1, ConfigStays

\* The peer sends a frame, stalls, or goes.
LEMMA PeerOrder == ASSUME SInv, Peer PROVE (Numbered /\ Epochs /\ ConfigCurrent /\ Debts)'
<1>1. /\ IInv /\ Numbered /\ Epochs /\ ConfigCurrent /\ Debts BY DEF SInv
<1>2. /\ Numbered' /\ Epochs' /\ UNCHANGED serviceVars
      /\ sent' = sent \/ \E f : sent' = Append(sent, f)
  BY <1>1, PeerFrames DEF IInv
<1>3. ConfigCurrent'
  <2>1. UNCHANGED configVars /\ rcvd' = rcvd BY <1>2 DEF serviceVars, configVars
  <2> QED BY <1>1, <1>2, <2>1, ConfigStays
<1>4. SameFrames
  <2>1. \A n \in DOMAIN sent : sent'[n] = sent[n] /\ ConfigBefore(n)' = ConfigBefore(n)
    BY <1>1, <1>2, PastKept DEF IInv
  <2>2. 1..rcvd \subseteq DOMAIN sent /\ rcvd' = rcvd BY <1>1, <1>2 DEF IInv, TypeOK, serviceVars
  <2>3. Accepted' = Accepted BY <2>1, <2>2 DEF Accepted
  <2> QED BY <2>1, <2>2, <2>3 DEF SameFrames, Accepted
<1>5. /\ SameAnswers /\ SameQueue /\ Working' = Working /\ Unsent' = Unsent /\ Ending' = Ending
      /\ Over' = Over /\ Skipping' = Skipping
      /\ UNCHANGED <<requests, item, infer, memory, reply>>
  BY <1>2 DEF serviceVars, SameAnswers, SameQueue, Answers, Outs, InQueue, Working, Unsent, Ending,
              Over, Skipping
<1>6. Debts' BY <1>1, <1>2, <1>4, <1>5, QuietKeeps
<1> QED BY <1>2, <1>3, <1>6

\* serve_client.
LEMMA ServeOrder ==
  ASSUME SInv, Serve \/ ServeRecvFails
  PROVE  (Numbered /\ Epochs /\ ConfigCurrent /\ Debts)'
<1>1. IInv /\ TypeOK /\ Numbered /\ Epochs /\ ConfigCurrent /\ Debts BY DEF SInv, IInv
<1>2. sent' = sent
  BY DEF Serve, RecvHello, RecvSessionOpen, HandshakeFails, ServeHeartbeat, ServeConfigUpdate,
         ServeAudioAccept, ServeAudioSkip, ServeEnd, ServeRecvFails, ServeFinally,
         ServeTakeSendLock, ServeSent, ServeSendFails, netVars
<1>3. Numbered' /\ Epochs' BY <1>1, <1>2, SameNumbers
<1>4. CASE RecvHello \/ RecvSessionOpen
  <2>1. PICK f \in {"HELLO", "SESSION_OPEN"}, g \in {"HELLO_ACK", "SESSION_ACCEPT"} :
          /\ HasFrame /\ NextFrame.type = f /\ rcvd' = rcvd + 1
          /\ s2c' = Append(s2c, [type |-> g])
    BY <1>4 DEF RecvHello, RecvSessionOpen, Handshake
  <2>2. SameAnswers BY <1>1, <2>1, AnswersSame
  <2>3. /\ UNCHANGED <<configVars, reply, requests, item, memory>>
        /\ serve \in {"hello", "open"} /\ serve' \in {"open", "recv"}
        /\ infer' = infer \/ (infer = "off" /\ infer' = "get")
    BY <1>1, <1>4 DEF RecvHello, RecvSessionOpen, Handshake, inferVars, IInv, InHand
  <2>4. Debts'
    <3>1. ~Over /\ ~Skipping /\ ~Skipping' BY <2>3 DEF Over, Skipping
    <3> QED BY <1>1, <1>2, <2>1, <2>2, <2>3, <3>1, QuietServe
  <2> QED BY <1>1, <1>2, <1>3, <2>1, <2>3, <2>4, ConfigSame
<1>5. CASE HandshakeFails \/ ServeRecvFails \/ ServeTakeSendLock
  <2>1. UNCHANGED <<configVars, rcvd, s2c, reply, requests, infer, item, memory>>
    BY <1>5 DEF HandshakeFails, ServeRecvFails, ServeTakeSendLock, inferVars
  <2>2. (Skipping' => Skipping) /\ (Skipping /\ ~Over' => Skipping')
    BY <1>5, <2>1 DEF HandshakeFails, ServeRecvFails, ServeTakeSendLock, Over, Skipping
  <2>3. Over => Over' BY <1>5 DEF HandshakeFails, ServeRecvFails, ServeTakeSendLock, Over
  <2>4. Debts' BY <1>1, <1>2, <2>1, <2>2, <2>3, AnswersSame, QuietServe
  <2> QED BY <1>1, <1>2, <1>3, <2>1, <2>4, ConfigSame
<1>6. CASE ServeHeartbeat
  <2>1. /\ HasFrame /\ NextFrame.type = "HEARTBEAT" /\ rcvd' = rcvd + 1
        /\ serve = "recv" /\ serve' = "send" /\ reply'.type = "HEARTBEAT_ACK"
        /\ UNCHANGED <<configVars, s2c, requests, infer, item, memory>>
    BY <1>6 DEF ServeHeartbeat, Reading, Reply, inferVars
  <2>2. ~Over /\ ~Skipping /\ ~Skipping' BY <2>1 DEF Over, Skipping
  <2>3. Debts' BY <1>1, <1>2, <2>1, <2>2, AnswersSame, QuietServe
  <2> QED BY <1>1, <1>2, <1>3, <2>1, <2>3, ConfigSame
<1>7. CASE ServeConfigUpdate
  <2>1. /\ HasFrame /\ NextFrame.type = "CONFIG_UPDATE" /\ rcvd' = rcvd + 1
        /\ serve = "recv" /\ serve' = "send" /\ reply'.type = "CONFIG_ACK"
        /\ UNCHANGED <<s2c, requests, infer, item, memory>>
    BY <1>7 DEF ServeConfigUpdate, Reading, Reply, inferVars
  <2>2. ~Over /\ ~Skipping /\ ~Skipping' BY <2>1 DEF Over, Skipping
  <2>3. Debts' BY <1>1, <1>2, <2>1, <2>2, AnswersSame, QuietServe
  <2> QED BY <1>1, <1>3, <1>7, <2>3, ApplyKeeps
<1>8. CASE ServeAudioAccept
  <2>1. PICK r : /\ requests' = Append(requests, r) /\ r \in Item
                 /\ r.seq = NextFrame.seq /\ r.disc = NextFrame.disc /\ r.epoch = NextFrame.epoch
                 /\ r.config = config
    <3> DEFINE new == [seq |-> NextFrame.seq, disc |-> NextFrame.disc,
                       epoch |-> NextFrame.epoch, config |-> config]
    <3>1. new \in Item
      BY <1>1, <1>8, NextFrameType, FrameFields DEF ServeAudioAccept, Reading, Item, TypeOK
    <3>2. requests' = Append(requests, new) BY <1>8 DEF ServeAudioAccept
    <3> QED BY <3>1, <3>2
  <2>2. r # NoItem BY <2>1, ItemIsNoNone
  <2>3. /\ HasFrame /\ NextFrame.type = "AUDIO_IN" /\ rcvd' = rcvd + 1
        /\ serve = "recv" /\ serve' = "recv"
        /\ UNCHANGED <<configVars, s2c, reply, infer, item, memory>>
    BY <1>8 DEF ServeAudioAccept, Reading, inferVars
  <2>4. Debts' BY <1>1, <1>2, <2>1, <2>2, <2>3, AcceptKeeps
  <2> QED BY <1>1, <1>2, <1>3, <2>3, <2>4, ConfigSame
<1>9. CASE ServeAudioSkip
  <2>1. /\ HasFrame /\ NextFrame.type = "AUDIO_IN" /\ rcvd' = rcvd + 1
        /\ serve = "recv" /\ serve' = "send"
        /\ reply'.type = "AUDIO_SKIP" /\ reply'.seq = NextFrame.seq
        /\ UNCHANGED <<configVars, s2c, requests, infer, item, memory>>
    BY <1>9 DEF ServeAudioSkip, Reading, Reply, inferVars
  <2>2. Debts' BY <1>1, <1>2, <2>1, SkipKeeps
  <2> QED BY <1>1, <1>2, <1>3, <2>1, <2>2, ConfigSame
<1>10. CASE ServeEnd
  <2>1. /\ HasFrame /\ NextFrame.type \in {"CLOSE", "BAD"} /\ rcvd' = rcvd + 1
        /\ serve = "recv" /\ serve' = "finally"
        /\ UNCHANGED <<configVars, s2c, reply, requests, infer, item, memory>>
    BY <1>10 DEF ServeEnd, Reading, inferVars
  <2>2. ~Over /\ ~Skipping /\ ~Skipping' BY <2>1 DEF Over, Skipping
  <2>3. Debts' BY <1>1, <1>2, <2>1, <2>2, AnswersSame, QuietServe
  <2> QED BY <1>1, <1>2, <1>3, <2>1, <2>3, ConfigSame
<1>11. CASE ServeFinally
  <2>1. /\ serve = "finally" /\ serve' = "closed" /\ requests' = Append(requests, NoItem)
        /\ UNCHANGED <<configVars, rcvd, s2c, reply, infer, item, memory>>
    BY <1>11 DEF ServeFinally, inferVars
  <2>2. Over /\ Over' /\ ~Skipping /\ ~Skipping' BY <2>1 DEF Over, Skipping
  <2>3. SameQueue
    <3>1. /\ DOMAIN requests = 1..Len(requests) /\ Len(requests) \in Nat
          /\ DOMAIN requests' = 1..(Len(requests) + 1)
          /\ \A i \in DOMAIN requests' : requests'[i] = IF i \in DOMAIN requests THEN requests[i] ELSE NoItem
      BY <1>1, <2>1, AppendFacts DEF TypeOK
    <3> QED BY <3>1 DEF SameQueue, InQueue
  <2>4. SameFrames /\ SameAnswers BY <1>1, <1>2, <2>1, AcceptedSame, AnswersSame
  <2>5. /\ Working' = Working /\ Unsent' = Unsent /\ Ending' = Ending
    BY <2>1 DEF Working, Unsent, Ending
  <2>6. Debts' BY <1>1, <1>2, <2>1, <2>2, <2>3, <2>4, <2>5, QuietKeeps
  <2> QED BY <1>1, <1>2, <1>3, <2>1, <2>6, ConfigSame
<1>12. CASE ServeSent
  <2>1. /\ serve = "send" /\ serve' = "recv" /\ s2c' = Append(s2c, reply)
        /\ UNCHANGED <<configVars, rcvd, requests, infer, item, memory>>
    BY <1>12 DEF ServeSent, Sends, inferVars
  <2>2. ~Over' /\ ~Over /\ ~Skipping' BY <2>1 DEF Over, Skipping
  <2>3. CASE Skipping
    <3>1. reply.type = "AUDIO_SKIP" BY <2>3 DEF Skipping
    <3>2. PICK l \in Nat : /\ Answers' = Answers \cup {l} /\ Outs' = Outs /\ s2c'[l] = reply
                           /\ \A o \in Answers : s2c'[o] = s2c[o] /\ o \in Nat /\ o < l
      BY <1>1, <2>1, <3>1, AnswerAppend DEF Answers
    <3>3. Debts' BY <1>1, <1>2, <2>1, <2>2, <2>3, <3>2, SkipSentKeeps
    <3> QED BY <1>1, <1>2, <1>3, <2>1, <3>3, ConfigSame
  <2>4. CASE ~Skipping
    <3>1. reply.type \notin {"AUDIO_OUT", "AUDIO_SKIP"} BY <1>1, <2>1, <2>4 DEF Skipping, Replies, SInv
    <3>2. SameAnswers BY <1>1, <2>1, <3>1, AnswersSame
    <3>3. Debts' BY <1>1, <1>2, <2>1, <2>2, <2>4, <3>2, QuietServe
    <3> QED BY <1>1, <1>2, <1>3, <2>1, <3>3, ConfigSame
  <2> QED BY <2>3, <2>4
<1>13. CASE ServeSendFails
  <2>1. /\ serve = "send" /\ serve' = "finally" /\ SendFails
        /\ UNCHANGED <<configVars, rcvd, requests, infer, item, memory>>
    BY <1>13 DEF ServeSendFails, inferVars
  <2>2. Over' /\ ~Skipping' BY <2>1 DEF Over, Skipping
  <2>3. Debts' BY <1>1, <1>2, <2>1, <2>2, FailedAnswer, QuietServe
  <2> QED BY <1>1, <1>2, <1>3, <2>1, <2>3, ConfigSame
<1> QED BY <1>4, <1>5, <1>6, <1>7, <1>8, <1>9, <1>10, <1>11, <1>12, <1>13 DEF Serve

\* serve_client answers with acknowledgements and AUDIO_SKIP only.
LEMMA RepliesKept == ASSUME SInv, Next PROVE Replies'
<1>1. CASE Peer BY <1>1, PeerFrames DEF SInv, IInv, Replies, serviceVars
<1>2. CASE Infer
  BY <1>2 DEF SInv, Replies, Infer, InferGet, InferProcess, InferRaises, InferTakeSendLock, InferSent,
              InferSendFails, InferRelease
<1>3. CASE RecvHello \/ RecvSessionOpen \/ HandshakeFails \/ ServeAudioAccept \/ ServeEnd
           \/ ServeRecvFails \/ ServeFinally \/ ServeSent \/ ServeSendFails
  <2>1. serve' # "send"
    BY <1>3 DEF RecvHello, RecvSessionOpen, HandshakeFails, ServeAudioAccept, ServeEnd,
                ServeRecvFails, ServeFinally, ServeSent, ServeSendFails, Reading
  <2> QED BY <2>1 DEF Replies
<1>4. CASE ServeHeartbeat \/ ServeConfigUpdate \/ ServeAudioSkip
  <2>1. reply'.type # "AUDIO_OUT" BY <1>4 DEF ServeHeartbeat, ServeConfigUpdate, ServeAudioSkip, Reply
  <2> QED BY <2>1 DEF Replies
<1>5. CASE ServeTakeSendLock BY <1>5 DEF ServeTakeSendLock, SInv, Replies
<1> QED BY <1>1, <1>2, <1>3, <1>4, <1>5 DEF Next, Serve

\* _run_inference.
LEMMA InferOrder == ASSUME SInv, Infer PROVE (Numbered /\ Epochs /\ ConfigCurrent /\ Debts)'
<1>1. IInv /\ TypeOK /\ Numbered /\ Epochs /\ ConfigCurrent /\ Debts BY DEF SInv, IInv
<1>2. UNCHANGED <<sent, rcvd, configVars, serve, reply>>
  BY DEF Infer, InferGet, InferProcess, InferRaises, InferTakeSendLock, InferSent,
         InferSendFails, InferRelease, netVars
<1>3. Numbered' /\ Epochs' /\ ConfigCurrent' BY <1>1, <1>2, SameNumbers, ConfigSame
<1>4. CASE InferGet
  <2>1. /\ infer = "get" /\ requests # <<>> /\ requests' = Tail(requests)
        /\ UNCHANGED <<s2c, memory>>
        /\ \/ Head(requests) = NoItem /\ infer' = "exit" /\ item' = item
           \/ Head(requests) # NoItem /\ infer' = "process" /\ item' = Head(requests)
    BY <1>4 DEF InferGet
  <2>2. /\ Len(requests) \in Nat /\ 1 \in DOMAIN requests /\ Head(requests) = requests[1]
        /\ DOMAIN requests = 1..Len(requests) /\ DOMAIN requests' = 1..(Len(requests) - 1)
        /\ Len(requests') = Len(requests) - 1
        /\ \A i \in DOMAIN requests' : requests'[i] = requests[i + 1] /\ i + 1 \in DOMAIN requests
    BY <1>1, <2>1, TailFacts
  <2>3. CASE Head(requests) = NoItem
    <3>1. serve = "closed" /\ Len(requests) = 1 BY <1>1, <2>2, <2>3 DEF IInv, SentinelLast
    <3>2. SameQueue
      <4>1. DOMAIN requests = {1} /\ DOMAIN requests' = {} BY <2>2, <3>1
      <4> QED BY <2>2, <2>3, <4>1 DEF SameQueue, InQueue
    <3>3. SameAnswers BY <1>1, <2>1, AnswersSame
    <3>4. Over /\ ~Unsent /\ ~Unsent' /\ ~Working' /\ Ending'
      BY <2>1, <2>3, <3>1 DEF Over, Unsent, Working, Ending
    <3>5. Debts' BY <1>1, <1>2, <3>2, <3>3, <3>4, QuietInfer
    <3> QED BY <1>3, <3>5
  <2>4. CASE Head(requests) # NoItem
    <3>1. Debts' BY <1>1, <1>2, <2>1, <2>2, <2>4, GetKeeps
    <3> QED BY <1>3, <3>1
  <2> QED BY <2>3, <2>4
<1>5. CASE InferProcess
  <2>1. Debts' BY <1>1, <1>2, <1>5, ProcessKeeps DEF InferProcess
  <2> QED BY <1>3, <2>1
<1>6. CASE InferRaises \/ InferTakeSendLock \/ InferSendFails \/ InferRelease
  <2>1. UNCHANGED requests /\ SameQueue
    BY <1>6 DEF InferRaises, InferTakeSendLock, InferSendFails, InferRelease, SameQueue, InQueue
  <2>2. SameAnswers
    <3>1. CASE s2c' = s2c BY <1>1, <3>1, AnswersSame
    <3>2. CASE SendFails BY <1>1, <3>2, FailedAnswer
    <3> QED BY <1>6, <3>1, <3>2 DEF InferRaises, InferTakeSendLock, InferSendFails, InferRelease
  <2>3. /\ Working' => Working /\ item' = item
        /\ Unsent' => Unsent /\ (Unsent /\ ~Ending' => Unsent') /\ (Ending => Ending')
        /\ ~Ending' => (infer' = "process" <=> infer = "process") /\ memory' = memory
    BY <1>6 DEF InferRaises, InferTakeSendLock, InferSendFails, InferRelease, Working, Unsent, Ending, inferVars
  <2>4. (Unsent /\ ~Ending' => Unsent') /\ (Ending => Ending')
    BY <1>6 DEF InferRaises, InferTakeSendLock, InferSendFails, InferRelease, Unsent, Ending, inferVars
  <2>5. Debts' BY <1>1, <1>2, <2>1, <2>2, <2>3, <2>4, QuietInfer
  <2> QED BY <1>3, <2>5
<1>7. CASE InferSent
  <2> DEFINE out == [type |-> "AUDIO_OUT", seq |-> item.seq, config |-> item.config,
                     epoch |-> item.epoch, memory |-> memory]
  <2>1. /\ out.type = "AUDIO_OUT" /\ out.seq = item.seq /\ out.config = item.config
        /\ out.epoch = item.epoch /\ out.memory = memory
    OBVIOUS
  <2>2. /\ infer = "send" /\ infer' = "release" /\ s2c' = Append(s2c, out)
        /\ UNCHANGED <<requests, item, memory>>
    BY <1>7 DEF InferSent, Sends
  <2> HIDE DEF out
  <2>3. PICK l \in Nat : /\ Answers' = Answers \cup {l} /\ Outs' = Outs \cup {l} /\ s2c'[l] = out
                         /\ \A o \in Answers : s2c'[o] = s2c[o] /\ o \in Nat /\ o < l
    BY <1>1, <2>1, <2>2, AnswerAppend DEF Answers
  <2>4. Debts' BY <1>1, <1>2, <2>1, <2>2, <2>3, OutSentKeeps
  <2> QED BY <1>3, <2>4
<1> QED BY <1>4, <1>5, <1>6, <1>7 DEF Infer

\* Every step keeps the order of the answers.
LEMMA NextSInv == SInv /\ [Next]_vars => SInv'
<1> SUFFICES ASSUME SInv, [Next]_vars PROVE SInv' OBVIOUS
<1>1. IInv' BY NextIInv DEF SInv
<1>2. CASE Next
  <2>1. Replies' BY <1>2, RepliesKept
  <2> QED BY <1>1, <1>2, <2>1, PeerOrder, ServeOrder, InferOrder DEF Next, SInv
<1>3. CASE UNCHANGED vars
  <2>1. UNCHANGED <<sent, rcvd, s2c, serve, reply, infer, requests, item, memory, configVars>>
    BY <1>3 DEF vars, configVars
  <2>2. IInv /\ TypeOK /\ Numbered /\ Epochs /\ ConfigCurrent /\ Debts BY DEF SInv, IInv
  <2>3. Over' = Over /\ Skipping' = Skipping BY <2>1 DEF Over, Skipping
  <2>4. Debts' BY <2>1, <2>2, <2>3, AnswersSame, QuietServe
  <2>5. Numbered' /\ Epochs' /\ ConfigCurrent' BY <2>1, <2>2, SameNumbers, ConfigSame
  <2> QED BY <1>1, <2>1, <2>4, <2>5 DEF SInv, Replies
<1> QED BY <1>2, <1>3

\* The order of the answers is an invariant.
LEMMA OrderHolds == Spec => []SInv
<1>1. Init => SInv BY InitIInv, InitOrder DEF Init, SInv, Replies
<1> QED BY <1>1, NextSInv, PTL DEF Spec

----------------------------------------------------------------------------
(* What the order gives.                                                    *)

\* AUDIO_OUT follows the order of the AUDIO_IN frames, and no block is answered
\* twice, for every MAX_IN_FLIGHT and whatever the peer sends.
THEOREM AnswersInOrder == Spec => []AnsweredOnceInOrder
<1>1. SInv => AnsweredOnceInOrder BY DEF SInv, Debts
<1> QED BY OrderHolds, <1>1, PTL

\* A block is converted with the samples of its own stream, unless the block
\* that opened the stream was skipped.
THEOREM StreamFollowed == Spec => []EngineFollowsStream
<1>1. SInv => EngineFollowsStream BY DEF SInv, Debts
<1> QED BY OrderHolds, <1>1, PTL

\* Two blocks that were read never have the same number.
LEMMA DistinctBlocks ==
  ASSUME TypeOK, Numbered, NEW n \in Audio(sent), NEW m \in Audio(sent), sent[n].seq = sent[m].seq
  PROVE  n = m
<1>1. n \in Nat /\ m \in Nat /\ sent[n].seq \in Nat BY FrameFields DEF TypeOK, Audio
<1> QED BY <1>1 DEF Numbered

\* A block is converted with the last update accepted before it in the peer's
\* order, however long it waits in the queue.
THEOREM ConfigOfReceipt == Spec => []ConfigAsOfReceipt
<1>1. ASSUME SInv PROVE ConfigAsOfReceipt
  <2>1. TypeOK /\ Numbered /\ Traced BY <1>1 DEF SInv, IInv, Debts
  <2> SUFFICES ASSUME NEW o \in Outs, NEW n \in Audio(sent), sent[n].seq = s2c[o].seq
               PROVE  s2c[o].config = ConfigBefore(n)
    BY DEF ConfigAsOfReceipt, Outs
  <2>2. PICK m \in Accepted : BlockOf(s2c[o], m) BY <2>1 DEF Traced
  <2>3. m \in Audio(sent) BY <2>1, <2>2 DEF Accepted, Audio, TypeOK
  <2>4. m = n BY <2>1, <2>2, <2>3, DistinctBlocks DEF BlockOf
  <2> QED BY <2>2, <2>4 DEF BlockOf
<1> QED BY OrderHolds, <1>1, PTL

\* The blocks owed are in the queue or in hand: each is at a place of its own.
LEMMA OwedHavePlaces ==
  ASSUME SInv, ~Over, infer \notin {"dying", "exit"}
  PROVE  Cardinality(Outstanding) <= Len(requests) + Busy
<1>1. /\ TypeOK /\ Numbered /\ Kept /\ Traced /\ Replies /\ Len(requests) \in Nat
      /\ \A n \in Accepted : n \in Audio(sent)
  BY DEF SInv, IInv, Debts, TypeOK, Accepted, Audio
<1> DEFINE Places == 1..(Len(requests) + Busy)
           At(n, p) == \/ p \in InQueue /\ requests[p].seq = sent[n].seq
                       \/ Unsent /\ p = Len(requests) + 1 /\ item.seq = sent[n].seq
           place == [n \in Outstanding |-> CHOOSE p \in Places : At(n, p)]
<1>2. ASSUME NEW n \in Outstanding PROVE \E p \in Places : At(n, p)
  <2>1. n \in Accepted /\ sent[n].seq \notin AnsweredSeqs BY DEF Outstanding
  <2>2. ~\E o \in Answers : s2c[o].seq = sent[n].seq BY <2>1 DEF AnsweredSeqs
  <2>3. ~(Skipping /\ reply.seq = sent[n].seq)
    <3>1. Skipping => reply \in [type : {"AUDIO_SKIP"}, seq : Nat]
      <4>1. Skipping => reply \in ServiceFrame BY DEF SInv, IInv, InHand, Skipping
      <4> QED BY <4>1 DEF ServiceFrame, Skipping
    <3> QED BY <2>1, <3>1 DEF AnsweredSeqs
  <2>4. \/ \E i \in InQueue : requests[i].seq = sent[n].seq
        \/ Unsent /\ item.seq = sent[n].seq
    BY <1>1, <2>1, <2>2, <2>3 DEF Kept
  <2>5. InQueue \subseteq Places
    BY <1>1 DEF InQueue, TypeOK, Busy
  <2>6. Unsent => Len(requests) + 1 \in Places
    BY <1>1 DEF Unsent, Working, Busy
  <2> QED BY <2>4, <2>5, <2>6
<1>3. \A n \in Outstanding : place[n] \in Places /\ At(n, place[n]) BY <1>2
<1>4. \A n, m \in Outstanding : place[n] = place[m] => n = m
  <2>1. \A p \in InQueue : p # Len(requests) + 1 BY <1>1 DEF InQueue, TypeOK
  <2>2. ASSUME NEW n \in Outstanding, NEW m \in Outstanding, NEW p, At(n, p), At(m, p) PROVE n = m
    <3>1. sent[n].seq = sent[m].seq BY <2>1, <2>2
    <3> QED BY <1>1, <3>1, DistinctBlocks DEF Outstanding
  <2> HIDE DEF At, place
  <2> QED BY <1>3, <2>2
<1> HIDE DEF At, place
<1>5. IsFiniteSet(Places) /\ Cardinality(Places) = Len(requests) + Busy
  <2>1. Len(requests) + Busy \in Nat BY <1>1 DEF Busy
  <2> QED BY <2>1, FS_Interval
<1>6. place \in [Outstanding -> Places] BY <1>3 DEF place
<1>7. IsFiniteSet(Outstanding)
  <2>1. Outstanding \subseteq Audio(sent) BY <1>1 DEF Outstanding
  <2> QED BY <1>1, <2>1, AudioFinite
<1> HIDE DEF Places
<1>8. ~(Cardinality(Places) < Cardinality(Outstanding)) BY <1>4, <1>5, <1>6, <1>7, FS_PigeonHole
<1>9. Len(requests) + Busy \in Nat /\ Cardinality(Outstanding) \in Nat
  BY <1>1, <1>7, FS_CardinalityType DEF Busy
<1> QED BY <1>5, <1>8, <1>9

\* While both threads work, no more blocks are held unanswered than the
\* max_in_flight that SESSION_ACCEPT advertised.
THEOREM BoundInFlight == Spec => []InFlightBound
<1>1. ASSUME SInv PROVE InFlightBound
  <2> SUFFICES ASSUME ~Over, infer \notin {"dying", "exit"}
               PROVE  Cardinality(Outstanding) <= MaxInFlight
    BY DEF InFlightBound
  <2>1. Cardinality(Outstanding) <= Len(requests) + Busy BY <1>1, OwedHavePlaces
  <2>2. slots + Len(requests) + Busy = MaxInFlight /\ slots \in Nat /\ Len(requests) \in Nat
    BY <1>1 DEF SInv, IInv, TypeOK, SlotsAccounted, Held, Over
  <2>3. Cardinality(Outstanding) \in Nat
    <3>1. Outstanding \subseteq DOMAIN sent BY <1>1 DEF SInv, IInv, TypeOK, Outstanding, Accepted
    <3> QED BY <1>1, <3>1, CountsAreNaturals DEF SInv, IInv
  <2> QED BY <2>1, <2>2, <2>3 DEF Busy
<1> QED BY OrderHolds, <1>1, PTL
----------------------------------------------------------------------------
(* The session as a service in order.                                       *)

Pair(b) == <<b.seq, b.config>>

OfferedNumbers == {sent[i].seq : i \in Accepted}
ConvertedPairs == {Pair(s2c[o]) : o \in Outs}

\* The blocks held, without None: the one that the engine works on comes first.
Front == IF Unsent THEN 1 ELSE 0
Size == Front + Held
Row == [i \in 1..Size |-> IF i <= Front THEN Pair(item) ELSE Pair(requests[i - Front])]

\* What the operators on sequences do to a row of n blocks.
LEMMA RowFacts ==
  ASSUME NEW n \in Nat, NEW s, s = [i \in 1..n |-> s[i]]
  PROVE  /\ Len(s) = n /\ (s = <<>> <=> n = 0)
         /\ n > 0 => Head(s) = s[1] /\ Tail(s) = [i \in 1..(n - 1) |-> s[i + 1]]
         /\ \A x : Append(s, x) = [i \in 1..(n + 1) |-> IF i <= n THEN s[i] ELSE x]
<1> DEFINE S == {s[i] : i \in 1..n}
<1>1. s \in Seq(S)
  <2>1. s \in [1..n -> S] OBVIOUS
  <2> QED BY <2>1
<1>2. DOMAIN s = 1..n OBVIOUS
<1> HIDE DEF S
<1>3. Len(s) = n BY <1>1, <1>2
<1>4. s = <<>> <=> n = 0 BY <1>1, <1>3, EmptySeq
<1>5. n > 0 => Head(s) = s[1] /\ Tail(s) = [i \in 1..(n - 1) |-> s[i + 1]] BY <1>1, <1>3
<1>6. ASSUME NEW x PROVE Append(s, x) = [i \in 1..(n + 1) |-> IF i <= n THEN s[i] ELSE x]
  BY <1>1, <1>3
<1> QED BY <1>3, <1>4, <1>5, <1>6

\* Holding leaves out None, which is last.
LEMMA HoldingIsRow == IInv => Size \in Nat /\ Holding = Row
<1> SUFFICES ASSUME IInv PROVE Size \in Nat /\ Holding = Row OBVIOUS
<1> DEFINE S == Item \cup {NoItem}
           blocks == Converting \o requests
           n == Front + Len(requests)
<1>1. requests \in Seq(S) /\ Len(requests) \in Nat /\ (requests = <<>> <=> Len(requests) = 0)
  <2>1. requests \in Seq(S) BY DEF IInv, TypeOK
  <2> HIDE DEF S
  <2> QED BY <2>1, EmptySeq
<1>2. Unsent => item \in Item BY DEF IInv, InHand, Working, Unsent
<1>3. /\ Converting \in Seq(S) /\ Len(Converting) = Front
      /\ Unsent => Converting[1] = item
  <2>1. CASE Unsent
    <3>1. Converting = <<item>> /\ Front = 1 /\ item \in S BY <1>2, <2>1 DEF Converting, Unsent, Front
    <3> HIDE DEF S
    <3> QED BY <3>1
  <2>2. CASE ~Unsent
    <3>1. Converting = <<>> /\ Front = 0 BY <2>2 DEF Converting, Unsent, Front
    <3> HIDE DEF S
    <3> QED BY <2>2, <3>1, EmptySeq
  <2> QED BY <2>1, <2>2
<1>4. /\ Front \in Nat /\ Front = IF Unsent THEN 1 ELSE 0
      /\ Held = Len(requests) - (IF serve = "closed" /\ requests # <<>> THEN 1 ELSE 0)
  BY DEF Front, Held
<1>5. Size \in Nat /\ Size = Front + Held BY <1>1, <1>4 DEF Size
<1>6. /\ blocks \in Seq(S) /\ Len(blocks) = n
      /\ \A i \in 1..n : blocks[i] = IF i <= Front THEN Converting[i] ELSE requests[i - Front]
  BY <1>1, <1>3, ConcatProperties
<1>7. DOMAIN blocks = 1..n BY <1>6, LenProperties
<1>8. \A i \in 1..n : blocks[i] = IF i <= Front THEN item ELSE requests[i - Front]
  <2>1. \A i \in 1..n : i <= Front => i = 1 /\ Unsent BY <1>4
  <2> QED BY <1>3, <1>6, <2>1
<1>9. n \in Nat /\ n = Front + Len(requests) BY <1>1, <1>4
<1> HIDE DEF blocks, n
<1>10. ASSUME NEW i \in 1..n
       PROVE  blocks[i] = NoItem <=> serve = "closed" /\ requests # <<>> /\ i = n
  <2>1. CASE i <= Front
    <3>1. blocks[i] = item /\ item # NoItem BY <1>2, <1>4, <1>8, <2>1, ItemIsNoNone
    <3>2. requests # <<>> => i # n BY <1>1, <1>4, <1>9, <2>1
    <3> QED BY <3>1, <3>2
  <2>2. CASE ~(i <= Front)
    <3>1. i - Front \in 1..Len(requests) /\ (i - Front = Len(requests) <=> i = n) BY <1>1, <1>4, <1>9, <2>2
    <3>2. DOMAIN requests = 1..Len(requests) BY <1>1, LenProperties
    <3>3. requests[i - Front] = NoItem <=> serve = "closed" /\ i - Front = Len(requests)
      BY <3>1, <3>2 DEF IInv, SentinelLast
    <3>4. requests # <<>> BY <1>1, <3>1
    <3> QED BY <1>8, <2>2, <3>1, <3>3, <3>4
  <2> QED BY <2>1, <2>2
<1>11. {k \in DOMAIN blocks : blocks[k] # NoItem} = 1..Size
  <2>1. Size = IF serve = "closed" /\ requests # <<>> THEN n - 1 ELSE n BY <1>1, <1>4, <1>5, <1>9
  <2>2. 1..Size = {k \in 1..n : ~(serve = "closed" /\ requests # <<>> /\ k = n)} BY <1>9, <2>1
  <2> QED BY <1>7, <1>10, <2>2
<1>12. Holding = [i \in 1..Size |-> Pair(blocks[i])] BY <1>11 DEF Holding, Pair, blocks
<1>13. 1..Size \subseteq 1..n BY <1>7, <1>11
<1>14. \A i \in 1..Size : Pair(blocks[i]) = IF i <= Front THEN Pair(item) ELSE Pair(requests[i - Front])
  BY <1>8, <1>13
<1> QED BY <1>5, <1>12, <1>14 DEF Row
\* And after a step.
LEMMA HoldingIsRowNext == IInv' => Size' \in Nat /\ Holding' = Row'
<1>1. IInv => Size \in Nat /\ Holding = Row BY HoldingIsRow
<1>2. (IInv => Size \in Nat /\ Holding = Row)' BY <1>1, PTL
<1> QED BY <1>2

\* A step that leaves the queue and the hand of the engine alone.
LEMMA RowStays ==
  ASSUME IInv, IInv', requests' = requests, Held' = Held, Unsent' = Unsent, Unsent => item' = item
  PROVE  Holding' = Holding
<1>1. Holding = Row /\ Holding' = Row' BY HoldingIsRow, HoldingIsRowNext
<1>2. Front' = Front /\ Size' = Size BY DEF Front, Size
<1>3. \A i \in 1..Size : i <= Front => Unsent BY HoldingIsRow DEF Front
<1> QED BY <1>1, <1>2, <1>3 DEF Row, Pair

\* The blocks offered and those converted stay as they are.
LEMMA OfferedStays == ASSUME SameFrames PROVE OfferedNumbers' = OfferedNumbers
BY DEF SameFrames, OfferedNumbers

LEMMA ConvertedStays == ASSUME SameAnswers PROVE ConvertedPairs' = ConvertedPairs
BY DEF SameAnswers, ConvertedPairs, Pair, Answers, Outs

\* A session that goes on holding what it held.
Stands == /\ OfferedNumbers' = OfferedNumbers /\ Holding' = Holding /\ ConvertedPairs' = ConvertedPairs
          /\ config' = config /\ Ending' = Ending

\* A block that was read is one more that was offered, and follows the others.
LEMMA BlockOffered ==
  ASSUME SInv, Reading("AUDIO_IN"), sent' = sent
  PROVE  /\ OfferedNumbers' = OfferedNumbers \cup {NextFrame.seq}
         /\ \A m \in OfferedNumbers : m < NextFrame.seq
         /\ NextFrame.seq \in Nat /\ NextFrame \in {sent[i] : i \in Audio(sent)}
<1>1. TypeOK /\ Numbered /\ Epochs BY DEF SInv, IInv
<1>2. HasFrame /\ NextFrame.type = "AUDIO_IN" /\ rcvd' = rcvd + 1 BY DEF Reading
<1> DEFINE k == rcvd + 1
<1>3. /\ k \in DOMAIN sent /\ NextFrame = sent[k] /\ Accepted' = Accepted \cup {k}
      /\ sent[k].seq \in Nat /\ \A n \in Accepted : sent[n].seq < sent[k].seq
  BY <1>1, <1>2, BlockRead
<1>4. k \in Audio(sent) BY <1>2, <1>3 DEF Audio
<1> HIDE DEF k
<1> QED BY <1>3, <1>4 DEF OfferedNumbers

\* The numbers a peer gives its blocks.
NumbersWithin == CountOf(sent, "AUDIO_IN") \in 0..MaxAudio

\* A block is accepted while fewer than MaxInFlight are held, at their end and
\* with the configuration in force.
LEMMA AcceptIsAccept ==
  ASSUME SInv, IInv', ServeAudioAccept
  PROVE  /\ Len(Holding) < MaxInFlight
         /\ Holding' = Append(Holding, <<NextFrame.seq, config>>)
<1>1. /\ serve = "recv" /\ serve' = serve /\ slots > 0 /\ infer' = infer /\ item' = item
      /\ requests' = Append(requests, [seq |-> NextFrame.seq, disc |-> NextFrame.disc,
                                       epoch |-> NextFrame.epoch, config |-> config])
  BY DEF ServeAudioAccept, Reading, inferVars
<1> DEFINE b == [seq |-> NextFrame.seq, disc |-> NextFrame.disc, epoch |-> NextFrame.epoch, config |-> config]
<1>2. Pair(b) = <<NextFrame.seq, config>> BY DEF Pair
<1> HIDE DEF b
<1>3. /\ Len(requests) \in Nat /\ Len(requests') = Len(requests) + 1
      /\ \A i \in 1..Len(requests) : requests'[i] = requests[i]
      /\ requests'[Len(requests) + 1] = b
  <2>1. requests \in Seq(Item \cup {NoItem}) /\ requests' = Append(requests, b)
    BY <1>1 DEF SInv, IInv, TypeOK, b
  <2> QED BY <2>1, AppendFacts
<1>4. IInv /\ Size \in Nat /\ Holding = Row /\ Holding' = Row'
  BY HoldingIsRow, HoldingIsRowNext DEF SInv
<1>5. Held = Len(requests) /\ Held' = Len(requests) + 1 BY <1>1, <1>3 DEF Held
<1>6. Front' = Front /\ Front \in Nat BY <1>1 DEF Front, Unsent
<1>7. Size = Front + Len(requests) /\ Size' = Size + 1 BY <1>3, <1>5, <1>6 DEF Size
<1>8. Size < MaxInFlight
  <2>1. slots + Held + Busy = MaxInFlight /\ slots \in Nat BY <1>4 DEF IInv, SlotsAccounted, TypeOK
  <2>2. Front <= Busy /\ Busy \in Nat BY DEF Front, Busy, Unsent, Working
  <2> QED BY <1>1, <1>3, <1>5, <1>6, <1>7, <2>1, <2>2
<1>9. Row = [i \in 1..Size |-> Row[i]] BY DEF Row
<1>10. Len(Row) = Size /\ \A x : Append(Row, x) = [i \in 1..(Size + 1) |-> IF i <= Size THEN Row[i] ELSE x]
  BY <1>4, <1>9, RowFacts
<1>11. Row' = [i \in 1..(Size + 1) |-> IF i <= Size THEN Row[i] ELSE Pair(b)]
  <2>1. Row' = [i \in 1..(Size + 1) |-> IF i <= Front THEN Pair(item) ELSE Pair(requests'[i - Front])]
    BY <1>1, <1>6, <1>7 DEF Row, Pair
  <2>2. ASSUME NEW i \in 1..(Size + 1)
        PROVE  (IF i <= Front THEN Pair(item) ELSE Pair(requests'[i - Front]))
                 = IF i <= Size THEN Row[i] ELSE Pair(b)
    <3>1. CASE i <= Front BY <1>3, <1>4, <1>6, <1>7, <3>1 DEF Row
    <3>2. CASE ~(i <= Front) /\ i <= Size
      <4>1. i - Front \in 1..Len(requests) BY <1>3, <1>4, <1>6, <1>7, <3>2
      <4>2. i \in 1..Size BY <1>4, <3>2
      <4> QED BY <1>3, <3>2, <4>1, <4>2 DEF Row
    <3>3. CASE ~(i <= Front) /\ ~(i <= Size)
      <4>1. i - Front = Len(requests) + 1 BY <1>3, <1>4, <1>6, <1>7, <3>3
      <4> QED BY <1>3, <3>3, <4>1
    <3> QED BY <3>1, <3>2, <3>3
  <2> QED BY <2>1, <2>2
<1> QED BY <1>2, <1>4, <1>8, <1>10, <1>11
\* A block is refused only when MaxInFlight are held, or one has just been
\* converted or lost and its slot is not released yet.
LEMMA SkipIsRefuse ==
  ASSUME SInv, IInv', ServeAudioSkip
  PROVE  Len(Holding) >= MaxInFlight - 1 /\ Holding' = Holding
<1>1. /\ serve = "recv" /\ serve' = "send" /\ slots = 0 /\ infer' = infer /\ item' = item
      /\ requests' = requests
  BY DEF ServeAudioSkip, Reading, Reply, inferVars
<1>2. IInv /\ Size \in Nat /\ Holding = Row BY HoldingIsRow DEF SInv
<1>3. Held' = Held /\ Held = Len(requests) /\ Len(requests) \in Nat BY <1>1, <1>2 DEF Held, IInv, TypeOK
<1>4. Holding' = Holding BY <1>1, <1>2, <1>3, RowStays DEF Unsent
<1>5. slots + Held + Busy = MaxInFlight BY <1>2 DEF IInv, SlotsAccounted
<1>6. Len(Row) = Size
  <2>1. Row = [i \in 1..Size |-> Row[i]] BY DEF Row
  <2> QED BY <1>2, <2>1, RowFacts
<1>7. Size = Front + Held /\ Front \in Nat /\ Busy \in {0, 1} BY DEF Size, Front, Busy
<1> QED BY <1>1, <1>2, <1>3, <1>4, <1>5, <1>6, <1>7

\* The engine is done with the block in hand, or has failed: what waits behind
\* it is all that is held.
LEMMA HandIsHead ==
  ASSUME IInv, IInv', Unsent, ~Unsent', requests' = requests, serve' = serve
  PROVE  Holding # <<>> /\ Head(Holding) = Pair(item) /\ Holding' = Tail(Holding)
<1>1. Size \in Nat /\ Holding = Row /\ Size' \in Nat /\ Holding' = Row' BY HoldingIsRow, HoldingIsRowNext
<1>2. Front = 1 /\ Front' = 0 /\ Held' = Held BY DEF Front, Held
<1>3. Held \in Int BY DEF Held, IInv, TypeOK
<1>4. Size = Size' + 1 /\ Size > 0 BY <1>1, <1>2, <1>3 DEF Size
<1>5. Row = [i \in 1..Size |-> Row[i]] BY DEF Row
<1>6. Row # <<>> /\ Head(Row) = Row[1] /\ Tail(Row) = [i \in 1..(Size - 1) |-> Row[i + 1]]
  BY <1>1, <1>4, <1>5, RowFacts
<1>7. Row[1] = Pair(item)
  <2>1. \A n \in Nat : n > 0 => 1 \in 1..n OBVIOUS
  <2>2. 1 \in 1..Size BY <1>1, <1>4, <2>1
  <2>3. 1 <= Front BY <1>2
  <2> QED BY <2>2, <2>3 DEF Row
<1>8. Row' = [i \in 1..(Size - 1) |-> Row[i + 1]]
  <2>1. Row' = [i \in 1..(Size - 1) |-> IF i <= 0 THEN Pair(item') ELSE Pair(requests[i - 0])]
    BY <1>1, <1>2, <1>4 DEF Row, Pair
  <2>2. ASSUME NEW i \in 1..(Size - 1)
        PROVE  (IF i <= 0 THEN Pair(item') ELSE Pair(requests[i - 0])) = Row[i + 1]
    <3>1. /\ i + 1 \in 1..Size /\ ~(i + 1 <= 1) /\ (i + 1) - 1 = i /\ ~(i <= 0) /\ i - 0 = i
      BY <1>1, <2>2
    <3> QED BY <1>2, <3>1 DEF Row
  <2> QED BY <2>1, <2>2
<1> QED BY <1>1, <1>6, <1>7, <1>8

\* The block that was taken from the queue is held as before; None is not held.
LEMMA GetHolds ==
  ASSUME IInv, IInv', InferGet
  PROVE  Holding' = Holding /\ (Ending' => Holding = <<>>)
<1>1. /\ infer = "get" /\ requests # <<>> /\ requests' = Tail(requests) /\ serve' = serve
      /\ \/ Head(requests) = NoItem /\ infer' = "exit" /\ item' = item
         \/ Head(requests) # NoItem /\ infer' = "process" /\ item' = Head(requests)
  BY DEF InferGet
<1>2. /\ Len(requests) \in Nat /\ 1 \in DOMAIN requests /\ Head(requests) = requests[1]
      /\ DOMAIN requests = 1..Len(requests) /\ Len(requests') = Len(requests) - 1
      /\ \A i \in 1..(Len(requests) - 1) : requests'[i] = requests[i + 1]
  BY <1>1, TailFacts
<1>3. Size \in Nat /\ Holding = Row /\ Size' \in Nat /\ Holding' = Row' BY HoldingIsRow, HoldingIsRowNext
<1>4. Front = 0 BY <1>1 DEF Front, Unsent
<1>5. requests[1] = NoItem <=> serve = "closed" /\ Len(requests) = 1 BY <1>2 DEF IInv, SentinelLast
<1>6. requests' \in Seq(Item \cup {NoItem}) BY DEF IInv, TypeOK
<1>7. requests' = <<>> <=> Len(requests) = 1 BY <1>2, <1>6, EmptySeq
<1>8. CASE Head(requests) = NoItem
  <2>1. Size = 0 /\ Size' = 0
    <3>1. Front' = 0 BY <1>1, <1>8 DEF Front, Unsent
    <3>2. serve = "closed" /\ Len(requests) = 1 BY <1>2, <1>5, <1>8
    <3> QED BY <1>1, <1>2, <1>4, <1>7, <3>1, <3>2 DEF Size, Held
  <2>2. Row = <<>> /\ Row' = <<>>
    <3>1. Row = [i \in 1..0 |-> Row[i]] /\ Row' = [i \in 1..0 |-> Row'[i]] BY <2>1 DEF Row
    <3> QED BY <3>1, RowFacts
  <2> QED BY <1>3, <2>2
<1>9. CASE Head(requests) # NoItem
  <2>1. infer' = "process" /\ item' = requests[1] /\ Front' = 1 /\ ~Ending'
    BY <1>1, <1>2, <1>9 DEF Front, Unsent, Ending
  <2>2. serve = "closed" => Len(requests) # 1 BY <1>2, <1>5, <1>9
  <2>3. Size' = Size BY <1>1, <1>2, <1>4, <1>7, <2>1, <2>2 DEF Size, Held
  <2>4. Size <= Len(requests) BY <1>2, <1>4 DEF Size, Held
  <2>5. Row' = [i \in 1..Size |-> IF i <= 1 THEN Pair(requests[1]) ELSE Pair(requests'[i - 1])]
    BY <2>1, <2>3 DEF Row, Pair
  <2>6. Row = [i \in 1..Size |-> IF i <= 0 THEN Pair(item) ELSE Pair(requests[i - 0])] BY <1>4 DEF Row
  <2>7. ASSUME NEW i \in 1..Size
        PROVE  (IF i <= 1 THEN Pair(requests[1]) ELSE Pair(requests'[i - 1]))
                 = IF i <= 0 THEN Pair(item) ELSE Pair(requests[i - 0])
    <3>1. ~(i <= 0) /\ i - 0 = i BY <1>3
    <3>2. CASE i <= 1
      <4>1. i = 1 BY <1>3, <3>2
      <4> QED BY <3>1, <4>1
    <3>3. CASE ~(i <= 1)
      <4>1. i - 1 \in 1..(Len(requests) - 1) /\ (i - 1) + 1 = i BY <1>2, <1>3, <2>4, <3>3
      <4> QED BY <1>2, <3>1, <3>3, <4>1
    <3> QED BY <3>2, <3>3
  <2> QED BY <1>3, <2>1, <2>5, <2>6, <2>7
<1> QED BY <1>8, <1>9
\* A frame written to the peer is a block converted if it is an AUDIO_OUT.
LEMMA WrittenPairs ==
  ASSUME TypeOK, NEW g, s2c' = Append(s2c, g)
  PROVE  ConvertedPairs' = ConvertedPairs \cup (IF g.type = "AUDIO_OUT" THEN {Pair(g)} ELSE {})
<1>1. /\ \A o \in Outs : s2c'[o] = s2c[o]
      /\ Outs' = IF g.type = "AUDIO_OUT" THEN Outs \cup {Len(s2c) + 1} ELSE Outs
      /\ s2c'[Len(s2c) + 1] = g
  BY AnswerAppend DEF Outs
<1>2. ConvertedPairs' = {<<s2c'[o].seq, s2c'[o].config>> : o \in Outs'} BY DEF ConvertedPairs, Pair
<1> QED BY <1>1, <1>2 DEF ConvertedPairs, Pair

\* The peer gives no number beyond MaxAudio, the bound of the model.
LEMMA WithinKept == ASSUME TypeOK, NumbersWithin, [Next]_vars PROVE NumbersWithin'
<1> USE MaxAudioAssumption
<1>1. CountOf(sent, "AUDIO_IN") = Cardinality(Audio(sent)) /\ Cardinality(Audio(sent)) \in Nat
  BY AudioFinite DEF CountOf, Audio
<1>2. CASE sent' = sent BY <1>2 DEF NumbersWithin, CountOf
<1>3. ASSUME NEW f, sent' = Append(sent, f), f.type # "AUDIO_IN" PROVE NumbersWithin'
  <2>1. Audio(sent)' = Audio(sent) BY <1>3, SentAppend
  <2> QED BY <2>1 DEF NumbersWithin, CountOf, Audio
<1>4. CASE PeerAudio
  <2>1. CountOf(sent, "AUDIO_IN") < MaxAudio BY <1>4 DEF PeerAudio
  <2>2. PICK f : sent' = Append(sent, f) BY <1>4 DEF PeerAudio, Put
  <2>3. Audio(sent)' \in {Audio(sent), Audio(sent) \cup {Len(sent) + 1}} BY <2>2, SentAppend
  <2>4. Len(sent) + 1 \notin Audio(sent) /\ IsFiniteSet(Audio(sent)) BY <2>2, SentAppend, AudioFinite DEF Audio
  <2>5. Cardinality(Audio(sent)') \in {Cardinality(Audio(sent)), Cardinality(Audio(sent)) + 1}
    BY <2>3, <2>4, FS_AddElement
  <2>6. CountOf(sent, "AUDIO_IN")' = Cardinality(Audio(sent)') BY DEF CountOf, Audio
  <2> QED BY <1>1, <2>1, <2>5, <2>6 DEF NumbersWithin
<1>5. CASE Peer /\ ~PeerAudio
  <2>1. sent' = sent \/ \E f : sent' = Append(sent, f) /\ f.type # "AUDIO_IN"
    <3>1. CASE PeerFate BY <3>1 DEF PeerFate
    <3>2. CASE PeerHello \/ PeerOpen \/ PeerEnd BY <3>2 DEF PeerHello, PeerOpen, PeerEnd, Put
    <3>3. CASE PeerConfig BY <3>3 DEF PeerConfig, Put
    <3>4. CASE PeerHeartbeat BY <3>4 DEF PeerHeartbeat, Put
    <3> QED BY <1>5, <3>1, <3>2, <3>3, <3>4 DEF Peer
  <2> QED BY <1>2, <1>3, <2>1
<1>6. CASE Serve \/ ServeRecvFails \/ Infer \/ UNCHANGED vars
  <2>1. sent' = sent
    BY <1>6 DEF Serve, RecvHello, RecvSessionOpen, HandshakeFails, ServeHeartbeat, ServeConfigUpdate,
         ServeAudioAccept, ServeAudioSkip, ServeEnd, ServeRecvFails, ServeFinally,
         ServeTakeSendLock, ServeSent, ServeSendFails, netVars, vars,
         Infer, InferGet, InferProcess, InferRaises, InferTakeSendLock, InferSent, InferSendFails, InferRelease
  <2> QED BY <1>2, <2>1
<1> QED BY <1>4, <1>5, <1>6 DEF Next

\* Every block has one of the numbers of the service.
LEMMA NumberOfBlock ==
  ASSUME SInv, NumbersWithin, NEW i \in Audio(sent)
  PROVE  sent[i].seq \in 1..MaxAudio
<1>1. sent[i].seq \in 1..CountOf(sent, "AUDIO_IN") BY DEF SInv, Numbered
<1> QED BY <1>1, MaxAudioAssumption DEF NumbersWithin

\* What the abstract service does, of what the session offers, holds and converts.
Takes(n) ==
  /\ (\A m \in OfferedNumbers : m < n) /\ OfferedNumbers' = OfferedNumbers \cup {n}
  /\ ConvertedPairs' = ConvertedPairs /\ config' = config /\ Ending' = Ending
  /\ \/ Len(Holding) < MaxInFlight /\ Holding' = Append(Holding, <<n, config>>)
     \/ Len(Holding) >= MaxInFlight - 1 /\ Holding' = Holding
Updates == /\ config' \in ConfigValues
           /\ OfferedNumbers' = OfferedNumbers /\ Holding' = Holding /\ ConvertedPairs' = ConvertedPairs
           /\ Ending' = Ending
Converts ==
  /\ ~Ending /\ ~Ending' /\ Holding # <<>>
  /\ ConvertedPairs' = ConvertedPairs \cup {Head(Holding)} /\ Holding' = Tail(Holding)
  /\ OfferedNumbers' = OfferedNumbers /\ config' = config
Stops ==
  /\ ~Ending /\ Ending' /\ Holding' = IF Holding = <<>> THEN Holding ELSE Tail(Holding)
  /\ OfferedNumbers' = OfferedNumbers /\ ConvertedPairs' = ConvertedPairs /\ config' = config
ServiceStep == Stands \/ (\E n \in 1..MaxAudio : Takes(n)) \/ Updates \/ Converts \/ Stops

\* Steps of the peer are none of the service.
LEMMA PeerStands == ASSUME SInv, SInv', Peer PROVE Stands
<1>1. IInv /\ IInv' /\ TypeOK /\ Numbered /\ Epochs BY DEF SInv, IInv
<1>2. /\ UNCHANGED <<rcvd, s2c, serve, infer, requests, item, config>>
      /\ sent' = sent \/ \E f : sent' = Append(sent, f)
  BY <1>1, PeerFrames DEF serviceVars
<1>3. SameFrames
  <2>1. \A n \in DOMAIN sent : sent'[n] = sent[n] /\ ConfigBefore(n)' = ConfigBefore(n)
    BY <1>1, <1>2, PastKept
  <2>2. 1..rcvd \subseteq DOMAIN sent BY <1>1 DEF TypeOK
  <2>3. Accepted' = Accepted BY <1>2, <2>1, <2>2 DEF Accepted
  <2> QED BY <2>1, <2>2, <2>3 DEF SameFrames, Accepted
<1>4. SameAnswers BY <1>2 DEF SameAnswers, Answers, Outs
<1>5. Holding' = Holding BY <1>1, <1>2, RowStays DEF Held, Unsent
<1>6. Ending' = Ending BY <1>2 DEF Ending
<1> QED BY <1>2, <1>3, <1>4, <1>5, <1>6, OfferedStays, ConvertedStays DEF Stands
\* serve_client.
LEMMA ServeSteps ==
  ASSUME SInv, SInv', NumbersWithin, Serve \/ ServeRecvFails
  PROVE  ServiceStep
<1>1. IInv /\ IInv' /\ TypeOK /\ Replies BY DEF SInv, IInv
<1>2. sent' = sent
  BY DEF Serve, RecvHello, RecvSessionOpen, HandshakeFails, ServeHeartbeat, ServeConfigUpdate,
         ServeAudioAccept, ServeAudioSkip, ServeEnd, ServeRecvFails, ServeFinally,
         ServeTakeSendLock, ServeSent, ServeSendFails, netVars
<1>3. ASSUME SameFrames, requests' = requests, Held' = Held, infer' = infer, item' = item,
             ConvertedPairs' = ConvertedPairs, config' = config
      PROVE  Stands
  <2>1. Holding' = Holding BY <1>1, <1>3, RowStays DEF Unsent
  <2> QED BY <1>3, <2>1, OfferedStays DEF Stands, Ending
<1>4. ASSUME s2c' = s2c PROVE ConvertedPairs' = ConvertedPairs
  BY <1>4 DEF ConvertedPairs, Outs, Pair
<1>5. CASE RecvHello \/ RecvSessionOpen
  <2>1. PICK f \in {"HELLO", "SESSION_OPEN"}, g \in {"HELLO_ACK", "SESSION_ACCEPT"} :
          /\ HasFrame /\ NextFrame.type = f /\ rcvd' = rcvd + 1
          /\ s2c' = Append(s2c, [type |-> g])
    BY <1>5 DEF RecvHello, RecvSessionOpen, Handshake
  <2>2. ConvertedPairs' = ConvertedPairs
    <3>1. SameAnswers BY <1>1, <2>1, AnswersSame
    <3> QED BY <3>1, ConvertedStays
  <2>3. SameFrames BY <1>1, <1>2, <2>1, AcceptedSame
  <2>4. /\ UNCHANGED <<config, requests, item>> /\ serve \in {"hello", "open"} /\ serve' \in {"open", "recv"}
        /\ infer' = infer \/ (infer = "off" /\ infer' = "get")
    BY <1>1, <1>5 DEF RecvHello, RecvSessionOpen, Handshake, inferVars, configVars, IInv, InHand
  <2>5. Unsent' = Unsent /\ Ending' = Ending /\ Held' = Held BY <2>4 DEF Unsent, Ending, Held
  <2>6. Holding' = Holding BY <1>1, <2>4, <2>5, RowStays
  <2> QED BY <2>2, <2>3, <2>4, <2>5, <2>6, OfferedStays DEF Stands, ServiceStep
<1>6. CASE HandshakeFails \/ ServeRecvFails \/ ServeTakeSendLock \/ ServeHeartbeat \/ ServeEnd
  <2>1. /\ UNCHANGED <<config, s2c, requests, infer, item>> /\ serve # "closed"
        /\ rcvd' = rcvd \/ (rcvd' = rcvd + 1 /\ HasFrame /\ NextFrame.type # "AUDIO_IN")
    BY <1>6 DEF HandshakeFails, ServeRecvFails, ServeTakeSendLock, ServeHeartbeat, ServeEnd, Reading,
                configVars, inferVars
  <2>2. serve' = "closed" => requests = <<>>
    BY <1>1, <1>6 DEF HandshakeFails, ServeRecvFails, ServeTakeSendLock, ServeHeartbeat, ServeEnd, Reading, Reply,
                IInv, InHand
  <2>3. Held' = Held BY <2>1, <2>2 DEF Held
  <2>4. SameFrames BY <1>1, <1>2, <2>1, AcceptedSame
  <2>5. ConvertedPairs' = ConvertedPairs BY <1>4, <2>1
  <2> QED BY <1>3, <2>1, <2>3, <2>4, <2>5 DEF ServiceStep
<1>7. CASE ServeConfigUpdate
  <2>1. /\ HasFrame /\ NextFrame.type = "CONFIG_UPDATE" /\ rcvd' = rcvd + 1
        /\ serve = "recv" /\ serve' = "send" /\ UNCHANGED <<s2c, requests, infer, item>>
        /\ config' = config \/ (config' = NextFrame.value /\ ApplyStatus(NextFrame) = 0)
    BY <1>7 DEF ServeConfigUpdate, Reading, Reply, inferVars
  <2>2. Held' = Held /\ Unsent' = Unsent /\ Ending' = Ending BY <2>1 DEF Held, Unsent, Ending
  <2>3. SameFrames BY <1>1, <1>2, <2>1, AcceptedSame
  <2>4. ConvertedPairs' = ConvertedPairs BY <1>4, <2>1
  <2>5. Holding' = Holding BY <1>1, <2>1, <2>2, RowStays
  <2>6. config' = config \/ config' \in ConfigValues BY <2>1 DEF ApplyStatus
  <2> QED BY <2>2, <2>3, <2>4, <2>5, <2>6, OfferedStays DEF Stands, Updates, ServiceStep
<1>8. CASE ServeAudioAccept \/ ServeAudioSkip
  <2>1. Reading("AUDIO_IN") /\ UNCHANGED <<s2c, infer, item, config>>
    BY <1>8 DEF ServeAudioAccept, ServeAudioSkip, inferVars, configVars
  <2>2. /\ OfferedNumbers' = OfferedNumbers \cup {NextFrame.seq}
        /\ \A m \in OfferedNumbers : m < NextFrame.seq
        /\ NextFrame \in {sent[i] : i \in Audio(sent)}
    BY <1>2, <2>1, BlockOffered
  <2>3. NextFrame.seq \in 1..MaxAudio BY <2>2, NumberOfBlock
  <2>4. ConvertedPairs' = ConvertedPairs /\ Ending' = Ending BY <2>1 DEF ConvertedPairs, Outs, Pair, Ending
  <2>5. \/ Len(Holding) < MaxInFlight /\ Holding' = Append(Holding, <<NextFrame.seq, config>>)
        \/ Len(Holding) >= MaxInFlight - 1 /\ Holding' = Holding
    BY <1>1, <1>8, AcceptIsAccept, SkipIsRefuse
  <2>6. Takes(NextFrame.seq) BY <2>1, <2>2, <2>4, <2>5 DEF Takes
  <2> QED BY <2>3, <2>6 DEF ServiceStep
<1>9. CASE ServeFinally
  <2>1. /\ serve = "finally" /\ serve' = "closed" /\ requests' = Append(requests, NoItem)
        /\ UNCHANGED <<config, rcvd, s2c, infer, item>>
    BY <1>9 DEF ServeFinally, configVars, inferVars
  <2>2. /\ Len(requests) \in Nat /\ Len(requests') = Len(requests) + 1 /\ requests' # <<>>
        /\ \A i \in 1..Len(requests) : requests'[i] = requests[i]
    <3>1. requests \in Seq(Item \cup {NoItem}) BY <1>1 DEF TypeOK
    <3> QED BY <2>1, <3>1, AppendFacts
  <2>3. Held' = Held /\ Held = Len(requests) BY <2>1, <2>2 DEF Held
  <2>4. Holding' = Holding
    <3>1. Holding = Row /\ Size \in Nat /\ Holding' = Row' BY <1>1, HoldingIsRow, HoldingIsRowNext
    <3>2. Front' = Front /\ Size' = Size /\ Front \in Nat BY <2>1, <2>3 DEF Front, Size, Unsent
    <3>3. ASSUME NEW i \in 1..Size, ~(i <= Front) PROVE requests'[i - Front] = requests[i - Front]
      <4>1. i - Front \in 1..Len(requests) BY <2>2, <2>3, <3>1, <3>2, <3>3 DEF Size
      <4> QED BY <2>2, <4>1
    <3> QED BY <2>1, <3>1, <3>2, <3>3 DEF Row, Pair
  <2>5. SameFrames BY <1>1, <1>2, <2>1, AcceptedSame
  <2>6. ConvertedPairs' = ConvertedPairs /\ Ending' = Ending BY <2>1 DEF ConvertedPairs, Outs, Pair, Ending
  <2> QED BY <2>1, <2>4, <2>5, <2>6, OfferedStays DEF Stands, ServiceStep
<1>10. CASE ServeSent \/ ServeSendFails
  <2>1. /\ serve = "send" /\ serve' \in {"recv", "finally"}
        /\ UNCHANGED <<config, rcvd, requests, infer, item>>
    BY <1>10 DEF ServeSent, ServeSendFails, configVars, inferVars
  <2>2. Held' = Held BY <2>1 DEF Held
  <2>3. SameFrames BY <1>1, <1>2, <2>1, AcceptedSame
  <2>4. ConvertedPairs' = ConvertedPairs
    <3>1. CASE ServeSent
      <4>1. s2c' = Append(s2c, reply) /\ reply.type # "AUDIO_OUT" BY <1>1, <3>1 DEF ServeSent, Sends, Replies
      <4> QED BY <1>1, <4>1, WrittenPairs
    <3>2. CASE ServeSendFails
      <4>1. SameAnswers BY <1>1, <3>2, FailedAnswer DEF ServeSendFails
      <4> QED BY <4>1, ConvertedStays
    <3> QED BY <1>10, <3>1, <3>2
  <2> QED BY <1>3, <2>1, <2>2, <2>3, <2>4 DEF ServiceStep
<1> QED BY <1>5, <1>6, <1>7, <1>8, <1>9, <1>10 DEF Serve
\* _run_inference.
LEMMA InferSteps == ASSUME SInv, SInv', Infer PROVE ServiceStep
<1>1. IInv /\ IInv' /\ TypeOK BY DEF SInv, IInv
<1>2. UNCHANGED <<sent, rcvd, config, serve>>
  BY DEF Infer, InferGet, InferProcess, InferRaises, InferTakeSendLock, InferSent,
         InferSendFails, InferRelease, netVars, configVars
<1>3. OfferedNumbers' = OfferedNumbers
  <2>1. SameFrames BY <1>1, <1>2, AcceptedSame
  <2> QED BY <2>1, OfferedStays
<1>4. ASSUME s2c' = s2c PROVE ConvertedPairs' = ConvertedPairs BY <1>4 DEF ConvertedPairs, Outs, Pair
<1>5. ASSUME requests' = requests PROVE Held' = Held BY <1>2, <1>5 DEF Held
<1>6. CASE InferGet
  <2>1. infer = "get" /\ s2c' = s2c BY <1>6 DEF InferGet
  <2>2. Holding' = Holding /\ (Ending' => Holding = <<>>) BY <1>1, <1>6, GetHolds
  <2>3. ConvertedPairs' = ConvertedPairs /\ config' = config BY <1>2, <1>4, <2>1
  <2>4. CASE infer' = "exit"
    <3>1. ~Ending /\ Ending' BY <2>1, <2>4 DEF Ending
    <3> QED BY <1>3, <2>2, <2>3, <3>1 DEF Stops, ServiceStep
  <2>5. CASE infer' = "process"
    <3>1. Ending' = Ending BY <2>1, <2>5 DEF Ending
    <3> QED BY <1>3, <2>2, <2>3, <3>1 DEF Stands, ServiceStep
  <2> QED BY <1>6, <2>4, <2>5 DEF InferGet
<1>7. CASE InferProcess \/ InferTakeSendLock
  <2>1. /\ UNCHANGED <<requests, item, s2c>>
        /\ infer \in {"process", "send"} /\ infer' = "send"
    BY <1>7 DEF InferProcess, InferTakeSendLock, inferVars
  <2>2. Unsent' = Unsent /\ Ending' = Ending BY <2>1 DEF Unsent, Ending
  <2>3. Holding' = Holding BY <1>1, <1>5, <2>1, <2>2, RowStays
  <2> QED BY <1>2, <1>3, <1>4, <2>1, <2>2, <2>3 DEF Stands, ServiceStep
<1>8. CASE InferSent
  <2>1. /\ infer = "send" /\ infer' = "release" /\ requests' = requests
        /\ s2c' = Append(s2c, [type |-> "AUDIO_OUT", seq |-> item.seq, config |-> item.config,
                               epoch |-> item.epoch, memory |-> memory])
    BY <1>8 DEF InferSent, Sends
  <2> DEFINE g == [type |-> "AUDIO_OUT", seq |-> item.seq, config |-> item.config,
                   epoch |-> item.epoch, memory |-> memory]
  <2>2. g.type = "AUDIO_OUT" /\ Pair(g) = Pair(item) BY DEF Pair
  <2>3. s2c' = Append(s2c, g) BY <2>1
  <2> HIDE DEF g
  <2>4. ConvertedPairs' = ConvertedPairs \cup {Pair(item)} BY <1>1, <2>2, <2>3, WrittenPairs
  <2>5. Unsent /\ ~Unsent' /\ ~Ending /\ ~Ending' BY <2>1 DEF Unsent, Ending
  <2>6. Holding # <<>> /\ Head(Holding) = Pair(item) /\ Holding' = Tail(Holding)
    BY <1>1, <1>2, <2>1, <2>5, HandIsHead
  <2> QED BY <1>2, <1>3, <2>4, <2>5, <2>6 DEF Converts, ServiceStep
<1>9. CASE InferRaises \/ InferSendFails
  <2>1. infer \in {"process", "send"} /\ infer' = "dying" /\ requests' = requests
    BY <1>9 DEF InferRaises, InferSendFails
  <2>2. ConvertedPairs' = ConvertedPairs
    <3>1. CASE InferRaises BY <1>4, <3>1 DEF InferRaises
    <3>2. CASE InferSendFails
      <4>1. SameAnswers BY <1>1, <3>2, FailedAnswer DEF InferSendFails
      <4> QED BY <4>1, ConvertedStays
    <3> QED BY <1>9, <3>1, <3>2
  <2>3. Unsent /\ ~Unsent' /\ ~Ending /\ Ending' BY <2>1 DEF Unsent, Ending
  <2>4. Holding # <<>> /\ Holding' = Tail(Holding) BY <1>1, <1>2, <2>1, <2>3, HandIsHead
  <2> QED BY <1>2, <1>3, <2>2, <2>3, <2>4 DEF Stops, ServiceStep
<1>10. CASE InferRelease
  <2>1. /\ requests' = requests /\ s2c' = s2c
        /\ \/ infer = "release" /\ infer' = "get"
           \/ infer = "dying" /\ infer' = "exit"
    BY <1>10 DEF InferRelease
  <2>2. ~Unsent /\ Unsent' = Unsent /\ Ending' = Ending BY <2>1 DEF Unsent, Ending
  <2>3. Holding' = Holding BY <1>1, <1>5, <2>1, <2>2, RowStays
  <2> QED BY <1>2, <1>3, <1>4, <2>1, <2>2, <2>3 DEF Stands, ServiceStep
<1> QED BY <1>6, <1>7, <1>8, <1>9, <1>10 DEF Infer

\* The queue, the semaphore, the two threads and their socket are a service
\* that holds MaxInFlight blocks at most, refuses none without need, converts
\* them in order with the configuration of their receipt, and loses no block but
\* the one at which it stops, whatever the peer sends and the engine raises.
THEOREM ImplementsService == Spec => ConvertsInOrder
<1> USE DEF Service!serviceVars
<1>1. Init => Service!ServiceInit /\ NumbersWithin
  <2> SUFFICES ASSUME Init PROVE Service!ServiceInit /\ NumbersWithin OBVIOUS
  <2>1. /\ sent = <<>> /\ rcvd = 0 /\ s2c = <<>> /\ requests = <<>> /\ infer = "off" /\ serve = "hello"
        /\ config = DefaultConfig
    BY DEF Init
  <2>2. Accepted = {} /\ DOMAIN s2c = {} /\ DOMAIN sent = {} BY <2>1 DEF Accepted
  <2>3. Holding = <<>>
    <3>1. IInv BY InitIInv
    <3>2. Size = 0 BY <2>1 DEF Size, Front, Held, Unsent
    <3>3. Row = [i \in 1..0 |-> Row[i]] BY <3>2 DEF Row
    <3> QED BY <3>1, <3>3, HoldingIsRow, RowFacts
  <2>4. NumbersWithin
    <3>1. CountOf(sent, "AUDIO_IN") = 0
      <4>1. {i \in DOMAIN sent : sent[i].type = "AUDIO_IN"} = {} BY <2>2
      <4> QED BY <4>1, FS_EmptySet DEF CountOf
    <3> QED BY <3>1, MaxAudioAssumption DEF NumbersWithin
  <2> QED BY <2>1, <2>2, <2>3, <2>4 DEF Service!ServiceInit
<1>2. SInv /\ SInv' /\ NumbersWithin /\ [Next]_vars => [Service!ServiceNext]_(Service!serviceVars)
  <2> SUFFICES ASSUME SInv, SInv', NumbersWithin, [Next]_vars
               PROVE  Service!ServiceNext \/ UNCHANGED Service!serviceVars
    OBVIOUS
  <2>1. ServiceStep
    <3>1. CASE Next BY <3>1, PeerStands, ServeSteps, InferSteps DEF Next, ServiceStep
    <3>2. CASE UNCHANGED vars
      <4>1. UNCHANGED <<sent, rcvd, s2c, infer, requests, item, config>> BY <3>2 DEF vars
      <4> QED BY <4>1 DEF ServiceStep, Stands, OfferedNumbers, ConvertedPairs, Outs, Pair, Accepted,
                          Holding, Converting, Ending
    <3> QED BY <3>1, <3>2
  <2>2. /\ OfferedNumbers = {sent[i].seq : i \in Accepted}
        /\ ConvertedPairs = {<<s2c[o].seq, s2c[o].config>> : o \in {k \in DOMAIN s2c : s2c[k].type = "AUDIO_OUT"}}
        /\ Ending <=> ~(infer \notin {"dying", "exit"})
    BY DEF OfferedNumbers, ConvertedPairs, Outs, Pair, Ending
  <2> QED BY <2>1, <2>2 DEF ServiceStep, Stands, Takes, Updates, Converts, Stops,
         OfferedNumbers, ConvertedPairs, Outs, Pair, Ending,
         Service!ServiceNext, Service!Accept, Service!Refuse, Service!Offer, Service!Change,
         Service!Convert, Service!Stop
<1>3. Spec => []SInv /\ []NumbersWithin
  <2>1. TypeOK /\ NumbersWithin /\ [Next]_vars => NumbersWithin' BY WithinKept
  <2>2. SInv => TypeOK BY DEF SInv, IInv
  <2> QED BY <1>1, <2>1, <2>2, OrderHolds, PTL DEF Spec
<1> QED BY <1>1, <1>2, <1>3, PTL DEF Spec, ConvertsInOrder, Service!ServiceSpec
=============================================================================
