---------------------------- MODULE RsvcSession ----------------------------
(***************************************************************************)
(* One RSVC session of rvc_runtime_service.py: the serve_client thread that *)
(* reads the socket, the _run_inference thread that owns the engine, the    *)
(* bounded queue and the semaphore between them, the per-session            *)
(* SessionConfigState and the send lock both threads share.                 *)
(*                                                                         *)
(* The peer's frames are the sequence sent, of which serve_client has read  *)
(* the first rcvd; what serve_client and _run_inference wrote is s2c.  Both *)
(* are kept whole, so that the properties can compare them.                 *)
(***************************************************************************)
EXTENDS Integers, Sequences, FiniteSets

CONSTANTS
  MaxInFlight,   \* MAX_IN_FLIGHT, the size of the queue and of the semaphore
  ConfigValues,  \* valid CONFIG_UPDATE payloads
  DefaultConfig, \* SessionConfig()
  InvalidConfig, \* a payload that apply() answers with status 1
  NoItem,        \* the None that ends _run_inference, and "nothing"
  Window,        \* blocks the peer leaves unanswered before it waits
  EngineRaises,  \* can engine.process raise?
  MaxAudio,      \* bound: AUDIO_IN frames the peer sends
  MaxConfigs,    \* bound: CONFIG_UPDATE frames the peer sends
  MaxBeats,      \* bound: HEARTBEAT frames the peer sends
  MaxPayloads    \* bound: AUDIO_IN and CONFIG_UPDATE frames together

ASSUME MaxInFlightAssumption == MaxInFlight \in Nat \ {0}
ASSUME MaxAudioAssumption == MaxAudio \in Nat
ASSUME NoItemAssumption == NoItem \notin [seq : Nat, disc : BOOLEAN, epoch : Nat,
                                          config : ConfigValues \cup {DefaultConfig}]

VARIABLES
  peer,        \* "open", "stalled" (stops reading) or "gone"
  sent,        \* every frame the peer has sent
  rcvd,        \* how many of them serve_client has read
  s2c,         \* every frame written to the peer
  serve,       \* where serve_client is
  reply,       \* the frame serve_client is sending
  infer,       \* where _run_inference is
  requests,    \* queue.Queue(maxsize=MAX_IN_FLIGHT)
  item,        \* the request _run_inference works on
  slots,       \* value of BoundedSemaphore(MAX_IN_FLIGHT)
  sendLock,    \* holder of send_lock, "free" when there is none
  config,      \* SessionConfigState._config
  lastSequence,\* SessionConfigState._last_sequence
  memory       \* the stream whose samples the engine's buffers hold

vars == <<peer, sent, rcvd, s2c, serve, reply, infer, requests, item, slots,
          sendLock, config, lastSequence, memory>>
netVars == <<peer, sent>>
configVars == <<config, lastSequence>>
inferVars == <<infer, item, memory>>

Configs == ConfigValues \cup {DefaultConfig}
Item == [seq : Nat, disc : BOOLEAN, epoch : Nat, config : Configs]

PeerFrame == [type : {"HELLO", "SESSION_OPEN", "CLOSE", "BAD"}]
               \cup [type : {"HEARTBEAT"}, seq : Nat]
               \cup [type : {"CONFIG_UPDATE"}, seq : Nat, value : ConfigValues \cup {InvalidConfig}]
               \cup [type : {"AUDIO_IN"}, seq : Nat, disc : BOOLEAN, epoch : Nat]

ServiceFrame == [type : {"HELLO_ACK", "SESSION_ACCEPT", "CUT"}]
                  \cup [type : {"HEARTBEAT_ACK", "AUDIO_SKIP"}, seq : Nat]
                  \cup [type : {"CONFIG_ACK"}, seq : Nat, status : 0..2]
                  \cup [type : {"AUDIO_OUT"}, seq : Nat, config : Configs, epoch : Nat, memory : Nat]

\* A truncated frame: sendall gave up after part of the bytes.
Cut == [type |-> "CUT"]

ServePhases == {"hello", "open", "recv", "send", "finally", "closed"}
InferPhases == {"off", "get", "process", "send", "release", "dying", "exit"}

----------------------------------------------------------------------------
(* The peer.  It follows the handshake, numbers its AUDIO_IN frames, and    *)
(* starts a new stream epoch with AUDIO_FLAG_DISCONTINUOUS.                 *)

Audio(s) == {i \in DOMAIN s : s[i].type = "AUDIO_IN"}
CountOf(s, type) == Cardinality({i \in DOMAIN s : s[i].type = type})
Answers == {i \in DOMAIN s2c : s2c[i].type \in {"AUDIO_OUT", "AUDIO_SKIP"}}
Payloads == CountOf(sent, "AUDIO_IN") + CountOf(sent, "CONFIG_UPDATE")
Unanswered == Cardinality(Audio(sent)) - Cardinality(Answers)
LastEpoch == Cardinality({i \in Audio(sent) : sent[i].disc})

Put(frame) == /\ peer # "gone"
              /\ sent' = Append(sent, frame)
              /\ UNCHANGED <<peer, rcvd, s2c, serve, reply, infer, requests, item,
                             slots, sendLock, config, lastSequence, memory>>

Established == s2c # <<>> /\ s2c[Len(s2c)].type # "HELLO_ACK"
Closing == \E i \in DOMAIN sent : sent[i].type \in {"CLOSE", "BAD"}

PeerHello == sent = <<>> /\ Put([type |-> "HELLO"])

PeerOpen == /\ s2c # <<>> /\ Len(sent) = 1
            /\ Put([type |-> "SESSION_OPEN"])

PeerAudio ==
  /\ Established /\ ~Closing
  /\ CountOf(sent, "AUDIO_IN") < MaxAudio /\ Payloads < MaxPayloads
  /\ Unanswered < Window
  /\ \E disc \in BOOLEAN :
       Put([type |-> "AUDIO_IN", seq |-> CountOf(sent, "AUDIO_IN") + 1, disc |-> disc,
            epoch |-> IF disc THEN LastEpoch + 1 ELSE LastEpoch])

PeerConfig ==
  /\ Established /\ ~Closing
  /\ CountOf(sent, "CONFIG_UPDATE") < MaxConfigs /\ Payloads < MaxPayloads
  /\ \E seq \in 0..MaxConfigs, value \in ConfigValues \cup {InvalidConfig} :
       Put([type |-> "CONFIG_UPDATE", seq |-> seq, value |-> value])

PeerHeartbeat ==
  /\ Established /\ ~Closing
  /\ CountOf(sent, "HEARTBEAT") < MaxBeats
  /\ Put([type |-> "HEARTBEAT", seq |-> CountOf(sent, "HEARTBEAT") + 1])

\* BAD stands for every frame the service answers with ValueError: another
\* session id, an unsupported type, an audio shape that was not negotiated.
PeerEnd == /\ ~Closing
           /\ \E type \in {"CLOSE", "BAD"} : Put([type |-> type])

PeerFate == /\ \/ peer = "open" /\ peer' \in {"stalled", "gone"}
               \/ peer = "stalled" /\ peer' \in {"open", "gone"}
            /\ UNCHANGED <<sent, rcvd, s2c, serve, reply, infer, requests, item,
                           slots, sendLock, config, lastSequence, memory>>

Peer == PeerHello \/ PeerOpen \/ PeerAudio \/ PeerConfig \/ PeerHeartbeat \/ PeerEnd \/ PeerFate

----------------------------------------------------------------------------
(* The handshake of serve_client, before the inference thread exists.  An   *)
(* exception here ends the thread and closes the socket.                    *)

HasFrame == rcvd < Len(sent)
NextFrame == sent[rcvd + 1]

Handshake(phase, type, answer) ==
  /\ serve = phase
  /\ HasFrame /\ NextFrame.type = type
  /\ rcvd' = rcvd + 1
  /\ s2c' = Append(s2c, [type |-> answer])

RecvHello ==
  /\ Handshake("hello", "HELLO", "HELLO_ACK")
  /\ serve' = "open"
  /\ UNCHANGED <<netVars, configVars, inferVars, reply, requests, slots, sendLock>>

RecvSessionOpen ==
  /\ Handshake("open", "SESSION_OPEN", "SESSION_ACCEPT")
  /\ serve' = "recv"
  /\ infer' = "get"
  /\ UNCHANGED <<netVars, configVars, reply, requests, item, memory, slots, sendLock>>

\* A frame out of order, an engine that cannot be created or does not match,
\* a lost peer, or five seconds without a frame.
HandshakeFails ==
  /\ serve \in {"hello", "open"}
  /\ serve' = "closed"
  /\ UNCHANGED <<netVars, configVars, inferVars, rcvd, s2c, reply, requests, slots, sendLock>>

----------------------------------------------------------------------------
(* The read loop of serve_client.                                           *)

Reading(type) == /\ serve = "recv"
                 /\ HasFrame /\ NextFrame.type = type
                 /\ rcvd' = rcvd + 1

Reply(frame) == /\ serve' = "send"
                /\ reply' = frame

\* Mutant: the read loop waits for the engine before it answers.
ServeHeartbeatAfterEngine ==
  /\ Reading("HEARTBEAT") /\ infer # "process"
  /\ Reply([type |-> "HEARTBEAT_ACK", seq |-> NextFrame.seq])
  /\ UNCHANGED <<netVars, configVars, inferVars, s2c, requests, slots, sendLock>>

ServeHeartbeat ==
  /\ Reading("HEARTBEAT")
  /\ Reply([type |-> "HEARTBEAT_ACK", seq |-> NextFrame.seq])
  /\ UNCHANGED <<netVars, configVars, inferVars, s2c, requests, slots, sendLock>>

\* SessionConfigState.apply: 1 for a bad payload, 2 for a stale sequence.
ApplyStatus(frame) ==
  IF frame.value \notin ConfigValues THEN 1
  ELSE IF frame.seq = 0 \/ frame.seq <= lastSequence THEN 2 ELSE 0

ServeConfigUpdate ==
  /\ Reading("CONFIG_UPDATE")
  /\ LET status == ApplyStatus(NextFrame)
     IN  /\ Reply([type |-> "CONFIG_ACK", seq |-> NextFrame.seq, status |-> status])
         /\ config' = IF status = 0 THEN NextFrame.value ELSE config
         /\ lastSequence' = IF status = 0 THEN NextFrame.seq ELSE lastSequence
  /\ UNCHANGED <<netVars, inferVars, s2c, requests, slots, sendLock>>

\* Mutant: the semaphore is looked at and not acquired.
ServeAudioUncounted ==
  /\ Reading("AUDIO_IN")
  /\ slots > 0
  /\ requests' = Append(requests, [seq |-> NextFrame.seq, disc |-> NextFrame.disc,
                                   epoch |-> NextFrame.epoch, config |-> config])
  /\ UNCHANGED <<netVars, configVars, inferVars, s2c, serve, reply, slots, sendLock>>

\* slots.acquire(blocking=False) succeeds: the block is queued together with
\* the configuration in force when it was read.
ServeAudioAccept ==
  /\ Reading("AUDIO_IN")
  /\ slots > 0
  /\ slots' = slots - 1
  /\ requests' = Append(requests, [seq |-> NextFrame.seq, disc |-> NextFrame.disc,
                                   epoch |-> NextFrame.epoch, config |-> config])
  /\ UNCHANGED <<netVars, configVars, inferVars, s2c, serve, reply, sendLock>>

\* Mutant: a block beyond the limit is dropped without AUDIO_SKIP.
ServeAudioDrop ==
  /\ Reading("AUDIO_IN")
  /\ slots = 0
  /\ UNCHANGED <<netVars, configVars, inferVars, s2c, serve, reply, requests, slots, sendLock>>

ServeAudioSkip ==
  /\ Reading("AUDIO_IN")
  /\ slots = 0
  /\ Reply([type |-> "AUDIO_SKIP", seq |-> NextFrame.seq])
  /\ UNCHANGED <<netVars, configVars, inferVars, s2c, requests, slots, sendLock>>

\* CLOSE returns and a bad frame raises ValueError; both run the finally.
ServeEnd ==
  /\ Reading("CLOSE") \/ Reading("BAD")
  /\ serve' = "finally"
  /\ UNCHANGED <<netVars, configVars, inferVars, s2c, reply, requests, slots, sendLock>>

\* recv finds the peer gone, or five seconds pass without a frame.
ServeRecvFails ==
  /\ serve = "recv"
  /\ ~HasFrame
  /\ serve' = "finally"
  /\ UNCHANGED <<netVars, configVars, inferVars, rcvd, s2c, reply, requests, slots, sendLock>>

\* Mutant: the finally that ends the inference thread is missing.
ServeFinallyForgetsNone ==
  /\ serve = "finally"
  /\ serve' = "closed"
  /\ UNCHANGED <<netVars, configVars, inferVars, rcvd, s2c, reply, requests, slots, sendLock>>

\* finally: requests.put(None), which waits while the queue is full; then
\* _serve_and_close closes the socket.
ServeFinally ==
  /\ serve = "finally"
  /\ Len(requests) < MaxInFlight
  /\ requests' = Append(requests, NoItem)
  /\ serve' = "closed"
  /\ UNCHANGED <<netVars, configVars, inferVars, rcvd, s2c, reply, slots, sendLock>>

----------------------------------------------------------------------------
(* send_frame: with send_lock: sock.sendall(packed).  A sendall to a peer   *)
(* that stopped reading times out, perhaps after part of the frame; to a    *)
(* closed or reset socket it raises at once.                                *)

TakeSendLock(thread) == /\ sendLock = "free"
                        /\ sendLock' = thread

Sends(frame) == /\ serve # "closed"
                /\ s2c' = Append(s2c, frame)

SendFails == \/ peer # "open" /\ serve # "closed" /\ s2c' \in {s2c, Append(s2c, Cut)}
             \/ serve = "closed" /\ s2c' = s2c

ServeTakeSendLock ==
  /\ serve = "send"
  /\ TakeSendLock("serve")
  /\ UNCHANGED <<netVars, configVars, inferVars, rcvd, s2c, serve, reply, requests, slots>>

ServeSent ==
  /\ serve = "send" /\ sendLock = "serve"
  /\ Sends(reply)
  /\ sendLock' = "free"
  /\ serve' = "recv"
  /\ reply' = NoItem
  /\ UNCHANGED <<netVars, configVars, inferVars, rcvd, requests, slots>>

ServeSendFails ==
  /\ serve = "send" /\ sendLock = "serve"
  /\ SendFails
  /\ sendLock' = "free"
  /\ serve' = "finally"
  /\ reply' = NoItem
  /\ UNCHANGED <<netVars, configVars, inferVars, rcvd, requests, slots>>

----------------------------------------------------------------------------
(* _run_inference.                                                          *)

\* Mutant: the queue is a stack.
InferGetNewest ==
  /\ infer = "get"
  /\ requests # <<>>
  /\ requests' = SubSeq(requests, 1, Len(requests) - 1)
  /\ IF requests[Len(requests)] = NoItem
     THEN infer' = "exit" /\ UNCHANGED item
     ELSE infer' = "process" /\ item' = requests[Len(requests)]
  /\ UNCHANGED <<netVars, configVars, memory, rcvd, s2c, serve, reply, slots, sendLock>>

InferGet ==
  /\ infer = "get"
  /\ requests # <<>>
  /\ requests' = Tail(requests)
  /\ IF Head(requests) = NoItem
     THEN infer' = "exit" /\ UNCHANGED item
     ELSE infer' = "process" /\ item' = Head(requests)
  /\ UNCHANGED <<netVars, configVars, memory, rcvd, s2c, serve, reply, slots, sendLock>>

\* Mutant: the flag does not reach reset_stream_state.
InferProcessWithoutReset ==
  /\ infer = "process"
  /\ infer' = "send"
  /\ UNCHANGED <<netVars, configVars, item, memory, rcvd, s2c, serve, reply, requests, slots, sendLock>>

\* reset_stream_state when the block is flagged, then engine.process.
InferProcess ==
  /\ infer = "process"
  /\ memory' = IF item.disc THEN item.epoch ELSE memory
  /\ infer' = "send"
  /\ UNCHANGED <<netVars, configVars, item, rcvd, s2c, serve, reply, requests, slots, sendLock>>

\* engine.process raises: the finally releases the slot, the thread ends.
InferRaises ==
  /\ EngineRaises
  /\ infer = "process"
  /\ memory' = IF item.disc THEN item.epoch ELSE memory
  /\ infer' = "dying"
  /\ UNCHANGED <<netVars, configVars, item, rcvd, s2c, serve, reply, requests, slots, sendLock>>

InferTakeSendLock ==
  /\ infer = "send"
  /\ TakeSendLock("infer")
  /\ UNCHANGED <<netVars, configVars, inferVars, rcvd, s2c, serve, reply, requests, slots>>

\* Mutant: the configuration is read when the block is converted.
InferSentWithLatestConfig ==
  /\ infer = "send" /\ sendLock = "infer"
  /\ Sends([type |-> "AUDIO_OUT", seq |-> item.seq, config |-> config,
            epoch |-> item.epoch, memory |-> memory])
  /\ sendLock' = "free"
  /\ infer' = "release"
  /\ UNCHANGED <<netVars, configVars, item, memory, rcvd, serve, reply, requests, slots>>

InferSent ==
  /\ infer = "send" /\ sendLock = "infer"
  /\ Sends([type |-> "AUDIO_OUT", seq |-> item.seq, config |-> item.config,
            epoch |-> item.epoch, memory |-> memory])
  /\ sendLock' = "free"
  /\ infer' = "release"
  /\ UNCHANGED <<netVars, configVars, item, memory, rcvd, serve, reply, requests, slots>>

\* except OSError: return
InferSendFails ==
  /\ infer = "send" /\ sendLock = "infer"
  /\ SendFails
  /\ sendLock' = "free"
  /\ infer' = "dying"
  /\ UNCHANGED <<netVars, configVars, item, memory, rcvd, serve, reply, requests, slots>>

\* Mutant: the slot is released only by a thread that ends.
InferReleaseAtEnd ==
  /\ infer \in {"release", "dying"}
  /\ slots' = IF infer = "dying" THEN slots + 1 ELSE slots
  /\ item' = NoItem
  /\ infer' = IF infer = "release" THEN "get" ELSE "exit"
  /\ UNCHANGED <<netVars, configVars, memory, rcvd, s2c, serve, reply, requests, sendLock>>

\* finally: slots.release()
InferRelease ==
  /\ infer \in {"release", "dying"}
  /\ slots' = slots + 1
  /\ item' = NoItem
  /\ infer' = IF infer = "release" THEN "get" ELSE "exit"
  /\ UNCHANGED <<netVars, configVars, memory, rcvd, s2c, serve, reply, requests, sendLock>>

----------------------------------------------------------------------------
Serve == \/ RecvHello \/ RecvSessionOpen \/ HandshakeFails
         \/ ServeHeartbeat \/ ServeConfigUpdate \/ ServeAudioAccept \/ ServeAudioSkip
         \/ ServeEnd \/ ServeFinally
         \/ ServeTakeSendLock \/ ServeSent \/ ServeSendFails

Infer == \/ InferGet \/ InferProcess \/ InferRaises
         \/ InferTakeSendLock \/ InferSent \/ InferSendFails \/ InferRelease

Init ==
  /\ peer = "open" /\ sent = <<>> /\ rcvd = 0 /\ s2c = <<>>
  /\ serve = "hello" /\ reply = NoItem
  /\ infer = "off" /\ requests = <<>> /\ item = NoItem
  /\ slots = MaxInFlight /\ sendLock = "free"
  /\ config = DefaultConfig /\ lastSequence = 0
  /\ memory = 0

Next == Peer \/ Serve \/ ServeRecvFails \/ Infer

Spec == Init /\ [][Next]_vars

\* Both threads keep running and sendall returns within its timeout; whether
\* engine.process returns is left open.  Nothing forces the receive timeout:
\* a peer that keeps sending heartbeats never runs into it.
ThreadFairness == /\ WF_vars(Serve)
                  /\ WF_vars(InferGet) /\ WF_vars(InferTakeSendLock)
                  /\ WF_vars(InferSent \/ InferSendFails) /\ WF_vars(InferRelease)
FairSpec == Spec /\ ThreadFairness

----------------------------------------------------------------------------
(* Properties.                                                              *)

TypeOK ==
  /\ peer \in {"open", "stalled", "gone"}
  /\ sent \in Seq(PeerFrame)
  /\ rcvd \in 0..Len(sent)
  /\ s2c \in Seq(ServiceFrame)
  /\ serve \in ServePhases /\ reply \in ServiceFrame \cup {NoItem}
  /\ infer \in InferPhases
  /\ requests \in Seq(Item \cup {NoItem})
  /\ item \in Item \cup {NoItem}
  /\ slots \in 0..MaxInFlight
  /\ sendLock \in {"free", "serve", "infer"}
  /\ config \in Configs /\ lastSequence \in Nat
  /\ memory \in Nat

Working == infer \in {"process", "send", "release", "dying"}

\* requests.put_nowait is never reached with a full queue: queue.Full is not
\* among the exceptions _serve_and_close expects.
QueueHasRoom == serve = "recv" /\ slots > 0 => Len(requests) < MaxInFlight

\* Blocks that serve_client read and nobody has answered.
Accepted == {i \in 1..rcvd : sent[i].type = "AUDIO_IN"}
AnsweredSeqs == {s2c[i].seq : i \in Answers}
                  \cup {r.seq : r \in {reply} \cap [type : {"AUDIO_SKIP"}, seq : Nat]}
Outstanding == {i \in Accepted : sent[i].seq \notin AnsweredSeqs}
Over == serve \in {"finally", "closed"}

\* While both threads work, no more blocks are held unanswered than the
\* max_in_flight that SESSION_ACCEPT advertised.
InFlightBound ==
  ~Over /\ infer \notin {"dying", "exit"} => Cardinality(Outstanding) <= MaxInFlight

\* AUDIO_OUT follows the order of the AUDIO_IN frames and no AUDIO_IN is
\* answered twice, whichever of the two threads answers.
AnsweredOnceInOrder ==
  \A i, j \in Answers : i < j =>
     /\ s2c[i].seq # s2c[j].seq
     /\ s2c[i].type = "AUDIO_OUT" /\ s2c[j].type = "AUDIO_OUT" => s2c[i].seq < s2c[j].seq

\* A block is converted with the last update accepted before the block in the
\* peer's own order, however long the block waits in the queue.
Applicable(i, n) == /\ sent[i].type = "CONFIG_UPDATE" /\ i < n
                    /\ sent[i].value \in ConfigValues /\ sent[i].seq > 0
ConfigBefore(n) ==
  LET top == {i \in DOMAIN sent : /\ Applicable(i, n)
                                  /\ \A j \in DOMAIN sent : Applicable(j, n) /\ j # i =>
                                       \/ sent[j].seq < sent[i].seq
                                       \/ sent[j].seq = sent[i].seq /\ i < j}
  IN IF top = {} THEN DefaultConfig ELSE sent[CHOOSE i \in top : TRUE].value
ConfigAsOfReceipt ==
  \A o \in DOMAIN s2c : s2c[o].type = "AUDIO_OUT" =>
     \A n \in Audio(sent) : sent[n].seq = s2c[o].seq => s2c[o].config = ConfigBefore(n)

\* The engine's buffers hold samples of the block's own stream: a flagged
\* discontinuity reaches reset_stream_state before the block is converted,
\* unless the flagged block itself was skipped.
Skipped == {i \in Audio(sent) : \E o \in Answers : s2c[o].type = "AUDIO_SKIP" /\ s2c[o].seq = sent[i].seq}
EngineFollowsStream ==
  \A o \in DOMAIN s2c : s2c[o].type = "AUDIO_OUT" =>
     \/ s2c[o].memory = s2c[o].epoch
     \/ \E i \in Skipped : sent[i].disc /\ sent[i].epoch = s2c[o].epoch

\* The session as the peer sees it.  It holds the block the engine works on and
\* those that wait behind it.
Converting == IF infer \in {"process", "send"} THEN <<item>> ELSE <<>>
Holding ==
  LET blocks == Converting \o requests
  IN  [i \in {k \in DOMAIN blocks : blocks[k] # NoItem} |-> <<blocks[i].seq, blocks[i].config>>]

Service == INSTANCE InOrderService WITH
  Limit <- MaxInFlight, Numbers <- 1..MaxAudio,
  Settings <- ConfigValues, Default <- DefaultConfig,
  offered <- {sent[i].seq : i \in Accepted},
  held <- Holding,
  converted <- {<<s2c[o].seq, s2c[o].config>> : o \in {k \in DOMAIN s2c : s2c[k].type = "AUDIO_OUT"}},
  setting <- config,
  working <- infer \notin {"dying", "exit"}

\* The queue, the semaphore and the two threads amount to a service in order
\* with max_in_flight places: a block is refused only while they are taken (the
\* place of the block just answered may not be free yet), and the exception of
\* one block or a lost connection takes no other block with it.
ConvertsInOrder == Service!ServiceSpec

\* test_heartbeat_remains_responsive_during_inference: a heartbeat is answered
\* or the session ends, even if engine.process never returns.
HeartbeatAnswered ==
  \A n \in 1..MaxBeats :
    (\E i \in DOMAIN sent : sent[i].type = "HEARTBEAT" /\ sent[i].seq = n)
      ~> (Over \/ \E i \in DOMAIN s2c : s2c[i].type = "HEARTBEAT_ACK" /\ s2c[i].seq = n)

\* engine.process comes back, one way or the other.
EngineReturns == infer = "process" ~> infer # "process"

\* While the peer keeps reading and nothing ends the inference thread early,
\* every block that was read is answered or the session ends.
AudioAnswered ==
  EngineReturns /\ [](peer = "open" /\ infer # "dying") =>
    \A n \in 1..MaxAudio :
      (\E i \in Accepted : sent[i].seq = n) ~> (Over \/ n \in AnsweredSeqs)

\* Once the read loop is left, the socket is closed and the inference thread
\* ends, also when the engine raised: neither thread of a session outlives it.
SessionEnds ==
  EngineReturns => (serve = "finally" ~> (serve = "closed" /\ infer = "exit"))
=============================================================================
