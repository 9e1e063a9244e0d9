---------------------------- MODULE RsvcGateway ----------------------------
(***************************************************************************)
(* rvc_runtime_gateway.py: the TCP gateway at the Audio Unit's fixed        *)
(* localhost endpoint.  An accept loop hands every connection the route of  *)
(* the moment; a thread per connection registers it, connects to the        *)
(* backend and pumps both ways.  select() changes the route and shuts down  *)
(* what is registered, so that the Audio Unit reconnects; stop() shuts down *)
(* the same way without a new route.                                        *)
(*                                                                         *)
(* Bytes are not interpreted: a pump holds a chunk or it does not.          *)
(***************************************************************************)
EXTENDS Integers, FiniteSets

CONSTANTS
  Sessions,      \* connections a client may make
  Targets,       \* RuntimeTarget values
  Selectors,     \* threads that may be inside select()
  Stopper,       \* the thread that calls stop()
  MaxSelects,    \* bound: calls of select()
  MaxLosses      \* bound: remote ends that finish or are lost

ASSUME SessionsAssumption == IsFiniteSet(Sessions)
ASSUME TargetsAssumption == Targets # {}
ASSUME StopperAssumption == Stopper \notin Selectors

VARIABLES
  target, generation,  \* _target, _route_generation
  activeSessions,      \* _active_sessions
  activeSockets,       \* _active_sockets
  pending,             \* sockets a select() or stop() has still to shut down
  stopping,            \* _stop_event
  listening,           \* the listener is open
  acceptor,            \* _accept_loop: "off", "accept", "route", "ended"
  sess,                \* each connection and the _forward thread of it
  pump,                \* the two _pump calls of each connection
  dead,                \* sockets shut down both ways, or closed
  eof                  \* sockets whose remote end finished or was lost

routeVars == <<target, generation>>
tableVars == <<activeSessions, activeSockets>>
acceptVars == <<stopping, listening, acceptor>>
socketVars == <<dead, eof>>
vars == <<routeVars, tableVars, pending, acceptVars, sess, pump, socketVars>>

Closers == Selectors \cup {Stopper}
Directions == {"up", "down"}
Socket == {"client", "backend"} \X Sessions
SocketsOf(s) == {"client", "backend"} \X {s}
Source(s, d) == IF d = "up" THEN <<"client", s>> ELSE <<"backend", s>>
Destination(s, d) == IF d = "up" THEN <<"backend", s>> ELSE <<"client", s>>
Phases == {"absent", "backlog", "accepted", "routed", "connecting", "connected", "pump", "leave", "closed"}

Goto(s, phase) == sess' = [sess EXCEPT ![s].phase = phase]

\* What _forward keeps registered from its first lock to its last.
Registered(s) == sess[s].phase \in {"connecting", "connected", "pump", "leave"}

----------------------------------------------------------------------------
(* The peers: a client connects, either remote end finishes or is lost.  An *)
(* end that was lost earlier is noticed when the pumps run.                 *)

Arrive(s) ==
  /\ sess[s].phase = "absent" /\ listening
  /\ Goto(s, "backlog")
  /\ UNCHANGED <<routeVars, tableVars, pending, acceptVars, pump, socketVars>>

RemoteEnds(k) ==
  /\ k \notin eof /\ Cardinality(eof) < MaxLosses
  /\ sess[k[2]].phase = "pump"
  /\ eof' = eof \cup {k}
  /\ UNCHANGED <<routeVars, tableVars, pending, acceptVars, sess, pump, dead>>

----------------------------------------------------------------------------
(* start() and _accept_loop.                                                *)

Start ==
  /\ ~listening /\ acceptor \in {"off", "ended"}
  /\ stopping' = FALSE /\ listening' = TRUE /\ acceptor' = "accept"
  /\ UNCHANGED <<routeVars, tableVars, pending, sess, pump, socketVars>>

Accept(s) ==
  /\ acceptor = "accept" /\ listening
  /\ sess[s].phase = "backlog"
  /\ Goto(s, "accepted")
  /\ acceptor' = "route"
  /\ UNCHANGED <<routeVars, tableVars, pending, stopping, listening, pump, socketVars>>

\* _route(), the thread of the connection, and the test of _stop_event.
Route(s) ==
  /\ acceptor = "route" /\ sess[s].phase = "accepted"
  /\ sess' = [sess EXCEPT ![s] = [phase |-> "routed", target |-> target, gen |-> generation]]
  /\ acceptor' = IF stopping THEN "ended" ELSE "accept"
  /\ UNCHANGED <<routeVars, tableVars, pending, stopping, listening, pump, socketVars>>

\* The accept timeout, after which _stop_event is tested, or a closed listener.
AcceptEnds ==
  /\ acceptor = "accept" /\ (stopping \/ ~listening)
  /\ acceptor' = "ended"
  /\ UNCHANGED <<routeVars, tableVars, pending, stopping, listening, sess, pump, socketVars>>

----------------------------------------------------------------------------
(* _forward.                                                                *)

forwardRest == <<routeVars, pending, acceptVars>>
Deregister(s) == /\ activeSockets' = activeSockets \ SocketsOf(s)
                 /\ activeSessions' = activeSessions - 1
Close(s) == dead' = dead \cup SocketsOf(s) /\ Goto(s, "closed")

Register(s) ==
  /\ sess[s].phase = "routed" /\ sess[s].gen = generation
  /\ activeSockets' = activeSockets \cup {<<"client", s>>}
  /\ activeSessions' = activeSessions + 1
  /\ Goto(s, "connecting")
  /\ UNCHANGED <<forwardRest, pump, socketVars>>

RegisterRefused(s) ==
  /\ sess[s].phase = "routed" /\ sess[s].gen # generation
  /\ Close(s)
  /\ UNCHANGED <<forwardRest, tableVars, pump, eof>>

Connect(s) ==
  /\ sess[s].phase = "connecting"
  /\ Goto(s, "connected")
  /\ UNCHANGED <<forwardRest, tableVars, pump, socketVars>>

\* Mutant: a failed connection returns without leaving the table.
ConnectFailsRegistered(s) ==
  /\ sess[s].phase = "connecting"
  /\ Close(s)
  /\ UNCHANGED <<forwardRest, tableVars, pump, eof>>

ConnectFails(s) ==
  /\ sess[s].phase = "connecting"
  /\ Deregister(s)
  /\ Close(s)
  /\ UNCHANGED <<forwardRest, pump, eof>>

RegisterBackend(s) ==
  /\ sess[s].phase = "connected" /\ sess[s].gen = generation
  /\ activeSockets' = activeSockets \cup {<<"backend", s>>}
  /\ Goto(s, "pump")
  /\ pump' = [pump EXCEPT ![s] = [d \in Directions |-> "recv"]]
  /\ UNCHANGED <<forwardRest, activeSessions, socketVars>>

BackendRefused(s) ==
  /\ sess[s].phase = "connected" /\ sess[s].gen # generation
  /\ Goto(s, "leave")
  /\ UNCHANGED <<forwardRest, tableVars, pump, socketVars>>

\* The download pump returned and upload.join did, or gave up after a second:
\* both sockets leave the table and are closed.
Leave(s) ==
  /\ \/ sess[s].phase = "leave"
     \/ sess[s].phase = "pump" /\ pump[s]["down"] = "done"
  /\ Deregister(s)
  /\ Close(s)
  /\ UNCHANGED <<forwardRest, pump, eof>>

----------------------------------------------------------------------------
(* _pump.  recv returns what had arrived even after a shutdown.  The finally *)
(* shuts the destination for writing, where only this pump writes: "done"    *)
(* says so.                                                                 *)

pumpRest == <<forwardRest, tableVars, sess, dead, eof>>
SetPump(s, d, phase) == pump' = [pump EXCEPT ![s][d] = phase]

PumpRecv(s, d) ==
  /\ pump[s][d] = "recv" /\ Source(s, d) \notin eof
  /\ SetPump(s, d, "send")
  /\ UNCHANGED pumpRest

\* Mutant: the sockets are shut down for reading only.
PumpSendStill(s, d) ==
  /\ pump[s][d] = "send"
  /\ SetPump(s, d, "recv")
  /\ UNCHANGED pumpRest

PumpSend(s, d) ==
  /\ pump[s][d] = "send" /\ Destination(s, d) \notin dead
  /\ SetPump(s, d, "recv")
  /\ UNCHANGED pumpRest

\* EOF or an error ends the loop.
PumpEnds(s, d) ==
  /\ \/ pump[s][d] = "recv" /\ Source(s, d) \in dead \cup eof
     \/ pump[s][d] = "send" /\ Destination(s, d) \in dead \cup eof
  /\ SetPump(s, d, "done")
  /\ UNCHANGED pumpRest

----------------------------------------------------------------------------
(* select() and stop(): the table is copied under the lock, the sockets are *)
(* shut down one by one after it.                                           *)

\* Mutant: the generation stays when the target changes.
SelectSameGeneration(x) ==
  /\ pending[x] = {}
  /\ \E t \in Targets : target' = t
  /\ pending' = [pending EXCEPT ![x] = activeSockets]
  /\ UNCHANGED <<generation, tableVars, acceptVars, sess, pump, socketVars>>

\* Mutant: the sessions of the old route are left to end by themselves.
SelectQuietly(x) ==
  /\ pending[x] = {} /\ generation < MaxSelects
  /\ \E t \in Targets : target' = t
  /\ generation' = generation + 1
  /\ UNCHANGED <<tableVars, pending, acceptVars, sess, pump, socketVars>>

Select(x) ==
  /\ pending[x] = {} /\ generation < MaxSelects
  /\ \E t \in Targets : target' = t
  /\ generation' = generation + 1
  /\ pending' = [pending EXCEPT ![x] = activeSockets]
  /\ UNCHANGED <<tableVars, acceptVars, sess, pump, socketVars>>

Stop ==
  /\ listening /\ ~stopping
  /\ stopping' = TRUE
  /\ pending' = [pending EXCEPT ![Stopper] = activeSockets]
  /\ UNCHANGED <<routeVars, tableVars, listening, acceptor, sess, pump, socketVars>>

Shutdown(x, k) ==
  /\ k \in pending[x]
  /\ pending' = [pending EXCEPT ![x] = @ \ {k}]
  /\ dead' = dead \cup {k}
  /\ UNCHANGED <<routeVars, tableVars, acceptVars, sess, pump, eof>>

\* listener.close() drops what waits in the backlog.
CloseListener ==
  /\ stopping /\ listening /\ pending[Stopper] = {}
  /\ listening' = FALSE
  /\ sess' = [s \in Sessions |-> IF sess[s].phase = "backlog" THEN [sess[s] EXCEPT !.phase = "closed"]
                                 ELSE sess[s]]
  /\ UNCHANGED <<routeVars, tableVars, pending, stopping, acceptor, pump, socketVars>>

----------------------------------------------------------------------------
Init ==
  /\ target \in Targets /\ generation = 0
  /\ activeSessions = 0 /\ activeSockets = {}
  /\ pending = [x \in Closers |-> {}]
  /\ stopping = FALSE /\ listening = FALSE /\ acceptor = "off"
  /\ sess = [s \in Sessions |-> [phase |-> "absent", target |-> target, gen |-> 0]]
  /\ pump = [s \in Sessions |-> [d \in Directions |-> "off"]]
  /\ dead = {} /\ eof = {}

Connection(s) == \/ Register(s) \/ RegisterRefused(s) \/ Connect(s) \/ ConnectFails(s)
                 \/ RegisterBackend(s) \/ BackendRefused(s) \/ Leave(s)
Next ==
  \/ Start \/ AcceptEnds \/ Stop \/ CloseListener
  \/ \E s \in Sessions : Arrive(s) \/ Accept(s) \/ Route(s) \/ Connection(s)
  \/ \E s \in Sessions, d \in Directions : PumpRecv(s, d) \/ PumpSend(s, d) \/ PumpEnds(s, d)
  \/ \E x \in Selectors : Select(x)
  \/ \E x \in Closers, k \in Socket : Shutdown(x, k)
  \/ \E k \in Socket : RemoteEnds(k)

Spec == Init /\ [][Next]_vars

\* Every thread runs, and connecting gives up after connect_timeout.  Nothing
\* is assumed of the peers: they may stop sending, and stop reading.
Fairness ==
  /\ \A s \in Sessions : WF_vars(Connection(s)) /\ \A d \in Directions : WF_vars(PumpEnds(s, d))
  /\ \A x \in Closers, k \in Socket : WF_vars(Shutdown(x, k))

----------------------------------------------------------------------------
(* Properties.                                                              *)

TypeOK ==
  /\ target \in Targets /\ generation \in Nat
  /\ activeSessions \in Nat /\ activeSockets \subseteq Socket
  /\ pending \in [Closers -> SUBSET Socket]
  /\ stopping \in BOOLEAN /\ listening \in BOOLEAN
  /\ acceptor \in {"off", "accept", "route", "ended"}
  /\ sess \in [Sessions -> [phase : Phases, target : Targets, gen : Nat]]
  /\ pump \in [Sessions -> [Directions -> {"off", "recv", "send", "done"}]]
  /\ dead \subseteq Socket /\ eof \subseteq Socket

\* active_sessions, which the control page reports, counts exactly the
\* connections in the table, whichever of the four ways out each one takes.
SessionsCounted ==
  /\ activeSessions = Cardinality({s \in Sessions : Registered(s)})
  /\ \A s \in Sessions : (<<"client", s>> \in activeSockets) <=> Registered(s)

\* A connection of the current generation goes to the current target: _route
\* reads the pair under the lock, and two later comparisons keep it current.
RouteOfGeneration ==
  \A s \in Sessions : Registered(s) /\ sess[s].gen = generation => sess[s].target = target

\* A connection of an older route that still pumps is doomed: each of its
\* sockets is shut down, or is in the list of a select() under way.
Doomed(s) == \A k \in SocketsOf(s) : k \in dead \/ \E x \in Closers : k \in pending[x]
StaleIsDoomed ==
  \A s \in Sessions : sess[s].phase = "pump" /\ sess[s].gen # generation => Doomed(s)

\* No byte reaches the old backend, nor comes from it, once select() returned:
\* a pump of an older route only sends to a socket whose shutdown is to come.
NoStaleForward ==
  [][\A s \in Sessions, d \in Directions :
       pump[s][d] = "send" /\ pump'[s][d] = "recv" /\ sess[s].gen # generation
         => \E x \in Closers : Destination(s, d) \in pending[x]]_vars

\* After a select() every connection of an older route is closed, so that the
\* Audio Unit reconnects, even if neither peer reads or sends another byte.
OldSessionsClose ==
  \A s \in Sessions :
    (sess[s].phase \in {"routed", "connecting", "connected", "pump", "leave"} /\ sess[s].gen # generation)
      ~> sess[s].phase = "closed"
=============================================================================
