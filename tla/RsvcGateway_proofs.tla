------------------------- MODULE RsvcGateway_proofs -------------------------
(***************************************************************************)
(* Proofs about RsvcGateway for any number of connections, selections and   *)
(* targets: the table and the count are exact, the route is the current     *)
(* one, and nothing of an old route is forwarded once select() returned.    *)
(***************************************************************************)
EXTENDS RsvcGateway, FiniteSetTheorems, TLAPS

InTable == {"connecting", "connected", "pump", "leave"}
Members(state) == {s \in Sessions : state[s].phase \in InTable}

Counted == activeSessions = Cardinality(Members(sess))

\* The client's socket is registered first, the backend's with the pumps.
TableExact ==
  \A s \in Sessions : /\ (<<"client", s>> \in activeSockets) <=> sess[s].phase \in InTable
                      /\ (<<"backend", s>> \in activeSockets) <=> sess[s].phase = "pump"

\* A connection keeps the pair that _route read.
RouteKept ==
  \A s \in Sessions : /\ sess[s].gen <= generation
                      /\ sess[s].phase \in InTable \cup {"routed"} /\ sess[s].gen = generation
                           => sess[s].target = target

\* A pump that outlives _forward finds its sockets closed.
PumpsKept ==
  \A s \in Sessions, d \in Directions :
    pump[s][d] # "off" => \/ sess[s].phase = "pump"
                          \/ sess[s].phase = "closed" /\ SocketsOf(s) \subseteq dead

IInv == TypeOK /\ Counted /\ TableExact /\ RouteKept /\ PumpsKept /\ StaleIsDoomed

USE SessionsAssumption

----------------------------------------------------------------------------
(* Counting the connections in the table.                                   *)

\* The connections in the table are finitely many.
LEMMA MembersFinite == ASSUME NEW state PROVE IsFiniteSet(Members(state)) /\ Cardinality(Members(state)) \in Nat
<1>1. Members(state) \subseteq Sessions BY DEF Members
<1> QED BY <1>1, FS_Subset, FS_CardinalityType

\* One connection moves: it joins the table, leaves it, or stays where it is.
LEMMA MembersStep ==
  ASSUME NEW old, NEW new, NEW s \in Sessions, \A r \in Sessions \ {s} : new[r] = old[r]
  PROVE  /\ new[s].phase \in InTable /\ old[s].phase \notin InTable
              => Cardinality(Members(new)) = Cardinality(Members(old)) + 1
         /\ new[s].phase \notin InTable /\ old[s].phase \in InTable
              => Cardinality(Members(new)) = Cardinality(Members(old)) - 1
         /\ (new[s].phase \in InTable <=> old[s].phase \in InTable)
              => Cardinality(Members(new)) = Cardinality(Members(old))
<1>1. CASE new[s].phase \in InTable /\ old[s].phase \notin InTable
  <2>1. Members(new) = Members(old) \cup {s} /\ s \notin Members(old) BY <1>1 DEF Members
  <2> QED BY <1>1, <2>1, MembersFinite, FS_AddElement
<1>2. CASE new[s].phase \notin InTable /\ old[s].phase \in InTable
  <2>1. Members(new) = Members(old) \ {s} /\ s \in Members(old) BY <1>2 DEF Members
  <2> QED BY <1>2, <2>1, MembersFinite, FS_RemoveElement
<1>3. CASE new[s].phase \in InTable <=> old[s].phase \in InTable
  <2>1. Members(new) = Members(old) BY <1>3 DEF Members
  <2> QED BY <1>3, <2>1
<1> QED BY <1>1, <1>2, <1>3

----------------------------------------------------------------------------
\* At the start no connection exists.
LEMMA InitIInv == Init => IInv
<1> SUFFICES ASSUME Init PROVE IInv OBVIOUS
<1>1. TypeOK BY DEF Init, TypeOK, Phases, Directions
<1>2. Members(sess) = {} BY DEF Init, Members, InTable
<1>3. Counted BY <1>2, FS_EmptySet DEF Init, Counted
<1>4. TableExact /\ RouteKept /\ PumpsKept /\ StaleIsDoomed
  BY DEF Init, TableExact, RouteKept, PumpsKept, StaleIsDoomed, InTable
<1> QED BY <1>1, <1>3, <1>4 DEF IInv

\* What a step of connection s must do to keep the table and the count.
Moves(s) ==
  /\ \A r \in Sessions \ {s} : sess'[r] = sess[r]
  /\ activeSessions' - activeSessions = (IF sess'[s].phase \in InTable THEN 1 ELSE 0)
                                          - (IF sess[s].phase \in InTable THEN 1 ELSE 0)
  /\ \A k \in Socket \ SocketsOf(s) : k \in activeSockets' <=> k \in activeSockets
  /\ (<<"client", s>> \in activeSockets') <=> sess'[s].phase \in InTable
  /\ (<<"backend", s>> \in activeSockets') <=> sess'[s].phase = "pump"

\* A step that moves one connection as Moves says keeps the count and the table.
LEMMA MovesKeep ==
  ASSUME TypeOK, Counted, TableExact, NEW s \in Sessions, Moves(s), activeSessions' \in Int
  PROVE  activeSessions' \in Nat /\ Counted' /\ TableExact'
<1> DEFINE n == Cardinality(Members(sess))
           m == Cardinality(Members(sess'))
<1>0. n \in Nat /\ m \in Nat BY MembersFinite
<1>1. Counted'
  <2>1. /\ sess'[s].phase \in InTable /\ sess[s].phase \notin InTable => m = n + 1
        /\ sess'[s].phase \notin InTable /\ sess[s].phase \in InTable => m = n - 1
        /\ (sess'[s].phase \in InTable <=> sess[s].phase \in InTable) => m = n
    BY MembersStep DEF Moves
  <2>2. activeSessions' = m
    <3> HIDE DEF n, m
    <3>1. activeSessions = n BY DEF Counted, n
    <3> QED BY <1>0, <2>1, <3>1 DEF Moves
  <2> QED BY <2>2 DEF Counted
<1>2. activeSessions' \in Nat BY <1>0, <1>1 DEF Counted
<1>3. TableExact'
  <2> SUFFICES ASSUME NEW r \in Sessions
               PROVE  /\ (<<"client", r>> \in activeSockets') <=> sess'[r].phase \in InTable
                      /\ (<<"backend", r>> \in activeSockets') <=> sess'[r].phase = "pump"
    BY DEF TableExact
  <2>1. CASE r = s BY <2>1 DEF Moves
  <2>2. CASE r # s
    <3>1. <<"client", r>> \in Socket \ SocketsOf(s) /\ <<"backend", r>> \in Socket \ SocketsOf(s)
      BY <2>2 DEF Socket, SocketsOf
    <3> QED BY <2>2, <3>1 DEF Moves, TableExact
  <2> QED BY <2>1, <2>2
<1> QED BY <1>1, <1>2, <1>3

----------------------------------------------------------------------------
(* Every step keeps the types, given the count.                             *)

\* The record of a connection after a Goto, and the sockets it names.
LEMMA GotoType ==
  ASSUME TypeOK, NEW s \in Sessions, NEW phase \in Phases
  PROVE  /\ [sess EXCEPT ![s].phase = phase] \in [Sessions -> [phase : Phases, target : Targets, gen : Nat]]
         /\ SocketsOf(s) \subseteq Socket
BY DEF TypeOK, SocketsOf, Socket

\* A step of the connections.
LEMMA ConnectionTypes ==
  ASSUME TypeOK, activeSessions' \in Nat, NEW s \in Sessions,
         Arrive(s) \/ Accept(s) \/ Route(s) \/ Connection(s)
  PROVE  TypeOK'
<1> USE DEF TypeOK
<1>1. ASSUME NEW phase \in Phases, Goto(s, phase)
      PROVE  sess' \in [Sessions -> [phase : Phases, target : Targets, gen : Nat]]
  BY <1>1, GotoType DEF Goto
<1>2. SocketsOf(s) \subseteq Socket /\ <<"client", s>> \in Socket /\ <<"backend", s>> \in Socket
  BY DEF SocketsOf, Socket
<1>3. CASE Arrive(s) BY <1>1, <1>3 DEF Arrive, Phases, routeVars, tableVars, acceptVars, socketVars
<1>4. CASE Accept(s) BY <1>1, <1>4 DEF Accept, Phases, routeVars, tableVars, socketVars
<1>5. CASE Route(s)
  <2>1. sess' \in [Sessions -> [phase : Phases, target : Targets, gen : Nat]]
    BY <1>5 DEF Route, Phases
  <2> QED BY <1>5, <2>1 DEF Route, routeVars, tableVars, socketVars
<1> USE DEF forwardRest, routeVars, tableVars, acceptVars, socketVars
<1>6. CASE Register(s) BY <1>1, <1>2, <1>6 DEF Register, Phases
<1>7. CASE RegisterRefused(s) BY <1>1, <1>2, <1>7 DEF RegisterRefused, Close, Phases
<1>8. CASE Connect(s) BY <1>1, <1>8 DEF Connect, Phases
<1>9. CASE ConnectFails(s) BY <1>1, <1>2, <1>9 DEF ConnectFails, Deregister, Close, Phases
<1>10. CASE RegisterBackend(s)
  <2>1. pump' \in [Sessions -> [Directions -> {"off", "recv", "send", "done"}]]
    BY <1>10 DEF RegisterBackend
  <2> QED BY <1>1, <1>2, <1>10, <2>1 DEF RegisterBackend, Phases
<1>11. CASE BackendRefused(s) BY <1>1, <1>11 DEF BackendRefused, Phases
<1>12. CASE Leave(s) BY <1>1, <1>2, <1>12 DEF Leave, Deregister, Close, Phases
<1> QED BY <1>3, <1>4, <1>5, <1>6, <1>7, <1>8, <1>9, <1>10, <1>11, <1>12 DEF Connection

\* A step of the pumps, of a remote end, or of start, select and stop.
Elsewhere ==
  \/ Start \/ AcceptEnds \/ Stop \/ CloseListener
  \/ \E s \in Sessions, d \in Directions : PumpRecv(s, d) \/ PumpSend(s, d) \/ PumpEnds(s, d)
  \/ \E x \in Selectors : Select(x)
  \/ \E x \in Closers, k \in Socket : Shutdown(x, k)
  \/ \E k \in Socket : RemoteEnds(k)

\* Steps of the peers keep the types.
LEMMA ElsewhereTypes == ASSUME TypeOK, Elsewhere PROVE TypeOK'
<1> USE DEF TypeOK, routeVars, tableVars, acceptVars, socketVars
<1>1. CASE Start BY <1>1 DEF Start
<1>2. CASE AcceptEnds BY <1>2 DEF AcceptEnds
<1>3. CASE Stop BY <1>3 DEF Stop, Closers
<1>4. CASE CloseListener
  <2>1. sess' \in [Sessions -> [phase : Phases, target : Targets, gen : Nat]]
    BY <1>4 DEF CloseListener, Phases
  <2> QED BY <1>4, <2>1 DEF CloseListener
<1>5. ASSUME NEW s \in Sessions, NEW d \in Directions, PumpRecv(s, d) \/ PumpSend(s, d) \/ PumpEnds(s, d)
      PROVE  TypeOK'
  <2> DEFINE places == {"off", "recv", "send", "done"}
  <2>1. PICK phase \in places : pump' = [pump EXCEPT ![s][d] = phase]
    BY <1>5 DEF PumpRecv, PumpSend, PumpEnds, SetPump
  <2>2. pump[s] \in [Directions -> places] OBVIOUS
  <2>3. [pump[s] EXCEPT ![d] = phase] \in [Directions -> places] BY <2>2
  <2>4. pump' = [pump EXCEPT ![s] = [pump[s] EXCEPT ![d] = phase]] BY <2>1
  <2>5. pump' \in [Sessions -> [Directions -> places]] BY <2>3, <2>4
  <2> QED BY <1>5, <2>5 DEF PumpRecv, PumpSend, PumpEnds, pumpRest, forwardRest
<1>6. ASSUME NEW x \in Selectors, Select(x) PROVE TypeOK' BY <1>6 DEF Select, Closers
<1>7. ASSUME NEW x \in Closers, NEW k \in Socket, Shutdown(x, k) PROVE TypeOK' BY <1>7 DEF Shutdown
<1>8. ASSUME NEW k \in Socket, RemoteEnds(k) PROVE TypeOK' BY <1>8 DEF RemoteEnds
<1> QED BY <1>1, <1>2, <1>3, <1>4, <1>5, <1>6, <1>7, <1>8 DEF Elsewhere

----------------------------------------------------------------------------
(* The count and the table.                                                 *)

\* Each way into and out of the table moves one connection.
LEMMA ConnectionMoves ==
  ASSUME TypeOK, TableExact, NEW s \in Sessions, Arrive(s) \/ Accept(s) \/ Route(s) \/ Connection(s)
  PROVE  Moves(s) /\ activeSessions' \in Int
<1> USE DEF InTable, tableVars
<1>1. SocketsOf(s) = {<<"client", s>>, <<"backend", s>>} BY DEF SocketsOf
<1>2. activeSessions \in Int /\ sess \in [Sessions -> [phase : Phases, target : Targets, gen : Nat]]
  BY DEF TypeOK
<1>3. /\ (<<"client", s>> \in activeSockets) <=> sess[s].phase \in InTable
      /\ (<<"backend", s>> \in activeSockets) <=> sess[s].phase = "pump"
  BY DEF TableExact
<1>4. CASE Arrive(s) BY <1>1, <1>2, <1>3, <1>4 DEF Arrive, Goto, Moves
<1>5. CASE Accept(s) BY <1>1, <1>2, <1>3, <1>5 DEF Accept, Goto, Moves
<1>6. CASE Route(s) BY <1>1, <1>2, <1>3, <1>6 DEF Route, Moves
<1>7. CASE Register(s) BY <1>1, <1>2, <1>3, <1>7 DEF Register, Goto, Moves
<1>8. CASE RegisterRefused(s) BY <1>1, <1>2, <1>3, <1>8 DEF RegisterRefused, Close, Goto, Moves
<1>9. CASE Connect(s) BY <1>1, <1>2, <1>3, <1>9 DEF Connect, Goto, Moves
<1>10. CASE ConnectFails(s) BY <1>1, <1>2, <1>3, <1>10 DEF ConnectFails, Deregister, Close, Goto, Moves
<1>11. CASE RegisterBackend(s) BY <1>1, <1>2, <1>3, <1>11 DEF RegisterBackend, Goto, Moves
<1>12. CASE BackendRefused(s) BY <1>1, <1>2, <1>3, <1>12 DEF BackendRefused, Goto, Moves
<1>13. CASE Leave(s) BY <1>1, <1>2, <1>3, <1>13 DEF Leave, Deregister, Close, Goto, Moves
<1> QED BY <1>4, <1>5, <1>6, <1>7, <1>8, <1>9, <1>10, <1>11, <1>12, <1>13 DEF Connection

\* No other step touches the table, and none moves a connection in it.
LEMMA ElsewhereCounts == ASSUME TypeOK, Counted, TableExact, Elsewhere PROVE Counted' /\ TableExact'
<1>1. /\ UNCHANGED tableVars
      /\ \A s \in Sessions : /\ sess'[s].phase \in InTable <=> sess[s].phase \in InTable
                             /\ sess'[s].phase = "pump" <=> sess[s].phase = "pump"
  <2> USE DEF tableVars
  <2>1. CASE CloseListener BY <2>1 DEF CloseListener, TypeOK, InTable
  <2>2. CASE ~CloseListener
    BY <2>2 DEF Elsewhere, Start, AcceptEnds, Stop, PumpRecv, PumpSend, PumpEnds, pumpRest,
                Select, Shutdown, RemoteEnds
  <2> QED BY <2>1, <2>2
<1>2. Members(sess') = Members(sess) BY <1>1 DEF Members
<1>3. Counted' BY <1>1, <1>2 DEF Counted, tableVars
<1>4. TableExact' BY <1>1 DEF TableExact, tableVars
<1> QED BY <1>3, <1>4

----------------------------------------------------------------------------
(* Routes, pumps and old sessions.                                          *)

\* What a step of connection s does to it, and leaves of the rest.
LEMMA ConnectionFacts ==
  ASSUME IInv, NEW s \in Sessions, Arrive(s) \/ Accept(s) \/ Route(s) \/ Connection(s)
  PROVE  /\ UNCHANGED <<target, generation, pending>> /\ dead \subseteq dead'
         /\ \A r \in Sessions \ {s} : sess'[r] = sess[r] /\ pump'[r] = pump[r]
         /\ \/ sess'[s].gen = sess[s].gen /\ sess'[s].target = sess[s].target
            \/ sess'[s].gen = generation /\ sess'[s].target = target
         /\ sess'[s].phase \in InTable \cup {"routed"} =>
              \/ sess[s].phase \in InTable \cup {"routed"}
              \/ sess'[s].gen = generation /\ sess'[s].target = target
         /\ sess'[s].phase = "pump" => sess'[s].gen = generation
         /\ \/ sess'[s].phase = "pump"
            \/ pump'[s] = pump[s] /\ sess'[s].phase = "closed" /\ SocketsOf(s) \subseteq dead'
            \/ pump'[s] = pump[s] /\ sess[s].phase \notin {"pump", "closed"}
<1> USE DEF InTable, routeVars, tableVars, acceptVars, socketVars, forwardRest
<1>1. /\ sess \in [Sessions -> [phase : Phases, target : Targets, gen : Nat]]
      /\ pump \in [Sessions -> [Directions -> {"off", "recv", "send", "done"}]]
  BY DEF IInv, TypeOK
<1>2. CASE Arrive(s) BY <1>1, <1>2 DEF Arrive, Goto
<1>3. CASE Accept(s) BY <1>1, <1>3 DEF Accept, Goto
<1>4. CASE Route(s) BY <1>1, <1>4 DEF Route
<1>5. CASE Register(s) BY <1>1, <1>5 DEF Register, Goto
<1>6. CASE RegisterRefused(s) BY <1>1, <1>6 DEF RegisterRefused, Close, Goto
<1>7. CASE Connect(s) BY <1>1, <1>7 DEF Connect, Goto
<1>8. CASE ConnectFails(s) BY <1>1, <1>8 DEF ConnectFails, Close, Goto
<1>9. CASE RegisterBackend(s)
  <2>1. pump' = [pump EXCEPT ![s] = [d \in Directions |-> "recv"]] BY <1>9 DEF RegisterBackend
  <2>2. \A r \in Sessions \ {s} : pump'[r] = pump[r] BY <1>1, <2>1
  <2> QED BY <1>1, <1>9, <2>2 DEF RegisterBackend, Goto
<1>10. CASE BackendRefused(s) BY <1>1, <1>10 DEF BackendRefused, Goto
<1>11. CASE Leave(s) BY <1>1, <1>11 DEF Leave, Close, Goto
<1> QED BY <1>2, <1>3, <1>4, <1>5, <1>6, <1>7, <1>8, <1>9, <1>10, <1>11 DEF Connection

\* A connection keeps its route, and its pumps, and is not stale when it starts
\* to pump.
LEMMA ConnectionKeeps ==
  ASSUME IInv, NEW s \in Sessions, Arrive(s) \/ Accept(s) \/ Route(s) \/ Connection(s)
  PROVE  RouteKept' /\ PumpsKept' /\ StaleIsDoomed'
<1>1. generation \in Nat BY DEF IInv, TypeOK
<1>2. RouteKept' BY <1>1, ConnectionFacts DEF IInv, RouteKept
<1>3. PumpsKept'
  <2> SUFFICES ASSUME NEW r \in Sessions, NEW d \in Directions, pump'[r][d] # "off"
               PROVE  \/ sess'[r].phase = "pump"
                      \/ sess'[r].phase = "closed" /\ SocketsOf(r) \subseteq dead'
    BY DEF PumpsKept, SocketsOf
  <2>1. pump[r][d] # "off" => (sess[r].phase = "pump" \/ (sess[r].phase = "closed" /\ SocketsOf(r) \subseteq dead))
    BY DEF IInv, PumpsKept
  <2>2. CASE r = s BY <2>1, <2>2, ConnectionFacts
  <2>3. CASE r # s BY <2>1, <2>3, ConnectionFacts
  <2> QED BY <2>2, <2>3
<1>4. StaleIsDoomed'
  <2> SUFFICES ASSUME NEW r \in Sessions, sess'[r].phase = "pump", sess'[r].gen # generation'
               PROVE  Doomed(r)'
    BY DEF StaleIsDoomed
  <2>1. r # s /\ sess[r].phase = "pump" /\ sess[r].gen # generation BY ConnectionFacts
  <2>2. Doomed(r) BY <2>1 DEF IInv, StaleIsDoomed
  <2>3. dead \subseteq dead' /\ pending' = pending BY ConnectionFacts
  <2> QED BY <2>2, <2>3 DEF Doomed, SocketsOf
<1> QED BY <1>2, <1>3, <1>4

\* The sockets of a connection that pumps are in the table.
LEMMA PumpingInTable ==
  ASSUME TableExact, NEW s \in Sessions, sess[s].phase = "pump"
  PROVE  SocketsOf(s) \subseteq activeSockets
<1>1. SocketsOf(s) = {<<"client", s>>, <<"backend", s>>} BY DEF SocketsOf
<1>2. <<"client", s>> \in activeSockets /\ <<"backend", s>> \in activeSockets BY DEF TableExact, InTable
<1> QED BY <1>1, <1>2

\* select() dooms every connection that pumps; the route is current again.
LEMMA SelectKeeps ==
  ASSUME IInv, NEW x \in Selectors, Select(x)
  PROVE  RouteKept' /\ PumpsKept' /\ StaleIsDoomed'
<1>1. generation \in Nat /\ generation' = generation + 1 /\ UNCHANGED <<sess, pump, dead>>
  BY DEF Select, IInv, TypeOK, socketVars
<1>2. RouteKept'
  <2> SUFFICES ASSUME NEW s \in Sessions
               PROVE  sess'[s].gen <= generation' /\ sess'[s].gen # generation'
    BY DEF RouteKept
  <2>1. sess[s].gen <= generation /\ sess[s].gen \in Nat BY DEF IInv, RouteKept, TypeOK
  <2> QED BY <1>1, <2>1
<1>3. PumpsKept' BY <1>1 DEF IInv, PumpsKept, SocketsOf
<1>4. x \in Closers /\ pending'[x] = activeSockets BY DEF Select, IInv, TypeOK, Closers
<1>5. StaleIsDoomed'
  <2> SUFFICES ASSUME NEW s \in Sessions, sess[s].phase = "pump" PROVE Doomed(s)'
    BY <1>1 DEF StaleIsDoomed
  <2>1. SocketsOf(s) \subseteq pending'[x] BY <1>4, PumpingInTable DEF IInv
  <2> QED BY <1>4, <2>1 DEF Doomed, SocketsOf
<1> QED BY <1>2, <1>3, <1>5

\* stop() copies the table over what it had to shut down before; a shutdown
\* moves a socket from a list to dead.
LEMMA ClosersKeep ==
  ASSUME IInv, Stop \/ \E x \in Closers, k \in Socket : Shutdown(x, k)
  PROVE  RouteKept' /\ PumpsKept' /\ StaleIsDoomed'
<1>1. UNCHANGED <<target, generation, sess, pump>> /\ dead \subseteq dead'
  BY DEF Stop, Shutdown, routeVars, socketVars
<1>2. RouteKept' BY <1>1 DEF IInv, RouteKept
<1>3. PumpsKept' BY <1>1 DEF IInv, PumpsKept, SocketsOf
<1>4. StaleIsDoomed'
  <2> SUFFICES ASSUME NEW s \in Sessions, sess[s].phase = "pump", sess[s].gen # generation PROVE Doomed(s)'
    BY <1>1 DEF StaleIsDoomed
  <2>1. Doomed(s) BY DEF IInv, StaleIsDoomed
  <2>2. CASE Stop
    <3>1. Stopper \in Closers /\ pending'[Stopper] = activeSockets BY <2>2 DEF Stop, IInv, TypeOK, Closers
    <3>2. SocketsOf(s) \subseteq pending'[Stopper] BY <3>1, PumpingInTable DEF IInv
    <3> QED BY <3>1, <3>2 DEF Doomed, SocketsOf
  <2>3. ASSUME NEW x \in Closers, NEW k \in Socket, Shutdown(x, k) PROVE Doomed(s)'
    <3>1. /\ dead' = dead \cup {k}
          /\ \A y \in Closers : pending[y] \subseteq pending'[y] \cup {k}
      BY <2>3 DEF Shutdown, IInv, TypeOK
    <3> QED BY <2>1, <3>1 DEF Doomed, SocketsOf
  <2> QED BY <2>2, <2>3
<1> QED BY <1>2, <1>3, <1>4

\* The remaining steps leave routes and lists alone; a pump moves only while it
\* runs.
LEMMA OthersKeep ==
  ASSUME IInv, Elsewhere, \A x \in Selectors : ~Select(x), ~Stop,
         \A x \in Closers, k \in Socket : ~Shutdown(x, k)
  PROVE  RouteKept' /\ PumpsKept' /\ StaleIsDoomed'
<1>1. UNCHANGED <<target, generation, pending, dead>>
  BY DEF Elsewhere, Start, AcceptEnds, CloseListener, PumpRecv, PumpSend, PumpEnds, pumpRest, forwardRest,
         RemoteEnds, routeVars, socketVars
<1>2. \A s \in Sessions : /\ sess'[s].gen = sess[s].gen /\ sess'[s].target = sess[s].target
                         /\ \/ sess'[s].phase = sess[s].phase
                            \/ sess[s].phase = "backlog" /\ sess'[s].phase = "closed"
  <2>1. CASE CloseListener BY <2>1 DEF CloseListener, IInv, TypeOK
  <2>2. CASE ~CloseListener
    BY <2>2 DEF Elsewhere, Start, AcceptEnds, PumpRecv, PumpSend, PumpEnds, pumpRest, RemoteEnds
  <2> QED BY <2>1, <2>2
<1>3. \A s \in Sessions, d \in Directions : pump'[s][d] # "off" => pump[s][d] # "off"
  <2>1. ASSUME NEW r \in Sessions, NEW e \in Directions, PumpRecv(r, e) \/ PumpSend(r, e) \/ PumpEnds(r, e)
        PROVE  \A s \in Sessions, d \in Directions : pump'[s][d] # "off" => pump[s][d] # "off"
    BY <2>1 DEF PumpRecv, PumpSend, PumpEnds, SetPump, IInv, TypeOK
  <2>2. CASE UNCHANGED pump BY <2>2
  <2> QED BY <2>1, <2>2 DEF Elsewhere, Start, AcceptEnds, CloseListener, RemoteEnds
<1>4. RouteKept' BY <1>1, <1>2 DEF IInv, RouteKept, InTable
<1>5. PumpsKept'
  <2> SUFFICES ASSUME NEW s \in Sessions, NEW d \in Directions, pump'[s][d] # "off"
               PROVE  \/ sess'[s].phase = "pump"
                      \/ sess'[s].phase = "closed" /\ SocketsOf(s) \subseteq dead'
    BY DEF PumpsKept, SocketsOf
  <2>1. \/ sess[s].phase = "pump"
        \/ sess[s].phase = "closed" /\ SocketsOf(s) \subseteq dead
    BY <1>3 DEF IInv, PumpsKept
  <2> QED BY <1>1, <1>2, <2>1
<1>6. StaleIsDoomed' BY <1>1, <1>2 DEF IInv, StaleIsDoomed, Doomed, SocketsOf
<1> QED BY <1>4, <1>5, <1>6

----------------------------------------------------------------------------
\* Every step keeps the invariant.
LEMMA NextIInv == IInv /\ [Next]_vars => IInv'
<1> SUFFICES ASSUME IInv, [Next]_vars PROVE IInv' OBVIOUS
<1>1. ASSUME NEW s \in Sessions, Arrive(s) \/ Accept(s) \/ Route(s) \/ Connection(s) PROVE IInv'
  <2>1. Moves(s) /\ activeSessions' \in Int BY <1>1, ConnectionMoves DEF IInv
  <2>2. activeSessions' \in Nat /\ Counted' /\ TableExact' BY <2>1, MovesKeep DEF IInv
  <2>3. TypeOK' BY <1>1, <2>2, ConnectionTypes DEF IInv
  <2> QED BY <1>1, <2>2, <2>3, ConnectionKeeps DEF IInv
<1>2. CASE Elsewhere
  <2>1. TypeOK' /\ Counted' /\ TableExact' BY <1>2, ElsewhereTypes, ElsewhereCounts DEF IInv
  <2>2. RouteKept' /\ PumpsKept' /\ StaleIsDoomed' BY <1>2, SelectKeeps, ClosersKeep, OthersKeep
  <2> QED BY <2>1, <2>2 DEF IInv
<1>3. CASE UNCHANGED vars
  BY <1>3 DEF vars, routeVars, tableVars, acceptVars, socketVars, IInv, TypeOK, Counted, Members, TableExact,
              RouteKept, PumpsKept, StaleIsDoomed, Doomed, SocketsOf
<1> QED BY <1>1, <1>2, <1>3 DEF Next, Elsewhere

\* The inductive invariant holds in every reachable state.
LEMMA InvariantHolds == Spec => []IInv
BY InitIInv, NextIInv, PTL DEF Spec

\* The variables of the gateway keep their types; the count is never negative.
THEOREM TypesCorrect == Spec => []TypeOK
BY InvariantHolds, PTL DEF IInv

\* active_sessions is the number of connections in the table, and the table
\* holds exactly their client sockets, for any number of connections.
THEOREM CountExact == Spec => []SessionsCounted
<1>1. IInv => SessionsCounted
  BY DEF IInv, Counted, Members, TableExact, SessionsCounted, Registered, InTable
<1> QED BY InvariantHolds, <1>1, PTL

\* A registered connection of the current generation has the current target.
THEOREM RouteCurrent == Spec => []RouteOfGeneration
<1>1. IInv => RouteOfGeneration
  BY DEF IInv, RouteKept, RouteOfGeneration, Registered, InTable
<1> QED BY InvariantHolds, <1>1, PTL

\* A connection of an older route that pumps is shut down or about to be.
THEOREM StaleDoomed == Spec => []StaleIsDoomed
BY InvariantHolds, PTL DEF IInv

\* Only sendall returning takes a pump of an older route back to recv.
LEMMA ForwardIsSend ==
  ASSUME IInv, Next, NEW s \in Sessions, NEW d \in Directions,
         pump[s][d] = "send", pump'[s][d] = "recv", sess[s].gen # generation
  PROVE  PumpSend(s, d)
<1>1. pump \in [Sessions -> [Directions -> {"off", "recv", "send", "done"}]] BY DEF IInv, TypeOK
<1>2. ASSUME NEW r \in Sessions, Arrive(r) \/ Accept(r) \/ Route(r) \/ Connection(r) PROVE FALSE
  <2>1. CASE RegisterBackend(r) BY <1>1, <2>1 DEF RegisterBackend
  <2>2. CASE ~RegisterBackend(r)
    BY <1>2, <2>2 DEF Arrive, Accept, Route, Connection, Register, RegisterRefused, Connect, ConnectFails,
                      BackendRefused, Leave
  <2> QED BY <2>1, <2>2
<1>3. ASSUME NEW r \in Sessions, NEW e \in Directions, PumpRecv(r, e) \/ PumpSend(r, e) \/ PumpEnds(r, e)
      PROVE  PumpSend(s, d)
  <2>1. PICK phase \in {"recv", "send", "done"} : SetPump(r, e, phase)
    BY <1>3 DEF PumpRecv, PumpSend, PumpEnds
  <2>2. pump'[s][d] = IF r = s /\ e = d THEN phase ELSE pump[s][d] BY <1>1, <2>1 DEF SetPump
  <2>3. r = s /\ e = d BY <2>2
  <2> QED BY <1>1, <1>3, <2>3 DEF PumpRecv, PumpEnds, SetPump
<1>4. CASE UNCHANGED pump BY <1>4
<1> QED BY <1>2, <1>3, <1>4 DEF Next, Start, AcceptEnds, Stop, CloseListener, Select, Shutdown, RemoteEnds

\* Nothing of an older route is forwarded once the select() that replaced it
\* has shut down its list.
THEOREM NothingStale == Spec => NoStaleForward
<1> DEFINE Fresh == \A s \in Sessions, d \in Directions :
             pump[s][d] = "send" /\ pump'[s][d] = "recv" /\ sess[s].gen # generation
               => \E x \in Closers : Destination(s, d) \in pending[x]
<1>1. IInv /\ [Next]_vars => [Fresh]_vars
  <2> SUFFICES ASSUME IInv, Next, NEW s \in Sessions, NEW d \in Directions,
                      pump[s][d] = "send", pump'[s][d] = "recv", sess[s].gen # generation
               PROVE  \E x \in Closers : Destination(s, d) \in pending[x]
    OBVIOUS
  <2>1. PumpSend(s, d) BY ForwardIsSend
  <2>2. Destination(s, d) \in SocketsOf(s) \ dead BY <2>1 DEF PumpSend, Destination, SocketsOf
  <2>3. sess[s].phase = "pump" BY <2>2 DEF IInv, PumpsKept
  <2>4. Doomed(s) BY <2>3 DEF IInv, StaleIsDoomed
  <2> QED BY <2>2, <2>4 DEF Doomed
<1> QED BY InvariantHolds, <1>1, PTL DEF Spec, NoStaleForward
=============================================================================
