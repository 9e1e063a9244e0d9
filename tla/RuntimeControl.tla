--------------------------- MODULE RuntimeControl ---------------------------
(***************************************************************************)
(* The choice of the runtime the Audio Unit talks to.  The control page     *)
(* (rvc_runtime_control.py) runs one thread per request, the WebUI's own    *)
(* select_rvc_runtime another; both look the choice up among the services   *)
(* Bonjour found (rvc_runtime_bonjour.py), ask dns-sd where it is, change   *)
(* the route of RsvcGateway and then the label that names the selection.    *)
(* The Audio Unit's panel (RuntimeControlClient_mac.cpp) gives its request  *)
(* 350 ms and takes a missing answer for a failure; the thread goes on.     *)
(***************************************************************************)
EXTENDS RsvcGateway

CONSTANTS
  Local,        \* LOCAL_CHOICE
  Self,         \* the service this WebUI advertises itself
  Remotes,      \* the services of other hosts
  Home,         \* the host and port of the own runtime
  Places,       \* where a remote service may answer
  PanelThreads, \* the threads that answer the panel; the others serve the WebUI
  NoChoice

Services == Remotes \cup {Self}
Choices == Services \cup {Local}

\* A RuntimeTarget: the choice it was resolved for, and the address.
ASSUME ChoicesAssumption == /\ Targets = ({Local, Self} \X {Home}) \cup (Remotes \X Places)
                            /\ Local \notin Services /\ NoChoice \notin Choices
                            /\ PanelThreads \subseteq Selectors

VARIABLES
  services,   \* _services
  selected,   \* _selected_choice
  sel,        \* each thread inside select()
  panel,      \* the panel: the thread whose answer it awaits, what it shows
  page,       \* the control page: "off", "on" or "closed"
  recent      \* history: what the selections that overlapped last chose

controlVars == <<services, selected, sel, panel, page, recent>>
allVars == <<vars, controlVars>>

NoTarget == <<Local, Home>>
NoThread == [at |-> "free", choice |-> NoChoice, target |-> NoTarget]

Labelling(x) == sel[x].at = "label"
Over(x) == sel[x].at \in {"ok", "error", "raised"}
Goes(x, at) == sel' = [sel EXCEPT ![x].at = at]

-----------------------------------------------------------------------------
(* The main block of webui.py: the gateway, then the page; the page ends    *)
(* first, its daemon threads are not joined.                                *)

PageStarts ==
  /\ page = "off" /\ listening
  /\ page' = "on"
  /\ UNCHANGED <<vars, services, selected, sel, panel, recent>>

PageStops ==
  /\ page = "on"
  /\ page' = "closed"
  /\ UNCHANGED <<vars, services, selected, sel, panel, recent>>

\* _read_browser: one line of dns-sd -B.  A service that is announced on two
\* interfaces goes with the first Rmv.
BrowserLine(service) ==
  /\ page = "on"
  /\ services' \in {services \cup {service}, services \ {service}}
  /\ UNCHANGED <<vars, selected, sel, panel, page, recent>>

-----------------------------------------------------------------------------
(* Requests.  A menu may be older than the directory.                       *)

Begin(x, choice) ==
  /\ page = "on" /\ sel[x].at = "free"
  /\ sel' = [sel EXCEPT ![x].at = "find", ![x].choice = choice]

PanelSelects(x, choice) ==
  /\ x \in PanelThreads /\ panel.awaits = "nobody"
  /\ Begin(x, choice)
  /\ panel' = [panel EXCEPT !.awaits = x]
  /\ UNCHANGED <<vars, services, selected, page, recent>>

WebSelects(x, choice) ==
  /\ x \notin PanelThreads
  /\ Begin(x, choice)
  /\ UNCHANGED <<vars, services, selected, panel, page, recent>>

\* The receive timeout of the panel's socket.
PanelTimesOut ==
  /\ panel.awaits # "nobody"
  /\ panel' = [awaits |-> "nobody", shows |-> "failed"]
  /\ UNCHANGED <<vars, services, selected, sel, page, recent>>

\* OK, an error 400, or a connection that a raising handler closed.
PanelAnswered ==
  /\ panel.awaits # "nobody" /\ Over(panel.awaits)
  /\ panel' = [awaits |-> "nobody",
               shows |-> IF sel[panel.awaits].at = "ok" THEN sel[panel.awaits].choice ELSE "failed"]
  /\ UNCHANGED <<vars, services, selected, sel, page, recent>>

-----------------------------------------------------------------------------
(* select().                                                                *)

\* Mutant: the label is stored before the choice is resolved.
FindStoresLabel(x) ==
  /\ sel[x].at = "find"
  /\ LET choice == sel[x].choice
     IN  /\ selected' = choice
         /\ \/ /\ choice = Local \/ (choice = Self /\ Self \in services)
               /\ sel' = [sel EXCEPT ![x].at = "route", ![x].target = <<choice, Home>>]
            \/ choice \in Services \ services /\ Goes(x, "error")
            \/ choice \in Remotes \cap services /\ Goes(x, "resolve")
  /\ UNCHANGED <<vars, services, panel, page, recent>>

\* resolve() up to dns-sd -L: the own runtime needs none, a service that is
\* no longer in the directory raises ValueError.
Find(x) ==
  /\ sel[x].at = "find"
  /\ LET choice == sel[x].choice
     IN  \/ /\ choice = Local \/ (choice = Self /\ Self \in services)
            /\ sel' = [sel EXCEPT ![x].at = "route", ![x].target = <<choice, Home>>]
         \/ choice \in Services \ services /\ Goes(x, "error")
         \/ choice \in Remotes \cap services /\ Goes(x, "resolve")
  /\ UNCHANGED <<vars, services, selected, panel, page, recent>>

\* dns-sd -L never ends by itself: communicate() waits its three seconds and
\* terminates it.  Its output has an address or not (RuntimeError); a second
\* TimeoutExpired is not among the exceptions the handlers expect.
Resolve(x) ==
  /\ sel[x].at = "resolve"
  /\ \/ \E place \in Places :
          sel' = [sel EXCEPT ![x].at = "route", ![x].target = <<sel[x].choice, place>>]
     \/ Goes(x, "error")
     \/ Goes(x, "raised")
  /\ UNCHANGED <<vars, services, selected, panel, page, recent>>

\* gateway.select() up to its first shutdown.
ChangeRoute(x) ==
  /\ sel[x].at = "route"
  /\ Select(x) /\ target' = sel[x].target
  /\ Goes(x, "label")
  /\ recent' = {sel[x].choice} \cup (IF \E y \in Selectors : Labelling(y) THEN recent ELSE {})
  /\ UNCHANGED <<services, selected, panel, page>>

\* The sockets are shut down; the label follows under the lock of the page.
Label(x) ==
  /\ Labelling(x) /\ pending[x] = {}
  /\ selected' = sel[x].choice
  /\ Goes(x, "probe")
  /\ UNCHANGED <<vars, services, panel, page, recent>>

\* snapshot() asks the runtime for its models, 0.75 s at most, and the answer
\* is sent.
Snapshot(x) ==
  /\ sel[x].at = "probe"
  /\ Goes(x, "ok")
  /\ UNCHANGED <<vars, services, selected, panel, page, recent>>

SelectStep(x) == Find(x) \/ Resolve(x) \/ ChangeRoute(x) \/ Label(x) \/ Snapshot(x)

-----------------------------------------------------------------------------
ControlInit ==
  /\ Init /\ target = NoTarget
  /\ services = {} /\ selected = Local
  /\ sel = [x \in Selectors |-> NoThread]
  /\ panel = [awaits |-> "nobody", shows |-> NoChoice]
  /\ page = "off" /\ recent = {Local}

\* The steps of the gateway but select(), which the threads above take.
GatewayStep ==
  \/ page = "off" /\ Start
  \/ page = "closed" /\ (Stop \/ CloseListener)
  \/ AcceptEnds
  \/ \E s \in Sessions : Arrive(s) \/ Accept(s) \/ Route(s) \/ Connection(s)
  \/ \E s \in Sessions, d \in Directions : PumpRecv(s, d) \/ PumpSend(s, d) \/ PumpEnds(s, d)
  \/ \E x \in Closers, k \in Socket : Shutdown(x, k)
  \/ \E k \in Socket : RemoteEnds(k)

ControlNext ==
  \/ GatewayStep /\ UNCHANGED controlVars
  \/ PageStarts \/ PageStops
  \/ \E service \in Services : BrowserLine(service)
  \/ \E x \in Selectors, choice \in Choices : PanelSelects(x, choice) \/ WebSelects(x, choice)
  \/ PanelTimesOut \/ PanelAnswered
  \/ \E x \in Selectors : SelectStep(x)

ControlSpec == ControlInit /\ [][ControlNext]_allVars

-----------------------------------------------------------------------------
(* Properties.                                                              *)

ControlTypeOK ==
  /\ TypeOK
  /\ services \subseteq Services /\ selected \in Choices
  /\ sel \in [Selectors ->
       [at : {"free", "find", "resolve", "route", "label", "probe", "ok", "error", "raised"},
        choice : Choices \cup {NoChoice}, target : Targets]]
  /\ panel \in [awaits : Selectors \cup {"nobody"}, shows : Choices \cup {NoChoice, "failed"}]
  /\ page \in {"off", "on", "closed"} /\ recent \subseteq Choices

\* Once no thread is between the route and the label, both are of the last
\* selections that changed the route: the same one, if it overlapped with no
\* other there, also after selections that found nothing, could not be resolved
\* or lost their client; and of those that did overlap, which nothing in
\* select() prevents, they may name two, but never an older one.
LabelNamesRoute ==
  (\A x \in Selectors : ~Labelling(x)) => selected \in recent /\ target[1] \in recent

\* 20260904-1500__au-runtime-selection-ui: after a selection the panel shows the
\* name that was selected.  Nobody else selects; once every thread is done, the
\* name in the panel is the one the WebUI shows.
PanelShowsSelection ==
  (\A x \in Selectors : sel[x].at = "free" \/ Over(x)) /\ panel.awaits = "nobody"
      /\ panel.shows \in Choices
    => panel.shows = selected
=============================================================================
