------------------------ MODULE RuntimeControl_proofs ------------------------
(***************************************************************************)
(* Proofs about RuntimeControl for any number of requests and services: the *)
(* composition is a behaviour of the gateway, so that what is proved of the *)
(* gateway holds of it, and the label and the route are of the last          *)
(* selections.                                                              *)
(***************************************************************************)
EXTENDS RuntimeControl, RsvcGateway_proofs

----------------------------------------------------------------------------
(* Every step of the composition is a step of the gateway or leaves it.     *)

\* A GatewayStep is a step of the gateway: start and stop only come at fewer
\* moments.
LEMMA GatewaySteps == ASSUME GatewayStep PROVE Next
<1>1. CASE \E s \in Sessions : Arrive(s) \/ Accept(s) \/ Route(s) \/ Connection(s) BY <1>1 DEF Next
<1>2. CASE \E s \in Sessions, d \in Directions : PumpRecv(s, d) \/ PumpSend(s, d) \/ PumpEnds(s, d)
  BY <1>2 DEF Next
<1>3. CASE \E x \in Closers, k \in Socket : Shutdown(x, k) BY <1>3 DEF Next
<1>4. CASE \E k \in Socket : RemoteEnds(k) BY <1>4 DEF Next
<1>5. CASE Start \/ Stop \/ CloseListener \/ AcceptEnds BY <1>5 DEF Next
<1> QED BY <1>1, <1>2, <1>3, <1>4, <1>5 DEF GatewayStep

\* The other steps of the page, the panel and the requests leave the gateway.
PageStep ==
  \/ PageStarts \/ PageStops
  \/ \E service \in Services : BrowserLine(service)
  \/ \E x \in Selectors, choice \in Choices : PanelSelects(x, choice) \/ WebSelects(x, choice)
  \/ PanelTimesOut \/ PanelAnswered
  \/ \E x \in Selectors : Find(x) \/ Resolve(x) \/ Label(x) \/ Snapshot(x)

\* A step of the page alone moves nothing of the gateway.
LEMMA PageSteps == ASSUME PageStep PROVE UNCHANGED vars
BY DEF PageStep, PageStarts, PageStops, BrowserLine, PanelSelects, WebSelects, PanelTimesOut, PanelAnswered,
       Find, Resolve, Label, Snapshot

\* The steps of the composition, by what they do to the gateway.
LEMMA ControlSteps ==
  ASSUME ControlNext
  PROVE  \/ GatewayStep /\ UNCHANGED controlVars
         \/ PageStep
         \/ \E x \in Selectors : ChangeRoute(x)
BY DEF ControlNext, PageStep, SelectStep

\* The composition implements the gateway.
THEOREM ControlImplementsGateway == ControlSpec => Spec
<1>1. ControlInit => Init BY DEF ControlInit
<1>2. [ControlNext]_allVars => [Next]_vars
  <2> SUFFICES ASSUME [ControlNext]_allVars PROVE [Next]_vars OBVIOUS
  <2>1. CASE UNCHANGED allVars BY <2>1 DEF allVars
  <2>2. CASE GatewayStep BY <2>2, GatewaySteps
  <2>3. CASE PageStep BY <2>3, PageSteps
  <2>4. CASE \E x \in Selectors : ChangeRoute(x) BY <2>4 DEF ChangeRoute, Next
  <2> QED BY <2>1, <2>2, <2>3, <2>4, ControlSteps
<1> QED BY <1>1, <1>2, PTL DEF ControlSpec, Spec

\* The gateway keeps its promises under the control page: the count is exact,
\* the route is the current one, nothing of an old route is forwarded.
THEOREM ControlKeepsGateway == ControlSpec => [](SessionsCounted /\ RouteOfGeneration) /\ NoStaleForward
BY ControlImplementsGateway, CountExact, RouteCurrent, NothingStale, PTL

----------------------------------------------------------------------------
(* The label.                                                               *)

\* A thread that is about to change the route, or has changed it, resolved the
\* target for the choice it was asked for.
TargetOfChoice ==
  \A x \in Selectors : sel[x].at \in {"route", "label"} => sel[x].target[1] = sel[x].choice

\* The route and the threads that are about to store a label are of the last
\* selections, and so is the label when there is no such thread.
OfRecent ==
  /\ target[1] \in recent
  /\ \A x \in Selectors : Labelling(x) => sel[x].choice \in recent
  /\ (\A x \in Selectors : ~Labelling(x)) => selected \in recent

SelPlaces == {"free", "find", "resolve", "route", "label", "probe", "ok", "error", "raised"}

SelTypes ==
  /\ sel \in [Selectors -> [at : SelPlaces, choice : Choices \cup {NoChoice}, target : Targets]]
  /\ \A x \in Selectors : /\ sel[x].at \notin {"free"} => sel[x].choice \in Choices
                          /\ sel[x].at = "resolve" => sel[x].choice \in Remotes

LabelInv == SelTypes /\ TargetOfChoice /\ OfRecent

\* Nothing is selected at the start but the own runtime.
LEMMA InitLabel == ControlInit => LabelInv
<1> SUFFICES ASSUME ControlInit PROVE LabelInv OBVIOUS
<1>1. NoTarget \in Targets BY ChoicesAssumption DEF NoTarget
<1>2. SelTypes BY <1>1 DEF ControlInit, SelTypes, NoThread, SelPlaces
<1>3. TargetOfChoice BY DEF ControlInit, TargetOfChoice, NoThread
<1>4. OfRecent BY DEF ControlInit, OfRecent, Labelling, NoThread, NoTarget
<1> QED BY <1>2, <1>3, <1>4 DEF LabelInv

\* A step that leaves the requests, the label and the target keeps the invariant.
LEMMA LabelRests == ASSUME LabelInv, UNCHANGED <<sel, selected, target, recent>> PROVE LabelInv'
BY DEF LabelInv, SelTypes, TargetOfChoice, OfRecent, Labelling

\* A thread moves elsewhere than to or from the label, and the route stays.
LEMMA LabelAside ==
  ASSUME LabelInv, SelTypes', TargetOfChoice', NEW x \in Selectors, UNCHANGED <<selected, target, recent>>,
         \A y \in Selectors \ {x} : sel'[y] = sel[y], ~Labelling(x), ~Labelling(x)'
  PROVE  LabelInv'
BY DEF LabelInv, OfRecent, Labelling

\* The steps of a request before it changes the route, and after the label.
LEMMA RequestAside ==
  ASSUME LabelInv, NEW x \in Selectors,
         (\E choice \in Choices : Begin(x, choice)) \/ Find(x) \/ Resolve(x) \/ Snapshot(x),
         UNCHANGED <<selected, target, recent>>
  PROVE  LabelInv'
<1> USE DEF LabelInv, SelTypes, SelPlaces
<1>1. ASSUME NEW choice \in Choices, Begin(x, choice) PROVE LabelInv'
  <2>1. SelTypes' BY <1>1 DEF Begin
  <2>2. TargetOfChoice' BY <1>1 DEF Begin, TargetOfChoice
  <2> QED BY <1>1, <2>1, <2>2, LabelAside DEF Begin, Labelling
<1>2. CASE Find(x)
  <2> DEFINE choice == sel[x].choice
  <2>1. choice \in Choices BY <1>2 DEF Find
  <2>2. CASE (choice = Local \/ choice = Self) /\ sel' = [sel EXCEPT ![x].at = "route", ![x].target = <<choice, Home>>]
    <3>1. <<choice, Home>> \in Targets BY <2>2, ChoicesAssumption
    <3>2. SelTypes' BY <2>1, <2>2, <3>1
    <3>3. TargetOfChoice' BY <2>2 DEF TargetOfChoice
    <3> QED BY <1>2, <2>2, <3>2, <3>3, LabelAside DEF Find, Labelling
  <2>3. CASE Goes(x, "error")
    <3>1. SelTypes' BY <2>1, <2>3 DEF Goes
    <3>2. TargetOfChoice' BY <2>3 DEF Goes, TargetOfChoice
    <3> QED BY <1>2, <2>3, <3>1, <3>2, LabelAside DEF Find, Goes, Labelling
  <2>4. CASE choice \in Remotes /\ Goes(x, "resolve")
    <3>1. SelTypes' BY <2>1, <2>4 DEF Goes
    <3>2. TargetOfChoice' BY <2>4 DEF Goes, TargetOfChoice
    <3> QED BY <1>2, <2>4, <3>1, <3>2, LabelAside DEF Find, Goes, Labelling
  <2> QED BY <1>2, <2>2, <2>3, <2>4 DEF Find
<1>3. CASE Resolve(x)
  <2>1. sel[x].choice \in Choices /\ sel[x].choice \in Remotes BY <1>3 DEF Resolve
  <2>2. ASSUME NEW place \in Places, sel' = [sel EXCEPT ![x].at = "route", ![x].target = <<sel[x].choice, place>>]
        PROVE  LabelInv'
    <3>1. <<sel[x].choice, place>> \in Targets BY <2>1, ChoicesAssumption
    <3>2. SelTypes' BY <2>1, <2>2, <3>1
    <3>3. TargetOfChoice' BY <2>2 DEF TargetOfChoice
    <3> QED BY <1>3, <2>2, <3>2, <3>3, LabelAside DEF Resolve, Labelling
  <2>3. ASSUME NEW at \in {"error", "raised"}, Goes(x, at) PROVE LabelInv'
    <3>1. SelTypes' BY <2>1, <2>3 DEF Goes
    <3>2. TargetOfChoice' BY <2>3 DEF Goes, TargetOfChoice
    <3> QED BY <1>3, <2>3, <3>1, <3>2, LabelAside DEF Resolve, Goes, Labelling
  <2> QED BY <1>3, <2>2, <2>3 DEF Resolve
<1>4. CASE Snapshot(x)
  <2>1. SelTypes' BY <1>4 DEF Snapshot, Goes
  <2>2. TargetOfChoice' BY <1>4 DEF Snapshot, Goes, TargetOfChoice
  <2> QED BY <1>4, <2>1, <2>2, LabelAside DEF Snapshot, Goes, Labelling
<1> QED BY <1>1, <1>2, <1>3, <1>4

\* The route is this thread's now; threads that label at that moment stay recent.
LEMMA ChangeRouteLabel == ASSUME LabelInv, NEW x \in Selectors, ChangeRoute(x) PROVE LabelInv'
<1>1. SelTypes' BY DEF LabelInv, SelTypes, SelPlaces, ChangeRoute, Goes
<1>2. TargetOfChoice' BY DEF LabelInv, SelTypes, TargetOfChoice, ChangeRoute, Goes
<1>3. /\ target' = sel[x].target /\ Labelling(x)' /\ sel'[x].choice = sel[x].choice
      /\ \A y \in Selectors \ {x} : sel'[y] = sel[y]
  BY DEF LabelInv, SelTypes, ChangeRoute, Goes, Labelling
<1>4. sel[x].target[1] = sel[x].choice BY DEF LabelInv, TargetOfChoice, ChangeRoute
<1>5. /\ sel[x].choice \in recent'
      /\ \A y \in Selectors : Labelling(y) => recent \subseteq recent'
  BY DEF ChangeRoute
<1>6. \A y \in Selectors \ {x} : Labelling(y)' => sel'[y].choice \in recent'
  BY <1>3, <1>5 DEF LabelInv, OfRecent, Labelling
<1>7. OfRecent' BY <1>3, <1>4, <1>5, <1>6 DEF OfRecent
<1> QED BY <1>1, <1>2, <1>7 DEF LabelInv

\* The label becomes the choice of this thread, which is a recent one.
LEMMA LabelLabel == ASSUME LabelInv, NEW x \in Selectors, Label(x) PROVE LabelInv'
<1>1. SelTypes' BY DEF LabelInv, SelTypes, SelPlaces, Label, Labelling, Goes
<1>2. TargetOfChoice' BY DEF LabelInv, SelTypes, TargetOfChoice, Label, Goes
<1>3. ~Labelling(x)' /\ \A y \in Selectors \ {x} : sel'[y] = sel[y]
  BY DEF LabelInv, SelTypes, Label, Goes, Labelling
<1>4. target' = target /\ recent' = recent /\ selected' = sel[x].choice BY DEF Label, vars, routeVars
<1>5. sel[x].choice \in recent BY DEF LabelInv, OfRecent, Label
<1>6. OfRecent' BY <1>3, <1>4, <1>5 DEF LabelInv, OfRecent, Labelling
<1> QED BY <1>1, <1>2, <1>6 DEF LabelInv

\* Every step keeps the invariant.
LEMMA NextLabel == LabelInv /\ [ControlNext]_allVars => LabelInv'
<1> SUFFICES ASSUME LabelInv, [ControlNext]_allVars PROVE LabelInv' OBVIOUS
<1>1. CASE UNCHANGED allVars
  BY <1>1, LabelRests DEF allVars, controlVars, vars, routeVars
<1>2. CASE GatewayStep /\ UNCHANGED controlVars
  <2>1. UNCHANGED target
    BY <1>2 DEF GatewayStep, Start, Stop, CloseListener, AcceptEnds, Arrive, Accept, Route, Connection, Register,
      RegisterRefused, Connect, ConnectFails, RegisterBackend, BackendRefused, Leave, PumpRecv, PumpSend, PumpEnds,
      Shutdown, RemoteEnds, pumpRest, forwardRest, routeVars
  <2> QED BY <1>2, <2>1, LabelRests DEF controlVars
<1>3. CASE PageStep
  <2>1. UNCHANGED target BY <1>3, PageSteps DEF vars, routeVars
  <2>2. CASE PageStarts \/ PageStops \/ (\E service \in Services : BrowserLine(service)) \/ PanelTimesOut
               \/ PanelAnswered
    BY <2>1, <2>2, LabelRests DEF PageStarts, PageStops, BrowserLine, PanelTimesOut, PanelAnswered
  <2>3. ASSUME NEW x \in Selectors, NEW choice \in Choices, PanelSelects(x, choice) \/ WebSelects(x, choice)
        PROVE  LabelInv'
    BY <2>1, <2>3, RequestAside DEF PanelSelects, WebSelects
  <2>4. ASSUME NEW x \in Selectors, Find(x) \/ Resolve(x) \/ Snapshot(x) PROVE LabelInv'
    BY <2>1, <2>4, RequestAside DEF Find, Resolve, Snapshot
  <2>5. ASSUME NEW x \in Selectors, Label(x) PROVE LabelInv' BY <2>5, LabelLabel
  <2> QED BY <1>3, <2>2, <2>3, <2>4, <2>5 DEF PageStep
<1>4. CASE \E x \in Selectors : ChangeRoute(x) BY <1>4, ChangeRouteLabel
<1> QED BY <1>1, <1>2, <1>3, <1>4, ControlSteps

\* For any number of requests, services and selections: the label and the route
\* are of the selections that overlapped last between the two; a selection that
\* overlapped with none leaves both its own.
THEOREM LabelOfRoute == ControlSpec => []LabelNamesRoute
<1>1. LabelInv => LabelNamesRoute BY DEF LabelInv, OfRecent, LabelNamesRoute
<1> QED BY InitLabel, NextLabel, <1>1, PTL DEF ControlSpec

\* What it says of a selection that was alone: the label names the route.
COROLLARY LabelOfAlone ==
  ControlSpec => [](\A choice \in Choices :
    recent = {choice} /\ (\A x \in Selectors : ~Labelling(x)) => selected = choice /\ target[1] = choice)
<1>1. LabelNamesRoute => \A choice \in Choices :
        recent = {choice} /\ (\A x \in Selectors : ~Labelling(x)) => selected = choice /\ target[1] = choice
  BY DEF LabelNamesRoute
<1> QED BY LabelOfRoute, <1>1, PTL
=============================================================================
