-------------------------- MODULE MCRuntimeControl --------------------------
(***************************************************************************)
(* RuntimeControl for TLC, with the targets its choices can be resolved to. *)
(* Two parts of its behaviours are explored side by side, whose product is  *)
(* out of reach: selections of every kind while no connection is made, and  *)
(* connections in every phase around selections the directory answers at   *)
(* once.  A thread reads nothing of a connection but the lists of sockets   *)
(* it shuts down, and a connection nothing of a thread but the route.       *)
(***************************************************************************)
EXTENDS RuntimeControl

MCTargets == ({Local, Self} \X {Home}) \cup (Remotes \X Places)

NoConnection == \A s \in Sessions : sess[s].phase = "absent"
PlainSelections ==
  /\ services = {Self} /\ panel.shows = NoChoice
  /\ \A x \in Selectors : sel[x].at \notin {"resolve", "error", "ok"}
  /\ \A x, y \in Selectors :
       /\ sel[x].choice \in {Local, Self, NoChoice}
       /\ x # y /\ sel[x].choice = sel[y].choice => sel[x].choice = NoChoice

MCNext == ControlNext /\ (NoConnection \/ PlainSelections)'

\* The fair steps are those of the gateway, which the two parts never block.
MCSpec == ControlInit /\ [][MCNext]_allVars /\ Fairness
=============================================================================
