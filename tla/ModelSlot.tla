------------------------------ MODULE ModelSlot ------------------------------
(***************************************************************************)
(* What the PyMSS server promises about its model: one model serves at a   *)
(* time, the requests it answers with a result use it one after the other, *)
(* each to its end on the model it began with, and a switch waits for the  *)
(* one that runs before the next model serves.                             *)
(***************************************************************************)
CONSTANTS Models, Users, NoModel

VARIABLES
  serving,   \* the model that serves, if any
  using      \* the user whose separation is awaited, with its model

slotVars == <<serving, using>>

SlotInit == serving \in Models /\ using = {}

\* A user may begin only on the model that serves.
Use(u) ==
  /\ using = {} /\ serving # NoModel
  /\ using' = {<<u, serving>>}
  /\ UNCHANGED serving

Done == using # {} /\ using' = {} /\ UNCHANGED serving

\* A switch takes the model out of service at once, whoever uses it.
Retire == serving # NoModel /\ serving' = NoModel /\ UNCHANGED using

\* The next model serves when nobody uses the old one.
Publish(m) == serving = NoModel /\ using = {} /\ serving' = m /\ UNCHANGED using

SlotNext ==
  \/ \E u \in Users : Use(u)
  \/ Done
  \/ Retire
  \/ \E m \in Models : Publish(m)

SlotSpec == SlotInit /\ [][SlotNext]_slotVars
=============================================================================
