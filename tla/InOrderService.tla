--------------------------- MODULE InOrderService ---------------------------
(***************************************************************************)
(* What a session promises to the peer whose blocks it converts: it holds   *)
(* at most Limit of them and refuses one only when it is full, or would be  *)
(* but for the block it has just converted; it converts them in their order,*)
(* each with the setting in force when it was accepted; and the only block  *)
(* it loses while it works is the one in whose conversion it stops.         *)
(***************************************************************************)
EXTENDS Integers, Sequences

CONSTANTS
  Limit,      \* blocks held at most
  Numbers,    \* the numbers of blocks
  Settings, Default

VARIABLES
  offered,    \* the numbers of the blocks accepted and refused
  held,       \* the blocks accepted and not converted, in order
  converted,  \* the blocks converted, each with its setting
  setting,    \* the setting in force
  working     \* blocks are being converted

serviceVars == <<offered, held, converted, setting, working>>

ServiceInit ==
  /\ offered = {} /\ held = <<>> /\ converted = {}
  /\ setting = Default /\ working = TRUE

\* A block follows all those that were offered before it.
Offer(n) == /\ \A m \in offered : m < n
            /\ offered' = offered \cup {n}
            /\ UNCHANGED <<converted, setting, working>>

Accept(n) == Offer(n) /\ Len(held) < Limit /\ held' = Append(held, <<n, setting>>)

Refuse(n) == Offer(n) /\ Len(held) >= Limit - 1 /\ UNCHANGED held

Change(s) == setting' = s /\ UNCHANGED <<offered, held, converted, working>>

Convert ==
  /\ working /\ held # <<>>
  /\ converted' = converted \cup {Head(held)}
  /\ held' = Tail(held)
  /\ UNCHANGED <<offered, setting, working>>

\* The conversion of a block fails, or nothing is left to convert.
Stop ==
  /\ working /\ working' = FALSE
  /\ held' = IF held = <<>> THEN held ELSE Tail(held)
  /\ UNCHANGED <<offered, converted, setting>>

ServiceNext ==
  \/ \E n \in Numbers : Accept(n) \/ Refuse(n)
  \/ \E s \in Settings : Change(s)
  \/ Convert
  \/ Stop

ServiceSpec == ServiceInit /\ [][ServiceNext]_serviceVars
=============================================================================
