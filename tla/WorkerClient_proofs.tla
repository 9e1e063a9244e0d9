------------------------ MODULE WorkerClient_proofs ------------------------
(***************************************************************************)
(* Proofs about WorkerClient: its types, that the management thread never   *)
(* resets the rings under a callback, that a session it keeps has the       *)
(* settings in force, and that a new ring generation is flagged, for every  *)
(* number of callbacks, every frame count and every ring size.  For a host  *)
(* that makes one call at a time: that an offline call finds its output or  *)
(* has it on the way, one latency late as long as no call gave up.          *)
(***************************************************************************)
EXTENDS WorkerClient, FiniteSetTheorems, TLAPS

\* A callback between its fetch_add on audioRingUsers and its fetch_sub.
JoinedAt(place) == \/ place.step \in {"recheck", "ring"}
                   \/ place.op \in {"space", "output"} /\ place.step \in {"eval", "doze", "asleep"}
Users(calls) == {c \in Callbacks : JoinedAt(calls[c])}

\* audioRingUsers counts them.
UsersCounted == audioRingUsers = Cardinality(Users(call))

\* From the moment the management thread lowers ready until it raises it.
Generation == {"launch", "configure", "wait", "reset", "publish", "raise"}
NotReady == mpc \in Generation => ~ready

\* Only the three waits of processOffline evaluate a predicate.
OnlyOfflineWaits ==
  \A c \in Callbacks : call[c].step \in {"eval", "doze", "asleep"} => call[c].op \in {"ready", "space", "output"}

SessionOpen == mpc \notin {"loop", "launch", "ended"} =>
                 session \in [shape : Shapes, hot : Hots \cup {NoSession}, stream : SUBSET Nat]

IInv == TypeOK /\ UsersCounted /\ NotReady /\ OnlyOfflineWaits /\ SessionOpen /\ RingExclusion

USE CallbacksAssumption, FramesAssumption

----------------------------------------------------------------------------
(* The count of the callbacks in the rings.                                 *)

\* There are finitely many callbacks in the rings.
LEMMA UsersFinite == ASSUME NEW calls PROVE IsFiniteSet(Users(calls)) /\ Cardinality(Users(calls)) \in Nat
<1>1. Users(calls) \subseteq Callbacks BY DEF Users
<1> QED BY <1>1, FS_Subset, FS_CardinalityType

\* One callback moves: the count changes as that callback joins or leaves.
LEMMA UsersStep ==
  ASSUME NEW old, NEW new, NEW c \in Callbacks,
         \A d \in Callbacks \ {c} : JoinedAt(new[d]) <=> JoinedAt(old[d])
  PROVE  /\ JoinedAt(new[c]) /\ ~JoinedAt(old[c]) => Cardinality(Users(new)) = Cardinality(Users(old)) + 1
         /\ ~JoinedAt(new[c]) /\ JoinedAt(old[c]) => Cardinality(Users(new)) = Cardinality(Users(old)) - 1
         /\ (JoinedAt(new[c]) <=> JoinedAt(old[c])) => Cardinality(Users(new)) = Cardinality(Users(old))
<1>1. JoinedAt(new[c]) /\ ~JoinedAt(old[c]) => Cardinality(Users(new)) = Cardinality(Users(old)) + 1
  <2> SUFFICES ASSUME JoinedAt(new[c]), ~JoinedAt(old[c])
               PROVE  Cardinality(Users(new)) = Cardinality(Users(old)) + 1
    OBVIOUS
  <2>1. Users(new) = Users(old) \cup {c} BY DEF Users
  <2>2. c \notin Users(old) BY DEF Users
  <2> QED BY <2>1, <2>2, UsersFinite, FS_AddElement
<1>2. ~JoinedAt(new[c]) /\ JoinedAt(old[c]) => Cardinality(Users(new)) = Cardinality(Users(old)) - 1
  <2> SUFFICES ASSUME ~JoinedAt(new[c]), JoinedAt(old[c])
               PROVE  Cardinality(Users(new)) = Cardinality(Users(old)) - 1
    OBVIOUS
  <2>1. Users(new) = Users(old) \ {c} BY DEF Users
  <2>2. c \in Users(old) BY DEF Users
  <2> QED BY <2>1, <2>2, UsersFinite, FS_RemoveElement
<1>3. (JoinedAt(new[c]) <=> JoinedAt(old[c])) => Cardinality(Users(new)) = Cardinality(Users(old))
  <2> SUFFICES ASSUME JoinedAt(new[c]) <=> JoinedAt(old[c]) PROVE Users(new) = Users(old)
    OBVIOUS
  <2> QED BY DEF Users
<1> QED BY <1>1, <1>2, <1>3

\* A notification moves callbacks, but none into or out of the rings.
LEMMA WokenKeeps ==
  ASSUME NEW calls \in [Callbacks -> [op : Ops, step : Steps, offline : BOOLEAN, mode : Nat]]
  PROVE  /\ Woken(calls) \in [Callbacks -> [op : Ops, step : Steps, offline : BOOLEAN, mode : Nat]]
         /\ \A c \in Callbacks : /\ Woken(calls)[c].op = calls[c].op
                                 /\ Woken(calls)[c].step = IF calls[c].step = "asleep" THEN "eval" ELSE calls[c].step
                                 /\ JoinedAt(Woken(calls)[c]) <=> JoinedAt(calls[c])
<1>1. ASSUME NEW c \in Callbacks
      PROVE  /\ Woken(calls)[c] \in [op : Ops, step : Steps, offline : BOOLEAN, mode : Nat]
             /\ Woken(calls)[c].op = calls[c].op
             /\ Woken(calls)[c].step = IF calls[c].step = "asleep" THEN "eval" ELSE calls[c].step
  BY DEF Woken, Steps
<1>2. Woken(calls) = [c \in Callbacks |-> Woken(calls)[c]] BY DEF Woken
<1> QED BY <1>1, <1>2 DEF JoinedAt

----------------------------------------------------------------------------
\* At the start no callback is in the rings, and ready is low.
LEMMA InitIInv == Init => IInv
<1> SUFFICES ASSUME Init PROVE IInv OBVIOUS
<1>1. TypeOK
  <2>1. Idle \in [op : Ops, step : Steps, offline : BOOLEAN, mode : Nat] BY DEF Idle, Ops, Steps
  <2>2. call \in [Callbacks -> [op : Ops, step : Steps, offline : BOOLEAN, mode : Nat]]
    BY <2>1 DEF Init
  <2>3. 0 \in 0..RingCapacity OBVIOUS
  <2> QED BY <2>2, <2>3 DEF Init, TypeOK, MgmtPhases
<1>2. Users(call) = {} BY DEF Init, Users, JoinedAt, Idle
<1>3. UsersCounted BY <1>2, FS_EmptySet DEF Init, UsersCounted
<1> QED BY <1>1, <1>3 DEF Init, IInv, NotReady, Generation, OnlyOfflineWaits, SessionOpen,
                          RingExclusion, Inside, Idle

----------------------------------------------------------------------------
(* Types.                                                                   *)

CallType == [op : Ops, step : Steps, offline : BOOLEAN, mode : Nat]

\* A callback that goes on to another step of an operation keeps its type.
LEMMA GotoType ==
  ASSUME NEW calls \in [Callbacks -> CallType], NEW c \in Callbacks, NEW op \in Ops, NEW step \in Steps
  PROVE  [calls EXCEPT ![c].op = op, ![c].step = step] \in [Callbacks -> CallType]
BY DEF CallType

\* A callback that ends its ProcessBlock keeps its type.
LEMMA FinishType ==
  ASSUME NEW calls \in [Callbacks -> CallType], NEW c \in Callbacks
  PROVE  [calls EXCEPT ![c] = Idle] \in [Callbacks -> CallType]
BY DEF CallType, Idle, Ops, Steps

\* Every step of a callback leaves call a function of places.
LEMMA CallKeepsType ==
  ASSUME TypeOK, NEW c \in Callbacks, Begin(c) \/ CallStep(c) \/ SpuriousWakeup(c)
  PROVE  call' \in [Callbacks -> CallType]
<1>1. /\ call \in [Callbacks -> CallType] /\ renderModeVersion \in Nat
      /\ call[c].op \in Ops
      /\ {"none", "mode", "enter", "push", "pop", "ready", "space", "output"} \subseteq Ops
      /\ {"lower", "bump", "request", "check", "join", "recheck", "ring", "eval", "doze", "asleep"}
           \subseteq Steps
  BY DEF TypeOK, CallType, Ops, Steps
<1>2. ASSUME NEW op \in Ops, NEW step \in Steps, Goto(c, op, step) PROVE call' \in [Callbacks -> CallType]
  BY <1>1, <1>2, GotoType DEF Goto
<1>3. ASSUME Finish(c) PROVE call' \in [Callbacks -> CallType]
  BY <1>1, <1>3, FinishType DEF Finish
<1>4. ASSUME LeaveRingGeneration(c) PROVE call' \in [Callbacks -> CallType]
  <2>1. [call EXCEPT ![c] = Idle] \in [Callbacks -> CallType] BY <1>1, FinishType
  <2> QED BY <1>4, <2>1, WokenKeeps DEF LeaveRingGeneration, CallType
<1>5. ASSUME NEW op \in {"enter", "push", "pop"}, After(c, op) PROVE call' \in [Callbacks -> CallType]
  BY <1>1, <1>2, <1>3, <1>5 DEF After
<1>6. CASE Begin(c)
  BY <1>1, <1>6 DEF Begin, CallType, Ops, Steps
<1>7. CASE LowerReady(c) BY <1>1, <1>2, <1>7 DEF LowerReady
<1>8. CASE BumpMode(c) BY <1>1, <1>2, <1>8 DEF BumpMode
<1>9. CASE Join(c) BY <1>1, <1>2, <1>9 DEF Join
<1>10. CASE Check(c)
  <2>1. PICK op \in {"enter", "push", "pop"} :
             CASE ready /\ op = "enter" -> Goto(c, "push", "check")
               [] ready /\ op # "enter" -> Goto(c, op, "join")
               [] OTHER -> After(c, op)
    BY <1>10 DEF Check
  <2>2. Goto(c, "push", "check") \/ Goto(c, op, "join") \/ After(c, op)
    BY <2>1 DEF Goto, After, Finish
  <2> QED BY <1>1, <1>2, <1>5, <2>2
<1>11. CASE Recheck(c) BY <1>1, <1>2, <1>5, <1>11 DEF Recheck
<1>12. CASE PushInput(c) BY <1>1, <1>5, <1>12 DEF PushInput
<1>13. CASE PopOutput(c) BY <1>1, <1>5, <1>13 DEF PopOutput
<1>14. CASE RequestMode(c)
  BY <1>1, <1>14 DEF RequestMode, CallType
<1>15. CASE StopWaitingReady(c) BY <1>1, <1>2, <1>3, <1>15 DEF StopWaitingReady
<1>16. CASE RecheckOffline(c) BY <1>1, <1>2, <1>4, <1>16 DEF RecheckOffline
<1>17. CASE PushOffline(c) BY <1>1, <1>2, <1>4, <1>17 DEF PushOffline
<1>18. CASE PopOffline(c) BY <1>4, <1>18 DEF PopOffline
<1>19. CASE Doze(c) BY <1>1, <1>2, <1>19 DEF Doze
<1>20. CASE FallAsleep(c) BY <1>1, <1>2, <1>20 DEF FallAsleep
<1>21. CASE SpuriousWakeup(c) BY <1>1, <1>2, <1>21 DEF SpuriousWakeup
<1>22. CASE Deadline(c) BY <1>1, <1>2, <1>3, <1>4, <1>22 DEF Deadline
<1>23. CASE Passthrough(c) BY <1>3, <1>23 DEF Passthrough
<1> QED BY <1>23, <1>6, <1>7, <1>8, <1>9, <1>10, <1>11, <1>12, <1>13, <1>14, <1>15, <1>16, <1>17, <1>18,
           <1>19, <1>20, <1>21, <1>22 DEF CallStep, Offline, Realtime

\* What each step of a callback leaves alone, with the count and the frames it
\* moves.
LEMMA CallbackTypes ==
  ASSUME TypeOK, NEW c \in Callbacks, Begin(c) \/ CallStep(c) \/ SpuriousWakeup(c),
         audioRingUsers' \in Nat
  PROVE  TypeOK'
<1>1. call' \in [Callbacks -> [op : Ops, step : Steps, offline : BOOLEAN, mode : Nat]]
  BY CallKeepsType DEF CallType
<1>2. CASE Begin(c) BY <1>1, <1>2 DEF Begin, TypeOK, uiVars, ringVars, localVars
<1>3. CASE LowerReady(c) BY <1>1, <1>3 DEF LowerReady, TypeOK, modeVars, uiVars, ringVars, localVars
<1>4. CASE BumpMode(c) BY <1>1, <1>4 DEF BumpMode, TypeOK, uiVars, ringVars, localVars
<1>5. ASSUME UNCHANGED callOnly, inFrames' \in 0..RingCapacity, outFrames' \in 0..RingCapacity
      PROVE  TypeOK'
  BY <1>1, <1>5 DEF callOnly, TypeOK, modeVars, uiVars, localVars
<1>6. inFrames \in 0..RingCapacity /\ outFrames \in 0..RingCapacity BY DEF TypeOK
<1>7. CASE Passthrough(c) \/ Check(c) \/ Join(c) \/ Recheck(c) \/ RequestMode(c) \/ StopWaitingReady(c)
           \/ RecheckOffline(c) \/ Doze(c) \/ FallAsleep(c) \/ SpuriousWakeup(c) \/ Deadline(c)
  BY <1>5, <1>6, <1>7 DEF Passthrough, Check, Join, Recheck, RequestMode, StopWaitingReady, RecheckOffline,
                          Doze, FallAsleep, SpuriousWakeup, Deadline, ringVars
<1>8. CASE PushInput(c) BY <1>5, <1>6, <1>8 DEF PushInput, Least
<1>9. CASE PopOutput(c) BY <1>5, <1>6, <1>9 DEF PopOutput, Least
<1>10. CASE PushOffline(c)
  <2>1. ready => inFrames + HostFrames <= RingCapacity
    BY <1>10 DEF PushOffline, Predicate, At
  <2> QED BY <1>5, <1>6, <1>10, <2>1 DEF PushOffline
<1>11. CASE PopOffline(c)
  <2>1. ready => outFrames >= HostFrames
    BY <1>11 DEF PopOffline, Predicate, At
  <2> QED BY <1>5, <1>6, <1>11, <2>1 DEF PopOffline
<1> QED BY <1>2, <1>3, <1>4, <1>7, <1>8, <1>9, <1>10, <1>11 DEF CallStep, Offline, Realtime

\* A setter of the plug-in keeps the types.
LEMMA UserInterfaceTypes == ASSUME TypeOK, UserInterface PROVE TypeOK'
<1>1. CASE SetShape BY <1>1 DEF SetShape, TypeOK, uiRest, modeVars, ringVars, localVars
<1>2. CASE SetHot BY <1>2 DEF SetHot, TypeOK, uiRest, modeVars, ringVars, localVars
<1>3. CASE SetEnabled BY <1>3 DEF SetEnabled, TypeOK, uiRest, modeVars, ringVars, localVars
<1>4. CASE BumpVersion
  <2>1. call' \in [Callbacks -> [op : Ops, step : Steps, offline : BOOLEAN, mode : Nat]]
    BY <1>4, WokenKeeps DEF BumpVersion, TypeOK
  <2> QED BY <1>4, <2>1 DEF BumpVersion, TypeOK, uiRest, modeVars, ringVars, localVars
<1>5. CASE Destroy BY <1>5 DEF Destroy, TypeOK, uiRest, modeVars, ringVars, localVars
<1> QED BY <1>1, <1>2, <1>3, <1>4, <1>5 DEF UserInterface

\* A step of threadMain keeps the types, and ends with an open session when it should.
LEMMA ManagementTypes == ASSUME TypeOK, SessionOpen, Management PROVE TypeOK' /\ SessionOpen'
<1> DEFINE places == [Callbacks -> [op : Ops, step : Steps, offline : BOOLEAN, mode : Nat]]
           open == [shape : Shapes, hot : Hots \cup {NoSession}, stream : SUBSET Nat]
<1>1. call \in places /\ Woken(call) \in places BY WokenKeeps DEF TypeOK
<1> USE DEF TypeOK, SessionOpen, MgmtPhases, hostVars, modeVars, uiVars, ringVars, localVars
<1>2. CASE Exit \/ TurnOff \/ Relaunch \/ ConnectionFails
  <2>1. CASE Exit BY <1>1, <2>1 DEF Exit, StopWorker
  <2>2. CASE TurnOff BY <1>1, <2>2 DEF TurnOff, StopWorker
  <2>3. CASE Relaunch BY <1>1, <2>3 DEF Relaunch, StopWorker
  <2>4. CASE ConnectionFails BY <1>1, <2>4 DEF ConnectionFails, StopWorker
  <2> QED BY <1>2, <2>1, <2>2, <2>3, <2>4
<1>3. CASE KeepSession \/ WaitForAudioRingUsers \/ ReadMode \/ CloseGeneration
  <2>1. CASE KeepSession BY <2>1 DEF KeepSession
  <2>2. CASE WaitForAudioRingUsers BY <2>2 DEF WaitForAudioRingUsers
  <2>3. CASE ReadMode BY <2>3 DEF ReadMode
  <2>4. CASE CloseGeneration BY <1>1, <2>4 DEF CloseGeneration
  <2> QED BY <1>3, <2>1, <2>2, <2>3, <2>4
<1>4. CASE ResetRings
  <2>1. 0 \in 0..RingCapacity /\ Latency \in 0..RingCapacity OBVIOUS
  <2> QED BY <1>4, <2>1 DEF ResetRings
<1>5. CASE PublishMode \/ RaiseReady
  BY <1>1, <1>5 DEF PublishMode, RaiseReady
<1>6. CASE AdoptParameters \/ ReadParameterVersion
  BY <1>6 DEF AdoptParameters, ReadParameterVersion
<1>7. CASE OpenSession
  BY <1>7 DEF OpenSession
<1>8. CASE ConfigureSession \/ ApplyParameters
  <2>1. session \in open BY <1>8 DEF ConfigureSession, ApplyParameters
  <2>2. session' \in open BY <1>8, <2>1 DEF ConfigureSession, ApplyParameters, SendParameters
  <2> QED BY <1>8, <2>2 DEF ConfigureSession, ApplyParameters
<1>9. CASE IdleBlock BY <1>9 DEF IdleBlock
<1>10. CASE SendBlock
  <2>1. session' \in open BY <1>10 DEF SendBlock
  <2>2. inFrames' \in 0..RingCapacity BY <1>10 DEF SendBlock
  <2> QED BY <1>1, <1>10, <2>1, <2>2 DEF SendBlock
<1>11. CASE ReceiveBlock
  <2>1. outFrames' \in 0..RingCapacity BY <1>11 DEF ReceiveBlock, Least
  <2> QED BY <1>1, <1>11, <2>1 DEF ReceiveBlock
<1> QED BY <1>2, <1>3, <1>4, <1>5, <1>6, <1>7, <1>8, <1>9, <1>10, <1>11 DEF Management, Connected

----------------------------------------------------------------------------
(* The count, and the exclusion.                                            *)

Waits == {"eval", "doze", "asleep"}
Bit(joined) == IF joined THEN 1 ELSE 0

\* Callback d is where it was, or was woken.
StaysPut(d) == /\ call'[d].op = call[d].op
               /\ \/ call'[d].step = call[d].step
                  \/ call[d].step = "asleep" /\ call'[d].step = "eval"

\* A callback that counts itself in and out as it joins and leaves, and that
\* enters the rings only while ready holds, keeps the invariant.
LEMMA MoveKeeps ==
  ASSUME IInv, NEW c \in Callbacks, UNCHANGED <<mpc, session>>, ready' => ready,
         \A d \in Callbacks \ {c} : StaysPut(d),
         audioRingUsers' = audioRingUsers + Bit(JoinedAt(call'[c])) - Bit(JoinedAt(call[c])),
         call'[c].step \in Waits => call'[c].op \in {"ready", "space", "output"},
         Inside(c)' => Inside(c) \/ ready
  PROVE  audioRingUsers' \in Nat /\ (UsersCounted /\ NotReady /\ OnlyOfflineWaits /\ SessionOpen /\ RingExclusion)'
<1>1. \A d \in Callbacks \ {c} : JoinedAt(call'[d]) <=> JoinedAt(call[d])
  BY DEF StaysPut, JoinedAt
<1>2. audioRingUsers = Cardinality(Users(call)) /\ Cardinality(Users(call)) \in Nat
  BY UsersFinite DEF IInv, UsersCounted
<1>3. audioRingUsers' = Cardinality(Users(call')) /\ Cardinality(Users(call')) \in Nat
  <2>1. CASE JoinedAt(call'[c]) /\ ~JoinedAt(call[c])
    BY <1>1, <1>2, <2>1, UsersStep, UsersFinite DEF Bit
  <2>2. CASE ~JoinedAt(call'[c]) /\ JoinedAt(call[c])
    BY <1>1, <1>2, <2>2, UsersStep, UsersFinite DEF Bit
  <2>3. CASE JoinedAt(call'[c]) <=> JoinedAt(call[c])
    <3>1. Cardinality(Users(call')) = Cardinality(Users(call)) BY <1>1, <2>3, UsersStep
    <3>2. Bit(JoinedAt(call'[c])) = Bit(JoinedAt(call[c])) /\ Bit(JoinedAt(call[c])) \in Nat
      BY <2>3 DEF Bit
    <3> QED BY <1>2, <3>1, <3>2
  <2> QED BY <2>1, <2>2, <2>3 DEF JoinedAt
<1>4. UsersCounted' BY <1>3 DEF UsersCounted, Users
<1>5. NotReady' BY DEF IInv, NotReady
<1>6. OnlyOfflineWaits' BY DEF IInv, OnlyOfflineWaits, StaysPut, Waits
<1>7. SessionOpen' BY DEF IInv, SessionOpen
<1>8. RingExclusion'
  <2> SUFFICES ASSUME mpc = "reset" PROVE \A d \in Callbacks : ~Inside(d)'
    BY DEF RingExclusion
  <2>1. ~ready /\ \A d \in Callbacks : ~Inside(d)
    BY DEF IInv, NotReady, Generation, RingExclusion
  <2>2. \A d \in Callbacks \ {c} : ~Inside(d)' BY <2>1 DEF Inside, StaysPut
  <2> QED BY <2>1, <2>2
<1> QED BY <1>3, <1>4, <1>5, <1>6, <1>7, <1>8

\* Goto moves one callback and no other.
LEMMA GotoFacts ==
  ASSUME TypeOK, NEW c \in Callbacks, NEW op, NEW step, Goto(c, op, step)
  PROVE  /\ call'[c].op = op /\ call'[c].step = step
         /\ \A d \in Callbacks \ {c} : StaysPut(d)
BY DEF TypeOK, Goto, StaysPut

\* Finish moves one callback and no other.
LEMMA FinishFacts ==
  ASSUME TypeOK, NEW c \in Callbacks, Finish(c)
  PROVE  /\ call'[c].op = "none" /\ call'[c].step = "idle"
         /\ \A d \in Callbacks \ {c} : StaysPut(d)
BY DEF TypeOK, Finish, Idle, StaysPut

\* leaveRingGeneration moves one callback out, and only wakes the others.
LEMMA LeaveFacts ==
  ASSUME TypeOK, NEW c \in Callbacks, LeaveRingGeneration(c)
  PROVE  /\ call'[c].op = "none" /\ call'[c].step = "idle"
         /\ \A d \in Callbacks \ {c} : StaysPut(d)
         /\ audioRingUsers' = audioRingUsers - 1
<1>1. [call EXCEPT ![c] = Idle] \in [Callbacks -> [op : Ops, step : Steps, offline : BOOLEAN, mode : Nat]]
  BY FinishType DEF TypeOK, CallType
<1>2. /\ [call EXCEPT ![c] = Idle][c] = Idle
      /\ \A d \in Callbacks \ {c} : [call EXCEPT ![c] = Idle][d] = call[d]
  BY DEF TypeOK
<1> QED BY <1>1, <1>2, WokenKeeps DEF LeaveRingGeneration, Idle, StaysPut

\* A callback that stays outside the rings, wherever it goes.
LEMMA OutsideKeeps ==
  ASSUME IInv, NEW c \in Callbacks, UNCHANGED <<mpc, session, audioRingUsers>>, ready' => ready,
         \A d \in Callbacks \ {c} : StaysPut(d),
         ~JoinedAt(call[c]), ~JoinedAt(call'[c]),
         call'[c].step \in Waits => call'[c].op \in {"ready", "space", "output"}
  PROVE  audioRingUsers' \in Nat /\ (UsersCounted /\ NotReady /\ OnlyOfflineWaits /\ SessionOpen /\ RingExclusion)'
<1>1. ~Inside(c)' BY DEF JoinedAt, Inside
<1>2. audioRingUsers' = audioRingUsers + Bit(JoinedAt(call'[c])) - Bit(JoinedAt(call[c]))
  BY DEF Bit, IInv, TypeOK
<1> QED BY <1>1, <1>2, MoveKeeps

\* Every step of a host callback keeps the count and the exclusion.
LEMMA CallbackKeeps ==
  ASSUME IInv, NEW c \in Callbacks, Begin(c) \/ CallStep(c) \/ SpuriousWakeup(c)
  PROVE  audioRingUsers' \in Nat /\ (UsersCounted /\ NotReady /\ OnlyOfflineWaits /\ SessionOpen /\ RingExclusion)'
<1> DEFINE goal == audioRingUsers' \in Nat
                   /\ (UsersCounted /\ NotReady /\ OnlyOfflineWaits /\ SessionOpen /\ RingExclusion)'
<1>0. TypeOK BY DEF IInv
<1>1. CASE Begin(c)
  <2>1. /\ call'[c].op \in {"mode", "ready", "enter"} /\ call'[c].step \in {"lower", "request", "check"}
        /\ call[c] = Idle /\ \A d \in Callbacks \ {c} : call'[d] = call[d]
        /\ UNCHANGED <<mpc, session, audioRingUsers, ready>>
    BY <1>0, <1>1 DEF Begin, TypeOK, localVars
  <2> QED BY <2>1, OutsideKeeps DEF JoinedAt, Idle, StaysPut, Waits
<1>2. CASE LowerReady(c)
  <2>1. /\ Goto(c, "mode", "bump") /\ call[c].step = "lower" /\ ~ready'
        /\ UNCHANGED <<mpc, session, audioRingUsers>>
    BY <1>2 DEF LowerReady, At
  <2> QED BY <1>0, <2>1, GotoFacts, OutsideKeeps DEF JoinedAt, Waits
<1>3. CASE BumpMode(c)
  <2>1. /\ Goto(c, "ready", "request") \/ Goto(c, "enter", "check")
        /\ call[c].step = "bump" /\ UNCHANGED <<mpc, session, audioRingUsers, ready>>
    BY <1>3 DEF BumpMode, At
  <2> QED BY <1>0, <2>1, GotoFacts, OutsideKeeps DEF JoinedAt, Waits
<1>4. ASSUME UNCHANGED callOnly PROVE UNCHANGED <<mpc, session, ready>>
  BY <1>4 DEF callOnly
<1>5. ASSUME NEW op \in {"enter", "push", "pop"}, After(c, op)
      PROVE  /\ call'[c].step \in {"idle", "check"} /\ \A d \in Callbacks \ {c} : StaysPut(d)
  BY <1>0, <1>5, GotoFacts, FinishFacts DEF After
<1>6. CASE Check(c)
  <2>1. PICK op \in {"enter", "push", "pop"} :
             CASE ready /\ op = "enter" -> Goto(c, "push", "check")
               [] ready /\ op # "enter" -> Goto(c, op, "join")
               [] OTHER -> After(c, op)
    BY <1>6 DEF Check
  <2>2. Goto(c, "push", "check") \/ Goto(c, op, "join") \/ After(c, op)
    BY <2>1 DEF Goto, After, Finish
  <2>3. call'[c].step \in {"idle", "check", "join"} /\ \A d \in Callbacks \ {c} : StaysPut(d)
    BY <1>0, <1>5, <2>2, GotoFacts
  <2>4. call[c].step = "check" /\ UNCHANGED <<callOnly, audioRingUsers>>
    BY <1>6 DEF Check, At
  <2> QED BY <1>4, <2>3, <2>4, OutsideKeeps DEF JoinedAt, Waits
<1>7. CASE Join(c)
  <2>1. /\ call[c].step = "join" /\ Goto(c, call[c].op, "recheck")
        /\ audioRingUsers' = audioRingUsers + 1 /\ UNCHANGED callOnly
    BY <1>7 DEF Join
  <2>2. call'[c].step = "recheck" /\ \A d \in Callbacks \ {c} : StaysPut(d)
    BY <1>0, <2>1, GotoFacts
  <2>3. ~JoinedAt(call[c]) /\ JoinedAt(call'[c]) BY <2>1, <2>2 DEF JoinedAt
  <2>4. audioRingUsers' = audioRingUsers + Bit(JoinedAt(call'[c])) - Bit(JoinedAt(call[c]))
    BY <1>0, <2>1, <2>3 DEF Bit, TypeOK
  <2>5. ~Inside(c)' BY <2>2 DEF Inside
  <2> QED BY <1>4, <2>1, <2>2, <2>4, <2>5, MoveKeeps DEF Waits
\* The callback leaves the rings, whatever it did there.
<1>8. ASSUME JoinedAt(call[c]), ~JoinedAt(call'[c]), \A d \in Callbacks \ {c} : StaysPut(d),
             call'[c].step \notin Waits, audioRingUsers' = audioRingUsers - 1, UNCHANGED callOnly
      PROVE  goal
  <2>1. audioRingUsers' = audioRingUsers + Bit(JoinedAt(call'[c])) - Bit(JoinedAt(call[c]))
    BY <1>0, <1>8 DEF Bit, TypeOK
  <2>2. Inside(c)' => Inside(c) \/ ready BY <1>8 DEF Inside, JoinedAt
  <2>3. UNCHANGED <<mpc, session>> /\ (ready' => ready) BY <1>4, <1>8
  <2>4. call'[c].step \in Waits => call'[c].op \in {"ready", "space", "output"} BY <1>8
  <2>5. \A d \in Callbacks \ {c} : StaysPut(d) BY <1>8
  <2> HIDE DEF goal
  <2>6. audioRingUsers' \in Nat /\ (UsersCounted /\ NotReady /\ OnlyOfflineWaits /\ SessionOpen /\ RingExclusion)'
    BY ONLY IInv, c \in Callbacks, <2>1, <2>2, <2>3, <2>4, <2>5, MoveKeeps
  <2> QED BY <2>6 DEF goal
\* The callback stays in the rings, or enters them while ready holds.
<1>9. ASSUME JoinedAt(call[c]), JoinedAt(call'[c]), \A d \in Callbacks \ {c} : StaysPut(d),
             call'[c].step \in Waits => call'[c].op \in {"ready", "space", "output"},
             Inside(c) \/ ready, UNCHANGED <<callOnly, audioRingUsers>>
      PROVE  goal
  <2>1. audioRingUsers' = audioRingUsers + Bit(JoinedAt(call'[c])) - Bit(JoinedAt(call[c]))
    BY <1>0, <1>9 DEF Bit, TypeOK
  <2>2. Inside(c)' => Inside(c) \/ ready BY <1>9
  <2>3. UNCHANGED <<mpc, session>> /\ (ready' => ready) BY <1>4, <1>9
  <2>4. \A d \in Callbacks \ {c} : StaysPut(d) BY <1>9
  <2> HIDE DEF goal
  <2>5. audioRingUsers' \in Nat /\ (UsersCounted /\ NotReady /\ OnlyOfflineWaits /\ SessionOpen /\ RingExclusion)'
    BY <1>9, <2>1, <2>2, <2>3, <2>4, MoveKeeps
  <2> QED BY <2>5 DEF goal
<1>10. CASE Recheck(c)
  <2>1. PICK op \in {"push", "pop"} :
          /\ At(c, op, "recheck") /\ UNCHANGED callOnly
          /\ \/ ready /\ Goto(c, op, "ring") /\ UNCHANGED audioRingUsers
             \/ After(c, op) /\ audioRingUsers' = audioRingUsers - 1
    BY <1>10 DEF Recheck
  <2>2. CASE ready /\ Goto(c, op, "ring") /\ UNCHANGED audioRingUsers
    BY <1>0, <1>9, <2>1, <2>2, GotoFacts DEF At, JoinedAt, Waits
  <2>3. CASE After(c, op) /\ audioRingUsers' = audioRingUsers - 1
    BY <1>5, <1>8, <2>1, <2>3 DEF At, JoinedAt, Waits
  <2> QED BY <2>1, <2>2, <2>3
<1>11. CASE PushInput(c) \/ PopOutput(c)
  <2>1. /\ call[c].step = "ring" /\ UNCHANGED callOnly /\ audioRingUsers' = audioRingUsers - 1
        /\ After(c, "push") \/ After(c, "pop")
    BY <1>11 DEF PushInput, PopOutput, At
  <2> QED BY <1>5, <1>8, <2>1 DEF JoinedAt, Waits
<1>12. CASE RequestMode(c)
  <2>1. /\ call'[c].op = "ready" /\ call'[c].step = "eval" /\ call[c].step = "request"
        /\ \A d \in Callbacks \ {c} : call'[d] = call[d]
        /\ call[c].op = "ready" /\ UNCHANGED <<callOnly, audioRingUsers>>
    BY <1>0, <1>12 DEF RequestMode, At, TypeOK
  <2> QED BY <1>4, <2>1, OutsideKeeps DEF JoinedAt, StaysPut, Waits
<1>13. CASE StopWaitingReady(c)
  <2>1. /\ call[c].op = "ready" /\ call[c].step = "eval" /\ UNCHANGED <<callOnly, audioRingUsers>>
        /\ Goto(c, "space", "join") \/ Finish(c)
    BY <1>13 DEF StopWaitingReady, At
  <2> QED BY <1>0, <1>4, <2>1, GotoFacts, FinishFacts, OutsideKeeps DEF JoinedAt, Waits
<1>14. CASE RecheckOffline(c)
  <2>1. /\ call[c].step = "recheck" /\ UNCHANGED callOnly
        /\ \/ ready /\ Goto(c, "space", "eval") /\ UNCHANGED audioRingUsers
           \/ LeaveRingGeneration(c)
    BY <1>14 DEF RecheckOffline, At
  <2>2. CASE ready /\ Goto(c, "space", "eval") /\ UNCHANGED audioRingUsers
    BY <1>0, <1>9, <2>1, <2>2, GotoFacts DEF JoinedAt, Waits
  <2>3. CASE LeaveRingGeneration(c)
    BY <1>0, <1>8, <2>1, <2>3, LeaveFacts DEF JoinedAt, Waits
  <2> QED BY <2>1, <2>2, <2>3
<1>15. CASE PushOffline(c)
  <2>1. /\ call[c].op = "space" /\ call[c].step = "eval" /\ UNCHANGED callOnly
        /\ \/ Goto(c, "output", "eval") /\ UNCHANGED audioRingUsers
           \/ LeaveRingGeneration(c)
    BY <1>15 DEF PushOffline, At
  <2>2. CASE Goto(c, "output", "eval") /\ UNCHANGED audioRingUsers
    BY <1>0, <1>9, <2>1, <2>2, GotoFacts DEF JoinedAt, Inside, Waits
  <2>3. CASE LeaveRingGeneration(c)
    BY <1>0, <1>8, <2>1, <2>3, LeaveFacts DEF JoinedAt, Waits
  <2> QED BY <2>1, <2>2, <2>3
<1>16. CASE PopOffline(c)
  <2>1. /\ call[c].op = "output" /\ call[c].step = "eval" /\ UNCHANGED callOnly
        /\ LeaveRingGeneration(c)
    BY <1>16 DEF PopOffline, At
  <2> QED BY <1>0, <1>8, <2>1, LeaveFacts DEF JoinedAt, Waits
\* A step from one of the three places of a wait to another.
<1>17. ASSUME call[c].step \in Waits, NEW step \in Waits, Goto(c, call[c].op, step),
              UNCHANGED <<callOnly, audioRingUsers>>
       PROVE  goal
  <2>1. /\ call'[c].op = call[c].op /\ call'[c].step = step
        /\ \A d \in Callbacks \ {c} : StaysPut(d)
    BY <1>0, <1>17, GotoFacts
  <2>2. call[c].op \in {"ready", "space", "output"} BY <1>17 DEF IInv, OnlyOfflineWaits, Waits
  <2>3. CASE call[c].op = "ready"
    BY <1>4, <1>17, <2>1, <2>3, OutsideKeeps DEF JoinedAt, Waits
  <2>4. CASE call[c].op \in {"space", "output"}
    BY <1>9, <1>17, <2>1, <2>4 DEF JoinedAt, Inside, Waits
  <2> QED BY <2>2, <2>3, <2>4
<1>18. CASE Doze(c) BY <1>17, <1>18 DEF Doze, Waits
<1>19. CASE FallAsleep(c) BY <1>17, <1>19 DEF FallAsleep, Waits
<1>20. CASE SpuriousWakeup(c) BY <1>17, <1>20 DEF SpuriousWakeup, Waits
<1>21. CASE Deadline(c)
  <2>1. /\ call[c].step = "asleep" /\ UNCHANGED callOnly
        /\ \/ Goto(c, call[c].op, "eval") /\ UNCHANGED audioRingUsers
           \/ call[c].op = "ready" /\ Finish(c) /\ UNCHANGED audioRingUsers
           \/ call[c].op # "ready" /\ LeaveRingGeneration(c)
    BY <1>21 DEF Deadline
  <2>2. call[c].op \in {"ready", "space", "output"} BY <2>1 DEF IInv, OnlyOfflineWaits
  <2>3. CASE Goto(c, call[c].op, "eval") /\ UNCHANGED audioRingUsers
    BY <1>17, <2>1, <2>3 DEF Waits
  <2>4. CASE call[c].op = "ready" /\ Finish(c) /\ UNCHANGED audioRingUsers
    BY <1>0, <1>4, <2>1, <2>4, FinishFacts, OutsideKeeps DEF JoinedAt, Waits
  <2>5. CASE call[c].op # "ready" /\ LeaveRingGeneration(c)
    BY <1>0, <1>8, <2>1, <2>2, <2>5, LeaveFacts DEF JoinedAt, Waits
  <2> QED BY <2>1, <2>3, <2>4, <2>5
<1>22. CASE Passthrough(c)
  <2>1. /\ call[c].step \in {"check", "request"} /\ UNCHANGED <<callOnly, audioRingUsers>>
        /\ Finish(c)
    BY <1>22 DEF Passthrough, At
  <2> QED BY <1>0, <1>4, <2>1, FinishFacts, OutsideKeeps DEF JoinedAt, Waits
<1> QED BY <1>1, <1>2, <1>3, <1>22, <1>6, <1>7, <1>10, <1>11, <1>12, <1>13, <1>14, <1>15, <1>16, <1>18,
           <1>19, <1>20, <1>21 DEF CallStep, Offline, Realtime

\* The user interface and the management thread move no callback into or out
\* of the rings.
LEMMA OthersMoveNone ==
  ASSUME IInv, UserInterface \/ Management
  PROVE  /\ audioRingUsers' = audioRingUsers
         /\ \A c \in Callbacks : StaysPut(c) /\ (JoinedAt(call'[c]) <=> JoinedAt(call[c]))
<1>1. audioRingUsers' = audioRingUsers /\ (call' = call \/ call' = Woken(call))
  <2>1. CASE UserInterface
    BY <2>1 DEF UserInterface, SetShape, SetHot, SetEnabled, BumpVersion, Destroy, uiRest
  <2>2. CASE Exit \/ TurnOff \/ Relaunch \/ KeepSession \/ ConnectionFails
    BY <2>2 DEF Exit, TurnOff, Relaunch, KeepSession, ConnectionFails, StopWorker
  <2>3. CASE WaitForAudioRingUsers \/ ResetRings \/ PublishMode \/ RaiseReady \/ CloseGeneration
    BY <2>3 DEF WaitForAudioRingUsers, ResetRings, PublishMode, RaiseReady, CloseGeneration
  <2>4. CASE AdoptParameters \/ ReadParameterVersion \/ ReadMode
    BY <2>4 DEF AdoptParameters, ReadParameterVersion, ReadMode
  <2>5. CASE Connected
    BY <2>5 DEF Connected, OpenSession, ConfigureSession, ApplyParameters, IdleBlock, SendBlock, ReceiveBlock
  <2> QED BY <2>1, <2>2, <2>3, <2>4, <2>5 DEF Management
<1>2. CASE call' = call BY <1>1, <1>2 DEF StaysPut
<1>3. CASE call' = Woken(call)
  <2>1. call \in [Callbacks -> [op : Ops, step : Steps, offline : BOOLEAN, mode : Nat]]
    BY DEF IInv, TypeOK
  <2>2. \A c \in Callbacks : /\ call'[c].op = call[c].op
                             /\ call'[c].step = IF call[c].step = "asleep" THEN "eval" ELSE call[c].step
                             /\ JoinedAt(call'[c]) <=> JoinedAt(call[c])
    BY <1>3, <2>1, WokenKeeps
  <2>3. \A c \in Callbacks : StaysPut(c) BY <2>2 DEF StaysPut
  <2> QED BY <1>1, <2>2, <2>3
<1> QED BY <1>1, <1>2, <1>3

\* ready is low in all of launchWorker and in all of a change of generation.
LEMMA ReadyStaysLow ==
  ASSUME IInv, UserInterface \/ Management
  PROVE  NotReady'
<1> USE DEF NotReady, Generation
<1>1. CASE UserInterface
  BY <1>1 DEF IInv, UserInterface, SetShape, SetHot, SetEnabled, BumpVersion, Destroy, uiRest
<1>2. CASE Exit \/ TurnOff \/ Relaunch \/ KeepSession \/ ConnectionFails
  BY <1>2 DEF IInv, Exit, TurnOff, Relaunch, KeepSession, ConnectionFails, StopWorker
<1>3. CASE WaitForAudioRingUsers \/ ResetRings \/ PublishMode \/ RaiseReady \/ CloseGeneration
  BY <1>3 DEF IInv, WaitForAudioRingUsers, ResetRings, PublishMode, RaiseReady, CloseGeneration
<1>4. CASE AdoptParameters \/ ReadParameterVersion \/ ReadMode
  BY <1>4 DEF IInv, AdoptParameters, ReadParameterVersion, ReadMode
<1>5. CASE Connected
  BY <1>5 DEF IInv, Connected, OpenSession, ConfigureSession, ApplyParameters, IdleBlock, SendBlock,
              ReceiveBlock
<1> QED BY <1>1, <1>2, <1>3, <1>4, <1>5 DEF Management

\* The reset begins only when the count is zero, and the count is exact.
LEMMA ResetAlone ==
  ASSUME IInv, UserInterface \/ Management
  PROVE  RingExclusion'
<1> SUFFICES ASSUME mpc' = "reset", NEW c \in Callbacks PROVE ~(Inside(c)')
  BY DEF RingExclusion
<1>1. mpc = "reset" \/ WaitForAudioRingUsers
  <2>1. CASE UserInterface
    BY <2>1 DEF UserInterface, SetShape, SetHot, SetEnabled, BumpVersion, Destroy, uiRest
  <2>2. CASE Exit \/ TurnOff \/ Relaunch \/ KeepSession \/ ConnectionFails
    BY <2>2 DEF Exit, TurnOff, Relaunch, KeepSession, ConnectionFails, StopWorker
  <2>3. CASE ResetRings \/ PublishMode \/ RaiseReady \/ CloseGeneration
    BY <2>3 DEF ResetRings, PublishMode, RaiseReady, CloseGeneration
  <2>4. CASE AdoptParameters \/ ReadParameterVersion \/ ReadMode
    BY <2>4 DEF AdoptParameters, ReadParameterVersion, ReadMode
  <2>5. CASE Connected
    BY <2>5 DEF Connected, OpenSession, ConfigureSession, ApplyParameters, IdleBlock, SendBlock, ReceiveBlock
  <2> QED BY <2>1, <2>2, <2>3, <2>4, <2>5 DEF Management
<1>2. ~Inside(c)
  <2>1. CASE mpc = "reset" BY <2>1 DEF IInv, RingExclusion
  <2>2. CASE WaitForAudioRingUsers
    <3>1. Cardinality(Users(call)) = 0 BY <2>2 DEF WaitForAudioRingUsers, IInv, UsersCounted
    <3>2. Users(call) = {} BY <3>1, UsersFinite, FS_EmptySet
    <3>3. ~JoinedAt(call[c]) BY <3>2 DEF Users
    <3> QED BY <3>3 DEF JoinedAt, Inside
  <2> QED BY <1>1, <2>1, <2>2
<1>3. StaysPut(c) BY OthersMoveNone
<1> QED BY <1>2, <1>3 DEF Inside, StaysPut

\* The user interface and the management thread keep the invariant.
LEMMA OthersKeep ==
  ASSUME IInv, UserInterface \/ Management
  PROVE  IInv'
<1>1. TypeOK' /\ SessionOpen'
  <2>1. CASE UserInterface
    <3>1. mpc' = mpc /\ session' = session
      BY <2>1 DEF UserInterface, SetShape, SetHot, SetEnabled, BumpVersion, Destroy, uiRest
    <3> QED BY <2>1, <3>1, UserInterfaceTypes DEF IInv, SessionOpen
  <2>2. CASE Management BY <2>2, ManagementTypes DEF IInv
  <2> QED BY <2>1, <2>2
<1>2. UsersCounted'
  <2>1. Users(call') = Users(call) BY OthersMoveNone DEF Users
  <2>2. Users(call)' = Users(call') BY DEF Users
  <2> QED BY <2>1, <2>2, OthersMoveNone DEF IInv, UsersCounted
<1>3. OnlyOfflineWaits' BY OthersMoveNone DEF IInv, OnlyOfflineWaits, StaysPut
<1> QED BY <1>1, <1>2, <1>3, ReadyStaysLow, ResetAlone DEF IInv

----------------------------------------------------------------------------
(* The theorems.                                                            *)

\* Every step of the client, and a step of its environment, keeps the invariant.
LEMMA NextIInv == IInv /\ [Next]_vars => IInv'
<1> SUFFICES ASSUME IInv, [Next]_vars PROVE IInv' OBVIOUS
<1>1. ASSUME NEW c \in Callbacks, Begin(c) \/ CallStep(c) \/ SpuriousWakeup(c) PROVE IInv'
  <2>1. audioRingUsers' \in Nat /\ (UsersCounted /\ NotReady /\ OnlyOfflineWaits /\ SessionOpen /\ RingExclusion)'
    BY <1>1, CallbackKeeps
  <2>2. TypeOK' BY <1>1, <2>1, CallbackTypes DEF IInv
  <2> QED BY <2>1, <2>2 DEF IInv
<1>2. CASE UserInterface \/ Management BY <1>2, OthersKeep
<1>3. CASE UNCHANGED vars
  BY <1>3 DEF vars, modeVars, ringVars, uiVars, localVars, IInv, TypeOK, UsersCounted, Users, NotReady,
              OnlyOfflineWaits, SessionOpen, RingExclusion, Inside
<1> QED BY <1>1, <1>2, <1>3 DEF Next

\* The inductive invariant holds in every reachable state.
LEMMA InvariantHolds == Spec => []IInv
BY InitIInv, NextIInv, PTL DEF Spec

\* The variables of the client keep their types; audioRingUsers never goes
\* below zero, and neither ring level beyond kRingCapacity.
THEOREM TypesCorrect == Spec => []TypeOK
BY InvariantHolds, PTL DEF IInv

\* waitForAudioRingUsers does its job: the management thread never runs
\* resetUnsafe while a host callback is inside a ring or waits between its push
\* and its pop, for any number of callbacks and any frame counts.
THEOREM RingsExclusive == Spec => []RingExclusion
BY InvariantHolds, PTL DEF IInv

----------------------------------------------------------------------------
(* The session: its settings, and the ring generation it heard last.        *)

\* There is a session, or threadMain is about to open one.
Open == mpc \notin {"loop", "launch", "ended"} \/ (mpc = "loop" /\ session # NoSession)

\* A version is adopted after it was bumped, and a change of the settings that
\* the session has not seen is owed to the version or counted in it.
ShapeKept ==
  /\ activeVersion <= configVersion
  /\ Open /\ edit # "shape" /\ configVersion = activeVersion => session.shape = shape

\* What the service heard belongs to the generation of the rings, or the next
\* block says that it does not; a session just opened heard nothing.
Heard ==
  /\ Open => session.stream \subseteq {appliedRenderModeVersion} \/ discontinuous
  /\ mpc = "configure" \/ launching => session.stream = {}
  /\ launching => mpc \in {"wait", "reset", "publish", "raise"}

SessionInv == ShapeKept /\ Heard

\* At the start there is no session.
LEMMA InitSession == Init => SessionInv
BY DEF Init, SessionInv, ShapeKept, Heard, Open

sessionVars == <<mpc, session, shape, edit, configVersion, activeVersion, appliedRenderModeVersion,
                 discontinuous, launching>>

\* Callbacks leave the session to the management thread.
LEMMA CallbackLeavesSession ==
  ASSUME NEW c \in Callbacks, Begin(c) \/ CallStep(c) \/ SpuriousWakeup(c)
  PROVE  UNCHANGED sessionVars
<1> USE DEF sessionVars, callOnly, uiVars, localVars
<1>1. CASE Begin(c) \/ LowerReady(c) \/ BumpMode(c) BY <1>1 DEF Begin, LowerReady, BumpMode
<1>2. CASE Join(c) \/ Realtime(c)
  BY <1>2 DEF Join, Realtime, Passthrough, Check, Recheck, PushInput, PopOutput
<1>3. CASE Offline(c) \/ SpuriousWakeup(c)
  BY <1>3 DEF Offline, RequestMode, StopWaitingReady, RecheckOffline, PushOffline, PopOffline, Doze, FallAsleep,
              Deadline, SpuriousWakeup
<1> QED BY <1>1, <1>2, <1>3 DEF CallStep

\* A store makes the user interface owe a version, and the bump leaves the
\* version that was adopted behind.
LEMMA UserInterfaceKeepsSession == ASSUME TypeOK, SessionInv, UserInterface PROVE SessionInv'
<1>1. UNCHANGED <<mpc, session, activeVersion, appliedRenderModeVersion, discontinuous, launching>>
  BY DEF UserInterface, SetShape, SetHot, SetEnabled, BumpVersion, Destroy, uiRest, localVars
<1>2. Heard' BY <1>1 DEF SessionInv, Heard, Open
<1>3. ShapeKept'
  <2> USE DEF SessionInv, ShapeKept, Open
  <2>1. CASE SetShape BY <1>1, <2>1 DEF SetShape
  <2>2. CASE SetHot \/ SetEnabled \/ Destroy BY <1>1, <2>2 DEF SetHot, SetEnabled, Destroy
  <2>3. CASE BumpVersion
    <3>1. CASE edit = "hot" BY <1>1, <2>3, <3>1 DEF BumpVersion
    <3>2. CASE edit # "hot"
      <4>1. configVersion' = configVersion + 1 BY <2>3, <3>2 DEF BumpVersion
      <4>2. activeVersion' \in Nat /\ configVersion' \in Nat /\ activeVersion' < configVersion'
        BY <1>1, <4>1 DEF TypeOK
      <4> QED BY <4>2
    <3> QED BY <3>1, <3>2
  <2> QED BY <2>1, <2>2, <2>3 DEF UserInterface
<1> QED BY <1>2, <1>3 DEF SessionInv

\* The management thread: a session opens with the settings of that moment and
\* is closed before a newer version is adopted.
LEMMA ManagementKeepsSession ==
  ASSUME TypeOK, SessionOpen, SessionInv, Management
  PROVE  SessionInv'
<1> USE DEF hostVars, uiVars, modeVars, localVars, SessionInv, ShapeKept, Heard, Open
<1>1. CASE Exit \/ TurnOff \/ Relaunch \/ ConnectionFails
  BY <1>1 DEF Exit, TurnOff, Relaunch, ConnectionFails, StopWorker, TypeOK
<1>2. CASE OpenSession BY <1>2 DEF OpenSession
<1>3. CASE ConfigureSession \/ ApplyParameters \/ SendBlock
  <2> DEFINE Record == [shape : Shapes, hot : Hots \cup {NoSession}, stream : SUBSET Nat]
  <2>1. session \in Record /\ Open BY <1>3 DEF SessionOpen, ConfigureSession, ApplyParameters, SendBlock
  <2>2. CASE ConfigureSession \/ ApplyParameters
    <3>1. session'.shape = session.shape /\ session'.stream = session.stream
      BY <2>1, <2>2 DEF ConfigureSession, ApplyParameters, SendParameters
    <3> QED BY <2>1, <2>2, <3>1 DEF ConfigureSession, ApplyParameters
  <2>3. CASE SendBlock
    <3>1. session'.shape = session.shape /\ session'.stream = {appliedRenderModeVersion}
      BY <2>1, <2>3 DEF SendBlock
    <3> QED BY <2>1, <2>3, <3>1 DEF SendBlock
  <2> QED BY <1>3, <2>2, <2>3
<1>4. CASE PublishMode BY <1>4 DEF PublishMode, TypeOK
<1>5. CASE KeepSession \/ WaitForAudioRingUsers \/ ResetRings \/ RaiseReady \/ CloseGeneration
  BY <1>5 DEF KeepSession, WaitForAudioRingUsers, ResetRings, RaiseReady, CloseGeneration
<1>6. CASE AdoptParameters \/ ReadParameterVersion \/ ReadMode \/ IdleBlock \/ ReceiveBlock
  BY <1>6 DEF AdoptParameters, ReadParameterVersion, ReadMode, IdleBlock, ReceiveBlock
<1> QED BY <1>1, <1>2, <1>3, <1>4, <1>5, <1>6 DEF Management, Connected

\* Every step keeps it.
LEMMA NextSession == IInv /\ SessionInv /\ [Next]_vars => SessionInv'
<1> SUFFICES ASSUME IInv, SessionInv, [Next]_vars PROVE SessionInv' OBVIOUS
<1>1. CASE UNCHANGED sessionVars
  BY <1>1 DEF sessionVars, SessionInv, ShapeKept, Heard, Open
<1>2. CASE \E c \in Callbacks : Begin(c) \/ CallStep(c) \/ SpuriousWakeup(c)
  BY <1>1, <1>2, CallbackLeavesSession
<1>3. CASE UserInterface BY <1>3, UserInterfaceKeepsSession DEF IInv
<1>4. CASE Management BY <1>4, ManagementKeepsSession DEF IInv
<1>5. CASE UNCHANGED vars
  BY <1>1, <1>5 DEF vars, uiVars, localVars, sessionVars
<1> QED BY <1>2, <1>3, <1>4, <1>5 DEF Next

\* Both invariants hold in every reachable state.
LEMMA SessionHolds == Spec => [](IInv /\ SessionInv)
<1>1. Init => IInv /\ SessionInv BY InitIInv, InitSession
<1>2. (IInv /\ SessionInv) /\ [Next]_vars => (IInv /\ SessionInv)' BY NextIInv, NextSession
<1> QED BY <1>1, <1>2, PTL DEF Spec

\* configVersion and the settings it counts are stored and read one by one, and
\* still a session that threadMain keeps was opened with the settings in force.
THEOREM ShapeInForce == Spec => []SessionHasShape
<1>1. IInv /\ SessionInv => SessionHasShape
  BY DEF SessionInv, ShapeKept, Open, SessionHasShape
<1> QED BY <1>1, SessionHolds, PTL

\* Whatever the order of relaunches and changes of the render mode, the first
\* block an open session hears of a new ring generation carries the flag.
THEOREM GenerationsFlagged == Spec => NewGenerationFlagged
<1>1. IInv /\ SessionInv /\ [Next]_vars
        => [SendBlock => session.stream \subseteq {appliedRenderModeVersion} \/ discontinuous]_vars
  <2>1. SessionInv /\ SendBlock => session.stream \subseteq {appliedRenderModeVersion} \/ discontinuous
    BY DEF SessionInv, Heard, Open, SendBlock
  <2> QED BY <2>1
<1> QED BY <1>1, SessionHolds, PTL DEF Spec, NewGenerationFlagged
----------------------------------------------------------------------------
(* The offline render.  The host makes one ProcessBlock call at a time.     *)

OneCall == \A c, d \in Callbacks : c = d

\* The frames in the rings and with the service, and those that were pushed
\* and are still owed to a callback.
Buffered == inFrames + outFrames + (IF mpc = "await" THEN BlockFrames ELSE 0)
Owed == IF \E c \in Callbacks : call[c].op = "output" THEN HostFrames ELSE 0
OfflineGeneration == /\ ready /\ renderingOffline
                     /\ appliedRenderModeVersion = renderModeVersion
                     /\ \A c \in Callbacks : call[c].op # "mode"

\* A call belongs to the mode in force, and one inside processOffline to the
\* generation of the rings.
InTurn ==
  \A c \in Callbacks :
    /\ call[c].op # "none" => call[c].offline = renderingOffline
    /\ call[c].op \in {"ready", "space", "output"} => call[c].offline
    /\ call[c].op \in {"enter", "push", "pop"} => ~call[c].offline
    /\ call[c].op = "output" => call[c].step \in Waits
    /\ (call[c].op \in {"ready", "space", "output"} /\ call[c].step # "request") => call[c].mode = renderModeVersion
    /\ (Inside(c) /\ call[c].op \in {"space", "output"}) => appliedRenderModeVersion = renderModeVersion

\* No generation is ahead of the mode it was made for.
Modes == appliedRenderModeVersion <= renderModeVersion /\ requestedMode <= renderModeVersion

\* The rings that a new generation is published with.
Filled ==
  /\ mpc \in {"reset", "publish", "raise"} => \A c \in Callbacks : ~Inside(c)
  /\ mpc \in {"publish", "raise"} => inFrames = 0 /\ outFrames = Latency

\* In an offline generation no frame is lost, and only a call that gives up
\* leaves one.
Level == OfflineGeneration => /\ Buffered >= Latency + Owed
                              /\ ~MayExpire => Buffered = Latency + Owed

RenderInv == InTurn /\ Modes /\ Filled /\ Level

\* At the start there is neither a call nor a generation.
LEMMA InitRender == Init => RenderInv
BY DEF Init, RenderInv, InTurn, Modes, Filled, Level, OfflineGeneration, Idle, Inside

\* A notification leaves a call its mode.
LEMMA WokenKeepsMode ==
  ASSUME NEW calls \in [Callbacks -> CallType], NEW c \in Callbacks
  PROVE  Woken(calls)[c].offline = calls[c].offline /\ Woken(calls)[c].mode = calls[c].mode
BY DEF Woken, CallType, Steps

\* So does a step of an operation.
LEMMA GotoKeepsMode ==
  ASSUME TypeOK, NEW c \in Callbacks, NEW op, NEW step, Goto(c, op, step)
  PROVE  /\ call'[c].op = op /\ call'[c].step = step
         /\ call'[c].offline = call[c].offline /\ call'[c].mode = call[c].mode
BY DEF TypeOK, Goto

\* The calls of InTurn, one by one.
InTurnAt(place) ==
  /\ place.op # "none" => place.offline = renderingOffline
  /\ place.op \in {"ready", "space", "output"} => place.offline
  /\ place.op \in {"enter", "push", "pop"} => ~place.offline
  /\ place.op = "output" => place.step \in Waits
  /\ (place.op \in {"ready", "space", "output"} /\ place.step # "request") => place.mode = renderModeVersion
  /\ (place.op \in {"space", "output"} /\ place.step \in Waits \cup {"ring"}) => appliedRenderModeVersion = renderModeVersion

\* InTurn says InTurnAt of every call.
LEMMA InTurnEach == InTurn <=> \A c \in Callbacks : InTurnAt(call[c])
BY DEF InTurn, InTurnAt, Inside, Waits

\* The same in the next state.
LEMMA InTurnNext ==
  ASSUME OneCall, NEW c \in Callbacks, InTurnAt(call'[c]),
         UNCHANGED <<renderingOffline, renderModeVersion, appliedRenderModeVersion>>
  PROVE  InTurn'
<1>1. \A d \in Callbacks : d = c BY DEF OneCall
<1>2. \A d \in Callbacks : InTurnAt(call[d])' BY <1>1 DEF InTurnAt
<1> QED BY <1>2 DEF InTurn, InTurnAt, Inside, Waits

\* Steps that move no frame keep the level.
LEMMA LevelKeeps ==
  ASSUME Level, UNCHANGED <<renderingOffline, renderModeVersion, appliedRenderModeVersion>>,
         UNCHANGED <<inFrames, outFrames>>, ready' => ready, mpc' = "await" <=> mpc = "await",
         \A c \in Callbacks : call'[c].op = "output" <=> call[c].op = "output",
         (\A c \in Callbacks : call'[c].op # "mode") => \A c \in Callbacks : call[c].op # "mode"
  PROVE  Level'
<1>1. Buffered' = Buffered BY DEF Buffered
<1>2. Owed' = Owed BY DEF Owed
<1>3. OfflineGeneration' => OfflineGeneration BY DEF OfflineGeneration
<1> QED BY <1>1, <1>2, <1>3 DEF Level

\* A call that ends owes nothing to any mode.
LEMMA EndedInTurn == ASSUME NEW c, call'[c].op = "none" PROVE InTurnAt(call'[c])
BY DEF InTurnAt

\* A step of one call that stays in turn, enters the rings only while ready
\* holds and keeps the level keeps the whole.
LEMMA MoveInTurn ==
  ASSUME OneCall, IInv, RenderInv, NEW c \in Callbacks, UNCHANGED callOnly,
         InTurnAt(call'[c]), Inside(c)' => Inside(c) \/ ready,
         Inside(c) \/ UNCHANGED ringVars, Level'
  PROVE  RenderInv'
<1>1. UNCHANGED <<ready, renderingOffline, renderModeVersion, appliedRenderModeVersion, mpc, requestedMode>>
  BY DEF callOnly, modeVars, localVars
<1>2. InTurn' BY <1>1, InTurnNext
<1>3. Modes' BY <1>1 DEF RenderInv, Modes
<1>4. Filled'
  <2>1. \A d \in Callbacks : d = c BY DEF OneCall
  <2>2. mpc \in {"reset", "publish", "raise"} => ~ready /\ ~Inside(c)
    BY DEF IInv, NotReady, Generation, RenderInv, Filled
  <2>3. mpc \in {"reset", "publish", "raise"} => ~(Inside(c)') /\ UNCHANGED <<inFrames, outFrames>>
    BY <2>2 DEF ringVars
  <2>4. mpc \in {"reset", "publish", "raise"} => \A d \in Callbacks : ~(Inside(d)')
    BY <2>1, <2>3 DEF Inside
  <2>5. mpc \in {"publish", "raise"} => inFrames' = 0 /\ outFrames' = Latency
    BY <2>3 DEF RenderInv, Filled
  <2> QED BY <1>1, <2>4, <2>5 DEF Filled
<1> QED BY <1>2, <1>3, <1>4 DEF RenderInv

\* A step that moves no frame and neither begins nor ends a wait for output.
LEMMA QuietMove ==
  ASSUME OneCall, IInv, RenderInv, NEW c \in Callbacks, UNCHANGED <<callOnly, ringVars>>,
         InTurnAt(call'[c]), Inside(c)' => Inside(c) \/ ready,
         call'[c].op = "output" <=> call[c].op = "output", call[c].op # "mode"
  PROVE  RenderInv'
<1>1. \A d \in Callbacks : d = c BY DEF OneCall
<1>2. Level'
  <2>1. \A d \in Callbacks : call'[d].op = "output" <=> call[d].op = "output" BY <1>1
  <2>2. \A d \in Callbacks : call[d].op # "mode" BY <1>1
  <2>3. UNCHANGED <<renderingOffline, renderModeVersion, appliedRenderModeVersion, inFrames, outFrames, ready, mpc>>
    BY DEF callOnly, modeVars, ringVars
  <2>4. Level BY DEF RenderInv
  <2> QED BY <2>1, <2>2, <2>3, <2>4, LevelKeeps
<1> QED BY <1>2, MoveInTurn

\* The steps of the realtime path that read ready and join the rings.
LEMMA RealtimeInTurn ==
  ASSUME OneCall, IInv, RenderInv, NEW c \in Callbacks,
         Passthrough(c) \/ Check(c) \/ Join(c) \/ Recheck(c)
  PROVE  RenderInv'
<1>0. TypeOK /\ InTurnAt(call[c]) BY InTurnEach DEF IInv, RenderInv
<1>1. ASSUME NEW op \in {"enter", "push", "pop"}, call[c].op = op, After(c, op)
      PROVE  InTurnAt(call'[c]) /\ ~(Inside(c)') /\ call'[c].op # "output"
  <2>1. CASE op = "push"
    <3>1. Goto(c, "pop", "check") BY <1>1, <2>1 DEF After
    <3> QED BY <1>0, <1>1, <3>1, GotoKeepsMode DEF InTurnAt, Inside
  <2>2. CASE op # "push"
    <3>1. Finish(c) BY <1>1, <2>2 DEF After
    <3> QED BY <1>0, <3>1, FinishFacts, EndedInTurn DEF Inside
  <2> QED BY <2>1, <2>2
<1>2. CASE Passthrough(c)
  <2>1. /\ call[c].op \in {"enter", "ready"} /\ UNCHANGED <<callOnly, ringVars>> /\ Finish(c)
    BY <1>2 DEF Passthrough, At
  <2>2. InTurnAt(call'[c]) /\ ~(Inside(c)') /\ call'[c].op = "none"
    BY <1>0, <2>1, FinishFacts, EndedInTurn DEF Inside
  <2> QED BY <2>1, <2>2, QuietMove
<1>3. CASE Check(c)
  <2>1. PICK op \in {"enter", "push", "pop"} :
             /\ At(c, op, "check")
             /\ CASE ready /\ op = "enter" -> Goto(c, "push", "check")
                  [] ready /\ op # "enter" -> Goto(c, op, "join")
                  [] OTHER -> After(c, op)
    BY <1>3 DEF Check
  <2>2. Goto(c, "push", "check") \/ Goto(c, op, "join") \/ After(c, op)
    BY <2>1 DEF Goto, After, Finish
  <2>3. call[c].op = op BY <2>1 DEF At
  <2>4. InTurnAt(call'[c]) /\ ~(Inside(c)') /\ call'[c].op # "output"
    <3>1. CASE Goto(c, "push", "check")
      BY <1>0, <2>3, <3>1, GotoKeepsMode DEF InTurnAt, Inside
    <3>2. CASE Goto(c, op, "join")
      BY <1>0, <2>3, <3>2, GotoKeepsMode DEF InTurnAt, Inside
    <3> QED BY <1>1, <2>2, <2>3, <3>1, <3>2
  <2>5. UNCHANGED <<callOnly, ringVars>> BY <1>3 DEF Check
  <2> QED BY <2>3, <2>4, <2>5, QuietMove
<1>4. CASE Join(c)
  <2>1. call[c].step = "join" /\ Goto(c, call[c].op, "recheck") /\ UNCHANGED <<callOnly, ringVars>>
    BY <1>4 DEF Join
  <2>2. /\ call'[c].op = call[c].op /\ call'[c].step = "recheck"
        /\ call'[c].offline = call[c].offline /\ call'[c].mode = call[c].mode
    BY <1>0, <2>1, GotoKeepsMode
  <2>3. InTurnAt(call'[c]) /\ ~(Inside(c)') BY <1>0, <2>1, <2>2 DEF InTurnAt, Inside, Waits
  <2>4. call[c].op # "mode" => RenderInv' BY <2>1, <2>2, <2>3, QuietMove
  <2>5. CASE call[c].op = "mode"
    <3>1. \A d \in Callbacks : call'[d].op = "mode" BY <2>2, <2>5 DEF OneCall
    <3>2. Level' BY <3>1 DEF Level, OfflineGeneration
    <3> QED BY <2>1, <2>3, <3>2, MoveInTurn
  <2> QED BY <2>4, <2>5
<1>5. CASE Recheck(c)
  <2>1. PICK op \in {"push", "pop"} :
          /\ call[c].op = op /\ UNCHANGED <<callOnly, ringVars>>
          /\ (ready /\ Goto(c, op, "ring")) \/ After(c, op)
    BY <1>5 DEF Recheck, At
  <2>2. CASE ready /\ Goto(c, op, "ring")
    <3>1. /\ call'[c].op = op
          /\ call'[c].offline = call[c].offline /\ call'[c].mode = call[c].mode
      BY <1>0, <2>2, GotoKeepsMode
    <3>2. InTurnAt(call'[c]) BY <1>0, <2>1, <3>1 DEF InTurnAt
    <3> QED BY <2>1, <2>2, <3>1, <3>2, QuietMove
  <2>3. CASE After(c, op) BY <1>1, <2>1, <2>3, QuietMove
  <2> QED BY <2>1, <2>2, <2>3
<1> QED BY <1>2, <1>3, <1>4, <1>5

\* leaveRingGeneration ends the call.
LEMMA LeaveEnds ==
  ASSUME TypeOK, NEW c \in Callbacks, LeaveRingGeneration(c)
  PROVE  InTurnAt(call'[c]) /\ ~(Inside(c)') /\ call'[c].op = "none"
BY LeaveFacts, EndedInTurn DEF Inside

\* A callback that dozes, sleeps or is woken.
LEMMA WaitInTurn ==
  ASSUME OneCall, IInv, RenderInv, NEW c \in Callbacks, UNCHANGED <<callOnly, ringVars>>,
         call[c].step \in Waits, NEW step \in Waits, Goto(c, call[c].op, step)
  PROVE  RenderInv'
<1>1. call[c].op \in {"ready", "space", "output"} BY DEF IInv, OnlyOfflineWaits, Waits
<1>2. /\ call'[c].op = call[c].op /\ call'[c].step = step
      /\ call'[c].offline = call[c].offline /\ call'[c].mode = call[c].mode
  BY GotoKeepsMode DEF IInv
<1>3. InTurnAt(call[c]) BY InTurnEach DEF RenderInv
<1>4. InTurnAt(call'[c]) BY <1>1, <1>2, <1>3 DEF InTurnAt, Waits
<1>5. Inside(c)' => Inside(c) BY <1>1, <1>2 DEF Inside, Waits
<1> QED BY <1>1, <1>2, <1>4, <1>5, QuietMove

\* A call that gives up at its deadline leaves its frames in the rings.
LEMMA LeaveLevel ==
  ASSUME OneCall, IInv, RenderInv, NEW c \in Callbacks, UNCHANGED <<callOnly, ringVars>>,
         MayExpire, call[c].op # "mode", call'[c].op = "none"
  PROVE  Level'
<1>1. \A d \in Callbacks : d = c BY DEF OneCall
<1>2. UNCHANGED <<ready, renderingOffline, renderModeVersion, appliedRenderModeVersion, mpc>>
  BY DEF callOnly, modeVars
<1>3. Owed' = 0 /\ Owed \in Nat BY <1>1 DEF Owed
<1>4. Buffered' = Buffered /\ Buffered \in Int BY <1>2 DEF Buffered, ringVars, IInv, TypeOK
<1>5. OfflineGeneration' => OfflineGeneration BY <1>1, <1>2 DEF OfflineGeneration
<1> QED BY <1>3, <1>4, <1>5 DEF RenderInv, Level

\* The steps of processOffline that move no frame.
LEMMA OfflineInTurn ==
  ASSUME OneCall, IInv, RenderInv, NEW c \in Callbacks,
         \/ RequestMode(c) \/ StopWaitingReady(c) \/ RecheckOffline(c) \/ Doze(c) \/ FallAsleep(c)
         \/ SpuriousWakeup(c) \/ Deadline(c)
  PROVE  RenderInv'
<1>0. TypeOK /\ InTurnAt(call[c]) BY InTurnEach DEF IInv, RenderInv
<1>1. UNCHANGED <<callOnly, ringVars>>
  BY DEF RequestMode, StopWaitingReady, RecheckOffline, Doze, FallAsleep, SpuriousWakeup, Deadline
<1>2. CASE RequestMode(c)
  <2>1. /\ call'[c].op = "ready" /\ call'[c].step = "eval" /\ call[c].op = "ready"
        /\ call'[c].offline = call[c].offline /\ call'[c].mode = renderModeVersion
    BY <1>0, <1>2 DEF RequestMode, At, TypeOK
  <2>2. InTurnAt(call'[c]) /\ ~(Inside(c)') BY <1>0, <2>1 DEF InTurnAt, Inside
  <2> QED BY <1>1, <2>1, <2>2, QuietMove
<1>3. CASE StopWaitingReady(c)
  <2>1. /\ call[c].op = "ready" /\ call[c].step = "eval"
        /\ Goto(c, "space", "join") \/ Finish(c)
    BY <1>3 DEF StopWaitingReady, At
  <2>2. CASE Goto(c, "space", "join")
    <3>1. /\ call'[c].op = "space" /\ call'[c].step = "join"
          /\ call'[c].offline = call[c].offline /\ call'[c].mode = call[c].mode
      BY <1>0, <2>2, GotoKeepsMode
    <3>2. InTurnAt(call'[c]) /\ ~(Inside(c)') BY <1>0, <2>1, <3>1 DEF InTurnAt, Inside, Waits
    <3> QED BY <1>1, <2>1, <3>1, <3>2, QuietMove
  <2>3. CASE Finish(c)
    <3>1. InTurnAt(call'[c]) /\ ~(Inside(c)') /\ call'[c].op = "none"
      BY <1>0, <2>3, FinishFacts, EndedInTurn DEF Inside
    <3> QED BY <1>1, <2>1, <3>1, QuietMove
  <2> QED BY <2>1, <2>2, <2>3
<1>4. CASE RecheckOffline(c)
  <2>1. /\ call[c].op = "space" /\ call[c].step = "recheck"
        /\ \/ ready /\ appliedRenderModeVersion = call[c].mode /\ Goto(c, "space", "eval")
           \/ LeaveRingGeneration(c)
    BY <1>4 DEF RecheckOffline, At
  <2>2. CASE ready /\ appliedRenderModeVersion = call[c].mode /\ Goto(c, "space", "eval")
    <3>1. /\ call'[c].op = "space" /\ call'[c].step = "eval"
          /\ call'[c].offline = call[c].offline /\ call'[c].mode = call[c].mode
      BY <1>0, <2>2, GotoKeepsMode
    <3>2. InTurnAt(call'[c]) BY <1>0, <2>1, <2>2, <3>1 DEF InTurnAt, Waits
    <3> QED BY <1>1, <2>1, <2>2, <3>1, <3>2, QuietMove
  <2>3. CASE LeaveRingGeneration(c)
    BY <1>0, <1>1, <2>1, <2>3, LeaveEnds, QuietMove
  <2> QED BY <2>1, <2>2, <2>3
<1>5. CASE Doze(c)
  <2>1. call[c].step \in Waits /\ Goto(c, call[c].op, "doze") BY <1>5 DEF Doze, Waits
  <2> QED BY <1>1, <2>1, WaitInTurn DEF Waits
<1>6. CASE FallAsleep(c)
  <2>1. call[c].step \in Waits /\ Goto(c, call[c].op, "asleep") BY <1>6 DEF FallAsleep, Waits
  <2> QED BY <1>1, <2>1, WaitInTurn DEF Waits
<1>7. ASSUME call[c].step = "asleep", Goto(c, call[c].op, "eval") PROVE RenderInv'
  BY <1>1, <1>7, WaitInTurn DEF Waits
<1>8. CASE SpuriousWakeup(c) BY <1>7, <1>8 DEF SpuriousWakeup
<1>9. CASE Deadline(c)
  <2>1. /\ MayExpire /\ call[c].step = "asleep"
        /\ \/ Goto(c, call[c].op, "eval")
           \/ Finish(c)
           \/ LeaveRingGeneration(c)
    BY <1>9 DEF Deadline
  <2>2. CASE Finish(c) \/ LeaveRingGeneration(c)
    <3>1. InTurnAt(call'[c]) /\ ~(Inside(c)') /\ call'[c].op = "none"
      BY <1>0, <2>2, LeaveEnds, FinishFacts, EndedInTurn DEF Inside
    <3>2. call[c].op # "mode" BY <2>1 DEF IInv, OnlyOfflineWaits
    <3>3. Level' BY <1>1, <2>1, <3>1, <3>2, LeaveLevel
    <3> QED BY <1>1, <3>1, <3>3, MoveInTurn
  <2> QED BY <1>7, <2>1, <2>2
<1> QED BY <1>2, <1>3, <1>4, <1>5, <1>6, <1>8, <1>9

\* The steps that move frames between a call and the rings.
LEMMA FramesInTurn ==
  ASSUME OneCall, IInv, RenderInv, NEW c \in Callbacks,
         PushInput(c) \/ PopOutput(c) \/ PushOffline(c) \/ PopOffline(c)
  PROVE  RenderInv'
<1>0. TypeOK /\ InTurnAt(call[c]) BY InTurnEach DEF IInv, RenderInv
<1>1. \A d \in Callbacks : d = c BY DEF OneCall
<1>2. UNCHANGED callOnly BY DEF PushInput, PopOutput, PushOffline, PopOffline
<1>3. UNCHANGED <<ready, renderingOffline, renderModeVersion, appliedRenderModeVersion, mpc>>
  BY <1>2 DEF callOnly, modeVars
<1>4. inFrames \in Nat /\ outFrames \in Nat BY <1>0 DEF TypeOK
<1>5. CASE PushInput(c) \/ PopOutput(c)
  <2>1. /\ call[c].op \in {"push", "pop"} /\ call[c].step = "ring"
        /\ Goto(c, "pop", "check") \/ Finish(c)
    BY <1>5 DEF PushInput, PopOutput, At, After
  <2>2. InTurnAt(call'[c]) /\ ~(Inside(c)')
    <3>1. CASE Goto(c, "pop", "check") BY <1>0, <2>1, <3>1, GotoKeepsMode DEF InTurnAt, Inside
    <3>2. CASE Finish(c) BY <1>0, <3>2, FinishFacts, EndedInTurn DEF Inside
    <3> QED BY <2>1, <3>1, <3>2
  <2>3. ~renderingOffline BY <1>0, <2>1 DEF InTurnAt
  <2>4. Level' BY <1>3, <2>3 DEF Level, OfflineGeneration
  <2> QED BY <1>2, <2>1, <2>2, <2>4, MoveInTurn DEF Inside
<1>6. CASE PushOffline(c)
  <2>1. /\ call[c].op = "space" /\ call[c].step = "eval" /\ outFrames' = outFrames
        /\ \/ ready /\ inFrames' = inFrames + HostFrames /\ Goto(c, "output", "eval")
           \/ ~ready /\ inFrames' = inFrames /\ LeaveRingGeneration(c)
    BY <1>6 DEF PushOffline, At
  <2>2. Inside(c) BY <2>1 DEF Inside
  <2>3. CASE ready /\ inFrames' = inFrames + HostFrames /\ Goto(c, "output", "eval")
    <3>1. /\ call'[c].op = "output" /\ call'[c].step = "eval"
          /\ call'[c].offline = call[c].offline /\ call'[c].mode = call[c].mode
      BY <1>0, <2>3, GotoKeepsMode
    <3>2. InTurnAt(call'[c]) BY <1>0, <2>1, <3>1 DEF InTurnAt, Waits
    <3>3. Owed = 0 /\ Owed' = HostFrames BY <1>1, <2>1, <3>1 DEF Owed
    <3>4. Buffered' = Buffered + HostFrames /\ Buffered \in Int
      BY <1>3, <1>4, <2>1, <2>3 DEF Buffered
    <3>5. OfflineGeneration' => OfflineGeneration BY <1>1, <1>3, <2>1 DEF OfflineGeneration
    <3>6. Level' BY <3>3, <3>4, <3>5 DEF RenderInv, Level
    <3> QED BY <1>2, <2>2, <3>2, <3>6, MoveInTurn
  <2>4. CASE ~ready /\ inFrames' = inFrames /\ LeaveRingGeneration(c)
    <3>1. Level' BY <1>3, <2>4 DEF Level, OfflineGeneration
    <3> QED BY <1>0, <1>2, <2>2, <2>4, <3>1, LeaveEnds, MoveInTurn
  <2> QED BY <2>1, <2>3, <2>4
<1>7. CASE PopOffline(c)
  <2>1. /\ call[c].op = "output" /\ call[c].step = "eval" /\ inFrames' = inFrames
        /\ LeaveRingGeneration(c)
        /\ outFrames' = IF ready THEN outFrames - HostFrames ELSE outFrames
    BY <1>7 DEF PopOffline, At
  <2>2. Inside(c) BY <2>1 DEF Inside
  <2>3. InTurnAt(call'[c]) /\ ~(Inside(c)') /\ call'[c].op = "none" BY <1>0, <2>1, LeaveEnds
  <2>4. CASE ~ready
    <3>1. Level' BY <1>3, <2>4 DEF Level, OfflineGeneration
    <3> QED BY <1>2, <2>2, <2>3, <3>1, MoveInTurn
  <2>5. CASE ready
    <3>1. Owed = HostFrames /\ Owed' = 0 BY <1>1, <2>1, <2>3 DEF Owed
    <3>2. Buffered' = Buffered - HostFrames /\ Buffered \in Int
      BY <1>3, <1>4, <2>1, <2>5 DEF Buffered
    <3>3. OfflineGeneration' => OfflineGeneration BY <1>1, <1>3, <2>1 DEF OfflineGeneration
    <3>4. Level' BY <3>1, <3>2, <3>3 DEF RenderInv, Level
    <3> QED BY <1>2, <2>2, <2>3, <3>4, MoveInTurn
  <2> QED BY <2>4, <2>5
<1> QED BY <1>5, <1>6, <1>7

\* setRenderingOffline: the flag, ready, the version, one after the other.
LEMMA ModeInTurn ==
  ASSUME OneCall, IInv, RenderInv, NEW c \in Callbacks,
         Begin(c) \/ LowerReady(c) \/ BumpMode(c)
  PROVE  RenderInv'
<1>0. TypeOK /\ InTurnAt(call[c]) BY InTurnEach DEF IInv, RenderInv
<1>1. \A d \in Callbacks : d = c BY DEF OneCall
<1>2. UNCHANGED <<appliedRenderModeVersion, inFrames, outFrames, mpc, requestedMode>> /\ (ready' => ready)
  BY DEF Begin, LowerReady, BumpMode, ringVars, localVars, uiVars
<1>3. renderModeVersion \in Nat /\ appliedRenderModeVersion \in Nat /\ requestedMode \in Nat
  BY <1>0 DEF TypeOK
<1>4. ~(Inside(c)') /\ call[c].op # "output"
  <2>1. CASE Begin(c)
    BY <1>0, <2>1 DEF Begin, Inside, Idle, TypeOK
  <2>2. CASE LowerReady(c) BY <1>0, <2>2, GotoKeepsMode DEF LowerReady, At, Inside
  <2>3. CASE BumpMode(c) BY <1>0, <2>3, GotoKeepsMode DEF BumpMode, At, Inside
  <2> QED BY <2>1, <2>2, <2>3
<1>5. Modes'
  <2>1. renderModeVersion' = renderModeVersion \/ renderModeVersion' = renderModeVersion + 1
    BY DEF Begin, LowerReady, BumpMode, modeVars
  <2> QED BY <1>2, <1>3, <2>1 DEF RenderInv, Modes
<1>6. Filled'
  <2>1. \A d \in Callbacks : ~(Inside(d)') BY <1>1, <1>4 DEF Inside
  <2> QED BY <1>2, <2>1 DEF RenderInv, Filled
<1>7. InTurn' /\ Level'
  <2>1. CASE Begin(c)
    <3>1. /\ call'[c].op = IF call'[c].offline # renderingOffline THEN "mode"
                           ELSE IF call'[c].offline THEN "ready" ELSE "enter"
          /\ call'[c].step # "request" => call'[c].op # "ready"
          /\ renderingOffline' = call'[c].offline /\ call[c].op = "none"
          /\ UNCHANGED <<ready, renderModeVersion>>
      BY <1>0, <2>1 DEF Begin, TypeOK, Idle
    <3>2. InTurn' BY <1>1, <1>2, <3>1 DEF InTurn, Inside
    <3>3. CASE call'[c].op = "mode"
      <4>1. Level' BY <3>3 DEF Level, OfflineGeneration
      <4> QED BY <3>2, <4>1
    <3>4. CASE call'[c].op # "mode"
      <4>1. renderingOffline' = renderingOffline BY <3>1, <3>4
      <4>2. \A d \in Callbacks : call'[d].op = "output" <=> call[d].op = "output" BY <1>1, <3>1
      <4>3. \A d \in Callbacks : call[d].op # "mode" BY <1>1, <3>1
      <4>4. Level' BY <1>2, <3>1, <4>1, <4>2, <4>3, LevelKeeps DEF RenderInv
      <4> QED BY <3>2, <4>4
    <3> QED BY <3>3, <3>4
  <2>2. CASE LowerReady(c)
    <3>1. /\ call[c].op = "mode" /\ call'[c].op = "mode" /\ call'[c].offline = call[c].offline
          /\ ~ready' /\ UNCHANGED <<renderingOffline, renderModeVersion>>
      BY <1>0, <2>2, GotoKeepsMode DEF LowerReady, At, modeVars
    <3>2. InTurnAt(call'[c]) BY <1>0, <3>1 DEF InTurnAt
    <3>3. InTurn' BY <1>2, <3>1, <3>2, InTurnNext
    <3>4. Level' BY <3>1 DEF Level, OfflineGeneration
    <3> QED BY <3>3, <3>4
  <2>3. CASE BumpMode(c)
    <3>1. /\ call[c].op = "mode" /\ renderModeVersion' = renderModeVersion + 1
          /\ UNCHANGED renderingOffline
          /\ \/ call[c].offline /\ Goto(c, "ready", "request")
             \/ ~call[c].offline /\ Goto(c, "enter", "check")
      BY <2>3 DEF BumpMode, At
    <3>2. /\ call'[c].offline = call[c].offline
          /\ \/ call[c].offline /\ call'[c].op = "ready" /\ call'[c].step = "request"
             \/ ~call[c].offline /\ call'[c].op = "enter"
      BY <1>0, <3>1, GotoKeepsMode
    <3>3. call[c].offline = renderingOffline BY <1>0, <3>1 DEF InTurnAt
    <3>4. InTurn' BY <1>1, <3>1, <3>2, <3>3 DEF InTurn, Inside
    <3>5. appliedRenderModeVersion' # renderModeVersion'
      BY <1>2, <1>3, <3>1 DEF RenderInv, Modes
    <3>6. Level' BY <3>5 DEF Level, OfflineGeneration
    <3> QED BY <3>4, <3>6
  <2> QED BY <2>1, <2>2, <2>3
<1> QED BY <1>5, <1>6, <1>7 DEF RenderInv

\* Where the user interface and the management thread leave the calls.
LEMMA OthersLeaveCalls ==
  ASSUME IInv, UserInterface \/ Management
  PROVE  \A c \in Callbacks : /\ StaysPut(c)
                              /\ call'[c].offline = call[c].offline /\ call'[c].mode = call[c].mode
<1>1. call' = call \/ call' = Woken(call)
  <2>1. CASE UserInterface
    BY <2>1 DEF UserInterface, SetShape, SetHot, SetEnabled, BumpVersion, Destroy, uiRest
  <2>2. CASE Exit \/ TurnOff \/ Relaunch \/ KeepSession \/ ConnectionFails
    BY <2>2 DEF Exit, TurnOff, Relaunch, KeepSession, ConnectionFails, StopWorker
  <2>3. CASE WaitForAudioRingUsers \/ ResetRings \/ PublishMode \/ RaiseReady \/ CloseGeneration
    BY <2>3 DEF WaitForAudioRingUsers, ResetRings, PublishMode, RaiseReady, CloseGeneration
  <2>4. CASE AdoptParameters \/ ReadParameterVersion \/ ReadMode
    BY <2>4 DEF AdoptParameters, ReadParameterVersion, ReadMode
  <2>5. CASE Connected
    BY <2>5 DEF Connected, OpenSession, ConfigureSession, ApplyParameters, IdleBlock, SendBlock, ReceiveBlock
  <2> QED BY <2>1, <2>2, <2>3, <2>4, <2>5 DEF Management
<1>2. call \in [Callbacks -> CallType] BY DEF IInv, TypeOK, CallType
<1> QED BY <1>1, <1>2, OthersMoveNone, WokenKeepsMode

\* The calls stay in turn: a new generation is published while none is inside.
LEMMA OthersInTurn == ASSUME IInv, RenderInv, UserInterface \/ Management PROVE InTurn'
<1>1. \A c \in Callbacks : /\ StaysPut(c)
                           /\ call'[c].offline = call[c].offline /\ call'[c].mode = call[c].mode
  BY OthersLeaveCalls
<1>2. UNCHANGED <<renderingOffline, renderModeVersion>>
  BY DEF UserInterface, SetShape, SetHot, SetEnabled, BumpVersion, Destroy, uiRest, modeVars, hostVars, Management,
         Exit, TurnOff, Relaunch, KeepSession, WaitForAudioRingUsers, ResetRings, PublishMode, RaiseReady,
         AdoptParameters, ReadParameterVersion, ReadMode, CloseGeneration, Connected, OpenSession,
         ConfigureSession, ApplyParameters, IdleBlock, SendBlock, ReceiveBlock, ConnectionFails
<1>3. UNCHANGED appliedRenderModeVersion \/ mpc = "publish"
  BY DEF UserInterface, SetShape, SetHot, SetEnabled, BumpVersion, Destroy, uiRest, Management,
         Exit, TurnOff, Relaunch, KeepSession, WaitForAudioRingUsers, ResetRings, PublishMode, RaiseReady,
         AdoptParameters, ReadParameterVersion, ReadMode, CloseGeneration, Connected, OpenSession,
         ConfigureSession, ApplyParameters, IdleBlock, SendBlock, ReceiveBlock, ConnectionFails
<1>4. \A c \in Callbacks : Inside(c)' => Inside(c) BY <1>1 DEF StaysPut, Inside
<1>5. InTurn BY DEF RenderInv
<1>6. ASSUME NEW c \in Callbacks, Inside(c)', call'[c].op \in {"space", "output"}
      PROVE  appliedRenderModeVersion' = renderModeVersion'
  <2>1. Inside(c) /\ call[c].op \in {"space", "output"} BY <1>1, <1>4, <1>6 DEF StaysPut
  <2>2. mpc # "publish" BY <2>1 DEF RenderInv, Filled
  <2> QED BY <1>2, <1>3, <1>5, <2>1, <2>2 DEF InTurn
<1>7. ASSUME NEW c \in Callbacks
      PROVE  /\ call'[c].op # "none" => call'[c].offline = renderingOffline'
             /\ call'[c].op \in {"ready", "space", "output"} => call'[c].offline
             /\ call'[c].op \in {"enter", "push", "pop"} => ~call'[c].offline
             /\ call'[c].op = "output" => call'[c].step \in Waits
             /\ (call'[c].op \in {"ready", "space", "output"} /\ call'[c].step # "request")
                  => call'[c].mode = renderModeVersion'
  BY <1>1, <1>2, <1>5 DEF InTurn, StaysPut, Waits
<1> QED BY <1>6, <1>7 DEF InTurn

\* The management thread never runs ahead of the mode, and publishes the rings
\* it has just reset.
LEMMA OthersFilled == ASSUME IInv, RenderInv, UserInterface \/ Management PROVE Modes' /\ Filled'
<1>1. RingExclusion' BY ResetAlone
<1>2. \A c \in Callbacks : Inside(c)' => Inside(c) BY OthersMoveNone DEF StaysPut, Inside
<1>3. renderModeVersion \in Nat BY DEF IInv, TypeOK
<1> USE DEF RenderInv, Modes, Filled
<1>4. CASE UserInterface
  BY <1>2, <1>4 DEF UserInterface, SetShape, SetHot, SetEnabled, BumpVersion, Destroy, uiRest, modeVars, ringVars,
                    localVars
<1>5. CASE Management
  <2> USE DEF hostVars, modeVars, localVars
  <2>1. CASE WaitForAudioRingUsers BY <1>1, <2>1 DEF WaitForAudioRingUsers, RingExclusion
  <2>2. CASE ResetRings BY <1>2, <2>2 DEF ResetRings
  <2>3. CASE PublishMode BY <1>2, <1>3, <2>3 DEF PublishMode, ringVars
  <2>4. CASE ReadMode BY <1>3, <2>4 DEF ReadMode
  <2>5. CASE Exit \/ TurnOff \/ Relaunch \/ KeepSession \/ RaiseReady \/ ConnectionFails
    <3>1. mpc' \notin {"reset", "publish", "raise"}
      BY <2>5 DEF Exit, TurnOff, Relaunch, KeepSession, RaiseReady, ConnectionFails
    <3> QED BY <2>5, <3>1 DEF Exit, TurnOff, Relaunch, KeepSession, RaiseReady, ConnectionFails
  <2>6. CASE AdoptParameters \/ ReadParameterVersion \/ CloseGeneration \/ Connected
    <3>1. mpc' \notin {"reset", "publish", "raise"}
      BY <2>6 DEF AdoptParameters, ReadParameterVersion, CloseGeneration, Connected, OpenSession,
                  ConfigureSession, ApplyParameters, IdleBlock, SendBlock, ReceiveBlock
    <3>2. UNCHANGED <<renderModeVersion, appliedRenderModeVersion, requestedMode>>
      BY <2>6 DEF AdoptParameters, ReadParameterVersion, CloseGeneration, Connected, OpenSession,
                  ConfigureSession, ApplyParameters, IdleBlock, SendBlock, ReceiveBlock
    <3> QED BY <3>1, <3>2
  <2> QED BY <1>5, <2>1, <2>2, <2>3, <2>4, <2>5, <2>6 DEF Management
<1> QED BY <1>4, <1>5

USE LatencyAssumption

\* A block only travels, and a new generation begins with the latency.
LEMMA OthersLevel == ASSUME IInv, RenderInv, UserInterface \/ Management PROVE Level'
<1>1. \A c \in Callbacks : call'[c].op = call[c].op BY OthersMoveNone DEF StaysPut
<1>2. Level BY DEF RenderInv
<1>3. ASSUME UNCHANGED <<renderingOffline, renderModeVersion, appliedRenderModeVersion, inFrames, outFrames>>,
             ready' => ready, mpc' = "await" <=> mpc = "await"
      PROVE  Level'
  BY <1>1, <1>2, <1>3, LevelKeeps
<1>4. ASSUME ~ready' PROVE Level' BY <1>4 DEF Level, OfflineGeneration
<1>5. Owed' = Owed /\ Owed \in {0, HostFrames} BY <1>1 DEF Owed
<1>6. inFrames \in Nat /\ outFrames \in Nat BY DEF IInv, TypeOK
<1> USE DEF hostVars, modeVars, ringVars
<1>7. CASE UserInterface
  BY <1>3, <1>7 DEF UserInterface, SetShape, SetHot, SetEnabled, BumpVersion, Destroy, uiRest
<1>8. CASE Exit \/ TurnOff \/ Relaunch \/ ConnectionFails \/ CloseGeneration
  BY <1>4, <1>8 DEF Exit, TurnOff, Relaunch, ConnectionFails, StopWorker, CloseGeneration
<1>9. CASE ResetRings \/ PublishMode
  <2>1. ~ready /\ ready' = ready BY <1>9 DEF ResetRings, PublishMode, IInv, NotReady, Generation
  <2> QED BY <1>4, <2>1
<1>10. CASE RaiseReady
  <2>1. inFrames' = 0 /\ outFrames' = Latency /\ mpc' # "await" /\ \A c \in Callbacks : ~Inside(c)
    BY <1>10 DEF RaiseReady, RenderInv, Filled
  <2>2. \A c \in Callbacks : call[c].op # "output" BY <2>1 DEF RenderInv, InTurn, Inside, Waits
  <2>3. Owed' = 0 /\ Buffered' = Latency BY <1>1, <2>1, <2>2 DEF Owed, Buffered
  <2> QED BY <2>3 DEF Level
<1>11. CASE KeepSession \/ WaitForAudioRingUsers \/ AdoptParameters \/ ReadParameterVersion \/ ReadMode
  BY <1>3, <1>11 DEF KeepSession, WaitForAudioRingUsers, AdoptParameters, ReadParameterVersion, ReadMode
<1>12. CASE OpenSession \/ ConfigureSession \/ ApplyParameters \/ IdleBlock
  BY <1>3, <1>12 DEF OpenSession, ConfigureSession, ApplyParameters, IdleBlock
<1>13. CASE SendBlock
  <2>1. Buffered' = Buffered BY <1>6, <1>13 DEF SendBlock, Buffered
  <2>2. OfflineGeneration' => OfflineGeneration BY <1>1, <1>13 DEF SendBlock, OfflineGeneration
  <2> QED BY <1>2, <1>5, <2>1, <2>2 DEF Level
<1>14. CASE ReceiveBlock
  <2>1. /\ mpc = "await" /\ mpc' = "mode" /\ inFrames' = inFrames
        /\ outFrames' = Least(RingCapacity, outFrames + BlockFrames)
    BY <1>14 DEF ReceiveBlock
  <2>2. OfflineGeneration' => OfflineGeneration BY <1>1, <1>14 DEF ReceiveBlock, OfflineGeneration
  <2>3. CASE outFrames + BlockFrames <= RingCapacity
    <3>1. Buffered' = Buffered BY <1>6, <2>1, <2>3 DEF Buffered, Least
    <3> QED BY <1>2, <1>5, <2>2, <3>1 DEF Level
  <2>4. CASE ~(outFrames + BlockFrames <= RingCapacity)
    <3>1. Buffered' >= RingCapacity /\ Buffered > RingCapacity /\ Buffered' \in Int
      BY <1>6, <2>1, <2>4 DEF Buffered, Least
    <3>2. Latency + Owed <= RingCapacity BY <1>5
    <3>3. Owed \in Int /\ Buffered \in Int BY <1>5, <1>6 DEF Buffered
    <3>4. OfflineGeneration' => MayExpire BY <1>2, <2>2, <3>1, <3>2, <3>3 DEF Level
    <3>5. Buffered' >= Latency + Owed' BY <1>5, <3>1, <3>2, <3>3
    <3> QED BY <3>4, <3>5 DEF Level
  <2> QED BY <2>3, <2>4
<1> QED BY <1>7, <1>8, <1>9, <1>10, <1>11, <1>12, <1>13, <1>14 DEF Management, Connected

\* Every step keeps it, when the host makes one call at a time.
LEMMA NextRender == OneCall /\ IInv /\ RenderInv /\ [Next]_vars => RenderInv'
<1> SUFFICES ASSUME OneCall, IInv, RenderInv, [Next]_vars PROVE RenderInv' OBVIOUS
<1>1. ASSUME NEW c \in Callbacks, Begin(c) \/ CallStep(c) \/ SpuriousWakeup(c) PROVE RenderInv'
  <2>1. CASE Begin(c) \/ LowerReady(c) \/ BumpMode(c) BY <2>1, ModeInTurn
  <2>2. CASE Passthrough(c) \/ Check(c) \/ Join(c) \/ Recheck(c) BY <2>2, RealtimeInTurn
  <2>3. CASE PushInput(c) \/ PopOutput(c) \/ PushOffline(c) \/ PopOffline(c) BY <2>3, FramesInTurn
  <2>4. CASE RequestMode(c) \/ StopWaitingReady(c) \/ RecheckOffline(c) \/ Doze(c) \/ FallAsleep(c)
             \/ SpuriousWakeup(c) \/ Deadline(c)
    BY <2>4, OfflineInTurn
  <2> QED BY <1>1, <2>1, <2>2, <2>3, <2>4 DEF CallStep, Realtime, Offline
<1>2. CASE UserInterface \/ Management
  BY <1>2, OthersInTurn, OthersFilled, OthersLevel DEF RenderInv
<1>3. CASE UNCHANGED vars
  <2>1. UNCHANGED <<ready, renderingOffline, renderModeVersion, appliedRenderModeVersion, inFrames, outFrames,
                    call, mpc, requestedMode>>
    BY <1>3 DEF vars, modeVars, ringVars, localVars
  <2> QED BY <2>1 DEF RenderInv, InTurn, Inside, Modes, Filled, Level, OfflineGeneration, Buffered, Owed
<1> QED BY <1>1, <1>2, <1>3 DEF Next

\* All the invariants hold in every reachable state.
LEMMA RenderHolds == ASSUME OneCall PROVE Spec => [](IInv /\ RenderInv)
<1>1. Init => IInv /\ RenderInv BY InitIInv, InitRender
<1>2. (IInv /\ RenderInv) /\ [Next]_vars => (IInv /\ RenderInv)' BY NextIInv, NextRender
<1> QED BY <1>1, <1>2, PTL DEF Spec

\* What is owed, as the run's properties count it.
LEMMA OwedToWaiting ==
  ASSUME OneCall
  PROVE  HostFrames * Cardinality(Waiting) = Owed
<1>1. CASE \E c \in Callbacks : call[c].op = "output"
  <2>1. PICK c \in Callbacks : call[c].op = "output" BY <1>1
  <2>2. Waiting = {c} BY <2>1 DEF OneCall, Waiting
  <2>3. Cardinality(Waiting) = 1 BY <2>2, FS_Singleton
  <2> QED BY <1>1, <2>3 DEF Owed
<1>2. CASE ~\E c \in Callbacks : call[c].op = "output"
  <2>1. Waiting = {} BY <1>2 DEF Waiting
  <2>2. Cardinality(Waiting) = 0 BY <2>1, FS_EmptySet
  <2> QED BY <1>2, <2>2 DEF Owed
<1> QED BY <1>1, <1>2

\* An offline call that pushed its input never waits for nothing: its output is
\* in the ring, or a block is ready to be sent or under way, whatever was
\* abandoned before it.  The latency the rings start with is enough for every
\* host block and every session block.
THEOREM OfflineSupplied == ASSUME OneCall PROVE Spec => []OfflineSupply
<1>1. IInv /\ RenderInv => OfflineSupply
  <2> SUFFICES ASSUME IInv, RenderInv, NEW c \in Callbacks,
                      call[c].op = "output", ready, mpc # "await"
               PROVE  inFrames >= BlockFrames \/ outFrames >= HostFrames
    BY DEF OfflineSupply
  <2>1. Inside(c) BY DEF RenderInv, InTurn, Inside, Waits
  <2>2. OfflineGeneration BY <2>1 DEF RenderInv, InTurn, OfflineGeneration, OneCall
  <2>3. Owed = HostFrames BY DEF Owed
  <2>4. inFrames + outFrames >= Latency + HostFrames
    BY <2>2, <2>3 DEF RenderInv, Level, Buffered, IInv, TypeOK
  <2> QED BY <2>4 DEF IInv, TypeOK
<1> QED BY <1>1, RenderHolds, PTL

\* In an offline render in which no call gives up, the output is exactly
\* Latency frames behind the input, as SetLatency told the host: no order of a
\* relaunch, a change of the mode and the blocks loses or adds a frame.
THEOREM DelayIsLatency == ASSUME OneCall, ~MayExpire PROVE Spec => []OfflineDelayIsLatency
<1>1. IInv /\ RenderInv => OfflineDelayIsLatency
  <2> SUFFICES ASSUME IInv, RenderInv, Current, renderingOffline
               PROVE  inFrames + outFrames + (IF mpc = "await" THEN BlockFrames ELSE 0)
                        = Latency + HostFrames * Cardinality(Waiting)
    BY DEF OfflineDelayIsLatency
  <2>1. OfflineGeneration BY DEF Current, OfflineGeneration
  <2>2. Buffered = Latency + Owed BY <2>1 DEF RenderInv, Level
  <2> QED BY <2>2, OwedToWaiting DEF Buffered
<1> QED BY <1>1, RenderHolds, PTL
=============================================================================
