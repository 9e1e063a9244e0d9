-------------------------- MODULE PymssServer_proofs --------------------------
(***************************************************************************)
(* Proofs about PymssServer, for any number of requests and of processes    *)
(* that fetch the same file: the flags and locks say what the requests do,  *)
(* the inference lock keeps threads and switches apart, the server uses its *)
(* model as ModelSlot promises, and what it installs is whole.              *)
(***************************************************************************)
EXTENDS PymssServer, FiniteSetTheorems, TLAPS

Places == {"unborn", "queued", "running", "unload", "closing", "resolve", "create", "fetching", "answered"}
ReqType == [kind : {"none", "separate", "load", "download"}, at : Places, sep : Separators \cup {None}]

Types ==
  /\ loaded \in Separators \cup {None} /\ loading \in BOOLEAN
  /\ modelLock \in Requests \cup {None} /\ downloadLock \in Requests \cup {None}
  /\ inference \in Seq(Requests)
  /\ req \in [Requests -> ReqType]
  /\ thread \in [Requests -> Separators \cup {None}]
  /\ open \subseteq Separators

\* inference_lock: its line holds each request that waits for it or has it, once,
\* and what runs or closes a model is first.
InLine == {"queued", "running", "unload", "closing"}
Line ==
  /\ \A i, j \in 1..Len(inference) : inference[i] = inference[j] => i = j
  /\ \A r \in Requests : req[r].at \in InLine <=> \E i \in 1..Len(inference) : inference[i] = r
  /\ \A r \in Requests : req[r].at \in {"running", "closing"} => Holds(r)

\* RequestLimiter.
Admitted == {"queued", "running"}
Queue == At(Admitted)
Counted == IsFiniteSet(Queue) /\ active = Cardinality(Queue) /\ active <= QueueLimit

\* model_lock, download_lock and model_loading.
Switching == {"unload", "closing", "resolve", "create"}
Switchers == At(Switching)
Fetchers == At({"fetching"})
Locks ==
  /\ Switchers = {modelLock} \ {None}
  /\ Fetchers = {downloadLock} \ {None}
  /\ loading = (modelLock # None)
  /\ ~(modelLock # None /\ downloadLock # None)

\* The models: a switch takes the old one out of service and waits for what runs
\* on it before anything else happens.
Serving ==
  /\ loaded # None => loaded \in open
  /\ modelLock # None => loaded = None
  /\ \A r \in Requests : req[r].at \in InLine => req[r].sep # None
  /\ \A r \in Requests : req[r].at = "running" =>
       /\ thread[r] = req[r].sep /\ thread[r] \in open
       /\ loaded # None \/ (modelLock # None /\ req[modelLock].at = "unload")

IInv == Types /\ Line /\ Counted /\ Locks /\ Serving

USE QueueLimitAssumption, SeparatorsAssumption

----------------------------------------------------------------------------
(* A step of one request.                                                   *)

Moved(r, to) ==
  /\ req' \in [Requests -> ReqType] /\ req'[r].at = to
  /\ \A q \in Requests \ {r} : req'[q] = req[q]

\* What an assignment to a request does.
LEMMA MoveTo ==
  ASSUME Types, NEW r \in Requests, NEW new \in ReqType, req' = [req EXCEPT ![r] = new]
  PROVE  Moved(r, new.at) /\ req'[r] = new
BY DEF Types, Moved

\* What the assignments to some of its fields do.
LEMMA MoveAt ==
  ASSUME Types, NEW r \in Requests, NEW to \in Places, req' = [req EXCEPT ![r].at = to]
  PROVE  Moved(r, to) /\ req'[r].sep = req[r].sep
<1> DEFINE new == [req[r] EXCEPT !.at = to]
<1>1. new \in ReqType /\ new.at = to /\ new.sep = req[r].sep BY DEF Types, ReqType
<1>2. req' = [req EXCEPT ![r] = new] BY DEF Types
<1> HIDE DEF new
<1>3. Moved(r, new.at) /\ req'[r] = new BY ONLY <1>1, <1>2, Types, r \in Requests, MoveTo
<1> QED BY ONLY <1>1, <1>3

\* The same for the kind and the place.
LEMMA MoveKind ==
  ASSUME Types, NEW r \in Requests, NEW to \in Places, NEW kind \in {"separate", "load", "download"},
         req' = [req EXCEPT ![r].kind = kind, ![r].at = to]
  PROVE  Moved(r, to) /\ req'[r].sep = req[r].sep
<1> DEFINE new == [req[r] EXCEPT !.kind = kind, !.at = to]
<1>1. new \in ReqType /\ new.at = to /\ new.sep = req[r].sep BY DEF Types, ReqType
<1>2. req' = [req EXCEPT ![r] = new] BY DEF Types
<1> HIDE DEF new
<1>3. Moved(r, new.at) /\ req'[r] = new BY ONLY <1>1, <1>2, Types, r \in Requests, MoveTo
<1> QED BY ONLY <1>1, <1>3

\* The same for the place and the separator.
LEMMA MoveSep ==
  ASSUME Types, NEW r \in Requests, NEW to \in Places, req' = [req EXCEPT ![r].at = to, ![r].sep = None]
  PROVE  Moved(r, to)
<1> DEFINE new == [req[r] EXCEPT !.at = to, !.sep = None]
<1>1. new \in ReqType /\ new.at = to BY DEF Types, ReqType
<1>2. req' = [req EXCEPT ![r] = new] BY DEF Types
<1> HIDE DEF new
<1>3. Moved(r, new.at) BY ONLY <1>1, <1>2, Types, r \in Requests, MoveTo
<1> QED BY ONLY <1>1, <1>3

\* The same for all three.
LEMMA MoveAll ==
  ASSUME Types, NEW r \in Requests, NEW to \in Places, NEW kind \in {"separate", "load"},
         NEW sep \in Separators \cup {None}, NEW new, new = [kind |-> kind, at |-> to, sep |-> sep],
         req' = [req EXCEPT ![r] = new]
  PROVE  Moved(r, to) /\ req'[r].sep = sep
<1>1. new \in ReqType /\ new.at = to /\ new.sep = sep BY DEF ReqType
<1> QED BY <1>1 DEF Types, Moved

\* The requests at some places, after a step of one.
LEMMA AtMoves ==
  ASSUME Types, NEW r \in Requests, NEW to, Moved(r, to), NEW P
  PROVE  /\ {q \in Requests : req'[q].at \in P} = IF to \in P THEN At(P) \cup {r} ELSE At(P) \ {r}
         /\ r \in At(P) <=> req[r].at \in P
BY DEF Types, Moved, At

\* A request joins the line of the inference lock.
LEMMA LineJoins ==
  ASSUME Types, Line, NEW r \in Requests, NEW to \in {"queued", "unload"}, Moved(r, to),
         req[r].at \notin InLine, inference' = Append(inference, r)
  PROVE  Line'
<1> DEFINE n == Len(inference)
<1>1. /\ inference \in Seq(Requests) /\ n \in Nat /\ Len(inference') = n + 1
      /\ \A i \in 1..n : inference'[i] = inference[i] /\ inference[i] \in Requests
      /\ inference'[n + 1] = r
  BY DEF Types
<1>2. \A i \in 1..n : inference[i] # r BY DEF Line
<1>3. \A i, j \in 1..(n + 1) : inference'[i] = inference'[j] => i = j BY <1>1, <1>2 DEF Line
<1>4. \A q \in Requests : req'[q].at \in InLine <=> \E i \in 1..(n + 1) : inference'[i] = q
  <2> TAKE q \in Requests
  <2>1. CASE q = r BY <1>1, <2>1 DEF Moved, InLine
  <2>2. CASE q # r
    <3>1. req'[q].at \in InLine <=> \E i \in 1..n : inference[i] = q BY <2>2 DEF Moved, Line
    <3>2. (\E i \in 1..n : inference[i] = q) <=> \E i \in 1..(n + 1) : inference'[i] = q BY <1>1, <2>2
    <3> QED BY <3>1, <3>2
  <2> QED BY <2>1, <2>2
<1>5. \A q \in Requests : req'[q].at \in {"running", "closing"} => Holds(q)'
  <2> SUFFICES ASSUME NEW q \in Requests, req'[q].at \in {"running", "closing"}
               PROVE  inference' # <<>> /\ Head(inference') = q
    BY DEF Holds
  <2>1. q # r /\ Holds(q) BY DEF Moved, Line
  <2>2. inference # <<>> /\ inference[1] = q /\ n >= 1 BY <1>1, <2>1 DEF Holds
  <2> QED BY <1>1, <2>2
<1> QED BY <1>1, <1>3, <1>4, <1>5 DEF Line

\* The first of the line leaves it.
LEMMA LineLeaves ==
  ASSUME Types, Line, NEW r \in Requests, NEW to, Moved(r, to), to \notin InLine,
         Holds(r), inference' = Tail(inference)
  PROVE  Line'
<1> DEFINE n == Len(inference)
<1>1. /\ inference \in Seq(Requests) /\ n \in Nat /\ n >= 1 /\ Len(inference') = n - 1
      /\ inference[1] = r /\ \A i \in 1..(n - 1) : inference'[i] = inference[i + 1]
  BY DEF Types, Holds
<1>2. \A i, j \in 1..(n - 1) : inference'[i] = inference'[j] => i = j BY <1>1 DEF Line
<1>3. \A i \in 2..n : inference[i] # r BY <1>1 DEF Line
<1>4. \A q \in Requests : req'[q].at \in InLine <=> \E i \in 1..(n - 1) : inference'[i] = q
  <2> TAKE q \in Requests
  <2>1. (\E i \in 1..(n - 1) : inference'[i] = q) <=> \E i \in 2..n : inference[i] = q
    <3>1. ASSUME NEW i \in 1..(n - 1), inference'[i] = q PROVE \E k \in 2..n : inference[k] = q
      <4>1. i + 1 \in 2..n /\ inference[i + 1] = q BY <1>1, <3>1
      <4> QED BY <4>1
    <3>2. ASSUME NEW i \in 2..n, inference[i] = q PROVE \E k \in 1..(n - 1) : inference'[k] = q
      <4>1. i - 1 \in 1..(n - 1) /\ inference'[i - 1] = q BY <1>1, <3>2
      <4> QED BY <4>1
    <3> QED BY <3>1, <3>2
  <2>2. CASE q = r BY <1>3, <2>1, <2>2 DEF Moved
  <2>3. CASE q # r
    <3>1. req'[q].at \in InLine <=> \E i \in 1..n : inference[i] = q BY <2>3 DEF Moved, Line
    <3>2. (\E i \in 1..n : inference[i] = q) <=> \E i \in 2..n : inference[i] = q BY <1>1, <2>3
    <3> QED BY <2>1, <3>1, <3>2
  <2> QED BY <2>2, <2>3
<1>5. \A q \in Requests : req'[q].at \in {"running", "closing"} => Holds(q)'
  <2> SUFFICES ASSUME NEW q \in Requests, req'[q].at \in {"running", "closing"} PROVE FALSE OBVIOUS
  <2>1. q # r BY DEF Moved, InLine
  <2>2. Holds(q) BY <2>1 DEF Moved, Line
  <2> QED BY <2>1, <2>2 DEF Holds
<1> QED BY <1>1, <1>2, <1>4, <1>5 DEF Line

\* The line stays as it is.
LEMMA LineStays ==
  ASSUME Types, Line, NEW r \in Requests, NEW to, Moved(r, to), UNCHANGED inference,
         to \in InLine <=> req[r].at \in InLine, to \in {"running", "closing"} => Holds(r)
  PROVE  Line'
BY DEF Types, Line, Moved, Holds

\* RequestLimiter: a request is admitted, leaves, or does neither.
LEMMA CountJoins ==
  ASSUME Types, Counted, NEW r \in Requests, Moved(r, "queued"), req[r].at \notin Admitted,
         active < QueueLimit, active' = active + 1
  PROVE  Counted'
<1>1. Queue' = Queue \cup {r} /\ r \notin Queue
  <2>1. "queued" \in Admitted BY DEF Admitted
  <2> QED BY <2>1, AtMoves DEF At, Queue
<1>2. /\ IsFiniteSet(Queue \cup {r})
      /\ Cardinality(Queue \cup {r}) = Cardinality(Queue) + 1
  BY <1>1, FS_AddElement DEF Counted
<1>3. active \in Nat BY FS_CardinalityType DEF Counted
<1> QED BY <1>1, <1>2, <1>3 DEF Counted

\* It is answered.
LEMMA CountLeaves ==
  ASSUME Types, Counted, NEW r \in Requests, NEW to, Moved(r, to), to \notin Admitted,
         req[r].at \in Admitted, active' = active - 1
  PROVE  Counted'
<1>1. Queue' = Queue \ {r} /\ r \in Queue BY AtMoves DEF At, Queue
<1>2. /\ IsFiniteSet(Queue \ {r})
      /\ Cardinality(Queue \ {r}) = Cardinality(Queue) - 1
  BY <1>1, FS_RemoveElement DEF Counted
<1>3. active \in Nat BY FS_CardinalityType DEF Counted
<1> QED BY <1>1, <1>2, <1>3 DEF Counted

\* Neither.
LEMMA CountStays ==
  ASSUME Types, Counted, NEW r \in Requests, NEW to, Moved(r, to),
         to \in Admitted <=> req[r].at \in Admitted, UNCHANGED active
  PROVE  Counted'
<1>1. Queue' = Queue BY AtMoves DEF At, Queue
<1> QED BY <1>1 DEF Counted

\* The other locks stay with their holders.
LEMMA LocksStay ==
  ASSUME Types, Locks, NEW r \in Requests, NEW to, Moved(r, to),
         to \in Switching <=> req[r].at \in Switching, to = "fetching" <=> req[r].at = "fetching",
         UNCHANGED <<loading, modelLock, downloadLock>>
  PROVE  Locks'
<1>1. Switchers' = Switchers BY AtMoves DEF At, Switchers
<1>2. Fetchers' = Fetchers BY DEF Moved, At, Fetchers
<1> QED BY <1>1, <1>2 DEF Locks

\* The request that switches the model holds its lock, and nothing serves.
LEMMA Switcher ==
  ASSUME Types, Locks, Serving, NEW r \in Requests, req[r].at \in Switching
  PROVE  modelLock = r /\ r # None /\ loading /\ loaded = None /\ downloadLock = None
<1>1. r \in Switchers BY DEF At, Switchers
<1> QED BY <1>1 DEF Locks, Serving

\* Whatever is separated is in the line, and alone at its head.
LEMMA FirstAlone ==
  ASSUME Types, Line, NEW r \in Requests, Holds(r), NEW q \in Requests, req[q].at \in {"running", "closing"}
  PROVE  q = r
BY DEF Line, Holds

\* The separations after a step that touches no separator.
LEMMA ServingStays ==
  ASSUME Types, Locks, Serving, NEW r \in Requests, NEW to, Moved(r, to),
         to \in InLine => req[r].at \in InLine /\ req'[r].sep = req[r].sep,
         to # "running", to # "unload", req[r].at # "unload",
         UNCHANGED <<loaded, modelLock, open>>,
         \A q \in Requests \ {r} : req[q].at = "running" => thread'[q] = thread[q]
  PROVE  Serving'
<1>1. \A q \in Requests : req'[q].at = "running" => q # r /\ req'[q] = req[q] BY DEF Moved
<1>2. modelLock # None /\ req[modelLock].at = "unload" => req'[modelLock].at = "unload"
  BY DEF Types, Moved
<1>3. \A q \in Requests : req'[q].at \in InLine => req'[q].sep # None
  <2> SUFFICES ASSUME NEW q \in Requests, req'[q].at \in InLine PROVE req'[q].sep # None OBVIOUS
  <2>1. CASE q = r BY <2>1 DEF Moved, Serving
  <2>2. CASE q # r BY <2>2 DEF Moved, Serving
  <2> QED BY <2>1, <2>2
<1> QED BY <1>1, <1>2, <1>3 DEF Serving

----------------------------------------------------------------------------
(* Separations.                                                             *)

\* The finally of _run_separation.
LEMMA LeaveKeeps ==
  ASSUME IInv, NEW r \in Requests, req[r].at \in Admitted, Holds(r), Leave(r),
         UNCHANGED <<loaded, loading, modelLock, downloadLock, open>>,
         thread' \in [Requests -> Separators \cup {None}],
         \A q \in Requests \ {r} : thread'[q] = thread[q]
  PROVE  IInv'
<1> USE DEF IInv
<1>1. Moved(r, "answered") BY MoveAt DEF Leave, Answered, Places
<1>2. inference' = Tail(inference) /\ active' = active - 1 BY DEF Leave
<1>3. Types'
  <2>1. inference' \in Seq(Requests) BY <1>2 DEF Types, Holds
  <2> QED BY <1>1, <2>1 DEF Types, Moved
<1>4. Line' BY <1>1, <1>2, LineLeaves DEF InLine
<1>5. Counted' BY <1>1, <1>2, CountLeaves DEF Admitted
<1>6. Locks' BY <1>1, LocksStay DEF Switching, Admitted
<1>7. Serving' BY <1>1, ServingStays DEF InLine, Admitted
<1> QED BY <1>3, <1>4, <1>5, <1>6, <1>7

\* A request arrives and is refused, or admitted with the model that serves.
LEMMA SeparateKeeps == ASSUME IInv, NEW r \in Requests, Separate(r) PROVE IInv'
<1> USE DEF IInv
<1>1. req[r].at = "unborn" /\ UNCHANGED <<loaded, loading, modelLock, downloadLock, thread, open>>
  BY DEF Separate
<1>2. CASE loading \/ loaded = None \/ active >= QueueLimit
  <2>1. req' = [req EXCEPT ![r].kind = "separate", ![r].at = "answered"] /\ UNCHANGED <<active, inference>>
    BY <1>2 DEF Separate
  <2>2. Moved(r, "answered") BY <2>1, MoveKind DEF Places
  <2>3. Types' BY <1>1, <2>1, <2>2 DEF Types, Moved
  <2>4. Line' BY <1>1, <2>1, <2>2, LineStays DEF InLine
  <2>5. Counted' BY <1>1, <2>1, <2>2, CountStays DEF Admitted
  <2>6. Locks' BY <1>1, <2>2, LocksStay DEF Switching
  <2>7. Serving' BY <1>1, <2>2, ServingStays DEF InLine
  <2> QED BY <2>3, <2>4, <2>5, <2>6, <2>7
<1>3. CASE ~(loading \/ loaded = None \/ active >= QueueLimit)
  <2> DEFINE new == [kind |-> "separate", at |-> "queued", sep |-> loaded]
  <2>1. req' = [req EXCEPT ![r] = new] /\ active' = active + 1 /\ inference' = Append(inference, r)
    BY <1>3 DEF Separate
  <2>2. new.at = "queued" /\ new.sep = loaded /\ new \in ReqType BY DEF ReqType, Places, Types
  <2> HIDE DEF new
  <2>3. Moved(r, "queued") /\ req'[r].sep = loaded BY <2>1, <2>2, MoveTo
  <2>4. Types'
    <3>1. inference' \in Seq(Requests) BY <2>1 DEF Types
    <3> QED BY <1>1, <2>3, <3>1 DEF Types, Moved
  <2>5. Line' BY <1>1, <2>1, <2>3, LineJoins DEF InLine
  <2>6. active < QueueLimit
    <3>1. active \in Nat BY FS_CardinalityType DEF Counted
    <3> QED BY <1>3, <3>1
  <2>7. Counted' BY <1>1, <2>1, <2>3, <2>6, CountJoins DEF Admitted
  <2>8. Locks' BY <1>1, <2>3, LocksStay DEF Switching
  <2>9. Serving'
    <3>1. \A q \in Requests : req'[q].at = "running" => q # r /\ req'[q] = req[q] BY <2>3 DEF Moved
    <3>2. loaded # None BY <1>3
    <3>3. \A q \in Requests : req'[q].at \in InLine => req'[q].sep # None
      <4> SUFFICES ASSUME NEW q \in Requests, req'[q].at \in InLine PROVE req'[q].sep # None OBVIOUS
      <4>1. CASE q = r BY <2>3, <3>2, <4>1
      <4>2. CASE q # r BY <2>3, <4>2 DEF Moved, Serving
      <4> QED BY <4>1, <4>2
    <3> QED BY <1>1, <3>1, <3>2, <3>3 DEF Serving
  <2> QED BY <2>4, <2>5, <2>7, <2>8, <2>9
<1> QED BY <1>2, <1>3

\* The inference lock is taken, and the model is looked at again.
LEMMA EnterKeeps == ASSUME IInv, NEW r \in Requests, Enter(r) PROVE IInv'
<1> USE DEF IInv
<1>1. /\ req[r].at = "queued" /\ Holds(r)
      /\ UNCHANGED <<loaded, loading, modelLock, downloadLock, open>>
  BY DEF Enter
<1>2. CASE loading \/ loaded # req[r].sep
  BY <1>1, <1>2, LeaveKeeps DEF Enter, Admitted, Types
<1>3. CASE ~(loading \/ loaded # req[r].sep)
  <2>1. /\ req' = [req EXCEPT ![r].at = "running"] /\ UNCHANGED <<inference, active>>
        /\ thread' = [thread EXCEPT ![r] = req[r].sep]
    BY <1>3 DEF Enter
  <2>2. Moved(r, "running") /\ req'[r].sep = req[r].sep BY <2>1, MoveAt DEF Places
  <2>3. loaded = req[r].sep /\ loaded # None /\ loaded \in open
    BY <1>1, <1>3 DEF Serving, InLine
  <2>4. thread' \in [Requests -> Separators \cup {None}] /\ thread'[r] = req[r].sep
        /\ \A q \in Requests \ {r} : thread'[q] = thread[q]
    BY <2>1, <2>3 DEF Types
  <2>5. Types' BY <1>1, <2>1, <2>2, <2>4 DEF Types, Moved
  <2>6. Line' BY <1>1, <2>1, <2>2, LineStays DEF InLine
  <2>7. Counted' BY <1>1, <2>1, <2>2, CountStays DEF Admitted
  <2>8. Locks' BY <1>1, <2>2, LocksStay DEF Switching
  <2>9. Serving'
    <3>1. \A q \in Requests : req'[q].at \in InLine => req'[q].sep # None
      <4> SUFFICES ASSUME NEW q \in Requests, req'[q].at \in InLine PROVE req'[q].sep # None OBVIOUS
      <4>1. CASE q = r BY <2>2, <2>3, <4>1
      <4>2. CASE q # r BY <2>2, <4>2 DEF Moved, Serving
      <4> QED BY <4>1, <4>2
    <3>2. \A q \in Requests : req'[q].at = "running" => thread'[q] = req'[q].sep /\ thread'[q] \in open
      <4> SUFFICES ASSUME NEW q \in Requests, req'[q].at = "running"
                   PROVE  thread'[q] = req'[q].sep /\ thread'[q] \in open
        OBVIOUS
      <4>1. CASE q = r BY <2>2, <2>3, <2>4, <4>1
      <4>2. CASE q # r BY <2>2, <2>4, <4>2 DEF Moved, Serving
      <4> QED BY <4>1, <4>2
    <3> QED BY <1>1, <2>3, <3>1, <3>2 DEF Serving
  <2> QED BY <2>5, <2>6, <2>7, <2>8, <2>9
<1> QED BY <1>2, <1>3

\* A thread ends, awaited or not.
LEMMA ThreadKeeps == ASSUME IInv, NEW r \in Requests, ThreadEnds(r) PROVE IInv'
<1> USE DEF IInv
<1>1. /\ UNCHANGED <<loaded, loading, modelLock, downloadLock, open>>
      /\ thread' = [thread EXCEPT ![r] = None]
  BY DEF ThreadEnds
<1>2. thread' \in [Requests -> Separators \cup {None}] /\ \A q \in Requests \ {r} : thread'[q] = thread[q]
  BY <1>1 DEF Types
<1>3. CASE req[r].at = "running"
  <2>1. Holds(r) /\ Leave(r) BY <1>3 DEF ThreadEnds, Line
  <2> QED BY <1>1, <1>2, <1>3, <2>1, LeaveKeeps DEF Admitted
<1>4. CASE req[r].at # "running"
  <2>1. UNCHANGED <<req, inference, active>> BY <1>4 DEF ThreadEnds
  <2>2. Types' /\ Line' /\ Counted' /\ Locks'
    BY <1>1, <1>2, <2>1 DEF Types, Line, Holds, Counted, Queue, Locks, Switchers, Fetchers, At
  <2>3. Serving' BY <1>1, <1>2, <1>4, <2>1 DEF Serving
  <2> QED BY <2>2, <2>3
<1> QED BY <1>3, <1>4

\* A request gives up on its thread.
LEMMA TimeOutKeeps == ASSUME IInv, NEW r \in Requests, TimeOut(r) PROVE IInv'
<1>1. Holds(r) BY DEF IInv, TimeOut, Line
<1> QED BY <1>1, LeaveKeeps DEF TimeOut, Admitted, IInv, Types

----------------------------------------------------------------------------
(* Model switches and downloads.                                            *)

\* A request that is answered at once.
LEMMA RefusedKeeps ==
  ASSUME IInv, NEW r \in Requests, Moved(r, "answered"), req[r].at = "unborn",
         UNCHANGED <<loaded, loading, modelLock, downloadLock, inference, active, thread, open>>
  PROVE  IInv'
<1> USE DEF IInv
<1>1. Types' BY DEF Types, Moved
<1>2. Line' BY LineStays DEF InLine
<1>3. Counted' BY CountStays DEF Admitted
<1>4. Locks' BY LocksStay DEF Switching
<1>5. Serving' BY ServingStays DEF InLine
<1> QED BY <1>1, <1>2, <1>3, <1>4, <1>5

\* The old model stops serving; the switch waits for the inference lock if there
\* was one.
LEMMA LoadKeeps == ASSUME IInv, NEW r \in Requests, Load(r) PROVE IInv'
<1> USE DEF IInv
<1>1. req[r].at = "unborn" /\ UNCHANGED <<downloadLock, active, thread, open>> BY DEF Load
<1>2. CASE Busy
  <2>1. /\ req' = [req EXCEPT ![r].kind = "load", ![r].at = "answered"]
        /\ UNCHANGED <<loaded, loading, modelLock, inference>>
    BY <1>2 DEF Load
  <2>2. Moved(r, "answered") BY <2>1, MoveKind DEF Places
  <2> QED BY <1>1, <2>1, <2>2, RefusedKeeps
<1>3. CASE ~Busy
  <2> DEFINE to  == IF loaded = None THEN "resolve" ELSE "unload"
             new == [kind |-> "load", sep |-> loaded, at |-> to]
  <2>1. /\ modelLock' = r /\ loaded' = None /\ loading' = TRUE /\ req' = [req EXCEPT ![r] = new]
        /\ inference' = IF loaded = None THEN inference ELSE Append(inference, r)
        /\ modelLock = None /\ downloadLock = None
    BY <1>3 DEF Load, Busy
  <2>2. new.at = to /\ new.sep = loaded /\ new \in ReqType BY DEF ReqType, Places, Types
  <2> HIDE DEF new
  <2>3. Moved(r, to) /\ req'[r].sep = loaded BY <2>1, <2>2, MoveTo
  <2>4. Types'
    <3>1. inference' \in Seq(Requests) BY <2>1 DEF Types
    <3> QED BY <1>1, <2>1, <2>3, <3>1 DEF Types, Moved
  <2>5. Line'
    <3>1. CASE loaded = None BY <1>1, <2>1, <2>3, <3>1, LineStays DEF InLine
    <3>2. CASE loaded # None BY <1>1, <2>1, <2>3, <3>2, LineJoins DEF InLine
    <3> QED BY <3>1, <3>2
  <2>6. Counted' BY <1>1, <2>1, <2>3, CountStays DEF Admitted
  <2>7. Locks'
    <3>1. Switchers' = Switchers \cup {r}
      <4>1. to \in Switching BY DEF Switching
      <4> QED BY <2>3, <4>1, AtMoves DEF At, Switchers
    <3>2. Fetchers' = Fetchers BY <1>1, <2>3 DEF Moved, At, Fetchers
    <3> QED BY <1>1, <2>1, <3>1, <3>2 DEF Locks
  <2>8. Serving'
    <3>1. \A q \in Requests : req[q].at = "running" => loaded # None BY <2>1 DEF Serving
    <3>2. \A q \in Requests : req'[q].at = "running" => q # r /\ req'[q] = req[q] BY <2>3 DEF Moved
    <3>3. loaded # None => req'[r].at = "unload" /\ r # None BY <2>3 DEF Moved
    <3>4. \A q \in Requests : req'[q].at \in InLine => req'[q].sep # None
      <4> SUFFICES ASSUME NEW q \in Requests, req'[q].at \in InLine PROVE req'[q].sep # None OBVIOUS
      <4>1. CASE q = r BY <2>3, <4>1 DEF Moved, InLine
      <4>2. CASE q # r BY <2>3, <4>2 DEF Moved, Serving
      <4> QED BY <4>1, <4>2
    <3> QED BY <1>1, <2>1, <3>1, <3>2, <3>3, <3>4 DEF Serving
  <2> QED BY <2>4, <2>5, <2>6, <2>7, <2>8
<1> QED BY <1>2, <1>3

\* The switch has the inference lock: nothing is separated any more.
LEMMA UnloadKeeps == ASSUME IInv, NEW r \in Requests, Unload(r) PROVE IInv'
<1> USE DEF IInv
<1>1. /\ req[r].at = "unload" /\ Holds(r) /\ req' = [req EXCEPT ![r].at = "closing"]
      /\ UNCHANGED <<loaded, loading, modelLock, downloadLock, inference, active, thread, open>>
  BY DEF Unload
<1>2. Moved(r, "closing") /\ req'[r].sep = req[r].sep BY <1>1, MoveAt DEF Places
<1>3. Types' BY <1>1, <1>2 DEF Types, Moved
<1>4. Line' BY <1>1, <1>2, LineStays DEF InLine
<1>5. Counted' BY <1>1, <1>2, CountStays DEF Admitted
<1>6. Locks' BY <1>1, <1>2, LocksStay DEF Switching
<1>7. Serving'
  <2>1. \A q \in Requests : req'[q].at # "running" BY <1>1, <1>2, FirstAlone DEF Moved
  <2>2. \A q \in Requests : req'[q].at \in InLine => req'[q].sep # None
    <3> SUFFICES ASSUME NEW q \in Requests, req'[q].at \in InLine PROVE req'[q].sep # None OBVIOUS
    <3>1. CASE q = r BY <1>1, <1>2, <3>1 DEF Serving, InLine
    <3>2. CASE q # r BY <1>2, <3>2 DEF Moved, Serving
    <3> QED BY <3>1, <3>2
  <2> QED BY <1>1, <2>1, <2>2 DEF Serving
<1> QED BY <1>3, <1>4, <1>5, <1>6, <1>7

\* A switch that goes on or ends, while nothing is separated.
LEMMA SwitchKeeps ==
  ASSUME IInv, NEW r \in Requests, NEW to \in {"resolve", "create", "answered"}, Moved(r, to),
         req[r].at \in {"closing", "resolve", "create"},
         IF req[r].at = "closing" THEN inference' = Tail(inference) ELSE inference' = inference,
         IF to = "answered" THEN loading' = FALSE /\ modelLock' = None ELSE UNCHANGED <<loading, modelLock>>,
         UNCHANGED <<downloadLock, active, thread>>,
         loaded' = loaded \/ (to = "answered" /\ loaded' = r /\ r \in open'), open' \subseteq Separators
  PROVE  IInv'
<1> USE DEF IInv
<1>1. modelLock = r /\ r # None /\ loading /\ loaded = None /\ downloadLock = None
  BY Switcher DEF Switching
<1>2. req[r].at = "closing" => Holds(r) BY DEF Line
<1>3. Types'
  <2>1. inference' \in Seq(Requests) BY <1>2 DEF Types, Holds
  <2>2. loaded' \in Separators \cup {None} BY <1>1 DEF Separators
  <2>3. loading' \in BOOLEAN /\ modelLock' \in Requests \cup {None} BY DEF Types
  <2> QED BY <2>1, <2>2, <2>3 DEF Types, Moved
<1>4. Line'
  <2>1. CASE req[r].at = "closing" BY <1>2, <2>1, LineLeaves DEF InLine
  <2>2. CASE req[r].at # "closing" BY <2>2, LineStays DEF InLine
  <2> QED BY <2>1, <2>2
<1>5. Counted' BY CountStays DEF Admitted
<1>6. Locks'
  <2>1. CASE to # "answered" BY <2>1, LocksStay DEF Switching
  <2>2. CASE to = "answered"
    <3>1. Switchers' = Switchers \ {r}
      <4>1. to \notin Switching BY <2>2 DEF Switching
      <4> QED BY <4>1, AtMoves DEF At, Switchers
    <3>2. Fetchers' = Fetchers BY <2>2 DEF Moved, At, Fetchers
    <3> QED BY <1>1, <2>2, <3>1, <3>2 DEF Locks
  <2> QED BY <2>1, <2>2
<1>7. Serving'
  <2>1. \A q \in Requests : req[q].at # "running"
    <3>1. CASE req[r].at = "closing" BY <1>2, <3>1, FirstAlone
    <3>2. CASE req[r].at # "closing" BY <1>1, <3>2 DEF Serving
    <3> QED BY <3>1, <3>2
  <2>2. \A q \in Requests : req'[q].at # "running" BY <2>1 DEF Moved
  <2>3. \A q \in Requests : req'[q].at \in InLine => req'[q].sep # None
    <3> SUFFICES ASSUME NEW q \in Requests, req'[q].at \in InLine PROVE req'[q].sep # None OBVIOUS
    <3>1. q # r BY DEF Moved, InLine
    <3> QED BY <3>1 DEF Moved, Serving
  <2> QED BY <1>1, <2>2, <2>3 DEF Serving
<1> QED BY <1>3, <1>4, <1>5, <1>6, <1>7

\* The old model is closed, a file found or asked for, the new model published.
LEMMA LoaderKeeps == ASSUME IInv, NEW r \in Requests, Closed(r) \/ Resolve(r) \/ Create(r) PROVE IInv'
<1> USE DEF IInv
<1>1. CASE Closed(r)
  <2>1. /\ req[r].at = "closing" /\ inference' = Tail(inference)
        /\ UNCHANGED <<loaded, downloadLock, active, thread>> /\ open' \subseteq Separators
    BY <1>1 DEF Closed, Types
  <2>2. CASE /\ req' = [req EXCEPT ![r].at = "resolve", ![r].sep = None]
             /\ UNCHANGED <<loading, modelLock>>
    <3>1. Moved(r, "resolve") BY <2>2, MoveSep DEF Places
    <3> QED BY <2>1, <2>2, <3>1, SwitchKeeps
  <2>3. CASE EndLoad(r)
    <3>1. Moved(r, "answered") BY <2>3, MoveAt DEF Places, EndLoad, Answered
    <3> QED BY <2>1, <2>3, <3>1, SwitchKeeps DEF EndLoad
  <2> QED BY <1>1, <2>2, <2>3 DEF Closed
<1>2. CASE Resolve(r)
  <2>1. Moved(r, "create") BY <1>2, MoveAt DEF Places, Resolve
  <2> QED BY <1>2, <2>1, SwitchKeeps DEF Resolve, Types
<1>3. CASE Create(r)
  <2>1. Moved(r, "answered") BY <1>3, MoveAt DEF Places, Create, EndLoad, Answered
  <2>2. /\ req[r].at = "create" /\ UNCHANGED <<downloadLock, inference, active, thread>>
        /\ loading' = FALSE /\ modelLock' = None
    BY <1>3 DEF Create, EndLoad
  <2>3. loaded' = loaded \/ (loaded' = r /\ r \in open') BY <1>3 DEF Create
  <2>4. open' \subseteq Separators BY <1>3 DEF Create, Types, Separators
  <2> QED BY <2>1, <2>2, <2>3, <2>4, SwitchKeeps
<1> QED BY <1>1, <1>2, <1>3

\* A download takes its lock, or is refused, and gives it back.
LEMMA DownloadKeeps ==
  ASSUME IInv, NEW r \in Requests, (\E force \in BOOLEAN : Download(r, force)) \/ Downloaded(r)
  PROVE  IInv'
<1> USE DEF IInv
<1>1. UNCHANGED <<loaded, loading, modelLock, inference, active, thread, open>>
  BY DEF Download, Downloaded
<1>2. ASSUME NEW to \in {"fetching", "answered"}, Moved(r, to), req[r].at \in {"unborn", "fetching"},
             IF to = "fetching" THEN ~Busy /\ downloadLock' = r
             ELSE req[r].at = "fetching" /\ downloadLock' = None
      PROVE  IInv'
  <2>1. Types' BY <1>1, <1>2 DEF Types, Moved
  <2>2. Line' BY <1>1, <1>2, LineStays DEF InLine
  <2>3. Counted' BY <1>1, <1>2, CountStays DEF Admitted
  <2>4. Locks'
    <3>1. Switchers' = Switchers
      <4>1. to \notin Switching /\ req[r].at \notin Switching BY <1>2 DEF Switching
      <4> QED BY <1>2, <4>1, AtMoves DEF At, Switchers
    <3>2. Fetchers' = IF to = "fetching" THEN Fetchers \cup {r} ELSE Fetchers \ {r}
      BY <1>2 DEF Moved, At, Fetchers
    <3>3. req[r].at = "fetching" => r \in Fetchers BY DEF At, Fetchers
    <3> QED BY <1>1, <1>2, <3>1, <3>2, <3>3 DEF Locks, Busy
  <2>5. Serving' BY <1>1, <1>2, ServingStays DEF InLine
  <2> QED BY <2>1, <2>2, <2>3, <2>4, <2>5
<1>3. CASE Downloaded(r)
  <2>1. Moved(r, "answered") BY <1>3, MoveAt DEF Places, Downloaded, Answered
  <2> QED BY <1>2, <1>3, <2>1 DEF Downloaded
<1>4. ASSUME NEW force \in BOOLEAN, Download(r, force) PROVE IInv'
  <2>1. CASE Busy
    <3>1. req' = [req EXCEPT ![r].kind = "download", ![r].at = "answered"] /\ UNCHANGED downloadLock
      BY <1>4, <2>1 DEF Download
    <3>2. Moved(r, "answered") BY <3>1, MoveKind DEF Places
    <3> QED BY <1>1, <1>4, <3>1, <3>2, RefusedKeeps DEF Download
  <2>2. CASE ~Busy
    <3>1. req' = [req EXCEPT ![r].kind = "download", ![r].at = "fetching"] /\ downloadLock' = r
      BY <1>4, <2>2 DEF Download
    <3>2. Moved(r, "fetching") BY <3>1, MoveKind DEF Places
    <3> QED BY <1>2, <1>4, <2>2, <3>1, <3>2 DEF Download
  <2> QED BY <2>1, <2>2
<1> QED BY <1>3, <1>4

----------------------------------------------------------------------------

\* It holds when load_state has returned.
LEMMA InitIInv == Init => IInv
<1> SUFFICES ASSUME Init PROVE IInv OBVIOUS
<1>1. \A r \in Requests : req[r].at = "unborn" BY DEF Init
<1>2. Types
  <2>1. req \in [Requests -> ReqType] BY DEF Init, ReqType, Places
  <2>2. thread \in [Requests -> Separators \cup {None}] BY DEF Init
  <2>3. inference \in Seq(Requests) BY DEF Init
  <2> QED BY <2>1, <2>2, <2>3 DEF Init, Types, Separators
<1>3. Line BY <1>1 DEF Init, Line, InLine, Holds
<1>4. Counted
  <2>1. Queue = {} BY <1>1 DEF Queue, At, Admitted
  <2> QED BY <2>1, FS_EmptySet DEF Init, Counted
<1>5. Locks BY <1>1 DEF Init, Locks, Switchers, Fetchers, At, Switching
<1>6. Serving BY <1>1 DEF Init, Serving, InLine
<1> QED BY <1>2, <1>3, <1>4, <1>5, <1>6 DEF IInv

\* Every step keeps it.
LEMMA NextIInv == IInv /\ [Next]_vars => IInv'
<1> SUFFICES ASSUME IInv, [Next]_vars PROVE IInv' OBVIOUS
<1>1. ASSUME NEW r \in Requests, \/ Separate(r) \/ Load(r) \/ Handle(r) \/ ThreadEnds(r) \/ TimeOut(r)
                                 \/ \E force \in BOOLEAN : Download(r, force)
      PROVE  IInv'
  BY <1>1, SeparateKeeps, LoadKeeps, EnterKeeps, UnloadKeeps, LoaderKeeps, DownloadKeeps, ThreadKeeps,
     TimeOutKeeps DEF Handle
<1>2. CASE UNCHANGED serverVars
  BY <1>2 DEF serverVars, IInv, Types, Line, Holds, Counted, Queue, Locks, Switchers, Fetchers, At, Serving
<1> QED BY <1>1, <1>2 DEF Next, Fetch, Foreign, vars

\* The invariant holds throughout.
LEMMA Inductive == Spec => []IInv
BY InitIInv, NextIInv, PTL DEF Spec

\* Each flag and lock of the server is set exactly while a request is doing
\* what it stands for, on every path through the finally blocks.
THEOREM StateExact == Spec => []StateFollowsRequests
<1>1. IInv => StateFollowsRequests
  BY DEF IInv, Counted, Queue, Admitted, Locks, Switchers, Switching, Fetchers, StateFollowsRequests
<1> QED BY <1>1, Inductive, PTL

\* The inference lock keeps awaited separations and the closing of a model apart.
THEOREM OneOnSeparator == Spec => []SeparatorExclusive
<1>1. IInv => SeparatorExclusive
  <2> SUFFICES ASSUME IInv, NEW s \in Separators
               PROVE  Cardinality({r \in Separating(s) : req[r].at = "running"} \cup Closing(s)) <= 1
    BY DEF SeparatorExclusive
  <2> DEFINE S == {r \in Separating(s) : req[r].at = "running"} \cup Closing(s)
  <2>1. \A r, q \in S : r = q BY FirstAlone DEF IInv, Line, Separating, Closing
  <2> HIDE DEF S
  <2>2. Cardinality(S) <= 1
    <3>1. CASE S = {} BY <3>1, FS_EmptySet
    <3>2. CASE S # {}
      <4>1. PICK r : S = {r} BY <2>1, <3>2
      <4>2. Cardinality({r}) = 1 BY FS_Singleton
      <4> QED BY <4>1, <4>2
    <3> QED BY <3>1, <3>2
  <2> QED BY <2>2 DEF S
<1> QED BY <1>1, Inductive, PTL

\* What serves, and what an awaited separation runs on, is not closed.
THEOREM OpenServes == Spec => []ServesOpenModel
<1>1. IInv => ServesOpenModel BY DEF IInv, Serving, ServesOpenModel
<1> QED BY <1>1, Inductive, PTL

----------------------------------------------------------------------------
(* The requests use the model as ModelSlot promises.                        *)

Using == {<<r, thread[r]>> : r \in At({"running"})}

\* Nobody, or the one request that is separated.
LEMMA UsingOne ==
  ASSUME IInv, NEW r \in Requests, Holds(r)
  PROVE  Using = IF req[r].at = "running" THEN {<<r, thread[r]>>} ELSE {}
<1>1. \A q \in Requests : req[q].at = "running" => q = r BY FirstAlone DEF IInv
<1> QED BY <1>1 DEF Using, At

\* A step in which nothing begins or ends to be separated.
LEMMA UsingStays ==
  ASSUME \A q \in Requests : /\ req'[q].at = "running" <=> req[q].at = "running"
                             /\ req[q].at = "running" => thread'[q] = thread[q]
  PROVE  Using' = Using
BY DEF Using, At

\* What a step does to the model and its user.
LEMMA StepOfSlot ==
  ASSUME IInv, Next
  PROVE  \/ \E r \in Requests : Using = {} /\ loaded # None /\ Using' = {<<r, loaded>>} /\ UNCHANGED loaded
         \/ Using # {} /\ Using' = {} /\ UNCHANGED loaded
         \/ loaded # None /\ loaded' = None /\ Using' = Using
         \/ \E m \in Separators : loaded = None /\ Using = {} /\ loaded' = m /\ Using' = Using
         \/ UNCHANGED loaded /\ Using' = Using
<1> USE DEF IInv
<1>1. ASSUME NEW r \in Requests, Moved(r, "answered"), req[r].at = "running", Holds(r),
             \A q \in Requests \ {r} : thread'[q] = thread[q]
      PROVE  Using # {} /\ Using' = {}
  <2>1. Using = {<<r, thread[r]>>} BY <1>1, UsingOne
  <2>2. \A q \in Requests : req'[q].at # "running" BY <1>1, FirstAlone DEF Moved
  <2> QED BY <2>1, <2>2 DEF Using, At
<1>2. ASSUME NEW r \in Requests, NEW to, Moved(r, to), to # "running", req[r].at # "running",
             UNCHANGED thread
      PROVE  Using' = Using
  BY <1>2, UsingStays DEF Moved
<1>3. ASSUME NEW r \in Requests, Separate(r)
      PROVE  UNCHANGED loaded /\ Using' = Using
  <2>1. req[r].at = "unborn" /\ UNCHANGED <<thread, loaded>> BY <1>3 DEF Separate
  <2>2. CASE loading \/ loaded = None \/ active >= QueueLimit
    <3>1. Moved(r, "answered") BY <1>3, <2>2, MoveKind DEF Separate, Places
    <3> QED BY <1>2, <2>1, <3>1
  <2>3. CASE ~(loading \/ loaded = None \/ active >= QueueLimit)
    <3> DEFINE new == [kind |-> "separate", at |-> "queued", sep |-> loaded]
    <3>1. req' = [req EXCEPT ![r] = new] BY <1>3, <2>3 DEF Separate
    <3>2. new.at = "queued" /\ new \in ReqType BY DEF ReqType, Places, Types
    <3> HIDE DEF new
    <3>3. Moved(r, "queued") BY <3>1, <3>2, MoveTo
    <3> QED BY <1>2, <2>1, <3>3
  <2> QED BY <2>2, <2>3
<1>4. ASSUME NEW r \in Requests, Load(r)
      PROVE  Using' = Using /\ (UNCHANGED loaded \/ (loaded # None /\ loaded' = None))
  <2>1. req[r].at = "unborn" /\ UNCHANGED thread BY <1>4 DEF Load
  <2>2. CASE Busy
    <3>1. Moved(r, "answered") /\ UNCHANGED loaded BY <1>4, <2>2, MoveKind DEF Load, Places
    <3> QED BY <1>2, <2>1, <3>1
  <2>3. CASE ~Busy
    <3> DEFINE to  == IF loaded = None THEN "resolve" ELSE "unload"
               new == [kind |-> "load", sep |-> loaded, at |-> to]
    <3>1. req' = [req EXCEPT ![r] = new] /\ loaded' = None BY <1>4, <2>3 DEF Load
    <3>2. new.at = to /\ new \in ReqType BY DEF ReqType, Places, Types
    <3> HIDE DEF new
    <3>3. Moved(r, to) /\ to # "running" BY <3>1, <3>2, MoveTo
    <3> QED BY <1>2, <2>1, <3>1, <3>3
  <2> QED BY <2>2, <2>3
<1>5. ASSUME NEW r \in Requests, Enter(r)
      PROVE  /\ UNCHANGED loaded
             /\ \/ Using' = Using
                \/ Using = {} /\ loaded # None /\ Using' = {<<r, loaded>>}
  <2>1. req[r].at = "queued" /\ Holds(r) /\ UNCHANGED loaded BY <1>5 DEF Enter
  <2>2. CASE loading \/ loaded # req[r].sep
    <3>1. Moved(r, "answered") /\ UNCHANGED thread
      BY <1>5, <2>2, MoveAt DEF Enter, Leave, Answered, Places
    <3> QED BY <1>2, <2>1, <3>1
  <2>3. CASE ~(loading \/ loaded # req[r].sep)
    <3>1. req' = [req EXCEPT ![r].at = "running"] /\ thread' = [thread EXCEPT ![r] = req[r].sep]
      BY <1>5, <2>3 DEF Enter
    <3>2. Moved(r, "running") BY <3>1, MoveAt DEF Places
    <3>3. loaded = req[r].sep /\ loaded # None /\ thread'[r] = loaded
      BY <2>1, <2>3, <3>1 DEF Types, Serving, InLine
    <3>4. Using = {} BY <2>1, UsingOne
    <3>5. \A q \in Requests : req'[q].at = "running" <=> q = r BY <2>1, <3>2, FirstAlone DEF Moved
    <3>6. Using' = {<<r, loaded>>} BY <3>3, <3>5 DEF Using, At
    <3> QED BY <2>1, <3>3, <3>4, <3>6
  <2> QED BY <2>2, <2>3
<1>6. ASSUME NEW r \in Requests, ThreadEnds(r) \/ TimeOut(r)
      PROVE  UNCHANGED loaded /\ (Using' = Using \/ (Using # {} /\ Using' = {}))
  <2>1. UNCHANGED loaded /\ \A q \in Requests \ {r} : thread'[q] = thread[q]
    BY <1>6 DEF ThreadEnds, TimeOut, Types
  <2>2. CASE req[r].at = "running"
    <3>1. Holds(r) /\ Leave(r) BY <1>6, <2>2 DEF ThreadEnds, TimeOut, Line
    <3>2. Moved(r, "answered") BY <3>1, MoveAt DEF Leave, Answered, Places
    <3> QED BY <1>1, <2>1, <2>2, <3>1, <3>2
  <2>3. CASE req[r].at # "running"
    <3>1. UNCHANGED req BY <1>6, <2>3 DEF ThreadEnds, TimeOut
    <3> QED BY <2>1, <2>3, <3>1, UsingStays
  <2> QED BY <2>2, <2>3
<1>7. ASSUME NEW r \in Requests, Unload(r) \/ Closed(r) \/ Resolve(r)
      PROVE  UNCHANGED loaded /\ Using' = Using
  <2>1. UNCHANGED <<thread, loaded>> /\ req[r].at \in {"unload", "closing", "resolve"}
    BY <1>7 DEF Unload, Closed, Resolve
  <2>2. \E to \in {"closing", "resolve", "create", "answered"} : Moved(r, to)
    BY <1>7, MoveAt, MoveSep DEF Unload, Closed, Resolve, EndLoad, Answered, Places
  <2> QED BY <1>2, <2>1, <2>2
<1>8. ASSUME NEW r \in Requests, Create(r)
      PROVE  /\ Using' = Using
             /\ UNCHANGED loaded \/ (loaded = None /\ Using = {} /\ loaded' = r)
  <2>1. req[r].at = "create" /\ UNCHANGED thread /\ (UNCHANGED loaded \/ loaded' = r) BY <1>8 DEF Create
  <2>2. Moved(r, "answered") BY <1>8, MoveAt DEF Places, Create, EndLoad, Answered
  <2>3. modelLock = r /\ loaded = None BY <2>1, Switcher DEF Switching
  <2>4. Using = {} BY <2>1, <2>3 DEF Serving, Using, At
  <2> QED BY <1>2, <2>1, <2>2, <2>3, <2>4
<1>9. ASSUME NEW r \in Requests, (\E force \in BOOLEAN : Download(r, force)) \/ Downloaded(r)
      PROVE  UNCHANGED loaded /\ Using' = Using
  <2>1. UNCHANGED <<thread, loaded>> /\ req[r].at \in {"unborn", "fetching"}
    BY <1>9 DEF Download, Downloaded
  <2>2. \E to \in {"fetching", "answered"} : Moved(r, to)
    BY <1>9, MoveAt, MoveKind DEF Download, Downloaded, Answered, Places
  <2> QED BY <1>2, <2>1, <2>2
<1>10. CASE UNCHANGED serverVars BY <1>10 DEF serverVars, Using, At
<1>11. \A r \in Requests : r \in Separators BY DEF Separators
<1> QED BY <1>3, <1>4, <1>5, <1>6, <1>7, <1>8, <1>9, <1>10, <1>11 DEF Next, Handle, Fetch, Foreign

\* The server implements ModelSlot, whatever the timeouts and failures.
THEOREM ImplementsSlot == Spec => UsesOneModelAtATime
<1> USE DEF Slot!slotVars
<1>1. Init => Slot!SlotInit
  <2> SUFFICES ASSUME Init PROVE loaded \in Separators /\ Using = {} BY DEF Slot!SlotInit, Using
  <2> QED BY DEF Init, Using, At, Separators
<1>2. IInv /\ [Next]_vars => [Slot!SlotNext]_(Slot!slotVars)
  <2> SUFFICES ASSUME IInv, [Next]_vars PROVE Slot!SlotNext \/ (loaded' = loaded /\ Using' = Using)
    BY DEF Using
  <2>1. CASE Next
    BY <2>1, StepOfSlot DEF Slot!SlotNext, Slot!Use, Slot!Done, Slot!Retire, Slot!Publish, Using
  <2>2. CASE UNCHANGED vars BY <2>2 DEF vars, serverVars, Using, At
  <2> QED BY <2>1, <2>2
<1> QED BY <1>1, <1>2, Inductive, PTL DEF Spec, UsesOneModelAtATime, Slot!SlotSpec

----------------------------------------------------------------------------
(* What is installed.                                                       *)

CallType ==
  [at : {"idle", "open", "write", "validate", "replace", "done", "error"},
   tries : 0..Retries, verify : BOOLEAN, into : {"nothing", "part", "dest"}]

\* A request is inside download_model only while it holds a lock for it.
Calling == \A r \in Requests : dl[r].at # "idle" => req[r].at \in {"create", "fetching"}

\* Every call compares with the index, and nobody else fetches the file.
Guarded == Verifies = {TRUE} /\ \A a \in Downloaders \ Requests : dl[a].at = "idle"

\* Then what was compared is what is renamed, and no handle follows it there.
Whole ==
  Guarded =>
    /\ dest \in {"none", "whole"}
    /\ \A a \in Downloaders : /\ dl[a].at \notin {"idle", "done", "error"} => dl[a].verify
                              /\ dl[a].at = "replace" => part = "whole"
                              /\ dl[a].into \in {"nothing", "part"}

\* A handle is open only while it is written to.
Handles == \A a \in Downloaders : dl[a].into # "nothing" => dl[a].at = "write"

InstallInv == IInv /\ DownloadTypeOK /\ Calling /\ Handles /\ Whole

USE DownloadersAssumption, VerifiesAssumption, RetriesAssumption

\* One call at a time while nobody else fetches the file.
LEMMA OneCall ==
  ASSUME IInv, Calling, Guarded,
         NEW a \in Downloaders, dl[a].at # "idle", NEW b \in Downloaders, dl[b].at # "idle"
  PROVE  a = b
<1>1. a \in Requests /\ b \in Requests BY DEF Guarded
<1>2. \A r \in {a, b} : r \in Switchers \cup Fetchers BY <1>1 DEF Calling, Switchers, Fetchers, At, Switching
<1> QED BY <1>2 DEF IInv, Locks

\* What a step makes of one call, while the handles of the others follow the file.
CallMoves(a, new) ==
  /\ a \in Downloaders /\ new \in CallType /\ dl'[a].at = new.at
  /\ dl'[a].verify = new.verify /\ dl'[a].into \in {"nothing", new.into}
  /\ dl' \in [Downloaders -> CallType]
  /\ \A b \in Downloaders \ {a} :
       /\ dl'[b].at = dl[b].at /\ dl'[b].verify = dl[b].verify
       /\ dl[b].into = "nothing" => dl'[b].into = "nothing"

\* The handle to a file that was renamed or removed.
LEMMA RenamedMoves ==
  ASSUME NEW a \in Downloaders, NEW calls \in [Downloaders -> CallType], NEW to \in {"nothing", "dest"},
         calls[a].into = "nothing", \A b \in Downloaders \ {a} : calls[b] = dl[b],
         dl' = Renamed(calls, to)
  PROVE  CallMoves(a, calls[a])
<1>1. \A b \in Downloaders : LET k == [calls[b] EXCEPT !.into = to]
                             IN  k \in CallType /\ k.at = calls[b].at /\ k.verify = calls[b].verify
  BY DEF CallType
<1>2. \A b \in Downloaders : dl'[b] = IF calls[b].into = "part" THEN [calls[b] EXCEPT !.into = to] ELSE calls[b]
  BY DEF Renamed
<1>3. \A b \in Downloaders : /\ dl'[b] \in CallType /\ dl'[b].at = calls[b].at /\ dl'[b].verify = calls[b].verify
                             /\ calls[b].into = "nothing" => dl'[b] = calls[b]
  BY <1>1, <1>2
<1>4. dl' \in [Downloaders -> CallType] BY <1>3 DEF Renamed
<1> QED BY <1>3, <1>4 DEF CallMoves, CallType

\* The same for one that was not.
LEMMA AssignMoves ==
  ASSUME DownloadTypeOK, NEW a \in Downloaders, NEW new \in CallType, dl' = [dl EXCEPT ![a] = new]
  PROVE  CallMoves(a, new)
<1>1. dl \in [Downloaders -> CallType] BY DEF DownloadTypeOK, CallType
<1>2. new.into \in {"nothing", new.into} OBVIOUS
<1> QED BY <1>1, <1>2 DEF CallMoves

\* A call that moves by itself, with what it does to the files.
LEMMA CallKeeps ==
  ASSUME InstallInv, UNCHANGED serverVars, NEW a \in Downloaders, NEW new, CallMoves(a, new),
         dl[a].at \notin {"idle", "done", "error"}, new.at # "idle", new.verify = dl[a].verify,
         new.into # "nothing" => new.at = "write" /\ new.into = "part",
         dest' \in Contents, part' \in Contents,
         dl[a].into \in {"nothing", "part"} => dest' = dest \/ (dl[a].at = "replace" /\ dest' = part /\ part # "none"),
         new.at = "replace" => part' = "whole" \/ ~dl[a].verify
  PROVE  InstallInv'
<1> USE DEF InstallInv
<1>1. IInv'
  BY DEF serverVars, IInv, Types, Line, Holds, Counted, Queue, Locks, Switchers, Fetchers, At, Serving
<1>2. DownloadTypeOK' BY DEF DownloadTypeOK, CallMoves, CallType
<1>3. \A b \in Downloaders : b # a => dl'[b].at = dl[b].at BY DEF CallMoves
<1>4. Calling'
  <2> SUFFICES ASSUME NEW r \in Requests, dl'[r].at # "idle" PROVE req'[r].at \in {"create", "fetching"}
    BY DEF Calling
  <2>1. dl[r].at # "idle" BY <1>3
  <2> QED BY <2>1 DEF Calling, serverVars
<1>5. Whole'
  <2> SUFFICES ASSUME Guarded'
               PROVE  /\ dest' \in {"none", "whole"}
                      /\ \A b \in Downloaders : /\ dl'[b].at \notin {"idle", "done", "error"} => dl'[b].verify
                                                /\ dl'[b].at = "replace" => part' = "whole"
                                                /\ dl'[b].into \in {"nothing", "part"}
    BY DEF Whole
  <2>1. a \in Requests /\ Guarded BY <1>3 DEF Guarded, CallMoves
  <2>2. \A b \in Downloaders \ {a} : dl[b].at = "idle" /\ dl[b].into = "nothing"
    BY <2>1, OneCall DEF Handles
  <2>3. \A b \in Downloaders \ {a} : dl'[b].at = "idle" /\ dl'[b].into = "nothing" BY <2>2 DEF CallMoves
  <2>4. dl[a].verify /\ dl[a].into \in {"nothing", "part"} BY <2>1 DEF Whole
  <2>5. dest' \in {"none", "whole"} BY <2>1, <2>4 DEF Whole
  <2>6. dl'[a].verify BY <2>4 DEF CallMoves
  <2>7. dl'[a].at = "replace" => part' = "whole" BY <2>4 DEF CallMoves
  <2>8. dl'[a].into \in {"nothing", "part"} BY DEF CallMoves
  <2> QED BY <2>3, <2>5, <2>6, <2>7, <2>8
<1>6. Handles' BY DEF Handles, CallMoves
<1> QED BY <1>1, <1>2, <1>4, <1>5, <1>6

\* An attempt fails: the call opens the file again, or gives up.
LEMMA FailedMoves ==
  ASSUME DownloadTypeOK, NEW a \in Downloaders, NEW invalid \in BOOLEAN, Failed(a, invalid)
  PROVE  /\ \E new \in CallType : /\ CallMoves(a, new) /\ new.at \in {"open", "error"}
                                  /\ new.verify = dl[a].verify /\ new.into = "nothing"
         /\ dest' = dest /\ part' \in {part, "none"}
<1> DEFINE at    == IF dl[a].tries < Retries THEN "open" ELSE "error"
           tries == IF dl[a].tries < Retries THEN dl[a].tries + 1 ELSE 0
           new   == [dl[a] EXCEPT !.at = at, !.tries = tries, !.into = "nothing"]
           calls == [dl EXCEPT ![a] = new]
<1>1. dl \in [Downloaders -> CallType] BY DEF DownloadTypeOK, CallType
<1>2. tries \in 0..Retries BY <1>1 DEF CallType
<1>3. /\ new \in CallType /\ new.at \in {"open", "error"}
      /\ new.verify = dl[a].verify /\ new.into = "nothing"
  BY <1>1, <1>2 DEF CallType
<1>4. calls = [dl EXCEPT ![a].at = at, ![a].tries = IF @ < Retries THEN @ + 1 ELSE 0, ![a].into = "nothing"]
  BY <1>1
<1>5. /\ dest' = dest /\ part' \in {part, "none"}
      /\ dl' = Renamed(calls, "nothing") \/ dl' = calls
  BY <1>4 DEF Failed
<1> HIDE DEF new
<1>6. /\ calls \in [Downloaders -> CallType] /\ calls[a] = new /\ \A b \in Downloaders \ {a} : calls[b] = dl[b]
  BY <1>1, <1>3
<1>7. CASE dl' = calls BY <1>3, <1>5, <1>7, AssignMoves
<1>8. CASE dl' = Renamed(calls, "nothing")
  <2> HIDE DEF calls
  <2>1. CallMoves(a, calls[a]) BY <1>3, <1>6, <1>8, RenamedMoves
  <2> QED BY <1>3, <1>5, <1>6, <2>1
<1> QED BY <1>5, <1>7, <1>8

\* Each step of a download.
LEMMA FetchKeeps == ASSUME InstallInv, NEW a \in Downloaders, Fetch(a) PROVE InstallInv'
<1> USE DEF InstallInv
<1>1. UNCHANGED serverVars BY DEF Fetch
<1>2. dl \in [Downloaders -> CallType] /\ dest \in Contents /\ part \in Contents
  BY DEF DownloadTypeOK, CallType
<1>3. ASSUME NEW invalid \in BOOLEAN, Failed(a, invalid), dl[a].at \in {"open", "write", "validate", "replace"}
      PROVE  InstallInv'
  <2>1. PICK new \in CallType : /\ CallMoves(a, new) /\ new.at \in {"open", "error"}
                                /\ new.verify = dl[a].verify /\ new.into = "nothing"
    BY <1>3, FailedMoves
  <2>2. dest' = dest /\ part' \in {part, "none"} BY <1>3, FailedMoves
  <2>3. dest' \in Contents /\ part' \in Contents BY <1>2, <2>2 DEF Contents
  <2> QED BY <1>1, <1>3, <2>1, <2>2, <2>3, CallKeeps
<1>4. CASE Open(a)
  <2> DEFINE new == [dl[a] EXCEPT !.at = "write", !.into = "part"]
  <2>1. new \in CallType /\ new.at = "write" /\ new.into = "part" /\ new.verify = dl[a].verify
    BY <1>2 DEF CallType
  <2>2. dl' = [dl EXCEPT ![a] = new] /\ dl[a].at = "open" /\ part' = "cut" /\ dest' = dest
    BY <1>2, <1>4 DEF Open
  <2> HIDE DEF new
  <2>3. CallMoves(a, new) BY <2>1, <2>2, AssignMoves
  <2> QED BY <1>1, <1>2, <2>1, <2>2, <2>3, CallKeeps DEF Contents
<1>5. CASE WriteEnds(a)
  <2> DEFINE new == [dl[a] EXCEPT !.at = "validate", !.into = "nothing"]
  <2>1. new \in CallType /\ new.at = "validate" /\ new.into = "nothing" /\ new.verify = dl[a].verify
    BY <1>2 DEF CallType
  <2>2. dl' = [dl EXCEPT ![a] = new] /\ dl[a].at = "write" BY <1>2, <1>5 DEF WriteEnds
  <2>3. /\ dest' \in Contents /\ part' \in Contents
        /\ dl[a].into # "dest" => dest' = dest
    <3>1. PICK content \in {"cut", "whole"} :
            CASE dl[a].into = "part" -> part' = content /\ UNCHANGED dest
              [] dl[a].into = "dest" -> dest' = content /\ UNCHANGED part
              [] OTHER               -> UNCHANGED <<dest, part>>
      BY <1>5 DEF WriteEnds
    <3>2. CASE dl[a].into = "part" BY <1>2, <3>1, <3>2 DEF Contents
    <3>3. CASE dl[a].into = "dest" BY <1>2, <3>1, <3>3 DEF Contents
    <3>4. CASE dl[a].into \notin {"part", "dest"} BY <1>2, <3>1, <3>4
    <3> QED BY <3>2, <3>3, <3>4
  <2> HIDE DEF new
  <2>4. CallMoves(a, new) BY <2>1, <2>2, AssignMoves
  <2> QED BY <1>1, <2>1, <2>2, <2>3, <2>4, CallKeeps
<1>6. CASE NetworkFails(a) BY <1>3, <1>6 DEF NetworkFails
<1>7. CASE Validate(a)
  <2>1. CASE part # "none" /\ Valid(part, dl[a].verify)
    <3> DEFINE new == [dl[a] EXCEPT !.at = "replace"]
    <3>1. /\ new \in CallType /\ new.at = "replace" /\ new.into = "nothing" /\ new.verify = dl[a].verify
          /\ dl[a].at = "validate" /\ dl[a].verify \in BOOLEAN
      BY <1>2, <1>7 DEF CallType, Handles, Validate
    <3>2. dl' = [dl EXCEPT ![a] = new] /\ UNCHANGED <<dest, part>> BY <1>2, <1>7, <2>1 DEF Validate
    <3> HIDE DEF new
    <3>3. CallMoves(a, new) BY <3>1, <3>2, AssignMoves
    <3>4. part' = "whole" \/ ~dl[a].verify BY <2>1, <3>2 DEF Valid
    <3> QED BY <1>1, <1>2, <3>1, <3>2, <3>3, <3>4, CallKeeps
  <2>2. CASE ~(part # "none" /\ Valid(part, dl[a].verify))
    <3>1. Failed(a, part # "none") /\ dl[a].at = "validate" BY <1>7, <2>2 DEF Validate
    <3> QED BY <1>3, <3>1
  <2> QED BY <2>1, <2>2
<1>8. CASE Replace(a)
  <2>1. CASE part = "none" BY <1>3, <1>8, <2>1 DEF Replace
  <2>2. CASE part # "none"
    <3> DEFINE new   == [dl[a] EXCEPT !.at = "done", !.tries = 0]
               calls == [dl EXCEPT ![a] = new]
    <3>1. /\ new \in CallType /\ new.at = "done" /\ new.into = "nothing" /\ new.verify = dl[a].verify
          /\ dl[a].at = "replace"
      BY <1>2, <1>8 DEF CallType, Handles, Replace
    <3>2. dl' = Renamed(calls, "dest") /\ dest' = part /\ part' = "none" BY <1>2, <1>8, <2>2 DEF Replace
    <3> HIDE DEF new
    <3>3. calls \in [Downloaders -> CallType] /\ calls[a] = new /\ \A b \in Downloaders \ {a} : calls[b] = dl[b]
      BY <1>2, <3>1
    <3> HIDE DEF calls
    <3>4. CallMoves(a, new) BY <3>1, <3>2, <3>3, RenamedMoves
    <3> QED BY <1>1, <1>2, <2>2, <3>1, <3>2, <3>4, CallKeeps DEF Contents
  <2> QED BY <2>1, <2>2
<1> QED BY <1>4, <1>5, <1>6, <1>7, <1>8 DEF Fetch, DownloadStep

\* A call begins, returns, or finds the file there.
LEMMA EntryKeeps ==
  ASSUME InstallInv, IInv', NEW a \in Downloaders, NEW new \in CallType, dl' = [dl EXCEPT ![a] = new],
         new.into = "nothing", new.at \in {"idle", "open", "done"}, new.at = "open" => new.verify \in Verifies,
         UNCHANGED <<dest, part>>, a \notin Requests => new.at # "idle",
         \A q \in Requests : dl'[q].at # "idle" => req'[q].at \in {"create", "fetching"}
  PROVE  InstallInv'
<1> USE DEF InstallInv
<1>1. dl \in [Downloaders -> CallType] BY DEF DownloadTypeOK, CallType
<1>2. dl'[a] = new /\ \A b \in Downloaders \ {a} : dl'[b] = dl[b] BY <1>1
<1>3. dl' \in [Downloaders -> CallType] BY <1>1
<1>4. DownloadTypeOK' BY <1>3 DEF DownloadTypeOK, CallType
<1>5. Calling' BY DEF Calling
<1>6. Handles' BY <1>2 DEF Handles
<1>7. Whole' BY <1>2 DEF Whole, Guarded
<1> QED BY <1>4, <1>5, <1>6, <1>7

\* Steps that leave the files alone.
LEMMA FilesStay ==
  ASSUME InstallInv, IInv', UNCHANGED fileVars,
         \A q \in Requests : req[q].at \in {"create", "fetching"} => req'[q].at = req[q].at
  PROVE  InstallInv'
BY DEF InstallInv, fileVars, DownloadTypeOK, Calling, Handles, Whole, Guarded

\* Every step keeps it.
LEMMA NextInstall == InstallInv /\ [Next]_vars => InstallInv'
<1> SUFFICES ASSUME InstallInv, [Next]_vars PROVE InstallInv' OBVIOUS
<1>1. IInv /\ IInv' BY NextIInv DEF InstallInv
<1>2. Types /\ dl \in [Downloaders -> CallType]
  BY <1>1 DEF IInv, InstallInv, DownloadTypeOK, CallType
<1>3. ASSUME NEW r \in Requests, NEW to, Moved(r, to), req[r].at \notin {"create", "fetching"}, UNCHANGED fileVars
      PROVE  InstallInv'
  BY <1>1, <1>3, FilesStay DEF Moved
<1>4. ASSUME NEW r \in Requests, Separate(r) \/ Load(r) \/ Enter(r) \/ Unload(r) \/ Closed(r) \/ ThreadEnds(r) \/ TimeOut(r)
      PROVE  InstallInv'
  <2>1. UNCHANGED fileVars BY <1>4 DEF Separate, Load, Enter, Unload, Closed, ThreadEnds, TimeOut
  <2>2. \A q \in Requests \ {r} : req'[q] = req[q]
    BY <1>2, <1>4 DEF Types, Separate, Load, Enter, Leave, Unload, Closed, EndLoad, ThreadEnds, TimeOut, Answered
  <2>3. req[r].at \in {"create", "fetching"} => UNCHANGED req
    BY <1>4 DEF Separate, Load, Enter, Unload, Closed, ThreadEnds, TimeOut
  <2> QED BY <1>1, <2>1, <2>2, <2>3, FilesStay
<1>5. ASSUME NEW a \in Downloaders, NEW force, Call(a, force), UNCHANGED <<dest, part>>, dl[a].at = "idle",
             \A q \in Requests : dl'[q].at # "idle" => req'[q].at \in {"create", "fetching"}
      PROVE  InstallInv'
  <2>1. PICK verify \in Verifies :
          dl' = [dl EXCEPT ![a] =
            [at |-> IF ~force /\ Valid(dest, verify) THEN "done" ELSE "open",
             tries |-> 0, verify |-> verify, into |-> "nothing"]]
    BY <1>5 DEF Call
  <2> DEFINE new == [at |-> IF ~force /\ Valid(dest, verify) THEN "done" ELSE "open",
                     tries |-> 0, verify |-> verify, into |-> "nothing"]
  <2>2. new \in CallType /\ new.at \in {"open", "done"} /\ new.verify \in Verifies /\ new.into = "nothing"
    BY DEF CallType
  <2> HIDE DEF new
  <2> QED BY <1>1, <1>5, <2>1, <2>2, EntryKeeps DEF new
<1>6. ASSUME NEW r \in Requests, Resolve(r) PROVE InstallInv'
  <2>1. req[r].at = "resolve" /\ UNCHANGED <<dest, part>> BY <1>6 DEF Resolve
  <2>2. Moved(r, "create") BY <1>2, <1>6, MoveAt DEF Resolve, Places
  <2>3. r \in Downloaders /\ dl[r].at = "idle" BY <2>1 DEF InstallInv, Calling
  <2>4. CASE dest = "none"
    <3>1. Call(r, FALSE) BY <1>6, <2>4 DEF Resolve
    <3>2. \A q \in Requests : dl'[q].at # "idle" => req'[q].at \in {"create", "fetching"}
      BY <1>2, <2>2, <3>1 DEF Call, Moved, InstallInv, Calling
    <3> QED BY <1>5, <2>1, <2>3, <3>1, <3>2
  <2>5. CASE dest # "none"
    <3> DEFINE new == [dl[r] EXCEPT !.at = "done"]
    <3>1. new \in CallType /\ new.at = "done" /\ new.into = "nothing"
      BY <1>2, <2>3 DEF CallType, InstallInv, Handles
    <3>2. dl' = [dl EXCEPT ![r] = new] BY <1>2, <1>6, <2>3, <2>5 DEF Resolve
    <3> HIDE DEF new
    <3>3. \A q \in Requests : dl'[q].at # "idle" => req'[q].at \in {"create", "fetching"}
      BY <1>2, <2>2, <3>2 DEF Moved, InstallInv, Calling
    <3> QED BY <1>1, <2>1, <2>3, <3>1, <3>2, <3>3, EntryKeeps
  <2> QED BY <2>4, <2>5
<1>7. ASSUME NEW r \in Requests, Create(r) \/ Downloaded(r) PROVE InstallInv'
  <2>1. Moved(r, "answered") /\ UNCHANGED <<dest, part>>
    BY <1>2, <1>7, MoveAt DEF Create, EndLoad, Downloaded, Answered, Places
  <2>2. dl' = [dl EXCEPT ![r] = NoCall] /\ r \in Downloaders BY <1>7 DEF Create, Downloaded, Returned
  <2>3. NoCall \in CallType /\ NoCall.at = "idle" /\ NoCall.into = "nothing" BY DEF NoCall, CallType
  <2>4. \A q \in Requests : dl'[q].at # "idle" => req'[q].at \in {"create", "fetching"}
    BY <1>2, <2>1, <2>2, <2>3 DEF Moved, InstallInv, Calling
  <2> QED BY <1>1, <2>1, <2>2, <2>3, <2>4, EntryKeeps
<1>8. ASSUME NEW r \in Requests, NEW force \in BOOLEAN, Download(r, force) PROVE InstallInv'
  <2>1. req[r].at = "unborn" /\ UNCHANGED <<dest, part>> BY <1>8 DEF Download
  <2>2. r \in Downloaders /\ dl[r].at = "idle" BY <2>1 DEF InstallInv, Calling
  <2>3. CASE Busy
    <3>1. Moved(r, "answered") /\ UNCHANGED fileVars BY <1>2, <1>8, <2>3, MoveKind DEF Download, Places, fileVars
    <3> QED BY <1>3, <2>1, <3>1
  <2>4. CASE ~Busy
    <3>1. Moved(r, "fetching") /\ Call(r, force) BY <1>2, <1>8, <2>4, MoveKind DEF Download, Places
    <3>2. \A q \in Requests : dl'[q].at # "idle" => req'[q].at \in {"create", "fetching"}
      BY <1>2, <3>1 DEF Call, Moved, InstallInv, Calling
    <3> QED BY <1>5, <2>1, <2>2, <3>1, <3>2
  <2> QED BY <2>3, <2>4
<1>9. ASSUME NEW a \in Downloaders, Foreign(a) PROVE InstallInv'
  <2>1. /\ a \notin Requests /\ dl[a].at = "idle" /\ UNCHANGED <<serverVars, dest, part>>
        /\ \E force : Call(a, force)
    BY <1>9 DEF Foreign
  <2>2. \A q \in Requests : dl'[q] = dl[q] /\ req'[q] = req[q] BY <1>2, <2>1 DEF Call, serverVars
  <2> QED BY <1>5, <2>1, <2>2 DEF InstallInv, Calling
<1>10. CASE UNCHANGED vars BY <1>1, <1>10, FilesStay DEF vars, serverVars
<1> QED BY <1>4, <1>6, <1>7, <1>8, <1>9, <1>10, FetchKeeps DEF Next, Handle

\* It holds when load_state has returned, whatever is on the disk.
LEMMA InitInstall == Init => InstallInv
<1> SUFFICES ASSUME Init PROVE InstallInv OBVIOUS
<1>1. \A a \in Downloaders : dl[a] = NoCall BY DEF Init, DownloadInit
<1>2. NoCall.at = "idle" /\ NoCall.into = "nothing" /\ NoCall \in CallType BY DEF NoCall, CallType
<1>3. DownloadTypeOK BY <1>2 DEF Init, DownloadInit, DownloadTypeOK, CallType, Contents
<1>4. dest \in {"none", "whole"} BY DEF Init, DownloadInit
<1> QED BY <1>1, <1>2, <1>3, <1>4, InitIInv DEF InstallInv, Calling, Handles, Whole

\* A file that was compared with the index is installed whole and stays whole
\* while only the server fetches it, whatever the network does.
THEOREM FilesWhole == Spec => []InstalledWhole
<1>1. InstallInv => InstalledWhole BY DEF InstallInv, Whole, Guarded, InstalledWhole
<1> QED BY <1>1, InitInstall, NextInstall, PTL DEF Spec
=============================================================================
