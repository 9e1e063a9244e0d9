----------------------------- MODULE PymssServer -----------------------------
(***************************************************************************)
(* The PyMSS HTTP server (tools/pymss/server/app.py, state.py).  Its       *)
(* handlers are coroutines of one event loop, so what lies between two     *)
(* awaits is one step; model loading, closing, separation and downloads    *)
(* run in threads that a handler awaits.  A handler that stops awaiting    *)
(* its thread, after a timeout, does not stop the thread.                  *)
(***************************************************************************)
EXTENDS ModelDownload, Sequences, FiniteSets

CONSTANTS
  Requests,     \* the requests that may arrive
  QueueLimit,   \* RequestLimiter.limit, from max_queue_size
  TimesOut,     \* request_timeout_seconds is not 0
  Boot,         \* the separator loaded by load_state
  None

ASSUME QueueLimitAssumption == QueueLimit \in Nat \ {0}
ASSUME TimesOutAssumption == TimesOut \in BOOLEAN
ASSUME SeparatorsAssumption == Boot \notin Requests /\ None \notin Requests \cup {Boot}
ASSUME DownloadersAssumption == Requests \subseteq Downloaders

VARIABLES
  loaded,         \* state.loaded: the separator that serves, named after its load
  loading,        \* state.model_loading
  modelLock,      \* who holds model_lock
  downloadLock,   \* who holds download_lock
  inference,      \* inference_lock: its holder, then its waiters in order
  active,         \* RequestLimiter.active
  req,            \* each request: its kind, its await, the separator it works on
  thread,         \* the separator a separation thread runs on
  open            \* the separators that were created and not closed

serverVars == <<loaded, loading, modelLock, downloadLock, inference, active, req, thread, open>>
vars == <<serverVars, fileVars>>

Separators == Requests \cup {Boot}

Init ==
  /\ DownloadInit
  /\ loaded = Boot /\ open = {Boot}
  /\ loading = FALSE
  /\ modelLock = None /\ downloadLock = None
  /\ inference = <<>>
  /\ active = 0
  /\ req = [r \in Requests |-> [kind |-> "none", at |-> "unborn", sep |-> None]]
  /\ thread = [r \in Requests |-> None]

Answered(r) == req' = [req EXCEPT ![r].at = "answered"]

Holds(r) == inference # <<>> /\ Head(inference) = r

-----------------------------------------------------------------------------
\* separate_audio and _run_separation up to the inference lock: 409, 503 and
\* 429 are answered at once, an admitted request waits with the model it saw.
Separate(r) ==
  /\ req[r].at = "unborn"
  /\ IF loading \/ loaded = None \/ active >= QueueLimit
     THEN /\ req' = [req EXCEPT ![r].kind = "separate", ![r].at = "answered"]
          /\ UNCHANGED <<active, inference>>
     ELSE /\ req' = [req EXCEPT ![r] = [kind |-> "separate", at |-> "queued", sep |-> loaded]]
          /\ active' = active + 1
          /\ inference' = Append(inference, r)
  /\ UNCHANGED <<loaded, loading, modelLock, downloadLock, thread, open, fileVars>>

\* The finally of _run_separation.
Leave(r) ==
  /\ Answered(r)
  /\ inference' = Tail(inference)
  /\ active' = active - 1

\* Mutant: the model seen before the wait is used after it.
EnterUnchecked(r) ==
  /\ req[r].at = "queued" /\ Holds(r)
  /\ req' = [req EXCEPT ![r].at = "running"]
  /\ thread' = [thread EXCEPT ![r] = req[r].sep]
  /\ UNCHANGED <<loaded, loading, modelLock, downloadLock, inference, active, open, fileVars>>

\* The inference lock is taken: the model may have gone during the wait.
Enter(r) ==
  /\ req[r].at = "queued" /\ Holds(r)
  /\ IF loading \/ loaded # req[r].sep
     THEN Leave(r) /\ UNCHANGED thread
     ELSE /\ req' = [req EXCEPT ![r].at = "running"]
          /\ thread' = [thread EXCEPT ![r] = req[r].sep]
          /\ UNCHANGED <<inference, active>>
  /\ UNCHANGED <<loaded, loading, modelLock, downloadLock, open, fileVars>>

\* The separation thread returns or raises.
ThreadEnds(r) ==
  /\ thread[r] # None
  /\ thread' = [thread EXCEPT ![r] = None]
  /\ IF req[r].at = "running" THEN Leave(r) ELSE UNCHANGED <<req, inference, active>>
  /\ UNCHANGED <<loaded, loading, modelLock, downloadLock, open, fileVars>>

\* Mutant: a request that timed out keeps the inference lock.
TimeOutKeepsLock(r) ==
  /\ TimesOut
  /\ req[r].at = "running"
  /\ Answered(r) /\ active' = active - 1
  /\ UNCHANGED <<loaded, loading, modelLock, downloadLock, inference, thread, open, fileVars>>

\* wait_for gives up: 504, both locks are free, the thread goes on.
TimeOut(r) ==
  /\ TimesOut
  /\ req[r].at = "running"
  /\ Leave(r)
  /\ UNCHANGED <<loaded, loading, modelLock, downloadLock, thread, open, fileVars>>

\* What load, download and the download source exclude each other with.
Busy == modelLock # None \/ downloadLock # None

\* Mutant: a load does not look at the download lock.
LoadDuringDownload(r) ==
  /\ req[r].at = "unborn"
  /\ IF modelLock # None
     THEN /\ req' = [req EXCEPT ![r].kind = "load", ![r].at = "answered"]
          /\ UNCHANGED <<loaded, loading, modelLock, inference>>
     ELSE /\ modelLock' = r
          /\ loaded' = None /\ loading' = TRUE
          /\ req' = [req EXCEPT ![r] = [kind |-> "load", sep |-> loaded,
                       at |-> IF loaded = None THEN "resolve" ELSE "unload"]]
          /\ inference' = IF loaded = None THEN inference ELSE Append(inference, r)
  /\ UNCHANGED <<downloadLock, active, thread, open, fileVars>>

\* Mutant: the old model serves until the new one is there.
LoadKeepsServing(r) ==
  /\ req[r].at = "unborn" /\ ~Busy
  /\ modelLock' = r
  /\ loading' = TRUE
  /\ req' = [req EXCEPT ![r] = [kind |-> "load", sep |-> loaded,
               at |-> IF loaded = None THEN "resolve" ELSE "unload"]]
  /\ inference' = IF loaded = None THEN inference ELSE Append(inference, r)
  /\ UNCHANGED <<loaded, downloadLock, active, thread, open, fileVars>>

\* _load_or_switch_model up to its first await: the old model stops serving.
Load(r) ==
  /\ req[r].at = "unborn"
  /\ IF Busy
     THEN /\ req' = [req EXCEPT ![r].kind = "load", ![r].at = "answered"]
          /\ UNCHANGED <<loaded, loading, modelLock, inference>>
     ELSE /\ modelLock' = r
          /\ loaded' = None /\ loading' = TRUE
          /\ req' = [req EXCEPT ![r] = [kind |-> "load", sep |-> loaded,
                       at |-> IF loaded = None THEN "resolve" ELSE "unload"]]
          /\ inference' = IF loaded = None THEN inference ELSE Append(inference, r)
  /\ UNCHANGED <<downloadLock, active, thread, open, fileVars>>

\* Mutant: a load that fails leaves model_loading behind.
EndLoadStillLoading(r) ==
  /\ Answered(r)
  /\ modelLock' = None
  /\ UNCHANGED loading

\* The finally of _load_or_switch_model.
EndLoad(r) ==
  /\ Answered(r)
  /\ loading' = FALSE /\ modelLock' = None

\* Mutant: the old model is closed without the inference lock.
UnloadAtOnce(r) ==
  /\ req[r].at = "unload"
  /\ req' = [req EXCEPT ![r].at = "closing"]
  /\ UNCHANGED <<loaded, loading, modelLock, downloadLock, inference, active, thread, open, fileVars>>

\* close_loaded_model runs in a thread under the inference lock.  When it
\* raises, the old model is gone and the new one is not loaded.
Unload(r) ==
  /\ req[r].at = "unload" /\ Holds(r)
  /\ req' = [req EXCEPT ![r].at = "closing"]
  /\ UNCHANGED <<loaded, loading, modelLock, downloadLock, inference, active, thread, open, fileVars>>

Closed(r) ==
  /\ req[r].at = "closing"
  /\ inference' = Tail(inference)
  /\ \/ /\ open' = open \ {req[r].sep}
        /\ req' = [req EXCEPT ![r].at = "resolve", ![r].sep = None]
        /\ UNCHANGED <<loading, modelLock>>
     \/ EndLoad(r) /\ UNCHANGED open
  /\ UNCHANGED <<loaded, downloadLock, active, thread, fileVars>>

\* load_model: a file that exists is used as it is, a missing one downloaded.
Resolve(r) ==
  /\ req[r].at = "resolve"
  /\ req' = [req EXCEPT ![r].at = "create"]
  /\ IF dest = "none" THEN Call(r, FALSE) ELSE dl' = [dl EXCEPT ![r].at = "done"]
  /\ UNCHANGED <<loaded, loading, modelLock, downloadLock, inference, active, thread, open, dest, part>>

\* The separator is created and published, or anything in load_model raised.
Create(r) ==
  /\ req[r].at = "create"
  /\ Returned(r)
  /\ EndLoad(r)
  /\ \/ dl[r].at = "done" /\ dest = "whole" /\ loaded' = r /\ open' = open \cup {r}
     \/ UNCHANGED <<loaded, open>>
  /\ UNCHANGED <<downloadLock, inference, active, thread, dest, part>>

\* _download_model_to_local: the download runs in a thread under download_lock.
Download(r, force) ==
  /\ req[r].at = "unborn"
  /\ IF Busy
     THEN /\ req' = [req EXCEPT ![r].kind = "download", ![r].at = "answered"]
          /\ UNCHANGED <<downloadLock, dl>>
     ELSE /\ req' = [req EXCEPT ![r].kind = "download", ![r].at = "fetching"]
          /\ downloadLock' = r
          /\ Call(r, force)
  /\ UNCHANGED <<loaded, loading, modelLock, inference, active, thread, open, dest, part>>

Downloaded(r) ==
  /\ req[r].at = "fetching"
  /\ Returned(r)
  /\ Answered(r)
  /\ downloadLock' = None
  /\ UNCHANGED <<loaded, loading, modelLock, inference, active, thread, open, dest, part>>

\* The steps of the coroutine and of the threads it awaits.
Handle(r) ==
  \/ Enter(r)
  \/ Unload(r) \/ Closed(r) \/ Resolve(r) \/ Create(r)
  \/ Downloaded(r)

Fetch(a) == DownloadStep(a) /\ UNCHANGED serverVars

\* Another process, the command line, fetches the same file.
Foreign(a) ==
  /\ a \notin Requests /\ dl[a].at = "idle"
  /\ \E force \in BOOLEAN : Call(a, force)
  /\ UNCHANGED <<serverVars, dest, part>>

Next ==
  \/ \E r \in Requests : \/ Separate(r) \/ Load(r)
                         \/ \E force \in BOOLEAN : Download(r, force)
                         \/ Handle(r) \/ ThreadEnds(r) \/ TimeOut(r)
  \/ \E a \in Downloaders : Fetch(a) \/ Foreign(a)

Spec == Init /\ [][Next]_vars

\* The event loop resumes every coroutine that can go on, separations, loads
\* and downloads end.  Whether a separation that timed out ends is left open.
FairSpec ==
  /\ Spec
  /\ \A r \in Requests :
       /\ WF_vars(Handle(r))
       /\ WF_vars(ThreadEnds(r) /\ req[r].at = "running")
       /\ WF_vars(Fetch(r))

-----------------------------------------------------------------------------
TypeOK ==
  /\ DownloadTypeOK
  /\ loaded \in Separators \cup {None}
  /\ loading \in BOOLEAN
  /\ modelLock \in Requests \cup {None}
  /\ downloadLock \in Requests \cup {None}
  /\ inference \in Seq(Requests)
  /\ active \in 0..QueueLimit
  /\ req \in [Requests ->
       [kind : {"none", "separate", "load", "download"},
        at : {"unborn", "queued", "running", "unload", "closing", "resolve", "create",
              "fetching", "answered"},
        sep : Separators \cup {None}]]
  /\ thread \in [Requests -> Separators \cup {None}]
  /\ open \subseteq Separators

Separating(s) == {r \in Requests : thread[r] = s}
Closing(s)    == {r \in Requests : req[r].at = "closing" /\ req[r].sep = s}

(* One thread at a time works on a separator or closes it, except for the   *)
(* threads of requests that were answered 504: those nobody waits for.      *)
SeparatorExclusive ==
  \A s \in Separators :
    Cardinality({r \in Separating(s) : req[r].at = "running"} \cup Closing(s)) <= 1

(* The model that serves is open, and so is the one every awaited separation *)
(* runs on: a switch waits for them before it closes the old model.          *)
ServesOpenModel ==
  /\ loaded # None => loaded \in open
  /\ \A r \in Requests : req[r].at = "running" => thread[r] \in open

At(places) == {r \in Requests : req[r].at \in places}

(* The server's flags say what its requests do, on every path through the   *)
(* finally blocks: model_loading and each lock are set for exactly one      *)
(* operation, and active counts the separations that wait or run, which the *)
(* limit bounds.                                                            *)
StateFollowsRequests ==
  /\ active = Cardinality(At({"queued", "running"})) /\ active <= QueueLimit
  /\ At({"unload", "closing", "resolve", "create"}) = {modelLock} \ {None}
  /\ At({"fetching"}) = {downloadLock} \ {None}
  /\ loading = (modelLock # None)
  /\ ~(modelLock # None /\ downloadLock # None)

(* A file that was compared with the index is never installed cut short, and *)
(* an installed one is not cut by a later download, whatever the network     *)
(* does to the .part: load and download exclude each other in the server.    *)
(* Nothing excludes another process that fetches the same file.              *)
InstalledWhole ==
  Verifies = {TRUE} /\ (\A a \in Downloaders \ Requests : dl[a].at = "idle")
    => dest \in {"none", "whole"}

(* Every request is answered, in whatever order the loads, downloads and     *)
(* separations take the locks: the FIFO inference lock starves nobody.       *)
EveryRequestAnswered ==
  \A r \in Requests : req[r].at # "unborn" ~> req[r].at = "answered"

(* The requests use the model as ModelSlot promises: one at a time, on the   *)
(* model that serves, and a switch publishes after the last one ended.       *)
Slot == INSTANCE ModelSlot WITH
  Models <- Separators, Users <- Requests, NoModel <- None,
  serving <- loaded,
  using <- {<<r, thread[r]>> : r \in At({"running"})}

UsesOneModelAtATime == Slot!SlotSpec
=============================================================================
