---------------------------- MODULE ModelDownload ----------------------------
(***************************************************************************)
(* How PyMSS installs a model file (tools/pymss/model_download.py).  Each  *)
(* downloader fills <file>.part, compares it with the size and the hash of *)
(* the source's index when there is one, and renames it over the file.     *)
(* Nothing but the callers keeps two downloaders off the same .part, so a  *)
(* handle is followed to the file it writes to after a rename.             *)
(***************************************************************************)
EXTENDS Naturals

CONSTANTS
  Downloaders,   \* the threads and processes that may call download_model
  Retries,       \* retries of _download_file
  Aria2,         \* aria2c is on PATH: it resumes, and its .part is kept
  Verifies       \* whether a call has an index to compare with (both, maybe)

ASSUME RetriesAssumption == Retries \in Nat
ASSUME Aria2Assumption == Aria2 \in BOOLEAN
ASSUME VerifiesAssumption == Verifies \subseteq BOOLEAN

VARIABLES
  dest,   \* the installed file: absent, whole or cut short
  part,   \* the same for <file>.part
  dl      \* each call of download_model

fileVars == <<dest, part, dl>>

Contents == {"none", "cut", "whole"}

NoCall == [at |-> "idle", tries |-> 0, verify |-> FALSE, into |-> "nothing"]

DownloadInit ==
  /\ dest \in {"none", "whole"}
  /\ part \in {"none", "cut"}
  /\ dl = [a \in Downloaders |-> NoCall]

Valid(content, verify) == content = "whole" \/ (content = "cut" /\ ~verify)

-----------------------------------------------------------------------------
\* download_model: skip a file that is already valid, fetch it otherwise.
Call(a, force) ==
  \E verify \in Verifies :
    dl' = [dl EXCEPT ![a] =
      [at |-> IF ~force /\ Valid(dest, verify) THEN "done" ELSE "open",
       tries |-> 0, verify |-> verify, into |-> "nothing"]]

\* The file a is gone under its name: a handle to it follows it.
Renamed(calls, to) ==
  [b \in Downloaders |-> IF calls[b].into = "part" THEN [calls[b] EXCEPT !.into = to]
                         ELSE calls[b]]

\* open(tmp, "wb") truncates; aria2 --continue goes on where a .part ends.
Open(a) ==
  /\ dl[a].at = "open"
  /\ part' = "cut"
  /\ dl' = [dl EXCEPT ![a].at = "write", ![a].into = "part"]
  /\ UNCHANGED dest

\* The body ends.  A connection closed early ends it too: read() returns less
\* and does not raise.  With another handle on the file the result may have a
\* hole whoever ends last.
WriteEnds(a) ==
  /\ dl[a].at = "write"
  /\ dl' = [dl EXCEPT ![a].at = "validate", ![a].into = "nothing"]
  /\ \E content \in {"cut", "whole"} :
       CASE dl[a].into = "part" -> part' = content /\ UNCHANGED dest
         [] dl[a].into = "dest" -> dest' = content /\ UNCHANGED part
         [] OTHER               -> UNCHANGED <<dest, part>>

\* The end of a failed attempt: the .part is removed, unless aria2 may resume
\* it, and the attempt is repeated or DownloadError raised.
Failed(a, invalid) ==
  LET cleans == ~Aria2 \/ invalid
      calls  == [dl EXCEPT ![a].at = IF dl[a].tries < Retries THEN "open" ELSE "error",
                           ![a].tries = IF @ < Retries THEN @ + 1 ELSE 0,
                           ![a].into = "nothing"]
  IN  /\ part' = IF cleans THEN "none" ELSE part
      /\ dl' = IF cleans THEN Renamed(calls, "nothing") ELSE calls
      /\ UNCHANGED dest

NetworkFails(a) == dl[a].at \in {"open", "write"} /\ Failed(a, FALSE)

\* _validate_downloaded_file looks at the path, whoever wrote it.
Validate(a) ==
  /\ dl[a].at = "validate"
  /\ IF part # "none" /\ Valid(part, dl[a].verify)
     THEN dl' = [dl EXCEPT ![a].at = "replace"] /\ UNCHANGED <<dest, part>>
     ELSE Failed(a, part # "none")

\* os.replace: the file changes whole, or another call took the .part away.
Replace(a) ==
  /\ dl[a].at = "replace"
  /\ IF part = "none"
     THEN Failed(a, FALSE)
     ELSE /\ dest' = part
          /\ part' = "none"
          /\ dl' = Renamed([dl EXCEPT ![a].at = "done", ![a].tries = 0], "dest")

DownloadStep(a) ==
  \/ Open(a) \/ WriteEnds(a) \/ NetworkFails(a) \/ Validate(a) \/ Replace(a)

\* The call returns to its caller, or raises there.
Returned(a) ==
  /\ dl[a].at \in {"done", "error"}
  /\ dl' = [dl EXCEPT ![a] = NoCall]

-----------------------------------------------------------------------------
DownloadTypeOK ==
  /\ dest \in Contents
  /\ part \in Contents
  /\ dl \in [Downloaders ->
       [at : {"idle", "open", "write", "validate", "replace", "done", "error"},
        tries : 0..Retries, verify : BOOLEAN, into : {"nothing", "part", "dest"}]]
=============================================================================
