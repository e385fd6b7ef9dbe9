-------------------------- MODULE ControlledBrowser --------------------------
(***************************************************************************)
(* The paid browser of a controlled site: createFixtureExecution() and its *)
(* close() (execution/cloud.ts).  Every wait may fail; the connection and  *)
(* Stagehand may also be given up and come late.  An abort or a lost lease *)
(* makes the next check throw.  Only a startup that failed, or its driver  *)
(* (PageDriver), begins the cleanup.                                       *)
(*                                                                         *)
(* WorkerLease has this as RequestBrowser to CloseBrowser, of which it     *)
(* keeps the session only.  Left out: the options' validation, the order   *)
(* of the page's setup, and an extension whose upload seemed to fail: the  *)
(* code does not look for it.                                              *)
(***************************************************************************)
EXTENDS Integers

VARIABLES
  phase,           (* the startup step that is awaited                      *)
  disallowed,      (* aborted, or the lease is lost                         *)
  closeStage,      (* the step of close(), "no" before it began             *)
  closeErrors,     (* close() has collected an error                        *)
  archive,         (* the uploaded extension: "none", "kept", "deleted"     *)
  paid,            (* the session: "none", "unknown", "running" or "over"   *)
  tried,           (* usage.allocationAttempted                             *)
  paidId,          (* sessionId is known                                    *)
  referenced,      (* onSession() was called with the id                    *)
  handle,          (* [browser, stagehand, playwright, routes]: each        *)
                   (* "none", "opening", "open", "late" or "closed"        *)
  holding,         (* those that close() knows of                           *)
  rpc,             (* model calls underway: "none", "pending" or "stuck"    *)
  releasedEarly

paidFacts == <<archive, paid, tried, paidId, referenced>>
handleFacts == <<handle, holding, rpc>>
cleanupFacts == <<closeStage, closeErrors, releasedEarly>>
controlledVars == <<phase, disallowed, paidFacts, handleFacts, cleanupFacts>>

Handles == {"browser", "stagehand", "playwright", "routes"}
-----------------------------------------------------------------------------
(* A wait ends well, and assertActive() decides whether the startup goes   *)
(* on; what fails begins the cleanup.                                      *)
Throw == phase' = "caught" /\ closeStage' = "drain"
Advance(from, to) ==
  phase = from /\ IF disallowed THEN Throw ELSE phase' = to /\ UNCHANGED closeStage

UploadArchive ==
  /\ Advance("uploading", "allocating") /\ archive' = "kept"
  /\ tried' = ~disallowed /\ paid' = IF disallowed THEN "none" ELSE "unknown"
  /\ UNCHANGED <<disallowed, paidId, referenced, handleFacts, closeErrors, releasedEarly>>

(* The paid session is stored before cancellation or lease loss are looked *)
(* at.                                                                     *)
AllocatePaid ==
  /\ phase = "allocating" /\ paid' = "running" /\ paidId' = TRUE
  /\ referenced' = TRUE /\ phase' = "referencing"
  /\ UNCHANGED <<disallowed, archive, tried, handleFacts, cleanupFacts>>

Opens(name, active) == handle' = [handle EXCEPT ![name] = IF active THEN "opening" ELSE @]

StorePaid ==
  /\ Advance("referencing", "browser") /\ Opens("browser", ~disallowed)
  /\ UNCHANGED <<disallowed, paidFacts, holding, rpc, closeErrors, releasedEarly>>

After == [browser |-> "stagehand", stagehand |-> "playwright", playwright |-> "routes",
          routes |-> "setup"]

(* A handle opens: one that the startup gave up closes itself when the     *)
(* cleanup has begun.  Faulty variant: it stays open.                      *)
StaysOpen == "open"
WhenLate == "late"

Opened(name) ==
  /\ handle[name] = "opening"
  /\ IF phase = name
     THEN /\ holding' = holding \cup {name} /\ Advance(name, After[name])
          /\ handle' = [h \in Handles |->
               IF h = name THEN "open"
               ELSE IF h = After[name] /\ ~disallowed THEN "opening" ELSE handle[h]]
     ELSE handle' = [handle EXCEPT ![name] = WhenLate] /\ UNCHANGED <<phase, holding, closeStage>>
  /\ UNCHANGED <<disallowed, paidFacts, rpc, closeErrors, releasedEarly>>

(* Closing a late handle may fail, which nobody is told. *)
LateHandleCloses(name) ==
  /\ handle[name] = "late" /\ handle' = [handle EXCEPT ![name] = "closed"]
  /\ UNCHANGED <<phase, disallowed, paidFacts, holding, rpc, cleanupFacts>>

(* The target is opened, its page selected and its live view stored. *)
SetUp ==
  /\ Advance("setup", "running")
  /\ UNCHANGED <<disallowed, paidFacts, handleFacts, closeErrors, releasedEarly>>

(* Whatever is awaited fails or takes too long: the connection and         *)
(* Stagehand go on, the other handles do not come into being.              *)
StageFails ==
  /\ phase \notin {"running", "caught", "over"} /\ Throw
  /\ \/ UNCHANGED handle
     \/ phase \in Handles /\ handle' = [handle EXCEPT ![phase] = "none"]
  /\ phase \in {"playwright", "routes"} => handle' # handle
  /\ UNCHANGED <<disallowed, paidFacts, holding, rpc, closeErrors, releasedEarly>>

AbortRun ==
  /\ ~disallowed /\ disallowed' = TRUE
  /\ UNCHANGED <<phase, paidFacts, handleFacts, cleanupFacts>>

PaidEnds ==
  /\ paid = "running" /\ paid' = "over"
  /\ UNCHANGED <<phase, disallowed, archive, tried, paidId, referenced, handleFacts,
                 cleanupFacts>>

AskModel ==
  /\ phase = "running" /\ closeStage = "no" /\ ~disallowed /\ rpc = "none" /\ rpc' = "pending"
  /\ UNCHANGED <<phase, disallowed, paidFacts, handle, holding, cleanupFacts>>

ModelAnswers ==
  /\ rpc = "pending" /\ rpc' \in {"none", "stuck"}
  /\ UNCHANGED <<phase, disallowed, paidFacts, handle, holding, cleanupFacts>>

CloseExecution ==
  /\ phase = "running" /\ closeStage = "no" /\ closeStage' = "drain"
  /\ UNCHANGED <<phase, disallowed, paidFacts, handleFacts, closeErrors, releasedEarly>>
-----------------------------------------------------------------------------
(* close(): a session that was asked for and never named is an error; so   *)
(* is a release whose readback shows the session still running.            *)
ReleaseRemote(errors) ==
  IF ~paidId THEN closeErrors' = (errors \/ tried) /\ UNCHANGED paid
  ELSE \E over \in BOOLEAN :
         /\ paid' \in IF over THEN {"over"} ELSE {paid, "over"}
         /\ closeErrors' = (errors \/ ~over)

(* A model call that does not settle must not delay the release. *)
DrainCalls ==
  /\ closeStage = "drain" /\ closeStage' = "handles"
  /\ IF rpc = "none" THEN releasedEarly' = FALSE /\ UNCHANGED <<paid, closeErrors>>
     ELSE rpc = "stuck" /\ releasedEarly' = TRUE /\ ReleaseRemote(TRUE)
  /\ UNCHANGED <<phase, disallowed, archive, tried, paidId, referenced, handleFacts>>

CloseHandles ==
  /\ closeStage = "handles" /\ closeStage' = "release"
  /\ \E broken \in SUBSET holding :
       /\ closeErrors' = (closeErrors \/ broken # {})
       /\ handle' = [h \in Handles |-> IF h \in holding \ broken THEN "closed" ELSE handle[h]]
  /\ UNCHANGED <<phase, disallowed, paidFacts, holding, rpc, releasedEarly>>

ReleaseAtLast ==
  /\ closeStage = "release" /\ closeStage' = "archive"
  /\ IF releasedEarly THEN UNCHANGED <<paid, closeErrors>> ELSE ReleaseRemote(closeErrors)
  /\ UNCHANGED <<phase, disallowed, archive, tried, paidId, referenced, handleFacts,
                 releasedEarly>>

DeleteArchive ==
  /\ closeStage = "archive" /\ closeStage' = "done"
  /\ \E works \in BOOLEAN :
       /\ archive' = IF works /\ archive = "kept" THEN "deleted" ELSE archive
       /\ closeErrors' = (closeErrors \/ (archive = "kept" /\ ~works))
  /\ UNCHANGED <<phase, disallowed, paid, tried, paidId, referenced, handleFacts,
                 releasedEarly>>

ThrowStartup ==
  /\ phase = "caught" /\ closeStage = "done" /\ phase' = "over"
  /\ UNCHANGED <<disallowed, paidFacts, handleFacts, cleanupFacts>>
-----------------------------------------------------------------------------
ControlledInit ==
  /\ phase = "uploading" /\ disallowed = FALSE /\ closeStage = "no" /\ closeErrors = FALSE
  /\ archive = "none" /\ paid = "none" /\ tried = FALSE /\ paidId = FALSE
  /\ referenced = FALSE /\ handle = [h \in Handles |-> "none"] /\ holding = {} /\ rpc = "none"
  /\ releasedEarly = FALSE

ControlledStart ==
  \/ UploadArchive \/ AllocatePaid \/ StorePaid \/ SetUp \/ StageFails \/ ThrowStartup
  \/ \E h \in Handles : Opened(h) \/ LateHandleCloses(h)
ExecutionStep == AbortRun \/ PaidEnds \/ AskModel \/ ModelAnswers \/ CloseExecution
CleanupStep == DrainCalls \/ CloseHandles \/ ReleaseAtLast \/ DeleteArchive

ControlledNext == ControlledStart \/ ExecutionStep \/ CleanupStep

ControlledSpec == ControlledInit /\ [][ControlledNext]_controlledVars
-----------------------------------------------------------------------------
(* However the startup ends and whatever comes late, a cleanup without an  *)
(* error leaves no session, no extension and nothing open, and a session   *)
(* whose id was learned has been reported to the database, even when the   *)
(* lease was lost while it was created (createFixtureExecution()).         *)
PaidBrowserAccounted ==
  closeStage = "done" =>
    /\ paidId => referenced
    /\ ~closeErrors => /\ paid \in {"none", "over"} /\ archive # "kept"
                       /\ \A h \in Handles : handle[h] # "open"
=============================================================================
