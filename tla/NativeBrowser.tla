---------------------------- MODULE NativeBrowser ----------------------------
(***************************************************************************)
(* The browser of a public run: createNativeBrowser() and its close()      *)
(* (execution/native-browser.ts), the rest of its startup in               *)
(* createPublicExecution() (public-cloud.ts), the SDK's thread             *)
(* (native-sdk.ts, native-sdk-worker.ts), the one-use metadata server it   *)
(* asks (native-session-metadata.ts), the debugger on the extension's      *)
(* worker (native-worker-control.ts) and the attestation                   *)
(* (native-policy-session.ts).                                             *)
(*                                                                         *)
(* Every wait may end in a failure, and every bounded one in a timeout     *)
(* after which what was waited for goes on.  The deadline, the loss of the *)
(* thread, of the extension or of the network begin the cleanup in the     *)
(* middle of the startup; an abort or a lost lease only makes the next     *)
(* check fail.  The journal of the extension is NativeResource's, what     *)
(* passes through the network PublicNetwork's; what is attested, and the   *)
(* identities that are compared, are left out.                             *)
(***************************************************************************)
EXTENDS Integers, FiniteSets

CONSTANT MaxExtractions    (* bound: model calls of the run *)

VARIABLES
  boot,            (* the startup step that is awaited                      *)
  halted,          (* assertActive() throws: abort, lease, deadline, fault  *)
  ending,          (* the step close() is at, "no" before it began          *)
  faulted,         (* close() has collected an error                        *)
  uploadedZip,     (* the extension: "none", "kept" or "deleted"            *)
  allocation,      (* the session: "none", "unknown", "running" or "over"   *)
  allocated,       (* usage.allocationAttempted                             *)
  sessionRead,     (* sessionId is known                                    *)
  retiredRead,     (* the readback proved the session's end                 *)
  cdp,             (* "none", "connecting", "attached", "late", "closed"    *)
  playwright,      (* the startup holds the connection                      *)
  control,         (* debugger: "none", "attached" or "detached"            *)
  network,         (* interception: "none", "installed" or "closed"         *)
  sdk,             (* "none", "serving", "spawning", "rejected",            *)
                   (* "running", "exited" or "aborted"                     *)
  sdkRetired,
  port,            (* of the metadata server: "none", "open" or "closed"    *)
  consumed, metadataFailed,
  requested,       (* the command whose reply the parent awaits             *)
  work,            (* the command the thread is at                          *)
  extractions

startupFacts == <<uploadedZip, allocation, allocated, sessionRead>>
attachments == <<cdp, playwright, control, network>>
threadVars == <<sdk, port, consumed, metadataFailed, requested, work>>
closeFacts == <<faulted, retiredRead, sdkRetired>>
closeVars == <<ending, closeFacts>>
browserStateVars == <<boot, halted, startupFacts, attachments, threadVars, closeVars, extractions>>

MayProceed == ~halted /\ ending = "no"
Closes == IF ending = "no" THEN "drain" ELSE ending

(* The wait ends well: the next check decides how the startup goes on.  A  *)
(* startup that fails begins the cleanup before anything else can happen.  *)
GiveUpBoot == boot' = "caught" /\ ending' = Closes
Proceed(from, to) ==
  boot = from /\ IF MayProceed /\ to # "caught" THEN boot' = to /\ UNCHANGED ending ELSE GiveUpBoot
-----------------------------------------------------------------------------
(* The startup, one action for each wait. *)
Uploaded ==
  /\ Proceed("upload", "allocate") /\ uploadedZip' = "kept"
  /\ allocated' = MayProceed
  /\ allocation' = IF MayProceed THEN "unknown" ELSE "none"
  /\ UNCHANGED <<halted, sessionRead, attachments, threadVars, closeFacts, extractions>>

(* sessions.create() answers; an answer after the cleanup is refused. *)
Allocated ==
  /\ boot = "allocate" /\ allocation' = "running" /\ sessionRead' = TRUE
  /\ IF ending = "done" THEN GiveUpBoot ELSE boot' = "reference" /\ UNCHANGED ending
  /\ UNCHANGED <<halted, uploadedZip, allocated, attachments, threadVars, closeFacts, extractions>>

(* The paid session is recorded before anything else is checked. *)
Referenced ==
  /\ Proceed("reference", "readback")
  /\ UNCHANGED <<halted, startupFacts, attachments, threadVars, closeFacts, extractions>>

ReadBackSession ==
  /\ Proceed("readback", "attach")
  /\ cdp' = IF MayProceed THEN "connecting" ELSE "none"
  /\ UNCHANGED <<halted, startupFacts, playwright, control, network, threadVars, closeFacts,
                 extractions>>

(* connectOverCDP() answers: a connection that comes after the cleanup     *)
(* began closes itself.  Faulty variant: nobody looks at it any more.      *)
Overlooked == {"attached"}
LateConnection == {"late", "closed"}

Connected ==
  /\ cdp = "connecting"
  /\ cdp' \in IF ending = "no" THEN {"attached"} ELSE LateConnection
  /\ IF boot = "attach" THEN playwright' = TRUE /\ Proceed("attach", "bootstrap")
     ELSE UNCHANGED <<playwright, boot, ending>>
  /\ UNCHANGED <<halted, startupFacts, control, network, threadVars, closeFacts, extractions>>

LateCloses ==
  /\ cdp = "late" /\ cdp' = "closed"
  /\ UNCHANGED <<boot, halted, startupFacts, playwright, control, network, threadVars, closeVars,
                 extractions>>

(* Version, profile and bootstrap are checked; createNativeSdk() begins.   *)
Bootstrapped ==
  /\ Proceed("bootstrap", "connect")
  /\ sdk' = IF MayProceed THEN "serving" ELSE "none"
  /\ UNCHANGED <<halted, startupFacts, attachments, port, consumed, metadataFailed, requested, work,
                 closeFacts, extractions>>
-----------------------------------------------------------------------------
(* The SDK: its metadata server listens, then its thread starts. *)
Listening ==
  /\ sdk = "serving"
  /\ IF MayProceed THEN sdk' = "spawning" /\ port' = "open" ELSE sdk' = "rejected" /\ UNCHANGED port
  /\ UNCHANGED <<boot, halted, startupFacts, attachments, consumed, metadataFailed, requested, work,
                 closeVars, extractions>>

Stopping == ending \in {"sdk", "terminate", "port", "attachments", "extension", "done"}

(* lost(): the browser is closed, unless the cleanup stops the thread.     *)
LoseConnection == IF Stopping THEN UNCHANGED <<halted,
                                               ending>> ELSE halted' = TRUE /\ ending' = Closes

ThreadStarts ==
  /\ sdk = "spawning"
  /\ IF MayProceed /\ ~Stopping THEN sdk' = "running" /\ UNCHANGED <<halted, ending>>
     ELSE sdk' = "rejected" /\ LoseConnection
  /\ UNCHANGED <<boot, startupFacts, attachments, port, consumed, metadataFailed, requested, work,
                 closeFacts, extractions>>

(* request(): one command at a time.  The thread exits if it gets another. *)
Post(operation) ==
  /\ sdk = "running" /\ requested = "none" /\ ~Stopping
  /\ requested' = operation
  /\ IF work = "none" THEN work' = operation /\ UNCHANGED sdk
     ELSE sdk' = "aborted" /\ UNCHANGED work

(* The SDK reads the session's metadata, and reads it again on a retry,    *)
(* which the server refuses and remembers.                                 *)
ReadMetadata ==
  /\ work = "connect" /\ port = "open"
  /\ IF consumed \/ metadataFailed \/ ~MayProceed
     THEN metadataFailed' = TRUE /\ UNCHANGED consumed
     ELSE consumed' = TRUE /\ UNCHANGED metadataFailed
  /\ UNCHANGED <<boot, halted, startupFacts, attachments, sdk, port, requested, work, closeVars,
                 extractions>>

MetadataExpires ==
  /\ port = "open" /\ ~consumed /\ metadataFailed' = TRUE
  /\ UNCHANGED <<boot, halted, startupFacts, attachments, sdk, port, consumed, requested, work,
                 closeVars,
                 extractions>>

BootCommands == {"connect", "initialize", "selectPage"}
StepAfter(operation) ==
  CASE operation = "connect" -> IF consumed /\ ~metadataFailed THEN "initialize" ELSE "caught"
    [] operation = "initialize" -> "attest"
    [] operation = "selectPage" -> "publish"

Command(operation) ==
  /\ boot = operation /\ MayProceed /\ Post(operation)
  /\ UNCHANGED <<boot, halted, startupFacts, attachments, port, consumed, metadataFailed, closeVars,
                 extractions>>

(* The thread answers; a reply that nobody awaits means the SDK is lost.   *)
ThreadAnswers ==
  /\ sdk = "running" /\ work # "none" /\ work' = "none"
  /\ IF requested = work
     THEN /\ requested' = "none"
          /\ IF boot = work /\ work \in BootCommands THEN Proceed(work, StepAfter(work))
             ELSE UNCHANGED <<boot, ending>>
          /\ UNCHANGED halted
     ELSE LoseConnection /\ UNCHANGED <<boot, requested>>
  /\ UNCHANGED <<startupFacts, attachments, sdk, port, consumed, metadataFailed, closeFacts,
                 extractions>>

ThreadDies ==
  /\ sdk = "running" /\ sdk' = "exited" /\ work' = "none" /\ requested' = "none" /\ LoseConnection
  /\ UNCHANGED <<boot, startupFacts, attachments, port, consumed, metadataFailed, closeFacts,
                 extractions>>
-----------------------------------------------------------------------------
(* connectNativeWorkerControl() attaches; if the checks that follow fail   *)
(* it detaches itself, before the startup goes on.                         *)
ControlAttaches ==
  /\ boot = "attest" /\ control = "none" /\ cdp = "attached" /\ MayProceed /\ control' = "attached"
  /\ UNCHANGED <<boot, halted, startupFacts, cdp, playwright, network, threadVars, closeVars,
                 extractions>>

Attested ==
  /\ boot = "attest" /\ control = "attached"
  /\ \/ MayProceed /\ boot' = "network" /\ UNCHANGED <<control, ending>>
     \/ control' = "detached" /\ GiveUpBoot
  /\ UNCHANGED <<halted, startupFacts, cdp, playwright, network, threadVars, closeFacts,
                 extractions>>

NetworkInstalled ==
  /\ cdp = "attached"
  /\ Proceed("network", "navigate")
  /\ network' = IF MayProceed THEN "installed" ELSE "closed"
  /\ UNCHANGED <<halted, startupFacts, cdp, playwright, control, threadVars, closeFacts,
                 extractions>>

Navigated ==
  /\ Proceed("navigate", "selectPage")
  /\ UNCHANGED <<halted, startupFacts, attachments, threadVars, closeFacts, extractions>>

Published ==
  /\ Proceed("publish", "ready")
  /\ UNCHANGED <<halted, startupFacts, attachments, threadVars, closeFacts, extractions>>

(* What is awaited fails, or is given up after a time.  A session that was *)
(* asked for may exist all the same.                                       *)
Waits == {"upload", "allocate", "reference", "readback", "attach", "bootstrap", "connect",
          "initialize", "network", "navigate", "selectPage", "publish"}
WaitFails ==
  /\ boot \in Waits /\ GiveUpBoot
  /\ UNCHANGED <<halted, startupFacts, attachments, threadVars, closeFacts, extractions>>
AttestFails ==
  /\ boot = "attest" /\ control = "none" /\ GiveUpBoot
  /\ UNCHANGED <<halted, startupFacts, attachments, threadVars, closeFacts, extractions>>

Thrown ==
  /\ boot = "caught" /\ ending = "done" /\ boot' = "thrown"
  /\ UNCHANGED <<halted, startupFacts, attachments, threadVars, closeVars, extractions>>

(* The worker asks the model.  An answer it gives up after its deadline    *)
(* leaves the command pending.                                             *)
Extract ==
  /\ boot = "ready" /\ MayProceed /\ extractions < MaxExtractions /\ extractions' = extractions + 1
  /\ Post("extract")
  /\ UNCHANGED <<boot, halted, startupFacts, attachments, port, consumed, metadataFailed,
                 closeVars>>

CloseDriver ==
  /\ boot = "ready" /\ ending = "no" /\ ending' = "drain"
  /\ UNCHANGED <<boot, halted, startupFacts, attachments, threadVars, closeFacts, extractions>>
-----------------------------------------------------------------------------
(* The surroundings: an abort, the deadline or a fault, the session's end. *)
Abort ==
  /\ ~halted /\ halted' = TRUE
  /\ UNCHANGED <<boot, startupFacts, attachments, threadVars, closeVars, extractions>>

CanFault == allocated \/ control = "attached" \/ network = "installed"
Fault ==
  /\ CanFault /\ ending = "no" /\ halted' = TRUE /\ ending' = "drain"
  /\ UNCHANGED <<boot, startupFacts, attachments, threadVars, closeFacts, extractions>>

BrowserEnds ==
  /\ allocation = "running" /\ allocation' = "over"
  /\ UNCHANGED <<boot, halted, uploadedZip, allocated, sessionRead, attachments, threadVars,
                 closeVars,
                 extractions>>
-----------------------------------------------------------------------------
(* close(), one step after another; whatever fails is collected. *)
Moves(from, to) == ending = from /\ ending' = to
Collects(bad) == faulted' = (faulted \/ bad)

Drain ==
  /\ Moves("drain", "metrics") /\ \E late \in BOOLEAN : Collects(late /\ boot = "ready")
  /\ UNCHANGED <<boot, halted, startupFacts, attachments, threadVars, retiredRead, sdkRetired,
                 extractions>>

Initialized == boot \in {"attest", "network", "navigate", "selectPage", "publish", "ready"}
Metrics ==
  /\ Moves("metrics", "release")
  /\ \E failed \in BOOLEAN :
       /\ requested # "none" \/ sdk # "running" => failed
       /\ Collects(failed /\ Initialized)
       /\ IF failed /\ Initialized /\ sdk = "running" /\ requested = "none"
          THEN Post("metrics") ELSE UNCHANGED <<requested, work, sdk>>
  /\ UNCHANGED <<boot, halted, startupFacts, attachments, port, consumed, metadataFailed,
                 retiredRead,
                 sdkRetired, extractions>>

(* The session is released and its end read back, as far as it is known.   *)
(* It may have ended in an error, which is proof of its end but not clean. *)
ReleaseSession ==
  /\ Moves("release", "sdk")
  /\ IF ~sessionRead
     THEN Collects(allocated) /\ UNCHANGED <<allocation, retiredRead>>
     ELSE \E proved, clean \in BOOLEAN :
            /\ clean => proved
            /\ allocation' \in IF proved THEN {"over"} ELSE {allocation, "over"}
            /\ retiredRead' = proved /\ Collects(~clean)
  /\ UNCHANGED <<boot, halted, uploadedZip, allocated, sessionRead, attachments, threadVars,
                 sdkRetired,
                 extractions>>

(* sdk.close(): pending calls are rejected, then the setup is awaited; the *)
(* thread is terminated before its port is given up.                       *)
RejectPending ==
  /\ Moves("sdk", "terminate") /\ requested' = "none"
  /\ UNCHANGED <<boot, halted, startupFacts, attachments, sdk, port, consumed, metadataFailed, work,
                 closeFacts, extractions>>

Terminate ==
  /\ ending = "terminate" /\ sdk = "running"
  /\ \/ sdk' = "exited" /\ work' = "none" /\ UNCHANGED <<ending, faulted>>
     \/ ending' = "extension" /\ faulted' = TRUE /\ UNCHANGED <<sdk, work>>
  /\ UNCHANGED <<boot, halted, startupFacts, attachments, port, consumed, metadataFailed, requested,
                 retiredRead, sdkRetired, extractions>>

ClosePort ==
  /\ ending = "terminate" /\ sdk \notin {"serving", "spawning", "running"}
  /\ \/ /\ port' = IF port = "open" THEN "closed" ELSE port
        /\ sdkRetired' = TRUE /\ ending' = "attachments" /\ UNCHANGED faulted
     \/ port = "open" /\ ending' = "extension" /\ faulted' = TRUE /\ UNCHANGED <<port, sdkRetired>>
  /\ UNCHANGED <<boot, halted, startupFacts, attachments, sdk, consumed, metadataFailed, requested,
                 work,
                 retiredRead, extractions>>

(* Network, debugger and connection, each in a time of its own.            *)
CloseAttachments ==
  /\ Moves("attachments", "extension")
  /\ \E failed \in BOOLEAN :
       /\ Collects(failed)
       /\ IF failed THEN UNCHANGED <<network, control, cdp>>
          ELSE /\ network' = IF network = "installed" THEN "closed" ELSE network
               /\ control' = IF playwright /\ control = "attached" THEN "detached" ELSE control
               /\ cdp' = IF playwright THEN "closed" ELSE cdp
  /\ UNCHANGED <<boot, halted, startupFacts, playwright, threadVars, retiredRead, sdkRetired,
                 extractions>>

(* resources.close(): the extension goes only when its session is proved   *)
(* to be over, or none was asked for; otherwise it is quarantined.         *)
Unused == ~allocated \/ (sessionRead /\ retiredRead /\ sdkRetired)
CloseResources ==
  /\ Moves("extension", "done")
  /\ \E confirmed \in BOOLEAN :
       /\ confirmed => Unused
       /\ uploadedZip' = IF confirmed /\ uploadedZip = "kept" THEN "deleted" ELSE uploadedZip
       /\ Collects(uploadedZip = "kept" /\ ~confirmed)
  /\ UNCHANGED <<boot, halted, allocation, allocated, sessionRead, attachments, threadVars,
                 retiredRead,
                 sdkRetired, extractions>>
-----------------------------------------------------------------------------
BrowserInit ==
  /\ boot = "upload" /\ halted = FALSE /\ ending = "no" /\ faulted = FALSE
  /\ uploadedZip = "none" /\ allocation = "none" /\ allocated = FALSE /\ sessionRead = FALSE
  /\ retiredRead = FALSE /\ cdp = "none" /\ playwright = FALSE /\ control = "none" /\ network = "none"
  /\ sdk = "none" /\ sdkRetired = FALSE /\ port = "none" /\ consumed = FALSE /\ metadataFailed = FALSE
  /\ requested = "none" /\ work = "none" /\ extractions = 0

BootStep ==
  \/ Uploaded \/ Allocated \/ Referenced \/ ReadBackSession \/ Connected \/ LateCloses \/ Bootstrapped
  \/ ControlAttaches \/ Attested \/ NetworkInstalled \/ Navigated \/ Published
  \/ WaitFails \/ AttestFails \/ Thrown
SdkStep ==
  \/ Listening \/ ThreadStarts \/ ReadMetadata \/ MetadataExpires \/ ThreadAnswers \/ ThreadDies
  \/ \E operation \in BootCommands : Command(operation)
RunStep == Extract \/ CloseDriver \/ Abort \/ Fault \/ BrowserEnds
EndStep ==
  \/ Drain \/ Metrics \/ ReleaseSession \/ RejectPending \/ Terminate \/ ClosePort
  \/ CloseAttachments \/ CloseResources

BrowserNext == BootStep \/ SdkStep \/ RunStep \/ EndStep

BrowserSpec == BrowserInit /\ [][BrowserNext]_browserStateVars
-----------------------------------------------------------------------------

(* A cleanup that reports no error leaves nothing behind, whatever the     *)
(* startup was at when it began: no session, no thread, no port, no        *)
(* attachment and no extension (close()).                                  *)
CleanCloseIsComplete ==
  ending = "done" /\ ~faulted =>
    /\ allocation \in {"none", "over"} /\ uploadedZip # "kept"
    /\ sdk \notin {"serving", "spawning", "running"} /\ port # "open"
    /\ cdp # "attached" /\ control # "attached" /\ network # "installed"
=============================================================================
