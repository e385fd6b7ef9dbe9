------------------------- MODULE PaidBrowserProofs -------------------------
(***************************************************************************)
(* Proofs about the cleanup of a paid browser: that one without an error   *)
(* leaves nothing behind, whatever the startup was at and whatever comes   *)
(* late (ControlledBrowser, NativeBrowser), and what the journal of an     *)
(* uploaded extension may claim (NativeResource).                          *)
(***************************************************************************)
EXTENDS ControlledBrowser, NativeBrowser, NativeResource, TLAPS

(* ControlledBrowser.  The session is what the startup and close() know of *)
(* it, a handle that is open is one close() knows of, and the cleanup      *)
(* begins when the startup is over.                                        *)
ControlledTypes ==
  /\ handle \in [Handles -> {"none", "opening", "open", "late", "closed"}]
  /\ holding \subseteq Handles
  /\ closeErrors \in BOOLEAN /\ tried \in BOOLEAN /\ paidId \in BOOLEAN /\ referenced \in BOOLEAN
SessionIsKnown ==
  /\ phase = "uploading" => ~paidId /\ ~tried /\ paid = "none"
  /\ phase = "allocating" => ~paidId
  /\ paidId => referenced
  /\ ~paidId /\ ~tried => paid = "none"
HandlesAreKnown == \A h \in Handles : handle[h] = "open" => h \in holding
CleanupFollowsStartup == closeStage # "no" => phase \in {"caught", "running", "over"}
CleanupSoFar ==
  /\ releasedEarly => closeErrors
  /\ closeStage \in {"release", "archive", "done"} /\ ~closeErrors => \A h \in Handles : handle[h] # "open"
  /\ closeStage \in {"archive", "done"} /\ ~closeErrors => paid \in {"none", "over"}
  /\ closeStage = "done" /\ ~closeErrors => archive # "kept"

ControlledInvariant ==
  /\ ControlledTypes /\ SessionIsKnown /\ HandlesAreKnown /\ CleanupFollowsStartup /\ CleanupSoFar

LEMMA ControlledStepKeeps ==
  ControlledInvariant /\ [ControlledNext]_controlledVars => ControlledInvariant'
<1> SUFFICES ASSUME ControlledInvariant, [ControlledNext]_controlledVars PROVE ControlledInvariant'
  OBVIOUS
<1> USE DEF ControlledInvariant, ControlledTypes, SessionIsKnown, HandlesAreKnown, CleanupFollowsStartup,
            CleanupSoFar, Handles, Throw, Advance, paidFacts, handleFacts, cleanupFacts
<1>1. CASE UploadArchive
  BY <1>1 DEF UploadArchive
<1>2. CASE AllocatePaid
  BY <1>2 DEF AllocatePaid
<1>3. CASE StorePaid
  BY <1>3 DEF StorePaid, Opens
<1>4. CASE SetUp
  BY <1>4 DEF SetUp
<1>5. CASE StageFails
  BY <1>5 DEF StageFails
<1>6. CASE ThrowStartup
  BY <1>6 DEF ThrowStartup
<1>7. ASSUME NEW h \in Handles, Opened(h) PROVE ControlledInvariant'
  <2>1. CASE phase # h
    BY <1>7, <2>1, ZenonT(60) DEF Opened, WhenLate
  <2>2. CASE phase = h /\ disallowed
    BY <1>7, <2>2, ZenonT(60) DEF Opened
  <2>3. CASE phase = h /\ ~disallowed
    <3>1. /\ After[h] \in {"stagehand", "playwright", "routes", "setup"} /\ phase' = After[h]
          /\ closeStage = "no" /\ UNCHANGED <<closeStage, paidFacts, closeErrors, releasedEarly>>
      BY <1>7, <2>3 DEF Opened, After
    <3>2. /\ handle' = [k \in Handles |->
               IF k = h THEN "open" ELSE IF k = After[h] /\ ~disallowed THEN "opening" ELSE handle[k]]
          /\ holding' = holding \cup {h}
      BY <1>7, <2>3 DEF Opened
    <3>3. /\ handle' \in [Handles -> {"none", "opening", "open", "late", "closed"}]
          /\ holding' \subseteq Handles
      BY <1>7, <3>2
    <3>4. HandlesAreKnown'
      BY <3>2
    <3> QED BY <3>1, <3>3, <3>4
  <2> QED BY <2>1, <2>2, <2>3
<1>8. ASSUME NEW h \in Handles, LateHandleCloses(h) PROVE ControlledInvariant'
  BY <1>8 DEF LateHandleCloses
<1>9. CASE AbortRun
  BY <1>9 DEF AbortRun
<1>10. CASE PaidEnds
  BY <1>10 DEF PaidEnds
<1>11. CASE AskModel
  BY <1>11 DEF AskModel
<1>12. CASE ModelAnswers
  BY <1>12 DEF ModelAnswers
<1>13. CASE CloseExecution
  BY <1>13 DEF CloseExecution
<1>14. CASE DrainCalls
  BY <1>14 DEF DrainCalls, ReleaseRemote
<1>15. CASE CloseHandles
  BY <1>15, ZenonT(60) DEF CloseHandles
<1>16. CASE ReleaseAtLast
  BY <1>16 DEF ReleaseAtLast, ReleaseRemote
<1>17. CASE DeleteArchive
  BY <1>17 DEF DeleteArchive
<1>18. CASE UNCHANGED controlledVars
  BY <1>18 DEF controlledVars
<1> QED BY <1>1, <1>2, <1>3, <1>4, <1>5, <1>6, <1>7, <1>8, <1>9, <1>10, <1>11, <1>12, <1>13, <1>14, <1>15, <1>16, <1>17, <1>18 DEF ControlledNext, ControlledStart, ExecutionStep, CleanupStep

(* A cleanup without an error leaves no session, no extension and nothing  *)
(* open, and a session whose id was learned is known to the database:      *)
(* PaidBrowserAccounted.                                                   *)
THEOREM PaidBrowserIsAccounted == ControlledSpec => []PaidBrowserAccounted
<1>1. ControlledInit => ControlledInvariant
  BY DEF ControlledInit, ControlledInvariant, ControlledTypes, SessionIsKnown, HandlesAreKnown,
         CleanupFollowsStartup, CleanupSoFar, Handles
<1>2. ControlledInvariant => PaidBrowserAccounted
  BY SMTT(60) DEF ControlledInvariant, SessionIsKnown, CleanupSoFar, PaidBrowserAccounted
<1> QED BY <1>1, <1>2, ControlledStepKeeps, PTL DEF ControlledSpec
-----------------------------------------------------------------------------
(* NativeBrowser.  What the startup can still do depends on where it is.   *)
StartupKnows ==
  /\ boot = "upload" => /\ ending = "no" /\ ~allocated /\ allocation = "none"
                        /\ sdk = "none" /\ control = "none" /\ network = "none"
  /\ boot \in {"upload", "allocate"} => ~sessionRead
  /\ boot = "allocate" => allocated
  /\ ~allocated => ~sessionRead /\ allocation = "none"
ConnectionIsHeld ==
  /\ cdp = "connecting" /\ ending = "no" => boot = "attach"
  /\ cdp = "attached" \/ control = "attached" => playwright
EndingStages ==
  {"no", "drain", "metrics", "release", "sdk", "terminate", "port", "attachments", "extension", "done"}

(* What each step of close() has done, when it had nothing to complain of. *)
EndingSoFar ==
  ~faulted =>
    /\ ending \in {"sdk", "terminate", "attachments", "extension", "done"} =>
         IF sessionRead THEN allocation = "over" ELSE ~allocated
    /\ ending \in {"attachments", "extension", "done"} =>
         sdk \notin {"serving", "spawning", "running"} /\ port # "open"
    /\ ending \in {"extension", "done"} =>
         cdp # "attached" /\ control # "attached" /\ network # "installed"
    /\ ending = "done" => uploadedZip # "kept"

NativeBrowserInvariant ==
  /\ faulted \in BOOLEAN /\ allocated \in BOOLEAN /\ sessionRead \in BOOLEAN
  /\ ending \in EndingStages
  /\ StartupKnows /\ ConnectionIsHeld /\ EndingSoFar

LEMMA BrowserStepKeeps ==
  NativeBrowserInvariant /\ [BrowserNext]_browserStateVars => NativeBrowserInvariant'
<1> SUFFICES ASSUME NativeBrowserInvariant, [BrowserNext]_browserStateVars PROVE NativeBrowserInvariant'
  OBVIOUS
<1> USE DEF NativeBrowserInvariant, StartupKnows, ConnectionIsHeld, EndingStages, EndingSoFar, MayProceed,
            Closes, GiveUpBoot, Proceed, startupFacts, attachments, threadVars, closeFacts, closeVars
<1>1. CASE Uploaded
  BY <1>1 DEF Uploaded
<1>2. CASE Allocated
  BY <1>2 DEF Allocated
<1>3. CASE Referenced
  BY <1>3 DEF Referenced
<1>4. CASE ReadBackSession
  BY <1>4 DEF ReadBackSession
<1>5. CASE Connected
  BY <1>5 DEF Connected, LateConnection
<1>6. CASE LateCloses
  BY <1>6 DEF LateCloses
<1>7. CASE Bootstrapped
  BY <1>7 DEF Bootstrapped
<1>8. CASE ControlAttaches
  BY <1>8 DEF ControlAttaches
<1>9. CASE Attested
  BY <1>9 DEF Attested
<1>10. CASE NetworkInstalled
  BY <1>10 DEF NetworkInstalled
<1>11. CASE Navigated
  BY <1>11 DEF Navigated
<1>12. CASE Published
  BY <1>12 DEF Published
<1>13. CASE WaitFails
  BY <1>13 DEF WaitFails, Waits
<1>14. CASE AttestFails
  BY <1>14 DEF AttestFails
<1>15. CASE Thrown
  BY <1>15 DEF Thrown
<1>16. CASE Listening
  BY <1>16 DEF Listening
<1>17. CASE ThreadStarts
  BY <1>17 DEF ThreadStarts, Stopping, LoseConnection
<1>18. CASE ReadMetadata
  BY <1>18 DEF ReadMetadata
<1>19. CASE MetadataExpires
  BY <1>19 DEF MetadataExpires
<1>20. CASE ThreadAnswers
  BY <1>20 DEF ThreadAnswers, LoseConnection, Stopping, BootCommands, StepAfter
<1>21. CASE ThreadDies
  BY <1>21 DEF ThreadDies, LoseConnection, Stopping
<1>22. ASSUME NEW command \in BootCommands, Command(command) PROVE NativeBrowserInvariant'
  BY <1>22 DEF Command, Post
<1>23. CASE Extract
  BY <1>23 DEF Extract, Post
<1>24. CASE CloseDriver
  BY <1>24 DEF CloseDriver
<1>25. CASE Abort
  BY <1>25 DEF Abort
<1>26. CASE Fault
  BY <1>26 DEF Fault, CanFault
<1>27. CASE BrowserEnds
  BY <1>27 DEF BrowserEnds
<1>28. CASE Drain
  BY <1>28 DEF Drain, Moves, Collects
<1>29. CASE Metrics
  BY <1>29 DEF Metrics, Moves, Collects, Post
<1>30. CASE ReleaseSession
  <2>1. CASE ~sessionRead
    BY <1>30, <2>1 DEF ReleaseSession, Moves, Collects
  <2>2. CASE sessionRead
    <3>1. PICK proved \in BOOLEAN, clean \in BOOLEAN :
            /\ clean => proved
            /\ allocation' \in IF proved THEN {"over"} ELSE {allocation, "over"}
            /\ faulted' = (faulted \/ ~clean)
      BY <1>30, <2>2 DEF ReleaseSession, Collects
    <3>2. /\ ending = "release" /\ ending' = "sdk"
          /\ UNCHANGED <<boot, uploadedZip, allocated, sessionRead, attachments, threadVars>>
      BY <1>30 DEF ReleaseSession, Moves
    <3>3. CASE clean
      BY <2>2, <3>1, <3>2, <3>3
    <3>4. CASE ~clean
      BY <2>2, <3>1, <3>2, <3>4
    <3> QED BY <3>3, <3>4
  <2> QED BY <2>1, <2>2
<1>31. CASE RejectPending
  BY <1>31 DEF RejectPending, Moves
<1>32. CASE Terminate
  BY <1>32 DEF Terminate
<1>33. CASE ClosePort
  <2>1. /\ ending = "terminate" /\ sdk \notin {"serving", "spawning", "running"}
        /\ UNCHANGED <<boot, allocated, allocation, sessionRead, uploadedZip, attachments, sdk>>
    BY <1>33 DEF ClosePort
  <2>2. CASE ending' = "attachments" /\ port' # "open" /\ faulted' = faulted
    BY <2>1, <2>2
  <2>3. CASE ending' = "extension" /\ faulted' = TRUE
    BY <2>1, <2>3
  <2> QED BY <1>33, <2>2, <2>3 DEF ClosePort
<1>34. CASE CloseAttachments
  BY <1>34 DEF CloseAttachments, Moves, Collects
<1>35. CASE CloseResources
  BY <1>35 DEF CloseResources, Moves, Collects
<1>36. CASE UNCHANGED browserStateVars
  BY <1>36 DEF browserStateVars
<1> QED BY <1>1, <1>2, <1>3, <1>4, <1>5, <1>6, <1>7, <1>8, <1>9, <1>10, <1>11, <1>12, <1>13, <1>14, <1>15, <1>16, <1>17, <1>18, <1>19, <1>20, <1>21, <1>22, <1>23, <1>24, <1>25, <1>26, <1>27, <1>28, <1>29, <1>30, <1>31, <1>32, <1>33, <1>34, <1>35, <1>36 DEF BrowserNext, BootStep, SdkStep, RunStep, EndStep

(* A cleanup that reports no error leaves no session, thread, port,        *)
(* attachment or extension, whatever the startup was at when it began:     *)
(* CleanCloseIsComplete.                                                   *)
THEOREM CleanCloseLeavesNothing == BrowserSpec => []CleanCloseIsComplete
<1>1. BrowserInit => NativeBrowserInvariant
  BY DEF BrowserInit, NativeBrowserInvariant, StartupKnows, ConnectionIsHeld, EndingStages, EndingSoFar
<1>2. NativeBrowserInvariant => CleanCloseIsComplete
  BY DEF NativeBrowserInvariant, StartupKnows, EndingSoFar, CleanCloseIsComplete
<1> QED BY <1>1, <1>2, BrowserStepKeeps, PTL DEF BrowserSpec
-----------------------------------------------------------------------------
(* NativeResource.  What a row, an entry, the manager or a recovery names  *)
(* exists at the provider; only the first lease, while it lasts, may ask   *)
(* for a session, and the row says so before it does; a row that speaks of *)
(* a deletion names the session, or there never will be one.               *)
Resources == [state : States \cup {"absent"}, ext : BOOLEAN, alloc : BOOLEAN, ses : BOOLEAN]
Positions == {"idle", "claimed", "read", "decide", "check", "report", "gone"}
Stages == {"start", "intent", "uploading", "uploaded", "allocated", "creating", "created",
           "running", "failed", "gone"}

Tasks == [pc : Positions, resource : Resources, proof : BOOLEAN, found : BOOLEAN, sure : BOOLEAN,
          removed : BOOLEAN]
RowsTyped == snapshot \in Resources /\ journal \in SUBSET Resources
RestTyped ==
  /\ generation \in Nat \ {0} /\ owner \in {0, generation} /\ cancelAsked \in BOOLEAN
  /\ launch \in {"open", "quarantined", "settled"} /\ reference \in BOOLEAN
  /\ extension \in {"none", "exists", "deleted"} /\ cloudSession \in {"none", "running", "retired"}
  /\ uploading \in BOOLEAN /\ creating \in BOOLEAN /\ deleting \in BOOLEAN
  /\ manager \in Resources /\ journalFailed \in BOOLEAN /\ cleanup \in BOOLEAN
  /\ startup \in Stages /\ attempted \in BOOLEAN /\ sessionKnown \in BOOLEAN
  /\ closing \in {"no", "reading", "read", "deleting", "done"}
  /\ remoteEnded \in BOOLEAN /\ released \in BOOLEAN
  /\ recovery \in [Recoverers -> Tasks]
NativeTypes == RowsTyped /\ RestTyped
LeasesFollow ==
  /\ \A g \in Recoverers : Task(g).pc # "idle" => g <= generation
  /\ launch = "settled" => owner = 0
(* What is named exists. *)
NeverUploaded == extension = "none" /\ ~uploading /\ startup \in {"failed", "gone"}
Named(r) == (r.ext => extension # "none") /\ (r.ses => cloudSession # "none")
Honest(r) ==
  /\ Named(r)
  /\ r.state = "deleted" => extension = "deleted"
  /\ r.state = "not_dispatched" => NeverUploaded
RowsAreHonest == Honest(snapshot) /\ \A r \in journal : Named(r)
NothingIsInvented ==
  /\ Honest(manager) /\ \A g \in Recoverers : Honest(Task(g).resource)
  /\ deleting => extension # "none"
  /\ released => cloudSession = "retired"
  /\ \A g \in Recoverers : Task(g).sure => cloudSession = "retired"
(* The startup asks for each thing once, after the row says that it will.  *)
AskedOnce ==
  /\ extension # "none" => ~uploading
  /\ cloudSession # "none" => ~creating
  /\ ~attempted => ~creating /\ cloudSession = "none"
  /\ startup \in {"creating", "created"} => attempted
  /\ startup \in {"start", "intent"} => extension = "none" /\ ~uploading
  /\ startup \in {"start", "intent", "uploading", "uploaded", "allocated"} => ~attempted
  /\ startup \in {"uploaded", "allocated", "creating", "created", "running"} =>
       manager.state \notin {"absent", "upload_intent"}
  /\ manager.state \in {"absent", "upload_intent"} /\ startup \notin {"uploading", "gone"} =>
       extension = "none" /\ ~uploading
  /\ \A g \in Recoverers : Task(g).resource.state = "absent" => Task(g).resource = Absent
  /\ snapshot.state = "absent" => snapshot = Absent /\
       startup \in {"start", "failed", "gone"} /\ extension = "none" /\ ~uploading
  /\ closing # "no" => startup \in {"failed", "creating", "created", "running", "gone"}
AllocationIsRecorded ==
  /\ attempted \/ startup = "allocated" => snapshot.alloc /\ manager.alloc
  /\ \A g \in Recoverers :
       Task(g).pc \in {"read", "decide", "check"} /\ ~Task(g).resource.alloc => ~attempted
NoMoreSessions == ~attempted /\ (owner # 1 \/ closing # "no")
DeletionNamesAll ==
  snapshot.state \in {"delete_intent", "deleted", "delete_unconfirmed"} =>
    snapshot.ext /\ (snapshot.ses \/ NoMoreSessions)

NativeInvariant ==
  /\ NativeTypes /\ LeasesFollow /\ RowsAreHonest /\ NothingIsInvented /\ AskedOnce
  /\ AllocationIsRecorded /\ DeletionNamesAll /\ SettledIsClean

(* mergeNativeResource(): what an accepted record makes of the row. *)
LEMMA MergeEffect ==
  ASSUME NEW old \in Resources, NEW r \in Resources, old.state # "absent", r.state # "absent",
         Mergeable(old, r), NEW m, m = Merged(old, r)
  PROVE  /\ m \in Resources /\ m.state \in States
         /\ m.state = r.state \/ m.state = "quarantined"
         /\ m.ext = (old.ext \/ r.ext) /\ m.alloc = r.alloc /\ m.ses = (old.ses \/ r.ses)
         /\ old.state = "deleted" => m.state = "deleted"
         /\ m.state \in {"deleted", "delete_unconfirmed"} =>
              old.state \in {"delete_intent", "deleted", "delete_unconfirmed"}
         /\ m.state \in {"delete_intent", "deleted", "delete_unconfirmed"} => m.ext
         /\ old.alloc => r.alloc \/ r.state = "uploaded"
<1>1. /\ m.state = IF old.state = "quarantined" /\ r.state = "uploaded" THEN "quarantined" ELSE r.state
      /\ m.ext = (old.ext \/ r.ext) /\ m.alloc = r.alloc /\ m.ses = (old.ses \/ r.ses)
  BY DEF Merged
<1>2. /\ m.state \in Transitions[old.state]
      /\ old.alloc /\ ~m.alloc => old.state = "allocated" /\ m.state = "uploaded"
      /\ m.state \in {"delete_intent", "deleted", "delete_unconfirmed"} => m.ext
  BY DEF Mergeable
<1>3. old.state \in States /\ r.state \in States
  BY DEF Resources
<1>4. m.state \in States
  BY <1>1, <1>3 DEF States
<1>5. m \in Resources
  BY <1>1, <1>4 DEF Merged, Resources
<1>6. /\ old.state = "deleted" => m.state = "deleted"
      /\ m.state \in {"deleted", "delete_unconfirmed"} =>
              old.state \in {"delete_intent", "deleted", "delete_unconfirmed"}
  BY <1>2, <1>3 DEF Transitions, States
<1> QED BY <1>1, <1>2, <1>4, <1>5, <1>6

(* What any write of the journal leaves as it must be. *)
Deletions == {"delete_intent", "deleted", "delete_unconfirmed"}
RowKept ==
  /\ snapshot' \in Resources /\ journal' \in SUBSET Resources
  /\ Honest(snapshot') /\ \A e \in journal' : Named(e)
  /\ snapshot'.state = "absent" => snapshot' = Absent /\ snapshot = Absent
  /\ snapshot'.state \in Deletions => snapshot'.ext /\ (snapshot'.ses \/ NoMoreSessions)
  /\ snapshot.state = "deleted" => snapshot'.state = "deleted"

LEMMA RowUntouched ==
  ASSUME NativeInvariant, UNCHANGED snapshot,
         journal' \in SUBSET Resources, \A e \in journal' : Named(e)
  PROVE  RowKept /\ (snapshot.alloc => snapshot'.alloc)
BY DEF NativeInvariant, NativeTypes, RowsTyped, RowsAreHonest, AskedOnce, DeletionNamesAll, RowKept, Deletions

LEMMA RecordKeeps ==
  ASSUME NativeInvariant, NEW g, NEW r \in Resources, NEW ok \in BOOLEAN, Record(g, r, ok),
         r.state # "absent", Honest(r), r.state = "delete_intent" => r.ses \/ NoMoreSessions
  PROVE  /\ RowKept
         /\ snapshot.alloc /\ (r.alloc \/ r.state # "uploaded") => snapshot'.alloc
         /\ ok => /\ snapshot'.alloc = r.alloc /\ snapshot'.state # "absent"
                  /\ owner = g /\ (r.ses => snapshot'.ses)
<1>1. CASE ok /\ Accepted(g, r) /\ snapshot = Absent
  <2>1. snapshot' = Intent /\ r = Intent /\ journal' = journal \cup {Intent} /\ owner = g
    BY <1>1 DEF Record, Accepted, Save
  <2>2. Intent \in Resources /\ Intent.state = "upload_intent" /\ ~Intent.ext /\ ~Intent.ses
    BY DEF Intent, Resource, Resources, States
  <2>3. snapshot.state # "deleted" /\ ~snapshot.alloc
    BY <1>1 DEF Absent, Intent, Resource
  <2> QED BY <1>1, <2>1, <2>2, <2>3
          DEF NativeInvariant, NativeTypes, RowsTyped, RowsAreHonest, RowKept, Honest, Named, Deletions
<1>2. CASE ok /\ Accepted(g, r) /\ snapshot # Absent
  <2> DEFINE m == Merged(snapshot, r)
  <2>1. snapshot' = m /\ journal' = journal \cup {m} /\ owner = g /\ Mergeable(snapshot, r)
    BY <1>2 DEF Record, Accepted, Save
  <2>2. snapshot \in Resources /\ snapshot.state # "absent"
    BY <1>2 DEF NativeInvariant, NativeTypes, RowsTyped, AskedOnce
  <2>3. /\ m \in Resources /\ m.state \in States
        /\ m.state = r.state \/ m.state = "quarantined"
        /\ m.ext = (snapshot.ext \/ r.ext) /\ m.alloc = r.alloc /\ m.ses = (snapshot.ses \/ r.ses)
        /\ snapshot.state = "deleted" => m.state = "deleted"
        /\ m.state \in {"deleted", "delete_unconfirmed"} => snapshot.state \in Deletions
        /\ m.state \in Deletions => m.ext
        /\ snapshot.alloc => r.alloc \/ r.state = "uploaded"
    BY <2>1, <2>2, MergeEffect DEF Deletions
  <2> HIDE DEF m
  <2>4. Honest(m) /\ Named(m)
    BY <2>3 DEF NativeInvariant, RowsAreHonest, Honest, Named
  <2>5. m.state \in Deletions => m.ses \/ NoMoreSessions
    BY <2>3 DEF NativeInvariant, DeletionNamesAll, Deletions
  <2>6. m.state # "absent"
    BY <2>3 DEF States
  <2> QED BY <2>1, <2>3, <2>4, <2>5, <2>6
          DEF NativeInvariant, NativeTypes, RowsTyped, RowsAreHonest, RowKept
<1>3. CASE ~(ok /\ Accepted(g, r))
  <2>1. ~ok /\ UNCHANGED snapshot
    BY <1>3 DEF Record, journalVars
  <2>2. CASE journal' = journal
    BY <2>1, <2>2, RowUntouched DEF NativeInvariant, NativeTypes, RowsTyped, RowsAreHonest
  <2>3. CASE journal' # journal
    <3> DEFINE named == {e \in journal \cup {snapshot} : e.ext \/ e.ses}
               d == Discovered(Gathered, r)
    <3>1. journal' = journal \cup {d}
      BY <2>1, <2>3 DEF Record, journalVars
    <3>2. /\ d.ext = ((\E e \in named : e.ext) \/ r.ext) /\ d.ses = ((\E e \in named : e.ses) \/ r.ses)
          /\ d.alloc = ((\E e \in named : e.alloc) \/ r.alloc) /\ d.state = "quarantined"
      BY DEF Discovered, Gathered, Resource
    <3>3. d \in Resources
      <4>1. "quarantined" \in States
        BY DEF States
      <4>2. (Gathered.ext \/ r.ext) \in BOOLEAN /\ (Gathered.alloc \/ r.alloc) \in BOOLEAN
            /\ (Gathered.ses \/ r.ses) \in BOOLEAN
        OBVIOUS
      <4> QED BY Zenon, <4>1, <4>2 DEF Discovered, Resource, Resources
    <3>4. Named(d)
      BY <3>2 DEF NativeInvariant, RowsAreHonest, Honest, Named
    <3> HIDE DEF d
    <3> QED BY <2>1, <3>1, <3>3, <3>4, RowUntouched DEF NativeInvariant, NativeTypes, RowsTyped, RowsAreHonest
  <2> QED BY <2>1, <2>2, <2>3
<1> QED BY <1>1, <1>2, <1>3

(* reconcileNativeResource(): a deleted extension stays deleted, since the *)
(* entries name nothing that its row does not.                             *)
LEMMA ReconcileKeeps ==
  ASSUME NativeInvariant, snapshot # Absent, NEW r, r = Reconciled(snapshot)
  PROVE  /\ r \in Resources /\ Honest(r) /\ Named(r) /\ (snapshot.alloc => r.alloc)
         /\ r.state \in {snapshot.state, "quarantined"}
         /\ snapshot.state = "deleted" => r.state = "deleted"
         /\ r.state \in Deletions => r.ext /\ (r.ses \/ NoMoreSessions)
         /\ r.state # "quarantined" => r = snapshot
         /\ r.state # "absent"
<1> DEFINE more == {e \in journal : NamesMore(snapshot, e)}
<1>0. snapshot \in Resources /\ snapshot.state # "absent"
  BY DEF NativeInvariant, NativeTypes, RowsTyped, AskedOnce
<1>1. CASE more = {}
  <2>1. r = snapshot
    BY <1>1 DEF Reconciled, Folded
  <2> QED BY <1>0, <2>1 DEF NativeInvariant, NativeTypes, RowsTyped, RowsAreHonest, Honest, DeletionNamesAll, Deletions
<1>2. CASE more # {}
  <2>1. /\ r.state = "quarantined" /\ r.ext = (snapshot.ext \/ \E e \in more : e.ext)
        /\ r.alloc = (snapshot.alloc \/ \E e \in more : e.alloc)
        /\ r.ses = (snapshot.ses \/ \E e \in more : e.ses)
    BY <1>2 DEF Reconciled, Folded, Resource
  <2>2. r \in Resources
    <3>1. "quarantined" \in States
      BY DEF States
    <3> DEFINE x == snapshot.ext \/ \E e \in more : e.ext
               y == snapshot.alloc \/ \E e \in more : e.alloc
               z == snapshot.ses \/ \E e \in more : e.ses
    <3>2. x \in BOOLEAN /\ y \in BOOLEAN /\ z \in BOOLEAN
      OBVIOUS
    <3>3. r = [state |-> "quarantined", ext |-> x, alloc |-> y, ses |-> z]
      BY <1>2 DEF Reconciled, Folded, Resource
    <3> HIDE DEF more, x, y, z
    <3>4. [state |-> "quarantined", ext |-> x, alloc |-> y, ses |-> z] \in Resources
      BY Zenon, <3>1, <3>2 DEF Resources
    <3> QED BY <3>3, <3>4
  <2>3. Honest(r) /\ Named(r)
    BY <2>1 DEF NativeInvariant, RowsAreHonest, Honest, Named
  <2>4. snapshot.state # "deleted"
    <3> SUFFICES ASSUME snapshot.state = "deleted" PROVE FALSE
      OBVIOUS
    <3>1. snapshot.ext /\ (snapshot.ses \/ ~attempted)
      BY DEF NativeInvariant, DeletionNamesAll, NoMoreSessions
    <3>2. PICK e \in journal : e.ses /\ ~snapshot.ses
      BY <1>2, <3>1 DEF NamesMore
    <3>3. cloudSession # "none"
      BY <3>2 DEF NativeInvariant, RowsAreHonest, Named
    <3> QED BY <3>1, <3>2, <3>3 DEF NativeInvariant, AskedOnce
  <2> QED BY <2>1, <2>2, <2>3, <2>4 DEF Deletions
<1> QED BY <1>1, <1>2

LEMMA ReconcileIsKept ==
  ASSUME NativeInvariant, Reconcile
  PROVE  RowKept /\ (snapshot.alloc => snapshot'.alloc)
<1>1. CASE snapshot = Absent
  BY <1>1, RowUntouched DEF Reconcile, journalVars, NativeInvariant, NativeTypes, RowsTyped, RowsAreHonest
<1>2. CASE snapshot # Absent
  <2> DEFINE r == Reconciled(snapshot)
  <2>1. snapshot' = r /\ journal' = journal \cup {r}
    BY <1>2 DEF Reconcile, Save
  <2>2. /\ r \in Resources /\ Honest(r) /\ Named(r) /\ (snapshot.alloc => r.alloc)
        /\ r.state \in {snapshot.state, "quarantined"}
        /\ snapshot.state = "deleted" => r.state = "deleted"
        /\ r.state \in Deletions => r.ext /\ (r.ses \/ NoMoreSessions)
        /\ r.state # "absent"
    BY <1>2, ReconcileKeeps
  <2> HIDE DEF r
  <2> QED BY <2>1, <2>2 DEF RowKept, NativeInvariant, NativeTypes, RowsTyped, RowsAreHonest
<1> QED BY <1>1, <1>2

(* What happened at the provider stays so. *)
World ==
  /\ extension # "none" => extension' # "none"
  /\ extension = "deleted" => extension' = "deleted"
  /\ cloudSession # "none" => cloudSession' # "none"
  /\ cloudSession = "retired" => cloudSession' = "retired"
  /\ NeverUploaded => NeverUploaded'
  /\ NoMoreSessions => NoMoreSessions'
  /\ attempted => attempted'

LEMMA WorldGoesOn == NativeInvariant /\ [NativeNext]_nativeVars => World
<1> SUFFICES ASSUME NativeInvariant, [NativeNext]_nativeVars PROVE World
  OBVIOUS
<1> USE DEF NativeInvariant, NativeTypes, RestTyped, World, NeverUploaded, NoMoreSessions, Active,
            leaseVars, providerVars, managerVars, startupVars, closingVars, restOfRecovery
<1>1. CASE StartupStep
  BY <1>1 DEF StartupStep, NoteIntent, Upload, UploadAnswers, NoteAllocation, Create, CreateAnswers, Refer
<1>2. CASE CloseStep
  <2>1. CASE BeginClose
    BY <2>1 DEF BeginClose
  <2>4. CASE ReadBack
    BY <2>4 DEF ReadBack
  <2>5. CASE DeleteAnswers
    BY <2>5 DEF DeleteAnswers
  <2>2. CASE CloseManager
    BY <2>2 DEF CloseManager
  <2>3. CASE Finish
    BY <2>3 DEF Finish, Settled, Deferred
  <2> QED BY <1>2, <2>1, <2>2, <2>3, <2>4, <2>5 DEF CloseStep
<1>3. CASE Crash \/ LeaseExpires \/ CancelJob
  BY <1>3 DEF Crash, LeaseExpires, CancelJob
<1>4. CASE RemoteStep
  BY <1>4 DEF RemoteStep, NothingIsInvented, AskedOnce
<1>5. ASSUME NEW g \in Recoverers, ClaimRecovery(g) \/ RecoveryStep(g) \/ CrashRecovery(g) PROVE World
  <2>1. CASE ClaimRecovery(g)
    BY <2>1 DEF ClaimRecovery
  <2>2. CASE ~ClaimRecovery(g)
    BY <1>5, <2>2 DEF RecoveryStep, Begin, Read, Adopt, Decide, Check, Report, CrashRecovery, Settled, Deferred
  <2> QED BY <2>1, <2>2
<1>6. CASE UNCHANGED nativeVars
  BY <1>6 DEF nativeVars
<1> QED BY <1>1, <1>2, <1>3, <1>4, <1>5, <1>6 DEF NativeNext

LEMMA RowsStay ==
  ASSUME RowKept, World
  PROVE  RowsTyped' /\ RowsAreHonest' /\ DeletionNamesAll'
<1>1. RowsTyped'
  BY DEF RowKept, RowsTyped
<1>2. RowsAreHonest'
  BY DEF RowKept, RowsAreHonest, World, Honest, Named
<1>3. DeletionNamesAll'
  BY DEF RowKept, DeletionNamesAll, World, Deletions
<1> QED BY <1>1, <1>2, <1>3

(* What remains to be shown of a step. *)
Rest == RestTyped /\ LeasesFollow /\ NothingIsInvented /\ AskedOnce /\ AllocationIsRecorded /\ SettledIsClean
DeletedStays == snapshot.state = "deleted" => snapshot'.state = "deleted"
LEMMA StepIsKept ==
  ASSUME RowKept, World, Rest'
  PROVE  NativeInvariant' /\ DeletedStays
BY RowsStay DEF Rest, NativeInvariant, NativeTypes, RowKept, DeletedStays

LEMMA NoteKeeps ==
  ASSUME NativeInvariant, NEW r \in Resources, NEW ok \in BOOLEAN, Note(r, ok),
         r.state # "absent", Honest(r), r.state = "delete_intent" => r.ses \/ NoMoreSessions
  PROVE  /\ RowKept /\ manager' = r /\ journalFailed' \in BOOLEAN
         /\ snapshot.alloc /\ (r.alloc \/ r.state # "uploaded") => snapshot'.alloc
         /\ snapshot'.state = "absent" => snapshot' = Absent /\ snapshot = Absent /\ ~ok
         /\ ok => snapshot'.alloc = r.alloc
<1>1. Record(1, r, ok) /\ manager' = r /\ journalFailed' \in BOOLEAN
  BY DEF Note, NativeInvariant, NativeTypes, RestTyped
<1> QED BY <1>1, RecordKeeps DEF RowKept

LEMMA StartupKeeps ==
  ASSUME NativeInvariant, World, StartupStep
  PROVE  RowKept /\ Rest'
<1> USE DEF NativeInvariant, NativeTypes, leaseVars, providerVars, managerVars, startupVars,
            closingVars, journalVars
<1>0. manager \in Resources /\ Honest(manager) /\ snapshot \in Resources
  BY DEF RestTyped, RowsTyped, NothingIsInvented
<1>9. Intent \in Resources /\ Intent.state = "upload_intent" /\ ~Intent.ext /\ ~Intent.alloc /\ ~Intent.ses
      /\ Honest(Intent)
  BY DEF Intent, Resource, Resources, States, Honest, Named
<1>1. CASE NoteIntent
  <2>1. CASE ~Active
    <3>1. RowKept /\ snapshot' = snapshot
      BY <1>1, <2>1, RowUntouched DEF NoteIntent, RowsTyped, RowsAreHonest
    <3>2. Rest'
        <4>11. RestTyped'
          BY <1>1, <2>1, <3>1 DEF NoteIntent, RestTyped, Stages
        <4>12. LeasesFollow'
          BY <1>1, <2>1, <3>1 DEF NoteIntent, LeasesFollow, Task
        <4>13. NothingIsInvented'
          BY <1>1, <2>1, <3>1 DEF NoteIntent, NothingIsInvented, Honest, Named, World, Task
        <4>14. AskedOnce'
          BY <1>1, <2>1, <3>1 DEF NoteIntent, AskedOnce, Task
        <4>15. AllocationIsRecorded'
          BY <1>1, <2>1, <3>1 DEF NoteIntent, AllocationIsRecorded, Task, AskedOnce
        <4>16. SettledIsClean'
          BY <1>1, <2>1, <3>1 DEF NoteIntent, SettledIsClean, Active, LeasesFollow, AskedOnce
        <4> QED BY <4>11, <4>12, <4>13, <4>14, <4>15, <4>16 DEF Rest
    <3> QED BY <3>1, <3>2
  <2>2. CASE Active
    <3>1. PICK ok \in BOOLEAN : Note(Intent, ok) /\ startup' = IF ok THEN "intent" ELSE "failed"
      BY <1>1, <2>2 DEF NoteIntent
    <3>2. /\ RowKept /\ manager' = Intent /\ journalFailed' \in BOOLEAN
          /\ snapshot.alloc => snapshot'.alloc
          /\ snapshot'.state = "absent" => snapshot' = Absent /\ snapshot = Absent /\ ~ok
      BY <1>9, <3>1, NoteKeeps
    <3>3. Rest'
        <4>11. RestTyped'
          BY <1>1, <1>9, <3>1, <3>2 DEF NoteIntent, RestTyped, Stages
        <4>12. LeasesFollow'
          BY <1>1, <1>9, <3>1, <3>2 DEF NoteIntent, LeasesFollow, Task
        <4>13. NothingIsInvented'
          BY <1>1, <1>9, <3>1, <3>2 DEF NoteIntent, NothingIsInvented, Honest, Named, World, Task
        <4>14. AskedOnce'
          BY <1>1, <1>9, <3>1, <3>2 DEF NoteIntent, AskedOnce, Task
        <4>15. AllocationIsRecorded'
          BY <1>1, <1>9, <3>1, <3>2 DEF NoteIntent, AllocationIsRecorded, Task, AskedOnce
        <4>16. SettledIsClean'
          BY <1>1, <1>9, <3>1, <3>2 DEF NoteIntent, SettledIsClean, Active, LeasesFollow, AskedOnce
        <4> QED BY <4>11, <4>12, <4>13, <4>14, <4>15, <4>16 DEF Rest
    <3> QED BY <3>2, <3>3
  <2> QED BY <2>1, <2>2
<1>2. CASE Upload
  <2>1. RowKept /\ snapshot' = snapshot
    BY <1>2, RowUntouched DEF Upload, RowsTyped, RowsAreHonest
  <2>3. startup' \in {"uploading", "failed"} /\ uploading' \in BOOLEAN
    BY <1>2 DEF Upload, RestTyped
  <2>2. Rest'
      <3>11. RestTyped'
        BY <1>2, <2>3 DEF Upload, RestTyped, Stages
      <3>12. LeasesFollow'
        BY <1>2, <2>1 DEF Upload, LeasesFollow, Task
      <3>13. NothingIsInvented'
        BY <1>2, <2>1 DEF Upload, NothingIsInvented, Honest, Named, World, Task
      <3>14. AskedOnce'
        BY <1>2, <2>1 DEF Upload, AskedOnce, Task
      <3>15. AllocationIsRecorded'
        BY <1>2, <2>1 DEF Upload, AllocationIsRecorded, Task, AskedOnce
      <3>16. SettledIsClean'
        BY <1>2, <2>1 DEF Upload, SettledIsClean, Active, LeasesFollow, AskedOnce
      <3> QED BY <3>11, <3>12, <3>13, <3>14, <3>15, <3>16 DEF Rest
  <2> QED BY <2>1, <2>2
<1>3. CASE UploadAnswers
  <2>1. PICK ok \in BOOLEAN, r \in Resources :
          /\ Note(r, ok) /\ r.state \in {"quarantined", "uploaded", "upload_unconfirmed"}
          /\ startup' \in {"failed", "uploaded"} /\ startup' = "uploaded" => r.state = "uploaded"
          /\ r.ses = manager.ses /\ (r.ext => manager.ext \/ extension # "none")
          /\ r.state = "uploaded" => ~cleanup
    <3>1. {"quarantined", "uploaded", "upload_unconfirmed"} \subseteq States
      BY DEF States
    <3>2. (IF cleanup THEN "quarantined" ELSE "uploaded") \in States
          /\ (IF cleanup THEN "quarantined" ELSE "upload_unconfirmed") \in States
      BY <3>1
    <3> DEFINE v == [manager EXCEPT !.state = IF cleanup THEN "quarantined" ELSE "uploaded",
                                    !.ext = TRUE]
               w == [manager EXCEPT !.state = IF cleanup THEN "quarantined" ELSE "upload_unconfirmed"]
    <3>3. /\ v \in Resources /\ v.state = (IF cleanup THEN "quarantined" ELSE "uploaded")
          /\ v.ext /\ v.ses = manager.ses
      BY <1>0, <3>2 DEF Resources, States
    <3>4. /\ w \in Resources /\ w.state = (IF cleanup THEN "quarantined" ELSE "upload_unconfirmed")
          /\ w.ext = manager.ext /\ w.ses = manager.ses
      BY <1>0, <3>2 DEF Resources, States
    <3>5. \/ /\ extension # "none" /\ \E ok \in BOOLEAN : Note(v, ok) /\ startup' = IF ok /\ ~cleanup THEN "uploaded" ELSE "failed"
          \/ \E ok \in BOOLEAN : Note(w, ok) /\ startup' = "failed"
      BY <1>3 DEF UploadAnswers
    <3> HIDE DEF v, w
    <3>6. CASE extension # "none" /\ \E ok \in BOOLEAN : Note(v, ok) /\ startup' = IF ok /\ ~cleanup THEN "uploaded" ELSE "failed"
      <4>1. PICK ok \in BOOLEAN : Note(v, ok) /\ startup' = IF ok /\ ~cleanup THEN "uploaded" ELSE "failed"
        BY <3>6
      <4> QED BY <3>3, <3>6, <4>1
    <3>7. CASE \E ok \in BOOLEAN : Note(w, ok) /\ startup' = "failed"
      BY <3>4, <3>7
    <3> QED BY <3>5, <3>6, <3>7
  <2>2. Honest(r) /\ r.state \notin {"absent", "upload_intent", "delete_intent"}
    BY <1>0, <2>1 DEF Honest, Named
  <2>3. /\ RowKept /\ manager' = r /\ journalFailed' \in BOOLEAN
        /\ snapshot'.state = "absent" => snapshot' = Absent /\ snapshot = Absent
    BY <2>1, <2>2, NoteKeeps
  <2>4. Rest'
      <3>11. RestTyped'
        BY <1>3, <2>1, <2>2, <2>3 DEF UploadAnswers, RestTyped, Stages
      <3>12. LeasesFollow'
        BY <1>3, <2>1, <2>2, <2>3 DEF UploadAnswers, LeasesFollow, Task
      <3>13. NothingIsInvented'
        BY <1>3, <2>1, <2>2, <2>3 DEF UploadAnswers, NothingIsInvented, Honest, Named, World, Task
      <3>14. AskedOnce'
        BY <1>3, <2>1, <2>2, <2>3 DEF UploadAnswers, AskedOnce, Task
      <3>15. AllocationIsRecorded'
        BY <1>3, <2>1, <2>2, <2>3 DEF UploadAnswers, AllocationIsRecorded, Task, AskedOnce
      <3>16. SettledIsClean'
        BY <1>3, <2>1, <2>2, <2>3 DEF UploadAnswers, SettledIsClean, Active, LeasesFollow, AskedOnce
      <3> QED BY <3>11, <3>12, <3>13, <3>14, <3>15, <3>16 DEF Rest
  <2> QED BY <2>3, <2>4
<1>4. CASE NoteAllocation
  <2>1. CASE ~(Active /\ ~cleanup /\ ~journalFailed)
    <3>1. RowKept /\ snapshot' = snapshot
      BY <1>4, <2>1, RowUntouched DEF NoteAllocation, RowsTyped, RowsAreHonest
    <3>2. Rest'
        <4>11. RestTyped'
          BY <1>4, <2>1, <3>1 DEF NoteAllocation, RestTyped, Stages
        <4>12. LeasesFollow'
          BY <1>4, <2>1, <3>1 DEF NoteAllocation, LeasesFollow, Task
        <4>13. NothingIsInvented'
          BY <1>4, <2>1, <3>1 DEF NoteAllocation, NothingIsInvented, Honest, Named, World, Task
        <4>14. AskedOnce'
          BY <1>4, <2>1, <3>1 DEF NoteAllocation, AskedOnce, Task
        <4>15. AllocationIsRecorded'
          BY <1>4, <2>1, <3>1 DEF NoteAllocation, AllocationIsRecorded, Task, AskedOnce
        <4>16. SettledIsClean'
          BY <1>4, <2>1, <3>1 DEF NoteAllocation, SettledIsClean, Active, LeasesFollow, AskedOnce
        <4> QED BY <4>11, <4>12, <4>13, <4>14, <4>15, <4>16 DEF Rest
    <3> QED BY <3>1, <3>2
  <2>2. CASE Active /\ ~cleanup /\ ~journalFailed
    <3> DEFINE r == [manager EXCEPT !.state = "allocated", !.alloc = TRUE]
    <3>1. PICK ok \in BOOLEAN : Note(r, ok) /\ startup' = IF ok THEN "allocated" ELSE "failed"
      BY <1>4, <2>2 DEF NoteAllocation
    <3>9. "allocated" \in States
      BY DEF States
    <3>2. r \in Resources /\ r.state = "allocated" /\ r.alloc /\ r.ext = manager.ext /\ r.ses = manager.ses
      BY <1>0, <3>9 DEF Resources, States
    <3> HIDE DEF r
    <3>3. Honest(r)
      BY <1>0, <3>2 DEF Honest, Named
    <3>4. /\ RowKept /\ manager' = r /\ journalFailed' \in BOOLEAN /\ (ok => snapshot'.alloc)
          /\ snapshot'.state = "absent" => snapshot' = Absent /\ snapshot = Absent
      BY <3>1, <3>2, <3>3, NoteKeeps
    <3>5. Rest'
        <4>11. RestTyped'
          BY <1>4, <3>1, <3>2, <3>3, <3>4 DEF NoteAllocation, RestTyped, Stages
        <4>12. LeasesFollow'
          BY <1>4, <3>1, <3>2, <3>3, <3>4 DEF NoteAllocation, LeasesFollow, Task
        <4>13. NothingIsInvented'
          BY <1>4, <3>1, <3>2, <3>3, <3>4 DEF NoteAllocation, NothingIsInvented, Honest, Named, World, Task
        <4>14. AskedOnce'
          BY <1>4, <3>1, <3>2, <3>3, <3>4 DEF NoteAllocation, AskedOnce, Task
        <4>15. AllocationIsRecorded'
          BY <1>4, <3>1, <3>2, <3>3, <3>4 DEF NoteAllocation, AllocationIsRecorded, Task, AskedOnce
        <4>16. SettledIsClean'
          BY <1>4, <3>1, <3>2, <3>3, <3>4 DEF NoteAllocation, SettledIsClean, Active, LeasesFollow, AskedOnce
        <4> QED BY <4>11, <4>12, <4>13, <4>14, <4>15, <4>16 DEF Rest
    <3> QED BY <3>4, <3>5
  <2> QED BY <2>1, <2>2
<1>5. CASE Create
  <2>1. CASE Active
    <3>1. RowKept /\ snapshot' = snapshot
      BY <1>5, <2>1, RowUntouched DEF Create, RowsTyped, RowsAreHonest
    <3>2. Rest'
        <4>11. RestTyped'
          BY <1>5, <2>1, <3>1 DEF Create, RestTyped, Stages
        <4>12. LeasesFollow'
          BY <1>5, <2>1, <3>1 DEF Create, LeasesFollow, Task
        <4>13. NothingIsInvented'
          BY <1>5, <2>1, <3>1 DEF Create, NothingIsInvented, Honest, Named, World, Task
        <4>14. AskedOnce'
          BY <1>5, <2>1, <3>1 DEF Create, AskedOnce, Task
        <4>15. AllocationIsRecorded'
          BY <1>5, <2>1, <3>1 DEF Create, AllocationIsRecorded, Task, AskedOnce, LeasesFollow, Active, RestTyped, Recoverers
        <4>16. SettledIsClean'
          BY <1>5, <2>1, <3>1 DEF Create, SettledIsClean, Active, LeasesFollow, AskedOnce
        <4> QED BY <4>11, <4>12, <4>13, <4>14, <4>15, <4>16 DEF Rest
    <3> QED BY <3>1, <3>2
  <2>2. CASE ~Active
    <3> DEFINE r == [manager EXCEPT !.state = "uploaded", !.alloc = FALSE]
    <3>1. PICK ok \in BOOLEAN : Note(r, ok)
      BY <1>5, <2>2 DEF Create
    <3>9. "uploaded" \in States
      BY DEF States
    <3>2. r \in Resources /\ r.state = "uploaded" /\ r.ext = manager.ext /\ r.ses = manager.ses
      BY <1>0, <3>9 DEF Resources, States
    <3> HIDE DEF r
    <3>3. Honest(r)
      BY <1>0, <3>2 DEF Honest, Named
    <3>4. /\ RowKept /\ manager' = r /\ journalFailed' \in BOOLEAN
          /\ snapshot'.state = "absent" => snapshot' = Absent /\ snapshot = Absent
      BY <3>1, <3>2, <3>3, NoteKeeps
    <3>5. Rest'
        <4>11. RestTyped'
          BY <1>5, <2>2, <3>1, <3>2, <3>3, <3>4 DEF Create, RestTyped, Stages
        <4>12. LeasesFollow'
          BY <1>5, <2>2, <3>1, <3>2, <3>3, <3>4 DEF Create, LeasesFollow, Task
        <4>13. NothingIsInvented'
          BY <1>5, <2>2, <3>1, <3>2, <3>3, <3>4 DEF Create, NothingIsInvented, Honest, Named, World, Task
        <4>14. AskedOnce'
          BY <1>5, <2>2, <3>1, <3>2, <3>3, <3>4 DEF Create, AskedOnce, Task
        <4>15. AllocationIsRecorded'
          BY <1>5, <2>2, <3>1, <3>2, <3>3, <3>4 DEF Create, AllocationIsRecorded, Task, AskedOnce
        <4>16. SettledIsClean'
          BY <1>5, <2>2, <3>1, <3>2, <3>3, <3>4 DEF Create, SettledIsClean, Active, LeasesFollow, AskedOnce
        <4> QED BY <4>11, <4>12, <4>13, <4>14, <4>15, <4>16 DEF Rest
    <3> QED BY <3>4, <3>5
  <2> QED BY <2>1, <2>2
<1>6. CASE CreateAnswers
  <2>1. CASE UNCHANGED <<journalVars, manager, journalFailed, sessionKnown>> /\ startup' = "failed"
    <3>1. RowKept /\ snapshot' = snapshot
      BY <2>1, RowUntouched DEF RowsTyped, RowsAreHonest
    <3>2. Rest'
        <4>11. RestTyped'
          BY <1>6, <2>1, <3>1 DEF CreateAnswers, RestTyped, Stages
        <4>12. LeasesFollow'
          BY <1>6, <2>1, <3>1 DEF CreateAnswers, LeasesFollow, Task
        <4>13. NothingIsInvented'
          BY <1>6, <2>1, <3>1 DEF CreateAnswers, NothingIsInvented, Honest, Named, World, Task
        <4>14. AskedOnce'
          BY <1>6, <2>1, <3>1 DEF CreateAnswers, AskedOnce, Task
        <4>15. AllocationIsRecorded'
          BY <1>6, <2>1, <3>1 DEF CreateAnswers, AllocationIsRecorded, Task, AskedOnce
        <4>16. SettledIsClean'
          BY <1>6, <2>1, <3>1 DEF CreateAnswers, SettledIsClean, Active, LeasesFollow, AskedOnce
        <4> QED BY <4>11, <4>12, <4>13, <4>14, <4>15, <4>16 DEF Rest
    <3> QED BY <3>1, <3>2
  <2>2. CASE ~(UNCHANGED <<journalVars, manager, journalFailed, sessionKnown>> /\ startup' = "failed")
    <3>1. /\ cloudSession # "none" /\ sessionKnown' = TRUE /\ startup = "creating"
          /\ \E ok \in BOOLEAN :
               /\ Note([manager EXCEPT !.ses = TRUE,
                          !.state = IF cleanup THEN "quarantined" ELSE manager.state], ok)
               /\ startup' = IF ok /\ ~cleanup THEN "created" ELSE "failed"
      BY <1>6, <2>2 DEF CreateAnswers
    <3>2. manager.state \in States /\ manager.state # "upload_intent"
      BY <1>0, <3>1 DEF AskedOnce, Resources
    <3>3. (IF cleanup THEN "quarantined" ELSE manager.state) \in States
      BY <3>2 DEF States
    <3> DEFINE v == [manager EXCEPT !.ses = TRUE,
                          !.state = IF cleanup THEN "quarantined" ELSE manager.state]
    <3>9. /\ v \in Resources /\ v.state = (IF cleanup THEN "quarantined" ELSE manager.state)
          /\ v.ext = manager.ext /\ v.alloc = manager.alloc /\ v.ses /\ v.state # "absent"
      BY <1>0, <3>3 DEF Resources, States
    <3>10. PICK k \in BOOLEAN : Note(v, k) /\ startup' = IF k /\ ~cleanup THEN "created" ELSE "failed"
      BY <3>1
    <3> HIDE DEF v
    <3>4. PICK ok \in BOOLEAN, r \in Resources :
            /\ Note(r, ok) /\ startup' \in {"created", "failed"}
            /\ r.state \in {manager.state, "quarantined"} /\ r.ext = manager.ext
            /\ r.alloc = manager.alloc /\ r.ses /\ r.state # "absent"
      BY <3>9, <3>10
    <3>5. Honest(r) /\ r.state # "upload_intent"
      BY <1>0, <3>1, <3>2, <3>4 DEF Honest, Named
    <3>6. manager.alloc
      BY <3>1, <1>6 DEF AllocationIsRecorded, AskedOnce
    <3>7. /\ RowKept /\ manager' = r /\ journalFailed' \in BOOLEAN
          /\ snapshot.alloc => snapshot'.alloc
          /\ snapshot'.state = "absent" => snapshot' = Absent /\ snapshot = Absent
      BY <3>4, <3>5, <3>6, NoteKeeps
    <3>8. Rest'
        <4>11. RestTyped'
          BY <1>6, <3>1, <3>4, <3>5, <3>6, <3>7 DEF CreateAnswers, RestTyped, Stages
        <4>12. LeasesFollow'
          BY <1>6, <3>1, <3>4, <3>5, <3>6, <3>7 DEF CreateAnswers, LeasesFollow, Task
        <4>13. NothingIsInvented'
          BY <1>6, <3>1, <3>4, <3>5, <3>6, <3>7 DEF CreateAnswers, NothingIsInvented, Honest, Named, World, Task
        <4>14. AskedOnce'
          BY <1>6, <3>1, <3>4, <3>5, <3>6, <3>7 DEF CreateAnswers, AskedOnce, Task
        <4>15. AllocationIsRecorded'
          BY <1>6, <3>1, <3>4, <3>5, <3>6, <3>7 DEF CreateAnswers, AllocationIsRecorded, Task, AskedOnce
        <4>16. SettledIsClean'
          BY <1>6, <3>1, <3>4, <3>5, <3>6, <3>7 DEF CreateAnswers, SettledIsClean, Active, LeasesFollow, AskedOnce
        <4> QED BY <4>11, <4>12, <4>13, <4>14, <4>15, <4>16 DEF Rest
    <3> QED BY <3>7, <3>8
  <2> QED BY <2>1, <2>2
<1>7. CASE Refer
  <2>1. RowKept /\ snapshot' = snapshot
    BY <1>7, RowUntouched DEF Refer, RowsTyped, RowsAreHonest
  <2>3. startup' \in {"running", "failed"} /\ reference' \in BOOLEAN
    BY <1>7 DEF Refer, RestTyped
  <2>2. Rest'
      <3>11. RestTyped'
        BY <1>7, <2>3 DEF Refer, RestTyped, Stages
      <3>12. LeasesFollow'
        BY <1>7, <2>1 DEF Refer, LeasesFollow, Task
      <3>13. NothingIsInvented'
        BY <1>7, <2>1 DEF Refer, NothingIsInvented, Honest, Named, World, Task
      <3>14. AskedOnce'
        BY <1>7, <2>1 DEF Refer, AskedOnce, Task
      <3>15. AllocationIsRecorded'
        BY <1>7, <2>1 DEF Refer, AllocationIsRecorded, Task, AskedOnce
      <3>16. SettledIsClean'
        BY <1>7, <2>1 DEF Refer, SettledIsClean, Active, LeasesFollow, AskedOnce
      <3> QED BY <3>11, <3>12, <3>13, <3>14, <3>15, <3>16 DEF Rest
  <2> QED BY <2>1, <2>2
<1> QED BY <1>1, <1>2, <1>3, <1>4, <1>5, <1>6, <1>7 DEF StartupStep

LEMMA ClosingKeeps ==
  ASSUME NativeInvariant, World, CloseStep \/ Crash
  PROVE  RowKept /\ Rest'
<1> USE DEF NativeInvariant, NativeTypes, leaseVars, providerVars, managerVars, startupVars,
            closingVars, journalVars
<1>0. manager \in Resources /\ Honest(manager) /\ snapshot \in Resources
  BY DEF RestTyped, RowsTyped, NothingIsInvented
<1>1. CASE BeginClose
  <2>1. RowKept /\ snapshot' = snapshot
    BY <1>1, RowUntouched DEF BeginClose, RowsTyped, RowsAreHonest
  <2>2. Rest'
      <3>11. RestTyped'
        BY <1>1, <2>1 DEF BeginClose, RestTyped, Stages
      <3>12. LeasesFollow'
        BY <1>1, <2>1 DEF BeginClose, LeasesFollow, Task
      <3>13. NothingIsInvented'
        BY <1>1, <2>1 DEF BeginClose, NothingIsInvented, Honest, Named, World, Task
      <3>14. AskedOnce'
        BY <1>1, <2>1 DEF BeginClose, AskedOnce, Task
      <3>15. AllocationIsRecorded'
        BY <1>1, <2>1 DEF BeginClose, AllocationIsRecorded, Task, AskedOnce
      <3>16. SettledIsClean'
        BY <1>1, <2>1 DEF BeginClose, SettledIsClean, Active, LeasesFollow, AskedOnce
      <3> QED BY <3>11, <3>12, <3>13, <3>14, <3>15, <3>16 DEF Rest
  <2> QED BY <2>1, <2>2
<1>2. CASE ReadBack
  <2>1. RowKept /\ snapshot' = snapshot
    BY <1>2, RowUntouched DEF ReadBack, RowsTyped, RowsAreHonest
  <2>3. released' \in BOOLEAN /\ remoteEnded' \in BOOLEAN /\ (released' => cloudSession = "retired")
    BY <1>2 DEF ReadBack, RestTyped
  <2>2. Rest'
      <3>11. RestTyped'
        BY <1>2, <2>3 DEF ReadBack, RestTyped, Stages
      <3>12. LeasesFollow'
        BY <1>2, <2>1, <2>3 DEF ReadBack, LeasesFollow, Task
      <3>13. NothingIsInvented'
        BY <1>2, <2>1, <2>3 DEF ReadBack, NothingIsInvented, Honest, Named, World, Task
      <3>14. AskedOnce'
        BY <1>2, <2>1, <2>3 DEF ReadBack, AskedOnce, Task
      <3>15. AllocationIsRecorded'
        BY <1>2, <2>1, <2>3 DEF ReadBack, AllocationIsRecorded, Task, AskedOnce
      <3>16. SettledIsClean'
        BY <1>2, <2>1, <2>3 DEF ReadBack, SettledIsClean, Active, LeasesFollow, AskedOnce
      <3> QED BY <3>11, <3>12, <3>13, <3>14, <3>15, <3>16 DEF Rest
  <2> QED BY <2>1, <2>2
<1>3. CASE Crash
  <2>1. RowKept /\ snapshot' = snapshot
    BY <1>3, RowUntouched DEF Crash, RowsTyped, RowsAreHonest
  <2>2. Rest'
      <3>11. RestTyped'
        BY <1>3, <2>1 DEF Crash, RestTyped, Stages
      <3>12. LeasesFollow'
        BY <1>3, <2>1 DEF Crash, LeasesFollow, Task
      <3>13. NothingIsInvented'
        BY <1>3, <2>1 DEF Crash, NothingIsInvented, Honest, Named, World, Task
      <3>14. AskedOnce'
        BY <1>3, <2>1 DEF Crash, AskedOnce, Task
      <3>15. AllocationIsRecorded'
        BY <1>3, <2>1 DEF Crash, AllocationIsRecorded, Task, AskedOnce
      <3>16. SettledIsClean'
        BY <1>3, <2>1 DEF Crash, SettledIsClean, Active, LeasesFollow, AskedOnce
      <3> QED BY <3>11, <3>12, <3>13, <3>14, <3>15, <3>16 DEF Rest
  <2> QED BY <2>1, <2>2
<1>4. CASE CloseManager
  <2>1. /\ startup # "gone" /\ closing = "read" /\ cleanup' = TRUE /\ closing' \in {"deleting", "done"}
        /\ startup \in {"failed", "creating", "created", "running"}
        /\ UNCHANGED <<leaseVars, extension, cloudSession, uploading, creating, startupVars,
                       remoteEnded, released, recovery>>
    BY <1>4 DEF CloseManager, AskedOnce
  <2>2. CASE UNCHANGED <<journalVars, manager, journalFailed, deleting>>
    <3>1. RowKept /\ snapshot' = snapshot
      BY <2>2, RowUntouched DEF RowsTyped, RowsAreHonest
    <3>2. Rest'
        <4>11. RestTyped'
          BY <2>1, <2>2, <3>1 DEF RestTyped, Stages
        <4>12. LeasesFollow'
          BY <2>1, <2>2, <3>1 DEF LeasesFollow, Task
        <4>13. NothingIsInvented'
          BY <2>1, <2>2, <3>1 DEF NothingIsInvented, Honest, Named, World, Task
        <4>14. AskedOnce'
          BY <2>1, <2>2, <3>1 DEF AskedOnce, Task
        <4>15. AllocationIsRecorded'
          BY <2>1, <2>2, <3>1 DEF AllocationIsRecorded, Task, AskedOnce
        <4>16. SettledIsClean'
          BY <2>1, <2>2, <3>1 DEF SettledIsClean, Active, LeasesFollow, AskedOnce
        <4> QED BY <4>11, <4>12, <4>13, <4>14, <4>15, <4>16 DEF Rest
    <3> QED BY <3>1, <3>2
  <2>3. CASE ~UNCHANGED <<journalVars, manager, journalFailed, deleting>>
    <3>1. PICK ok \in BOOLEAN, s \in {"not_dispatched", "delete_intent", "quarantined"} :
            /\ Note([manager EXCEPT !.state = s], ok)
            /\ deleting' => deleting \/ s = "delete_intent"
            /\ deleting' \in BOOLEAN
            /\ s = "not_dispatched" => manager = Intent
            /\ s = "delete_intent" => manager.ext /\ (manager.alloc => manager.ses)
      BY <1>4, <2>3 DEF CloseManager, Deletable, Retired, RestTyped, Absent
    <3> DEFINE r == [manager EXCEPT !.state = s]
    <3>2. r \in Resources /\ r.state = s /\ r.ext = manager.ext /\ r.alloc = manager.alloc /\ r.ses = manager.ses
      BY <1>0 DEF Resources, States
    <3>3. Note(r, ok)
      BY <3>1
    <3> HIDE DEF r
    <3>4. s = "not_dispatched" => NeverUploaded
      BY <2>1, <3>1 DEF NeverUploaded, AskedOnce, Intent, Resource
    <3>5. s = "delete_intent" => r.ses \/ NoMoreSessions
      BY <2>1, <3>1, <3>2 DEF NoMoreSessions, AllocationIsRecorded
    <3>6. Honest(r)
      BY <1>0, <3>2, <3>4 DEF Honest, Named
    <3>7. /\ RowKept /\ manager' = r /\ journalFailed' \in BOOLEAN
          /\ snapshot.alloc => snapshot'.alloc
          /\ snapshot'.state = "absent" => snapshot' = Absent /\ snapshot = Absent
      BY <3>2, <3>3, <3>5, <3>6, NoteKeeps
    <3>8. manager.ext => extension # "none"
      BY <1>0 DEF Honest, Named
    <3>9. s = "not_dispatched" => startup = "failed"
      BY <2>1, <3>4 DEF NeverUploaded
    <3>10. Rest'
        <4>11. RestTyped'
          BY <2>1, <3>1, <3>2, <3>6, <3>7, <3>8, <3>9 DEF RestTyped, Stages
        <4>12. LeasesFollow'
          BY <2>1, <3>1, <3>2, <3>6, <3>7, <3>8, <3>9 DEF LeasesFollow, Task
        <4>13. NothingIsInvented'
          BY <2>1, <3>1, <3>2, <3>6, <3>7, <3>8, <3>9 DEF NothingIsInvented, Honest, Named, World, Task
        <4>14. AskedOnce'
          BY <2>1, <3>1, <3>2, <3>6, <3>7, <3>8, <3>9 DEF AskedOnce, Task
        <4>15. AllocationIsRecorded'
          BY <2>1, <3>1, <3>2, <3>6, <3>7, <3>8, <3>9 DEF AllocationIsRecorded, Task, AskedOnce
        <4>16. SettledIsClean'
          BY <2>1, <3>1, <3>2, <3>6, <3>7, <3>8, <3>9 DEF SettledIsClean, Active, LeasesFollow, AskedOnce
        <4> QED BY <4>11, <4>12, <4>13, <4>14, <4>15, <4>16 DEF Rest
    <3> QED BY <3>7, <3>10
  <2> QED BY <2>2, <2>3
<1>5. CASE DeleteAnswers
  <2>1. PICK ok \in BOOLEAN, s \in {"deleted", "delete_unconfirmed"} :
          Note([manager EXCEPT !.state = s], ok) /\ (s = "deleted" => extension = "deleted")
    BY <1>5 DEF DeleteAnswers
  <2> DEFINE r == [manager EXCEPT !.state = s]
  <2>2. r \in Resources /\ r.state = s /\ r.ext = manager.ext /\ r.alloc = manager.alloc /\ r.ses = manager.ses
    BY <1>0 DEF Resources, States
  <2>3. Note(r, ok)
    BY <2>1
  <2> HIDE DEF r
  <2>4. Honest(r)
    BY <1>0, <2>1, <2>2 DEF Honest, Named
  <2>5. /\ RowKept /\ manager' = r /\ journalFailed' \in BOOLEAN
        /\ snapshot.alloc => snapshot'.alloc
        /\ snapshot'.state = "absent" => snapshot' = Absent /\ snapshot = Absent
    BY <2>2, <2>3, <2>4, NoteKeeps
  <2>6. Rest'
      <3>11. RestTyped'
        BY <1>5, <2>2, <2>4, <2>5 DEF DeleteAnswers, RestTyped, Stages
      <3>12. LeasesFollow'
        BY <1>5, <2>2, <2>4, <2>5 DEF DeleteAnswers, LeasesFollow, Task
      <3>13. NothingIsInvented'
        BY <1>5, <2>2, <2>4, <2>5 DEF DeleteAnswers, NothingIsInvented, Honest, Named, World, Task
      <3>14. AskedOnce'
        BY <1>5, <2>2, <2>4, <2>5 DEF DeleteAnswers, AskedOnce, Task
      <3>15. AllocationIsRecorded'
        BY <1>5, <2>2, <2>4, <2>5 DEF DeleteAnswers, AllocationIsRecorded, Task, AskedOnce
      <3>16. SettledIsClean'
        BY <1>5, <2>2, <2>4, <2>5 DEF DeleteAnswers, SettledIsClean, Active, LeasesFollow, AskedOnce
      <3> QED BY <3>11, <3>12, <3>13, <3>14, <3>15, <3>16 DEF Rest
  <2> QED BY <2>5, <2>6
<1>6. CASE Finish
  <2>1. /\ startup \in {"failed", "running"} /\ startup' = "gone" /\ closing = "done"
        /\ UNCHANGED <<generation, cancelAsked, reference, providerVars, managerVars, attempted,
                       sessionKnown, closingVars, recovery>>
        /\ owner' \in {0, owner} /\ launch' \in {"open", "quarantined", "settled"}
        /\ launch' = "settled" => owner' = 0
    BY <1>6 DEF Finish, Settled, Deferred, LeasesFollow, RestTyped
  <2>2. RowKept /\ (snapshot.alloc => snapshot'.alloc)
    <3>1. CASE Reconcile
      BY <3>1, ReconcileIsKept
    <3>2. CASE UNCHANGED journalVars
      BY <3>2, RowUntouched DEF RowsTyped, RowsAreHonest
    <3> QED BY <1>6, <3>1, <3>2 DEF Finish
  <2>3. launch' = "settled" /\ launch # "settled" => Confirmed(Known)
    BY <1>6 DEF Finish, Deferred
  <2>4. Confirmed(Known) => /\ ~attempted \/ cloudSession = "retired"
                            /\ extension # "exists" /\ ~uploading
    <3>1. CASE snapshot = Absent
      BY <3>1 DEF AskedOnce, Known, Confirmed, Absent, Intent, Resource, NothingIsInvented
    <3>2. CASE snapshot # Absent
      <4>1. Known = Reconciled(snapshot) /\ Known # Absent /\ (Known.state # "quarantined" => Known = snapshot)
        BY <3>2, ReconcileKeeps DEF Known, Absent, Intent, Resource
      <4>2. Confirmed(Known) => snapshot.state \in {"deleted", "not_dispatched"} /\ (~attempted \/ released)
        BY <4>1 DEF Confirmed, Removed
      <4> QED BY <4>2 DEF RowsAreHonest, NothingIsInvented, Honest, NeverUploaded, AskedOnce
    <3> QED BY <3>1, <3>2
  <2>5. launch' = "settled" => extension # "exists" /\ cloudSession # "running" /\ ~uploading /\ ~creating
    BY <2>3, <2>4 DEF SettledIsClean, AskedOnce
  <2>6. snapshot'.state = "absent" => snapshot' = Absent /\ snapshot = Absent
    BY <2>2 DEF RowKept
  <2>7. Rest'
      <3>11. RestTyped'
        BY <2>1, <2>2, <2>5, <2>6 DEF RestTyped, Stages
      <3>12. LeasesFollow'
        BY <2>1, <2>2, <2>5, <2>6 DEF LeasesFollow, Task
      <3>13. NothingIsInvented'
        BY <2>1, <2>2, <2>5, <2>6 DEF NothingIsInvented, Honest, Named, World, Task
      <3>14. AskedOnce'
        BY <2>1, <2>2, <2>5, <2>6 DEF AskedOnce, Task
      <3>15. AllocationIsRecorded'
        BY <2>1, <2>2, <2>5, <2>6 DEF AllocationIsRecorded, Task, AskedOnce
      <3>16. SettledIsClean'
        BY <2>1, <2>2, <2>5, <2>6 DEF SettledIsClean, Active, LeasesFollow, AskedOnce
      <3> QED BY <3>11, <3>12, <3>13, <3>14, <3>15, <3>16 DEF Rest
  <2> QED BY <2>2, <2>7
<1> QED BY <1>1, <1>2, <1>3, <1>4, <1>5, <1>6 DEF CloseStep

(* A step of the recovery of the lease g, whose task becomes t. *)
Sound(t) ==
  /\ t \in Tasks /\ Honest(t.resource) /\ (t.sure => cloudSession = "retired")
  /\ t.resource.state = "absent" => t.resource = Absent
  /\ t.pc \in {"read", "decide", "check"} /\ ~t.resource.alloc => ~attempted

LEMMA TaskIsSound ==
  ASSUME NativeInvariant, NEW g \in Recoverers
  PROVE  Sound(Task(g)) /\ (Task(g).pc # "idle" => owner # 1)
<1>1. Task(g).pc # "idle" => owner # 1
  BY DEF NativeInvariant, NativeTypes, RestTyped, LeasesFollow, Recoverers
<1> QED BY <1>1 DEF NativeInvariant, NativeTypes, RestTyped, NothingIsInvented, AskedOnce,
               AllocationIsRecorded, Sound, Task

LEMMA RecoveryRest ==
  ASSUME NativeInvariant, World, RowKept, snapshot.alloc => snapshot'.alloc,
         NEW g \in Recoverers, NEW t, Sound(t), t.pc # "idle", Task(g).pc # "idle", Becomes(g, t),
         UNCHANGED <<generation, cancelAsked, reference, extension, cloudSession, uploading,
                     creating, managerVars, startupVars, closingVars>>,
         owner' \in {0, owner}, launch' \in {"open", "quarantined", "settled"},
         launch' = "settled" => owner' = 0 /\ extension # "exists" /\ cloudSession # "running"
                                /\ ~uploading /\ ~creating,
         deleting' \in BOOLEAN, deleting' => extension # "none"
  PROVE  NativeInvariant' /\ DeletedStays
<1> USE DEF NativeInvariant, NativeTypes, managerVars, startupVars, closingVars
<1>1. /\ recovery' \in [Recoverers -> Tasks] /\ recovery'[g] = t
      /\ \A h \in Recoverers : h # g => recovery'[h] = recovery[h]
  BY DEF RestTyped, Becomes, Sound
<1>2. snapshot'.state = "absent" => snapshot' = Absent /\ snapshot = Absent
  BY DEF RowKept
<1>3. RestTyped'
  BY <1>1 DEF RestTyped
<1>4. LeasesFollow'
  BY <1>1 DEF LeasesFollow, Task
<1>5. NothingIsInvented'
  BY <1>1 DEF NothingIsInvented, Honest, Named, World, Task, Sound
<1>6. AskedOnce'
  BY <1>1, <1>2 DEF AskedOnce, Task, Sound
<1>7. AllocationIsRecorded'
  BY <1>1 DEF AllocationIsRecorded, Task, Sound
<1>8. SettledIsClean'
  BY DEF SettledIsClean
<1> QED BY <1>3, <1>4, <1>5, <1>6, <1>7, <1>8, StepIsKept DEF Rest

(* The row a recovery or finish() starts from. *)
LEMMA KnownIsHonest ==
  ASSUME NativeInvariant
  PROVE  /\ Known \in Resources /\ Honest(Known) /\ (snapshot.alloc => Known.alloc)
         /\ Known.state = "absent" => Known = Absent
         /\ Known.state \in {"deleted", "not_dispatched"} => Known = snapshot
<1>1. Absent \in Resources /\ Honest(Absent) /\ Absent.state = "absent" /\ ~Absent.alloc
  BY DEF Absent, Intent, Resource, Resources, States, Honest, Named
<1>2. CASE snapshot = Absent
  BY <1>1, <1>2 DEF Known
<1>3. CASE snapshot # Absent
  <2>1. Known = Reconciled(snapshot)
    BY <1>3 DEF Known
  <2> QED BY <1>3, <2>1, ReconcileKeeps
<1> QED BY <1>2, <1>3

LEMMA RecoveryKeeps ==
  ASSUME NativeInvariant, World, NEW g \in Recoverers, RecoveryStep(g) \/ CrashRecovery(g)
  PROVE  NativeInvariant' /\ DeletedStays
<1> DEFINE t == Task(g)
<1>0. /\ t \in Tasks /\ Sound(t) /\ (t.pc # "idle" => owner # 1)
      /\ t.resource \in Resources /\ Honest(t.resource)
  BY TaskIsSound DEF Sound, Tasks
<1>8. NativeInvariant => /\ deleting \in BOOLEAN /\ (deleting => extension # "none")
                         /\ (launch = "settled" => owner = 0 /\ extension # "exists"
                               /\ cloudSession # "running" /\ ~uploading /\ ~creating)
                         /\ launch \in {"open", "quarantined", "settled"}
  BY DEF NativeInvariant, NativeTypes, RestTyped, NothingIsInvented, LeasesFollow, SettledIsClean
<1> USE DEF leaseVars, providerVars, restOfRecovery, MovesTo
<1> HIDE DEF t
<1>9. /\ \A pc \in Positions : pc \notin {"read", "decide", "check"} \/ t.pc \in {"read", "decide", "check"} =>
           Sound([t EXCEPT !.pc = pc])
      /\ Sound([t EXCEPT !.pc = "report", !.removed = TRUE])
      /\ \A pc \in Positions : [t EXCEPT !.pc = pc].pc = pc
      /\ [t EXCEPT !.pc = "report", !.removed = TRUE].pc = "report"
  BY <1>0, ZenonT(60) DEF Sound, Tasks, Positions
<1>1. CASE Begin(g)
  <2>1. CASE owner = g
    <3> DEFINE proof == Proof(Known, journal')
               pc == IF Undispatched(Known, proof) THEN "decide" ELSE "read"
               n == [t EXCEPT !.resource = Known, !.proof = proof, !.pc = pc]
    <3>1. Reconcile /\ Becomes(g, n) /\ t.pc = "claimed" /\ Task(g).pc = "claimed"
      BY <1>1, <2>1 DEF Begin, t
    <3>2. proof \in BOOLEAN /\ pc \in Positions /\ pc # "idle"
      BY DEF Proof, Positions
    <3> HIDE DEF proof, pc
    <3>3. n \in Tasks
      BY Zenon, <1>0, <3>2, KnownIsHonest DEF Tasks
    <3>4. n.resource = Known /\ n.pc = pc /\ n.sure = t.sure
      BY <1>0 DEF Tasks
    <3>5. ~Known.alloc => ~attempted
      BY KnownIsHonest DEF NativeInvariant, AllocationIsRecorded
    <3> HIDE DEF n
    <3>6. Sound(n)
      BY <1>0, <3>3, <3>4, <3>5, KnownIsHonest DEF Sound
    <3> QED BY <1>1, <1>8, <3>1, <3>2, <3>4, <3>6, ReconcileIsKept, RecoveryRest DEF Begin
  <2>2. CASE owner # g
    <3>1. UNCHANGED journalVars /\ Becomes(g, [t EXCEPT !.pc = "gone"]) /\ Task(g).pc = "claimed"
      BY <1>1, <2>2 DEF Begin, t
    <3>2. RowKept /\ snapshot' = snapshot
      BY <3>1, RowUntouched DEF NativeInvariant, NativeTypes, RowsTyped, RowsAreHonest, journalVars
    <3>3. Sound([t EXCEPT !.pc = "gone"]) /\ [t EXCEPT !.pc = "gone"].pc # "idle"
      BY <1>9 DEF Positions
    <3> QED BY <1>1, <1>8, <3>1, <3>2, <3>3, RecoveryRest DEF Begin
  <2> QED BY <2>1, <2>2
<1>2. CASE Read(g)
  <2>1. PICK found \in BOOLEAN, sure \in BOOLEAN :
          /\ Becomes(g, [t EXCEPT !.found = found, !.sure = sure, !.pc = "decide"])
          /\ sure => cloudSession = "retired"
    BY <1>2 DEF Read, t
  <2>2. t.pc = "read" /\ Task(g).pc = "read"
    BY <1>2 DEF Read, t
  <2>3. RowKept /\ snapshot' = snapshot
    BY <1>2, RowUntouched DEF Read, NativeInvariant, NativeTypes, RowsTyped, RowsAreHonest, journalVars
  <2>4. Sound([t EXCEPT !.found = found, !.sure = sure, !.pc = "decide"])
    BY <1>0, <2>1, <2>2 DEF Sound, Tasks, Positions
  <2>5. [t EXCEPT !.found = found, !.sure = sure, !.pc = "decide"].pc # "idle"
    BY <1>0 DEF Tasks
  <2> QED BY <1>2, <1>8, <2>1, <2>2, <2>3, <2>4, <2>5, RecoveryRest DEF Read
<1>3. CASE CrashRecovery(g)
  <2>1. UNCHANGED journalVars /\ Becomes(g, [t EXCEPT !.pc = "gone"]) /\ Task(g).pc # "idle"
    BY <1>3 DEF CrashRecovery, t
  <2>2. RowKept /\ snapshot' = snapshot
    BY <2>1, RowUntouched DEF NativeInvariant, NativeTypes, RowsTyped, RowsAreHonest, journalVars
  <2>3. Sound([t EXCEPT !.pc = "gone"]) /\ [t EXCEPT !.pc = "gone"].pc # "idle"
    BY <1>9 DEF Positions
  <2> QED BY <1>3, <1>8, <2>1, <2>2, <2>3, RecoveryRest DEF CrashRecovery
<1>4. CASE Report(g)
  <2>1. /\ Becomes(g, [t EXCEPT !.pc = "gone"]) /\ Task(g).pc = "report"
        /\ UNCHANGED <<generation, cancelAsked, reference, providerVars, managerVars, startupVars,
                       closingVars>>
        /\ owner' \in {0, owner} /\ launch' \in {"open", "quarantined", "settled"}
        /\ launch' = "settled" => owner' = 0
    BY <1>4, <1>8 DEF Report, t, Settled, Deferred
  <2>2. RowKept /\ (snapshot.alloc => snapshot'.alloc)
    <3>1. CASE Reconcile
      BY <3>1, ReconcileIsKept
    <3>2. CASE UNCHANGED journalVars
      BY <3>2, RowUntouched DEF NativeInvariant, NativeTypes, RowsTyped, RowsAreHonest, journalVars
    <3> QED BY <1>4, <3>1, <3>2 DEF Report
  <2>3. launch' = "settled" /\ launch # "settled" => Undone(g, Known) \/ Ended(g, Known)
    BY <1>4 DEF Report, Deferred
  <2>4. Undone(g, Known) \/ Ended(g, Known) =>
          extension # "exists" /\ cloudSession # "running" /\ ~uploading /\ ~creating
    <3> SUFFICES ASSUME Undone(g, Known) \/ Ended(g, Known)
                 PROVE  extension # "exists" /\ cloudSession # "running" /\ ~uploading /\ ~creating
      OBVIOUS
    <3>1. Known = snapshot /\ snapshot.state \in {"deleted", "not_dispatched"}
      BY KnownIsHonest DEF Undone, Ended, Removed
    <3>2. extension # "exists" /\ ~uploading
      BY <3>1 DEF NativeInvariant, RowsAreHonest, Honest, NeverUploaded, AskedOnce
    <3>3. cloudSession = "retired" \/ ~attempted
      BY <1>0, <3>1 DEF Undone, Ended, Sound, t, NativeInvariant, AllocationIsRecorded
    <3> QED BY <3>2, <3>3 DEF NativeInvariant, AskedOnce
  <2>5. Sound([t EXCEPT !.pc = "gone"]) /\ [t EXCEPT !.pc = "gone"].pc # "idle"
    BY <1>9 DEF Positions
  <2> QED BY <1>8, <2>1, <2>2, <2>3, <2>4, <2>5, RecoveryRest
<1>5. CASE Adopt(g)
  <2> DEFINE r == [t.resource EXCEPT !.ses = TRUE]
  <2>1. PICK ok \in BOOLEAN :
          /\ Record(g, r, ok)
          /\ IF ok THEN Becomes(g, [t EXCEPT !.resource = r]) ELSE Fails(g)
    BY <1>5 DEF Adopt, t
  <2>2. t.pc = "decide" /\ Task(g).pc = "decide" /\ t.resource.alloc /\ t.sure
    BY <1>5 DEF Adopt, Unnamed, t
  <2>3. r \in Resources /\ r.state = t.resource.state /\ r.ext = t.resource.ext /\ r.alloc /\ r.ses
    BY <1>0, <2>2 DEF Resources
  <2> HIDE DEF r
  <2>4. r.state # "absent" /\ Honest(r)
    BY <1>0, <2>2, <2>3 DEF Sound, Absent, Intent, Resource, Honest, Named
  <2>5. RowKept /\ (snapshot.alloc => snapshot'.alloc)
    BY <2>1, <2>3, <2>4, RecordKeeps
  <2>6. CASE ok
    <3>1. Sound([t EXCEPT !.resource = r]) /\ [t EXCEPT !.resource = r].pc # "idle"
      BY <1>0, <2>2, <2>3, <2>4 DEF Sound, Tasks
    <3> QED BY <1>5, <1>8, <2>1, <2>2, <2>5, <2>6, <3>1, RecoveryRest DEF Adopt
  <2>7. CASE ~ok
    <3>1. PICK pc \in {"report", "gone"} : Becomes(g, [t EXCEPT !.pc = pc])
      BY <2>1, <2>7 DEF Fails, t
    <3>2. Sound([t EXCEPT !.pc = pc]) /\ [t EXCEPT !.pc = pc].pc # "idle"
      BY <1>9 DEF Positions
    <3> QED BY <1>5, <1>8, <2>2, <2>5, <3>1, <3>2, RecoveryRest DEF Adopt
  <2> QED BY <2>6, <2>7
<1>6. CASE Decide(g)
  <2>0. /\ t.pc = "decide" /\ Task(g).pc = "decide"
        /\ UNCHANGED <<leaseVars, extension, cloudSession, uploading, creating, managerVars, startupVars,
                 closingVars>>
    BY <1>6 DEF Decide, t
  <2>1. CASE UNCHANGED <<journalVars, deleting>>
    <3>1. PICK n \in Tasks : Sound(n) /\ n.pc # "idle" /\ Becomes(g, n)
      <4>1. \/ \E pc \in {"report", "check", "gone"} : Becomes(g, [t EXCEPT !.pc = pc])
            \/ Becomes(g, [t EXCEPT !.pc = "report", !.removed = TRUE])
        BY <1>6 DEF Decide, Fails, t
      <4> QED BY <4>1, <1>9, <2>0 DEF Sound, Positions
    <3>2. RowKept /\ snapshot' = snapshot
      BY <2>1, RowUntouched DEF NativeInvariant, NativeTypes, RowsTyped, RowsAreHonest, journalVars
    <3> QED BY <1>8, <2>0, <2>1, <3>1, <3>2, RecoveryRest
  <2>2. CASE ~UNCHANGED <<journalVars, deleting>>
    <3>1. PICK ok \in BOOLEAN, s \in {"delete_intent", "quarantined"} :
            /\ Record(g, [t.resource EXCEPT !.state = s], ok)
            /\ s = "delete_intent" => MayDelete(g)
            /\ deleting' \in BOOLEAN /\ (deleting' => deleting \/ s = "delete_intent")
            /\ \E pc \in {"report", "check", "gone"} : Becomes(g, [t EXCEPT !.pc = pc])
      BY <1>6, <1>8, <2>2 DEF Decide, Fails, t
    <3> DEFINE r == [t.resource EXCEPT !.state = s]
    <3>2. r \in Resources /\ r.state = s /\ r.ext = t.resource.ext /\ r.alloc = t.resource.alloc
          /\ r.ses = t.resource.ses
      BY <1>0 DEF Resources, States
    <3>3. Record(g, r, ok)
      BY <3>1
    <3> HIDE DEF r
    <3>4. Honest(r)
      BY <1>0, <3>2 DEF Honest, Named
    <3>5. s = "delete_intent" => t.resource.ext /\ (r.ses \/ NoMoreSessions)
      BY <1>0, <2>0, <3>1, <3>2 DEF MayDelete, Undispatched, NoMoreSessions, Sound, t
    <3>6. RowKept /\ (snapshot.alloc => snapshot'.alloc)
      BY <3>2, <3>3, <3>4, <3>5, RecordKeeps
    <3>7. deleting' => extension # "none"
      BY <1>0, <1>8, <3>1, <3>5 DEF Honest, Named
    <3>8. PICK n \in Tasks : Sound(n) /\ n.pc # "idle" /\ Becomes(g, n)
      BY <3>1, <1>9, <2>0 DEF Sound, Positions
    <3> QED BY <1>8, <2>0, <3>1, <3>6, <3>7, <3>8, RecoveryRest
  <2> QED BY <2>1, <2>2
<1>7. CASE Check(g)
  <2>0. /\ t.pc = "check" /\ Task(g).pc = "check" /\ UNCHANGED restOfRecovery
    BY <1>7 DEF Check, t
  <2>1. PICK n \in Tasks : Sound(n) /\ n.pc # "idle" /\ Becomes(g, n)
    <3>1. \/ \E pc \in {"report", "gone"} : Becomes(g, [t EXCEPT !.pc = pc])
          \/ Becomes(g, [t EXCEPT !.pc = "report", !.removed = TRUE])
      BY <1>7 DEF Check, Fails, t
    <3> QED BY <3>1, <1>9 DEF Sound, Positions
  <2>2. CASE UNCHANGED journalVars
    <3>1. RowKept /\ snapshot' = snapshot
      BY <2>2, RowUntouched DEF NativeInvariant, NativeTypes, RowsTyped, RowsAreHonest, journalVars
    <3> QED BY <1>8, <2>0, <2>1, <3>1, RecoveryRest
  <2>3. CASE ~UNCHANGED journalVars
    <3>1. PICK ok \in BOOLEAN, s \in {"deleted", "delete_unconfirmed"} :
            /\ Record(g, [t.resource EXCEPT !.state = s], ok) /\ (s = "deleted" => extension = "deleted")
      BY <1>7, <2>3 DEF Check, t, journalVars
    <3> DEFINE r == [t.resource EXCEPT !.state = s]
    <3>2. r \in Resources /\ r.state = s /\ r.ext = t.resource.ext /\ r.alloc = t.resource.alloc
          /\ r.ses = t.resource.ses
      BY <1>0 DEF Resources, States
    <3>3. Record(g, r, ok)
      BY <3>1
    <3> HIDE DEF r
    <3>4. Honest(r)
      BY <1>0, <3>1, <3>2 DEF Honest, Named
    <3>5. RowKept /\ (snapshot.alloc => snapshot'.alloc)
      BY <3>2, <3>3, <3>4, RecordKeeps
    <3> QED BY <1>8, <2>0, <2>1, <3>5, RecoveryRest
  <2> QED BY <2>2, <2>3
<1> QED BY <1>1, <1>2, <1>3, <1>4, <1>5, <1>6, <1>7 DEF RecoveryStep

LEMMA NativeStepKeeps ==
  NativeInvariant /\ [NativeNext]_nativeVars => NativeInvariant' /\ DeletedStays
<1> SUFFICES ASSUME NativeInvariant, [NativeNext]_nativeVars PROVE NativeInvariant' /\ DeletedStays
  OBVIOUS
<1>0. World
  BY WorldGoesOn
<1>1. CASE StartupStep
  BY <1>0, <1>1, StartupKeeps, StepIsKept
<1>2. CASE CloseStep \/ Crash
  BY <1>0, <1>2, ClosingKeeps, StepIsKept
<1>3. ASSUME NEW g \in Recoverers, RecoveryStep(g) \/ CrashRecovery(g) PROVE NativeInvariant' /\ DeletedStays
  BY <1>0, <1>3, RecoveryKeeps
<1> USE DEF NativeInvariant, NativeTypes, leaseVars, providerVars, managerVars, startupVars,
            closingVars, journalVars
<1>4. ASSUME NEW g \in Recoverers, ClaimRecovery(g) PROVE NativeInvariant' /\ DeletedStays
  <2>1. RowKept /\ snapshot' = snapshot
    BY <1>4, RowUntouched DEF ClaimRecovery, RowsTyped, RowsAreHonest
  <2>2. /\ recovery' \in [Recoverers -> Tasks]
        /\ \A h \in Recoverers : /\ h # g => recovery'[h] = recovery[h]
                                 /\ recovery'[h].resource = recovery[h].resource
                                 /\ recovery'[h].sure = recovery[h].sure
        /\ recovery'[g].pc = "claimed"
    <3>1. [recovery[g] EXCEPT !.pc = "claimed"] \in Tasks
      BY DEF RestTyped, Tasks, Positions
    <3>2. recovery' = [recovery EXCEPT ![g] = [recovery[g] EXCEPT !.pc = "claimed"]]
      BY <1>4 DEF ClaimRecovery
    <3> QED BY <3>1, <3>2 DEF RestTyped, Tasks
  <2>4. generation \in Nat /\ generation' \in Nat \ {0} /\ generation' = g /\ generation <= generation'
    BY <1>4 DEF ClaimRecovery, RestTyped
  <2>3. Rest'
      <3>11. RestTyped'
        BY <1>0, <1>4, <2>1, <2>2, <2>4 DEF ClaimRecovery, RestTyped, Stages
      <3>12. LeasesFollow'
        BY <1>4, <2>2, <2>4 DEF ClaimRecovery, LeasesFollow, Task, Recoverers
      <3>13. NothingIsInvented'
        BY <1>0, <1>4, <2>1, <2>2, <2>4 DEF ClaimRecovery, NothingIsInvented, Honest, Named, World, Task
      <3>14. AskedOnce'
        BY <1>0, <1>4, <2>1, <2>2, <2>4 DEF ClaimRecovery, AskedOnce, Task
      <3>15. AllocationIsRecorded'
        BY <1>0, <1>4, <2>1, <2>2, <2>4 DEF ClaimRecovery, AllocationIsRecorded, Task, AskedOnce
      <3>16. SettledIsClean'
        BY <1>0, <1>4, <2>1, <2>2, <2>4 DEF ClaimRecovery, SettledIsClean, Active, LeasesFollow, AskedOnce
      <3> QED BY <3>11, <3>12, <3>13, <3>14, <3>15, <3>16 DEF Rest
  <2> QED BY <1>0, <2>1, <2>3, StepIsKept
<1>5. CASE LeaseExpires \/ CancelJob
  <2>1. RowKept /\ snapshot' = snapshot
    BY <1>5, RowUntouched DEF LeaseExpires, CancelJob, RowsTyped, RowsAreHonest
  <2>2. /\ UNCHANGED <<generation, launch, reference, journalVars, providerVars,
                       managerVars, startupVars, closingVars, recovery>>
        /\ owner' \in {0, owner} /\ cancelAsked' \in BOOLEAN
    BY <1>5 DEF LeaseExpires, CancelJob, RestTyped
  <2>3. Rest'
      <3>11. RestTyped'
        BY <1>0, <2>1, <2>2 DEF RestTyped, Stages
      <3>12. LeasesFollow'
        BY <1>0, <2>1, <2>2 DEF LeasesFollow, Task
      <3>13. NothingIsInvented'
        BY <1>0, <2>1, <2>2 DEF NothingIsInvented, Honest, Named, World, Task
      <3>14. AskedOnce'
        BY <1>0, <2>1, <2>2 DEF AskedOnce, Task
      <3>15. AllocationIsRecorded'
        BY <1>0, <2>1, <2>2 DEF AllocationIsRecorded, Task, AskedOnce
      <3>16. SettledIsClean'
        BY <1>0, <2>1, <2>2 DEF SettledIsClean, Active, LeasesFollow, AskedOnce
      <3> QED BY <3>11, <3>12, <3>13, <3>14, <3>15, <3>16 DEF Rest
  <2> QED BY <1>0, <2>1, <2>3, StepIsKept
<1>6. CASE RemoteStep
  <2>1. RowKept /\ snapshot' = snapshot
    BY <1>6, RowUntouched DEF RemoteStep, RowsTyped, RowsAreHonest
  <2>2. /\ uploading' \in BOOLEAN /\ creating' \in BOOLEAN /\ deleting' \in BOOLEAN
        /\ extension' \in {"none", "exists", "deleted"}
        /\ cloudSession' \in {"none", "running", "retired"}
        /\ extension' = "none" => extension = "none" /\ uploading' = uploading
        /\ extension' # "none" => ~uploading'
        /\ cloudSession' # "none" => ~creating'
        /\ cloudSession' = "none" => cloudSession = "none" /\ creating' = creating
        /\ ~attempted => cloudSession' = "none" /\ ~creating'
        /\ startup \in {"start", "intent"} \/ snapshot.state = "absent" =>
             extension' = "none" /\ ~uploading'
        /\ manager.state \in {"absent", "upload_intent"} /\ startup \notin {"uploading", "gone"} =>
             extension' = "none" /\ ~uploading'
        /\ UNCHANGED <<leaseVars, journalVars, managerVars, startupVars, closingVars, recovery>>
    <3> USE DEF RestTyped, AskedOnce, NothingIsInvented
    <3>1. CASE uploading /\ uploading' = FALSE /\ extension' = "exists"
               /\ UNCHANGED <<cloudSession, creating, deleting>>
      BY <1>6, <3>1 DEF RemoteStep
    <3>2. CASE creating /\ creating' = FALSE /\ cloudSession' = "running"
               /\ UNCHANGED <<extension, uploading, deleting>>
      BY <1>6, <3>2 DEF RemoteStep
    <3>3. CASE deleting /\ deleting' = FALSE /\ extension' = "deleted"
               /\ UNCHANGED <<cloudSession, uploading, creating>>
      BY <1>6, <3>3 DEF RemoteStep
    <3>4. CASE cloudSession = "running" /\ cloudSession' = "retired"
               /\ UNCHANGED <<extension, uploading, creating, deleting>>
      BY <1>6, <3>4 DEF RemoteStep
    <3> QED BY <1>6, <3>1, <3>2, <3>3, <3>4 DEF RemoteStep
  <2>3. Rest'
      <3>11. RestTyped'
        BY <1>6, <2>2 DEF RemoteStep, RestTyped
      <3>12. LeasesFollow'
        BY <1>0, <1>6, <2>1 DEF RemoteStep, LeasesFollow, Task
      <3>13. NothingIsInvented'
        BY <1>0, <1>6, <2>1 DEF RemoteStep, NothingIsInvented, Honest, Named, World, Task
      <3>14. AskedOnce'
        BY <1>6, <2>1, <2>2 DEF AskedOnce, Task
      <3>15. AllocationIsRecorded'
        BY <1>0, <1>6, <2>1 DEF RemoteStep, AllocationIsRecorded, Task, AskedOnce
      <3>16. SettledIsClean'
        BY <1>6 DEF RemoteStep, SettledIsClean
      <3> QED BY <3>11, <3>12, <3>13, <3>14, <3>15, <3>16 DEF Rest
  <2> QED BY <1>0, <2>1, <2>3, StepIsKept
<1>7. CASE UNCHANGED nativeVars
  <2>1. RowKept /\ snapshot' = snapshot
    BY <1>7, RowUntouched DEF nativeVars, RowsTyped, RowsAreHonest
  <2>3. Rest'
      <3>11. RestTyped'
        BY <1>0, <1>7, <2>1 DEF nativeVars, RestTyped, Stages
      <3>12. LeasesFollow'
        BY <1>0, <1>7, <2>1 DEF nativeVars, LeasesFollow, Task
      <3>13. NothingIsInvented'
        BY <1>0, <1>7, <2>1 DEF nativeVars, NothingIsInvented, Honest, Named, World, Task
      <3>14. AskedOnce'
        BY <1>0, <1>7, <2>1 DEF nativeVars, AskedOnce, Task
      <3>15. AllocationIsRecorded'
        BY <1>0, <1>7, <2>1 DEF nativeVars, AllocationIsRecorded, Task, AskedOnce
      <3>16. SettledIsClean'
        BY <1>0, <1>7, <2>1 DEF nativeVars, SettledIsClean, Active, LeasesFollow, AskedOnce
      <3> QED BY <3>11, <3>12, <3>13, <3>14, <3>15, <3>16 DEF Rest
  <2> QED BY <1>0, <2>1, <2>3, StepIsKept
<1> QED BY <1>1, <1>2, <1>3, <1>4, <1>5, <1>6, <1>7 DEF NativeNext

(* The journal, the startup and every recovery agree with the provider.    *)
THEOREM JournalIsTruthful == NativeSpec => []NativeInvariant
<1>1. NativeInit => NativeInvariant
  <2> SUFFICES ASSUME NativeInit PROVE NativeInvariant
    OBVIOUS
  <2> USE DEF NativeInit
  <2>1. Absent \in Resources /\ Absent.state = "absent" /\ ~Absent.ext /\ ~Absent.ses
    BY DEF Absent, Intent, Resource, Resources
  <2> DEFINE t == [pc |-> "idle", resource |-> Absent, proof |-> FALSE, found |-> FALSE,
                   sure |-> FALSE, removed |-> FALSE]
  <2>2. t \in Tasks /\ t.resource = Absent /\ t.pc = "idle" /\ ~t.sure
    BY <2>1 DEF Tasks, Positions
  <2>3. recovery = [g \in Recoverers |-> t]
    OBVIOUS
  <2> HIDE DEF t
  <2>4. RowsTyped /\ RestTyped
    <3>1. recovery \in [Recoverers -> Tasks]
      BY <2>2, <2>3
    <3>2. RowsTyped
      BY <2>1 DEF RowsTyped
    <3>3. generation \in Nat \ {0} /\ owner \in {0, generation} /\ manager \in Resources
      BY <2>1
    <3>4. startup \in Stages
      BY DEF Stages
    <3> QED BY <3>1, <3>2, <3>3, <3>4 DEF RestTyped
  <2>5. LeasesFollow /\ RowsAreHonest /\ NothingIsInvented
    BY <2>1, <2>2, <2>3 DEF LeasesFollow, RowsAreHonest, NothingIsInvented, Honest, Named, Task
  <2>6. AskedOnce /\ AllocationIsRecorded /\ DeletionNamesAll /\ SettledIsClean
    BY <2>1, <2>2, <2>3 DEF AskedOnce, AllocationIsRecorded, DeletionNamesAll, SettledIsClean, Task
  <2> QED BY <2>4, <2>5, <2>6 DEF NativeInvariant, NativeTypes
<1>2. NativeInvariant /\ [NativeNext]_nativeVars => NativeInvariant'
  BY NativeStepKeeps
<1> QED BY <1>1, <1>2, PTL DEF NativeSpec

(* A job is settled when nothing of it is left at the provider or can      *)
(* still appear there: neither session nor extension (finish(),            *)
(* recover()).                                                             *)
THEOREM SettledLeavesNothing == NativeSpec => []SettledIsClean
<1>1. NativeInvariant => SettledIsClean
  BY DEF NativeInvariant
<1> QED BY <1>1, JournalIsTruthful, PTL

(* The journal calls an extension deleted when it is, and never again      *)
(* anything else, whichever delayed answer arrives                         *)
(* (mergeNativeResource(), reconcileNativeResource()).                     *)
THEOREM DeletedStaysDeleted == NativeSpec => DeletedIsFinal
<1>1. NativeInvariant /\ NativeInvariant' /\ [NativeNext]_nativeVars =>
        /\ snapshot.state = "deleted" => snapshot'.state = "deleted"
        /\ snapshot'.state = "deleted" => extension' = "deleted"
  BY NativeStepKeeps DEF DeletedStays, NativeInvariant, RowsAreHonest, Honest
<1> QED BY <1>1, JournalIsTruthful, PTL DEF NativeSpec, DeletedIsFinal
=============================================================================
