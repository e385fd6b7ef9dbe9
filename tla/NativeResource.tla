--------------------------- MODULE NativeResource ---------------------------
(***************************************************************************)
(* The uploaded extension of a public run: its manager                     *)
(* (execution/native-resources.ts), the browser that uses it               *)
(* (execution/native-browser.ts), its durable journal                      *)
(* (worker/native-journal.ts and nativeResource() to finish() and          *)
(* recover() in worker/repository.ts) and its recovery                     *)
(* (worker/cloud-recovery.ts).                                             *)
(*                                                                         *)
(* One job: generation 1 of its lease launches, every later one recovers.  *)
(* A task goes on after its lease was lost.  A request may take effect     *)
(* after its caller gave up, and an effect may never be answered.  There   *)
(* is at most one extension and one session, since only generation 1 asks  *)
(* for them and never twice: an identity is known or not.                  *)
(***************************************************************************)
EXTENDS Integers, FiniteSets

CONSTANTS
  MaxGeneration,   (* bound: claims of the job                             *)
  RecoveryLimit,   (* failed recoveries before an operator has to claim    *)
  MaxWriteFaults   (* bound: writes of the journal that fail               *)

VARIABLES
  generation, owner,       (* owner = 0: the lease expired                 *)
  cancelAsked,
  launch,                  (* "open", "quarantined", "settled"             *)
  recoveries, reference,   (* recovery_count; launches.session_reference   *)
  snapshot, journal,       (* native_resources, native_resource_events     *)
  (* the provider *)
  extension, cloudSession, uploading, creating, deleting,
  (* generation 1: manager, startup and cleanup *)
  manager, journalFailed, cleanup,
  startup, attempted, sessionKnown,
  closing, remoteEnded, released,
  (* later generations *)
  recovery,
  writeFaults

leaseVars == <<generation, owner, cancelAsked, launch, recoveries, reference>>
journalVars == <<snapshot, journal>>
providerVars == <<extension, cloudSession, uploading, creating, deleting>>
managerVars == <<manager, journalFailed, cleanup>>
startupVars == <<startup, attempted, sessionKnown>>
closingVars == <<closing, remoteEnded, released>>
nativeVars == <<leaseVars, journalVars, providerVars, managerVars, startupVars, closingVars,
                recovery, writeFaults>>

States == {"upload_intent", "not_dispatched", "uploaded", "upload_unconfirmed", "allocated",
           "quarantined", "delete_intent", "deleted", "delete_unconfirmed"}
Resource(state, ext, alloc, ses) ==
  [state |-> state, ext |-> ext, alloc |-> alloc, ses |-> ses]
Intent == Resource("upload_intent", FALSE, FALSE, FALSE)
Absent == [Intent EXCEPT !.state = "absent"]
Recoverers == 2..MaxGeneration
-----------------------------------------------------------------------------
(* mergeNativeResource() *)
Transitions ==
  [upload_intent |-> {"upload_intent", "not_dispatched", "uploaded", "upload_unconfirmed",
                      "quarantined"},
   not_dispatched |-> {"not_dispatched"},
   uploaded |-> {"uploaded", "allocated", "quarantined", "delete_intent"},
   upload_unconfirmed |-> {"upload_unconfirmed", "quarantined"},
   allocated |-> {"allocated", "uploaded", "quarantined", "delete_intent"},
   quarantined |-> {"quarantined", "delete_intent"},
   delete_intent |-> {"delete_intent", "deleted", "delete_unconfirmed", "quarantined"},
   delete_unconfirmed |-> {"delete_unconfirmed", "delete_intent", "deleted", "quarantined"},
   deleted |-> {"deleted"}]

(* A delayed upload may still name its extension after the quarantine.     *)
Merged(old, r) ==
  [state |-> IF old.state = "quarantined" /\ r.state = "uploaded" THEN "quarantined" ELSE r.state,
   ext |-> old.ext \/ r.ext, alloc |-> r.alloc, ses |-> old.ses \/ r.ses]

Mergeable(old, r) ==
  LET m == Merged(old, r) IN
  /\ m.state \in Transitions[old.state]
  /\ old.alloc /\ ~m.alloc =>
       old.state = "allocated" /\ m.state = "uploaded" /\ ~old.ses /\ ~r.ses
  /\ m.ses => m.alloc
  /\ m.state \in {"uploaded", "allocated", "delete_intent", "deleted", "delete_unconfirmed"} => m.ext

Discovered(old, r) ==
  Resource("quarantined", old.ext \/ r.ext, old.alloc \/ r.alloc, old.ses \/ r.ses)

(* reconcileNativeResource(): only entries that name something unknown are *)
(* folded into the row.  Faulty variant: the journal is replayed.          *)
NamesMore(old, r) == (r.ext /\ ~old.ext) \/ (r.ses /\ ~old.ses)
Folded(old, entries) ==
  IF entries = {} THEN old
  ELSE Resource("quarantined", old.ext \/ \E r \in entries : r.ext,
                old.alloc \/ \E r \in entries : r.alloc, old.ses \/ \E r \in entries : r.ses)
Replayed(old) == Folded(old, {r \in journal : r.ext \/ r.ses})
Reconciled(old) == Folded(old, {r \in journal : NamesMore(old, r)})

Save(r) == snapshot' = r /\ journal' = journal \cup {r}
Reconcile == IF snapshot = Absent THEN UNCHANGED journalVars ELSE Save(Reconciled(snapshot))

(* nativeResource(): a holder writes the row; whoever lost the lease only  *)
(* adds to the journal, and only an identity that nobody named before.     *)
Accepted(g, r) ==
  /\ owner = g
  /\ IF snapshot = Absent THEN r = Intent ELSE Mergeable(snapshot, r)

Gathered ==
  LET named == {r \in journal \cup {snapshot} : r.ext \/ r.ses} IN
  Resource("quarantined", \E r \in named : r.ext, \E r \in named : r.alloc, \E r \in named : r.ses)
Record(g, r, ok) ==
  \/ /\ ok /\ Accepted(g, r)
     /\ Save(IF snapshot = Absent THEN r ELSE Merged(snapshot, r))
     /\ UNCHANGED writeFaults
  \/ /\ ~ok /\ ~Accepted(g, r)
     /\ IF owner # g /\ snapshot # Absent /\ NamesMore(Gathered, r)
        THEN journal' = journal \cup {Discovered(Gathered, r)}
        ELSE UNCHANGED journal
     /\ UNCHANGED <<snapshot, writeFaults>>
  \/ /\ ~ok /\ writeFaults < MaxWriteFaults /\ writeFaults' = writeFaults + 1
     /\ UNCHANGED journalVars

(* nativePredispatchProof() *)
Proof(r, entries) ==
  /\ r.ext /\ ~r.alloc /\ ~r.ses
  /\ Intent \in entries
  /\ \A e \in entries : ~e.alloc /\ ~e.ses
  /\ \E e \in entries : e.ext
-----------------------------------------------------------------------------
(* The manager records what it is about to do, and remembers it even when  *)
(* the record fails.                                                       *)
Note(r, ok) ==
  /\ manager' = r
  /\ Record(1, r, ok)
  /\ journalFailed' = (journalFailed \/ ~ok)

Active == owner = 1 /\ ~cancelAsked /\ closing = "no"

(* upload() *)
NoteIntent ==
  /\ startup = "start"
  /\ IF Active
     THEN \E ok \in BOOLEAN : Note(Intent, ok) /\ startup' = IF ok THEN "intent" ELSE "failed"
     ELSE startup' = "failed" /\ UNCHANGED <<journalVars, writeFaults, manager, journalFailed>>
  /\ UNCHANGED <<leaseVars, providerVars, cleanup, attempted, sessionKnown, closingVars, recovery>>

Upload ==
  /\ startup = "intent"
  /\ IF Active THEN startup' = "uploading" /\ uploading' = TRUE
     ELSE startup' = "failed" /\ UNCHANGED uploading
  /\ UNCHANGED <<leaseVars, journalVars, extension, cloudSession, creating, deleting, managerVars,
                 attempted, sessionKnown, closingVars, recovery, writeFaults>>

UploadAnswers ==
  /\ startup = "uploading"
  /\ \E ok \in BOOLEAN :
       \/ /\ extension # "none"
          /\ Note([manager EXCEPT !.state = IF cleanup THEN "quarantined" ELSE "uploaded",
                                  !.ext = TRUE], ok)
          /\ startup' = IF ok /\ ~cleanup THEN "uploaded" ELSE "failed"
       \/ /\ Note([manager EXCEPT !.state =
                     IF cleanup THEN "quarantined" ELSE "upload_unconfirmed"], ok)
          /\ startup' = "failed"
  /\ UNCHANGED <<leaseVars, providerVars, cleanup, attempted, sessionKnown, closingVars, recovery>>

(* allocationAttempted(): the record comes first, and is taken back when   *)
(* nothing was dispatched after all.                                       *)
NoteAllocation ==
  /\ startup = "uploaded"
  /\ IF Active /\ ~cleanup /\ ~journalFailed
     THEN \E ok \in BOOLEAN :
            /\ Note([manager EXCEPT !.state = "allocated", !.alloc = TRUE], ok)
            /\ startup' = IF ok THEN "allocated" ELSE "failed"
     ELSE startup' = "failed" /\ UNCHANGED <<journalVars, writeFaults, manager, journalFailed>>
  /\ UNCHANGED <<leaseVars, providerVars, cleanup, attempted, sessionKnown, closingVars, recovery>>

Create ==
  /\ startup = "allocated"
  /\ IF Active
     THEN /\ startup' = "creating" /\ creating' = TRUE /\ attempted' = TRUE
          /\ UNCHANGED <<journalVars, writeFaults, manager, journalFailed>>
     ELSE /\ \E ok \in BOOLEAN : Note([manager EXCEPT !.state = "uploaded", !.alloc = FALSE], ok)
          /\ startup' = "failed" /\ UNCHANGED <<creating, attempted>>
  /\ UNCHANGED <<leaseVars, extension, cloudSession, uploading, deleting, cleanup, sessionKnown,
                 closingVars, recovery>>

(* sessionAllocated() *)
CreateAnswers ==
  /\ startup = "creating"
  /\ \/ /\ cloudSession # "none" /\ sessionKnown' = TRUE
        /\ \E ok \in BOOLEAN :
             /\ Note([manager EXCEPT !.ses = TRUE,
                        !.state = IF cleanup THEN "quarantined" ELSE manager.state], ok)
             /\ startup' = IF ok /\ ~cleanup THEN "created" ELSE "failed"
     \/ /\ startup' = "failed"
        /\ UNCHANGED <<journalVars, writeFaults, manager, journalFailed, sessionKnown>>
  /\ UNCHANGED <<leaseVars, providerVars, cleanup, attempted, closingVars, recovery>>

(* sessionReference() *)
Refer ==
  /\ startup = "created"
  /\ IF owner = 1 /\ snapshot.ses
     THEN reference' = TRUE /\ startup' = IF cancelAsked THEN "failed" ELSE "running"
     ELSE UNCHANGED reference /\ startup' = "failed"
  /\ UNCHANGED <<generation, owner, cancelAsked, launch, recoveries, journalVars, providerVars,
                 managerVars, attempted, sessionKnown, closingVars, recovery, writeFaults>>

StartupStep ==
  \/ NoteIntent \/ Upload \/ UploadAnswers \/ NoteAllocation \/ Create \/ CreateAnswers \/ Refer
-----------------------------------------------------------------------------
(* close() of the browser: after a failed start, at the end, or when the   *)
(* deadline passes, which may be while the session is being created.       *)
BeginClose ==
  /\ closing = "no"
  /\ startup \in {"failed", "creating", "created", "running"}
  /\ closing' = "reading"
  /\ UNCHANGED <<leaseVars, journalVars, providerVars, managerVars, startupVars, remoteEnded,
                 released,
                 recovery, writeFaults>>

(* The session is asked to end and read back, twice when it failed.  The   *)
(* SDK has to retire as well before the manager is told.                   *)
ReadBack ==
  /\ startup # "gone" /\ closing = "reading"
  /\ closing' = "read"
  /\ released' \in {FALSE, sessionKnown /\ cloudSession = "retired"}
  /\ remoteEnded' \in {FALSE, released'}
  /\ UNCHANGED <<leaseVars, journalVars, providerVars, managerVars, startupVars, recovery,
                 writeFaults>>

(* close() of the manager.                                                 *)
Retired == manager.ses /\ remoteEnded
Deletable == ~journalFailed /\ manager.ext /\ (manager.alloc => Retired)

CloseManager ==
  /\ startup # "gone" /\ closing = "read" /\ cleanup' = TRUE
  /\ \E ok \in BOOLEAN :
       IF manager \in {Absent, Intent}
       THEN /\ IF manager = Absent \/ journalFailed
               THEN UNCHANGED <<journalVars, writeFaults, manager, journalFailed>>
               ELSE Note([manager EXCEPT !.state = "not_dispatched"], ok)
            /\ closing' = "done" /\ UNCHANGED deleting
       ELSE IF Deletable
       THEN /\ Note([manager EXCEPT !.state = "delete_intent"], ok)
            /\ closing' = (IF ok THEN "deleting" ELSE "done") /\ deleting' = (deleting \/ ok)
       ELSE /\ Note([manager EXCEPT !.state = "quarantined"], ok)
            /\ closing' = "done" /\ UNCHANGED deleting
  /\ UNCHANGED <<leaseVars, extension, cloudSession, uploading, creating, startupVars, remoteEnded,
                 released,
                 recovery>>

(* Deleted only when the provider does not find it any more.               *)
DeleteAnswers ==
  /\ startup # "gone" /\ closing = "deleting" /\ closing' = "done"
  /\ \E ok \in BOOLEAN :
       \/ extension = "deleted" /\ Note([manager EXCEPT !.state = "deleted"], ok)
       \/ Note([manager EXCEPT !.state = "delete_unconfirmed"], ok)
  /\ UNCHANGED <<leaseVars, providerVars, cleanup, startupVars, remoteEnded, released, recovery>>

Known == IF snapshot = Absent THEN Absent ELSE Reconciled(snapshot)

Settled == launch' = "settled" /\ owner' = 0 /\ UNCHANGED recoveries
Deferred ==
  /\ recoveries' = recoveries + 1 /\ owner' = 0
  /\ launch' = IF recoveries' >= RecoveryLimit THEN "quarantined" ELSE "open"

(* finish().  Faulty variant: a quarantined extension is as good as none.  *)
Disposed(r) == r.state \in {"deleted", "not_dispatched", "quarantined"}
Removed(r) == r.state \in {"deleted", "not_dispatched"}
Confirmed(r) == (~attempted \/ released) /\ IF r = Absent THEN ~attempted ELSE Removed(r)

Finish ==
  /\ startup \in {"failed", "running"} /\ closing = "done"
  /\ startup' = "gone"
  /\ IF owner = 1 /\ (attempted \/ ~(reference \/ Known.alloc))
     THEN Reconcile /\ IF Confirmed(Known) THEN Settled ELSE Deferred
     ELSE UNCHANGED <<journalVars, launch, owner, recoveries>>
  /\ UNCHANGED <<generation, cancelAsked, reference, providerVars, managerVars, attempted,
                 sessionKnown, closingVars, recovery, writeFaults>>

CloseStep == BeginClose \/ ReadBack \/ CloseManager \/ DeleteAnswers \/ Finish

(* The process dies.  What it asked for may still happen. *)
Crash ==
  /\ startup # "gone" /\ startup' = "gone"
  /\ UNCHANGED <<leaseVars, journalVars, providerVars, managerVars, attempted, sessionKnown,
                 closingVars, recovery, writeFaults>>
-----------------------------------------------------------------------------
(* A recovery: claim(), or claimQuarantined() of an operator. *)
ClaimRecovery(g) ==
  /\ owner = 0 /\ launch # "settled" /\ g = generation + 1
  /\ generation' = g /\ owner' = g /\ launch' = "open"
  /\ recoveries' = IF launch = "quarantined" THEN 0 ELSE recoveries
  /\ recovery' = [recovery EXCEPT ![g].pc = "claimed"]
  /\ UNCHANGED <<cancelAsked, reference, journalVars, providerVars, managerVars, startupVars,
                 closingVars, writeFaults>>

Task(g) == recovery[g]
Becomes(g, task) == recovery' = [recovery EXCEPT ![g] = task]
MovesTo(g, pc) == Becomes(g, [Task(g) EXCEPT !.pc = pc])
restOfRecovery == <<leaseVars, providerVars, managerVars, startupVars, closingVars>>

(* What the recovery may take as proof that no session was ever asked for. *)
Undispatched(r, proof) ==
  /\ r # Absent /\ ~reference /\ ~r.alloc /\ ~r.ses
  /\ \/ r.state \in {"uploaded", "not_dispatched", "delete_intent", "delete_unconfirmed", "deleted"}
     \/ r.state = "quarantined" /\ proof

Begin(g) ==
  /\ Task(g).pc = "claimed"
  /\ IF owner = g
     THEN /\ Reconcile
          /\ LET r == Known
                 proof == Proof(Known, journal') IN
             Becomes(g, [Task(g) EXCEPT !.resource = r, !.proof = proof,
                           !.pc = IF Undispatched(r, proof) THEN "decide" ELSE "read"])
     ELSE MovesTo(g, "gone") /\ UNCHANGED journalVars
  /\ UNCHANGED <<restOfRecovery, writeFaults>>

(* The provider is read by id and by metadata, which may lag: sure only    *)
(* when the session was listed and is proved to have ended.                *)
Read(g) ==
  /\ Task(g).pc = "read"
  /\ \E found \in {FALSE, cloudSession # "none"} : \E sure \in {FALSE, found /\ cloudSession = "retired"} :
       Becomes(g, [Task(g) EXCEPT !.found = found, !.sure = sure, !.pc = "decide"])
  /\ UNCHANGED <<restOfRecovery, journalVars, writeFaults>>

(* A record of a recovery fails: without the lease it stops, otherwise it  *)
(* reports nothing confirmed.                                              *)
Fails(g) == MovesTo(g, IF owner = g THEN "report" ELSE "gone")

(* The session that the metadata names is the one that was asked for. *)
Unnamed(g) == Task(g).resource.alloc /\ ~Task(g).resource.ses /\ Task(g).sure

Adopt(g) ==
  /\ Task(g).pc = "decide" /\ Unnamed(g)
  /\ LET r == [Task(g).resource EXCEPT !.ses = TRUE] IN
     \E ok \in BOOLEAN :
       /\ Record(g, r, ok)
       /\ IF ok THEN Becomes(g, [Task(g) EXCEPT !.resource = r]) ELSE Fails(g)
  /\ UNCHANGED restOfRecovery

MayDelete(g) ==
  LET t == Task(g) IN
  t.resource.ext /\ (Undispatched(t.resource, t.proof) \/ (t.resource.ses /\ t.sure))

(* reconcileNative() *)
Decide(g) ==
  LET t == Task(g) r == t.resource IN
  /\ t.pc = "decide" /\ ~Unnamed(g)
  /\ IF r = Absent
     THEN MovesTo(g, "report") /\ UNCHANGED <<journalVars, writeFaults, deleting>>
     ELSE IF r.state = "not_dispatched" /\ Undispatched(r, t.proof)
     THEN /\ Becomes(g, [t EXCEPT !.pc = "report", !.removed = TRUE])
          /\ UNCHANGED <<journalVars, writeFaults, deleting>>
     ELSE IF ~MayDelete(g)
     THEN \E ok \in BOOLEAN :
            /\ Record(g, [r EXCEPT !.state = "quarantined"], ok)
            /\ IF ok THEN MovesTo(g, "report") ELSE Fails(g)
            /\ UNCHANGED deleting
     ELSE IF r.state = "deleted"
     THEN MovesTo(g, IF owner = g THEN "check" ELSE "gone") /\ UNCHANGED <<journalVars,
                                                                           writeFaults, deleting>>
     ELSE \E ok \in BOOLEAN :
            /\ Record(g, [r EXCEPT !.state = "delete_intent"], ok)
            /\ deleting' = (deleting \/ ok)
            /\ IF ok THEN MovesTo(g, "check") ELSE Fails(g)
  /\ UNCHANGED <<leaseVars, extension, cloudSession, uploading, creating, managerVars, startupVars,
                 closingVars>>

(* The request is answered and the extension looked up. *)
Check(g) ==
  LET t == Task(g) IN
  /\ t.pc = "check"
  /\ \E ok \in BOOLEAN :
       \/ /\ extension = "deleted" /\ Record(g, [t.resource EXCEPT !.state = "deleted"], ok)
          /\ IF ok THEN Becomes(g, [t EXCEPT !.pc = "report", !.removed = TRUE]) ELSE Fails(g)
       \/ /\ IF t.resource.state = "deleted" THEN UNCHANGED <<journalVars, writeFaults>>
             ELSE Record(g, [t.resource EXCEPT !.state = "delete_unconfirmed"], ok)
          /\ Fails(g)
  /\ UNCHANGED restOfRecovery

(* recover() *)
Undone(g, r) == Task(g).removed /\ ~Task(g).found /\ ~r.alloc /\ ~r.ses /\ Removed(r)
Ended(g, r) == Task(g).removed /\ Task(g).sure /\ r.ses /\ Removed(r)

Report(g) ==
  /\ Task(g).pc = "report"
  /\ MovesTo(g, "gone")
  /\ IF owner = g
     THEN Reconcile /\ IF Undone(g, Known) \/ Ended(g, Known) THEN Settled ELSE Deferred
     ELSE UNCHANGED <<journalVars, launch, owner, recoveries>>
  /\ UNCHANGED <<generation, cancelAsked, reference, providerVars, managerVars, startupVars,
                 closingVars, writeFaults>>

CrashRecovery(g) ==
  /\ Task(g).pc \notin {"idle", "gone"} /\ MovesTo(g, "gone")
  /\ UNCHANGED <<restOfRecovery, journalVars, writeFaults>>

RecoveryStep(g) == Begin(g) \/ Read(g) \/ Adopt(g) \/ Decide(g) \/ Check(g) \/ Report(g)
-----------------------------------------------------------------------------
(* The lease runs out; the owner asks to stop; the provider does what it   *)
(* was asked, some time; a session ends by itself or because it was told.  *)
LeaseExpires ==
  /\ owner # 0 /\ owner' = 0
  /\ UNCHANGED <<generation, cancelAsked, launch, recoveries, reference, journalVars, providerVars,
                 managerVars, startupVars, closingVars, recovery, writeFaults>>
CancelJob ==
  /\ ~cancelAsked /\ launch # "settled" /\ cancelAsked' = TRUE
  /\ UNCHANGED <<generation, owner, launch, recoveries, reference, journalVars, providerVars,
                 managerVars, startupVars, closingVars, recovery, writeFaults>>

RemoteStep ==
  /\ \/ uploading /\ uploading' = FALSE /\ extension' = "exists"
        /\ UNCHANGED <<cloudSession, creating, deleting>>
     \/ creating /\ creating' = FALSE /\ cloudSession' = "running"
        /\ UNCHANGED <<extension, uploading, deleting>>
     \/ deleting /\ deleting' = FALSE /\ extension' = "deleted"
        /\ UNCHANGED <<cloudSession, uploading, creating>>
     \/ cloudSession = "running" /\ cloudSession' = "retired"
        /\ UNCHANGED <<extension, uploading, creating, deleting>>
  /\ UNCHANGED <<leaseVars, journalVars, managerVars, startupVars, closingVars, recovery,
                 writeFaults>>

NativeInit ==
  /\ generation = 1 /\ owner = 1 /\ cancelAsked = FALSE /\ launch = "open"
  /\ recoveries = 0 /\ reference = FALSE
  /\ snapshot = Absent /\ journal = {}
  /\ extension = "none" /\ cloudSession = "none"
  /\ uploading = FALSE /\ creating = FALSE /\ deleting = FALSE
  /\ manager = Absent /\ journalFailed = FALSE /\ cleanup = FALSE
  /\ startup = "start" /\ attempted = FALSE /\ sessionKnown = FALSE
  /\ closing = "no" /\ remoteEnded = FALSE /\ released = FALSE
  /\ recovery = [g \in Recoverers |->
       [pc |-> "idle", resource |-> Absent, proof |-> FALSE, found |-> FALSE, sure |-> FALSE,
        removed |-> FALSE]]
  /\ writeFaults = 0

NativeNext ==
  \/ StartupStep \/ CloseStep \/ Crash \/ LeaseExpires \/ CancelJob \/ RemoteStep
  \/ \E g \in Recoverers : ClaimRecovery(g) \/ RecoveryStep(g) \/ CrashRecovery(g)

NativeSpec == NativeInit /\ [][NativeNext]_nativeVars
-----------------------------------------------------------------------------

(* A job is settled when nothing of it is left at the provider or can      *)
(* still appear there: neither session nor extension (finish(),            *)
(* recover()).                                                             *)
SettledIsClean ==
  launch = "settled" =>
    extension # "exists" /\ cloudSession # "running" /\ ~uploading /\ ~creating

(* The journal calls an extension deleted when it is, and never again      *)
(* anything else, whichever delayed answer arrives                         *)
(* (mergeNativeResource(), reconcileNativeResource()).                     *)
DeletedIsFinal ==
  [][/\ snapshot.state = "deleted" => snapshot'.state = "deleted"
     /\ snapshot'.state = "deleted" => extension' = "deleted"]_nativeVars
=============================================================================
