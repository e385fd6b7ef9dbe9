--------------------------- MODULE BrowserContexts ---------------------------
(***************************************************************************)
(* Saved browser contexts (server/workflows/contexts.ts) between the       *)
(* worker's queue, the provider and the owner who may revoke them.         *)
(*                                                                         *)
(* A job may run its browser on a saved context: one that it creates       *)
(* (mode "save") or an older one (mode "returning").  The row of the       *)
(* context records which job holds it.  The context is created remotely    *)
(* during the first job's execution, is saved by the provider for some     *)
(* seconds after a browser that persists has closed, and is deleted by the *)
(* worker loop once revoked or expired.                                    *)
(*                                                                         *)
(* One owner and one target scope: another owner or scope is refused       *)
(* without effect.  Leases, slots and money are the WorkerLease module's;  *)
(* here a job has its first lease, or has lost it and is left to recovery. *)
(* Every statement of a handler that runs after a remote call is an        *)
(* action, so a dead process is one whose next action never happens.       *)
(* "persistence" and "operation_token" are read by no decision and left    *)
(* out; of the operation log only what retireOne() reads is kept.          *)
(***************************************************************************)
EXTENDS Integers, FiniteSets

CONSTANTS
  Contexts,   (* rows of browser_contexts, numbered in creation order      *)
  Jobs,       (* jobs with a context selection                             *)
  NULL

ASSUME ContextsAssumption == Contexts \subseteq Nat
ASSUME NullAssumption == NULL \notin Jobs \cup Contexts

VARIABLES
  (* browser_contexts, a function of the context per column                *)
  status, revoked,
  held,        (* held_job, or NULL                                        *)
  known,       (* remote_id is stored                                      *)
  waits,       (* available_after is still ahead                           *)
  dispatched,  (* context_operations has a dispatched create               *)
  (* jobs and context_selections, a function of the job per column         *)
  stage,       (* status and outcome                                       *)
  context, persist, cancelled,
  lease,       (* the lease of the first claim is still good               *)
  (* memory, provider, time                                                *)
  step,        (* where the execution of the first claim stands            *)
  session,     (* the browser at the provider, one at most per job         *)
  remote,      (* the context at the provider                              *)
  saving,      (* contexts the provider is still saving                    *)
  deletion,    (* the DELETE request of a context                          *)
  expired      (* contexts whose expires_at has passed                     *)

rowVars == <<status, revoked, held, known, waits, dispatched>>
jobVars == <<stage, context, persist, cancelled, lease>>
worldVars == <<remote, saving, deletion, expired>>
vars == <<rowVars, jobVars, step, session, worldVars>>

Statuses == {"none", "pending", "creating", "available", "in_use", "persisting",
             "quarantined", "creation_unknown", "revoked", "deleting",
             "deletion_unknown", "deleted"}

(* A job leaves the queue "dropped" or leased; a leased job ends "unused"   *)
(* (no browser was asked for), "clean", "failed" (cleanup errors), or       *)
(* "recovered" by another process.                                          *)
Stages == {"none", "queued", "leased", "dropped", "unused", "clean", "failed", "recovered"}

TypeOK ==
  /\ status \in [Contexts -> Statuses]
  /\ revoked \in [Contexts -> BOOLEAN]
  /\ held \in [Contexts -> Jobs \cup {NULL}]
  /\ known \in [Contexts -> BOOLEAN]
  /\ waits \in [Contexts -> BOOLEAN]
  /\ dispatched \in [Contexts -> BOOLEAN]
  /\ stage \in [Jobs -> Stages]
  /\ context \in [Jobs -> Contexts \cup {NULL}]
  /\ persist \in [Jobs -> BOOLEAN]
  /\ cancelled \in [Jobs -> BOOLEAN]
  /\ lease \in [Jobs -> BOOLEAN]
  /\ step \in [Jobs -> {"idle", "start", "creating", "inspecting", "ready", "running", "stopped"}]
  /\ session \in [Jobs -> {"none", "asked", "running", "over", "refused"}]
  /\ remote \in [Contexts -> {"none", "asked", "exists", "refused", "gone"}]
  /\ saving \subseteq Contexts
  /\ deletion \in [Contexts -> {"none", "sent", "heard"}]
  /\ expired \subseteq Contexts

Init ==
  /\ status = [c \in Contexts |-> "none"]
  /\ revoked = [c \in Contexts |-> FALSE]
  /\ held = [c \in Contexts |-> NULL]
  /\ known = [c \in Contexts |-> FALSE]
  /\ waits = [c \in Contexts |-> FALSE]
  /\ dispatched = [c \in Contexts |-> FALSE]
  /\ stage = [j \in Jobs |-> "none"]
  /\ context = [j \in Jobs |-> NULL]
  /\ persist = [j \in Jobs |-> FALSE]
  /\ cancelled = [j \in Jobs |-> FALSE]
  /\ lease = [j \in Jobs |-> FALSE]
  /\ step = [j \in Jobs |-> "idle"]
  /\ session = [j \in Jobs |-> "none"]
  /\ remote = [c \in Contexts |-> "none"]
  /\ saving = {}
  /\ deletion = [c \in Contexts |-> "none"]
  /\ expired = {}

Rows == {c \in Contexts : status[c] # "none"}

First(c, S) == \A d \in S : c <= d

(* The jobs of a set are asked to stop. *)
CancelAll(jobs) == cancelled' = [j \in Jobs |-> cancelled[j] \/ j \in jobs]

-----------------------------------------------------------------------------
(* Admission: assign() inside the transaction that creates the run.         *)

Enqueue(j, c, p) ==
  /\ stage[j] = "none"
  /\ stage' = [stage EXCEPT ![j] = "queued"]
  /\ context' = [context EXCEPT ![j] = c]
  /\ persist' = [persist EXCEPT ![j] = p]
  /\ UNCHANGED <<cancelled, lease, step, session, worldVars>>

AssignSave(j) ==
  \E c \in Contexts \ Rows :
    /\ First(c, Contexts \ Rows)
    /\ status' = [status EXCEPT ![c] = "pending"]
    /\ UNCHANGED <<revoked, held, known, waits, dispatched>>
    /\ Enqueue(j, c, TRUE)

AssignReturning(j, c, p) ==
  /\ ~revoked[c]
  /\ c \notin expired
  /\ status[c] \in {"available", "persisting"}
  /\ UNCHANGED rowVars
  /\ Enqueue(j, c, p)

-----------------------------------------------------------------------------
(* The queue.                                                               *)

(* claim() looks only at jobs whose context is free or lost; a context that *)
(* may not be used ends the job, any other is taken with the launch.        *)
Lost(c) == revoked[c] \/ c \in expired

Eligible(j, c) ==
  /\ stage[j] = "queued"
  /\ ~cancelled[j]
  /\ Lost(c) \/ (held[c] = NULL /\ (status[c] = "persisting" => ~waits[c]))

Usable(c) == ~Lost(c) /\ status[c] \in {"pending", "available", "persisting"}

Claim(j) ==
  /\ Eligible(j, context[j])
  /\ Usable(context[j])
  /\ status' = [status EXCEPT ![context[j]] = "in_use"]
  /\ held' = [held EXCEPT ![context[j]] = j]
  /\ stage' = [stage EXCEPT ![j] = "leased"]
  /\ lease' = [lease EXCEPT ![j] = TRUE]
  /\ step' = [step EXCEPT ![j] = "start"]
  /\ UNCHANGED <<revoked, known, waits, dispatched, context, persist, cancelled, session,
                 worldVars>>

ContextUnavailable(j) ==
  /\ Eligible(j, context[j])
  /\ ~Usable(context[j])
  /\ stage' = [stage EXCEPT ![j] = "dropped"]
  /\ UNCHANGED <<rowVars, context, persist, cancelled, lease, step, session, worldVars>>

Cancel(j) ==
  /\ stage[j] \in {"queued", "leased"}
  /\ stage' = [stage EXCEPT ![j] = IF @ = "queued" THEN "dropped" ELSE @]
  /\ cancelled' = [cancelled EXCEPT ![j] = TRUE]
  /\ UNCHANGED <<rowVars, context, persist, lease, step, session, worldVars>>

-----------------------------------------------------------------------------
(* The execution of the first claim.                                        *)

(* assertLease() for work that a cancellation stops, with assertActive(). *)
MayAct(j) ==
  /\ lease[j]
  /\ ~cancelled[j]
  /\ held[context[j]] = j
  /\ ~Lost(context[j])
  /\ status[context[j]] \in {"in_use", "creating"}

Goes(j, from, to) ==
  /\ step[j] = from
  /\ step' = [step EXCEPT ![j] = to]

(* The first transaction of prepare(): the identity is there, or the one    *)
(* request that creates the context leaves behind its durable intent.       *)
Prepare(j) ==
  LET c == context[j]
  IN /\ MayAct(j)
     /\ status[c] = "in_use"
     /\ \/ /\ known[c]
           /\ Goes(j, "start", "inspecting")
           /\ UNCHANGED <<rowVars, remote>>
        \/ /\ ~known[c]
           /\ Goes(j, "start", "creating")
           /\ status' = [status EXCEPT ![c] = "creating"]
           /\ dispatched' = [dispatched EXCEPT ![c] = TRUE]
           /\ remote' = [remote EXCEPT ![c] = "asked"]
           /\ UNCHANGED <<revoked, held, known, waits>>
     /\ UNCHANGED <<jobVars, session, saving, deletion, expired>>

(* The reply with the new identity, while the execution may still act. *)
ContextCreated(j) ==
  LET c == context[j]
  IN /\ Goes(j, "creating", "inspecting")
     /\ remote[c] = "exists"
     /\ MayAct(j)
     /\ status' = [status EXCEPT ![c] = "in_use"]
     /\ known' = [known EXCEPT ![c] = TRUE]
     /\ UNCHANGED <<revoked, held, waits, dispatched, jobVars, session, worldVars>>

(* The reply came too late, was an error, or is lost.  An identity that did *)
(* arrive is stored all the same, for the deletion.                         *)
CreationUnconfirmed(j, arrived) ==
  LET c == context[j]
  IN /\ Goes(j, "creating", "stopped")
     /\ arrived => remote[c] = "exists" /\ ~MayAct(j)
     /\ status' = [status EXCEPT ![c] = "creation_unknown"]
     /\ known' = [known EXCEPT ![c] = @ \/ arrived]
     /\ UNCHANGED <<revoked, held, waits, dispatched, jobVars, session, worldVars>>

Inspected(j) ==
  /\ Goes(j, "inspecting", "ready")
  /\ MayAct(j)
  /\ UNCHANGED <<rowVars, jobVars, session, worldVars>>

(* Faulty variant: an expired lease releases the hold. *)
DropHold(j) ==
  /\ status' = [c \in Contexts |-> IF c = context[j] /\ held[c] = j THEN "available" ELSE status[c]]
  /\ held' = [c \in Contexts |-> IF c = context[j] /\ held[c] = j THEN NULL ELSE held[c]]
  /\ UNCHANGED <<revoked, known, waits, dispatched>>

(* Without terminal proof a context stays held and goes out of use. *)
Quarantine(j) ==
  /\ status' = [c \in Contexts |-> IF c = context[j] /\ held[c] = j THEN "quarantined" ELSE status[c]]
  /\ UNCHANGED <<revoked, held, known, waits, dispatched>>

(* The read failed, or the execution may no longer act. *)
InspectionFailed(j) ==
  /\ Goes(j, "inspecting", "stopped")
  /\ Quarantine(j)
  /\ UNCHANGED <<jobVars, session, worldVars>>

(* The request for the browser leaves in the turn of its guard. *)
Launch(j) ==
  /\ Goes(j, "ready", "running")
  /\ MayAct(j)
  /\ session' = [session EXCEPT ![j] = "asked"]
  /\ UNCHANGED <<rowVars, jobVars, worldVars>>

(* Heartbeats stop, or the lease runs out: every later fence fails. *)
LeaseLost(j) ==
  /\ lease[j]
  /\ lease' = [lease EXCEPT ![j] = FALSE]
  /\ UNCHANGED <<rowVars, stage, context, persist, cancelled, step, session, worldVars>>

-----------------------------------------------------------------------------
(* Settlement: settle() inside finish() and recover().                      *)

Uncertain(c, never, clean, recovered) ==
  \/ status[c] \in {"creating", "creation_unknown", "quarantined"}
  \/ ~never /\ (~clean \/ recovered)

SettledStatus(c, uncertain, delay) ==
  CASE revoked[c] -> "revoked"
    [] ~revoked[c] /\ uncertain -> "quarantined"
    [] ~revoked[c] /\ ~uncertain /\ delay -> "persisting"
    [] OTHER -> IF known[c] THEN "available" ELSE "pending"

(* A confirmed end releases the hold; what a browser persisted is waited for. *)
Settle(j, never, clean, recovered) ==
  LET delay == persist[j] /\ ~never
      mine(c) == c = context[j] /\ held[c] = j
  IN /\ held' = [c \in Contexts |-> IF mine(c) THEN NULL ELSE held[c]]
     /\ waits' = [c \in Contexts |-> IF mine(c) THEN delay ELSE waits[c]]
     /\ status' = [c \in Contexts |->
          IF mine(c) THEN SettledStatus(c, Uncertain(c, never, clean, recovered), delay) ELSE status[c]]
     /\ UNCHANGED <<revoked, known, dispatched>>

Leave(j, outcome) ==
  /\ stage' = [stage EXCEPT ![j] = outcome]
  /\ lease' = [lease EXCEPT ![j] = FALSE]
  /\ step' = [step EXCEPT ![j] = "idle"]
  /\ UNCHANGED <<context, persist, cancelled, session, worldVars>>

(* No browser was asked for: the execution failed, or was stopped, before. *)
FinishUnused(j) ==
  /\ lease[j]
  /\ step[j] \in {"start", "stopped", "ready"}
  /\ Settle(j, TRUE, TRUE, FALSE)
  /\ Leave(j, "unused")

(* The provider's terminal status was read; the local cleanup may have      *)
(* failed.                                                                  *)
FinishClosed(j, clean) ==
  /\ lease[j]
  /\ step[j] = "running"
  /\ session[j] = "over"
  /\ Settle(j, FALSE, clean, FALSE)
  /\ Leave(j, IF clean THEN "clean" ELSE "failed")

(* The end of the browser is not confirmed: the job is left to recovery. *)
FinishUnconfirmed(j) ==
  /\ lease[j]
  /\ step[j] = "running"
  /\ Quarantine(j)
  /\ Leave(j, "leased")

(* Another process claims the job for recovery: only a session found and    *)
(* terminal settles it.                                                     *)
RecoverClosed(j) ==
  /\ stage[j] = "leased"
  /\ ~lease[j]
  /\ session[j] = "over"
  /\ Settle(j, FALSE, FALSE, TRUE)
  /\ stage' = [stage EXCEPT ![j] = "recovered"]
  /\ UNCHANGED <<context, persist, cancelled, lease, step, session, worldVars>>

RecoverUnconfirmed(j) ==
  /\ stage[j] = "leased"
  /\ ~lease[j]
  /\ Quarantine(j)
  /\ UNCHANGED <<jobVars, step, session, worldVars>>

-----------------------------------------------------------------------------
(* Revocation and deletion.                                                 *)

Revoke(c) ==
  /\ status[c] \notin {"none", "deleted"}
  /\ revoked' = [revoked EXCEPT ![c] = TRUE]
  /\ status' = [status EXCEPT ![c] =
       IF held[c] = NULL /\ @ \notin {"deleting", "deletion_unknown"} THEN "revoked" ELSE @]
  /\ CancelAll({held[c]})
  /\ UNCHANGED <<held, known, waits, dispatched, stage, context, persist, lease, step, session,
                 worldVars>>

(* Deletions older than thirty seconds are given up. *)
AgedStatus(stale) == [c \in Contexts |-> IF c \in stale THEN "deletion_unknown" ELSE status[c]]

(* Expired contexts are revoked. *)
AgedRevoked == [c \in Contexts |-> revoked[c] \/ (c \in expired /\ status[c] # "deleted")]

(* Faulty variant: the synchronization delay is not awaited. *)
DueAtOnce(st, rev) ==
  {c \in Rows : /\ rev[c]
                /\ held[c] = NULL
                /\ st[c] \notin {"deleted", "deleting", "deletion_unknown"}}

(* What may be deleted now, given the aged columns. *)
Due(st, rev) ==
  {c \in Rows : /\ rev[c]
                /\ held[c] = NULL
                /\ st[c] \notin {"deleted", "deleting", "deletion_unknown"}
                /\ ~waits[c]}

RetiredStatus(c) ==
  CASE known[c] -> "deleting"
    [] ~known[c] /\ dispatched[c] -> "deletion_unknown"
    [] OTHER -> "deleted"

(* retireOne() up to its request: old deletions are given up, expired       *)
(* contexts revoked and the holders of revoked ones cancelled; then the     *)
(* oldest context that is due is deleted in the table, or its one DELETE    *)
(* leaves.                                                                  *)
RetireOne ==
  \E stale \in SUBSET {c \in Contexts : status[c] = "deleting"} :
    LET aged == AgedStatus(stale)
        due == Due(aged, AgedRevoked)
    IN /\ revoked' = AgedRevoked
       /\ CancelAll({held[c] : c \in {d \in Contexts : AgedRevoked[d]}})
       /\ \/ /\ due = {}
             /\ status' = aged
             /\ UNCHANGED deletion
          \/ \E c \in due :
               /\ First(c, due)
               /\ status' = [aged EXCEPT ![c] = RetiredStatus(c)]
               /\ deletion' = [deletion EXCEPT ![c] = IF known[c] THEN "sent" ELSE @]
       /\ UNCHANGED <<held, known, waits, dispatched, stage, context, persist, lease,
                      step, session, remote, saving, expired>>

(* The answer to the DELETE. *)
DeleteConfirmed(c) ==
  LET mine == known[c] /\ status[c] \in {"deleting", "deletion_unknown"}
  IN /\ deletion[c] = "sent"
     /\ remote[c] = "gone"
     /\ status' = [status EXCEPT ![c] = IF mine THEN "deleted" ELSE @]
     /\ known' = [known EXCEPT ![c] = @ /\ ~mine]
     /\ deletion' = [deletion EXCEPT ![c] = "heard"]
     /\ UNCHANGED <<revoked, held, waits, dispatched, jobVars, step, session, remote, saving,
                    expired>>

DeleteFailed(c) ==
  /\ deletion[c] = "sent"
  /\ status' = [status EXCEPT ![c] = IF @ = "deleting" THEN "deletion_unknown" ELSE @]
  /\ deletion' = [deletion EXCEPT ![c] = "heard"]
  /\ UNCHANGED <<revoked, held, known, waits, dispatched, jobVars, step, session, remote, saving,
                 expired>>

-----------------------------------------------------------------------------
(* The provider and the clock.                                              *)

ContextAnswer(c) ==
  /\ remote[c] = "asked"
  /\ \E answer \in {"exists", "refused"} : remote' = [remote EXCEPT ![c] = answer]
  /\ UNCHANGED <<rowVars, jobVars, step, session, saving, deletion, expired>>

ContextDeleted(c) ==
  /\ deletion[c] # "none"
  /\ remote[c] = "exists"
  /\ remote' = [remote EXCEPT ![c] = "gone"]
  /\ UNCHANGED <<rowVars, jobVars, step, session, saving, deletion, expired>>

SessionAnswer(j) ==
  /\ session[j] = "asked"
  /\ \E answer \in {"running", "refused"} : session' = [session EXCEPT ![j] = answer]
  /\ UNCHANGED <<rowVars, jobVars, step, worldVars>>

(* A browser ends by request or by its timeout, and one that persists is    *)
(* then saved into its context.                                             *)
SessionEnds(j) ==
  /\ session[j] = "running"
  /\ session' = [session EXCEPT ![j] = "over"]
  /\ saving' = IF persist[j] THEN saving \cup {context[j]} ELSE saving
  /\ UNCHANGED <<rowVars, jobVars, step, remote, deletion, expired>>

Saved(c) ==
  /\ c \in saving
  /\ saving' = saving \ {c}
  /\ UNCHANGED <<rowVars, jobVars, step, session, remote, deletion, expired>>

(* Ten seconds after the settlement.  The provider needs less: that is the  *)
(* assumption CONTEXT_PERSIST_DELAY_MS stands for.                          *)
DelayElapses(c) ==
  /\ waits[c]
  /\ waits' = [waits EXCEPT ![c] = FALSE]
  /\ saving' = saving \ {c}
  /\ UNCHANGED <<status, revoked, held, known, dispatched, jobVars, step, session, remote,
                 deletion, expired>>

Expire(c) ==
  /\ c \in Rows \ expired
  /\ expired' = expired \cup {c}
  /\ UNCHANGED <<rowVars, jobVars, step, session, remote, saving, deletion>>

-----------------------------------------------------------------------------
(* What the worker's own process does next for a job it has claimed. *)
Execution(j) ==
  \/ Prepare(j)
  \/ ContextCreated(j)
  \/ \E arrived \in BOOLEAN : CreationUnconfirmed(j, arrived)
  \/ Inspected(j)
  \/ InspectionFailed(j)
  \/ Launch(j)
  \/ FinishUnused(j)
  \/ \E clean \in BOOLEAN : FinishClosed(j, clean)
  \/ FinishUnconfirmed(j)

JobNext(j) ==
  \/ AssignSave(j)
  \/ \E c \in Contexts, p \in BOOLEAN : AssignReturning(j, c, p)
  \/ Claim(j)
  \/ ContextUnavailable(j)
  \/ Cancel(j)
  \/ Execution(j)
  \/ LeaseLost(j)
  \/ RecoverClosed(j)
  \/ RecoverUnconfirmed(j)
  \/ SessionAnswer(j)
  \/ SessionEnds(j)

ContextNext(c) ==
  \/ Revoke(c)
  \/ DeleteConfirmed(c)
  \/ DeleteFailed(c)
  \/ ContextAnswer(c)
  \/ ContextDeleted(c)
  \/ Saved(c)
  \/ DelayElapses(c)
  \/ Expire(c)

Next ==
  \/ \E j \in Jobs : JobNext(j)
  \/ \E c \in Contexts : ContextNext(c)
  \/ RetireOne

Spec == Init /\ [][Next]_vars

-----------------------------------------------------------------------------
(* Properties.                                                              *)

Live(j) == session[j] \in {"asked", "running"}

(* A browser that may be running on a saved context belongs to the job that *)
(* holds the context, whatever became of its lease, of the context's expiry *)
(* or of its owner's wish to revoke it; so no two browsers share a context, *)
(* and the request that deletes a context is never sent under a browser.    *)
BrowserHoldsContext ==
  \A j \in Jobs : Live(j) => /\ held[context[j]] = j
                            /\ deletion[context[j]] = "none"

(* What a browser left behind is saved before anybody relies on it: while   *)
(* the provider saves a context no browser is asked for on it and no        *)
(* request deletes it.  (The delay of ten seconds starts at the settlement, *)
(* on four different paths, and claim() and retireOne() each check it.)     *)
SavedBeforeReuse ==
  \A c \in saving : /\ deletion[c] = "none"
                    /\ \A j \in Jobs : context[j] = c => ~Live(j)

(* The state a browser starts from was left by browsers that the worker     *)
(* itself closed without an error: never by one that recovery found         *)
(* closed, and never by one whose cleanup failed.                           *)
OnlyCleanStateReused ==
  \A j, k \in Jobs :
    Live(j) /\ context[k] = context[j] => stage[k] \notin {"failed", "recovered"}

=============================================================================
