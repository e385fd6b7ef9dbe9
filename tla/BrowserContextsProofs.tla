------------------------ MODULE BrowserContextsProofs ------------------------
(***************************************************************************)
(* Proofs about BrowserContexts, for any number of contexts and jobs.      *)
(***************************************************************************)
EXTENDS BrowserContexts, TLAPS

-----------------------------------------------------------------------------
(* The inductive invariant, in named parts.                                *)

Retiring == {"deleting", "deletion_unknown", "deleted"}

(* A job beyond the queue has selected a context. *)
Selected == \A j \in Jobs : stage[j] # "none" => context[j] \in Contexts

(* The lease, the execution and the browser belong to an unsettled job. *)
Unsettled ==
  \A j \in Jobs :
    /\ lease[j] => stage[j] = "leased"
    /\ step[j] \in {"start", "creating", "inspecting", "ready", "stopped"} =>
         stage[j] = "leased" /\ session[j] = "none"
    /\ session[j] # "none" => stage[j] \in {"leased", "clean", "failed", "recovered"}
    /\ Live(j) => stage[j] = "leased"

(* An unsettled job holds its context, and nobody else does. *)
Holds ==
  /\ \A j \in Jobs : stage[j] = "leased" => held[context[j]] = j
  /\ \A c \in Contexts : held[c] # NULL =>
       stage[held[c]] = "leased" /\ context[held[c]] = c

(* A context whose deletion has begun is held by nobody. *)
Retirement ==
  \A c \in Contexts : /\ deletion[c] # "none" => status[c] \in Retiring
                      /\ status[c] \in Retiring => held[c] = NULL

(* The provider saves only while the job that persisted is unsettled, or    *)
(* the delay after its settlement runs.                                     *)
Saving ==
  \A c \in Contexts :
    /\ waits[c] => /\ held[c] = NULL
                   /\ status[c] \in {"persisting", "quarantined", "revoked"}
    /\ c \in saving => \/ waits[c]
                       \/ \E j \in Jobs : /\ held[c] = j
                                          /\ session[j] = "over"
                                          /\ persist[j]

(* An unclean end takes the context out of use for good. *)
Unclean ==
  \A j \in Jobs : stage[j] \in {"failed", "recovered"} =>
    /\ held[context[j]] = NULL
    /\ status[context[j]] \in {"quarantined", "revoked"} \cup Retiring

IInv == Selected /\ Unsettled /\ Holds /\ Retirement /\ Saving /\ Unclean

-----------------------------------------------------------------------------
(* What the two largest operations do.                                     *)

(* retireOne() leaves a row alone or puts it on its way out, and a row it   *)
(* touches is neither held nor waited for; a DELETE only leaves for those.  *)
LEMMA RetireOneEffect ==
  ASSUME TypeOK, Retirement, Saving, RetireOne
  PROVE  /\ status' \in [Contexts -> Statuses]
         /\ deletion' \in [Contexts -> {"none", "sent", "heard"}]
         /\ \A c \in Contexts :
              \/ status'[c] = status[c] /\ deletion'[c] = deletion[c]
              \/ status'[c] \in Retiring /\ held[c] = NULL /\ ~waits[c]
PROOF
<1>1. PICK stale \in SUBSET {c \in Contexts : status[c] = "deleting"} :
        \/ status' = AgedStatus(stale) /\ UNCHANGED deletion
        \/ \E c \in Due(AgedStatus(stale), AgedRevoked) :
             /\ status' = [AgedStatus(stale) EXCEPT ![c] = RetiredStatus(c)]
             /\ deletion' = [deletion EXCEPT ![c] = IF known[c] THEN "sent" ELSE @]
  BY DEF RetireOne
<1>2. AgedStatus(stale) \in [Contexts -> Statuses]
  BY DEF TypeOK, AgedStatus, Statuses
<1>3. ASSUME NEW c \in Contexts
      PROVE  \/ AgedStatus(stale)[c] = status[c]
             \/ AgedStatus(stale)[c] \in Retiring /\ held[c] = NULL /\ ~waits[c]
  BY <1>3 DEF AgedStatus, Retirement, Saving, Retiring
<1>4. CASE status' = AgedStatus(stale) /\ UNCHANGED deletion
  BY <1>2, <1>3, <1>4 DEF TypeOK
<1>5. ASSUME NEW c \in Due(AgedStatus(stale), AgedRevoked),
             status' = [AgedStatus(stale) EXCEPT ![c] = RetiredStatus(c)],
             deletion' = [deletion EXCEPT ![c] = IF known[c] THEN "sent" ELSE @]
      PROVE  /\ status' \in [Contexts -> Statuses]
             /\ deletion' \in [Contexts -> {"none", "sent", "heard"}]
             /\ \A d \in Contexts :
                  \/ status'[d] = status[d] /\ deletion'[d] = deletion[d]
                  \/ status'[d] \in Retiring /\ held[d] = NULL /\ ~waits[d]
  <2>1. c \in Contexts /\ held[c] = NULL /\ ~waits[c]
    BY DEF Due, Rows
  <2>2. RetiredStatus(c) \in Retiring
    BY DEF RetiredStatus, Retiring
  <2>3. status'[c] = RetiredStatus(c) /\ \A d \in Contexts \ {c} : status'[d] = AgedStatus(stale)[d]
    BY <1>2, <1>5, <2>1
  <2>4. deletion' \in [Contexts -> {"none", "sent", "heard"}]
        /\ \A d \in Contexts \ {c} : deletion'[d] = deletion[d]
    BY <1>5, <2>1 DEF TypeOK
  <2>5. status' \in [Contexts -> Statuses]
    BY <1>2, <1>5, <2>1, <2>2 DEF Retiring, Statuses
  <2> QED
    BY <1>3, <2>1, <2>2, <2>3, <2>4, <2>5
<1> QED
  BY <1>1, <1>4, <1>5

(* A settlement leaves what a browser persisted waiting, and what an        *)
(* unclean end touched out of use.                                          *)
LEMMA SettleEffect ==
  ASSUME TypeOK, Selected, Holds, Saving, Unclean, NEW j \in Jobs, NEW outcome \in Stages,
         NEW never \in BOOLEAN, NEW clean \in BOOLEAN, NEW recovered \in BOOLEAN,
         stage[j] = "leased", session[j] = IF never THEN "none" ELSE "over",
         outcome \in {"failed", "recovered"} => ~never /\ (~clean \/ recovered),
         Settle(j, never, clean, recovered),
         stage' = [stage EXCEPT ![j] = outcome],
         UNCHANGED <<context, persist, session, saving>>
  PROVE  Saving' /\ Unclean'
PROOF
<1> DEFINE mine == context[j]
           delay == persist[j] /\ ~never
<1>1. mine \in Contexts /\ held[mine] = j /\ j # NULL
  BY NullAssumption DEF Selected, Holds
<1>2. /\ held'[mine] = NULL
      /\ waits'[mine] = delay
      /\ status'[mine] = SettledStatus(mine, Uncertain(mine, never, clean, recovered), delay)
  BY <1>1 DEF Settle
<1>3. \A c \in Contexts \ {mine} : held'[c] = held[c] /\ waits'[c] = waits[c] /\ status'[c] = status[c]
  BY DEF Settle
<1>4. Saving'
  <2> SUFFICES ASSUME NEW c \in Contexts
               PROVE  /\ waits'[c] => /\ held'[c] = NULL
                                      /\ status'[c] \in {"persisting", "quarantined", "revoked"}
                      /\ c \in saving' => \/ waits'[c]
                                          \/ \E k \in Jobs : /\ held'[c] = k
                                                             /\ session'[k] = "over"
                                                             /\ persist'[k]
    BY DEF Saving
  <2>1. CASE c # mine
    BY <1>3, <2>1 DEF Saving
  <2>2. CASE c = mine
    <3>1. delay => status'[mine] \in {"persisting", "quarantined", "revoked"}
      BY <1>2 DEF SettledStatus
    <3>2. mine \in saving => delay
      BY <1>1 DEF Saving
    <3> QED
      BY <1>2, <2>2, <3>1, <3>2
  <2> QED
    BY <2>1, <2>2
<1>5. Unclean'
  <2> SUFFICES ASSUME NEW k \in Jobs, stage'[k] \in {"failed", "recovered"}
               PROVE  /\ held'[context[k]] = NULL
                      /\ status'[context[k]] \in {"quarantined", "revoked"} \cup Retiring
    BY DEF Unclean
  <2>1. CASE k = j
    <3>1. Uncertain(mine, never, clean, recovered)
      BY <2>1 DEF TypeOK, Uncertain
    <3> QED
      BY <1>2, <2>1, <3>1 DEF SettledStatus
  <2>2. CASE k # j
    <3>1. stage[k] \in {"failed", "recovered"}
      BY <2>2 DEF TypeOK
    <3>2. context[k] \in Contexts \ {mine}
      BY <1>1, <3>1 DEF Selected, Unclean
    <3> QED
      BY <1>3, <3>1, <3>2 DEF Unclean
  <2> QED
    BY <2>1, <2>2
<1> QED
  BY <1>4, <1>5

(* The three ways in which a job is settled.                               *)
LEMMA SettlementStep ==
  ASSUME TypeOK, IInv, NEW j \in Jobs,
         FinishUnused(j) \/ (\E clean \in BOOLEAN : FinishClosed(j, clean)) \/ RecoverClosed(j)
  PROVE  Saving' /\ Unclean'
PROOF
<1>1. CASE FinishUnused(j)
  <2>1. stage[j] = "leased" /\ session[j] = "none"
    BY <1>1 DEF FinishUnused, IInv, Unsettled
  <2>2. Settle(j, TRUE, TRUE, FALSE) /\ stage' = [stage EXCEPT ![j] = "unused"]
        /\ UNCHANGED <<context, persist, session, saving>>
    BY <1>1 DEF FinishUnused, Leave, worldVars
  <2> QED
    BY <2>1, <2>2, SettleEffect DEF IInv, Stages
<1>2. ASSUME NEW clean \in BOOLEAN, FinishClosed(j, clean)
      PROVE  Saving' /\ Unclean'
  <2>1. stage[j] = "leased" /\ session[j] = "over"
    BY <1>2 DEF FinishClosed, IInv, Unsettled
  <2>2. Settle(j, FALSE, clean, FALSE)
        /\ stage' = [stage EXCEPT ![j] = IF clean THEN "clean" ELSE "failed"]
        /\ UNCHANGED <<context, persist, session, saving>>
    BY <1>2 DEF FinishClosed, Leave, worldVars
  <2> DEFINE outcome == IF clean THEN "clean" ELSE "failed"
  <2>3. outcome \in Stages /\ (outcome \in {"failed", "recovered"} => ~clean)
    BY DEF Stages
  <2> HIDE DEF outcome
  <2>4. stage' = [stage EXCEPT ![j] = outcome]
    BY <2>2 DEF outcome
  <2> QED
    BY <2>1, <2>2, <2>3, <2>4, SettleEffect, ZenonT(60) DEF IInv
<1>3. CASE RecoverClosed(j)
  <2>1. stage[j] = "leased" /\ session[j] = "over"
    BY <1>3 DEF RecoverClosed
  <2>2. Settle(j, FALSE, FALSE, TRUE) /\ stage' = [stage EXCEPT ![j] = "recovered"]
        /\ UNCHANGED <<context, persist, session, saving>>
    BY <1>3 DEF RecoverClosed, worldVars
  <2> QED
    BY <2>1, <2>2, SettleEffect DEF IInv, Stages
<1> QED
  BY <1>1, <1>2, <1>3

-----------------------------------------------------------------------------
(* The invariant is kept by every step.                                    *)

(* Every step keeps the types.                                            *)
THEOREM TypeStep == TypeOK /\ IInv /\ [Next]_vars => TypeOK'
PROOF
<1> SUFFICES ASSUME TypeOK, IInv, [Next]_vars PROVE TypeOK'
  OBVIOUS
<1> USE DEF TypeOK, Statuses, Stages, IInv, Selected, Unsettled, rowVars, jobVars, worldVars
<1>1. ASSUME NEW j \in Jobs, AssignSave(j)
      PROVE  TypeOK'
  BY <1>1 DEF AssignSave, Enqueue, Rows
<1>2. ASSUME NEW j \in Jobs, NEW c \in Contexts, NEW p \in BOOLEAN, AssignReturning(j, c, p)
      PROVE  TypeOK'
  BY <1>2 DEF AssignReturning, Enqueue
<1>3. ASSUME NEW j \in Jobs, Claim(j)
      PROVE  TypeOK'
  BY <1>3 DEF Claim, Eligible, Usable
<1>4. ASSUME NEW j \in Jobs, ContextUnavailable(j)
      PROVE  TypeOK'
  BY <1>4 DEF ContextUnavailable, Eligible
<1>5. ASSUME NEW j \in Jobs, Cancel(j)
      PROVE  TypeOK'
  BY <1>5 DEF Cancel
<1>6. ASSUME NEW j \in Jobs, Prepare(j)
      PROVE  TypeOK'
  <2>1. context[j] \in Contexts
    BY <1>6 DEF Prepare, Goes
  <2>2. step' \in [Jobs -> {"idle", "start", "creating", "inspecting", "ready", "running", "stopped"}]
    BY <1>6 DEF Prepare, Goes
  <2>3. \/ UNCHANGED <<rowVars, remote>>
        \/ /\ status' = [status EXCEPT ![context[j]] = "creating"]
           /\ dispatched' = [dispatched EXCEPT ![context[j]] = TRUE]
           /\ remote' = [remote EXCEPT ![context[j]] = "asked"]
           /\ UNCHANGED <<revoked, held, known, waits>>
    BY <1>6 DEF Prepare
  <2>4. UNCHANGED <<jobVars, session, saving, deletion, expired>>
    BY <1>6 DEF Prepare
  <2>5. CASE UNCHANGED <<rowVars, remote>>
    BY <2>2, <2>4, <2>5
  <2>6. CASE ~UNCHANGED <<rowVars, remote>>
    <3>1. status' \in [Contexts -> Statuses]
      BY <2>1, <2>3, <2>6
    <3>2. dispatched' \in [Contexts -> BOOLEAN]
      BY <2>1, <2>3, <2>6, ZenonT(60)
    <3>3. remote' \in [Contexts -> {"none", "asked", "exists", "refused", "gone"}]
      BY <2>1, <2>3, <2>6
    <3> QED
      BY <2>2, <2>3, <2>4, <2>6, <3>1, <3>2, <3>3
  <2> QED
    BY <2>5, <2>6
<1>7. ASSUME NEW j \in Jobs, ContextCreated(j)
      PROVE  TypeOK'
  BY <1>7 DEF ContextCreated, Goes, MayAct
<1>8. ASSUME NEW j \in Jobs, NEW b \in BOOLEAN, CreationUnconfirmed(j, b)
      PROVE  TypeOK'
  BY <1>8 DEF CreationUnconfirmed, Goes
<1>9. ASSUME NEW j \in Jobs, Inspected(j)
      PROVE  TypeOK'
  BY <1>9 DEF Inspected, Goes
<1>10. ASSUME NEW j \in Jobs, InspectionFailed(j)
      PROVE  TypeOK'
  BY <1>10 DEF InspectionFailed, Goes, Quarantine
<1>11. ASSUME NEW j \in Jobs, Launch(j)
      PROVE  TypeOK'
  BY <1>11 DEF Launch, Goes, MayAct
<1>12. ASSUME NEW j \in Jobs, FinishUnused(j)
      PROVE  TypeOK'
  BY <1>12, ZenonT(60) DEF FinishUnused, Settle, SettledStatus, Leave
<1>13. ASSUME NEW j \in Jobs, NEW b \in BOOLEAN, FinishClosed(j, b)
      PROVE  TypeOK'
  BY <1>13 DEF FinishClosed, Settle, SettledStatus, Leave
<1>14. ASSUME NEW j \in Jobs, FinishUnconfirmed(j)
      PROVE  TypeOK'
  BY <1>14 DEF FinishUnconfirmed, Quarantine, Leave
<1>15. ASSUME NEW j \in Jobs, LeaseLost(j)
      PROVE  TypeOK'
  BY <1>15 DEF LeaseLost
<1>16. ASSUME NEW j \in Jobs, RecoverClosed(j)
      PROVE  TypeOK'
  BY <1>16 DEF RecoverClosed, Settle, SettledStatus
<1>17. ASSUME NEW j \in Jobs, RecoverUnconfirmed(j)
      PROVE  TypeOK'
  BY <1>17 DEF RecoverUnconfirmed, Quarantine
<1>18. ASSUME NEW j \in Jobs, SessionAnswer(j)
      PROVE  TypeOK'
  BY <1>18 DEF SessionAnswer
<1>19. ASSUME NEW j \in Jobs, SessionEnds(j)
      PROVE  TypeOK'
  BY <1>19 DEF SessionEnds
<1>20. ASSUME NEW c \in Contexts, Revoke(c)
      PROVE  TypeOK'
  BY <1>20 DEF Revoke, CancelAll
<1>21. ASSUME NEW c \in Contexts, DeleteConfirmed(c)
      PROVE  TypeOK'
  BY <1>21 DEF DeleteConfirmed
<1>22. ASSUME NEW c \in Contexts, DeleteFailed(c)
      PROVE  TypeOK'
  BY <1>22 DEF DeleteFailed
<1>23. ASSUME NEW c \in Contexts, ContextAnswer(c)
      PROVE  TypeOK'
  BY <1>23 DEF ContextAnswer
<1>24. ASSUME NEW c \in Contexts, ContextDeleted(c)
      PROVE  TypeOK'
  BY <1>24 DEF ContextDeleted
<1>25. ASSUME NEW c \in Contexts, Saved(c)
      PROVE  TypeOK'
  BY <1>25 DEF Saved
<1>26. ASSUME NEW c \in Contexts, DelayElapses(c)
      PROVE  TypeOK'
  BY <1>26 DEF DelayElapses
<1>27. ASSUME NEW c \in Contexts, Expire(c)
      PROVE  TypeOK'
  BY <1>27 DEF Expire, Rows
<1>28. ASSUME RetireOne
      PROVE  TypeOK'
  <2>1. revoked' \in [Contexts -> BOOLEAN] /\ cancelled' \in [Jobs -> BOOLEAN]
    BY <1>28 DEF RetireOne, AgedRevoked, CancelAll
  <2>2. status' \in [Contexts -> Statuses] /\ deletion' \in [Contexts -> {"none", "sent", "heard"}]
    BY <1>28, RetireOneEffect
  <2>3. UNCHANGED <<held, known, waits, dispatched, stage, context, persist, lease,
                    step, session, remote, saving, expired>>
    BY <1>28 DEF RetireOne
  <2> QED
    BY <2>1, <2>2, <2>3
<1>29. CASE UNCHANGED vars
  BY <1>29, SMTT(60) DEF vars
<1> HIDE DEF TypeOK, Statuses, Stages, IInv, Selected, Unsettled
<1>30. ASSUME NEW j \in Jobs, JobNext(j)
       PROVE  TypeOK'
  BY <1>1, <1>2, <1>3, <1>4, <1>5, <1>6, <1>7, <1>8, <1>9, <1>10, <1>11, <1>12, <1>13,
     <1>14, <1>15, <1>16, <1>17, <1>18, <1>19, <1>30, Zenon DEF JobNext, Execution
<1>31. ASSUME NEW c \in Contexts, ContextNext(c)
       PROVE  TypeOK'
  BY <1>20, <1>21, <1>22, <1>23, <1>24, <1>25, <1>26, <1>27, <1>31, Zenon DEF ContextNext
<1> QED
  BY <1>28, <1>29, <1>30, <1>31, Zenon DEF Next

(* Every step keeps the invariant; a settlement needs the effect above.    *)
THEOREM InvariantStep == TypeOK /\ IInv /\ [Next]_vars => IInv'
PROOF
<1> SUFFICES ASSUME TypeOK, IInv, [Next]_vars PROVE IInv'
  OBVIOUS
<1>1. ASSUME NEW j \in Jobs, FinishUnused(j)
      PROVE  IInv'
  <2>1. Saving' /\ Unclean'
    BY <1>1, SettlementStep
  <2>2. Selected' /\ Unsettled' /\ Holds' /\ Retirement'
    BY <1>1, NullAssumption
    DEF FinishUnused, Settle, SettledStatus, Leave, TypeOK, IInv, Selected, Unsettled, Holds, Retirement, Saving, Unclean,
        Live, Retiring, Usable, Eligible, Lost, Statuses, rowVars, jobVars, worldVars
  <2> QED
    BY <2>1, <2>2 DEF IInv
<1>2. ASSUME NEW j \in Jobs, NEW b \in BOOLEAN, FinishClosed(j, b)
      PROVE  IInv'
  <2>1. Saving' /\ Unclean'
    BY <1>2, SettlementStep
  <2>2. Selected' /\ Unsettled' /\ Holds' /\ Retirement'
    BY <1>2, NullAssumption
    DEF FinishClosed, Settle, SettledStatus, Leave, TypeOK, IInv, Selected, Unsettled, Holds, Retirement, Saving, Unclean,
        Live, Retiring, Usable, Eligible, Lost, Statuses, rowVars, jobVars, worldVars
  <2> QED
    BY <2>1, <2>2 DEF IInv
<1>3. ASSUME NEW j \in Jobs, RecoverClosed(j)
      PROVE  IInv'
  <2>1. Saving' /\ Unclean'
    BY <1>3, SettlementStep
  <2>2. Selected' /\ Unsettled' /\ Holds' /\ Retirement'
    BY <1>3, NullAssumption
    DEF RecoverClosed, Settle, SettledStatus, TypeOK, IInv, Selected, Unsettled, Holds, Retirement, Saving, Unclean,
        Live, Retiring, Usable, Eligible, Lost, Statuses, rowVars, jobVars, worldVars
  <2> QED
    BY <2>1, <2>2 DEF IInv
<1> USE NullAssumption
    DEF TypeOK, IInv, Selected, Unsettled, Holds, Retirement, Saving, Unclean,
        Live, Retiring, Usable, Eligible, Lost, Statuses, rowVars, jobVars, worldVars
<1>4. ASSUME NEW j \in Jobs, AssignSave(j)
      PROVE  IInv'
  BY <1>4 DEF AssignSave, Enqueue, Rows
<1>5. ASSUME NEW j \in Jobs, NEW c \in Contexts, NEW p \in BOOLEAN, AssignReturning(j, c, p)
      PROVE  IInv'
  BY <1>5 DEF AssignReturning, Enqueue
<1>6. ASSUME NEW j \in Jobs, Claim(j)
      PROVE  IInv'
  BY <1>6 DEF Claim, Eligible, Usable
<1>7. ASSUME NEW j \in Jobs, ContextUnavailable(j)
      PROVE  IInv'
  BY <1>7 DEF ContextUnavailable, Eligible
<1>8. ASSUME NEW j \in Jobs, Cancel(j)
      PROVE  IInv'
  BY <1>8 DEF Cancel
<1>9. ASSUME NEW j \in Jobs, Prepare(j)
      PROVE  IInv'
  BY <1>9, SMTT(60) DEF Prepare, Goes, MayAct
<1>10. ASSUME NEW j \in Jobs, ContextCreated(j)
      PROVE  IInv'
  BY <1>10 DEF ContextCreated, Goes, MayAct
<1>11. ASSUME NEW j \in Jobs, NEW b \in BOOLEAN, CreationUnconfirmed(j, b)
      PROVE  IInv'
  BY <1>11 DEF CreationUnconfirmed, Goes
<1>12. ASSUME NEW j \in Jobs, Inspected(j)
      PROVE  IInv'
  BY <1>12 DEF Inspected, Goes
<1>13. ASSUME NEW j \in Jobs, InspectionFailed(j)
      PROVE  IInv'
  BY <1>13 DEF InspectionFailed, Goes, Quarantine
<1>14. ASSUME NEW j \in Jobs, Launch(j)
      PROVE  IInv'
  BY <1>14 DEF Launch, Goes, MayAct
<1>15. ASSUME NEW j \in Jobs, FinishUnconfirmed(j)
      PROVE  IInv'
  BY <1>15 DEF FinishUnconfirmed, Quarantine, Leave
<1>16. ASSUME NEW j \in Jobs, LeaseLost(j)
      PROVE  IInv'
  BY <1>16 DEF LeaseLost
<1>17. ASSUME NEW j \in Jobs, RecoverUnconfirmed(j)
      PROVE  IInv'
  BY <1>17 DEF RecoverUnconfirmed, Quarantine
<1>18. ASSUME NEW j \in Jobs, SessionAnswer(j)
      PROVE  IInv'
  BY <1>18 DEF SessionAnswer
<1>19. ASSUME NEW j \in Jobs, SessionEnds(j)
      PROVE  IInv'
  BY <1>19 DEF SessionEnds
<1>20. ASSUME NEW c \in Contexts, Revoke(c)
      PROVE  IInv'
  BY <1>20 DEF Revoke, CancelAll
<1>21. ASSUME NEW c \in Contexts, DeleteConfirmed(c)
      PROVE  IInv'
  BY <1>21 DEF DeleteConfirmed
<1>22. ASSUME NEW c \in Contexts, DeleteFailed(c)
      PROVE  IInv'
  BY <1>22 DEF DeleteFailed
<1>23. ASSUME NEW c \in Contexts, ContextAnswer(c)
      PROVE  IInv'
  BY <1>23 DEF ContextAnswer
<1>24. ASSUME NEW c \in Contexts, ContextDeleted(c)
      PROVE  IInv'
  BY <1>24 DEF ContextDeleted
<1>25. ASSUME NEW c \in Contexts, Saved(c)
      PROVE  IInv'
  BY <1>25 DEF Saved
<1>26. ASSUME NEW c \in Contexts, DelayElapses(c)
      PROVE  IInv'
  BY <1>26 DEF DelayElapses
<1>27. ASSUME NEW c \in Contexts, Expire(c)
      PROVE  IInv'
  BY <1>27 DEF Expire, Rows
<1>28. ASSUME RetireOne
      PROVE  IInv'
  <2>1. UNCHANGED <<held, waits, stage, context, persist, lease, step, session, saving>>
    BY <1>28 DEF RetireOne
  <2> QED
    BY <1>28, <2>1, RetireOneEffect
<1>29. CASE UNCHANGED vars
  BY <1>29 DEF vars
<1> HIDE DEF TypeOK, IInv
<1>30. ASSUME NEW j \in Jobs, JobNext(j)
       PROVE  IInv'
  BY <1>1, <1>2, <1>3, <1>4, <1>5, <1>6, <1>7, <1>8, <1>9, <1>10, <1>11, <1>12, <1>13,
     <1>14, <1>15, <1>16, <1>17, <1>18, <1>19, <1>30, Zenon DEF JobNext, Execution
<1>31. ASSUME NEW c \in Contexts, ContextNext(c)
       PROVE  IInv'
  BY <1>20, <1>21, <1>22, <1>23, <1>24, <1>25, <1>26, <1>27, <1>31, Zenon DEF ContextNext
<1> QED
  BY <1>28, <1>29, <1>30, <1>31, Zenon DEF Next

-----------------------------------------------------------------------------
(* The theorems.                                                           *)

(* The initial states satisfy the invariant.                              *)
LEMMA Initially == Init => TypeOK /\ IInv
PROOF
  BY DEF Init, TypeOK, Statuses, Stages, IInv, Selected, Unsettled, Holds, Retirement, Saving, Unclean,
         Live, Retiring

(* Every reachable state satisfies the invariant.                          *)
THEOREM ContextsConsistent == Spec => [](TypeOK /\ IInv)
PROOF
<1>1. TypeOK /\ IInv /\ [Next]_vars => TypeOK' /\ IInv'
  BY TypeStep, InvariantStep
<1> QED
  BY Initially, <1>1, PTL DEF Spec

(* Every column, the execution and the provider keep their types.          *)
THEOREM ContextsTypeCorrect == Spec => []TypeOK
PROOF
  BY ContextsConsistent, PTL

(* A browser that may be running holds its context, whose deletion has not *)
(* been asked for: leases, cancellations, revocations and expiry never     *)
(* take the context from under it.                                         *)
THEOREM BrowserKeepsContext == Spec => []BrowserHoldsContext
PROOF
<1>1. TypeOK /\ IInv => BrowserHoldsContext
  <2> SUFFICES ASSUME TypeOK, IInv, NEW j \in Jobs, Live(j)
               PROVE  held[context[j]] = j /\ deletion[context[j]] = "none"
    BY DEF BrowserHoldsContext
  <2>1. stage[j] = "leased"
    BY DEF IInv, Unsettled
  <2>2. held[context[j]] = j /\ context[j] \in Contexts
    BY <2>1 DEF IInv, Holds, Selected
  <2> QED
    BY <2>2, NullAssumption DEF IInv, Retirement
<1> QED
  BY <1>1, ContextsConsistent, PTL

(* While the provider saves a context, no browser is asked for on it and   *)
(* nothing deletes it.                                                     *)
THEOREM SavesComplete == Spec => []SavedBeforeReuse
PROOF
<1>1. TypeOK /\ IInv => SavedBeforeReuse
  <2> SUFFICES ASSUME TypeOK, IInv, NEW c \in saving
               PROVE  /\ deletion[c] = "none"
                      /\ \A j \in Jobs : context[j] = c => ~Live(j)
    BY DEF SavedBeforeReuse
  <2>1. c \in Contexts
    BY DEF TypeOK
  <2>2. deletion[c] = "none"
    BY <2>1, NullAssumption DEF IInv, Saving, Retirement, Retiring
  <2>3. ASSUME NEW j \in Jobs, context[j] = c
        PROVE  ~Live(j)
    <3>1. stage[j] = "leased" => held[c] = j
      BY <2>3 DEF IInv, Holds
    <3>2. held[c] = j => session[j] = "over"
      BY <2>1, NullAssumption DEF IInv, Saving
    <3> QED
      BY <3>1, <3>2 DEF IInv, Unsettled, Live
  <2> QED
    BY <2>2, <2>3
<1> QED
  BY <1>1, ContextsConsistent, PTL

(* No browser starts from the state that an unclean session left.          *)
THEOREM UncleanIsFinal == Spec => []OnlyCleanStateReused
PROOF
<1>1. TypeOK /\ IInv => OnlyCleanStateReused
  <2> SUFFICES ASSUME TypeOK, IInv, NEW j \in Jobs, NEW k \in Jobs,
                      Live(j), context[k] = context[j], stage[k] \in {"failed", "recovered"}
               PROVE  FALSE
    BY DEF OnlyCleanStateReused
  <2>1. held[context[j]] = j
    BY DEF IInv, Unsettled, Holds
  <2>2. held[context[j]] = NULL
    BY DEF IInv, Unclean
  <2> QED
    BY <2>1, <2>2, NullAssumption
<1> QED
  BY <1>1, ContextsConsistent, PTL
=============================================================================
