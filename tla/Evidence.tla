------------------------------ MODULE Evidence ------------------------------
(***************************************************************************)
(* The evidence of one attempt: files that ArtifactWriter                  *)
(* (execution/artifacts.ts) writes under a lock and a budget, rows that    *)
(* the worker (worker/runtime.ts, worker/repository.ts) registers, and the *)
(* report that reads both (reports/service.ts, reports/artifacts.ts).      *)
(*                                                                         *)
(* A save is one call of a sink.  The writer serializes independent        *)
(* processes, so each save takes its steps on its own: its process may die *)
(* between any two, and every operation on the file system may fail.       *)
(* Left out: what is in a file and its redaction, paths and permissions,   *)
(* and the limit of 100 steps.                                             *)
(***************************************************************************)
EXTENDS Integers, FiniteSets

CONSTANTS
  Saves,           (* calls of a sink                                       *)
  CleanupSaves,    (* those made by the cleanup, allowed when cancelled     *)
  AttemptFiles,    (* 128 *)
  AttemptBytes     (* 32 MiB, in units; a file has one or two of them       *)

ASSUME SavesAssumption == IsFiniteSet(Saves) /\ "free" \notin Saves
ASSUME BudgetAssumption == AttemptFiles \in Nat /\ AttemptBytes \in Nat

VARIABLES
  file,            (* of each save: "none", "partial" or "whole"            *)
  bytes,           (* its size, once drawn                                  *)
  writeLock,       (* the save that created .write-lock, or "free"          *)
  saveStep,        (* where the save is                                     *)
  leased, runCancelled,
  rows,            (* evidence rows, by save                                *)
  steps,           (* saves that an attempt step and its event refer to     *)
  report           (* the report underway: rows to load and their states    *)

evidenceVars == <<file, bytes, writeLock, saveStep, leased, runCancelled, rows, steps, report>>

Stored == {s \in Saves : file[s] # "none"}
Units == {u \in Stored \X (1..2) : u[2] <= bytes[u[1]]}
TotalBytes == Cardinality(Units)
SaveGoes(s, from, to) == saveStep[s] = from /\ saveStep' = [saveStep EXCEPT ![s] = to]
-----------------------------------------------------------------------------
(* assertLease(): the lease is read again at every use. *)
Allowed(s) == leased /\ (s \in CleanupSaves \/ ~runCancelled)

BeginSave(s) ==
  /\ Allowed(s) /\ SaveGoes(s, "idle", "locking")
  /\ \E size \in 1..2 : bytes' = [bytes EXCEPT ![s] = size]
  /\ UNCHANGED <<file, writeLock, leased, runCancelled, rows, steps, report>>

(* The lock file is created exclusively.  Faulty variant: after five       *)
(* seconds of waiting it is taken from whoever has it.                     *)
Stolen == TRUE
LockFree == writeLock = "free"

Acquire(s) ==
  /\ LockFree /\ SaveGoes(s, "locking", "counting") /\ writeLock' = s
  /\ UNCHANGED <<file, bytes, leased, runCancelled, rows, steps, report>>

(* "Artifact writer is busy": another save, or one that died, has it. *)
Busy(s) ==
  /\ writeLock # "free" /\ SaveGoes(s, "locking", "failed")
  /\ UNCHANGED <<file, bytes, writeLock, leased, runCancelled, rows, steps, report>>

(* The directory is counted.  A file that a failure left behind counts too,*)
(* here with the size it was to have.                                      *)
Room(s) == Cardinality(Stored) < AttemptFiles /\ TotalBytes + bytes[s] <= AttemptBytes

CountFiles(s) ==
  /\ SaveGoes(s, "counting", IF Room(s) THEN "opening" ELSE "refused")
  /\ UNCHANGED <<file, bytes, writeLock, leased, runCancelled, rows, steps, report>>

OpenFile(s) ==
  /\ SaveGoes(s, "opening", "writing") /\ file' = [file EXCEPT ![s] = "partial"]
  /\ UNCHANGED <<bytes, writeLock, leased, runCancelled, rows, steps, report>>

WriteFile(s) ==
  /\ SaveGoes(s, "writing", "written") /\ file' = [file EXCEPT ![s] = "whole"]
  /\ UNCHANGED <<bytes, writeLock, leased, runCancelled, rows, steps, report>>

(* What is left of a write that failed is removed, if that works, and the  *)
(* save fails.  Faulty variant: its caller gets a reference all the same.  *)
ReferenceAfterFailure == "written"
FailedSave == "refused"

WriteFails(s) ==
  /\ \/ SaveGoes(s, "opening", FailedSave) /\ UNCHANGED file
     \/ /\ SaveGoes(s, "writing", FailedSave)
        /\ file' = [file EXCEPT ![s] = "none"] \/ UNCHANGED file
  /\ UNCHANGED <<bytes, writeLock, leased, runCancelled, rows, steps, report>>

(* The lock file is removed; if it cannot be, it blocks every later save. *)
Release(s) ==
  /\ SaveGoes(s, "written", "returned") \/ SaveGoes(s, "refused", "failed")
  /\ writeLock' = "free" \/ UNCHANGED writeLock
  /\ UNCHANGED <<file, bytes, leased, runCancelled, rows, steps, report>>

SaverDies(s) ==
  /\ saveStep[s] \notin {"idle", "failed", "recorded", "dead"} /\ SaveGoes(s, saveStep[s], "dead")
  /\ UNCHANGED <<file, bytes, writeLock, leased, runCancelled, rows, steps, report>>
-----------------------------------------------------------------------------
(* save() and cleanupJson(): the lease is checked again, in the            *)
(* transaction that inserts the row.                                       *)
Register(s) ==
  /\ IF Allowed(s) THEN SaveGoes(s, "returned", "registered") /\ rows' = rows \cup {s}
     ELSE SaveGoes(s, "returned", "failed") /\ UNCHANGED rows
  /\ UNCHANGED <<file, bytes, writeLock, leased, runCancelled, steps, report>>

(* onEvent() goes on to record the step the evidence is of; other saves    *)
(* end with their row.                                                     *)
RecordStep(s) ==
  /\ IF Allowed(s) /\ s \notin CleanupSaves /\ s \in rows
     THEN SaveGoes(s, "registered", "recorded") /\ steps' = steps \cup {s}
     ELSE SaveGoes(s, "registered", "failed") /\ UNCHANGED steps
  /\ UNCHANGED <<file, bytes, writeLock, leased, runCancelled, rows, report>>

LeaseEnds ==
  /\ leased /\ leased' = FALSE
  /\ UNCHANGED <<file, bytes, writeLock, saveStep, runCancelled, rows, steps, report>>

CancelAttempt ==
  /\ ~runCancelled /\ runCancelled' = TRUE
  /\ UNCHANGED <<file, bytes, writeLock, saveStep, leased, rows, steps, report>>
-----------------------------------------------------------------------------
NoReport == [left |-> {}, loaded |-> {}]

(* ReportService.report(): the rows are read in one transaction, *)
BeginReport ==
  /\ report = NoReport /\ rows # {} /\ report' = [left |-> rows, loaded |-> {}]
  /\ UNCHANGED <<file, bytes, writeLock, saveStep, leased, runCancelled, rows, steps>>

(* then every file of theirs is opened and read: the size is compared      *)
(* before and after, and a file that cannot be read is unavailable.        *)
StateOf(s) ==
  CASE file[s] = "none" -> {"missing"}
    [] file[s] = "partial" -> {"unavailable", "invalid"}
    [] file[s] = "whole" -> {"unavailable", "available"}

LoadFile(s) ==
  /\ s \in report.left
  /\ \E state \in StateOf(s) :
       report' = [left |-> report.left \ {s}, loaded |-> report.loaded \cup {<<s, state>>}]
  /\ UNCHANGED <<file, bytes, writeLock, saveStep, leased, runCancelled, rows, steps>>

EndReport ==
  /\ report.left = {} /\ report # NoReport /\ report' = NoReport
  /\ UNCHANGED <<file, bytes, writeLock, saveStep, leased, runCancelled, rows, steps>>
-----------------------------------------------------------------------------
EvidenceInit ==
  /\ file = [s \in Saves |-> "none"] /\ bytes = [s \in Saves |-> 0] /\ writeLock = "free"
  /\ saveStep = [s \in Saves |-> "idle"] /\ leased = TRUE /\ runCancelled = FALSE
  /\ rows = {} /\ steps = {} /\ report = NoReport

WriterStep(s) ==
  \/ BeginSave(s) \/ Acquire(s) \/ Busy(s) \/ CountFiles(s) \/ OpenFile(s)
  \/ WriteFile(s) \/ WriteFails(s) \/ Release(s) \/ SaverDies(s)
RegisterStep(s) == Register(s) \/ RecordStep(s)
ReportStep == BeginReport \/ (\E s \in Saves : LoadFile(s)) \/ EndReport

EvidenceNext ==
  \/ \E s \in Saves : WriterStep(s) \/ RegisterStep(s)
  \/ LeaseEnds \/ CancelAttempt \/ ReportStep

EvidenceSpec == EvidenceInit /\ [][EvidenceNext]_evidenceVars
-----------------------------------------------------------------------------
(* The files of an attempt stay within its budget, whoever writes them and *)
(* whatever a writer that died left behind (ArtifactWriter.write()).       *)
ArtifactBudgetKept == Cardinality(Stored) <= AttemptFiles /\ TotalBytes <= AttemptBytes

(* A row stands for a file that was written to its end, a step for a row;  *)
(* no report, whenever it is made, finds one missing or cut short.         *)
EvidenceIsWhole ==
  /\ \A s \in rows : file[s] = "whole"
  /\ steps \subseteq rows
  /\ \A s \in Saves : <<s, "missing">> \notin report.loaded /\ <<s, "invalid">> \notin report.loaded
=============================================================================
