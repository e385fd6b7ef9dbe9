----------------------------- MODULE Supervisor -----------------------------
(***************************************************************************)
(* The process that serves a deployment (deployment/supervisor.ts): it     *)
(* starts the application, then the paid worker (scripts/worker.ts), and   *)
(* stops them in the other order, because the worker's browsers visit the  *)
(* application until they are released.                                    *)
(*                                                                         *)
(* supervise() starts the children in one thread of control; a signal, or  *)
(* the exit of a child, runs shutdown() in between.  Deadlines and         *)
(* timeouts may pass at any moment while they run.  Left out: the second   *)
(* signal of one kind, which kills the process, and the HTTP answers of    *)
(* the probes.                                                             *)
(***************************************************************************)
EXTENDS Integers, FiniteSets

CONSTANTS
  Paid,            (* a worker is to be started                            *)
  MaxMishaps       (* bound: children that exit or hang unasked            *)

VARIABLES
  thread,          (* "listen", "app", "worker", "serving" or "failed"     *)
  app, worker,     (* process, or why it is none                           *)
  told,            (* children that were sent SIGTERM by the supervisor    *)
  hung,            (* children that do not answer any more                 *)
  workerReady, heartbeat,
  noticed,         (* children whose exit the supervisor has handled       *)
  started, stopping, status,
  shutdownAt,      (* "none", "worker", "app", "done"                      *)
  unclean,         (* children that stopChild() did not find clean         *)
  exitStatus,      (* of the supervisor; -1 while it runs                  *)
  mishaps

processVars == <<app, worker, told, hung>>
supervisorVars == <<thread, processVars, workerReady, heartbeat, noticed, started, stopping, status,
                    shutdownAt, unclean, exitStatus, mishaps>>

Children == {"app", "worker"}
(* none, "booting" (no handler of SIGTERM yet), "up", or how it exited     *)
Alive == {"booting", "up"}
State(c) == IF c = "app" THEN app ELSE worker
Exits(c, how) == IF c = "app" THEN app' = how /\ UNCHANGED worker
                 ELSE worker' = how /\ UNCHANGED app
Exited(c) == State(c) \notin Alive \cup {"none"}

(* fixtureHealthy(): the application answers. *)
FixtureHealthy == app = "up" /\ "app" \notin hung
-----------------------------------------------------------------------------
(* shutdown(): only the first call counts.                                 *)
Shutdown(code) ==
  IF stopping THEN UNCHANGED <<stopping, status, shutdownAt>>
  ELSE stopping' = TRUE /\ status' = code /\ shutdownAt' = "worker"

(* The first await: the port of the probes. *)
Listen ==
  /\ thread = "listen"
  /\ \/ /\ ~stopping /\ thread' = "app" /\ app' = "booting"
        /\ UNCHANGED <<stopping, status, shutdownAt>>
     \/ thread' = "failed" /\ Shutdown(1) /\ UNCHANGED app
  /\ UNCHANGED <<worker, told, hung, workerReady, heartbeat, noticed, started, unclean, exitStatus,
                 mishaps>>

MayLaunchWorker == Paid /\ ~stopping

(* The application answered, or the shutdown ended the wait; the worker    *)
(* follows, or the deployment is ready.                                    *)
AppAnswers ==
  /\ thread = "app" /\ (FixtureHealthy \/ stopping)
  /\ IF MayLaunchWorker
     THEN thread' = "worker" /\ worker' = "booting" /\ UNCHANGED started
     ELSE thread' = "serving" /\ started' = ~stopping /\ UNCHANGED worker
  /\ UNCHANGED <<app, told, hung, workerReady, heartbeat, noticed, stopping, status, shutdownAt,
                 unclean, exitStatus, mishaps>>

WorkerAnswers ==
  /\ thread = "worker" /\ ((workerReady /\ heartbeat) \/ stopping)
  /\ thread' = "serving" /\ started' = ~stopping
  /\ UNCHANGED <<processVars, workerReady, heartbeat, noticed, stopping, status, shutdownAt,
                 unclean,
                 exitStatus, mishaps>>

(* 60 s for the application, 45 s for the worker. *)
StartTimesOut ==
  /\ thread \in {"app", "worker"} /\ ~stopping
  /\ thread = "app" => ~FixtureHealthy
  /\ thread' = "failed" /\ Shutdown(1)
  /\ UNCHANGED <<processVars, workerReady, heartbeat, noticed, started, unclean, exitStatus,
                 mishaps>>

(* SIGTERM or SIGINT. *)
Signal ==
  /\ ~stopping /\ exitStatus = -1 /\ Shutdown(0)
  /\ UNCHANGED <<thread, processVars, workerReady, heartbeat, noticed, started, unclean, exitStatus,
                 mishaps>>

(* "error" and "exit" of a child. *)
Notice(c) ==
  /\ Exited(c) /\ c \notin noticed /\ noticed' = noticed \cup {c}
  /\ Shutdown(1)
  /\ UNCHANGED <<thread, processVars, workerReady, heartbeat, started, unclean, exitStatus,
                 mishaps>>

(* What the worker says: it is ready, its event loop turns. *)
Hear ==
  /\ worker = "up" /\ "worker" \notin hung
  /\ \/ workerReady' = TRUE /\ UNCHANGED heartbeat
     \/ heartbeat' = TRUE /\ UNCHANGED workerReady
  /\ UNCHANGED <<thread, processVars, noticed, started, stopping, status, shutdownAt, unclean,
                 exitStatus, mishaps>>
-----------------------------------------------------------------------------
(* stopChild(): SIGTERM, then SIGKILL.  The application may leave with the *)
(* signal, the worker has to exit with zero.                               *)
Clean(c) == State(c) \in {"none", "zero"} \/ (c = "app" /\ State(c) = "sigterm")

(* Faulty variant: the other way round. *)
AppFirst == IF shutdownAt = "worker" THEN "app" ELSE "worker"
WorkerFirst == shutdownAt

Tell ==
  /\ shutdownAt \in Children
  /\ LET c == WorkerFirst IN State(c) \in Alive /\ c \notin told /\ told' = told \cup {c}
  /\ UNCHANGED <<thread, app, worker, hung, workerReady, heartbeat, noticed, started, stopping,
                 status, shutdownAt, unclean, exitStatus, mishaps>>

Kill ==
  /\ shutdownAt \in Children
  /\ LET c == WorkerFirst IN
     State(c) \in Alive /\ c \in told /\ Exits(c, "killed")
  /\ UNCHANGED <<thread, told, hung, workerReady, heartbeat, noticed, started, stopping, status,
                 shutdownAt, unclean, exitStatus, mishaps>>

Continue ==
  /\ shutdownAt \in Children
  /\ LET c == WorkerFirst IN
     /\ State(c) \notin Alive
     /\ unclean' = IF Clean(c) THEN unclean ELSE unclean \cup {c}
  /\ IF shutdownAt = "worker" THEN shutdownAt' = "app" /\ UNCHANGED exitStatus
     ELSE shutdownAt' = "done" /\ exitStatus' = IF unclean' = {} THEN status ELSE 1
  /\ UNCHANGED <<thread, processVars, workerReady, heartbeat, noticed, started, stopping, status,
                 mishaps>>
-----------------------------------------------------------------------------
(* The children.  The worker looks for the application before it is up.    *)
Boot(c) ==
  /\ State(c) = "booting" /\ c \notin hung
  /\ c = "worker" => FixtureHealthy
  /\ Exits(c, "up")
  /\ UNCHANGED <<thread, told, hung, workerReady, heartbeat, noticed, started, stopping, status,
                 shutdownAt, unclean, exitStatus, mishaps>>

(* SIGTERM takes a process without a handler; the application leaves with  *)
(* 143; the worker cleans up, in time or not.                              *)
Obey(c) ==
  /\ c \in told /\ State(c) \in Alive /\ c \notin hung
  /\ \E how \in IF State(c) = "booting" \/ c = "app" THEN {"sigterm"} ELSE {"zero", "failed"} :
       Exits(c, how)
  /\ UNCHANGED <<thread, told, hung, workerReady, heartbeat, noticed, started, stopping, status,
                 shutdownAt, unclean, exitStatus, mishaps>>

(* It exits unasked, cannot start, or hangs.                               *)
Mishap(c) ==
  /\ mishaps < MaxMishaps /\ mishaps' = mishaps + 1
  /\ State(c) \in Alive
  /\ \/ /\ \E how \in {"zero", "failed"} : Exits(c, how)
        /\ UNCHANGED hung
     \/ c \notin hung /\ hung' = hung \cup {c} /\ UNCHANGED <<app, worker>>
  /\ UNCHANGED <<thread, told, workerReady, heartbeat, noticed, started, stopping, status,
                 shutdownAt, unclean,
                 exitStatus>>

SupervisorInit ==
  /\ thread = "listen" /\ app = "none" /\ worker = "none" /\ told = {} /\ hung = {}
  /\ workerReady = FALSE /\ heartbeat = FALSE /\ noticed = {}
  /\ started = FALSE /\ stopping = FALSE /\ status = 0 /\ shutdownAt = "none"
  /\ unclean = {} /\ exitStatus = -1 /\ mishaps = 0

ShutdownStep == Tell \/ Kill \/ Continue
StartStep == Listen \/ AppAnswers \/ WorkerAnswers \/ StartTimesOut

SupervisorNext ==
  \/ StartStep \/ Signal \/ Hear \/ ShutdownStep
  \/ \E c \in Children : Notice(c) \/ Boot(c) \/ Obey(c) \/ Mishap(c)

SupervisorSpec == SupervisorInit /\ [][SupervisorNext]_supervisorVars

-----------------------------------------------------------------------------
(* Whoever asks the application to stop, the worker's browsers can reach   *)
(* it until the worker is gone; and when the supervisor returns, neither   *)
(* child is left, not even one that was being started when the signal came *)
(* (supervise(), shutdown()).                                              *)
WorkerGoesFirst ==
  /\ "app" \in told => worker \notin Alive
  /\ exitStatus # -1 => app \notin Alive /\ worker \notin Alive

=============================================================================
