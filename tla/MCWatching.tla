----------------------------- MODULE MCWatching -----------------------------
(***************************************************************************)
(* The service around the workers, as its owner and its operator see it,   *)
(* side by side: the database as processes open it, the supervisor, the    *)
(* launch of a run, the wall that shows it, the pages of the owner, the    *)
(* comparison with its rerun and the replay of its recordings.  The parts  *)
(* share no variables: a behaviour follows the one in focus, and the       *)
(* others stay as they began.                                              *)
(***************************************************************************)
EXTENDS LiveView, Launch, Supervisor, Comparison, Replay, DataStore, OwnerPages

VARIABLE focus

Follow(part, action) == focus = part /\ action /\ UNCHANGED focus
Rest(part, variables) == IF focus = part THEN TRUE ELSE UNCHANGED variables

(* The parts with several initial states have one of them out of focus.    *)
WatchingInit ==
  /\ focus \in {"wall", "launch", "supervisor", "comparison", "replay", "store", "pages"}
  /\ LiveInit /\ SupervisorInit /\ ReplayInit
  /\ LaunchInit /\ (focus # "launch" => kind = "managed")
  /\ ComparisonInit /\ (focus # "comparison" => asksCriterion = Pairs)
  /\ DataStoreInit
  /\ focus # "store" =>
       /\ release = [p \in Processes |-> 16] /\ configuration = [p \in Processes |-> App]
       /\ disk = Database(0, App)
  /\ OwnerPagesInit /\ (focus # "pages" => page = "wall")

WatchingNext ==
  /\ \/ Follow("wall", LiveNext)
     \/ Follow("launch", LaunchNext)
     \/ Follow("supervisor", SupervisorNext)
     \/ Follow("comparison", ComparisonNext)
     \/ Follow("replay", ReplayNext)
     \/ Follow("store", DataStoreNext)
     \/ Follow("pages", OwnerPagesNext)
  /\ Rest("wall", liveVars)
  /\ Rest("launch", launchVars)
  /\ Rest("supervisor", supervisorVars)
  /\ Rest("comparison", comparisonVars)
  /\ Rest("replay", replayVars)
  /\ Rest("store", storeVars)
  /\ Rest("pages", ownerPageVars)

WatchingSpec ==
  WatchingInit /\ [][WatchingNext]_<<focus, liveVars, launchVars, supervisorVars, comparisonVars,
                                    replayVars, storeVars, ownerPageVars>>
=============================================================================
