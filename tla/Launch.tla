------------------------------- MODULE Launch -------------------------------
(***************************************************************************)
(* Launching a run from the browser: the forms of components/launch.tsx    *)
(* (controlled sites and websites), managed-launch.tsx and run-report.tsx  *)
(* (reruns), their pending request in sessionStorage, and the handlers of  *)
(* server/api.ts with the insertion in the repository.                     *)
(*                                                                         *)
(* A request may be lost or delayed, its answer may be lost, the client    *)
(* gives up after 15 seconds while the server still works on it, the page  *)
(* is reloaded, and the owner's session expires and is replaced by         *)
(* another owner's.  A key stands for the launch it was drawn for: its     *)
(* body never changes.  What a run consists of is left out.                *)
(***************************************************************************)
EXTENDS Integers, Sequences, FiniteSets

CONSTANTS
  Kinds,           (* of launch: "controlled", "website", "managed", "rerun" *)
  MaxOwners, MaxKeys, MaxSends   (* bounds *)

ASSUME LaunchAssumption ==
  /\ Kinds \subseteq {"controlled", "website", "managed", "rerun"}
  /\ MaxOwners \in Nat \ {0} /\ MaxKeys \in Nat /\ MaxSends \in Nat

VARIABLES
  kind,
  (* the browser *)
  owner,           (* of the page's session                                *)
  stored,          (* sessionStorage: each owner's pending key, or 0       *)
  pendingKey, blocked,  (* the page's pending key; launches are locked     *)
  keys,            (* keys drawn so far                                    *)
  awaiting,        (* the request whose answer is awaited, or 0            *)
  named,           (* keys whose run the user was shown                    *)
  discarded,       (* keys the user gave up deliberately                   *)
  (* the server *)
  sends,           (* every request sent, in order                         *)
  runs,            (* runs created: key, owner and the request they are by *)
  expired,         (* owners whose session is over                         *)
  unfit            (* keys of requests that can never be accepted          *)

pageVars == <<pendingKey, blocked, awaiting>>
browserVars == <<owner, stored, pageVars, keys, named, discarded>>
launchVars == <<kind, browserVars, sends, runs, expired, unfit>>

Keys == 1..MaxKeys
Owners == 1..MaxOwners
-----------------------------------------------------------------------------
(* api(): one fetch, never repeated by itself. *)
SendKey(key, again) ==
  /\ Len(sends) < MaxSends
  /\ sends' = Append(sends, [key |-> key, owner |-> owner, again |-> again, stage |-> "underway",
                             answer |-> "none"])
  /\ awaiting' = Len(sends) + 1

(* submit() and send(): the key is stored before anything is sent.         *)
Submit ==
  /\ pendingKey = 0 /\ ~blocked /\ awaiting = 0 /\ keys < MaxKeys
  /\ keys' = keys + 1
  /\ UNCHANGED <<kind, owner, named, discarded, runs, expired>>
  /\ \/ /\ stored' = [stored EXCEPT ![owner] = keys + 1] /\ pendingKey' = keys + 1
        /\ SendKey(keys + 1, FALSE)
        /\ unfit' \in {unfit} \cup (IF kind = "rerun" THEN {unfit \cup {keys + 1}} ELSE {})
        /\ UNCHANGED blocked
     \/ /\ blocked' = (kind # "rerun")     (* storage is unavailable       *)
        /\ UNCHANGED <<stored, pendingKey, awaiting, sends, unfit>>

(* "Reconcile saved launch", "Retry same rerun". *)
ReconcileLaunch ==
  /\ pendingKey # 0 /\ awaiting = 0
  /\ stored' = [stored EXCEPT ![owner] = pendingKey]
  /\ SendKey(pendingKey, TRUE)
  /\ UNCHANGED <<kind, owner, pendingKey, blocked, keys, named, discarded, runs, expired, unfit>>

(* Which failures end a pending launch.  "invalid" stands for 400, 404,    *)
(* 413, 415 and 422, "limited" for 401, 403 and 429, "unavailable" for the *)
(* rest.  Faulty variant: also when it was sent before.                    *)
ClearsWheneverRefused(answer, again) == answer \in {"invalid", "limited"}
Clears(answer, again) ==
  CASE kind \in {"controlled", "website"} -> ~again /\ answer \in {"invalid", "limited"}
    [] kind = "managed" -> FALSE
    [] kind = "rerun" -> answer = "invalid"

Forget == stored' = [stored EXCEPT ![owner] = 0] /\ pendingKey' = 0

(* The answer of the request awaited arrives.  A run is shown; a rerun     *)
(* stays pending until the next one is begun.                              *)
Answered ==
  /\ awaiting # 0 /\ sends[awaiting].answer # "none"
  /\ LET request == sends[awaiting] IN
     \/ /\ request.answer = "run"
        /\ named' = named \cup {request.key}
        /\ IF kind = "rerun" THEN UNCHANGED <<stored, pendingKey>> ELSE Forget
     \/ /\ request.answer # "run" /\ UNCHANGED named
        /\ IF Clears(request.answer, request.again) THEN Forget
           ELSE UNCHANGED <<stored, pendingKey>>
  /\ awaiting' = 0
  /\ UNCHANGED <<kind, owner, blocked, keys, discarded, sends, runs, expired, unfit>>

(* 15 seconds have passed or the connection broke.  The request goes on.   *)
GiveUp ==
  /\ awaiting # 0 /\ awaiting' = 0
  /\ UNCHANGED <<kind, owner, stored, pendingKey, blocked, keys, named, discarded, sends, runs,
                 expired, unfit>>

StartAnother ==
  /\ kind = "rerun" /\ pendingKey \in named /\ awaiting = 0
  /\ Forget
  /\ UNCHANGED <<kind, owner, blocked, keys, awaiting, named, discarded, sends, runs, expired,
                 unfit>>

DiscardLaunch ==
  /\ kind = "managed" /\ (pendingKey # 0 \/ blocked) /\ awaiting = 0
  /\ discarded' = discarded \cup ({pendingKey, stored[owner]} \ {0})
  /\ Forget /\ blocked' = FALSE
  /\ UNCHANGED <<kind, owner, keys, awaiting, named, sends, runs, expired, unfit>>

(* readPendingLaunch(): launches share one place in storage, and one of    *)
(* another owner locks the form.                                           *)
Others(o) == {p \in Owners \ {o} : stored[p] # 0}
LeftByOthers(o) == IF kind \in {"controlled", "website"} THEN Others(o) ELSE {}

RecoveredKey(o) ==
  IF stored[o] = 0 /\ kind \in {"controlled", "website"} /\ Others(o) # {}
  THEN stored[CHOOSE p \in Others(o) : TRUE] ELSE stored[o]

Mount(o) ==
  /\ awaiting' = 0
  /\ IF LeftByOthers(o) # {} THEN pendingKey' = 0 /\ blocked' = TRUE
     ELSE pendingKey' = RecoveredKey(o) /\ blocked' = FALSE

(* The page is reloaded, or left and opened again. *)
Reload ==
  /\ Mount(owner)
  /\ UNCHANGED <<kind, owner, stored, keys, named, discarded, sends, runs, expired, unfit>>

(* bootstrap(): after the loss of its cookie the browser is another owner. *)
NewSession ==
  /\ owner \in expired /\ owner < MaxOwners
  /\ owner' = owner + 1 /\ Mount(owner + 1)
  /\ UNCHANGED <<kind, stored, keys, named, discarded, sends, runs, expired, unfit>>
-----------------------------------------------------------------------------
SessionExpires ==
  /\ owner \notin expired
  /\ expired' = expired \cup {owner}
  /\ UNCHANGED <<kind, browserVars, sends, runs, unfit>>

Reply(i, answer) == sends' = [sends EXCEPT ![i].stage = "over", ![i].answer = answer]
Exists(i) == \E run \in runs : run.key = sends[i].key /\ run.owner = sends[i].owner

(* insertRun(), insertRerun() and the managed store's create(): the key is *)
(* looked up in the transaction that inserts.  Faulty variant: it is not.  *)
NotLookedUp(i) == FALSE
LookedUp(i) == Exists(i)

Insert(i) ==
  \/ LookedUp(i) /\ Reply(i, "run") /\ UNCHANGED runs
  \/ /\ ~LookedUp(i) /\ sends[i].key \notin unfit
     /\ runs' = runs \cup {[key |-> sends[i].key, owner |-> sends[i].owner, by |-> i]}
     /\ Reply(i, "run")
  \/ /\ ~LookedUp(i) /\ UNCHANGED runs      (* too many runs, a profile is gone *)
     /\ \E answer \in {"limited"} \cup (IF kind = "rerun" THEN {} ELSE {"invalid"}) :
          Reply(i, answer)
  \/ ~LookedUp(i) /\ sends[i].key \in unfit /\ Reply(i, "invalid") /\ UNCHANGED runs

(* handle(): authentication and rate limit, then the gate of the operator, *)
(* then the insertion; names are resolved before it, and the managed store *)
(* is looked up before that.                                               *)
Admitted(i) == sends[i].owner \notin expired

ReceiveRequest(i) ==
  /\ sends[i].stage = "underway"
  /\ \/ Reply(i, "limited") /\ UNCHANGED runs
     \/ Admitted(i) /\ kind = "managed" /\ Exists(i) /\ Reply(i, "run") /\ UNCHANGED runs
     \/ /\ Admitted(i) /\ ~(kind = "managed" /\ Exists(i))
        /\ \/ Reply(i, "unavailable") /\ UNCHANGED runs
           \/ /\ kind \in {"website", "managed"} /\ UNCHANGED runs
              /\ sends' = [sends EXCEPT ![i].stage = "validating"]
           \/ kind \in {"controlled", "rerun"} /\ Insert(i)
  /\ UNCHANGED <<kind, browserVars, expired, unfit>>

(* validateScope() has resolved the target's name, or could not.           *)
Validated(i) ==
  /\ sends[i].stage = "validating"
  /\ (Reply(i, "invalid") /\ UNCHANGED runs) \/ Insert(i)
  /\ UNCHANGED <<kind, browserVars, expired, unfit>>
-----------------------------------------------------------------------------
LaunchInit ==
  /\ kind \in Kinds
  /\ owner = 1 /\ stored = [o \in Owners |-> 0] /\ pendingKey = 0 /\ blocked = FALSE
  /\ keys = 0 /\ awaiting = 0 /\ named = {} /\ discarded = {}
  /\ sends = <<>> /\ runs = {} /\ expired = {} /\ unfit = {}

FormStep == Submit \/ ReconcileLaunch \/ Answered \/ GiveUp \/ StartAnother \/ DiscardLaunch
PageStep == Reload \/ NewSession \/ SessionExpires
ApiStep == \E i \in 1..Len(sends) : ReceiveRequest(i) \/ Validated(i)

LaunchNext == FormStep \/ PageStep \/ ApiStep

LaunchSpec == LaunchInit /\ [][LaunchNext]_launchVars
-----------------------------------------------------------------------------
(* A launch becomes at most one run, however often its request is sent, in *)
(* whatever order the requests are answered and whoever owns the browser   *)
(* by then (insertRun(), readPendingLaunch()).                             *)
OneRunPerLaunch == \A r, s \in runs : r.key = s.key => r = s

(* The browser lets go of a launch only when its run was shown, the user   *)
(* discarded it, or it became no run and can no longer become one (send(), *)
(* rerun()): no paid run is started behind the user's back.                *)
LetGo(key) == key \notin named \cup discarded /\ \A o \in Owners : stored[o] # key
LaunchRemembered ==
  \A key \in 1..keys : LetGo(key) =>
    /\ \A run \in runs : run.key # key
    /\ \A i \in 1..Len(sends) : sends[i].key = key => sends[i].stage = "over" \/ key \in unfit
=============================================================================
