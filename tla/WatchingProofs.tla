--------------------------- MODULE WatchingProofs ---------------------------
(***************************************************************************)
(* The service around the workers: what TLAPS proves of the launch, the    *)
(* supervisor, the comparison, the owner's pages, the database, the replay *)
(* and the wall.  The parts share no variables; each has an invariant of   *)
(* its own, given first, and its theorems last.                            *)
(***************************************************************************)
EXTENDS LiveView, Launch, Supervisor, Comparison, Replay, DataStore, OwnerPages,
        FiniteSetTheorems, SequenceTheorems, FunctionTheorems, WellFoundedInduction, TLAPS
-----------------------------------------------------------------------------
(* Launch.  A key belongs to the owner it was drawn for, who has the only  *)
(* copy; only the first request of a key is not a repetition, and the      *)
(* request that is awaited is the last one sent.                           *)
Requests ==
  [key : Nat, owner : Owners, again : BOOLEAN, stage : {"underway", "validating", "over"},
   answer : {"none", "run", "invalid", "limited", "unavailable"}]
LaunchTypes ==
  /\ kind \in Kinds /\ owner \in Owners /\ keys \in Nat /\ pendingKey \in Nat
  /\ stored \in [Owners -> Nat] /\ blocked \in BOOLEAN /\ awaiting \in Nat
  /\ sends \in Seq(Requests) /\ runs \subseteq [key : Nat, owner : Owners, by : Nat]
KeysAreDrawn ==
  /\ \A i \in 1..Len(sends) : sends[i].key \in 1..keys
  /\ \A o \in Owners : stored[o] <= keys
  /\ \A key \in unfit : key \in 1..keys
KeysHaveAnOwner ==
  /\ \A i, j \in 1..Len(sends) : sends[i].key = sends[j].key => sends[i].owner = sends[j].owner
  /\ \A i \in 1..Len(sends), o \in Owners : sends[i].key = stored[o] => sends[i].owner = o
  /\ \A o, p \in Owners : stored[o] = stored[p] /\ stored[o] # 0 => o = p
RunsHaveARequest ==
  \A run \in runs : LET request == sends[run.by] IN
    /\ run.by \in 1..Len(sends) /\ run.key = request.key /\ run.owner = request.owner
    /\ request.stage = "over" /\ request.answer = "run"
PageKnowsItsKey ==
  /\ pendingKey # 0 => stored[owner] = pendingKey
  /\ pendingKey = 0 => stored[owner] = 0 \/ (blocked /\ kind \in {"controlled", "website"})
  /\ awaiting # 0 => awaiting = Len(sends) /\ awaiting > 0 /\ sends[awaiting].key = pendingKey
FirstIsNoRepetition ==
  \A i, j \in 1..Len(sends) : j < i /\ ~sends[i].again => sends[j].key # sends[i].key
RefusedForGood ==
  /\ \A i \in 1..Len(sends) : LET request == sends[i] IN
       /\ request.answer # "none" => request.stage = "over"
       /\ kind = "rerun" => /\ request.stage # "validating"
                            /\ request.answer = "invalid" => request.key \in unfit
  /\ \A run \in runs : run.key \notin unfit

LaunchInvariant ==
  /\ LaunchTypes /\ KeysAreDrawn /\ KeysHaveAnOwner /\ RunsHaveARequest /\ OneRunPerLaunch
  /\ PageKnowsItsKey /\ FirstIsNoRepetition /\ RefusedForGood /\ LaunchRemembered

LEMMA RequestAppended ==
  ASSUME NEW s \in Seq(Requests), NEW r \in Requests
  PROVE  /\ Append(s, r) \in Seq(Requests) /\ Len(Append(s, r)) = Len(s) + 1
         /\ \A i \in 1..Len(s) : i \in 1..Len(s) + 1 /\ Append(s, r)[i] = s[i]
         /\ Append(s, r)[Len(s) + 1] = r /\ Len(s) \in Nat
  OBVIOUS

(* A request is sent: a fresh key of this owner, or the pending one again. *)
LEMMA SendingKeeps ==
  ASSUME LaunchInvariant, NEW key \in Nat \ {0}, NEW resent \in BOOLEAN, SendKey(key, resent),
         pendingKey' = key, stored' = [stored EXCEPT ![owner] = key],
         UNCHANGED <<kind, owner, named, discarded, runs, expired, blocked>>,
         \/ /\ ~resent /\ key = keys + 1 /\ keys' = keys + 1 /\ pendingKey = 0 /\ ~blocked
            /\ unfit' \subseteq unfit \cup {key}
            /\ unfit \subseteq unfit'
         \/ resent /\ key = pendingKey /\ UNCHANGED <<keys, unfit>>
  PROVE  LaunchInvariant'
<1> USE LaunchAssumption
<1> DEFINE r == [key |-> key, owner |-> owner, again |-> resent, stage |-> "underway", answer |-> "none"]
           n == Len(sends)
<1>1. /\ sends' \in Seq(Requests) /\ Len(sends') = n + 1 /\ n \in Nat
      /\ \A i \in 1..n : i \in 1..n + 1 /\ sends'[i] = sends[i] /\ sends[i] \in Requests
      /\ sends'[n + 1] = r /\ awaiting' = n + 1
  <2>1. r \in Requests
    BY DEF Requests, LaunchInvariant, LaunchTypes
  <2>2. sends \in Seq(Requests)
    BY DEF LaunchInvariant, LaunchTypes
  <2>3. sends' = Append(sends, r) /\ awaiting' = n + 1
    BY DEF SendKey
  <2>4. \A i \in 1..n : sends[i] \in Requests
    BY <2>2
  <2> QED BY <2>1, <2>2, <2>3, <2>4, RequestAppended
<1>2. \A i \in 1..n + 1 : i \in 1..n \/ i = n + 1
  BY <1>1
<1>3. /\ stored' \in [Owners -> Nat] /\ stored'[owner] = key
      /\ \A o \in Owners : o # owner => stored'[o] = stored[o]
  BY DEF LaunchInvariant, LaunchTypes
<1>4. \A o \in Owners : o # owner => stored[o] # key
  BY DEF LaunchInvariant, LaunchTypes, KeysAreDrawn, KeysHaveAnOwner, PageKnowsItsKey
<1>5. /\ keys' \in Nat /\ keys <= keys' /\ key \in 1..keys'
      /\ unfit \subseteq unfit' /\ unfit' \subseteq unfit \cup {key} /\ (resent => unfit' = unfit)
  <2>1. pendingKey # 0 => pendingKey \in 1..keys
    BY DEF LaunchInvariant, LaunchTypes, KeysAreDrawn, PageKnowsItsKey
  <2> QED BY <2>1 DEF LaunchInvariant, LaunchTypes
<1>6. \A i \in 1..n : /\ sends[i].key = key => resent /\ sends[i].owner = owner
                      /\ sends[i].key \in 1..keys
  BY DEF LaunchInvariant, LaunchTypes, KeysAreDrawn, KeysHaveAnOwner, PageKnowsItsKey
<1>7. r.key = key /\ r.owner = owner /\ r.again = resent /\ r.stage = "underway" /\ r.answer = "none"
  OBVIOUS
<1> HIDE DEF r
<1>11. LaunchTypes'
  BY <1>1, <1>3, <1>5 DEF LaunchInvariant, LaunchTypes
<1>12. KeysAreDrawn'
  <2>1. \A i \in 1..n + 1 : sends'[i].key \in 1..keys'
    BY <1>1, <1>2, <1>5, <1>6, <1>7 DEF LaunchInvariant, LaunchTypes
  <2>2. \A o \in Owners : stored'[o] <= keys'
    BY <1>3, <1>5 DEF LaunchInvariant, LaunchTypes, KeysAreDrawn
  <2>3. \A k \in unfit' : k \in 1..keys'
    BY <1>5 DEF LaunchInvariant, LaunchTypes, KeysAreDrawn
  <2> QED BY <1>1, <2>1, <2>2, <2>3 DEF KeysAreDrawn
<1>13. KeysHaveAnOwner'
  <2>1. \A i, j \in 1..n + 1 : sends'[i].key = sends'[j].key => sends'[i].owner = sends'[j].owner
    BY <1>1, <1>2, <1>6, <1>7, SMTT(60) DEF LaunchInvariant, KeysHaveAnOwner
  <2>2. \A i \in 1..n + 1, o \in Owners : sends'[i].key = stored'[o] => sends'[i].owner = o
    BY <1>1, <1>2, <1>3, <1>4, <1>6, <1>7 DEF LaunchInvariant, KeysHaveAnOwner
  <2>3. \A o, p \in Owners : stored'[o] = stored'[p] /\ stored'[o] # 0 => o = p
    BY <1>3, <1>4 DEF LaunchInvariant, KeysHaveAnOwner
  <2> QED BY <1>1, <2>1, <2>2, <2>3 DEF KeysHaveAnOwner
<1>14. RunsHaveARequest' /\ OneRunPerLaunch'
  BY <1>1 DEF LaunchInvariant, RunsHaveARequest, OneRunPerLaunch
<1>15. PageKnowsItsKey'
  BY <1>1, <1>3, <1>7 DEF PageKnowsItsKey
<1>16. FirstIsNoRepetition'
  BY <1>1, <1>2, <1>6, <1>7 DEF LaunchInvariant, FirstIsNoRepetition
<1>17. RefusedForGood'
  <2>1. \A run \in runs : run.key # key \/ resent
    BY <1>6 DEF LaunchInvariant, RunsHaveARequest
  <2>2. \A run \in runs' : run.key \notin unfit'
    BY <1>5, <2>1 DEF LaunchInvariant, RefusedForGood
  <2> QED BY <1>1, <1>2, <1>5, <1>7, <2>2 DEF LaunchInvariant, RefusedForGood
<1>18. LaunchRemembered'
  <2> SUFFICES ASSUME NEW k \in 1..keys', LetGo(k)'
               PROVE  /\ \A run \in runs : run.key # k
                      /\ \A i \in 1..n + 1 : sends'[i].key = k => sends'[i].stage = "over" \/ k \in unfit'
    BY <1>1 DEF LaunchRemembered
  <2>1. k # key /\ k \in 1..keys
    BY <1>3, <1>5 DEF LetGo, LaunchInvariant, LaunchTypes
  <2>2. LetGo(k)
    <3>1. stored[owner] = k => FALSE
      BY <2>1 DEF LaunchInvariant, LaunchTypes, PageKnowsItsKey
    <3> QED BY <1>3, <3>1 DEF LetGo
  <2> QED BY <1>1, <1>2, <1>5, <1>7, <2>1, <2>2, SMTT(60) DEF LaunchInvariant, LaunchRemembered
<1> QED BY <1>11, <1>12, <1>13, <1>14, <1>15, <1>16, <1>17, <1>18 DEF LaunchInvariant

(* The server answers request i, and a run may be created by it. *)
LEMMA AnsweringKeeps ==
  ASSUME LaunchInvariant, NEW i \in 1..Len(sends), sends[i].stage # "over",
         UNCHANGED <<kind, browserVars, unfit>>,
         sends' \in Seq(Requests), Len(sends') = Len(sends),
         \A j \in 1..Len(sends) :
           /\ sends'[j].key = sends[j].key /\ sends'[j].owner = sends[j].owner
           /\ sends'[j].again = sends[j].again /\ (j # i => sends'[j] = sends[j]),
         \/ sends'[i].stage = "over"
         \/ sends'[i].stage = "validating" /\ sends'[i].answer = "none" /\ kind # "rerun",
         kind = "rerun" /\ sends'[i].answer = "invalid" => sends[i].key \in unfit,
         \/ runs' = runs
         \/ /\ runs' = runs \cup {[key |-> sends[i].key, owner |-> sends[i].owner, by |-> i]}
            /\ ~Exists(i) /\ sends[i].key \notin unfit
            /\ sends'[i].stage = "over" /\ sends'[i].answer = "run"
  PROVE  LaunchInvariant'
<1> DEFINE r == [key |-> sends[i].key, owner |-> sends[i].owner, by |-> i]
<1>1. UNCHANGED <<kind, owner, stored, pendingKey, blocked, awaiting, keys, named, discarded, unfit>>
  BY DEF browserVars, pageVars
<1>2. \A j \in 1..Len(sends) : j # i => sends'[j] = sends[j]
  OBVIOUS
<1>0. sends[i] \in Requests /\ i \in Nat
  BY DEF LaunchInvariant, LaunchTypes
<1>3. /\ r.key = sends[i].key /\ r.owner = sends[i].owner /\ r.by = i
      /\ r \in [key : Nat, owner : Owners, by : Nat]
  BY <1>0 DEF Requests
<1> HIDE DEF r
<1>4. runs' = runs \/ (runs' = runs \cup {r} /\ ~Exists(i) /\ sends[i].key \notin unfit
                       /\ sends'[i].stage = "over" /\ sends'[i].answer = "run")
  BY DEF r
<1>11. LaunchTypes'
  BY <1>1, <1>3, <1>4 DEF LaunchInvariant, LaunchTypes
<1>12. KeysAreDrawn'
  BY <1>1 DEF LaunchInvariant, KeysAreDrawn
<1>13. KeysHaveAnOwner'
  BY <1>1 DEF LaunchInvariant, KeysHaveAnOwner
<1>14. RunsHaveARequest'
  <2>1. \A run \in runs : run.by # i
    BY DEF LaunchInvariant, RunsHaveARequest
  <2> QED BY <1>2, <1>3, <1>4, <2>1 DEF LaunchInvariant, RunsHaveARequest
<1>15. OneRunPerLaunch'
  <2>1. \A run \in runs : run.key = sends[i].key => run.owner = sends[i].owner
    BY DEF LaunchInvariant, RunsHaveARequest, KeysHaveAnOwner
  <2> QED BY <1>3, <1>4, <2>1 DEF LaunchInvariant, OneRunPerLaunch, Exists
<1>16. PageKnowsItsKey' /\ FirstIsNoRepetition'
  BY <1>1 DEF LaunchInvariant, LaunchTypes, PageKnowsItsKey, FirstIsNoRepetition
<1>17. RefusedForGood'
  <2>1. \A run \in runs' : run.key \notin unfit
    BY <1>3, <1>4 DEF LaunchInvariant, RefusedForGood
  <2> QED BY <1>1, <1>2, <2>1 DEF LaunchInvariant, RefusedForGood
<1>18. LaunchRemembered'
  <2> SUFFICES ASSUME NEW k \in 1..keys, LetGo(k)
               PROVE  /\ \A run \in runs' : run.key # k
                      /\ \A j \in 1..Len(sends) : sends'[j].key = k => sends'[j].stage = "over" \/ k \in unfit
    BY <1>1 DEF LaunchRemembered, LetGo
  <2> QED BY <1>2, <1>3, <1>4 DEF LaunchInvariant, LaunchRemembered
<1> QED BY <1>11, <1>12, <1>13, <1>14, <1>15, <1>16, <1>17, <1>18 DEF LaunchInvariant

(* The page forgets its key: its run was shown, it was discarded, or none  *)
(* of its requests can become a run any more.                              *)
LEMMA ForgettingKeeps ==
  ASSUME LaunchInvariant, Forget, UNCHANGED <<kind, owner, keys, sends, runs, expired, unfit>>,
         awaiting' = 0, blocked' \in BOOLEAN, named \subseteq named', discarded \subseteq discarded',
         \/ stored[owner] = 0 \/ stored[owner] \in named' \cup discarded'
         \/ /\ \A run \in runs : run.key # stored[owner]
            /\ \A i \in 1..Len(sends) :
                 sends[i].key = stored[owner] => sends[i].stage = "over" \/ stored[owner] \in unfit
  PROVE  LaunchInvariant'
<1>1. /\ stored' \in [Owners -> Nat] /\ stored'[owner] = 0 /\ pendingKey' = 0
      /\ \A o \in Owners : o # owner => stored'[o] = stored[o]
  BY DEF Forget, LaunchInvariant, LaunchTypes
<1>11. LaunchTypes'
  BY <1>1 DEF LaunchInvariant, LaunchTypes
<1>2. keys \in Nat /\ \A o \in Owners : stored[o] \in Nat /\ (stored'[o] = stored[o] \/ stored'[o] = 0)
  BY <1>1 DEF LaunchInvariant, LaunchTypes
<1>12. KeysAreDrawn'
  <2>1. KeysAreDrawn
    BY DEF LaunchInvariant
  <2> QED BY <1>2, <2>1 DEF KeysAreDrawn
<1>13. KeysHaveAnOwner'
  <2>1. /\ \A i \in 1..Len(sends), o \in Owners : sends'[i].key = stored'[o] => sends'[i].owner = o
        /\ \A o, p \in Owners : stored'[o] = stored'[p] /\ stored'[o] # 0 => o = p
    <3>1. \A i \in 1..Len(sends) : sends[i].key # 0
      BY DEF LaunchInvariant, KeysAreDrawn
    <3>2. KeysHaveAnOwner
      BY DEF LaunchInvariant
    <3> QED BY <1>2, <3>1, <3>2 DEF KeysHaveAnOwner
  <2>2. KeysHaveAnOwner
    BY DEF LaunchInvariant
  <2> QED BY <2>1, <2>2 DEF KeysHaveAnOwner
<1>14. RunsHaveARequest' /\ OneRunPerLaunch' /\ FirstIsNoRepetition' /\ RefusedForGood'
  BY DEF LaunchInvariant, RunsHaveARequest, OneRunPerLaunch, FirstIsNoRepetition, RefusedForGood
<1>15. PageKnowsItsKey'
  BY <1>1 DEF PageKnowsItsKey, LaunchInvariant, LaunchTypes
<1>16. LaunchRemembered'
  <2> SUFFICES ASSUME NEW k \in 1..keys, LetGo(k)'
               PROVE  /\ \A run \in runs : run.key # k
                      /\ \A j \in 1..Len(sends) : sends[j].key = k => sends[j].stage = "over" \/ k \in unfit
    BY DEF LaunchRemembered
  <2>1. k # stored[owner] => LetGo(k)
    BY <1>1 DEF LetGo
  <2> QED BY <2>1 DEF LetGo, LaunchInvariant, LaunchTypes, LaunchRemembered
<1> QED BY <1>11, <1>12, <1>13, <1>14, <1>15, <1>16 DEF LaunchInvariant

(* The page is opened: readPendingLaunch(). *)
LEMMA MountingKeeps ==
  ASSUME LaunchInvariant, NEW o \in Owners, owner' = o, Mount(o),
         UNCHANGED <<kind, stored, keys, named, discarded, sends, runs, unfit>>
  PROVE  LaunchInvariant'
<1>1. /\ awaiting' = 0 /\ blocked' \in BOOLEAN
      /\ pendingKey' = stored[o] \/ (pendingKey' = 0 /\ blocked' /\ kind \in {"controlled", "website"})
  <2>1. CASE LeftByOthers(o) # {}
    BY <2>1 DEF Mount, LeftByOthers
  <2>2. CASE LeftByOthers(o) = {}
    BY <2>2 DEF Mount, LeftByOthers, RecoveredKey
  <2> QED BY <2>1, <2>2
<1>2. stored[o] \in Nat /\ \A p \in Owners : stored'[p] = stored[p]
  BY DEF LaunchInvariant, LaunchTypes
<1>3. LaunchTypes' /\ PageKnowsItsKey'
  BY <1>1, <1>2 DEF LaunchInvariant, LaunchTypes, PageKnowsItsKey
<1>4. KeysAreDrawn' /\ KeysHaveAnOwner' /\ RunsHaveARequest' /\ OneRunPerLaunch'
      /\ FirstIsNoRepetition' /\ RefusedForGood'
  BY SMTT(60) DEF LaunchInvariant, KeysAreDrawn, KeysHaveAnOwner, RunsHaveARequest, OneRunPerLaunch,
         FirstIsNoRepetition, RefusedForGood
<1>5. LaunchRemembered'
  BY DEF LaunchInvariant, LaunchRemembered, LetGo
<1> QED BY <1>3, <1>4, <1>5 DEF LaunchInvariant

LEMMA ReplyKeeps ==
  ASSUME LaunchInvariant, NEW i \in 1..Len(sends), sends[i].stage # "over",
         UNCHANGED <<kind, browserVars, expired, unfit>>,
         NEW answer \in {"run", "invalid", "limited", "unavailable"}, Reply(i, answer),
         kind = "rerun" /\ answer = "invalid" => sends[i].key \in unfit,
         \/ runs' = runs
         \/ /\ runs' = runs \cup {[key |-> sends[i].key, owner |-> sends[i].owner, by |-> i]}
            /\ ~Exists(i) /\ sends[i].key \notin unfit /\ answer = "run"
  PROVE  LaunchInvariant'
<1>1. sends \in Seq(Requests) /\ \A j \in 1..Len(sends) : sends[j] \in Requests
  BY DEF LaunchInvariant, LaunchTypes
<1>2. sends' = [sends EXCEPT ![i] = [sends[i] EXCEPT !.stage = "over", !.answer = answer]]
  BY <1>1 DEF Reply
<1>3. [sends[i] EXCEPT !.stage = "over", !.answer = answer] \in Requests
  BY <1>1 DEF Requests
<1>4. /\ sends' \in Seq(Requests) /\ Len(sends') = Len(sends)
      /\ \A j \in 1..Len(sends) :
           sends'[j] = IF j = i THEN [sends[i] EXCEPT !.stage = "over", !.answer = answer] ELSE sends[j]
  BY <1>1, <1>2, <1>3, ExceptSeq
<1>5. sends'[i] = [sends[i] EXCEPT !.stage = "over", !.answer = answer] /\ sends[i] \in Requests
  BY <1>1, <1>4
<1>6. /\ sends'[i].key = sends[i].key /\ sends'[i].owner = sends[i].owner
      /\ sends'[i].again = sends[i].again /\ sends'[i].stage = "over" /\ sends'[i].answer = answer
  BY <1>5 DEF Requests
<1>7. \A j \in 1..Len(sends) :
           /\ sends'[j].key = sends[j].key /\ sends'[j].owner = sends[j].owner
           /\ sends'[j].again = sends[j].again /\ (j # i => sends'[j] = sends[j])
  BY <1>4, <1>6
<1> QED BY <1>4, <1>6, <1>7, AnsweringKeeps

LEMMA InsertKeeps ==
  ASSUME LaunchInvariant, NEW i \in 1..Len(sends), sends[i].stage # "over",
         UNCHANGED <<kind, browserVars, expired, unfit>>, Insert(i)
  PROVE  LaunchInvariant'
<1>1. CASE Reply(i, "run") /\ UNCHANGED runs
  BY <1>1, ReplyKeeps
<1>2. CASE /\ ~LookedUp(i) /\ sends[i].key \notin unfit /\ Reply(i, "run")
           /\ runs' = runs \cup {[key |-> sends[i].key, owner |-> sends[i].owner, by |-> i]}
  BY <1>2, ReplyKeeps DEF LookedUp
<1>3. CASE Reply(i, "limited") /\ UNCHANGED runs
  BY <1>3, ReplyKeeps
<1>4. CASE Reply(i, "invalid") /\ UNCHANGED runs /\ (kind = "rerun" => sends[i].key \in unfit)
  BY <1>4, ReplyKeeps
<1> QED BY <1>1, <1>2, <1>3, <1>4 DEF Insert

LEMMA LaunchStepKeeps ==
  LaunchInvariant /\ [LaunchNext]_launchVars => LaunchInvariant'
<1> SUFFICES ASSUME LaunchInvariant, [LaunchNext]_launchVars PROVE LaunchInvariant'
  OBVIOUS
<1>0. /\ kind \in {"controlled", "website", "managed", "rerun"} /\ keys \in Nat /\ pendingKey \in Nat
      /\ owner \in Owners /\ awaiting \in Nat /\ sends \in Seq(Requests) /\ blocked \in BOOLEAN
      /\ \A i \in 1..Len(sends) : sends[i] \in Requests
  BY LaunchAssumption DEF LaunchInvariant, LaunchTypes
<1>1. CASE Submit
  <2>1. CASE /\ stored' = [stored EXCEPT ![owner] = keys + 1] /\ pendingKey' = keys + 1
             /\ SendKey(keys + 1, FALSE) /\ UNCHANGED blocked
             /\ unfit' \in {unfit} \cup (IF kind = "rerun" THEN {unfit \cup {keys + 1}} ELSE {})
    <3>1. unfit \subseteq unfit' /\ unfit' \subseteq unfit \cup {keys + 1}
      BY <2>1
    <3>2. /\ UNCHANGED <<kind, owner, named, discarded, runs, expired, blocked>>
          /\ keys' = keys + 1 /\ pendingKey = 0 /\ ~blocked /\ keys + 1 \in Nat \ {0}
      BY <1>0, <1>1, <2>1 DEF Submit
    <3> QED BY <2>1, <3>1, <3>2, SendingKeeps
  <2>2. CASE blocked' = (kind # "rerun") /\ UNCHANGED <<stored, pendingKey, awaiting, sends, unfit>>
    <3>1. /\ UNCHANGED <<kind, owner, named, discarded, runs, expired, stored, pendingKey, awaiting,
                         sends, unfit>>
          /\ blocked' \in BOOLEAN /\ keys' = keys + 1 /\ pendingKey = 0 /\ ~blocked
      BY <1>1, <2>2 DEF Submit
    <3>2. LaunchTypes' /\ KeysAreDrawn' /\ KeysHaveAnOwner' /\ RunsHaveARequest' /\ OneRunPerLaunch'
          /\ PageKnowsItsKey' /\ FirstIsNoRepetition' /\ RefusedForGood'
      BY <3>1, SMTT(60) DEF LaunchInvariant, LaunchTypes, KeysAreDrawn, KeysHaveAnOwner, RunsHaveARequest,
                  OneRunPerLaunch, PageKnowsItsKey, FirstIsNoRepetition, RefusedForGood
    <3>3. /\ \A i \in 1..Len(sends) : sends[i].key # keys + 1
          /\ \A run \in runs : run.key # keys + 1
      BY <1>0 DEF LaunchInvariant, KeysAreDrawn, RunsHaveARequest
    <3>4. LaunchRemembered'
      BY <1>0, <3>1, <3>3 DEF LaunchInvariant, LaunchRemembered, LetGo
    <3> QED BY <3>2, <3>4 DEF LaunchInvariant
  <2> QED BY <1>1, <2>1, <2>2 DEF Submit
<1>2. CASE ReconcileLaunch
  BY <1>0, <1>2, SendingKeeps DEF ReconcileLaunch
<1>3. CASE Answered
  <2> DEFINE request == sends[awaiting]
  <2>1. /\ awaiting = Len(sends) /\ awaiting \in 1..Len(sends) /\ request \in Requests
        /\ request.key = pendingKey /\ stored[owner] = pendingKey /\ pendingKey # 0
        /\ request.stage = "over" /\ request.answer # "none"
    BY <1>0, <1>3 DEF Answered, LaunchInvariant, LaunchTypes, PageKnowsItsKey, KeysAreDrawn, RefusedForGood
  <2>2. /\ UNCHANGED <<kind, owner, keys, sends, runs, expired, unfit, discarded, blocked>>
        /\ awaiting' = 0 /\ named \subseteq named'
    BY <1>3 DEF Answered
  <2>3. CASE UNCHANGED <<stored, pendingKey>>
    <3>1. LaunchTypes' /\ KeysAreDrawn' /\ KeysHaveAnOwner' /\ RunsHaveARequest' /\ OneRunPerLaunch'
          /\ PageKnowsItsKey' /\ FirstIsNoRepetition' /\ RefusedForGood'
      BY <2>2, <2>3 DEF LaunchInvariant, LaunchTypes, KeysAreDrawn, KeysHaveAnOwner, RunsHaveARequest,
                  OneRunPerLaunch, PageKnowsItsKey, FirstIsNoRepetition, RefusedForGood
    <3>2. LaunchRemembered'
      BY <2>2, <2>3 DEF LaunchInvariant, LaunchRemembered, LetGo
    <3> QED BY <3>1, <3>2 DEF LaunchInvariant
  <2>4. CASE Forget /\ pendingKey \in named'
    BY <2>1, <2>2, <2>4, <1>0, ForgettingKeeps
  <2>5. CASE Forget /\ request.answer # "run" /\ Clears(request.answer, request.again)
    <3>1. \/ ~request.again
          \/ kind = "rerun" /\ request.answer = "invalid" /\ pendingKey \in unfit
      BY <1>0, <2>1, <2>5 DEF Clears, LaunchInvariant, RefusedForGood
    <3>2. CASE ~request.again
      <4>1. \A i \in 1..Len(sends) : sends[i].key = pendingKey => i = awaiting
        BY <2>1, <3>2 DEF LaunchInvariant, FirstIsNoRepetition
      <4>2. \A run \in runs : run.key # pendingKey
        BY <2>5, <4>1 DEF LaunchInvariant, RunsHaveARequest
      <4> QED BY <1>0, <2>1, <2>2, <2>5, <4>1, <4>2, ForgettingKeeps
    <3>3. CASE pendingKey \in unfit
      <4>1. \A run \in runs : run.key # pendingKey
        BY <3>3 DEF LaunchInvariant, RefusedForGood
      <4> QED BY <1>0, <2>1, <2>2, <2>5, <3>3, <4>1, ForgettingKeeps
    <3> QED BY <3>1, <3>2, <3>3
  <2> QED BY <1>3, <2>1, <2>3, <2>4, <2>5 DEF Answered
<1>4. CASE GiveUp
  BY <1>4 DEF GiveUp, LaunchInvariant, LaunchTypes, KeysAreDrawn, KeysHaveAnOwner, RunsHaveARequest,
              OneRunPerLaunch, PageKnowsItsKey, FirstIsNoRepetition, RefusedForGood, LaunchRemembered, LetGo
<1>5. CASE StartAnother
  <2>1. pendingKey = 0 \/ stored[owner] = pendingKey
    BY DEF LaunchInvariant, PageKnowsItsKey
  <2>2. pendingKey = 0 => stored[owner] = 0
    BY <1>5 DEF StartAnother, LaunchInvariant, PageKnowsItsKey
  <2> QED BY <1>0, <1>5, <2>1, <2>2, ForgettingKeeps DEF StartAnother
<1>6. CASE DiscardLaunch
  BY <1>0, <1>6, ForgettingKeeps DEF DiscardLaunch
<1>7. CASE Reload
  BY <1>0, <1>7, MountingKeeps DEF Reload
<1>8. CASE NewSession
  <2>1. owner + 1 \in Owners
    BY <1>0, <1>8, LaunchAssumption DEF NewSession, Owners
  <2> QED BY <1>8, <2>1, MountingKeeps DEF NewSession
<1>9. CASE SessionExpires
  BY <1>9 DEF SessionExpires, browserVars, pageVars, LaunchInvariant, LaunchTypes, KeysAreDrawn, KeysHaveAnOwner,
              RunsHaveARequest, OneRunPerLaunch, PageKnowsItsKey, FirstIsNoRepetition, RefusedForGood,
              LaunchRemembered, LetGo
<1>10. ASSUME NEW i \in 1..Len(sends), ReceiveRequest(i) PROVE LaunchInvariant'
  <2>1. sends[i].stage = "underway" /\ UNCHANGED <<kind, browserVars, expired, unfit>>
    BY <1>10 DEF ReceiveRequest
  <2>2. CASE UNCHANGED runs /\ \E answer \in {"limited", "run", "unavailable"} : Reply(i, answer)
    BY <2>1, <2>2, ReplyKeeps
  <2>3. CASE UNCHANGED runs /\ kind # "rerun" /\ sends' = [sends EXCEPT ![i].stage = "validating"]
    <3>1. sends[i].answer = "none"
      BY <2>1 DEF LaunchInvariant, RefusedForGood
    <3>2. sends' = [sends EXCEPT ![i] = [sends[i] EXCEPT !.stage = "validating"]]
      BY <1>0, <2>3
    <3>3. [sends[i] EXCEPT !.stage = "validating"] \in Requests
      BY <1>0 DEF Requests
    <3>4. /\ sends' \in Seq(Requests) /\ Len(sends') = Len(sends)
          /\ \A j \in 1..Len(sends) :
               sends'[j] = IF j = i THEN [sends[i] EXCEPT !.stage = "validating"] ELSE sends[j]
      BY <1>0, <3>2, <3>3, ExceptSeq
    <3>5. \A j \in 1..Len(sends) :
            /\ sends'[j].key = sends[j].key /\ sends'[j].owner = sends[j].owner
            /\ sends'[j].again = sends[j].again /\ (j # i => sends'[j] = sends[j])
      <4>1. sends[i] \in Requests /\ sends'[i] = [sends[i] EXCEPT !.stage = "validating"]
        BY <1>0, <3>4
      <4>2. sends'[i].key = sends[i].key /\ sends'[i].owner = sends[i].owner /\ sends'[i].again = sends[i].again
        BY <4>1 DEF Requests
      <4> QED BY <3>4, <4>2
    <3>6. sends'[i].stage = "validating" /\ sends'[i].answer = "none"
      BY <1>0, <3>1, <3>4 DEF Requests
    <3> QED BY <2>1, <2>3, <3>4, <3>5, <3>6, AnsweringKeeps
  <2>4. CASE Insert(i)
    BY <2>1, <2>4, InsertKeeps
  <2> QED BY <1>10, <2>2, <2>3, <2>4 DEF ReceiveRequest
<1>11. ASSUME NEW i \in 1..Len(sends), Validated(i) PROVE LaunchInvariant'
  <2>1. sends[i].stage = "validating" /\ kind # "rerun" /\ UNCHANGED <<kind, browserVars, expired, unfit>>
    BY <1>11 DEF Validated, LaunchInvariant, RefusedForGood
  <2>2. CASE Reply(i, "invalid") /\ UNCHANGED runs
    BY <2>1, <2>2, ReplyKeeps
  <2>3. CASE Insert(i)
    BY <2>1, <2>3, InsertKeeps
  <2> QED BY <1>11, <2>2, <2>3 DEF Validated
<1>12. CASE UNCHANGED launchVars
  BY <1>12, SMTT(60) DEF launchVars, browserVars, pageVars, LaunchInvariant, LaunchTypes, KeysAreDrawn, KeysHaveAnOwner,
               RunsHaveARequest, OneRunPerLaunch, PageKnowsItsKey, FirstIsNoRepetition, RefusedForGood,
               LaunchRemembered, LetGo
<1> QED BY <1>1, <1>2, <1>3, <1>4, <1>5, <1>6, <1>7, <1>8, <1>9, <1>10, <1>11, <1>12 DEF LaunchNext, FormStep, PageStep, ApiStep

LEMMA LaunchStartsRight == LaunchInit => LaunchInvariant
<1> SUFFICES ASSUME LaunchInit PROVE LaunchInvariant
  OBVIOUS
<1>1. sends \in Seq(Requests) /\ Len(sends) = 0
  BY DEF LaunchInit
<1>2. LaunchTypes
  <2>1. 1 \in Owners /\ stored \in [Owners -> Nat]
    BY LaunchAssumption DEF LaunchInit, Owners
  <2> QED BY <1>1, <2>1 DEF LaunchInit, LaunchTypes
<1> QED BY <1>1, <1>2, LaunchAssumption
        DEF LaunchInit, LaunchInvariant, KeysAreDrawn, KeysHaveAnOwner, RunsHaveARequest, OneRunPerLaunch,
            PageKnowsItsKey, FirstIsNoRepetition, RefusedForGood, LaunchRemembered, Owners

(* A launch becomes at most one run, and the browser lets go of it only    *)
(* when nothing is left of it that could become a run.                     *)
THEOREM LaunchesOnce == LaunchSpec => []OneRunPerLaunch
<1>1. LaunchInvariant => OneRunPerLaunch
  BY DEF LaunchInvariant
<1> QED BY <1>1, LaunchStartsRight, LaunchStepKeeps, PTL DEF LaunchSpec

(* No launch is forgotten that became a run nobody was shown, or that      *)
(* still may become one (send(), rerun()).                                 *)
THEOREM LaunchesAreNotLost == LaunchSpec => []LaunchRemembered
<1>1. LaunchInvariant => LaunchRemembered
  BY DEF LaunchInvariant
<1> QED BY <1>1, LaunchStartsRight, LaunchStepKeeps, PTL DEF LaunchSpec
-----------------------------------------------------------------------------
(* Supervisor.  A child starts only before the shutdown; the application   *)
(* is told only after the worker is gone.                                  *)
SupervisorInvariant ==
  /\ shutdownAt \in {"none", "worker", "app", "done"} /\ stopping \in BOOLEAN
  /\ shutdownAt # "none" => stopping
  /\ shutdownAt \in {"app", "done"} => worker \notin Alive
  /\ shutdownAt = "done" => app \notin Alive
  /\ "app" \in told => shutdownAt \in {"app", "done"}
  /\ exitStatus # -1 => shutdownAt = "done"

LEMMA SupervisorStepKeeps ==
  SupervisorInvariant /\ [SupervisorNext]_supervisorVars => SupervisorInvariant'
<1> SUFFICES ASSUME SupervisorInvariant, [SupervisorNext]_supervisorVars PROVE SupervisorInvariant'
  OBVIOUS
<1> USE DEF SupervisorInvariant, Alive, Children, Shutdown, State, Exits, processVars
<1>1. CASE Listen
  BY <1>1 DEF Listen
<1>2. CASE AppAnswers
  BY <1>2 DEF AppAnswers, MayLaunchWorker
<1>3. CASE WorkerAnswers
  BY <1>3 DEF WorkerAnswers
<1>4. CASE StartTimesOut
  BY <1>4 DEF StartTimesOut
<1>5. CASE Signal
  BY <1>5 DEF Signal
<1>6. CASE Hear
  BY <1>6 DEF Hear
<1>7. CASE Tell
  BY <1>7 DEF Tell, WorkerFirst
<1>8. CASE Kill
  BY <1>8 DEF Kill, WorkerFirst
<1>9. CASE Continue
  BY <1>9 DEF Continue, WorkerFirst
<1>10. ASSUME NEW c \in Children, Notice(c) PROVE SupervisorInvariant'
  BY <1>10 DEF Notice
<1>11. ASSUME NEW c \in Children, Boot(c) PROVE SupervisorInvariant'
  BY <1>11 DEF Boot
<1>12. ASSUME NEW c \in Children, Obey(c) PROVE SupervisorInvariant'
  BY <1>12 DEF Obey
<1>13. ASSUME NEW c \in Children, Mishap(c) PROVE SupervisorInvariant'
  BY <1>13 DEF Mishap
<1>14. CASE UNCHANGED supervisorVars
  BY <1>14 DEF supervisorVars
<1> QED BY <1>1, <1>2, <1>3, <1>4, <1>5, <1>6, <1>7, <1>8, <1>9, <1>10, <1>11, <1>12, <1>13, <1>14 DEF SupervisorNext, StartStep, ShutdownStep

(* Whoever asks the application to stop, the worker is gone by then, and   *)
(* the supervisor leaves no child behind.                                  *)
THEOREM WorkerIsGoneFirst == SupervisorSpec => []WorkerGoesFirst
<1>1. SupervisorInit => SupervisorInvariant
  BY DEF SupervisorInit, SupervisorInvariant, Alive
<1>2. SupervisorInvariant => WorkerGoesFirst
  BY DEF SupervisorInvariant, WorkerGoesFirst
<1> QED BY <1>1, <1>2, SupervisorStepKeeps, PTL DEF SupervisorSpec
-----------------------------------------------------------------------------
(* Comparison.  An attempt that runs has no outcome yet, so one that       *)
(* counts is settled, and what is settled stays as it is.                  *)
OutcomeRows ==
  [status : {"running", "completed", "ended", "gave_up", "target_failed"},
   cleanup : {"closed", "failed", "unknown"}, check : {"met", "not_met", "unknown"}, cited : Pages]
AttemptRows ==
  [launch : {"running", "recovering", "settled"}, outcome : OutcomeRows, assisted : BOOLEAN]
ComparisonInvariant ==
  /\ attempt \in [Runs \X Pairs -> AttemptRows]
  /\ \A a \in Runs \X Pairs : attempt[a].launch = "running" => attempt[a].outcome = NoOutcome

LEMMA OutcomesAreRecords ==
  \A o \in Outcomes \cup {NoOutcome} :
    o \in OutcomeRows
  BY DEF OutcomeRows, Outcomes, NoOutcome, Outcome, Pages

LEMMA ComparisonStepKeeps ==
  ComparisonInvariant /\ [ComparisonNext]_comparisonVars => ComparisonInvariant'
<1> SUFFICES ASSUME ComparisonInvariant, [ComparisonNext]_comparisonVars PROVE ComparisonInvariant'
  OBVIOUS
<1>1. ASSUME NEW a \in Runs \X Pairs, NEW row \in AttemptRows, attempt' = [attempt EXCEPT ![a] = row],
             row.launch = "running" => row.outcome = NoOutcome
      PROVE  ComparisonInvariant'
  BY <1>1 DEF ComparisonInvariant, AttemptRows
<1>2. \A a \in Runs \X Pairs : attempt[a] \in AttemptRows
  BY DEF ComparisonInvariant, AttemptRows
<1>3. ASSUME NEW a \in Runs \X Pairs, TakeOver(a) PROVE ComparisonInvariant'
  <2>1. /\ [attempt[a] EXCEPT !.assisted = TRUE] \in AttemptRows
        /\ [attempt[a] EXCEPT !.assisted = TRUE].outcome = attempt[a].outcome
        /\ attempt[a].outcome = NoOutcome
    BY <1>2, <1>3 DEF AttemptRows, TakeOver, ComparisonInvariant
  <2> QED BY <1>1, <1>3, <2>1 DEF TakeOver, Change
<1>4. ASSUME NEW a \in Runs \X Pairs, LoseWorker(a) PROVE ComparisonInvariant'
  <2>1. /\ [attempt[a] EXCEPT !.launch = "recovering"] \in AttemptRows
        /\ [attempt[a] EXCEPT !.launch = "recovering"].launch = "recovering"
    BY <1>2 DEF AttemptRows
  <2> QED BY <1>1, <1>4, <2>1 DEF LoseWorker, Change
<1>5. ASSUME NEW a \in Runs \X Pairs, RecoverAttempt(a) PROVE ComparisonInvariant'
  <2> DEFINE row == [attempt[a] EXCEPT !.launch = "settled",
                       !.outcome = IF @ = NoOutcome THEN [@ EXCEPT !.status = "ended"] ELSE @]
  <2>1. row \in AttemptRows /\ row.launch = "settled"
    <3>1. [attempt[a].outcome EXCEPT !.status = "ended"] \in OutcomeRows /\ attempt[a].outcome \in OutcomeRows
      BY <1>2 DEF AttemptRows, OutcomeRows
    <3> QED BY <1>2, <3>1 DEF AttemptRows
  <2>2. attempt' = [attempt EXCEPT ![a] = row]
    BY <1>5 DEF RecoverAttempt, Change
  <2> QED BY <1>1, <2>1, <2>2
<1>6. ASSUME NEW a \in Runs \X Pairs, NEW o \in Outcomes, FinishAttempt(a, o) PROVE ComparisonInvariant'
  <2> DEFINE row == [attempt[a] EXCEPT !.outcome = o,
                       !.launch = IF o.cleanup = "closed" THEN "settled" ELSE "recovering"]
  <2>1. row \in AttemptRows /\ row.launch # "running"
    BY <1>2, OutcomesAreRecords, ZenonT(60) DEF AttemptRows
  <2>2. attempt' = [attempt EXCEPT ![a] = row]
    BY <1>6 DEF FinishAttempt, Change
  <2> QED BY <1>1, <2>1, <2>2
<1>7. CASE UNCHANGED comparisonVars
  BY <1>7 DEF comparisonVars, ComparisonInvariant
<1> QED BY <1>3, <1>4, <1>5, <1>6, <1>7 DEF ComparisonNext

LEMMA SettledStays ==
  ASSUME ComparisonInvariant, [ComparisonNext]_comparisonVars,
         NEW a \in Runs \X Pairs, attempt[a].launch = "settled"
  PROVE  attempt'[a] = attempt[a]
<1>1. \A b \in Runs \X Pairs : /\ TakeOver(b) \/ LoseWorker(b) \/ RecoverAttempt(b)
                                  \/ \E o \in Outcomes : FinishAttempt(b, o)
                               => a # b /\ \E row : attempt' = [attempt EXCEPT ![b] = row]
  BY DEF TakeOver, LoseWorker, RecoverAttempt, FinishAttempt, Change
<1> QED BY <1>1 DEF ComparisonNext, comparisonVars, ComparisonInvariant

(* A confirmed fix is confirmed by attempts that are settled. *)
LEMMA FixedStays ==
  ASSUME ComparisonInvariant, [ComparisonNext]_comparisonVars, ParentsOver,
         NEW f \in Findings, FindingState(f) = "confirmed_fixed"
  PROVE  FindingState(f)' = "confirmed_fixed"
<1>1. asksCriterion' = asksCriterion
  BY DEF ComparisonNext, TakeOver, LoseWorker, RecoverAttempt, FinishAttempt, comparisonVars
<1>2. /\ Affected("parent", f) \cup Affected("child", f) # {} /\ Affected("child", f) = {}
      /\ Eligible(f) # {} /\ ~(\E p \in Eligible(f) : Assisted(p))
      /\ Confirmed(f) = Eligible(f)
  BY DEF FindingState, MustConfirm, EveryEligible
<1>3. \A p \in Pairs : At("parent", p)' = At("parent", p)
  BY SettledStays DEF ParentsOver, At, Runs
<1>4. \A p \in Eligible(f) : p \in Tested(f) /\ p \in asksCriterion /\ p \in Pairs
                             /\ At("child", p).outcome.check = "met"
  BY <1>2 DEF Confirmed, Tested, Eligible
<1>5. \A p \in Eligible(f) : At("child", p)' = At("child", p)
  <2> TAKE p \in Eligible(f)
  <2>1. <<"child", p>> \in Runs \X Pairs /\ Settled(At("child", p))
    BY <1>4 DEF Tested, Runs
  <2>2. At("child", p).launch = "settled"
    BY <2>1 DEF Settled, Counts, Finality, ComparisonInvariant, AttemptRows, At, NoOutcome, Outcome
  <2> QED BY <2>1, <2>2, SettledStays DEF At
<1>6. Eligible(f)' = Eligible(f)
  BY <1>1 DEF Eligible
<1>7. Affected("parent", f)' = Affected("parent", f)
  BY <1>1, <1>3 DEF Affected, Shows, Counts, Finality
<1>8. Affected("child", f)' = {}
  <2>1. \A p \in Pairs \ Eligible(f) : ~Shows(At("child", p), p, f)'
    BY <1>1, <1>6 DEF Eligible, Shows
  <2>2. \A p \in Eligible(f) : ~Shows(At("child", p), p, f)'
    BY <1>1, <1>2, <1>4, <1>5 DEF Affected, Shows, Counts, Finality
  <2> QED BY <2>1, <2>2 DEF Affected
<1>9. \A p \in Eligible(f) : Assisted(p)' = Assisted(p)
  BY <1>3, <1>4, <1>5 DEF Assisted, Runs
<1>10. Confirmed(f)' = Confirmed(f)
  <2>1. Tested(f)' = Tested(f)
    BY <1>1, <1>5, <1>6, <1>9 DEF Tested, Settled, Shows, Counts, Finality
  <2> QED BY <1>1, <1>4, <1>5, <1>6, <2>1 DEF Confirmed, Tested
<1> QED BY <1>2, <1>6, <1>7, <1>8, <1>9, <1>10 DEF FindingState, MustConfirm, EveryEligible

(* Once the parents are over, a fix that was confirmed is not taken back.  *)
THEOREM ConfirmedFixesStay == ComparisonSpec => FixIsFinal
<1>1. ComparisonInit => ComparisonInvariant
  BY DEF ComparisonInit, ComparisonInvariant, Fresh, AttemptRows, OutcomeRows, NoOutcome, Outcome, Pages
<1>2. ComparisonInvariant /\ [ComparisonNext]_comparisonVars
      => [ParentsOver => Fixed \subseteq Fixed']_comparisonVars
  BY FixedStays DEF Fixed, Findings
<1> QED BY <1>1, <1>2, ComparisonStepKeeps, PTL DEF ComparisonSpec, FixIsFinal
-----------------------------------------------------------------------------
(* OwnerPages.  While the session is being opened nothing is authorised,   *)
(* and a request of a private page that was not given up is one the user   *)
(* still wants.                                                            *)
OwnerRequests ==
  [what : {"read", "cancel", "report", "image", "authorize", "inspect"}, aborted : BOOLEAN,
   stage : {"sent", "answered", "over"}, answer : Int]
OwnerPagesInvariant ==
  /\ page \in OwnerPageNames /\ version \in Nat /\ displayed \in Nat
  /\ asked \in Seq(OwnerRequests)
  /\ opening => ~authorized
  /\ armed => page \notin Private
  /\ page \in Private =>
       \A i \in Ids : asked[i].stage # "over" /\ ~asked[i].aborted => wanted /\ authorized
  /\ HiddenStaysHidden

LEMMA RequestAdded ==
  ASSUME NEW s \in Seq(OwnerRequests), NEW what \in {"read", "cancel", "report", "image", "authorize", "inspect"}
  PROVE  /\ With(s, what) \in Seq(OwnerRequests) /\ Len(With(s, what)) = Len(s) + 1
         /\ \A i \in 1..Len(s) : With(s, what)[i] = s[i]
<1>1. Request(what) \in OwnerRequests
  BY DEF Request, OwnerRequests
<1> QED BY <1>1 DEF With

LEMMA RequestsAborted ==
  ASSUME NEW s \in Seq(OwnerRequests)
  PROVE  /\ Aborted(s) \in Seq(OwnerRequests) /\ Len(Aborted(s)) = Len(s)
         /\ \A i \in 1..Len(s) : Aborted(s)[i].aborted
<1> DEFINE t(i) == [s[i] EXCEPT !.aborted = TRUE]
<1>1. \A i \in 1..Len(s) : s[i] \in OwnerRequests
  OBVIOUS
<1>2. \A i \in 1..Len(s) : t(i) \in OwnerRequests
  BY <1>1 DEF OwnerRequests
<1>3. \A i \in 1..Len(s) : t(i).aborted = TRUE
  BY <1>1 DEF OwnerRequests
<1>4. Aborted(s) = [i \in 1..Len(s) |-> t(i)] /\ Len(s) \in Nat
  BY DEF Aborted
<1> HIDE DEF t
<1>5. Aborted(s) \in Seq(OwnerRequests) /\ Len(Aborted(s)) = Len(s)
  BY <1>2, <1>4
<1> QED BY <1>3, <1>4, <1>5

(* The page's facts once its requests moved on. *)
LEMMA OwnerPagesStepKeeps ==
  OwnerPagesInvariant /\ [OwnerPagesNext]_ownerPageVars => OwnerPagesInvariant'
<1> SUFFICES ASSUME OwnerPagesInvariant, [OwnerPagesNext]_ownerPageVars PROVE OwnerPagesInvariant'
  OBVIOUS
<1>0. /\ asked \in Seq(OwnerRequests) /\ Len(asked) \in Nat /\ page \in OwnerPageNames
      /\ \A i \in Ids : asked[i] \in OwnerRequests
      /\ Aborted(asked) \in Seq(OwnerRequests) /\ Len(Aborted(asked)) = Len(asked)
      /\ \A i \in Ids : Aborted(asked)[i].aborted
  BY RequestsAborted DEF OwnerPagesInvariant, Ids
<1>w. \A what \in {"read", "cancel", "report", "image", "authorize", "inspect"} :
        /\ With(asked, what) \in Seq(OwnerRequests) /\ Len(With(asked, what)) = Len(asked) + 1
        /\ \A i \in Ids : With(asked, what)[i] = asked[i]
  BY <1>0, RequestAdded DEF Ids
<1>v. \A what \in {"read", "cancel", "report", "image", "authorize", "inspect"} :
        /\ With(Aborted(asked), what) \in Seq(OwnerRequests)
        /\ Len(With(Aborted(asked), what)) = Len(asked) + 1
        /\ \A i \in Ids : With(Aborted(asked), what)[i].aborted
  <2> TAKE what \in {"read", "cancel", "report", "image", "authorize", "inspect"}
  <2> DEFINE s == Aborted(asked)
  <2>1. /\ s \in Seq(OwnerRequests) /\ Len(s) = Len(asked) /\ \A i \in Ids : s[i].aborted /\ i \in 1..Len(s)
    BY <1>0 DEF Ids
  <2> HIDE DEF s
  <2>2. With(s, what) \in Seq(OwnerRequests) /\ Len(With(s, what)) = Len(s) + 1
        /\ \A i \in 1..Len(s) : With(s, what)[i] = s[i]
    BY <2>1, RequestAdded
  <2>3. With(s, what) \in Seq(OwnerRequests) /\ Len(With(s, what)) = Len(asked) + 1
        /\ \A i \in Ids : With(s, what)[i].aborted
    BY <2>1, <2>2
  <2> QED BY <2>3 DEF s
<1>m. ASSUME NEW i \in Ids, NEW r \in OwnerRequests, r.aborted = asked[i].aborted,
             asked' = [asked EXCEPT ![i] = r]
      PROVE  /\ asked' \in Seq(OwnerRequests) /\ Ids' = Ids
             /\ \A j \in Ids : asked'[j].aborted = asked[j].aborted /\ (j # i => asked'[j] = asked[j])
             /\ asked'[i] = r
  BY <1>0, <1>m, ExceptSeq DEF Ids
<1>s. ASSUME NEW i \in Ids, NEW answer \in Int, asked[i].stage = "sent",
             asked' = [asked EXCEPT ![i].stage = "answered", ![i].answer = answer]
      PROVE  /\ asked' \in Seq(OwnerRequests) /\ Ids' = Ids
             /\ \A j \in Ids : asked'[j].aborted = asked[j].aborted
                               /\ (asked'[j].stage # "over" => asked[j].stage # "over")
  <2> DEFINE r == [asked[i] EXCEPT !.stage = "answered", !.answer = answer]
  <2>1. asked' = [asked EXCEPT ![i] = r]
    BY <1>0, <1>s
  <2>2. r \in OwnerRequests /\ r.aborted = asked[i].aborted
    BY <1>0 DEF OwnerRequests
  <2> HIDE DEF r
  <2> QED BY <1>m, <1>s, <2>1, <2>2, ZenonT(60)
<1>e. ASSUME NEW i \in Ids
      PROVE  /\ Ended(i) \in Seq(OwnerRequests) /\ Len(Ended(i)) = Len(asked)
             /\ \A j \in Ids : Ended(i)[j].aborted = asked[j].aborted /\ (j # i => Ended(i)[j] = asked[j])
             /\ Ended(i)[i].stage = "over"
  <2> DEFINE r == [asked[i] EXCEPT !.stage = "over", !.answer = 0]
  <2>1. Ended(i) = [asked EXCEPT ![i] = r]
    BY <1>0 DEF Ended
  <2>2. r \in OwnerRequests
    <3>1. \A n \in Int : [asked[i] EXCEPT !.stage = "over", !.answer = n] \in OwnerRequests
      BY <1>0 DEF OwnerRequests
    <3>2. 0 \in Int
      OBVIOUS
    <3> QED BY <3>1, <3>2, Zenon
  <2>3. r.stage = "over"
    BY <1>0 DEF OwnerRequests
  <2>4. r.aborted = asked[i].aborted
    BY <1>0 DEF OwnerRequests
  <2> HIDE DEF r
  <2> QED BY <1>0, <2>1, <2>2, <2>3, <2>4, ExceptSeq DEF Ids
<1> USE DEF OwnerPagesInvariant, HiddenStaysHidden, sessionVars, paneVars, Ids, Private, OwnerPageNames, Locks
<1>1. CASE RetryOwner
  BY <1>0, <1>1 DEF RetryOwner
<1>2. CASE SessionOpened
  BY <1>0, <1>w, <1>2 DEF SessionOpened
<1>3. CASE SessionRefused
  BY <1>3 DEF SessionRefused
<1>4. ASSUME NEW action \in {"cancel", "report"}, RequestAction(action) PROVE OwnerPagesInvariant'
  BY <1>w, <1>4 DEF RequestAction
<1>5. CASE ShowImage
  BY <1>0, <1>v, <1>5 DEF ShowImage
<1>6. CASE InspectRecording
  BY <1>0, <1>v, <1>6 DEF InspectRecording
<1>7. CASE Hide
  BY <1>0, <1>7 DEF Hide
<1>8. CASE RefreshReport
  BY <1>0, <1>v, <1>8 DEF RefreshReport
<1>9. CASE ReadAgain
  BY <1>w, <1>9 DEF ReadAgain
<1>10. CASE FiveSecondsPass
  BY <1>10 DEF FiveSecondsPass
<1>11. CASE RunChanges
  BY <1>11 DEF RunChanges
<1>12. ASSUME NEW i \in Ids, Serve(i) PROVE OwnerPagesInvariant'
  <2>1. PICK answer \in {Denied, Missing, PollFailed, version'} :
          asked' = [asked EXCEPT ![i].stage = "answered", ![i].answer = answer]
    BY <1>12 DEF Serve
  <2>2. asked[i].stage = "sent" /\ version' \in Nat /\ UNCHANGED <<page, sessionVars, paneVars>>
    BY <1>12 DEF Serve
  <2>3. answer \in Int
    BY <2>2 DEF Denied, Missing, PollFailed
  <2>4. /\ asked' \in Seq(OwnerRequests) /\ Ids' = Ids
        /\ \A j \in Ids : asked'[j].aborted = asked[j].aborted
                          /\ (asked'[j].stage # "over" => asked[j].stage # "over")
    BY <1>s, <2>1, <2>2, <2>3
  <2> QED BY <2>2, <2>4
<1>13. ASSUME NEW i \in Ids, asked[i].stage = "answered", IgnoreAnswer(i) PROVE OwnerPagesInvariant'
  <2>1. asked' = Ended(i) /\ Answer(i) \in Int /\ (asked[i].stage # "over")
    BY <1>0, <1>13 DEF IgnoreAnswer, Answer, OwnerRequests
  <2> QED BY <1>e, <1>13, <2>1 DEF IgnoreAnswer
<1>14. ASSUME NEW i \in Ids, asked[i].stage = "answered", AnswerDenied(i) PROVE OwnerPagesInvariant'
  <2>1. /\ Aborted(Ended(i)) \in Seq(OwnerRequests) /\ Len(Aborted(Ended(i))) = Len(asked)
        /\ \A j \in Ids : Aborted(Ended(i))[j].aborted
    BY <1>e, RequestsAborted
  <2> QED BY <1>14, <2>1 DEF AnswerDenied
<1>15. ASSUME NEW i \in Ids, asked[i].stage = "answered", WallAnswered(i) PROVE OwnerPagesInvariant'
  <2>1. asked' = Ended(i) /\ Answer(i) \in Int /\ (asked[i].stage # "over")
    BY <1>0, <1>15 DEF WallAnswered, Answer, OwnerRequests
  <2> QED BY <1>e, <1>15, <2>1 DEF WallAnswered, Given, NewerOf
<1>16. ASSUME NEW i \in Ids, asked[i].stage = "answered", ImageAnswered(i) PROVE OwnerPagesInvariant'
  <2>1. asked' = Ended(i) /\ Answer(i) \in Int /\ (asked[i].stage # "over")
    BY <1>0, <1>16 DEF ImageAnswered, Answer, OwnerRequests
  <2> QED BY <1>e, <1>16, <2>1 DEF ImageAnswered, Given, Ignored
<1>17. ASSUME NEW i \in Ids, asked[i].stage = "answered", RecordingAnswered(i) PROVE OwnerPagesInvariant'
  <2>1. Answer(i) \in Int /\ asked[i].stage # "over" /\ ~asked[i].aborted /\ page = "recording"
    BY <1>0, <1>17 DEF Answer, OwnerRequests, RecordingAnswered, Ignored
  <2> DEFINE s == Ended(i)
             t == With(s, "inspect")
  <2>2. t \in Seq(OwnerRequests) /\ Len(t) = Len(asked) + 1 /\ \A j \in Ids : t[j] = s[j]
    <3>1. s \in Seq(OwnerRequests) /\ Len(s) = Len(asked)
      BY <1>e
    <3>2. "inspect" \in {"read", "cancel", "report", "image", "authorize", "inspect"}
      OBVIOUS
    <3>3. /\ With(s, "inspect") \in Seq(OwnerRequests) /\ Len(With(s, "inspect")) = Len(s) + 1
          /\ \A j \in 1..Len(s) : With(s, "inspect")[j] = s[j]
      BY ONLY <3>1, <3>2, RequestAdded, Zenon
    <3> QED BY <3>1, <3>3 DEF Ids
  <2> QED BY <1>0, <1>e, <1>17, <2>1, <2>2 DEF RecordingAnswered, Given
<1>18. ASSUME NEW i \in Ids, asked[i].stage = "answered", ReportAnswered(i) PROVE OwnerPagesInvariant'
  <2>1. asked' = Ended(i) /\ Answer(i) \in Int /\ (asked[i].stage # "over")
    BY <1>0, <1>18 DEF ReportAnswered, Answer, OwnerRequests
  <2> QED BY <1>e, <1>18, <2>1 DEF ReportAnswered, Given
<1>19. CASE UNCHANGED ownerPageVars
  BY <1>19 DEF ownerPageVars
<1> QED BY <1>1, <1>2, <1>3, <1>4, <1>5, <1>6, <1>7, <1>8, <1>9, <1>10, <1>11, <1>12, <1>13, <1>14, <1>15, <1>16, <1>17, <1>18, <1>19
        DEF OwnerPagesNext, OwnerStep, UserStep, TimerStep, AnswerStep, Arrive

LEMMA OwnerPagesStartRight == OwnerPagesInit => OwnerPagesInvariant
  BY DEF OwnerPagesInit, OwnerPagesInvariant, HiddenStaysHidden, Ids

(* Private pixels are on the page only while the user's last word was to   *)
(* show them and the session is open.                                      *)
THEOREM HiddenPixelsStayHidden == OwnerPagesSpec => []HiddenStaysHidden
<1>1. OwnerPagesInvariant => HiddenStaysHidden
  BY DEF OwnerPagesInvariant
<1> QED BY <1>1, OwnerPagesStartRight, OwnerPagesStepKeeps, PTL DEF OwnerPagesSpec

(* The wall of a managed run never goes back. *)
THEOREM TheWallMovesForward == OwnerPagesSpec => WallNeverGoesBack
<1>1. OwnerPagesInvariant /\ [OwnerPagesNext]_ownerPageVars
      => [page = "wall" /\ authorized => displayed' >= displayed]_ownerPageVars
  <2> SUFFICES ASSUME OwnerPagesInvariant, [OwnerPagesNext]_ownerPageVars, page = "wall", authorized
               PROVE  displayed' >= displayed
    OBVIOUS
  <2>1. displayed \in Nat /\ ~opening /\ \A i \in Ids : asked[i] \in OwnerRequests
    BY DEF OwnerPagesInvariant, Ids
  <2> USE DEF sessionVars, paneVars, Locks, Private
  <2>2. CASE OwnerStep
    <3>1. displayed' = displayed
      BY <2>1, <2>2 DEF OwnerStep, RetryOwner, SessionOpened, SessionRefused
    <3> QED BY <2>1, <3>1
  <2>3. CASE UserStep
    <3>1. displayed' = displayed
      BY <2>3 DEF UserStep, RequestAction, ShowImage, InspectRecording, Hide, RefreshReport
    <3> QED BY <2>1, <3>1
  <2>4. CASE TimerStep
    <3>1. displayed' = displayed
      BY <2>4 DEF TimerStep, ReadAgain, FiveSecondsPass
    <3> QED BY <2>1, <3>1
  <2>5. CASE RunChanges
    <3>1. displayed' = displayed
      BY <2>5 DEF RunChanges
    <3> QED BY <2>1, <3>1
  <2>6. ASSUME NEW i \in Ids, Serve(i) \/ Arrive(i) PROVE displayed' >= displayed
    <3>1. displayed' = displayed \/ (displayed' = NewerOf(Answer(i)))
      BY <2>6 DEF Serve, Arrive, IgnoreAnswer, AnswerDenied, WallAnswered,
                      ImageAnswered, RecordingAnswered, ReportAnswered
    <3>2. Answer(i) \in Int
      BY <2>1 DEF Answer, OwnerRequests
    <3> QED BY <2>1, <3>1, <3>2 DEF NewerOf
  <2>7. CASE UNCHANGED ownerPageVars
    BY <2>1, <2>7 DEF ownerPageVars
  <2> QED BY <2>2, <2>3, <2>4, <2>5, <2>6, <2>7 DEF OwnerPagesNext, AnswerStep
<1> QED BY <1>1, OwnerPagesStartRight, OwnerPagesStepKeeps, PTL DEF OwnerPagesSpec, WallNeverGoesBack
-----------------------------------------------------------------------------
(* DataStore.  A table comes with one migration, and a migration finds all *)
(* it touches in the tables of those before it.                            *)
LEMMA MigrationList ==
  /\ Len(migrations) = 16
  /\ migrations[1] = CoreMigration /\ migrations[2] = WorkerMigration /\ migrations[3] = UsageMigration
  /\ migrations[4] = SiteMigration /\ migrations[5] = ReportMigration /\ migrations[6] = FindingMigration
  /\ migrations[7] = ContextMigration /\ migrations[8] = TakeoverMigration
  /\ migrations[9] = RerunMigration /\ migrations[10] = ReproductionMigration
  /\ migrations[11] = AdvancedMigration /\ migrations[12] = PublicMigration
  /\ migrations[13] = ManagedMigration /\ migrations[14] = ReferenceMigration
  /\ migrations[15] = FinishMigration /\ migrations[16] = FailureMigration
  BY DEF migrations

(* The migration that adds a table. *)
HomeOf(t) ==
  IF t \in CoreMigration.adds THEN 1 ELSE IF t \in WorkerMigration.adds THEN 2
  ELSE IF t \in UsageMigration.adds THEN 3 ELSE IF t \in SiteMigration.adds THEN 4
  ELSE IF t \in ReportMigration.adds THEN 5 ELSE IF t \in ContextMigration.adds THEN 7
  ELSE IF t \in TakeoverMigration.adds THEN 8 ELSE IF t \in RerunMigration.adds THEN 9
  ELSE IF t \in ReproductionMigration.adds THEN 10 ELSE IF t \in AdvancedMigration.adds THEN 11
  ELSE IF t \in PublicMigration.adds THEN 12 ELSE IF t \in ManagedMigration.adds THEN 13
  ELSE IF t \in ReferenceMigration.adds THEN 14 ELSE IF t \in FinishMigration.adds THEN 15
  ELSE 16

LEMMA TablesHaveAHome ==
  \A n \in 1..16 : \A t \in migrations[n].adds : HomeOf(t) = n
<1> USE DEF Migration, CoreTables, CoreMigration, WorkerMigration, UsageMigration, SiteMigration,
            ReportMigration, FindingMigration, ContextMigration, TakeoverMigration, RerunMigration,
            ReproductionMigration, AdvancedMigration, PublicMigration, ManagedMigration,
            ReferenceMigration, FinishMigration, FailureMigration, HomeOf
<1>1. \A t \in CoreMigration.adds : HomeOf(t) = 1
  OBVIOUS
<1>2. \A t \in WorkerMigration.adds : HomeOf(t) = 2
  OBVIOUS
<1>3. \A t \in UsageMigration.adds : HomeOf(t) = 3
  OBVIOUS
<1>4. \A t \in SiteMigration.adds : HomeOf(t) = 4
  OBVIOUS
<1>5. \A t \in ReportMigration.adds : HomeOf(t) = 5
  OBVIOUS
<1>6. \A t \in FindingMigration.adds : HomeOf(t) = 6
  OBVIOUS
<1>7. \A t \in ContextMigration.adds : HomeOf(t) = 7
  OBVIOUS
<1>8. \A t \in TakeoverMigration.adds : HomeOf(t) = 8
  OBVIOUS
<1>9. \A t \in RerunMigration.adds : HomeOf(t) = 9
  OBVIOUS
<1>10. \A t \in ReproductionMigration.adds : HomeOf(t) = 10
  OBVIOUS
<1>11. \A t \in AdvancedMigration.adds : HomeOf(t) = 11
  OBVIOUS
<1>12. \A t \in PublicMigration.adds : HomeOf(t) = 12
  OBVIOUS
<1>13. \A t \in ManagedMigration.adds : HomeOf(t) = 13
  OBVIOUS
<1>14. \A t \in ReferenceMigration.adds : HomeOf(t) = 14
  OBVIOUS
<1>15. \A t \in FinishMigration.adds : HomeOf(t) = 15
  OBVIOUS
<1>16. \A t \in FailureMigration.adds : HomeOf(t) = 16
  OBVIOUS
<1> HIDE DEF HomeOf, CoreMigration, WorkerMigration, UsageMigration, SiteMigration, ReportMigration, FindingMigration, ContextMigration, TakeoverMigration, RerunMigration, ReproductionMigration, AdvancedMigration, PublicMigration, ManagedMigration, ReferenceMigration, FinishMigration, FailureMigration
<1>17. \A n \in 1..16 : n \in {1, 2, 3, 4, 5, 6, 7, 8, 9, 10, 11, 12, 13, 14, 15, 16}
  OBVIOUS
<1> QED BY MigrationList, <1>1, <1>2, <1>3, <1>4, <1>5, <1>6, <1>7, <1>8, <1>9, <1>10, <1>11, <1>12, <1>13, <1>14, <1>15, <1>16, <1>17

LEMMA TouchedTablesExist ==
  \A n \in 1..16 : \A t \in migrations[n].touches : \E i \in 1..n - 1 : t \in migrations[i].adds
<1> USE DEF Migration, CoreTables, CoreMigration, WorkerMigration, UsageMigration, SiteMigration,
            ReportMigration, FindingMigration, ContextMigration, TakeoverMigration, RerunMigration,
            ReproductionMigration, AdvancedMigration, PublicMigration, ManagedMigration,
            ReferenceMigration, FinishMigration, FailureMigration
<1>1. CoreMigration.touches = {}
  OBVIOUS
<1>2. WorkerMigration.touches \subseteq CoreMigration.adds
  OBVIOUS
<1>3. UsageMigration.touches \subseteq CoreMigration.adds
  OBVIOUS
<1>4. SiteMigration.touches \subseteq CoreMigration.adds
  OBVIOUS
<1>5. ReportMigration.touches \subseteq CoreMigration.adds \cup WorkerMigration.adds
  OBVIOUS
<1>6. FindingMigration.touches \subseteq ReportMigration.adds
  OBVIOUS
<1>7. ContextMigration.touches \subseteq CoreMigration.adds
  OBVIOUS
<1>8. TakeoverMigration.touches \subseteq CoreMigration.adds
  OBVIOUS
<1>9. RerunMigration.touches \subseteq CoreMigration.adds
  OBVIOUS
<1>10. ReproductionMigration.touches = {}
  OBVIOUS
<1>11. AdvancedMigration.touches \subseteq ReproductionMigration.adds
  OBVIOUS
<1>12. PublicMigration.touches \subseteq CoreMigration.adds \cup WorkerMigration.adds \cup SiteMigration.adds
  OBVIOUS
<1>13. ManagedMigration.touches \subseteq CoreMigration.adds
  OBVIOUS
<1>14. ReferenceMigration.touches \subseteq ManagedMigration.adds
  OBVIOUS
<1>15. FinishMigration.touches \subseteq ManagedMigration.adds
  OBVIOUS
<1>16. FailureMigration.touches \subseteq ManagedMigration.adds
  OBVIOUS
<1> HIDE DEF CoreMigration, WorkerMigration, UsageMigration, SiteMigration, ReportMigration, FindingMigration, ContextMigration, TakeoverMigration, RerunMigration, ReproductionMigration, AdvancedMigration, PublicMigration, ManagedMigration, ReferenceMigration, FinishMigration, FailureMigration
<1>17. \A n \in 1..16 : n \in {1, 2, 3, 4, 5, 6, 7, 8, 9, 10, 11, 12, 13, 14, 15, 16}
  OBVIOUS
<1>18. \A t \in migrations[1].touches : \E i \in 1..1 - 1 : t \in migrations[i].adds
  BY MigrationList, <1>1
<1>19. \A t \in migrations[2].touches : \E i \in 1..2 - 1 : t \in migrations[i].adds
  BY MigrationList, <1>2
<1>20. \A t \in migrations[3].touches : \E i \in 1..3 - 1 : t \in migrations[i].adds
  BY MigrationList, <1>3
<1>21. \A t \in migrations[4].touches : \E i \in 1..4 - 1 : t \in migrations[i].adds
  BY MigrationList, <1>4
<1>22. \A t \in migrations[5].touches : \E i \in 1..5 - 1 : t \in migrations[i].adds
  BY MigrationList, <1>5
<1>23. \A t \in migrations[6].touches : \E i \in 1..6 - 1 : t \in migrations[i].adds
  BY MigrationList, <1>6
<1>24. \A t \in migrations[7].touches : \E i \in 1..7 - 1 : t \in migrations[i].adds
  BY MigrationList, <1>7
<1>25. \A t \in migrations[8].touches : \E i \in 1..8 - 1 : t \in migrations[i].adds
  BY MigrationList, <1>8
<1>26. \A t \in migrations[9].touches : \E i \in 1..9 - 1 : t \in migrations[i].adds
  BY MigrationList, <1>9
<1>27. \A t \in migrations[10].touches : \E i \in 1..10 - 1 : t \in migrations[i].adds
  BY MigrationList, <1>10
<1>28. \A t \in migrations[11].touches : \E i \in 1..11 - 1 : t \in migrations[i].adds
  BY MigrationList, <1>11
<1>29. \A t \in migrations[12].touches : \E i \in 1..12 - 1 : t \in migrations[i].adds
  BY MigrationList, <1>12
<1>30. \A t \in migrations[13].touches : \E i \in 1..13 - 1 : t \in migrations[i].adds
  BY MigrationList, <1>13
<1>31. \A t \in migrations[14].touches : \E i \in 1..14 - 1 : t \in migrations[i].adds
  BY MigrationList, <1>14
<1>32. \A t \in migrations[15].touches : \E i \in 1..15 - 1 : t \in migrations[i].adds
  BY MigrationList, <1>15
<1>33. \A t \in migrations[16].touches : \E i \in 1..16 - 1 : t \in migrations[i].adds
  BY MigrationList, <1>16
<1> QED BY <1>17, <1>18, <1>19, <1>20, <1>21, <1>22, <1>23, <1>24, <1>25, <1>26, <1>27, <1>28, <1>29, <1>30, <1>31, <1>32, <1>33

LEMMA MigrationsFit ==
  \A v \in 0..15 : /\ Fits(migrations[v + 1], SchemaOf(v))
                   /\ SchemaOf(v + 1) = SchemaOf(v) \cup migrations[v + 1].adds
<1> TAKE v \in 0..15
<1>1. v + 1 \in 1..16 /\ \A i : i \in 1..v + 1 <=> i \in 1..v \/ i = v + 1
  OBVIOUS
<1>2. migrations[v + 1].touches \subseteq SchemaOf(v)
  <2>1. \A t \in migrations[v + 1].touches : \E i \in 1..(v + 1) - 1 : t \in migrations[i].adds
    BY <1>1, TouchedTablesExist
  <2>2. 1..(v + 1) - 1 = 1..v
    OBVIOUS
  <2> QED BY <2>1, <2>2 DEF SchemaOf
<1>3. migrations[v + 1].adds \cap SchemaOf(v) = {}
  <2>1. \A t \in SchemaOf(v) : HomeOf(t) \in 1..v
    BY TablesHaveAHome DEF SchemaOf
  <2>2. \A t \in migrations[v + 1].adds : HomeOf(t) = v + 1
    BY <1>1, TablesHaveAHome
  <2> QED BY <2>1, <2>2
<1>4. SchemaOf(v + 1) = SchemaOf(v) \cup migrations[v + 1].adds
  BY <1>1 DEF SchemaOf
<1> QED BY <1>2, <1>3, <1>4 DEF Fits

(* Only the holder of the lock migrates, from a schema that fits the       *)
(* version on; who is past its migrations has at least its release.        *)
Tables == SchemaOf(16)
DataStoreTypes ==
  /\ release \in [Processes -> Releases] /\ configuration \in [Processes -> Configurations \cup {App}]
  /\ stage \in [Processes -> Stages] /\ applied \in BOOLEAN
  /\ disk \in [version : 0..16, schema : SUBSET Tables, policy : Configurations \cup {App}]
  /\ draft \in [version : 0..16, schema : SUBSET Tables]
OneMigrates ==
  /\ \A p \in Processes : lock = p <=> stage[p] = "migrating"
  /\ lock \in Processes =>
       /\ disk.version <= draft.version /\ draft.version <= release[lock]
       /\ applied => draft.version < release[lock]
       /\ draft.schema = SchemaOf(IF applied THEN draft.version + 1 ELSE draft.version)
MigratedHaveTheirRelease ==
  \A p \in Processes :
    /\ stage[p] \in {"migrated", "open"} => disk.version >= release[p]
    /\ stage[p] = "migrated" => configuration[p] # App
DataStoreInvariant ==
  /\ DataStoreTypes /\ OneMigrates /\ MigratedHaveTheirRelease /\ StoreIsWhole

LEMMA SchemasAreTables == \A v \in 0..16 : SchemaOf(v) \subseteq Tables
<1> TAKE v \in 0..16
<1>1. 1..v \subseteq 1..16
  OBVIOUS
<1> QED BY <1>1 DEF Tables, SchemaOf

LEMMA DataStoreStepKeeps ==
  DataStoreInvariant /\ [DataStoreNext]_storeVars => DataStoreInvariant'
<1> SUFFICES ASSUME DataStoreInvariant, [DataStoreNext]_storeVars PROVE DataStoreInvariant'
  OBVIOUS
<1>0. /\ \A p \in Processes : release[p] \in 1..16 /\ p # App
      /\ disk.version \in 0..16 /\ draft.version \in 0..16 /\ disk.schema = SchemaOf(disk.version)
  BY DataStoreAssumption, MigrationList DEF DataStoreInvariant, DataStoreTypes, StoreIsWhole
<1> USE DataStoreAssumption DEF Goes, Stages
<1>1. ASSUME NEW p \in Processes, OpenFile(p) PROVE DataStoreInvariant'
  BY <1>1 DEF DataStoreInvariant, DataStoreTypes, OneMigrates, MigratedHaveTheirRelease, StoreIsWhole, OpenFile
<1>2. ASSUME NEW p \in Processes, TooBusy(p) PROVE DataStoreInvariant'
  BY <1>2 DEF DataStoreInvariant, DataStoreTypes, OneMigrates, MigratedHaveTheirRelease, StoreIsWhole, TooBusy
<1>3. ASSUME NEW p \in Processes, BeginMigrations(p) PROVE DataStoreInvariant'
  <2>1. CASE disk.version > release[p]
    BY <1>3, <2>1 DEF DataStoreInvariant, DataStoreTypes, OneMigrates, MigratedHaveTheirRelease, StoreIsWhole,
                      BeginMigrations
  <2>2. CASE ~(disk.version > release[p])
    <3>1. /\ stage' = [stage EXCEPT ![p] = "migrating"] /\ lock' = p /\ applied' = FALSE /\ lock = App
          /\ draft'.version = disk.version /\ draft'.schema = disk.schema
          /\ draft' \in [version : 0..16, schema : SUBSET Tables]
          /\ UNCHANGED <<release, configuration, disk>>
      BY <1>3, <2>2 DEF BeginMigrations, DataStoreInvariant, DataStoreTypes
    <3>2. DataStoreTypes' /\ MigratedHaveTheirRelease' /\ StoreIsWhole'
      BY <3>1 DEF DataStoreInvariant, DataStoreTypes, MigratedHaveTheirRelease, StoreIsWhole
    <3>3. OneMigrates'
      <4>1. \A q \in Processes : lock' = q <=> stage'[q] = "migrating"
        BY <1>0, <3>1 DEF DataStoreInvariant, DataStoreTypes, OneMigrates
      <4> QED BY <1>0, <2>2, <3>1, <4>1, SMTT(60) DEF OneMigrates
    <3> QED BY <3>2, <3>3 DEF DataStoreInvariant
  <2> QED BY <2>1, <2>2
<1>4. ASSUME NEW p \in Processes, ApplyMigration(p) PROVE DataStoreInvariant'
  <2>1. /\ lock = p /\ stage[p] = "migrating" /\ ~applied /\ draft.version < release[p]
        /\ draft.schema = SchemaOf(draft.version) /\ draft.version \in 0..15
    BY <1>0, <1>4 DEF ApplyMigration, DataStoreInvariant, OneMigrates
  <2>2. Fits(migrations[draft.version + 1], draft.schema)
    BY <2>1, MigrationsFit
  <2>3. /\ draft' = [draft EXCEPT !.schema = draft.schema \cup migrations[draft.version + 1].adds]
        /\ applied' = TRUE /\ UNCHANGED <<stage, disk, lock, release, configuration>>
    BY <1>4, <2>2 DEF ApplyMigration
  <2>4. draft.schema \cup migrations[draft.version + 1].adds = SchemaOf(draft.version + 1)
    BY <2>1, MigrationsFit
  <2>5. SchemaOf(draft.version + 1) \subseteq Tables
    BY <2>1, SchemasAreTables
  <2>6. /\ draft' \in [version : 0..16, schema : SUBSET Tables]
        /\ draft'.version = draft.version /\ draft'.schema = SchemaOf(draft.version + 1)
    BY <2>3, <2>4, <2>5 DEF DataStoreInvariant, DataStoreTypes
  <2>7. DataStoreTypes' /\ MigratedHaveTheirRelease' /\ StoreIsWhole'
    BY <2>3, <2>6 DEF DataStoreInvariant, DataStoreTypes, MigratedHaveTheirRelease, StoreIsWhole
  <2>8. OneMigrates'
    BY <2>1, <2>3, <2>6 DEF DataStoreInvariant, OneMigrates
  <2> QED BY <2>7, <2>8 DEF DataStoreInvariant
<1>5. ASSUME NEW p \in Processes, NumberMigration(p) PROVE DataStoreInvariant'
  <2>1. /\ lock = p /\ stage[p] = "migrating" /\ applied /\ draft.version < release[p]
        /\ draft.schema = SchemaOf(draft.version + 1) /\ draft.version \in 0..15
    BY <1>0, <1>5, SMTT(60) DEF NumberMigration, DataStoreInvariant, OneMigrates
  <2>2. /\ draft' \in [version : 0..16, schema : SUBSET Tables]
        /\ draft'.version = draft.version + 1 /\ draft'.schema = draft.schema
    BY <1>5, <2>1, SMTT(60) DEF NumberMigration, DataStoreInvariant, DataStoreTypes
  <2>3. applied' = FALSE /\ UNCHANGED <<release, configuration, stage, disk, lock>>
    BY <1>5 DEF NumberMigration
  <2>4. DataStoreTypes' /\ MigratedHaveTheirRelease' /\ StoreIsWhole'
    BY <2>2, <2>3 DEF DataStoreInvariant, DataStoreTypes, MigratedHaveTheirRelease, StoreIsWhole
  <2>5. OneMigrates'
    <3>1. disk.version <= draft.version
      BY <2>1 DEF DataStoreInvariant, OneMigrates
    <3>2. disk.version <= draft'.version /\ draft'.version <= release[p] /\ ~applied'
      BY <1>0, <2>1, <2>2, <2>3, <3>1, SMTT(60)
    <3>3. draft'.schema = SchemaOf(draft'.version)
      BY <2>1, <2>2
    <3>4. draft'.schema = SchemaOf(IF applied' THEN draft'.version + 1 ELSE draft'.version)
      BY <3>2, <3>3
    <3> QED BY <2>1, <2>3, <3>2, <3>4 DEF DataStoreInvariant, OneMigrates
  <2> QED BY <2>4, <2>5 DEF DataStoreInvariant
<1>6. ASSUME NEW p \in Processes, CommitMigrations(p) PROVE DataStoreInvariant'
  <2>1. /\ lock = p /\ stage[p] = "migrating" /\ ~applied /\ draft.version = release[p]
        /\ draft.schema = SchemaOf(draft.version) /\ disk.version <= draft.version
    BY <1>0, <1>6 DEF CommitMigrations, DataStoreInvariant, OneMigrates
  <2>2. /\ disk' \in [version : 0..16, schema : SUBSET Tables, policy : Configurations \cup {App}]
        /\ disk'.version = draft.version /\ disk'.schema = draft.schema /\ disk'.policy = disk.policy
    BY <1>6 DEF CommitMigrations, DataStoreInvariant, DataStoreTypes
  <2>3. /\ stage' = [stage EXCEPT ![p] = IF configuration[p] = App THEN "open" ELSE "migrated"]
        /\ lock' = App /\ applied' = FALSE /\ draft' = NoDraft /\ UNCHANGED <<release, configuration>>
    BY <1>6 DEF CommitMigrations, EndTransaction
  <2>4. draft' \in [version : 0..16, schema : SUBSET Tables]
    BY <2>3 DEF NoDraft
  <2>5. DataStoreTypes'
    BY <2>2, <2>3, <2>4 DEF DataStoreInvariant, DataStoreTypes
  <2>6. OneMigrates'
    BY <2>1, <2>3 DEF DataStoreInvariant, DataStoreTypes, OneMigrates
  <2>7. /\ disk.version <= disk'.version /\ disk'.version = release[p]
        /\ \A q \in Processes : stage'[q] = IF q = p THEN IF configuration[p] = App THEN "open" ELSE "migrated" ELSE stage[q]
    BY <2>1, <2>2, <2>3 DEF DataStoreInvariant, DataStoreTypes
  <2>8. MigratedHaveTheirRelease'
    BY <1>0, <2>2, <2>3, <2>7, SMTT(60) DEF DataStoreInvariant, MigratedHaveTheirRelease
  <2>9. StoreIsWhole'
    BY <1>0, <2>1, <2>2, <2>3, <2>7, SMTT(60) DEF DataStoreInvariant, StoreIsWhole
  <2> QED BY <2>5, <2>6, <2>8, <2>9 DEF DataStoreInvariant
<1>7. ASSUME NEW p \in Processes, AgreePolicy(p) PROVE DataStoreInvariant'
  <2>1. CASE disk.policy \in {App, configuration[p]}
    <3>1. /\ stage' = [stage EXCEPT ![p] = "open"] /\ UNCHANGED <<release, configuration, lock, draft, applied>>
          /\ stage[p] = "migrated" /\ lock = App
      BY <1>7, <2>1 DEF AgreePolicy
    <3>2. /\ disk' \in [version : 0..16, schema : SUBSET Tables, policy : Configurations \cup {App}]
          /\ disk'.version = disk.version /\ disk'.schema = disk.schema /\ disk'.policy = configuration[p]
      BY <1>7, <2>1 DEF AgreePolicy, DataStoreInvariant, DataStoreTypes
    <3>3. DataStoreTypes' /\ OneMigrates'
      BY <3>1, <3>2 DEF DataStoreInvariant, DataStoreTypes, OneMigrates
    <3>4. MigratedHaveTheirRelease' /\ StoreIsWhole'
      BY <2>1, <3>1, <3>2 DEF DataStoreInvariant, DataStoreTypes, MigratedHaveTheirRelease, StoreIsWhole
    <3> QED BY <3>3, <3>4 DEF DataStoreInvariant
  <2>2. CASE disk.policy \notin {App, configuration[p]}
    BY <1>7, <2>2 DEF DataStoreInvariant, DataStoreTypes, OneMigrates, MigratedHaveTheirRelease, StoreIsWhole,
                      AgreePolicy
  <2> QED BY <2>1, <2>2
<1>8. ASSUME NEW p \in Processes, Die(p) PROVE DataStoreInvariant'
  <2>1. CASE lock = p
    <3>1. /\ lock' = App /\ applied' = FALSE /\ draft' \in [version : 0..16, schema : SUBSET Tables]
          /\ disk' = disk /\ stage' = [stage EXCEPT ![p] = "down"] /\ UNCHANGED <<release, configuration>>
      BY <1>8, <2>1 DEF Die, RolledBack, EndTransaction, NoDraft
    <3> QED BY <1>0, <2>1, <3>1
            DEF DataStoreInvariant, DataStoreTypes, OneMigrates, MigratedHaveTheirRelease, StoreIsWhole
  <2>2. CASE lock # p
    BY <1>8, <2>2 DEF DataStoreInvariant, DataStoreTypes, OneMigrates, MigratedHaveTheirRelease, StoreIsWhole, Die
  <2> QED BY <2>1, <2>2
<1>9. CASE UNCHANGED storeVars
  BY <1>9 DEF storeVars, DataStoreInvariant, DataStoreTypes, OneMigrates, MigratedHaveTheirRelease, StoreIsWhole
<1> QED BY <1>1, <1>2, <1>3, <1>4, <1>5, <1>6, <1>7, <1>8, <1>9 DEF DataStoreNext

LEMMA DataStoreStartsRight == DataStoreInit => DataStoreInvariant
<1> SUFFICES ASSUME DataStoreInit PROVE DataStoreInvariant
  OBVIOUS
<1>1. PICK v \in 0..16, c \in Configurations \cup {App} : disk = Database(v, c)
  BY DataStoreAssumption, MigrationList DEF DataStoreInit
<1>2. SchemaOf(v) \subseteq Tables
  BY SchemasAreTables
<1>3. /\ disk \in [version : 0..16, schema : SUBSET Tables, policy : Configurations \cup {App}]
      /\ disk.schema = SchemaOf(disk.version)
  BY <1>1, <1>2 DEF Database
<1>4. draft \in [version : 0..16, schema : SUBSET Tables]
  BY DEF DataStoreInit, NoDraft
<1>5. /\ release \in [Processes -> Releases] /\ configuration \in [Processes -> Configurations \cup {App}]
      /\ stage = [p \in Processes |-> "down"] /\ lock = App /\ applied = FALSE
  BY DEF DataStoreInit
<1>6. DataStoreTypes
  BY <1>3, <1>4, <1>5 DEF DataStoreTypes, Stages
<1>7. OneMigrates /\ MigratedHaveTheirRelease /\ StoreIsWhole
  BY <1>3, <1>5, DataStoreAssumption DEF OneMigrates, MigratedHaveTheirRelease, StoreIsWhole
<1> QED BY <1>6, <1>7 DEF DataStoreInvariant

(* Whatever processes do to the file, it has the tables of its version,    *)
(* no migration ever fails, and the workers that are open share a policy.  *)
THEOREM TheStoreStaysWhole == DataStoreSpec => []StoreIsWhole
<1>1. DataStoreInvariant => StoreIsWhole
  BY DEF DataStoreInvariant
<1> QED BY <1>1, DataStoreStartsRight, DataStoreStepKeeps, PTL DEF DataStoreSpec
-----------------------------------------------------------------------------
(* Replay.  What is in flight is counted. *)
Flying(promises) == {w \in 1..Len(promises) : promises[w] = Running}
ReplayInvariant ==
  /\ work \in Seq(Int)
  /\ inFlight = Cardinality(Flying(work)) /\ inFlight <= FlightLimit

LEMMA FlyingIsFinite ==
  ASSUME NEW promises \in Seq(Int)
  PROVE  IsFiniteSet(Flying(promises)) /\ Cardinality(Flying(promises)) \in Nat
<1>1. IsFiniteSet(1..Len(promises))
  BY FS_Interval
<1> QED BY <1>1, FS_Subset, FS_CardinalityType DEF Flying

LEMMA FlyingAfter ==
  ASSUME NEW promises \in Seq(Int), NEW x \in Int
  PROVE  /\ Append(promises, x) \in Seq(Int)
         /\ x # Running => Flying(Append(promises, x)) = Flying(promises)
         /\ Cardinality(Flying(Append(promises, Running))) = Cardinality(Flying(promises)) + 1
         /\ \A w \in 1..Len(promises) : promises[w] = Running /\ x # Running =>
              /\ [promises EXCEPT ![w] = x] \in Seq(Int)
              /\ Cardinality(Flying([promises EXCEPT ![w] = x])) = Cardinality(Flying(promises)) - 1
<1>1. /\ Append(promises, x) \in Seq(Int) /\ Len(promises) \in Nat
      /\ Len(Append(promises, x)) = Len(promises) + 1
      /\ \A i \in 1..Len(promises) : Append(promises, x)[i] = promises[i]
      /\ Append(promises, x)[Len(promises) + 1] = x
  OBVIOUS
<1>2. x # Running => Flying(Append(promises, x)) = Flying(promises)
  BY <1>1 DEF Flying
<1>3. Flying(Append(promises, Running)) = Flying(promises) \cup {Len(promises) + 1}
  BY DEF Flying, Running
<1>4. Len(promises) + 1 \notin Flying(promises)
  BY <1>1 DEF Flying
<1>5. Cardinality(Flying(Append(promises, Running))) = Cardinality(Flying(promises)) + 1
  BY <1>3, <1>4, FlyingIsFinite, FS_AddElement
<1>6. ASSUME NEW w \in 1..Len(promises), promises[w] = Running, x # Running
      PROVE  /\ [promises EXCEPT ![w] = x] \in Seq(Int)
             /\ Cardinality(Flying([promises EXCEPT ![w] = x])) = Cardinality(Flying(promises)) - 1
  <2> DEFINE t == [promises EXCEPT ![w] = x]
  <2>1. t \in Seq(Int) /\ Len(t) = Len(promises) /\ \A i \in 1..Len(promises) : t[i] = IF i = w THEN x ELSE promises[i]
    BY ExceptSeq
  <2> HIDE DEF t
  <2>2. Flying(t) = Flying(promises) \ {w} /\ w \in Flying(promises)
    BY <1>6, <2>1 DEF Flying
  <2>3. Cardinality(Flying(t)) = Cardinality(Flying(promises)) - 1
    BY <2>2, FlyingIsFinite, FS_RemoveElement
  <2> QED BY <2>1, <2>3 DEF t
<1> QED BY <1>1, <1>2, <1>5, <1>6

LEMMA ReplayStepKeeps ==
  ReplayInvariant /\ [ReplayNext]_replayVars => ReplayInvariant'
<1> SUFFICES ASSUME ReplayInvariant, [ReplayNext]_replayVars PROVE ReplayInvariant'
  OBVIOUS
<1>0. work \in Seq(Int) /\ Cardinality(Flying(work)) \in Nat /\ Rejected \in Int /\ Rejected # Running
  BY FlyingIsFinite DEF ReplayInvariant, Rejected, Running
<1>1. ASSUME UNCHANGED <<work, inFlight>> PROVE ReplayInvariant'
  BY <1>1 DEF ReplayInvariant
<1>2. ASSUME Limited PROVE ReplayInvariant'
  <2>1. CASE Refused
    <3>1. work' = Append(work, Rejected) /\ inFlight' = inFlight
      BY <1>2, <2>1 DEF Limited, AfterRefusal
    <3> QED BY <1>0, <3>1, FlyingAfter DEF ReplayInvariant
  <2>2. CASE ~Refused
    <3>1. work' = Append(work, Running) /\ inFlight' = inFlight + 1 /\ ~(inFlight >= FlightLimit)
      BY <1>2, <2>2 DEF Limited, Refused
    <3>2. Append(work, Running) \in Seq(Int)
      BY <1>0 DEF Running
    <3> QED BY <1>0, <3>1, <3>2, FlyingAfter, ReplayAssumption DEF ReplayInvariant
  <2> QED BY <2>1, <2>2
<1>3. ASSUME NEW w \in 1..Len(work), work[w] = Running, NEW x \in Int, x # Running,
             work' = [work EXCEPT ![w] = x], inFlight' = inFlight - 1
      PROVE  ReplayInvariant'
  <2>1. /\ [work EXCEPT ![w] = x] \in Seq(Int)
        /\ Cardinality(Flying([work EXCEPT ![w] = x])) = Cardinality(Flying(work)) - 1
    BY <1>0, <1>3, FlyingAfter, Zenon
  <2>2. work' \in Seq(Int) /\ Cardinality(Flying(work')) = Cardinality(Flying(work)) - 1
    BY <1>3, <2>1, Zenon
  <2>3. inFlight = Cardinality(Flying(work)) /\ inFlight <= FlightLimit /\ inFlight' = inFlight - 1
    BY <1>3 DEF ReplayInvariant
  <2>4. inFlight' = Cardinality(Flying(work')) /\ inFlight' <= FlightLimit
    BY <1>0, <2>2, <2>3, ReplayAssumption
  <2> QED BY <2>2, <2>4 DEF ReplayInvariant
<1>4. ASSUME NEW s, NEW e, Entry(s, e) PROVE ReplayInvariant'
  BY <1>1, <1>2, <1>4 DEF Entry, budgetVars
<1>5. ASSUME NEW ask \in Asked, NEW s \in Recordings, NEW p \in 1..MaxPages, AskReplay(ask, s, p)
      PROVE  ReplayInvariant'
  BY <1>4, <1>5 DEF AskReplay
<1>6. ASSUME NEW i \in 1..Len(calls), Inspected(i) \/ Listed(i) \/ Loaded(i) \/ Downloaded(i)
      PROVE  ReplayInvariant'
  <2>1. CASE Inspected(i)
    BY <1>1, <1>4, <2>1, ZenonT(60) DEF Inspected, budgetVars
  <2>2. CASE Listed(i)
    BY <1>1, <1>2, <2>2 DEF Listed, budgetVars
  <2>3. CASE Loaded(i)
    BY <1>1, <1>2, <2>3 DEF Loaded, budgetVars
  <2>4. CASE Downloaded(i)
    BY <1>1, <2>4 DEF Downloaded, budgetVars
  <2> QED BY <1>6, <2>1, <2>2, <2>3, <2>4
<1>7. ASSUME NEW w \in 1..Len(work), Succeeds(w) PROVE ReplayInvariant'
  <2>1. PICK pages \in IF AsksForPages(w) THEN 0..MaxPages ELSE {0} :
            work' = [work EXCEPT ![w] = pages]
    BY <1>7 DEF Succeeds
  <2>2. pages \in Int /\ pages >= 0
    BY <2>1, ReplayAssumption
  <2>3. work[w] = Running /\ inFlight' = inFlight - 1 /\ pages # Running
    BY <1>7, <2>2 DEF Succeeds, WorkOver, Running
  <2> QED BY <1>3, <2>1, <2>2, <2>3
<1>8. ASSUME NEW w \in 1..Len(work), Fails(w) PROVE ReplayInvariant'
  BY <1>0, <1>3, <1>8 DEF Fails, WorkOver
<1>9. ASSUME TimeStep PROVE ReplayInvariant'
  BY <1>1, <1>9 DEF TimeStep, MinutePasses, TooOld, budgetVars
<1>10. CASE UNCHANGED replayVars
  BY <1>1, <1>10 DEF replayVars, budgetVars
<1> QED BY <1>5, <1>6, <1>7, <1>8, <1>9, <1>10 DEF ReplayNext, CallStep, ProviderStep

(* The adapter counts its requests out as often as it counted them in.     *)
THEOREM FlightsStayCounted == ReplaySpec => []FlightsCounted
<1>1. ReplayInit => ReplayInvariant
  <2> SUFFICES ASSUME ReplayInit PROVE ReplayInvariant
    OBVIOUS
  <2>1. work \in Seq(Int) /\ Flying(work) = {} /\ inFlight = 0
    BY DEF ReplayInit, Flying
  <2> QED BY <2>1, FS_EmptySet, ReplayAssumption DEF ReplayInvariant
<1>2. ReplayInvariant => FlightsCounted
  BY DEF ReplayInvariant, FlightsCounted, Flying, WorkOver
<1> QED BY <1>1, <1>2, ReplayStepKeeps, PTL DEF ReplaySpec
-----------------------------------------------------------------------------
(* The wall.  Rows only move forward, and stay as they are once the run    *)
(* has ended; the page of the stream continues what the client knows; what *)
(* a round of reads saw can be dated by the last end that was known before *)
(* it began.                                                               *)
RunEnds == Event("run.finished", Nothing)
LaunchStates == {"not_launched", "active", "recovering", "quarantined", "settled"}
CleanStates == {"not_launched", "settled"}
RunStates == {"queued", "running", "ended"}
LiveRows == [run : RunStates, cancelled : BOOLEAN, attempts : [Attempts -> RunStates],
             launches : [Attempts -> LaunchStates], total : Nat]
LiveEvents ==
  [kind : {"run.created", "run.finished", "run.cancel_requested", "attempt.started",
           "attempt.recovering", "attempt.finished"},
   attempt : Attempts \cup {Nothing}]
Walls == [run : RunStates \cup {Nothing}, cancelled : BOOLEAN,
          attempts : [Attempts -> RunStates \cup {Nothing}],
          launches : [Attempts -> LaunchStates], viewers : SUBSET Attempts]

RowsMoveForward ==
  /\ history \in Seq(LiveRows) /\ history # <<>> /\ events \in Seq(LiveEvents)
  /\ Now.total = Len(events)
  /\ \A i \in 1..Len(history) : history[i].total <= Len(events)
  /\ \A a \in Attempts : Now.attempts[a] # "running" => Now.launches[a] \notin {"active", "recovering"}
  /\ \A i \in 1..Len(history) : history[i].run = "ended" =>
       /\ \A j \in i..Len(history) : history[j].run = "ended"
       /\ history[i].total = Len(events) /\ AllEnded(history[i].attempts)
       /\ \A a \in Attempts : history[i].launches[a] \in CleanStates =>
            Now.launches[a] = history[i].launches[a]
  /\ \A k \in 1..Len(events), i \in 1..Len(history) :
       events[k] = RunEnds /\ k <= history[i].total => history[i].run = "ended"
  /\ Now.run = "ended" => \E k \in 1..Len(events) : events[k] = RunEnds

Numbered == IF feed = "closed" THEN Len(wire) - 1 ELSE Len(wire)
StreamContinues ==
  /\ feed \in {"none", "first", "second", "closed"}
  /\ ~streaming => feed = "none"
  /\ feed = "second" => seen \in 1..Len(history)
  /\ after \in 0..Len(events) /\ wire \in Seq(Nat \cup {Nothing})
  /\ feed = "none" => wire = <<>>
  /\ feed = "closed" => wire # <<>> /\ wire[Len(wire)] = Nothing
  /\ feed # "none" => after - Numbered \in 0..cursor
  /\ \A k \in 1..Numbered : wire[k] = after - Numbered + k
  /\ complete => feed = "closed" /\ Now.run = "ended" /\ after = Len(events)

ReadsAreDated ==
  /\ wall \in Walls
  /\ cursor \in 0..Len(events) /\ known = 1..cursor
  /\ refresh \in {"none", "reading", "paging"}
  /\ refresh # "none" => since \in 1..Len(history) /\ terminalBefore \in 0..Len(events)
  /\ refresh = "reading" => terminalBefore <= history[since].total
  /\ refresh = "paging" =>
       /\ pageAfter \in 0..cursor
       /\ wall.run = "ended" =>
            history[since].run = "ended" \/ \E k \in 1..cursor : events[k] = RunEnds
       /\ (\E k \in 1..terminalBefore : events[k] = RunEnds) =>
            /\ history[since].run = "ended"
            /\ wall.run = "ended" /\ AllEnded(wall.attempts)
            /\ ~NeedsCleanup => wall.launches = Now.launches

RestIsRest ==
  refresh = "none" /\ ~poll =>
    /\ ~streaming /\ ~reconnect
    /\ shown.run = "ended" /\ Now.run = "ended"
    /\ shown.attempts = Now.attempts /\ shown.launches = Now.launches
    /\ wall.launches = Now.launches /\ cursor = Len(events) /\ ~NeedsCleanup

LiveInvariant == RowsMoveForward /\ StreamContinues /\ ReadsAreDated /\ RestIsRest
LEMMA SetToSeqIsSequence ==
  ASSUME NEW S, IsFiniteSet(S)
  PROVE  SetToSeq(S) \in Seq(S)
<1>1. Cardinality(S) \in Nat
  BY FS_CardinalityType
<1>2. PICK f \in Bijection(1..Cardinality(S), S) : TRUE
  BY FS_CardinalityType DEF ExistsBijection
<1>3. f \in [1..Cardinality(S) -> S] /\ IsInjective(f)
  BY <1>2, Fun_BijectionProperties DEF Bijection, Injection, IsInjective
<1>4. SetToSeq(S) \in [1..Cardinality(S) -> S]
  BY <1>3 DEF SetToSeq
<1> QED BY <1>1, <1>4

(* What a transaction leaves, once more in terms of what it was.           *)
Onward ==
  /\ Now \in LiveRows /\ Now' \in LiveRows
  /\ Len(events) \in Nat /\ Len(events') \in Nat /\ Len(events) <= Len(events')
  /\ \A k \in 1..Len(events) : events'[k] = events[k]
  /\ Len(history) \in Nat /\ Len(history') \in Nat /\ Len(history) <= Len(history')
  /\ \A i \in 1..Len(history) : history'[i] = history[i]
  /\ Now.run = "ended" =>
       /\ Now'.run = "ended" /\ Now'.attempts = Now.attempts /\ Len(events') = Len(events)
       /\ \A a \in Attempts : Now.launches[a] \in CleanStates => Now'.launches[a] = Now.launches[a]

LEMMA NowIsLast ==
  ASSUME RowsMoveForward
  PROVE  /\ Len(history) \in Nat \ {0} /\ Now = history[Len(history)] /\ Now \in LiveRows
         /\ Len(events) \in Nat
  BY EmptySeq, LenProperties, ElementOfSeq DEF RowsMoveForward, Now, Last

LEMMA CommitsMoveForward ==
  ASSUME RowsMoveForward, NEW rows \in LiveRows, NEW batch \in Seq(LiveEvents),
         Commit(rows, batch),
         \A a \in Attempts : rows.attempts[a] # "running" => rows.launches[a] \notin {"active", "recovering"},
         rows.run = "ended" => AllEnded(rows.attempts),
         Now.run = "ended" =>
           /\ rows.run = "ended" /\ rows.attempts = Now.attempts /\ batch = <<>>
           /\ \A a \in Attempts : Now.launches[a] \in CleanStates => rows.launches[a] = Now.launches[a],
         rows.run = "ended" /\ Now.run # "ended" => \E k \in 1..Len(batch) : batch[k] = RunEnds,
         \A k \in 1..Len(batch) : batch[k] = RunEnds => rows.run = "ended"
  PROVE  RowsMoveForward' /\ Onward
<1> DEFINE r == [rows EXCEPT !.total = Len(events \o batch)]
           n == Len(history)
<1>0. n \in Nat \ {0} /\ Now = history[n] /\ Now \in LiveRows /\ Len(events) \in Nat
  BY NowIsLast
<1>1. /\ history \in Seq(LiveRows) /\ events \in Seq(LiveEvents)
      /\ Now.total = Len(events)
      /\ \A i \in 1..Len(history) : history[i].total <= Len(events)
  BY DEF RowsMoveForward
<1>2. /\ events' = events \o batch /\ events' \in Seq(LiveEvents)
      /\ Len(batch) \in Nat /\ Len(events') = Len(events) + Len(batch)
      /\ \A k \in 1..Len(events) : events'[k] = events[k]
      /\ \A k \in 1..Len(batch) : events'[Len(events) + k] = batch[k]
      /\ \A k \in (Len(events) + 1)..Len(events') : events'[k] = batch[k - Len(events)]
  BY <1>0, <1>1, ConcatProperties, LenProperties DEF Commit
<1>3. /\ r.run = rows.run /\ r.attempts = rows.attempts /\ r.launches = rows.launches
      /\ r.total = Len(events')
  BY <1>2 DEF LiveRows
<1>4. r \in LiveRows
  <2>1. Len(events \o batch) \in Nat
    BY <1>0, <1>2
  <2> QED BY <2>1, Zenon DEF LiveRows
<1>5. /\ history' = Append(history, r)
  BY <1>2 DEF Commit
<1> HIDE DEF r
<1>6. /\ history' \in Seq(LiveRows) /\ Len(history') = n + 1 /\ history' # <<>>
      /\ \A i \in 1..n : history'[i] = history[i]
      /\ history'[n + 1] = r /\ Now' = r
  BY <1>0, <1>1, <1>4, <1>5, AppendProperties, EmptySeq DEF Now, Last
<1>7. \A i \in 1..Len(history') : i \in 1..n \/ i = n + 1
  BY <1>0, <1>6
<1>8. \A i \in 1..Len(history') : history'[i].total <= Len(events')
  <2>1. ASSUME NEW i \in 1..n PROVE history'[i].total <= Len(events')
    <3>1. history[i] \in LiveRows /\ history'[i] = history[i]
      BY <1>1, <1>6, ElementOfSeq
    <3>2. history[i].total \in Nat /\ history[i].total <= Len(events)
      BY <1>1, <3>1 DEF LiveRows
    <3> QED BY <1>0, <1>2, <3>1, <3>2
  <2>2. history'[n + 1].total <= Len(events')
    BY <1>0, <1>2, <1>3, <1>6
  <2> QED BY <1>7, <2>1, <2>2
<1>9. ASSUME NEW i \in 1..n, history[i].run = "ended"
      PROVE  Now.run = "ended" /\ r.run = "ended" /\ Len(events') = Len(events)
  <2>1. history[n].run = "ended"
    BY <1>0, <1>9 DEF RowsMoveForward
  <2>2. Now.run = "ended"
    BY <1>0, <2>1
  <2>3. Len(batch) = 0
    BY <2>2, EmptySeq
  <2> QED BY <1>0, <1>2, <1>3, <2>2, <2>3
<1>10. ASSUME NEW i \in 1..Len(history'), history'[i].run = "ended"
       PROVE  /\ \A j \in i..Len(history') : history'[j].run = "ended"
              /\ history'[i].total = Len(events') /\ AllEnded(history'[i].attempts)
              /\ \A a \in Attempts : history'[i].launches[a] \in CleanStates =>
                   Now'.launches[a] = history'[i].launches[a]
  <2>1. CASE i = n + 1
    BY <1>0, <1>3, <1>6, <1>10, <2>1
  <2>2. CASE i \in 1..n
    <3>1. history[i].run = "ended"
      BY <1>6, <1>10, <2>2
    <3>2. Now.run = "ended" /\ r.run = "ended" /\ Len(events') = Len(events)
      BY <1>9, <2>2, <3>1
    <3>3. /\ \A j \in i..n : history[j].run = "ended"
          /\ history[i].total = Len(events) /\ AllEnded(history[i].attempts)
          /\ \A a \in Attempts : history[i].launches[a] \in CleanStates =>
               Now.launches[a] = history[i].launches[a]
      BY <2>2, <3>1 DEF RowsMoveForward
    <3>4. \A j \in i..Len(history') : history'[j].run = "ended"
      <4>1. \A j \in i..Len(history') : j \in i..n \/ j = n + 1
        BY <1>0, <1>6, <2>2
      <4>2. \A j \in i..n : j \in 1..n
        BY <1>0, <2>2
      <4> QED BY <1>6, <3>2, <3>3, <4>1, <4>2
    <3>5. history'[i].total = Len(events') /\ AllEnded(history'[i].attempts)
      BY <1>6, <2>2, <3>2, <3>3
    <3>6. \A a \in Attempts : Now.launches[a] \in CleanStates => r.launches[a] = Now.launches[a]
      BY <1>3, <3>2
    <3>7. \A a \in Attempts : history'[i].launches[a] \in CleanStates =>
            Now'.launches[a] = history'[i].launches[a]
      BY <1>6, <2>2, <3>3, <3>6, SMTT(60)
    <3> QED BY <3>4, <3>5, <3>7
  <2> QED BY <1>7, <2>1, <2>2
<1>11. ASSUME NEW k \in 1..Len(events'), NEW i \in 1..Len(history'),
              events'[k] = RunEnds, k <= history'[i].total
       PROVE  history'[i].run = "ended"
  <2>1. CASE k \in 1..Len(events)
    <3>1. events[k] = RunEnds
      BY <1>2, <1>11, <2>1
    <3>2. CASE i \in 1..n
      <4>1. history'[i] = history[i]
        BY <1>6, <3>2
      <4> QED BY <1>11, <2>1, <3>1, <3>2, <4>1 DEF RowsMoveForward
    <3>3. CASE i = n + 1
      <4>1. history[n].run = "ended"
        BY <1>0, <1>1, <2>1, <3>1, SMTT(60) DEF RowsMoveForward
      <4>2. r.run = "ended"
        BY <1>0, <1>9, <4>1
      <4> QED BY <1>6, <3>3, <4>2
    <3> QED BY <1>7, <3>2, <3>3
  <2>2. CASE k \notin 1..Len(events)
    <3>1. k \in (Len(events) + 1)..Len(events') /\ k - Len(events) \in 1..Len(batch)
      BY <1>0, <1>2, <2>2
    <3>2. batch[k - Len(events)] = RunEnds
      BY <1>2, <1>11, <3>1
    <3>3. r.run = "ended"
      BY <1>3, <3>1, <3>2
    <3>4. ~(i \in 1..n)
      <4>1. SUFFICES ASSUME i \in 1..n PROVE FALSE
        OBVIOUS
      <4>2. history[i] \in LiveRows /\ history'[i] = history[i]
        BY <1>1, <1>6, <4>1, ElementOfSeq
      <4>3. history[i].total <= Len(events) /\ history[i].total \in Nat /\ k <= history[i].total
        BY <1>1, <1>11, <4>1, <4>2 DEF LiveRows
      <4> QED BY <1>0, <3>1, <4>3, SMTT(60)
    <3> QED BY <1>6, <1>7, <3>3, <3>4
  <2> QED BY <2>1, <2>2
<1>12. Now'.run = "ended" => \E k \in 1..Len(events') : events'[k] = RunEnds
  <2> SUFFICES ASSUME r.run = "ended" PROVE \E k \in 1..Len(events') : events'[k] = RunEnds
    BY <1>6
  <2>1. CASE Now.run = "ended"
    <3>1. PICK k \in 1..Len(events) : events[k] = RunEnds
      BY <2>1 DEF RowsMoveForward
    <3> QED BY <1>0, <1>2, <3>1
  <2>2. CASE Now.run # "ended"
    <3>1. PICK k \in 1..Len(batch) : batch[k] = RunEnds
      BY <1>3, <2>2
    <3>2. Len(events) + k \in 1..Len(events') /\ events'[Len(events) + k] = RunEnds
      BY <1>0, <1>2, <3>1
    <3> QED BY <3>2
  <2> QED BY <2>1, <2>2
<1>13. \A a \in Attempts : Now'.attempts[a] # "running" => Now'.launches[a] \notin {"active", "recovering"}
  BY <1>3, <1>6
<1>14. RowsMoveForward'
  BY <1>2, <1>3, <1>6, <1>8, <1>10, <1>11, <1>12, <1>13 DEF RowsMoveForward
<1>15. Now.run = "ended" =>
         /\ Now'.run = "ended" /\ Now'.attempts = Now.attempts /\ Len(events') = Len(events)
         /\ \A a \in Attempts : Now.launches[a] \in CleanStates => Now'.launches[a] = Now.launches[a]
  BY <1>0, <1>3, <1>6, <1>9
<1> QED BY <1>0, <1>2, <1>4, <1>6, <1>14, <1>15 DEF Onward
LEMMA RowsAreSane ==
  ASSUME RowsMoveForward
  PROVE  /\ Now \in LiveRows /\ Now.attempts \in [Attempts -> RunStates]
         /\ Now.launches \in [Attempts -> LaunchStates]
         /\ \A a \in Attempts : Now.attempts[a] # "running" => Now.launches[a] \notin {"active", "recovering"}
         /\ Now.run = "ended" => AllEnded(Now.attempts)
<1>1. Len(history) \in Nat \ {0} /\ Now = history[Len(history)] /\ Now \in LiveRows
  BY NowIsLast
<1>2. Now.run = "ended" => AllEnded(Now.attempts)
  BY <1>1 DEF RowsMoveForward
<1> QED BY <1>1, <1>2 DEF RowsMoveForward, LiveRows

LEMMA EventIsEvent ==
  /\ RunEnds \in LiveEvents /\ Event("run.cancel_requested", Nothing) \in LiveEvents
  /\ \A a \in Attempts : /\ Event("attempt.started", a) \in LiveEvents
                         /\ Event("attempt.recovering", a) \in LiveEvents
                         /\ Event("attempt.finished", a) \in LiveEvents
                         /\ Event("attempt.started", a) # RunEnds
                         /\ Event("attempt.recovering", a) # RunEnds
                         /\ Event("attempt.finished", a) # RunEnds
  /\ Event("run.cancel_requested", Nothing) # RunEnds
  BY DEF Event, LiveEvents, RunEnds

LEMMA OneEvent ==
  ASSUME NEW e \in LiveEvents
  PROVE  <<e>> \in Seq(LiveEvents) /\ Len(<<e>>) = 1 /\ <<e>>[1] = e
  OBVIOUS

LEMMA Concatenated ==
  ASSUME NEW s \in Seq(LiveEvents), NEW t \in Seq(LiveEvents)
  PROVE  /\ s \o t \in Seq(LiveEvents) /\ Len(s \o t) = Len(s) + Len(t)
         /\ \A k \in 1..Len(s \o t) :
              \/ k \in 1..Len(s) /\ (s \o t)[k] = s[k]
              \/ k - Len(s) \in 1..Len(t) /\ (s \o t)[k] = t[k - Len(s)]
         /\ \A k \in 1..Len(t) :
              Len(s) + k \in 1..Len(s \o t) /\ (s \o t)[Len(s) + k] = t[k]
<1>1. Len(s) \in Nat /\ Len(t) \in Nat
  OBVIOUS
<1> QED BY <1>1, ConcatProperties

(* With the last attempt the run ends, and says so.                        *)
LEMMA RunFinishedSays ==
  ASSUME NEW rows \in LiveRows
  PROVE  /\ RunFinished(rows) \in Seq(LiveEvents)
         /\ Reconciled(rows) \in LiveRows
         /\ Reconciled(rows).attempts = rows.attempts /\ Reconciled(rows).launches = rows.launches
         /\ AllEnded(rows.attempts) =>
              Reconciled(rows).run = "ended" /\ \E k \in 1..Len(RunFinished(rows)) : RunFinished(rows)[k] = RunEnds
         /\ ~AllEnded(rows.attempts) => Reconciled(rows) = rows /\ RunFinished(rows) = <<>>
<1>1. CASE AllEnded(rows.attempts)
  <2>1. RunFinished(rows) = <<RunEnds>> /\ Reconciled(rows) = [rows EXCEPT !.run = "ended"]
    BY <1>1 DEF RunFinished, Reconciled, RunEnds
  <2>2. [rows EXCEPT !.run = "ended"] \in LiveRows
    BY Zenon DEF LiveRows, RunStates
  <2>3. [rows EXCEPT !.run = "ended"].attempts = rows.attempts
        /\ [rows EXCEPT !.run = "ended"].launches = rows.launches
        /\ [rows EXCEPT !.run = "ended"].run = "ended"
    BY DEF LiveRows
  <2>4. <<RunEnds>> \in Seq(LiveEvents) /\ 1 \in 1..Len(<<RunEnds>>) /\ <<RunEnds>>[1] = RunEnds
    BY EventIsEvent
  <2> QED BY <1>1, <2>1, <2>2, <2>3, <2>4
<1>2. CASE ~AllEnded(rows.attempts)
  <2>1. RunFinished(rows) = <<>> /\ Reconciled(rows) = rows
    BY <1>2 DEF RunFinished, Reconciled
  <2> QED BY <1>2, <2>1
<1> QED BY <1>1, <1>2

LEMMA WorkerMovesForward ==
  ASSUME RowsMoveForward, WorkerStep
  PROVE  RowsMoveForward' /\ Onward /\ UNCHANGED <<feedVars, clientVars, faults>>
<1>0. /\ Now \in LiveRows /\ Now.attempts \in [Attempts -> RunStates]
      /\ Now.launches \in [Attempts -> LaunchStates]
      /\ \A a \in Attempts : Now.attempts[a] # "running" => Now.launches[a] \notin {"active", "recovering"}
      /\ Now.run = "ended" => AllEnded(Now.attempts)
  BY RowsAreSane
<1>1. ASSUME NEW a \in Attempts, Start(a)
      PROVE  RowsMoveForward' /\ Onward /\ UNCHANGED <<feedVars, clientVars, faults>>
  <2> DEFINE rows == [Now EXCEPT !.attempts[a] = "running", !.launches[a] = "active", !.run = "running"]
             batch == <<Event("attempt.started", a)>>
  <2>1. Now.attempts[a] = "queued" /\ Commit(rows, batch)
    BY <1>1 DEF Start
  <2>2. rows \in LiveRows
    BY <1>0, Zenon DEF LiveRows, RunStates, LaunchStates
  <2>3. /\ rows.run = "running"
        /\ \A b \in Attempts : /\ rows.attempts[b] = IF b = a THEN "running" ELSE Now.attempts[b]
                               /\ rows.launches[b] = IF b = a THEN "active" ELSE Now.launches[b]
    BY <1>0 DEF LiveRows
  <2>4. batch \in Seq(LiveEvents) /\ \A k \in 1..Len(batch) : batch[k] # RunEnds
    BY EventIsEvent, OneEvent
  <2>5. Now.run # "ended"
    BY <1>0, <2>1 DEF AllEnded
  <2> HIDE DEF rows, batch
  <2>6. \A b \in Attempts : rows.attempts[b] # "running" => rows.launches[b] \notin {"active", "recovering"}
    BY <1>0, <2>3
  <2> QED BY <2>1, <2>2, <2>3, <2>4, <2>5, <2>6, CommitsMoveForward DEF Commit
<1>2. ASSUME NEW a \in Attempts, Recovering(a)
      PROVE  RowsMoveForward' /\ Onward /\ UNCHANGED <<feedVars, clientVars, faults>>
  <2> DEFINE rows == [Now EXCEPT !.launches[a] = "recovering"]
             batch == <<Event("attempt.recovering", a)>>
  <2>1. Now.launches[a] = "active" /\ Commit(rows, batch)
    BY <1>2 DEF Recovering
  <2>2. rows \in LiveRows
    BY <1>0, Zenon DEF LiveRows, LaunchStates
  <2>3. /\ rows.run = Now.run /\ rows.attempts = Now.attempts
        /\ \A b \in Attempts : rows.launches[b] = IF b = a THEN "recovering" ELSE Now.launches[b]
    BY <1>0 DEF LiveRows
  <2>4. batch \in Seq(LiveEvents) /\ \A k \in 1..Len(batch) : batch[k] # RunEnds
    BY EventIsEvent, OneEvent
  <2>5. Now.attempts[a] = "running"
    BY <1>0, <2>1
  <2>6. Now.run # "ended"
    BY <1>0, <2>5 DEF AllEnded
  <2> HIDE DEF rows, batch
  <2>7. \A b \in Attempts : rows.attempts[b] # "running" => rows.launches[b] \notin {"active", "recovering"}
    BY <1>0, <2>3, <2>5
  <2> QED BY <2>1, <2>2, <2>3, <2>4, <2>6, <2>7, CommitsMoveForward DEF Commit
<1>3. ASSUME NEW a \in Attempts, EndAttempt(a)
      PROVE  RowsMoveForward' /\ Onward /\ UNCHANGED <<feedVars, clientVars, faults>>
  <2>0. Now.attempts[a] = "running"
    BY <1>3 DEF EndAttempt
  <2>1. PICK launch \in {"settled", "quarantined"} :
          Commit(Reconciled([Now EXCEPT !.attempts[a] = "ended", !.launches[a] = launch]),
                 <<Event("attempt.finished", a)>> \o
                   RunFinished([Now EXCEPT !.attempts[a] = "ended", !.launches[a] = launch]))
    BY <1>3 DEF EndAttempt
  <2> DEFINE rows == [Now EXCEPT !.attempts[a] = "ended", !.launches[a] = launch]
             news == <<Event("attempt.finished", a)>>
             batch == news \o RunFinished(rows)
  <2>2. rows \in LiveRows
    BY <1>0, Zenon DEF LiveRows, RunStates, LaunchStates
  <2>3. /\ rows.run = Now.run
        /\ \A b \in Attempts : /\ rows.attempts[b] = IF b = a THEN "ended" ELSE Now.attempts[b]
                               /\ rows.launches[b] = IF b = a THEN launch ELSE Now.launches[b]
    BY <1>0 DEF LiveRows
  <2>4. news \in Seq(LiveEvents) /\ Len(news) = 1 /\ news[1] # RunEnds
    BY EventIsEvent, OneEvent
  <2>5. Now.run # "ended"
    BY <1>0, <2>0 DEF AllEnded
  <2>6. Commit(Reconciled(rows), batch)
    BY <2>1
  <2> HIDE DEF rows, news
  <2>7. batch \in Seq(LiveEvents)
    BY <2>2, <2>4, RunFinishedSays, Concatenated
  <2>8. \A k \in 1..Len(batch) : batch[k] = RunEnds => Reconciled(rows).run = "ended"
    <3>1. CASE AllEnded(rows.attempts)
      BY <2>2, <3>1, RunFinishedSays
    <3>2. CASE ~AllEnded(rows.attempts)
      <4>1. RunFinished(rows) = <<>> /\ Len(RunFinished(rows)) = 0 /\ RunFinished(rows) \in Seq(LiveEvents)
        BY <2>2, <3>2, RunFinishedSays
      <4>2. \A k \in 1..Len(batch) : k \in 1..Len(news) /\ batch[k] = news[k]
        BY <2>4, <4>1, Concatenated
      <4> QED BY <2>4, <4>2
    <3> QED BY <3>1, <3>2
  <2>9. Reconciled(rows).run = "ended" =>
          AllEnded(Reconciled(rows).attempts) /\ \E k \in 1..Len(batch) : batch[k] = RunEnds
    <3>1. CASE AllEnded(rows.attempts)
      <4>1. PICK k \in 1..Len(RunFinished(rows)) : RunFinished(rows)[k] = RunEnds
        BY <2>2, <3>1, RunFinishedSays
      <4>2. RunFinished(rows) \in Seq(LiveEvents)
        BY <2>2, RunFinishedSays
      <4>3. Len(news) + k \in 1..Len(batch) /\ batch[Len(news) + k] = RunEnds
        BY <2>4, <4>1, <4>2, Concatenated
      <4> QED BY <2>2, <3>1, <4>3, RunFinishedSays
    <3>2. CASE ~AllEnded(rows.attempts)
      BY <2>2, <2>3, <2>5, <3>2, RunFinishedSays
    <3> QED BY <3>1, <3>2
  <2>10. \A b \in Attempts :
           Reconciled(rows).attempts[b] # "running" => Reconciled(rows).launches[b] \notin {"active", "recovering"}
    BY <1>0, <2>2, <2>3, RunFinishedSays
  <2>11. Reconciled(rows) \in LiveRows
    BY <2>2, RunFinishedSays
  <2> HIDE DEF batch
  <2> QED BY <2>5, <2>6, <2>7, <2>8, <2>9, <2>10, <2>11, CommitsMoveForward DEF Commit
<1>4. ASSUME NEW a \in Attempts, SettleQuarantined(a)
      PROVE  RowsMoveForward' /\ Onward /\ UNCHANGED <<feedVars, clientVars, faults>>
  <2> DEFINE rows == [Now EXCEPT !.launches[a] = "settled"]
             batch == <<>>
  <2>1. Now.launches[a] = "quarantined" /\ Commit(rows, batch)
    BY <1>4 DEF SettleQuarantined
  <2>2. rows \in LiveRows
    BY <1>0, Zenon DEF LiveRows, LaunchStates
  <2>3. /\ rows.run = Now.run /\ rows.attempts = Now.attempts
        /\ \A b \in Attempts : rows.launches[b] = IF b = a THEN "settled" ELSE Now.launches[b]
    BY <1>0 DEF LiveRows
  <2>4. batch \in Seq(LiveEvents) /\ Len(batch) = 0
    BY EmptySeq
  <2> HIDE DEF rows
  <2>5. \A b \in Attempts : rows.attempts[b] # "running" => rows.launches[b] \notin {"active", "recovering"}
    BY <1>0, <2>3
  <2>6. \A b \in Attempts : Now.launches[b] \in CleanStates => rows.launches[b] = Now.launches[b]
    BY <2>1, <2>3 DEF CleanStates
  <2>7. /\ rows.run = "ended" => AllEnded(rows.attempts)
        /\ ~(rows.run = "ended" /\ Now.run # "ended") /\ batch = <<>>
        /\ \A k \in 1..Len(batch) : batch[k] = RunEnds => rows.run = "ended"
    BY <1>0, <2>3, <2>4
  <2> HIDE DEF batch
  <2>8. RowsMoveForward' /\ Onward
    BY <2>1, <2>2, <2>3, <2>4, <2>5, <2>6, <2>7, CommitsMoveForward
  <2> QED BY <2>1, <2>8 DEF Commit
<1>5. ASSUME CancelRun
      PROVE  RowsMoveForward' /\ Onward /\ UNCHANGED <<feedVars, clientVars, faults>>
  <2> DEFINE waiting == {a \in Attempts : Now.attempts[a] = "queued"}
             ended == [a \in Attempts |-> IF a \in waiting THEN "ended" ELSE Now.attempts[a]]
             rows == [Now EXCEPT !.cancelled = TRUE, !.attempts = ended]
             news == {Event("attempt.finished", a) : a \in waiting}
             head == <<Event("run.cancel_requested", Nothing)>> \o SetToSeq(news)
             batch == head \o RunFinished(rows)
  <2>1. Now.run # "ended" /\ Commit(Reconciled(rows), batch)
    BY <1>5 DEF CancelRun
  <2>2. rows \in LiveRows
    <3>1. ended \in [Attempts -> RunStates]
      BY <1>0 DEF RunStates
    <3> HIDE DEF ended
    <3> QED BY <1>0, <3>1, Zenon DEF LiveRows
  <2>3. rows.run = Now.run /\ rows.attempts = ended /\ rows.launches = Now.launches
    BY <1>0 DEF LiveRows
  <2>4. head \in Seq(LiveEvents) /\ \A k \in 1..Len(head) : head[k] # RunEnds
    <3> DEFINE naming == [a \in waiting |-> Event("attempt.finished", a)]
    <3>1. IsFiniteSet(waiting)
      BY LiveViewAssumption, FS_Subset
    <3>2. naming \in Surjection(waiting, news)
      BY DEF Surjection
    <3>3. IsFiniteSet(news)
      BY <3>1, <3>2, FS_Surjection
    <3>4. news \subseteq LiveEvents /\ RunEnds \notin news
      BY EventIsEvent
    <3> HIDE DEF news
    <3>5. SetToSeq(news) \in Seq(news)
      BY <3>3, SetToSeqIsSequence
    <3>6. /\ SetToSeq(news) \in Seq(LiveEvents)
          /\ \A k \in 1..Len(SetToSeq(news)) : SetToSeq(news)[k] # RunEnds
      BY <3>4, <3>5, ElementOfSeq, SeqMonotonic
    <3>7. LET first == <<Event("run.cancel_requested", Nothing)>> IN
          first \in Seq(LiveEvents) /\ \A k \in 1..Len(first) : first[k] # RunEnds
      BY EventIsEvent, OneEvent
    <3> QED BY <3>6, <3>7, Concatenated
  <2> HIDE DEF rows, head, ended
  <2>5. batch \in Seq(LiveEvents)
    BY <2>2, <2>4, RunFinishedSays, Concatenated
  <2>6. \A k \in 1..Len(batch) : batch[k] = RunEnds => Reconciled(rows).run = "ended"
    <3>1. CASE AllEnded(rows.attempts)
      BY <2>2, <3>1, RunFinishedSays
    <3>2. CASE ~AllEnded(rows.attempts)
      <4>1. RunFinished(rows) = <<>> /\ Len(RunFinished(rows)) = 0 /\ RunFinished(rows) \in Seq(LiveEvents)
        BY <2>2, <3>2, RunFinishedSays
      <4>2. \A k \in 1..Len(batch) : k \in 1..Len(head) /\ batch[k] = head[k]
        BY <2>4, <4>1, Concatenated
      <4> QED BY <2>4, <4>2
    <3> QED BY <3>1, <3>2
  <2>7. Reconciled(rows).run = "ended" =>
          AllEnded(Reconciled(rows).attempts) /\ \E k \in 1..Len(batch) : batch[k] = RunEnds
    <3>1. CASE AllEnded(rows.attempts)
      <4>1. PICK k \in 1..Len(RunFinished(rows)) : RunFinished(rows)[k] = RunEnds
        BY <2>2, <3>1, RunFinishedSays
      <4>2. RunFinished(rows) \in Seq(LiveEvents)
        BY <2>2, RunFinishedSays
      <4>3. Len(head) + k \in 1..Len(batch) /\ batch[Len(head) + k] = RunEnds
        BY <2>4, <4>1, <4>2, Concatenated
      <4> QED BY <2>2, <3>1, <4>3, RunFinishedSays
    <3>2. CASE ~AllEnded(rows.attempts)
      BY <2>1, <2>2, <2>3, <3>2, RunFinishedSays
    <3> QED BY <3>1, <3>2
  <2>8. \A b \in Attempts :
           Reconciled(rows).attempts[b] # "running" => Reconciled(rows).launches[b] \notin {"active", "recovering"}
    <3>1. \A b \in Attempts : rows.attempts[b] # "running" => Now.attempts[b] # "running"
      BY <2>3 DEF ended
    <3> QED BY <1>0, <2>2, <2>3, <3>1, RunFinishedSays
  <2>9. Reconciled(rows) \in LiveRows
    BY <2>2, RunFinishedSays
  <2> HIDE DEF batch
  <2>10. RowsMoveForward' /\ Onward
    BY <2>1, <2>5, <2>6, <2>7, <2>8, <2>9, CommitsMoveForward
  <2> QED BY <2>1, <2>10 DEF Commit
<1> QED BY <1>1, <1>2, <1>3, <1>4, <1>5 DEF WorkerStep
LEMMA PrefixIs ==
  ASSUME Len(events) \in Nat, NEW n \in 0..Len(events)
  PROVE  Prefix(1..n) = n
<1>1. 1..n \subseteq 1..n /\ n + 1 \notin 1..n
  OBVIOUS
<1>2. \A m \in 0..Len(events) : 1..m \subseteq 1..n /\ m + 1 \notin 1..n => m = n
  <2> SUFFICES ASSUME NEW m \in 0..Len(events), 1..m \subseteq 1..n, m + 1 \notin 1..n
               PROVE  m = n
    OBVIOUS
  <2>1. m = 0 \/ m \in 1..m
    OBVIOUS
  <2> QED BY <2>1
<1> QED BY <1>1, <1>2 DEF Prefix

LEMMA LeastElement ==
  ASSUME NEW T, T \subseteq Nat, T # {}
  PROVE  \E x \in T : \A y \in T : x <= y
<1> DEFINE R == {ss \in Nat \X Nat : ss[1] < ss[2]}
<1>1. IsWellFoundedOn(R, Nat)
  BY NatLessThanWellFounded DEF OpToRel
<1>2. \A x, y \in Nat : y < x => <<y, x>> \in R
  OBVIOUS
<1> HIDE DEF R
<1>3. PICK x \in T : \A y \in T : ~(<<y, x>> \in R)
  BY <1>1, WFMin
<1>4. \A y \in T : ~(y < x)
  BY <1>2, <1>3
<1> QED BY <1>3, <1>4

LEMMA GreatestElement ==
  ASSUME NEW n \in Nat, NEW T, T \subseteq 1..n, T # {}
  PROVE  \E x \in T : \A y \in T : y <= x
<1> DEFINE U == {n - y : y \in T}
<1>1. U \subseteq Nat /\ U # {}
  <2>1. \A y \in T : n - y \in Nat
    OBVIOUS
  <2> QED BY <2>1
<1>2. PICK u \in U : \A v \in U : u <= v
  BY <1>1, LeastElement
<1>3. PICK x \in T : u = n - x
  BY <1>2
<1>4. \A y \in T : n - y \in U
  OBVIOUS
<1>5. \A y \in T : n - x <= n - y
  BY <1>2, <1>3, <1>4
<1> QED BY <1>3, <1>5

LEMMA LatestIs ==
  ASSUME NEW n \in Nat
  PROVE  Latest(1..n) \in 0..n
<1>1. Terminal(1..n) \subseteq 1..n
  BY DEF Terminal
<1>2. CASE Terminal(1..n) = {}
  BY <1>2 DEF Latest
<1>3. CASE Terminal(1..n) # {}
  <2>1. \E i \in Terminal(1..n) : \A j \in Terminal(1..n) : j <= i
    BY <1>1, <1>3, GreatestElement
  <2>2. Latest(1..n) \in Terminal(1..n)
    BY <1>3, <2>1 DEF Latest
  <2> QED BY <1>1, <2>2
<1> QED BY <1>2, <1>3

(* What a projection keeps of the wall, and what can end it.               *)
LEMMA ProjectionKeeps ==
  ASSUME NEW w \in Walls, NEW seqs, NEW upTo
  PROVE  /\ Project(w, seqs, upTo) \in Walls
         /\ Project(w, seqs, upTo).launches = w.launches
         /\ \A a \in Attempts : w.attempts[a] = "ended" => Project(w, seqs, upTo).attempts[a] = "ended"
         /\ w.run = "ended" => Project(w, seqs, upTo).run = "ended"
         /\ Project(w, seqs, upTo).run = "ended" =>
              w.run = "ended" \/ \E k \in 1..upTo : events[k] = RunEnds
<1> DEFINE run == RunOverlaid(w, upTo)
           cancelled == w.cancelled \/ (w.run # Nothing /\ HasEvent(seqs, "run.cancel_requested", Nothing))
           attempts == [a \in Attempts |->
             IF w.attempts[a] # Nothing /\ HasEvent(1..upTo, "attempt.finished", a) THEN "ended"
             ELSE IF w.attempts[a] = "queued" /\ HasEvent(1..upTo, "attempt.started", a) THEN "running"
             ELSE w.attempts[a]]
           viewers == {a \in w.viewers \ Hidden(w, seqs) :
             /\ run \notin {Nothing, "ended"} /\ ~cancelled
             /\ ~HasEvent(seqs, "run.finished", Nothing)
             /\ attempts[a] = "running"}
           p == [w EXCEPT !.run = run, !.cancelled = cancelled, !.attempts = attempts, !.viewers = viewers]
<1>1. Project(w, seqs, upTo) = p
  BY DEF Project
<1>2. w.run \in RunStates \cup {Nothing} /\ w.attempts \in [Attempts -> RunStates \cup {Nothing}]
      /\ w.viewers \subseteq Attempts
  BY DEF Walls
<1>3. /\ run \in RunStates \cup {Nothing}
      /\ w.run = "ended" => run = "ended"
      /\ run = "ended" => w.run = "ended" \/ \E k \in 1..upTo : events[k] = RunEnds
  BY <1>2 DEF RunOverlaid, HasEvent, RunStates, RunEnds
<1>4. /\ attempts \in [Attempts -> RunStates \cup {Nothing}]
      /\ \A a \in Attempts : w.attempts[a] = "ended" => attempts[a] = "ended"
  BY <1>2 DEF RunStates
<1>5. viewers \subseteq Attempts
  BY <1>2
<1>6. cancelled \in BOOLEAN
  OBVIOUS
<1> HIDE DEF run, cancelled, attempts, viewers
<1>7. p \in Walls
  BY <1>3, <1>4, <1>5, <1>6, Zenon DEF Walls
<1>8. p.run = run /\ p.attempts = attempts /\ p.launches = w.launches
  BY DEF Walls
<1> QED BY <1>1, <1>3, <1>4, <1>7, <1>8
(* The worker's steps leave the wall as it was.                            *)
LEMMA WorkerKeepsTheWall ==
  ASSUME LiveInvariant, WorkerStep
  PROVE  LiveInvariant'
<1>1. RowsMoveForward' /\ Onward /\ UNCHANGED <<feedVars, clientVars, faults>>
  BY WorkerMovesForward DEF LiveInvariant
<1>2. /\ UNCHANGED <<feed, after, seen, complete, wire, wall, known, cursor, shown, refresh, since,
                     pageAfter, terminalBefore, again, streaming, poll, reconnect>>
      /\ Len(events) \in Nat /\ Len(events') \in Nat /\ Len(events) <= Len(events')
      /\ \A k \in 1..Len(events) : events'[k] = events[k]
      /\ Len(history) \in Nat /\ Len(history') \in Nat /\ Len(history) <= Len(history')
      /\ \A i \in 1..Len(history) : history'[i] = history[i]
  BY <1>1 DEF Onward, feedVars, clientVars, refreshVars
<1>3. StreamContinues'
  <2>1. complete => Now'.run = "ended" /\ after = Len(events')
    BY <1>1 DEF LiveInvariant, StreamContinues, Onward
  <2>2. seen \in 1..Len(history) => seen \in 1..Len(history')
    BY <1>2
  <2>3. after \in 0..Len(events')
    BY <1>2 DEF LiveInvariant, StreamContinues
  <2> QED BY <1>2, <2>1, <2>2, <2>3 DEF LiveInvariant, StreamContinues, Numbered
<1>4. ReadsAreDated'
  <2> USE DEF LiveInvariant
  <2>1. cursor \in 0..Len(events) /\ known = 1..cursor /\ wall \in Walls
    BY DEF ReadsAreDated
  <2>2. cursor \in 0..Len(events') /\ \A k \in 1..cursor : events'[k] = events[k]
    BY <1>2, <2>1
  <2>3. ASSUME refresh # "none"
        PROVE  /\ since \in 1..Len(history') /\ terminalBefore \in 0..Len(events')
               /\ history'[since] = history[since]
               /\ \A k \in 1..terminalBefore : events'[k] = events[k]
    BY <1>2, <2>3 DEF ReadsAreDated
  <2>4. ASSUME refresh = "paging", \E k \in 1..terminalBefore : events'[k] = RunEnds
        PROVE  /\ history'[since].run = "ended"
               /\ wall.run = "ended" /\ AllEnded(wall.attempts)
               /\ ~NeedsCleanup => wall.launches = Now'.launches
    <3>1. \E k \in 1..terminalBefore : events[k] = RunEnds
      BY <2>3, <2>4
    <3>2. /\ history[since].run = "ended" /\ wall.run = "ended" /\ AllEnded(wall.attempts)
          /\ ~NeedsCleanup => wall.launches = Now.launches
      BY <2>4, <3>1 DEF ReadsAreDated
    <3>3. since \in 1..Len(history)
      BY <2>4 DEF ReadsAreDated
    <3>4. Now.run = "ended"
      BY <3>2, <3>3, NowIsLast DEF RowsMoveForward
    <3>5. Now.launches \in [Attempts -> LaunchStates] /\ Now'.launches \in [Attempts -> LaunchStates]
      BY <1>1 DEF Onward, LiveRows
    <3>6. ASSUME ~NeedsCleanup PROVE wall.launches = Now'.launches
      <4>1. \A a \in Attempts : Now.launches[a] \in CleanStates
        BY <3>2, <3>6 DEF NeedsCleanup, CleanStates
      <4>2. \A a \in Attempts : Now'.launches[a] = Now.launches[a]
        BY <1>1, <3>4, <4>1 DEF Onward
      <4> QED BY <3>2, <3>5, <3>6, <4>2
    <3> QED BY <2>3, <2>4, <3>2, <3>6
  <2> QED BY <1>2, <2>1, <2>2, <2>3, <2>4 DEF ReadsAreDated, NeedsCleanup
<1>5. RestIsRest'
  <2> SUFFICES ASSUME refresh = "none", ~poll
               PROVE  /\ Now'.run = "ended" /\ Now'.attempts = Now.attempts
                      /\ Now'.launches = Now.launches /\ Len(events') = Len(events)
    BY <1>2 DEF LiveInvariant, RestIsRest, NeedsCleanup
  <2>1. Now.run = "ended" /\ wall.launches = Now.launches /\ ~NeedsCleanup
    BY DEF LiveInvariant, RestIsRest
  <2>2. \A a \in Attempts : Now.launches[a] \in CleanStates
    BY <2>1 DEF NeedsCleanup, CleanStates
  <2>3. \A a \in Attempts : Now'.launches[a] = Now.launches[a]
    BY <1>1, <2>1, <2>2 DEF Onward
  <2>4. Now.launches \in [Attempts -> LaunchStates] /\ Now'.launches \in [Attempts -> LaunchStates]
    BY <1>1 DEF Onward, LiveRows
  <2> QED BY <1>1, <2>1, <2>3, <2>4 DEF Onward
<1> QED BY <1>1, <1>3, <1>4, <1>5 DEF LiveInvariant
(* Reads leave the rows as they were. *)
LEMMA ReadsKeepRows ==
  ASSUME LiveInvariant, UNCHANGED databaseVars
  PROVE  /\ RowsMoveForward' /\ Now' = Now /\ events' = events /\ history' = history
         /\ Len(events) \in Nat /\ Len(history) \in Nat \ {0} /\ Now \in LiveRows
         /\ Now = history[Len(history)] /\ Now.total = Len(events)
<1>1. events' = events /\ history' = history /\ Now' = Now
  BY DEF databaseVars, Now
<1>2. RowsMoveForward'
  BY <1>1 DEF LiveInvariant, RowsMoveForward, AllEnded
<1> QED BY <1>1, <1>2, NowIsLast DEF LiveInvariant, RowsMoveForward

(* A page holds what comes next.                                           *)
LEMMA PageHolds ==
  ASSUME NEW from \in Nat, NEW total \in Nat
  PROVE  \E last \in Nat :
           /\ Page(from, total).items = from + 1 .. last /\ last <= total
           /\ Page(from, total).next = Nothing => last = total
           /\ Page(from, total).next # Nothing => Page(from, total).next = last
           /\ from <= total => from <= last /\ Cardinality(Page(from, total).items) = last - from
<1> DEFINE last == IF total > from + PageLimit THEN from + PageLimit ELSE total
<1>1. last \in Nat /\ last <= total /\ PageLimit \in Nat \ {0} /\ Nothing \notin Nat
  BY LiveViewAssumption
<1>2. Page(from, total) = [items |-> from + 1 .. last, next |-> IF last < total THEN last ELSE Nothing]
  BY DEF Page
<1>3. from <= total => from <= last
  BY <1>1
<1> HIDE DEF last
<1>4. Cardinality(from + 1 .. last) = IF from + 1 > last THEN 0 ELSE last - (from + 1) + 1
  <2>1. from + 1 \in Int /\ last \in Int
    BY <1>1
  <2> QED BY <2>1, FS_Interval
<1>5. from <= total => Cardinality(from + 1 .. last) = last - from
  BY <1>1, <1>3, <1>4
<1>6. Page(from, total).next = IF last < total THEN last ELSE Nothing
  BY <1>2
<1> QED BY <1>1, <1>2, <1>3, <1>5, <1>6

LEMMA FeedKeepsTheWall ==
  ASSUME LiveInvariant, FeedReads \/ FeedSends \/ FeedExpires
  PROVE  LiveInvariant'
<1>0. UNCHANGED databaseVars /\ UNCHANGED clientVars
  BY DEF FeedReads, FeedSends, FeedExpires
<1>1. /\ RowsMoveForward' /\ Now' = Now /\ events' = events /\ history' = history
      /\ Len(events) \in Nat /\ Len(history) \in Nat \ {0} /\ Now \in LiveRows
      /\ Now = history[Len(history)] /\ Now.total = Len(events)
  BY <1>0, ReadsKeepRows
<1>2. ReadsAreDated' /\ RestIsRest'
  BY <1>0, <1>1 DEF LiveInvariant, ReadsAreDated, RestIsRest, NeedsCleanup, clientVars, refreshVars
<1>3. /\ streaming' = streaming /\ cursor' = cursor /\ cursor \in Nat
      /\ wire \in Seq(Nat \cup {Nothing}) /\ after \in 0..Len(events)
      /\ Nothing \notin Nat /\ Len(wire) \in Nat
  BY <1>0, LiveViewAssumption DEF clientVars, LiveInvariant, StreamContinues, ReadsAreDated
<1>4. CASE FeedReads
  <2>1. feed = "first" /\ feed' = "second" /\ seen' = Len(history) /\ UNCHANGED <<after, complete, wire>>
    BY <1>4 DEF FeedReads
  <2> QED BY <1>1, <1>2, <1>3, <2>1 DEF LiveInvariant, StreamContinues, Numbered
<1>5. CASE FeedExpires
  <2>1. /\ feed \in {"first", "second"} /\ feed' = "closed" /\ wire' = Append(wire, Nothing)
        /\ UNCHANGED <<after, complete>>
    BY <1>5 DEF FeedExpires
  <2>2. /\ ~complete /\ Numbered = Len(wire) /\ after - Len(wire) \in 0..cursor /\ streaming
        /\ \A k \in 1..Len(wire) : wire[k] = after - Len(wire) + k
    BY <2>1 DEF LiveInvariant, StreamContinues, Numbered
  <2>3. /\ wire' \in Seq(Nat \cup {Nothing}) /\ Len(wire') = Len(wire) + 1 /\ wire' # <<>>
        /\ wire'[Len(wire')] = Nothing /\ \A k \in 1..Len(wire) : wire'[k] = wire[k]
    BY <1>3, <2>1
  <2>4. Numbered' = Len(wire)
    BY <1>3, <2>1, <2>3 DEF Numbered
  <2> QED BY <1>1, <1>2, <1>3, <2>1, <2>2, <2>3, <2>4 DEF LiveInvariant, StreamContinues
<1>6. CASE FeedSends
  <2> DEFINE fetched == Page(after, Now.total)
             sent == Cardinality(fetched.items)
             ended == history[seen].run = "ended" /\ fetched.next = Nothing
             numbers == [i \in 1..sent |-> after + i]
             tail == IF ended THEN <<Nothing>> ELSE <<>>
  <2>1. /\ feed = "second" /\ wire' = (wire \o numbers) \o tail /\ after' = after + sent
        /\ complete' = ended /\ feed' = IF ended THEN "closed" ELSE "first"
    BY <1>6 DEF FeedSends, StatusFirst
  <2>2. /\ seen \in 1..Len(history) /\ Numbered = Len(wire) /\ after - Len(wire) \in 0..cursor
        /\ \A k \in 1..Len(wire) : wire[k] = after - Len(wire) + k
        /\ streaming
    BY <2>1 DEF LiveInvariant, StreamContinues, Numbered
  <2>3. /\ sent \in Nat /\ after + sent <= Len(events)
        /\ fetched.next = Nothing => after + sent = Len(events)
    <3>1. after \in Nat /\ after <= Len(events) /\ Now.total \in Nat
      BY <1>1, <1>3
    <3>2. PICK last \in Nat : /\ last <= Len(events) /\ after <= last
                              /\ sent = last - after /\ (fetched.next = Nothing => last = Len(events))
      <4>1. \E last \in Nat :
              /\ fetched.items = after + 1 .. last /\ last <= Now.total
              /\ fetched.next = Nothing => last = Now.total
              /\ fetched.next # Nothing => fetched.next = last
              /\ after <= Now.total => after <= last /\ Cardinality(fetched.items) = last - after
        BY <3>1, PageHolds
      <4> HIDE DEF fetched
      <4> QED BY <1>1, <3>1, <4>1
    <3> HIDE DEF sent, fetched
    <3> QED BY <3>1, <3>2
  <2>4. ended => Now.run = "ended"
    BY <1>1, <2>2 DEF LiveInvariant, RowsMoveForward
  <2> HIDE DEF sent, fetched, ended
  <2>5. numbers \in Seq(Nat \cup {Nothing}) /\ Len(numbers) = sent /\ \A i \in 1..sent : numbers[i] = after + i
    <3>1. \A i \in 1..sent : after + i \in Nat \cup {Nothing}
      BY <1>3, <2>3
    <3>2. numbers \in [1..sent -> Nat \cup {Nothing}]
      BY <3>1
    <3>3. numbers \in Seq(Nat \cup {Nothing})
      BY <2>3, <3>2
    <3> QED BY <2>3, <3>2, <3>3
  <2> HIDE DEF numbers
  <2> DEFINE front == wire \o numbers
  <2>6. /\ front \in Seq(Nat \cup {Nothing}) /\ Len(front) = Len(wire) + sent
        /\ \A k \in 1..Len(front) : front[k] = after' - Len(front) + k
    <3>1. /\ front \in Seq(Nat \cup {Nothing}) /\ Len(front) = Len(wire) + sent
          /\ \A k \in 1..Len(wire) + sent : front[k] = IF k <= Len(wire) THEN wire[k] ELSE numbers[k - Len(wire)]
      BY <1>3, <2>5, ConcatProperties
    <3>2. ASSUME NEW k \in 1..Len(front) PROVE front[k] = after' - Len(front) + k
      <4>1. CASE k <= Len(wire)
        <5>1. k \in 1..Len(wire) /\ k \in 1..Len(wire) + sent
          BY <1>3, <2>3, <3>1, <4>1
        <5>2. front[k] = after - Len(wire) + k
          BY <2>2, <3>1, <4>1, <5>1
        <5> QED BY <1>3, <2>1, <2>3, <3>1, <5>2
      <4>2. CASE k > Len(wire)
        <5>1. k - Len(wire) \in 1..sent /\ k \in 1..Len(wire) + sent
          BY <1>3, <2>3, <3>1, <4>2
        <5>2. front[k] = after + (k - Len(wire))
          BY <1>3, <2>5, <3>1, <4>2, <5>1
        <5> QED BY <1>3, <2>1, <2>3, <3>1, <5>2
      <4> QED BY <1>3, <2>3, <3>1, <4>1, <4>2
    <3> QED BY <3>1, <3>2
  <2>7. after' - Len(front) \in 0..cursor /\ after' \in 0..Len(events)
    BY <1>1, <1>3, <2>1, <2>2, <2>3, <2>6
  <2> HIDE DEF front
  <2>8. CASE ended
    <3>1. wire' = front \o <<Nothing>>
      BY <2>1, <2>8 DEF front
    <3>2. /\ wire' \in Seq(Nat \cup {Nothing}) /\ Len(wire') = Len(front) + 1 /\ wire' # <<>>
          /\ wire'[Len(wire')] = Nothing /\ \A k \in 1..Len(front) : wire'[k] = front[k]
      BY <2>6, <3>1
    <3>3. feed' = "closed" /\ Numbered' = Len(front) /\ Now.run = "ended" /\ after' = Len(events)
      BY <2>1, <2>3, <2>4, <2>6, <2>8, <3>2, SMTT(60) DEF Numbered, ended
    <3> QED BY <1>1, <1>2, <1>3, <2>2, <2>6, <2>7, <3>2, <3>3 DEF LiveInvariant, StreamContinues
  <2>9. CASE ~ended
    <3>1. wire' = front /\ feed' = "first" /\ ~complete'
      BY <2>1, <2>6, <2>9, ConcatEmptySeq DEF front
    <3>2. Numbered' = Len(front)
      BY <3>1 DEF Numbered
    <3> QED BY <1>1, <1>2, <1>3, <2>2, <2>6, <2>7, <3>1, <3>2 DEF LiveInvariant, StreamContinues
  <2> QED BY <2>8, <2>9, SMTT(60)
<1> QED BY <1>4, <1>5, <1>6
(* What was known stays known, and the wall is projected once more.        *)
LEMMA AcceptTakes ==
  ASSUME LiveInvariant, NEW from \in 0..cursor, NEW last \in 0..Len(events), Accept(from + 1 .. last)
  PROVE  \E c \in cursor..Len(events) :
           /\ known \cup (from + 1 .. last) = 1..c /\ last <= c
           /\ known' = 1..c /\ cursor' = c /\ wall' = Project(wall, 1..c, c) /\ shown' = wall'
<1> DEFINE c == IF last > cursor THEN last ELSE cursor
<1>1. cursor \in 0..Len(events) /\ known = 1..cursor /\ Len(events) \in Nat
  BY NowIsLast DEF LiveInvariant, ReadsAreDated
<1>2. c \in cursor..Len(events) /\ c \in 0..Len(events) /\ last <= c
  BY <1>1
<1>3. known \cup (from + 1 .. last) = 1..c
  BY <1>1
<1> HIDE DEF c
<1>4. Prefix(known \cup (from + 1 .. last)) = c
  BY <1>1, <1>2, <1>3, PrefixIs
<1>5. known' = 1..c /\ cursor' = c /\ wall' = Project(wall, 1..c, c) /\ shown' = wall'
  BY <1>3, <1>4 DEF Accept, Publish
<1> QED BY <1>2, <1>3, <1>5

LEMMA StartingIsDated ==
  ASSUME LiveInvariant, UNCHANGED databaseVars, NEW c \in 0..Len(events), wall' \in Walls,
         cursor' = c, known' = 1..c, StartReading(1..c)
  PROVE  ReadsAreDated' /\ RestIsRest'
<1>1. /\ Now' = Now /\ events' = events /\ history' = history
      /\ Len(events) \in Nat /\ Len(history) \in Nat \ {0}
      /\ Now = history[Len(history)] /\ Now.total = Len(events)
  BY ReadsKeepRows
<1>2. refresh' = "reading" /\ since' = Len(history) /\ terminalBefore' = Latest(1..c)
  BY DEF StartReading
<1>3. terminalBefore' \in 0..Len(events) /\ terminalBefore' <= history[since'].total
  <2>1. c \in Nat /\ c <= Len(events)
    BY <1>1
  <2>2. Latest(1..c) \in 0..c
    BY <2>1, LatestIs
  <2>3. history[since'].total = Len(events)
    BY <1>1, <1>2
  <2> QED BY <1>1, <1>2, <2>1, <2>2, <2>3
<1>4. since' \in 1..Len(history)
  BY <1>1, <1>2
<1> QED BY <1>1, <1>2, <1>3, <1>4 DEF ReadsAreDated, RestIsRest

LEMMA PublishingIsDated ==
  ASSUME LiveInvariant, UNCHANGED databaseVars, NEW c \in cursor..Len(events), NEW w \in Walls,
         w.run = wall.run, w.attempts = wall.attempts, w.launches = wall.launches,
         cursor' = c, known' = 1..c, NEW seqs, wall' = Project(w, seqs, c)
  PROVE  /\ wall' \in Walls /\ c \in 0..Len(events)
         /\ UNCHANGED refreshVars => ReadsAreDated'
<1>1. /\ Now' = Now /\ events' = events /\ history' = history
      /\ Len(events) \in Nat /\ Len(history) \in Nat \ {0}
  BY ReadsKeepRows
<1>2. /\ wall' \in Walls /\ wall'.launches = wall.launches
      /\ \A a \in Attempts : wall.attempts[a] = "ended" => wall'.attempts[a] = "ended"
      /\ wall.run = "ended" => wall'.run = "ended"
      /\ wall'.run = "ended" => wall.run = "ended" \/ \E k \in 1..c : events[k] = RunEnds
  BY ProjectionKeeps
<1>3. c \in 0..Len(events) /\ cursor \in 0..c
  BY <1>1 DEF LiveInvariant, ReadsAreDated
<1>4. ASSUME UNCHANGED refreshVars PROVE ReadsAreDated'
  <2>1. UNCHANGED <<refresh, since, pageAfter, terminalBefore>>
    BY <1>4 DEF refreshVars
  <2>2. ASSUME refresh = "paging"
        PROVE  /\ pageAfter \in 0..c
               /\ wall'.run = "ended" =>
                    history[since].run = "ended" \/ \E k \in 1..c : events[k] = RunEnds
               /\ (\E k \in 1..terminalBefore : events[k] = RunEnds) =>
                    /\ history[since].run = "ended"
                    /\ wall'.run = "ended" /\ AllEnded(wall'.attempts)
                    /\ ~NeedsCleanup' => wall'.launches = Now.launches
    <3>1. pageAfter \in 0..c
      BY <1>3, <2>2 DEF LiveInvariant, ReadsAreDated
    <3>2. wall'.run = "ended" => history[since].run = "ended" \/ \E k \in 1..c : events[k] = RunEnds
      <4>1. wall.run = "ended" => history[since].run = "ended" \/ \E k \in 1..cursor : events[k] = RunEnds
        BY <2>2 DEF LiveInvariant, ReadsAreDated
      <4>2. \A k \in 1..cursor : k \in 1..c
        BY <1>3
      <4> QED BY <1>2, <4>1, <4>2
    <3>3. (\E k \in 1..terminalBefore : events[k] = RunEnds) =>
            /\ history[since].run = "ended" /\ wall.run = "ended" /\ AllEnded(wall.attempts)
            /\ ~NeedsCleanup => wall.launches = Now.launches
      BY <2>2 DEF LiveInvariant, ReadsAreDated
    <3>4. NeedsCleanup' <=> NeedsCleanup
      BY <1>2 DEF NeedsCleanup
    <3> QED BY <1>2, <3>1, <3>2, <3>3, <3>4 DEF AllEnded
  <2>3. refresh # "none" => since \in 1..Len(history) /\ terminalBefore \in 0..Len(events)
    BY DEF LiveInvariant, ReadsAreDated
  <2>4. refresh = "reading" => terminalBefore <= history[since].total
    BY DEF LiveInvariant, ReadsAreDated
  <2>5. refresh \in {"none", "reading", "paging"}
    BY DEF LiveInvariant, ReadsAreDated
  <2> QED BY <1>1, <1>2, <1>3, <2>1, <2>2, <2>3, <2>4, <2>5 DEF ReadsAreDated
<1> QED BY <1>2, <1>3, <1>4

LEMMA StreamIsKept ==
  ASSUME LiveInvariant, UNCHANGED databaseVars, cursor' \in cursor..Len(events),
         Disconnect \/ Connect \/ UNCHANGED <<streaming, feedVars>>
  PROVE  StreamContinues'
<1>1. /\ Now' = Now /\ events' = events /\ history' = history
      /\ Len(events) \in Nat /\ Len(history) \in Nat \ {0}
  BY ReadsKeepRows
<1>2. cursor \in 0..cursor' /\ cursor' \in 0..Len(events)
  BY <1>1 DEF LiveInvariant, ReadsAreDated
<1>3. <<>> \in Seq(Nat \cup {Nothing}) /\ Len(<<>>) = 0
  BY EmptySeq
<1>4. CASE Disconnect
  <2>1. /\ streaming' = FALSE /\ feed' = "none" /\ wire' = <<>> /\ complete' = FALSE
        /\ after' = 0 /\ seen' = 0 /\ Numbered' = 0
    BY <1>3, <1>4 DEF Disconnect, Numbered
  <2> QED BY <1>1, <1>2, <1>3, <2>1 DEF StreamContinues
<1>5. CASE Connect
  <2>1. /\ streaming' = TRUE /\ feed' = "first" /\ wire' = <<>> /\ complete' = FALSE
        /\ after' = cursor' /\ seen' = 0 /\ Numbered' = 0
    BY <1>3, <1>5 DEF Connect, Numbered
  <2>2. after' \in 0..Len(events) /\ after' - Numbered' \in 0..cursor'
    <3>1. cursor' - 0 \in 0..cursor'
      <4>1. \A x \in Nat : x - 0 \in 0..x
        OBVIOUS
      <4>2. cursor' \in Nat
        BY <1>1, <1>2
      <4> QED BY <4>1, <4>2
    <3>2. after' - Numbered' = cursor' - 0
      BY <2>1
    <3> QED BY <1>2, <2>1, <3>1, <3>2
  <2>3. \A k \in 1..Numbered' : wire'[k] = after' - Numbered' + k
    BY <2>1
  <2> QED BY <1>1, <1>3, <2>1, <2>2, <2>3 DEF StreamContinues
<1>6. CASE UNCHANGED <<streaming, feedVars>>
  <2>1. UNCHANGED <<streaming, feed, after, seen, complete, wire, Numbered>>
    BY <1>6 DEF feedVars, Numbered
  <2>2. \A x \in 0..cursor : x \in 0..cursor'
    BY <1>2
  <2> QED BY <1>1, <1>2, <2>1, <2>2 DEF LiveInvariant, StreamContinues
<1> QED BY <1>4, <1>5, <1>6

LEMMA RefreshingIsDated ==
  ASSUME LiveInvariant, UNCHANGED databaseVars, NEW c \in 0..Len(events), wall' \in Walls,
         cursor' = c, known' = 1..c, Refresh(1..c), UNCHANGED refreshVars => ReadsAreDated'
  PROVE  ReadsAreDated' /\ RestIsRest'
<1>1. CASE refresh = "none"
  BY <1>1, StartingIsDated DEF Refresh
<1>2. CASE refresh # "none"
  <2>1. UNCHANGED refreshVars /\ refresh' # "none"
    BY <1>2 DEF Refresh, refreshVars
  <2> QED BY <2>1 DEF RestIsRest
<1> QED BY <1>1, <1>2
LEMMA ReceivingKeeps ==
  ASSUME LiveInvariant, Receive
  PROVE  LiveInvariant'
<1> DEFINE i == Head(wire)
<1>0. UNCHANGED databaseVars
  BY DEF Receive
<1>1. /\ RowsMoveForward' /\ Now' = Now /\ events' = events /\ history' = history
      /\ Len(events) \in Nat /\ Len(history) \in Nat \ {0}
  BY <1>0, ReadsKeepRows
<1>2. streaming /\ wire # <<>> /\ i # Nothing /\ Accept({i})
  BY DEF Receive
<1>3. /\ cursor \in 0..Len(events) /\ known = 1..cursor /\ wall \in Walls
      /\ wire \in Seq(Nat \cup {Nothing}) /\ Len(wire) \in Nat \ {0} /\ wire[1] = i
      /\ feed \in {"first", "second", "closed"} /\ after \in 0..Len(events)
      /\ after - Numbered \in 0..cursor /\ \A k \in 1..Numbered : wire[k] = after - Numbered + k
      /\ feed = "closed" => wire[Len(wire)] = Nothing
  BY <1>2, EmptySeq DEF LiveInvariant, StreamContinues, ReadsAreDated
<1>4. 1 \in 1..Numbered /\ Numbered \in Nat
  <2>1. feed = "closed" => Len(wire) # 1
    BY <1>2, <1>3
  <2>2. CASE feed = "closed"
    <3>1. Numbered = Len(wire) - 1 /\ Len(wire) \in Nat \ {0} /\ Len(wire) # 1
      BY <1>3, <2>1, <2>2 DEF Numbered
    <3>2. \A n \in Nat \ {0} : n # 1 => n - 1 \in Nat /\ 1 \in 1..n - 1
      OBVIOUS
    <3> QED BY <3>1, <3>2
  <2>3. CASE feed # "closed"
    BY <1>3, <2>3 DEF Numbered
  <2> QED BY <2>2, <2>3
<1>5. i = after - Numbered + 1 /\ i \in Nat /\ i - 1 \in 0..cursor /\ i \in 0..Len(events)
  BY <1>3, <1>4
<1>6. {i} = (i - 1) + 1 .. i /\ Accept((i - 1) + 1 .. i)
  <2>1. {i} = (i - 1) + 1 .. i
    BY <1>5
  <2> QED BY <1>2, <2>1
<1>7. PICK c \in cursor..Len(events) :
        /\ known \cup {i} = 1..c /\ i <= c
        /\ known' = 1..c /\ cursor' = c /\ wall' = Project(wall, 1..c, c) /\ shown' = wall'
  BY <1>5, <1>6, AcceptTakes
<1>8. wall' \in Walls /\ c \in 0..Len(events) /\ (UNCHANGED refreshVars => ReadsAreDated')
  BY <1>0, <1>3, <1>7, PublishingIsDated
<1>9. Refresh(1..c) \/ UNCHANGED <<refreshVars, again, poll>>
  BY <1>7 DEF Receive
<1>10. ReadsAreDated' /\ RestIsRest'
  <2>1. CASE Refresh(1..c)
    BY <1>0, <1>7, <1>8, <2>1, RefreshingIsDated
  <2>2. CASE UNCHANGED <<refreshVars, again, poll>>
    <3>1. ~(refresh = "none" /\ ~poll)
      BY <1>2 DEF LiveInvariant, RestIsRest
    <3> QED BY <1>8, <2>2, <3>1 DEF RestIsRest, refreshVars
  <2> QED BY <1>9, <2>1, <2>2
<1>11. StreamContinues'
  <2>1. CASE Disconnect
    BY <1>0, <1>7, <2>1, StreamIsKept
  <2>2. CASE wire' = Tail(wire) /\ UNCHANGED <<streaming, feed, after, seen, complete>>
    <3>1. /\ wire' \in Seq(Nat \cup {Nothing}) /\ Len(wire') = Len(wire) - 1
          /\ \A k \in 1..Len(wire) - 1 : wire'[k] = wire[k + 1]
      BY <1>2, <1>3, <2>2, HeadTailProperties
    <3>2. Numbered' = Numbered - 1
      BY <1>3, <2>2, <3>1 DEF Numbered
    <3>3. Numbered <= Len(wire) /\ (feed = "closed" => Numbered = Len(wire) - 1)
      BY <1>3 DEF Numbered
    <3>4. ASSUME NEW k \in 1..Numbered' PROVE wire'[k] = after' - Numbered' + k
      <4>1. k + 1 \in 1..Numbered /\ k \in 1..Len(wire) - 1
        BY <1>3, <1>4, <3>2, <3>3, <3>4
      <4>2. wire'[k] = after - Numbered + (k + 1)
        BY <1>3, <3>1, <4>1
      <4>3. after - Numbered + (k + 1) = after - (Numbered - 1) + k
        BY <1>3, <1>4, <4>1
      <4> QED BY <2>2, <3>2, <4>2, <4>3
    <3>5. after' - Numbered' \in 0..cursor'
      <4>1. after - Numbered + 1 \in 0..c
        BY <1>5, <1>7
      <4> QED BY <1>3, <1>4, <1>7, <2>2, <3>2, <4>1
    <3>6. feed' = "closed" => wire' # <<>> /\ wire'[Len(wire')] = Nothing
      <4>1. SUFFICES ASSUME feed = "closed" PROVE wire' # <<>> /\ wire'[Len(wire')] = Nothing
        BY <2>2
      <4>2. Len(wire) - 1 \in 1..Len(wire) - 1
        BY <1>3, <1>4, <3>3, <4>1
      <4>3. wire'[Len(wire')] = wire[Len(wire) - 1 + 1]
        BY <3>1, <4>2
      <4>4. Len(wire) - 1 + 1 = Len(wire)
        BY <1>3
      <4>5. Len(wire') # 0
        BY <3>1, <4>2
      <4> QED BY <1>3, <4>1, <4>3, <4>4, <4>5, EmptySeq
    <3>7. feed' # "none"
      BY <1>3, <2>2
    <3>8. /\ streaming' /\ feed' \in {"first", "second", "closed"} /\ after' \in 0..Len(events')
          /\ feed' = "second" => seen' \in 1..Len(history')
          /\ complete' => feed' = "closed" /\ Now'.run = "ended" /\ after' = Len(events')
      BY <1>1, <1>2, <1>3, <2>2 DEF LiveInvariant, StreamContinues
    <3> QED BY <3>1, <3>4, <3>5, <3>6, <3>7, <3>8 DEF StreamContinues
  <2> QED BY <2>1, <2>2 DEF Receive
<1> QED BY <1>1, <1>10, <1>11 DEF LiveInvariant

(* Viewers hidden, the wall is the same otherwise.                         *)
LEMMA HidingKeeps ==
  ASSUME NEW w \in Walls
  PROVE  LET h == [w EXCEPT !.viewers = {}] IN
         h \in Walls /\ h.run = w.run /\ h.attempts = w.attempts /\ h.launches = w.launches
<1>1. [w EXCEPT !.viewers = {}] \in Walls
  BY Zenon DEF Walls
<1> QED BY <1>1 DEF Walls

LEMMA ErrorsKeep ==
  ASSUME LiveInvariant, StreamErrs \/ TimerFires \/ RefreshFails
  PROVE  LiveInvariant'
<1>0. UNCHANGED databaseVars /\ UNCHANGED <<known, cursor>>
  BY DEF StreamErrs, TimerFires, RefreshFails
<1>1. RowsMoveForward' /\ events' = events /\ history' = history /\ Now' = Now /\ Len(events) \in Nat
  BY <1>0, ReadsKeepRows
<1>2. /\ cursor \in 0..Len(events) /\ known = 1..cursor /\ wall \in Walls
      /\ cursor \in cursor..Len(events) /\ cursor' = cursor /\ known' = 1..cursor
  BY <1>0, <1>1 DEF LiveInvariant, ReadsAreDated
<1> DEFINE hidden == [wall EXCEPT !.viewers = {}]
<1>3. /\ hidden \in Walls /\ hidden.run = wall.run /\ hidden.attempts = wall.attempts
      /\ hidden.launches = wall.launches
  BY <1>2, HidingKeeps
<1> HIDE DEF hidden
<1>4. Publish(hidden, known, cursor) => wall' \in Walls /\ (UNCHANGED refreshVars => ReadsAreDated')
  <2>1. SUFFICES ASSUME wall' = Project(hidden, known, cursor)
                 PROVE  wall' \in Walls /\ (UNCHANGED refreshVars => ReadsAreDated')
    BY DEF Publish
  <2> QED BY <1>0, <1>2, <1>3, <2>1, PublishingIsDated
<1>5. CASE StreamErrs
  <2>1. Disconnect /\ Publish(hidden, known, cursor) /\ Refresh(known)
    BY <1>5 DEF StreamErrs, hidden
  <2>2. ReadsAreDated' /\ RestIsRest'
    BY <1>0, <1>2, <1>4, <2>1, RefreshingIsDated
  <2>3. StreamContinues'
    BY <1>0, <1>2, <2>1, StreamIsKept
  <2> QED BY <1>1, <2>2, <2>3 DEF LiveInvariant
<1>6. CASE TimerFires
  <2>1. Refresh(known) /\ UNCHANGED <<feedVars, wall, shown, streaming>>
    BY <1>6 DEF TimerFires
  <2>2. UNCHANGED refreshVars => ReadsAreDated'
    BY <1>0, <1>1, <2>1 DEF LiveInvariant, ReadsAreDated, refreshVars, NeedsCleanup
  <2>3. ReadsAreDated' /\ RestIsRest'
    BY <1>0, <1>2, <2>1, <2>2, RefreshingIsDated
  <2>4. StreamContinues'
    BY <1>0, <1>2, <2>1, StreamIsKept
  <2> QED BY <1>1, <2>3, <2>4 DEF LiveInvariant
<1>7. CASE RefreshFails
  <2>1. /\ Publish(hidden, known, cursor) /\ NextRound(known, again, TRUE)
        /\ Disconnect \/ UNCHANGED <<streaming, feedVars>>
    BY <1>7 DEF RefreshFails, hidden
  <2>2. StreamContinues'
    BY <1>0, <1>2, <2>1, StreamIsKept
  <2>3. CASE again
    <3>1. StartReading(1..cursor)
      BY <1>2, <2>1, <2>3 DEF NextRound
    <3> QED BY <1>0, <1>1, <1>2, <1>4, <2>1, <2>2, <3>1, StartingIsDated DEF LiveInvariant
  <2>4. CASE ~again
    <3>1. refresh' = "none" /\ poll' = TRUE
      BY <2>1, <2>4 DEF NextRound
    <3> QED BY <1>1, <1>2, <1>4, <2>1, <2>2, <3>1 DEF LiveInvariant, ReadsAreDated, RestIsRest
  <2> QED BY <2>3, <2>4
<1> QED BY <1>5, <1>6, <1>7
LEMMA LandingKeeps ==
  ASSUME LiveInvariant, Land
  PROVE  LiveInvariant'
<1>0. UNCHANGED databaseVars /\ UNCHANGED feedVars /\ UNCHANGED <<known, cursor, terminalBefore, streaming>>
      /\ refresh = "reading" /\ refresh' = "paging" /\ pageAfter' = cursor /\ since' = Len(history)
  BY DEF Land
<1>1. /\ RowsMoveForward' /\ events' = events /\ history' = history /\ Now' = Now
      /\ Len(events) \in Nat /\ Len(history) \in Nat \ {0} /\ Now \in LiveRows
      /\ Now = history[Len(history)] /\ Now.total = Len(events)
  BY <1>0, ReadsKeepRows
<1>2. /\ cursor \in 0..Len(events) /\ known = 1..cursor /\ since \in 1..Len(history)
      /\ terminalBefore \in 0..Len(events) /\ terminalBefore <= history[since].total
  BY <1>0 DEF LiveInvariant, ReadsAreDated
<1>3. PICK i1, i2, i3, i4 \in since..Len(history) :
        wall' = [run |-> history[i1].run, cancelled |-> history[i1].cancelled,
                 attempts |-> history[i2].attempts, launches |-> history[i3].launches,
                 viewers |-> Viewers(history[i4])]
  <2>1. PICK run \in {<<rows.run, rows.cancelled>> : rows \in Moments},
             attempts \in {rows.attempts : rows \in Moments},
             summaries \in {rows.launches : rows \in Moments},
             sessions \in {Viewers(rows) : rows \in Moments} :
          wall' = [run |-> run[1], cancelled |-> run[2], attempts |-> attempts,
                   launches |-> summaries, viewers |-> sessions]
    BY DEF Land
  <2>2. PICK i1 \in since..Len(history) : run = <<history[i1].run, history[i1].cancelled>>
    BY DEF Moments
  <2>3. PICK i2 \in since..Len(history) : attempts = history[i2].attempts
    BY DEF Moments
  <2>4. PICK i3 \in since..Len(history) : summaries = history[i3].launches
    BY DEF Moments
  <2>5. PICK i4 \in since..Len(history) : sessions = Viewers(history[i4])
    BY DEF Moments
  <2>6. run[1] = history[i1].run /\ run[2] = history[i1].cancelled
    BY <2>2
  <2> QED BY <2>1, <2>3, <2>4, <2>5, <2>6
<1>4. i1 \in 1..Len(history) /\ i2 \in 1..Len(history) /\ i3 \in 1..Len(history) /\ i4 \in 1..Len(history)
  BY <1>1, <1>2
<1>5. history[i1] \in LiveRows /\ history[i2] \in LiveRows /\ history[i3] \in LiveRows
  BY <1>4, ElementOfSeq DEF LiveInvariant, RowsMoveForward
<1>6. wall' \in Walls
  <2>1. history[i1].run \in RunStates /\ history[i2].attempts \in [Attempts -> RunStates]
        /\ history[i3].launches \in [Attempts -> LaunchStates]
    BY <1>5 DEF LiveRows
  <2>2. history[i1].cancelled \in BOOLEAN
    BY <1>5, Zenon DEF LiveRows
  <2>3. Viewers(history[i4]) \subseteq Attempts
    BY DEF Viewers
  <2>4. history[i2].attempts \in [Attempts -> RunStates \cup {Nothing}]
    BY <2>1
  <2> QED BY <1>3, <2>1, <2>2, <2>3, <2>4, Zenon DEF Walls
<1>7. /\ wall'.run = history[i1].run /\ wall'.attempts = history[i2].attempts
      /\ wall'.launches = history[i3].launches
  BY <1>3
<1>8. wall'.run = "ended" => Now.run = "ended"
  <2>1. Len(history) \in i1..Len(history)
    BY <1>1, <1>4
  <2>2. history[i1].run = "ended" => history[Len(history)].run = "ended"
    BY <1>4, <2>1 DEF LiveInvariant, RowsMoveForward
  <2> QED BY <1>1, <1>7, <2>2
<1>9. ASSUME \E k \in 1..terminalBefore : events[k] = RunEnds
      PROVE  /\ Now.run = "ended" /\ wall'.run = "ended" /\ AllEnded(wall'.attempts)
             /\ ~NeedsCleanup' => wall'.launches = Now.launches
  <2>1. PICK k \in 1..terminalBefore : events[k] = RunEnds
    BY <1>9
  <2>2. history[since].total \in Nat
    <3>1. history[since] \in LiveRows
      BY <1>2, ElementOfSeq DEF LiveInvariant, RowsMoveForward
    <3> QED BY <3>1 DEF LiveRows
  <2>3. k \in 1..Len(events) /\ k <= history[since].total
    BY <1>1, <1>2, <2>2, SMTT(60)
  <2>4. history[since].run = "ended"
    BY <1>2, <2>1, <2>3 DEF LiveInvariant, RowsMoveForward
  <2>5. \A j \in since..Len(history) : history[j].run = "ended"
    BY <1>2, <2>4 DEF LiveInvariant, RowsMoveForward
  <2>6. AllEnded(history[i2].attempts)
    BY <1>4, <2>5 DEF LiveInvariant, RowsMoveForward
  <2>7. \A a \in Attempts : history[i3].launches[a] \in CleanStates => Now.launches[a] = history[i3].launches[a]
    BY <1>4, <2>5 DEF LiveInvariant, RowsMoveForward
  <2>8. ASSUME ~NeedsCleanup' PROVE wall'.launches = Now.launches
    <3>1. \A a \in Attempts : history[i3].launches[a] \in CleanStates
      BY <1>7, <2>8 DEF NeedsCleanup, CleanStates
    <3>2. Now.launches \in [Attempts -> LaunchStates] /\ history[i3].launches \in [Attempts -> LaunchStates]
      BY <1>1, <1>5 DEF LiveRows
    <3> QED BY <1>7, <2>7, <3>1, <3>2
  <2>9. wall'.run = "ended" /\ AllEnded(wall'.attempts)
    BY <1>7, <2>5, <2>6
  <2> QED BY <1>8, <2>8, <2>9
<1>10. ReadsAreDated'
  <2>1. since' \in 1..Len(history') /\ history'[since'] = Now /\ cursor' \in 0..Len(events')
        /\ pageAfter' \in 0..cursor' /\ terminalBefore' \in 0..Len(events') /\ known' = 1..cursor'
    BY <1>0, <1>1, <1>2
  <2> QED BY <1>0, <1>1, <1>6, <1>8, <1>9, <2>1 DEF ReadsAreDated
<1>11. StreamContinues' /\ RestIsRest'
  <2>1. cursor' \in cursor..Len(events)
    BY <1>0, <1>1, <1>2
  <2>2. StreamContinues'
    BY <1>0, <2>1, StreamIsKept
  <2> QED BY <1>0, <2>2 DEF RestIsRest
<1> QED BY <1>1, <1>10, <1>11 DEF LiveInvariant

LEMMA PagingKeeps ==
  ASSUME LiveInvariant, LandPage
  PROVE  LiveInvariant'
<1>0. UNCHANGED databaseVars /\ refresh = "paging"
  BY DEF LandPage
<1>1. /\ RowsMoveForward' /\ events' = events /\ history' = history /\ Now' = Now
      /\ Len(events) \in Nat /\ Len(history) \in Nat \ {0} /\ Now \in LiveRows
      /\ Now = history[Len(history)] /\ Now.total = Len(events)
  BY <1>0, ReadsKeepRows
<1>2. /\ cursor \in 0..Len(events) /\ known = 1..cursor /\ wall \in Walls /\ since \in 1..Len(history)
      /\ terminalBefore \in 0..Len(events) /\ pageAfter \in 0..cursor
      /\ wall.run = "ended" => history[since].run = "ended" \/ \E k \in 1..cursor : events[k] = RunEnds
      /\ (\E k \in 1..terminalBefore : events[k] = RunEnds) =>
           /\ history[since].run = "ended" /\ wall.run = "ended" /\ AllEnded(wall.attempts)
           /\ ~NeedsCleanup => wall.launches = Now.launches
  BY <1>0 DEF LiveInvariant, ReadsAreDated
<1>3. PICK i \in since..Len(history) :
        LET fetched == Page(pageAfter, history[i].total) IN
        /\ Accept(fetched.items)
        /\ IF fetched.next = Nothing THEN EndRound(known \cup fetched.items)
           ELSE /\ pageAfter' = fetched.next /\ since' = Len(history)
                /\ UNCHANGED <<refresh, terminalBefore, again, streaming, feedVars, poll, reconnect>>
  BY DEF LandPage, Moments
<1> DEFINE total == history[i].total
           fetched == Page(pageAfter, total)
<1>4. i \in 1..Len(history) /\ total \in Nat /\ total <= Len(events) /\ pageAfter \in Nat
  <2>1. i \in 1..Len(history) /\ pageAfter \in Nat
    BY <1>1, <1>2
  <2>2. history[i] \in LiveRows
    BY <2>1, ElementOfSeq DEF LiveInvariant, RowsMoveForward
  <2> QED BY <2>1, <2>2 DEF LiveInvariant, RowsMoveForward, LiveRows
<1>5. PICK last \in Nat :
        /\ fetched.items = pageAfter + 1 .. last /\ last <= total
        /\ fetched.next = Nothing => last = total
        /\ fetched.next # Nothing => fetched.next = last
  <2>1. \E last \in Nat :
          /\ Page(pageAfter, total).items = pageAfter + 1 .. last /\ last <= total
          /\ Page(pageAfter, total).next = Nothing => last = total
          /\ Page(pageAfter, total).next # Nothing => Page(pageAfter, total).next = last
          /\ pageAfter <= total =>
               pageAfter <= last /\ Cardinality(Page(pageAfter, total).items) = last - pageAfter
    <3> HIDE DEF total
    <3> QED BY <1>4, PageHolds
  <2> QED BY <2>1, Zenon
<1>6. last \in 0..Len(events) /\ Accept(pageAfter + 1 .. last)
  BY <1>1, <1>3, <1>4, <1>5
<1>7. PICK c \in cursor..Len(events) :
        /\ known \cup (pageAfter + 1 .. last) = 1..c /\ last <= c
        /\ known' = 1..c /\ cursor' = c /\ wall' = Project(wall, 1..c, c) /\ shown' = wall'
  BY <1>2, <1>6, AcceptTakes
<1>8. /\ wall' \in Walls /\ c \in 0..Len(events) /\ wall'.launches = wall.launches
      /\ \A a \in Attempts : wall.attempts[a] = "ended" => wall'.attempts[a] = "ended"
      /\ wall.run = "ended" => wall'.run = "ended"
      /\ wall'.run = "ended" => wall.run = "ended" \/ \E k \in 1..c : events[k] = RunEnds
  <2>1. c \in 0..Len(events)
    BY <1>1, <1>2
  <2> QED BY <1>2, <1>7, <2>1, ProjectionKeeps
<1> HIDE DEF fetched
<1>9. history[since].run = "ended" => history[i].run = "ended" /\ Now.run = "ended" /\ total = Len(events)
  BY <1>1, <1>2, <1>4, SMTT(60) DEF LiveInvariant, RowsMoveForward
<1>10. CASE fetched.next # Nothing
  <2>1. /\ pageAfter' = last /\ since' = Len(history)
        /\ UNCHANGED <<refresh, terminalBefore, again, streaming, feedVars, poll, reconnect>>
    BY <1>3, <1>5, <1>10 DEF fetched
  <2>2. StreamContinues'
    BY <1>0, <1>7, <2>1, StreamIsKept
  <2>3. /\ since' \in 1..Len(history') /\ history'[since'] = Now /\ cursor' \in 0..Len(events')
        /\ pageAfter' \in 0..cursor' /\ terminalBefore' \in 0..Len(events') /\ known' = 1..cursor'
    BY <1>1, <1>2, <1>5, <1>7, <1>8, <2>1
  <2>4. wall'.run = "ended" => history'[since'].run = "ended" \/ \E k \in 1..cursor' : events'[k] = RunEnds
    <3>1. \A k \in 1..cursor : k \in 1..c
      BY <1>1, <1>2, <1>7
    <3> QED BY <1>1, <1>2, <1>7, <1>8, <1>9, <2>3, <3>1
  <2>5. NeedsCleanup' <=> NeedsCleanup
    BY <1>8 DEF NeedsCleanup
  <2>6. (\E k \in 1..terminalBefore' : events'[k] = RunEnds) =>
           /\ history'[since'].run = "ended" /\ wall'.run = "ended" /\ AllEnded(wall'.attempts)
           /\ ~NeedsCleanup' => wall'.launches = Now'.launches
    BY <1>1, <1>2, <1>8, <1>9, <2>1, <2>3, <2>5 DEF AllEnded
  <2>7. ReadsAreDated' /\ RestIsRest'
    BY <1>0, <1>1, <1>8, <2>1, <2>3, <2>4, <2>6 DEF ReadsAreDated, RestIsRest
  <2> QED BY <1>1, <2>2, <2>7 DEF LiveInvariant
<1>11. CASE fetched.next = Nothing
  <2>1. EndRound(1..c) /\ last = total
    BY <1>3, <1>5, <1>7, <1>11 DEF fetched
  <2>2. /\ IF wall'.run = "ended" THEN Disconnect /\ reconnect' = FALSE
           ELSE Disconnect \/ Connect \/ UNCHANGED <<streaming, feedVars>>
        /\ NextRound(1..c, again \/ DiscoveredTerminal(1..c),
                     DiscoveredTerminal(1..c) \/ wall'.run # "ended" \/ NeedsCleanup)
    BY <2>1 DEF EndRound
  <2>3. StreamContinues'
    BY <1>0, <1>7, <2>2, StreamIsKept
  <2>4. CASE again \/ DiscoveredTerminal(1..c)
    <3>1. StartReading(1..c)
      BY <2>2, <2>4 DEF NextRound
    <3> QED BY <1>0, <1>1, <1>7, <1>8, <2>3, <3>1, StartingIsDated DEF LiveInvariant
  <2>5. CASE ~(again \/ DiscoveredTerminal(1..c))
    <3>1. refresh' = "none" /\ (~poll' => wall'.run = "ended" /\ ~NeedsCleanup)
      BY <2>2, <2>5 DEF NextRound
    <3>2. ReadsAreDated'
      BY <1>1, <1>7, <1>8, <3>1 DEF ReadsAreDated
    <3>3. ASSUME ~poll'
          PROVE  /\ ~streaming' /\ ~reconnect'
                 /\ shown'.run = "ended" /\ Now'.run = "ended"
                 /\ shown'.attempts = Now'.attempts /\ shown'.launches = Now'.launches
                 /\ wall'.launches = Now'.launches /\ cursor' = Len(events') /\ ~NeedsCleanup'
      <4>1. wall'.run = "ended" /\ ~NeedsCleanup /\ Disconnect /\ reconnect' = FALSE
        BY <2>2, <3>1, <3>3
      <4>2. \E k \in 1..c : events[k] = RunEnds
        <5>1. CASE \E k \in 1..c : events[k] = RunEnds
          BY <5>1
        <5>2. CASE wall.run = "ended"
          <6>1. (\E k \in 1..cursor : events[k] = RunEnds) => \E k \in 1..c : events[k] = RunEnds
            <7>1. \A k \in 1..cursor : k \in 1..c
              BY <1>1, <1>2, <1>7
            <7> QED BY <7>1
          <6>2. CASE history[since].run = "ended"
            <7>1. Now.run = "ended" /\ c = Len(events)
              BY <1>1, <1>7, <1>8, <1>9, <2>1, <6>2
            <7> QED BY <7>1 DEF LiveInvariant, RowsMoveForward
          <6> QED BY <1>2, <5>2, <6>1, <6>2
        <5> QED BY <1>8, <4>1, <5>1, <5>2
      <4>3. PICK k \in 1..c : events[k] = RunEnds
        BY <4>2
      <4>4. k \in Terminal(1..c)
        BY <4>3 DEF Terminal, TerminalKinds, RunEnds, Event
      <4>5. k \in 1..terminalBefore
        BY <1>1, <1>2, <1>8, <2>5, <4>4 DEF DiscoveredTerminal
      <4>6. /\ history[since].run = "ended" /\ AllEnded(wall.attempts) /\ wall.launches = Now.launches
        BY <1>2, <4>1, <4>3, <4>5
      <4>7. Now.run = "ended" /\ c = Len(events)
        BY <1>1, <1>7, <1>8, <1>9, <2>1, <4>6
      <4>8. wall'.attempts = Now.attempts
        <5>1. AllEnded(Now.attempts) /\ Now.attempts \in [Attempts -> RunStates]
          BY <4>7, RowsAreSane DEF LiveInvariant
        <5>2. AllEnded(wall'.attempts) /\ wall'.attempts \in [Attempts -> RunStates \cup {Nothing}]
          BY <1>8, <4>6 DEF AllEnded, Walls
        <5> QED BY <5>1, <5>2 DEF AllEnded
      <4>9. ~NeedsCleanup'
        BY <1>8, <4>1 DEF NeedsCleanup
      <4> QED BY <1>1, <1>7, <1>8, <4>1, <4>6, <4>7, <4>8, <4>9 DEF Disconnect
    <3>4. RestIsRest'
      BY <3>3 DEF RestIsRest
    <3> QED BY <1>1, <2>3, <3>2, <3>4 DEF LiveInvariant
  <2> QED BY <2>4, <2>5
<1> QED BY <1>10, <1>11

LEMMA LiveStepKeeps ==
  LiveInvariant /\ [LiveNext]_liveVars => LiveInvariant'
<1> SUFFICES ASSUME LiveInvariant, [LiveNext]_liveVars PROVE LiveInvariant'
  OBVIOUS
<1>1. CASE UNCHANGED liveVars
  <2>1. UNCHANGED <<history, events, feed, after, seen, complete, wire, wall, known, cursor, shown,
                    refresh, since, pageAfter, terminalBefore, again, streaming, poll, reconnect>>
    BY <1>1 DEF liveVars, databaseVars, feedVars, clientVars, refreshVars
  <2>2. UNCHANGED <<Now, Numbered, NeedsCleanup>>
    BY <2>1 DEF Now, Numbered, NeedsCleanup
  <2>3. RowsMoveForward'
    BY <2>1, <2>2 DEF LiveInvariant, RowsMoveForward, AllEnded
  <2> QED BY <2>1, <2>2, <2>3
          DEF LiveInvariant, StreamContinues, ReadsAreDated, RestIsRest
<1> QED BY <1>1, WorkerKeepsTheWall, FeedKeepsTheWall, LandingKeeps, PagingKeeps, ReceivingKeeps,
           ErrorsKeep DEF LiveNext, ViewStep

LEMMA LiveStarts == LiveInit => LiveInvariant
<1> SUFFICES ASSUME LiveInit PROVE LiveInvariant
  OBVIOUS
<1> DEFINE row == [run |-> "queued", cancelled |-> FALSE, attempts |-> [a \in Attempts |-> "queued"],
                   launches |-> [a \in Attempts |-> "not_launched"], total |-> 1]
           created == Event("run.created", Nothing)
<1>1. history = <<row>> /\ events = <<created>>
  BY DEF LiveInit
<1>2. row \in LiveRows
  <2>1. /\ [a \in Attempts |-> "queued"] \in [Attempts -> RunStates]
        /\ [a \in Attempts |-> "not_launched"] \in [Attempts -> LaunchStates]
        /\ "queued" \in RunStates /\ 1 \in Nat
    BY DEF RunStates, LaunchStates
  <2> QED BY <2>1, Zenon DEF LiveRows
<1>3. created \in LiveEvents /\ created # RunEnds
  BY DEF Event, LiveEvents, RunEnds
<1>4. /\ row.run = "queued" /\ row.total = 1
      /\ \A a \in Attempts : row.launches[a] = "not_launched"
  OBVIOUS
<1> HIDE DEF row, created
<1>5. /\ history \in Seq(LiveRows) /\ Len(history) = 1 /\ history[1] = row /\ history # <<>>
      /\ events \in Seq(LiveEvents) /\ Len(events) = 1 /\ events[1] = created
      /\ Now = row
  BY <1>1, <1>2, <1>3 DEF Now, Last
<1>6. RowsMoveForward
  BY <1>3, <1>4, <1>5 DEF RowsMoveForward
<1>7. /\ feed = "none" /\ after = 0 /\ complete = FALSE /\ wire = <<>> /\ streaming = FALSE
      /\ wall = EmptyWall /\ known = {} /\ cursor = 0
      /\ refresh = "reading" /\ since = 1 /\ terminalBefore = 0
  BY DEF LiveInit
<1>8. StreamContinues
  <2>1. wire \in Seq(Nat \cup {Nothing}) /\ Numbered = 0
    BY <1>7, EmptySeq DEF Numbered
  <2> QED BY <1>5, <1>7, <2>1 DEF StreamContinues
<1>9. EmptyWall \in Walls
  <2>1. /\ [a \in Attempts |-> Nothing] \in [Attempts -> RunStates \cup {Nothing}]
        /\ [a \in Attempts |-> "not_launched"] \in [Attempts -> LaunchStates]
        /\ {} \in SUBSET Attempts /\ Nothing \in RunStates \cup {Nothing}
    BY DEF LaunchStates
  <2> QED BY <2>1, Zenon DEF Walls, EmptyWall
<1>10. ReadsAreDated /\ RestIsRest
  BY <1>4, <1>5, <1>7, <1>9 DEF ReadsAreDated, RestIsRest
<1> QED BY <1>6, <1>8, <1>10 DEF LiveInvariant

(* The stream closes as complete only when every event of the run was      *)
(* sent (createEventStreamHandler()).                                      *)
THEOREM TheStreamEndsComplete == LiveSpec => []CloseIsComplete
<1>1. LiveInvariant => CloseIsComplete
  BY DEF LiveInvariant, StreamContinues, CloseIsComplete
<1> QED BY <1>1, LiveStarts, LiveStepKeeps, PTL DEF LiveSpec

(* A wall at rest shows the final rows, summaries included: nothing will   *)
(* change them, and nothing would make it look again (reconcile()).        *)
THEOREM TheWallRestsOnTheEnd == LiveSpec => []RestIsFinal
<1>1. LiveInvariant => RestIsFinal
  BY DEF LiveInvariant, RestIsRest, RestIsFinal, AtRest
<1> QED BY <1>1, LiveStarts, LiveStepKeeps, PTL DEF LiveSpec
=============================================================================
