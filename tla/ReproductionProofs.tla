------------------------- MODULE ReproductionProofs -------------------------
(***************************************************************************)
(* Proofs about the search for the shortest reproduction: a candidate has  *)
(* one child at most, a path becomes the best only when it was seen to     *)
(* fail in a browser of its own, and the path found is minimal - for any   *)
(* recipe, limits, number of worker processes and faults.                  *)
(***************************************************************************)
EXTENDS Reproduction, TLAPS

Steps == {Recipe[i] : i \in 1..Len(Recipe)}
Sessions == {NULL} \cup UNION {SessionsOf(c) : c \in Candidates}
Results == [outcome : Outcomes, session : Sessions, cleanup : {"confirmed", "unknown"}]
Positions == {"idle", "completing", "dispatching", "inserting", "refused"}
CarriedBy == {"completing", "inserting", "refused"}

SearchTyped ==
  /\ search \in {"absent", "queued", "running"} \cup
       {"found", "not_reproduced", "limit_reached", "cancelled", "unsupported",
        "uncertain_environment", "unknown_cleanup"}
  /\ cancelRequested \in BOOLEAN /\ deadlinePassed \in BOOLEAN /\ timeUp \in BOOLEAN
  /\ best = NULL \/ best \in Seq(Steps)
  /\ cursor \in Nat /\ count \in 0..CandidateLimit /\ active \in 0..CandidateLimit
  /\ search = "running" => active \in Candidates
  /\ candidate \in [Candidates -> {"none", "running", "not_started"} \cup Outcomes]
  /\ steps \in [Candidates -> Seq(Steps)] /\ sessionHash \in [Candidates -> Sessions]
ChildrenTyped ==
  /\ children \in [Candidates -> Nat]
  /\ job \in [Candidates -> {"none", "queued", "leased", "completed", "cancelled"}]
  /\ jobCancel \in [Candidates -> BOOLEAN]
  /\ launch \in [Candidates -> {"none", "open", "settled", "recovering", "quarantined"}]
  /\ result \in [Candidates -> Results \cup {NULL}]
  /\ task \in [Candidates -> {"none", "starting", "replaying", "done"}]
  /\ session \in [Candidates -> Sessions] /\ saw \in [Candidates -> Outcomes \cup {NULL}]
PumpStates == [at : Positions, candidate : 0..CandidateLimit, result : Results \cup {NULL},
               cancelled : BOOLEAN]
PumpsTyped ==
  /\ pump \in [Pumps -> PumpStates]
  /\ \A w \in Pumps : /\ pump[w].at \in CarriedBy => pump[w].candidate \in Candidates
                      /\ pump[w].at = "completing" => pump[w].result \in Results
ReproductionTypes == SearchTyped /\ ChildrenTyped /\ PumpsTyped

(* Only an unclaimed candidate has no child, and no launch before a claim. *)
ChildFollowsJob ==
  \A c \in Candidates :
    /\ children[c] = IF job[c] = "none" THEN 0 ELSE 1
    /\ job[c] \in {"none", "queued"} => launch[c] = "none" /\ task[c] = "none"
(* A stored result is what the finished task saw in its session. *)
ResultIsWhatWasSeen ==
  \A c \in Candidates : result[c] # NULL =>
    task[c] = "done" /\ result[c].outcome = saw[c] /\ result[c].session = session[c]
(* What a pump carries to completeCandidate() is the stored result, which  *)
(* no longer changes, or says that nothing is known.                       *)
PumpsCarryResults ==
  \A w \in Pumps : pump[w].at = "completing" =>
    LET c == pump[w].candidate IN
    pump[w].result.outcome = "unknown"
      \/ (pump[w].result = result[c] /\ result[c] # NULL /\ launch[c] = "settled")
(* The candidate of a running search is the last, and tries one step less. *)
LastIsTried ==
  /\ search = "running" =>
       /\ active = count /\ steps[active] = Shortened
       /\ best # NULL => cursor < Len(best) /\ Len(best) > 1
  /\ search \in {"absent", "queued"} => active = 0
  /\ search = "absent" => count = 0
(* While a search goes on, the sessions of its past candidates are known.  *)
PastIsKnown ==
  search \in {"queued", "running"} => \A d \in 1..count :
    d = active \/ (sessionHash[d] = session[d] /\ task[d] = "done")
(* The path without a step the scan has passed was tried in vain. *)
ScannedInVain ==
  best # NULL => \A i \in 1..cursor : \E d \in 1..count :
    steps[d] = RemoveAt(best, i) /\ saw[d] = "not_reproduced" /\ task[d] = "done"
FoundIsScanned == search = "found" => best # NULL /\ (cursor >= Len(best) \/ Len(best) = 1)

ChildInvariant == ChildFollowsJob /\ ResultIsWhatWasSeen /\ PumpsCarryResults
SearchInvariant == LastIsTried /\ PastIsKnown /\ ScannedInVain /\ FoundIsScanned
ReproductionInvariant == ReproductionTypes /\ ChildInvariant /\ SearchInvariant
-----------------------------------------------------------------------------
(* A path without one of its steps. *)
LEMMA OneStepLess ==
  ASSUME NEW S, NEW s \in Seq(S), NEW i \in 1..Len(s)
  PROVE  RemoveAt(s, i) \in Seq(S) /\ Len(RemoveAt(s, i)) = Len(s) - 1
<1> DEFINE a == SubSeq(s, 1, i - 1)
           b == SubSeq(s, i + 1, Len(s))
<1>1. a \in Seq(S) /\ Len(a) = i - 1
  OBVIOUS
<1>2. b \in Seq(S) /\ Len(b) = Len(s) - i
  OBVIOUS
<1>3. RemoveAt(s, i) = a \o b
  BY DEF RemoveAt
<1> HIDE DEF a, b
<1>4. a \o b \in Seq(S) /\ Len(a \o b) = Len(a) + Len(b)
  BY <1>1, <1>2, SMTT(60)
<1> QED BY <1>1, <1>2, <1>3, <1>4

(* What the next candidate tries, while there is one. *)
LEMMA ShortenedIsAPath ==
  ASSUME SearchTyped, best # NULL => cursor < Len(best)
  PROVE  /\ Shortened \in Seq(Steps)
         /\ best # NULL => Shortened = RemoveAt(best, cursor + 1) /\ Len(Shortened) = Len(best) - 1
<1>1. CASE best = NULL
  BY <1>1, ReproductionAssumption DEF Shortened, Steps
<1>2. CASE best # NULL
  <2>1. best \in Seq(Steps) /\ cursor + 1 \in 1..Len(best)
    BY <1>2 DEF SearchTyped
  <2> QED BY <1>2, <2>1, OneStepLess DEF Shortened
<1> QED BY <1>1, <1>2

(* The state of a pump after its steps. *)
LEMMA PumpMoves ==
  ASSUME PumpsTyped, NEW w \in Pumps, NEW s \in PumpStates,
         s.at \in CarriedBy => s.candidate \in Candidates,
         s.at = "completing" => s.result \in Results, pump' = [pump EXCEPT ![w] = s]
  PROVE  PumpsTyped'
BY DEF PumpsTyped

LEMMA PumpGoes ==
  ASSUME PumpsTyped, NEW w \in Pumps, NEW position \in Positions, position # "completing"
  PROVE  /\ position \notin CarriedBy /\ Goto(w, position) => PumpsTyped'
         /\ \A c \in Candidates : Carry(w, position, c) => PumpsTyped'
<1>0. 0 \in 0..CandidateLimit /\ Candidates \subseteq 0..CandidateLimit
  BY ReproductionAssumption DEF Candidates
<1>1. /\ [Idle EXCEPT !.at = position] \in PumpStates
      /\ [Idle EXCEPT !.at = position].at = position
  BY <1>0 DEF Idle, PumpStates
<1>2. \A c \in Candidates : /\ [Idle EXCEPT !.at = position, !.candidate = c] \in PumpStates
                            /\ [Idle EXCEPT !.at = position, !.candidate = c].candidate = c
                            /\ [Idle EXCEPT !.at = position, !.candidate = c].at = position
  BY <1>0 DEF Idle, PumpStates
<1>3. position \notin CarriedBy /\ Goto(w, position) => PumpsTyped'
  BY <1>1, PumpMoves DEF Goto
<1>4. ASSUME NEW c \in Candidates, Carry(w, position, c) PROVE PumpsTyped'
  BY <1>2, <1>4, PumpMoves DEF Carry
<1> QED BY <1>3, <1>4

(* The search starts, waits, ends or is charged. *)
LEMMA SearchEndsTyped ==
  ASSUME SearchTyped, NEW status \in {"queued", "found", "not_reproduced", "limit_reached",
         "cancelled", "uncertain_environment", "unknown_cleanup"}, EndSearch(status),
         candidate' = candidate \/ \E c \in Candidates, o \in Outcomes \cup {"not_started"} :
                                     candidate' = [candidate EXCEPT ![c] = o],
         sessionHash' = sessionHash \/ \E c \in Candidates, s \in Sessions :
                                     sessionHash' = [sessionHash EXCEPT ![c] = s],
         best' = best \/ best' \in Seq(Steps), cursor' \in Nat,
         UNCHANGED <<cancelRequested, count, timeUp, steps>>
  PROVE  SearchTyped'
<1>1. candidate' \in [Candidates -> {"none", "running", "not_started"} \cup Outcomes]
  BY DEF SearchTyped
<1>2. sessionHash' \in [Candidates -> Sessions]
  BY DEF SearchTyped
<1>3. /\ best' = NULL \/ best' \in Seq(Steps)
      /\ steps' \in [Candidates -> Seq(Steps)]
  BY DEF SearchTyped
<1>4. /\ cancelRequested' \in BOOLEAN /\ deadlinePassed' \in BOOLEAN /\ timeUp' \in BOOLEAN
  BY DEF SearchTyped, EndSearch
<1>5. count' \in 0..CandidateLimit /\ active' \in 0..CandidateLimit
  BY ReproductionAssumption DEF SearchTyped, EndSearch
<1> QED BY <1>1, <1>2, <1>3, <1>4, <1>5 DEF SearchTyped, EndSearch

LEMMA DispatchTyped ==
  ASSUME SearchTyped, DispatchNext
  PROVE  SearchTyped'
<1> USE DEF DispatchNext, candidateVars, searchVars
<1>1. CASE search # "queued"
  BY <1>1 DEF SearchTyped
<1>2. CASE search = "queued" /\ search' # "running"
  <2>1. /\ EndSearch(search') /\ search' \in {"cancelled", "found", "limit_reached"}
        /\ UNCHANGED <<cancelRequested, best, cursor, count, timeUp, candidateVars>>
    BY <1>2 DEF EndSearch
  <2> QED BY <2>1, SearchEndsTyped DEF SearchTyped
<1>3. CASE search = "queued" /\ search' = "running"
  <2>1. /\ best # NULL => cursor < Len(best)
        /\ count + 1 <= CandidateLimit
    BY <1>3, ReproductionAssumption DEF EndSearch, SearchTyped, Exhausted
  <2>2. Shortened \in Seq(Steps)
    BY <2>1, ShortenedIsAPath
  <2>3. /\ active' = count + 1 /\ count' = count + 1 /\ deadlinePassed' = FALSE
        /\ candidate' = [candidate EXCEPT ![count + 1] = "running"]
        /\ steps' = [steps EXCEPT ![count + 1] = Shortened]
        /\ UNCHANGED <<cancelRequested, best, cursor, timeUp, sessionHash>>
    BY <1>3 DEF EndSearch
  <2>4. count + 1 \in 1..CandidateLimit
    BY <2>1, ReproductionAssumption DEF SearchTyped
  <2>5. candidate' \in [Candidates -> {"none", "running", "not_started"} \cup Outcomes]
    BY <2>3 DEF SearchTyped
  <2>6. steps' \in [Candidates -> Seq(Steps)]
    BY <2>2, <2>3 DEF SearchTyped
  <2>7. /\ best' = NULL \/ best' \in Seq(Steps)
        /\ cursor' \in Nat /\ sessionHash' \in [Candidates -> Sessions]
        /\ cancelRequested' \in BOOLEAN /\ deadlinePassed' \in BOOLEAN /\ timeUp' \in BOOLEAN
    BY <2>3 DEF SearchTyped
  <2>8. count' \in 0..CandidateLimit /\ active' \in 0..CandidateLimit
    BY <2>3, <2>4, ReproductionAssumption
  <2> QED BY <1>3, <2>3, <2>4, <2>5, <2>6, <2>7, <2>8 DEF SearchTyped, Candidates
<1> QED BY <1>1, <1>2, <1>3

LEMMA StopTyped ==
  ASSUME SearchTyped, NEW c \in Candidates, StopUnallocated(c)
  PROVE  SearchTyped'
<1>1. CASE search = "running" /\ active = c
  BY <1>1, SearchEndsTyped DEF StopUnallocated, SearchTyped
<1>2. CASE ~(search = "running" /\ active = c)
  BY <1>2 DEF StopUnallocated, SearchTyped, searchVars, candidateVars
<1> QED BY <1>1, <1>2

LEMMA CompleteTyped ==
  ASSUME SearchTyped, NEW c \in Candidates, NEW r \in Results, NEW cancelled \in BOOLEAN,
         Complete(c, r, cancelled)
  PROVE  SearchTyped'
<1>1. CASE ~Awaited(c)
  BY <1>1 DEF Complete, SearchTyped, searchVars, candidateVars
<1>2. CASE Awaited(c)
  <2>1. r.outcome \in Outcomes /\ r.session \in Sessions
    BY DEF Results
  <2>2. Verdict(c, r, cancelled) \in {"queued", "not_reproduced", "cancelled",
          "uncertain_environment", "unknown_cleanup"}
    BY DEF Verdict
  <2>3. best' = best \/ best' \in Seq(Steps)
    BY <1>2 DEF Complete, Advance, SearchTyped
  <2>4. cursor' \in Nat
    BY <1>2 DEF Complete, Advance, SearchTyped
  <2>5. (IF Untrusted(c, r) THEN "unknown" ELSE r.outcome) \in Outcomes
    BY <2>1 DEF Outcomes
  <2>6. \E o \in Outcomes \cup {"not_started"} : candidate' = [candidate EXCEPT ![c] = o]
    BY <1>2, <2>5 DEF Complete
  <2>7. \E s \in Sessions : sessionHash' = [sessionHash EXCEPT ![c] = s]
    BY <1>2, <2>1 DEF Complete
  <2>8. /\ EndSearch(Verdict(c, r, cancelled))
        /\ UNCHANGED <<cancelRequested, count, timeUp, steps>>
    BY <1>2 DEF Complete
  <2> QED BY <2>2, <2>3, <2>4, <2>6, <2>7, <2>8, SearchEndsTyped
<1> QED BY <1>1, <1>2

LEMMA RecoverTyped ==
  ASSUME SearchTyped, RecoverExpired,
         UNCHANGED <<cancelRequested, best, cursor, active, count, stepsCharged, deadlinePassed,
                     timeUp, steps, sessionHash>>
  PROVE  SearchTyped' /\ (search' = "running" => search = "running")
<1>1. CASE Expired
  <2>1. /\ search' = "unknown_cleanup" /\ candidate' = [candidate EXCEPT ![active] = "unknown"]
    BY <1>1 DEF RecoverExpired
  <2>2. candidate' \in [Candidates -> {"none", "running", "not_started"} \cup Outcomes]
    BY <2>1 DEF SearchTyped, Outcomes
  <2> QED BY <2>1, <2>2 DEF SearchTyped
<1>2. CASE ~Expired
  BY <1>2 DEF RecoverExpired, SearchTyped
<1> QED BY <1>1, <1>2

(* What is reported of a candidate is a result. *)
LEMMA ReportedTyped ==
  ASSUME ChildrenTyped, NEW c \in Candidates
  PROVE  Reported(c) \in Results \cup {NULL}
<1>1. /\ "unknown" \in Outcomes /\ NULL \in Sessions
      /\ (IF launch[c] = "none" THEN "confirmed" ELSE "unknown") \in {"confirmed", "unknown"}
  BY DEF Outcomes, Sessions
<1>2. Unknown(c) \in Results
  BY <1>1 DEF Unknown, Results
<1>3. result[c] \in Results \cup {NULL}
  BY DEF ChildrenTyped
<1> QED BY <1>2, <1>3 DEF Reported

(* The end of a child's task: its row, its launch and its result. *)
LEMMA FinishTyped ==
  ASSUME ChildrenTyped, NEW c \in Candidates, FinishChild(c)
  PROVE  /\ saw' \in [Candidates -> Outcomes \cup {NULL}]
         /\ job' \in [Candidates -> {"none", "queued", "leased", "completed", "cancelled"}]
         /\ launch' \in [Candidates -> {"none", "open", "settled", "recovering", "quarantined"}]
         /\ result' = result \/ \E r \in Results :
                result' = [result EXCEPT ![c] = r] /\ r.outcome = saw'[c] /\ r.session = session[c]
         /\ result' # result => task[c] = "replaying" /\ HoldsChild(c)
         /\ \A d \in Candidates \ {c} : saw'[d] = saw[d]
         /\ result' \in [Candidates -> Results \cup {NULL}]
<1>1. /\ saw' \in [Candidates -> Outcomes \cup {NULL}]
      /\ task[c] = "replaying" => saw'[c] \in Outcomes
      /\ \A d \in Candidates \ {c} : saw'[d] = saw[d]
  BY DEF FinishChild, ChildrenTyped
<1>2. /\ job' \in [Candidates -> {"none", "queued", "leased", "completed", "cancelled"}]
      /\ launch' \in [Candidates -> {"none", "open", "settled", "recovering", "quarantined"}]
  BY DEF FinishChild, EndJob, ChildrenTyped
<1>3. CASE result' = result
  BY <1>1, <1>2, <1>3 DEF ChildrenTyped
<1>4. CASE result' # result
  <2>1. task[c] = "replaying" /\ HoldsChild(c)
    BY <1>4 DEF FinishChild
  <2>2. PICK confirmed \in BOOLEAN, clean \in BOOLEAN :
          result' = [result EXCEPT ![c] = [outcome |-> saw'[c], session |-> session[c],
                      cleanup |-> IF confirmed /\ clean THEN "confirmed" ELSE "unknown"]]
    BY <1>4, <2>1 DEF FinishChild
  <2> DEFINE r == [outcome |-> saw'[c], session |-> session[c],
                   cleanup |-> IF confirmed /\ clean THEN "confirmed" ELSE "unknown"]
  <2>3. session[c] \in Sessions
    BY DEF ChildrenTyped
  <2>4. r \in Results /\ r.outcome = saw'[c] /\ r.session = session[c]
    BY <1>1, <2>1, <2>3 DEF Results
  <2>5. result' = [result EXCEPT ![c] = r]
    BY <2>2
  <2> HIDE DEF r
  <2>6. result' \in [Candidates -> Results \cup {NULL}]
    BY <2>4, <2>5 DEF ChildrenTyped
  <2> QED BY <1>1, <1>2, <2>1, <2>4, <2>5, <2>6
<1> QED BY <1>3, <1>4

(* Every action keeps the types. *)
LEMMA TypesStep ==
  ReproductionTypes /\ [Next]_reproductionVars => ReproductionTypes'
<1> SUFFICES ASSUME ReproductionTypes, [Next]_reproductionVars PROVE ReproductionTypes'
  OBVIOUS
<1> USE DEF ReproductionTypes, searchVars, candidateVars, childVars
<1>1. CASE Prepare
  <2>1. SearchTyped'
    BY <1>1 DEF Prepare, SearchTyped
  <2>2. ChildrenTyped'
    BY <1>1 DEF Prepare, ChildrenTyped
  <2>3. PumpsTyped'
    BY <1>1 DEF Prepare, PumpsTyped
  <2> QED BY <2>1, <2>2, <2>3
<1>2. CASE CancelSearch
  <2>1. SearchTyped'
    BY <1>2 DEF CancelSearch, SearchTyped
  <2>2. ChildrenTyped'
    BY <1>2 DEF CancelSearch, ChildrenTyped
  <2>3. PumpsTyped'
    BY <1>2 DEF CancelSearch, PumpsTyped
  <2> QED BY <2>1, <2>2, <2>3
<1>3. CASE DeadlinePasses
  <2>1. SearchTyped'
    BY <1>3 DEF DeadlinePasses, SearchTyped
  <2>2. ChildrenTyped'
    BY <1>3 DEF DeadlinePasses, ChildrenTyped
  <2>3. PumpsTyped'
    BY <1>3 DEF DeadlinePasses, PumpsTyped
  <2> QED BY <2>1, <2>2, <2>3
<1>4. CASE TimeRunsOut
  <2>1. SearchTyped'
    BY <1>4 DEF TimeRunsOut, SearchTyped
  <2>2. ChildrenTyped'
    BY <1>4 DEF TimeRunsOut, ChildrenTyped
  <2>3. PumpsTyped'
    BY <1>4 DEF TimeRunsOut, PumpsTyped
  <2> QED BY <2>1, <2>2, <2>3
<1>5. ASSUME NEW w \in Pumps, PumpReads(w) PROVE ReproductionTypes'
  <2>1. SearchTyped'
    BY <1>5, RecoverTyped DEF PumpReads
  <2>2. ChildrenTyped'
    BY <1>5 DEF PumpReads, ChildrenTyped
  <2>3. PumpsTyped'
    <3>1. CASE Goto(w, "dispatching")
      BY <3>1, PumpGoes DEF Positions, CarriedBy
    <3>2. CASE ~Goto(w, "dispatching")
      <4> DEFINE s == [at |-> "completing", candidate |-> active, result |-> Reported(active),
                       cancelled |-> job[active] = "cancelled"]
      <4>1. /\ search = "running" /\ Reported(active) # NULL
            /\ pump' = [pump EXCEPT ![w] = s]
        BY <1>5, <3>2, RecoverTyped DEF PumpReads
      <4>2. active \in Candidates /\ active \in 0..CandidateLimit
        BY <4>1 DEF SearchTyped
      <4>3. Reported(active) \in Results
        BY <4>1, <4>2, ReportedTyped
      <4>4. s \in PumpStates /\ s.candidate = active /\ s.result = Reported(active)
        BY <4>2, <4>3 DEF PumpStates, Positions
      <4> HIDE DEF s
      <4> QED BY <4>1, <4>2, <4>3, <4>4, PumpMoves
    <3> QED BY <3>1, <3>2
  <2> QED BY <2>1, <2>2, <2>3
<1>6. ASSUME NEW w \in Pumps, PumpCompletes(w) PROVE ReproductionTypes'
  <2>1. SearchTyped'
    BY <1>6, CompleteTyped DEF PumpCompletes, PumpsTyped, PumpStates, At, CarriedBy
  <2>2. ChildrenTyped'
    BY <1>6 DEF PumpCompletes, ChildrenTyped
  <2>3. PumpsTyped'
    BY <1>6, PumpGoes DEF PumpCompletes, Positions, CarriedBy, At, PumpsTyped
  <2> QED BY <2>1, <2>2, <2>3
<1>7. ASSUME NEW w \in Pumps, PumpDispatches(w) PROVE ReproductionTypes'
  <2>1. SearchTyped'
    BY <1>7, DispatchTyped, RecoverTyped DEF PumpDispatches
  <2>2. ChildrenTyped'
    BY <1>7 DEF PumpDispatches, ChildrenTyped
  <2>3. PumpsTyped'
    <3>1. CASE Goto(w, "idle")
      BY <3>1, PumpGoes DEF Positions, CarriedBy
    <3>2. CASE ~Goto(w, "idle")
      <4>1. search' = "running" /\ Carry(w, "inserting", active')
        BY <1>7, <3>2 DEF PumpDispatches
      <4> QED BY <2>1, <4>1, PumpGoes DEF SearchTyped, Positions
    <3> QED BY <3>1, <3>2
  <2> QED BY <2>1, <2>2, <2>3
<1>8. ASSUME NEW w \in Pumps, PumpInserts(w) PROVE ReproductionTypes'
  <2>1. SearchTyped'
    BY <1>8 DEF PumpInserts, SearchTyped
  <2>2. ChildrenTyped'
    BY <1>8 DEF PumpInserts, ChildrenTyped, PumpsTyped, At, CarriedBy
  <2>3. PumpsTyped'
    BY <1>8, PumpGoes DEF PumpInserts, Positions, CarriedBy, At, PumpsTyped
  <2> QED BY <2>1, <2>2, <2>3
<1>9. ASSUME NEW w \in Pumps, PumpStops(w) PROVE ReproductionTypes'
  <2>1. SearchTyped'
    BY <1>9, StopTyped, ZenonT(60) DEF PumpStops, PumpsTyped, At, CarriedBy, SearchTyped
  <2>2. ChildrenTyped'
    BY <1>9 DEF PumpStops, ChildrenTyped
  <2>3. PumpsTyped'
    BY <1>9, PumpGoes DEF PumpStops, Positions, CarriedBy, At, PumpsTyped
  <2> QED BY <2>1, <2>2, <2>3
<1>10. ASSUME NEW w \in Pumps, PumpFails(w) PROVE ReproductionTypes'
  <2>1. SearchTyped'
    BY <1>10 DEF PumpFails, SearchTyped
  <2>2. ChildrenTyped'
    BY <1>10 DEF PumpFails, ChildrenTyped
  <2>3. PumpsTyped'
    BY <1>10, PumpGoes DEF PumpFails, Positions, CarriedBy, At, PumpsTyped
  <2> QED BY <2>1, <2>2, <2>3
<1>11. ASSUME NEW c \in Candidates, ClaimChild(c) PROVE ReproductionTypes'
  <2>1. SearchTyped'
    BY <1>11, StopTyped DEF ClaimChild, SearchTyped
  <2>2. ChildrenTyped'
    BY <1>11 DEF ClaimChild, ChildrenTyped
  <2>3. PumpsTyped'
    BY <1>11 DEF ClaimChild, PumpsTyped
  <2> QED BY <2>1, <2>2, <2>3
<1>12. ASSUME NEW c \in Candidates, StartReplay(c) PROVE ReproductionTypes'
  <2>1. SearchTyped'
    BY <1>12 DEF StartReplay, SearchTyped
  <2>2. ChildrenTyped'
    <3>1. PICK s \in SessionsOf(c) : session' = [session EXCEPT ![c] = s]
      BY <1>12 DEF StartReplay
    <3>2. s \in Sessions
      BY <3>1 DEF Sessions
    <3> QED BY <1>12, <3>1, <3>2 DEF StartReplay, ChildrenTyped
  <2>3. PumpsTyped'
    BY <1>12 DEF StartReplay, PumpsTyped
  <2> QED BY <2>1, <2>2, <2>3
<1>13. ASSUME NEW c \in Candidates, FinishChild(c) PROVE ReproductionTypes'
  <2>1. SearchTyped'
    BY <1>13 DEF FinishChild, SearchTyped
  <2>2. ChildrenTyped'
    BY <1>13, FinishTyped DEF FinishChild, ChildrenTyped
  <2>3. PumpsTyped'
    BY <1>13 DEF FinishChild, PumpsTyped
  <2> QED BY <2>1, <2>2, <2>3
<1>14. ASSUME NEW c \in Candidates, HeartbeatChild(c) PROVE ReproductionTypes'
  <2>1. SearchTyped'
    BY <1>14 DEF HeartbeatChild, SearchTyped
  <2>2. ChildrenTyped'
    BY <1>14 DEF HeartbeatChild, ChildrenTyped
  <2>3. PumpsTyped'
    BY <1>14 DEF HeartbeatChild, PumpsTyped
  <2> QED BY <2>1, <2>2, <2>3
<1>15. ASSUME NEW c \in Candidates, CancelChild(c) PROVE ReproductionTypes'
  <2>1. SearchTyped'
    BY <1>15 DEF CancelChild, SearchTyped
  <2>2. ChildrenTyped'
    BY <1>15 DEF CancelChild, ChildrenTyped
  <2>3. PumpsTyped'
    BY <1>15 DEF CancelChild, PumpsTyped
  <2> QED BY <2>1, <2>2, <2>3
<1>16. ASSUME NEW c \in Candidates, ReclaimChild(c) PROVE ReproductionTypes'
  <2>1. SearchTyped'
    BY <1>16 DEF ReclaimChild, SearchTyped
  <2>2. ChildrenTyped'
    BY <1>16 DEF ReclaimChild, ChildrenTyped
  <2>3. PumpsTyped'
    BY <1>16 DEF ReclaimChild, PumpsTyped
  <2> QED BY <2>1, <2>2, <2>3
<1>17. ASSUME NEW c \in Candidates, RecoverChild(c) PROVE ReproductionTypes'
  <2>1. SearchTyped'
    BY <1>17 DEF RecoverChild, SearchTyped
  <2>2. ChildrenTyped'
    BY <1>17 DEF RecoverChild, ChildrenTyped
  <2>3. PumpsTyped'
    BY <1>17 DEF RecoverChild, PumpsTyped
  <2> QED BY <2>1, <2>2, <2>3
<1>18. CASE UNCHANGED reproductionVars
  BY <1>18 DEF reproductionVars, SearchTyped, ChildrenTyped, PumpsTyped
<1> QED BY <1>1, <1>2, <1>3, <1>4, <1>5, <1>6, <1>7, <1>8, <1>9, <1>10, <1>11, <1>12, <1>13, <1>14, <1>15, <1>16, <1>17, <1>18 DEF Next, PumpStep, ChildStep

(* What the children did, and what the pumps carry of it. *)
LEMMA ChildStepKeeps ==
  ReproductionTypes /\ ChildInvariant /\ [Next]_reproductionVars => ChildInvariant'
<1> SUFFICES ASSUME ReproductionTypes, ChildInvariant, [Next]_reproductionVars PROVE ChildInvariant'
  OBVIOUS
<1> USE DEF ReproductionTypes, ChildInvariant, childVars
<1>1. CASE Prepare
  BY <1>1 DEF Prepare, ChildFollowsJob, ResultIsWhatWasSeen, PumpsCarryResults
<1>2. CASE CancelSearch
  BY <1>2 DEF CancelSearch, ChildFollowsJob, ResultIsWhatWasSeen, PumpsCarryResults
<1>3. CASE DeadlinePasses
  BY <1>3 DEF DeadlinePasses, ChildFollowsJob, ResultIsWhatWasSeen, PumpsCarryResults
<1>4. CASE TimeRunsOut
  BY <1>4 DEF TimeRunsOut, ChildFollowsJob, ResultIsWhatWasSeen, PumpsCarryResults
<1>5. ASSUME NEW w \in Pumps, PumpReads(w) PROVE ChildInvariant'
  <2>1. ChildFollowsJob' /\ ResultIsWhatWasSeen'
    BY <1>5 DEF PumpReads, ChildFollowsJob, ResultIsWhatWasSeen
  <2>2. PumpsCarryResults'
    BY <1>5 DEF PumpReads, PumpsCarryResults, PumpsTyped, Reported, Unknown, Goto, Idle
  <2> QED BY <2>1, <2>2
<1>6. ASSUME NEW w \in Pumps, PumpCompletes(w) PROVE ChildInvariant'
  <2>1. ChildFollowsJob' /\ ResultIsWhatWasSeen'
    BY <1>6 DEF PumpCompletes, ChildFollowsJob, ResultIsWhatWasSeen
  <2>2. PumpsCarryResults'
    BY <1>6 DEF PumpCompletes, PumpsCarryResults, PumpsTyped, Goto, Carry, Idle
  <2> QED BY <2>1, <2>2
<1>7. ASSUME NEW w \in Pumps, PumpDispatches(w) PROVE ChildInvariant'
  <2>1. ChildFollowsJob' /\ ResultIsWhatWasSeen'
    BY <1>7 DEF PumpDispatches, ChildFollowsJob, ResultIsWhatWasSeen
  <2>2. PumpsCarryResults'
    BY <1>7 DEF PumpDispatches, PumpsCarryResults, PumpsTyped, Goto, Carry, Idle
  <2> QED BY <2>1, <2>2
<1>8. ASSUME NEW w \in Pumps, PumpInserts(w) PROVE ChildInvariant'
  <2>1. ChildFollowsJob' /\ ResultIsWhatWasSeen'
    BY <1>8 DEF PumpInserts, ChildFollowsJob, ResultIsWhatWasSeen, ChildrenTyped, PumpsTyped, At, CarriedBy, Mapped
  <2>2. PumpsCarryResults'
    BY <1>8, ZenonT(60) DEF PumpInserts, PumpsCarryResults, PumpsTyped, Goto, Carry, Idle
  <2> QED BY <2>1, <2>2
<1>9. ASSUME NEW w \in Pumps, PumpStops(w) PROVE ChildInvariant'
  <2>1. ChildFollowsJob' /\ ResultIsWhatWasSeen'
    BY <1>9 DEF PumpStops, ChildFollowsJob, ResultIsWhatWasSeen
  <2>2. PumpsCarryResults'
    BY <1>9 DEF PumpStops, PumpsCarryResults, PumpsTyped, Goto, Carry, Idle
  <2> QED BY <2>1, <2>2
<1>10. ASSUME NEW w \in Pumps, PumpFails(w) PROVE ChildInvariant'
  <2>1. ChildFollowsJob' /\ ResultIsWhatWasSeen'
    BY <1>10 DEF PumpFails, ChildFollowsJob, ResultIsWhatWasSeen
  <2>2. PumpsCarryResults'
    BY <1>10 DEF PumpFails, PumpsCarryResults, PumpsTyped, Goto, Carry, Idle
  <2> QED BY <2>1, <2>2
<1>11. ASSUME NEW c \in Candidates, ClaimChild(c) PROVE ChildInvariant'
  <2>1. ChildFollowsJob'
    BY <1>11 DEF ClaimChild, ChildFollowsJob, ChildrenTyped
  <2>2. ResultIsWhatWasSeen'
    BY <1>11 DEF ClaimChild, ResultIsWhatWasSeen, ChildrenTyped, ChildFollowsJob
  <2>3. PumpsCarryResults'
    BY <1>11 DEF ClaimChild, ChildFollowsJob, PumpsCarryResults, ChildrenTyped, PumpsTyped, CarriedBy
  <2> QED BY <2>1, <2>2, <2>3
<1>12. ASSUME NEW c \in Candidates, StartReplay(c) PROVE ChildInvariant'
  <2>1. ChildFollowsJob'
    BY <1>12 DEF StartReplay, ChildFollowsJob, ChildrenTyped, HoldsChild
  <2>2. ResultIsWhatWasSeen'
    BY <1>12 DEF StartReplay, ResultIsWhatWasSeen, ChildrenTyped, HoldsChild, ChildFollowsJob
  <2>3. PumpsCarryResults'
    BY <1>12 DEF StartReplay, PumpsCarryResults, ChildrenTyped, HoldsChild, PumpsTyped, CarriedBy
  <2> QED BY <2>1, <2>2, <2>3
<1>13. ASSUME NEW c \in Candidates, FinishChild(c) PROVE ChildInvariant'
  <2>1. ChildFollowsJob'
    BY <1>13, FinishTyped DEF FinishChild, ChildFollowsJob, ChildrenTyped, EndJob, HoldsChild
  <2>2. ResultIsWhatWasSeen'
    BY <1>13, FinishTyped DEF FinishChild, ResultIsWhatWasSeen, ChildrenTyped, EndJob, HoldsChild, ChildFollowsJob
  <2>3. PumpsCarryResults'
    BY <1>13, FinishTyped DEF FinishChild, PumpsCarryResults, ChildrenTyped, EndJob, HoldsChild, PumpsTyped, CarriedBy
  <2> QED BY <2>1, <2>2, <2>3
<1>14. ASSUME NEW c \in Candidates, HeartbeatChild(c) PROVE ChildInvariant'
  <2>1. ChildFollowsJob'
    BY <1>14 DEF HeartbeatChild, ChildFollowsJob, ChildrenTyped, HoldsChild
  <2>2. ResultIsWhatWasSeen'
    BY <1>14 DEF HeartbeatChild, ResultIsWhatWasSeen, ChildrenTyped, HoldsChild, ChildFollowsJob
  <2>3. PumpsCarryResults'
    BY <1>14 DEF HeartbeatChild, PumpsCarryResults, ChildrenTyped, HoldsChild, PumpsTyped, CarriedBy
  <2> QED BY <2>1, <2>2, <2>3
<1>15. ASSUME NEW c \in Candidates, CancelChild(c) PROVE ChildInvariant'
  <2>1. ChildFollowsJob'
    BY <1>15 DEF CancelChild, ChildFollowsJob, ChildrenTyped
  <2>2. ResultIsWhatWasSeen'
    BY <1>15 DEF CancelChild, ResultIsWhatWasSeen, ChildrenTyped, ChildFollowsJob
  <2>3. PumpsCarryResults'
    BY <1>15 DEF CancelChild, PumpsCarryResults, ChildrenTyped, PumpsTyped, CarriedBy
  <2> QED BY <2>1, <2>2, <2>3
<1>16. ASSUME NEW c \in Candidates, ReclaimChild(c) PROVE ChildInvariant'
  <2>1. ChildFollowsJob'
    BY <1>16 DEF ReclaimChild, ChildFollowsJob, ChildrenTyped
  <2>2. ResultIsWhatWasSeen'
    BY <1>16 DEF ReclaimChild, ResultIsWhatWasSeen, ChildrenTyped, ChildFollowsJob
  <2>3. PumpsCarryResults'
    BY <1>16 DEF ReclaimChild, PumpsCarryResults, ChildrenTyped, PumpsTyped, CarriedBy
  <2> QED BY <2>1, <2>2, <2>3
<1>17. ASSUME NEW c \in Candidates, RecoverChild(c) PROVE ChildInvariant'
  <2>1. ChildFollowsJob'
    BY <1>17 DEF RecoverChild, ChildFollowsJob, ChildrenTyped
  <2>2. ResultIsWhatWasSeen'
    BY <1>17 DEF RecoverChild, ResultIsWhatWasSeen, ChildrenTyped, ChildFollowsJob
  <2>3. PumpsCarryResults'
    BY <1>17 DEF RecoverChild, PumpsCarryResults, ChildrenTyped, PumpsTyped, CarriedBy
  <2> QED BY <2>1, <2>2, <2>3
<1>18. CASE UNCHANGED reproductionVars
  BY <1>18 DEF reproductionVars, ChildFollowsJob, ResultIsWhatWasSeen, PumpsCarryResults
<1> QED BY <1>1, <1>2, <1>3, <1>4, <1>5, <1>6, <1>7, <1>8, <1>9, <1>10, <1>11, <1>12, <1>13, <1>14, <1>15, <1>16, <1>17, <1>18 DEF Next, PumpStep, ChildStep

(* What a finished task did stays as it is. *)
DoneStays ==
  \A d \in Candidates : task[d] = "done" =>
    task'[d] = "done" /\ session'[d] = session[d] /\ saw'[d] = saw[d]

LEMMA FinishedTasksStay ==
  ASSUME ReproductionTypes, ChildFollowsJob, [Next]_reproductionVars
  PROVE  DoneStays
<1> USE DEF ReproductionTypes, ChildrenTyped, ChildFollowsJob, DoneStays, childVars
<1>1. CASE Prepare \/ CancelSearch \/ DeadlinePasses \/ TimeRunsOut
  BY <1>1 DEF Prepare, CancelSearch, DeadlinePasses, TimeRunsOut
<1>2. ASSUME NEW w \in Pumps, PumpStep(w) \/ PumpFails(w) PROVE DoneStays
  BY <1>2 DEF PumpStep, PumpReads, PumpCompletes, PumpDispatches, PumpInserts, PumpStops, PumpFails
<1>3. ASSUME NEW c \in Candidates, ChildStep(c) PROVE DoneStays
  <2>1. CASE ClaimChild(c) BY <2>1 DEF ClaimChild
  <2>2. CASE StartReplay(c) BY <2>2 DEF StartReplay
  <2>3. CASE FinishChild(c) BY <2>3, FinishTyped DEF FinishChild
  <2>4. CASE HeartbeatChild(c) \/ CancelChild(c) \/ ReclaimChild(c) \/ RecoverChild(c)
    BY <2>4 DEF HeartbeatChild, CancelChild, ReclaimChild, RecoverChild
  <2> QED BY <1>3, <2>1, <2>2, <2>3, <2>4 DEF ChildStep
<1>4. CASE UNCHANGED reproductionVars
  BY <1>4 DEF reproductionVars
<1> QED BY <1>1, <1>2, <1>3, <1>4 DEF Next

LEMMA CountedAreCandidates ==
  ASSUME SearchTyped PROVE \A d \in 1..count : d \in Candidates
BY ReproductionAssumption DEF SearchTyped, Candidates

(* The search does not move. *)
LEMMA SearchKept ==
  ASSUME SearchTyped, SearchInvariant, DoneStays,
         UNCHANGED <<best, cursor, active, count, steps, sessionHash>>,
         search' = search \/ (search' \in {"unsupported", "cancelled", "unknown_cleanup"})
           \/ (search = "absent" /\ search' = "queued" /\ active = 0 /\ count = 0)
  PROVE  SearchInvariant'
<1> USE CountedAreCandidates DEF SearchInvariant
<1>1. LastIsTried' /\ FoundIsScanned'
  BY DEF LastIsTried, FoundIsScanned, Shortened
<1>2. PastIsKnown'
  BY DEF PastIsKnown, DoneStays
<1>3. ScannedInVain'
  BY DEF ScannedInVain, DoneStays
<1> QED BY <1>1, <1>2, <1>3

(* The search is left, for good or for ill. *)
LEMMA SearchLeft ==
  ASSUME SearchTyped, SearchInvariant, DoneStays, NEW status, EndSearch(status),
         status \notin {"absent", "queued", "running"},
         status = "found" => best # NULL /\ (cursor >= Len(best) \/ Len(best) = 1),
         UNCHANGED <<best, cursor, count, steps>>
  PROVE  SearchInvariant'
<1> USE CountedAreCandidates DEF SearchInvariant, EndSearch
<1>1. LastIsTried' /\ PastIsKnown' /\ FoundIsScanned'
  BY DEF LastIsTried, PastIsKnown, FoundIsScanned
<1>2. ScannedInVain'
  BY DEF ScannedInVain, DoneStays
<1> QED BY <1>1, <1>2

LEMMA StopKeepsSearch ==
  ASSUME SearchTyped, SearchInvariant, DoneStays, NEW c \in Candidates, StopUnallocated(c)
  PROVE  SearchInvariant'
<1>1. CASE search = "running" /\ active = c
  BY <1>1, SearchLeft DEF StopUnallocated
<1>2. CASE ~(search = "running" /\ active = c)
  BY <1>2, SearchKept DEF StopUnallocated, searchVars, candidateVars
<1> QED BY <1>1, <1>2

LEMMA DispatchKeepsSearch ==
  ASSUME SearchTyped, SearchInvariant, DoneStays, DispatchNext
  PROVE  SearchInvariant'
<1>1. CASE search # "queued"
  BY <1>1, SearchKept DEF DispatchNext, searchVars, candidateVars
<1>2. CASE search = "queued" /\ search' # "running"
  <2>1. /\ EndSearch(search') /\ search' \notin {"absent", "queued", "running"}
        /\ UNCHANGED <<best, cursor, count, steps>>
        /\ search' = "found" => best # NULL /\ (cursor >= Len(best) \/ Len(best) = 1)
    BY <1>2 DEF DispatchNext, EndSearch, candidateVars
  <2> QED BY <2>1, SearchLeft
<1>3. CASE search = "queued" /\ search' = "running"
  <2>1. /\ active' = count + 1 /\ count' = count + 1
        /\ steps' = [steps EXCEPT ![count + 1] = Shortened]
        /\ UNCHANGED <<best, cursor, sessionHash>>
        /\ best # NULL => ~(cursor >= Len(best) \/ Len(best) = 1)
        /\ count + 1 <= CandidateLimit
    BY <1>3, ReproductionAssumption DEF DispatchNext, EndSearch, Exhausted, SearchTyped
  <2>2. count + 1 \in Candidates /\ count \in Nat
    BY <2>1, ReproductionAssumption DEF SearchTyped, Candidates
  <2>3. \A d \in 1..count : d \in Candidates /\ d # count + 1 /\ d \in 1..count'
    BY <2>1, <2>2, CountedAreCandidates
  <2>4. /\ steps'[count + 1] = Shortened /\ Shortened' = Shortened
        /\ \A d \in 1..count : steps'[d] = steps[d]
    BY <2>1, <2>2, <2>3 DEF SearchTyped, Shortened
  <2>5. LastIsTried'
    <3>1. ASSUME best # NULL PROVE cursor < Len(best) /\ Len(best) > 1
      <4>1. best \in Seq(Steps) /\ cursor \in Nat
        BY <3>1 DEF SearchTyped
      <4>2. Len(best) \in Nat
        BY <4>1
      <4>3. ~(cursor >= Len(best)) /\ Len(best) # 1 /\ cursor >= 0
        BY <2>1, <3>1, <4>1
      <4>4. \A m, n \in Nat : ~(m >= n) /\ n # 1 => m < n /\ n > 1
        OBVIOUS
      <4> QED BY <4>1, <4>2, <4>3, <4>4
    <3> QED BY <1>3, <2>1, <2>4, <3>1 DEF LastIsTried
  <2>6. PastIsKnown'
    <3>1. \A d \in 1..count' : d = count + 1 \/ d \in 1..count
      BY <2>1, <2>2
    <3>2. \A d \in 1..count : sessionHash[d] = session[d] /\ task[d] = "done"
      BY <1>3, <2>2 DEF SearchInvariant, PastIsKnown, LastIsTried
    <3> QED BY <2>1, <2>3, <3>1, <3>2 DEF PastIsKnown, DoneStays
  <2>7. ScannedInVain'
    BY <2>1, <2>3, <2>4 DEF SearchInvariant, ScannedInVain, DoneStays
  <2> QED BY <1>3, <2>5, <2>6, <2>7 DEF SearchInvariant, FoundIsScanned
<1> QED BY <1>1, <1>2, <1>3

(* A result that is awaited and trusted comes from the candidate's own     *)
(* settled browser, in a session of its own.                               *)
LEMMA TrustedResult ==
  ASSUME ReproductionTypes, ChildInvariant, SearchInvariant, NEW w \in Pumps, At(w, "completing"),
         NEW c, c = pump[w].candidate, NEW r, r = pump[w].result,
         Awaited(c), Verdict(c, r, pump[w].cancelled) = "queued"
  PROVE  /\ c \in Candidates /\ c = active /\ active = count /\ search = "running"
         /\ ~deadlinePassed /\ ~cancelRequested /\ launch[c] = "settled" /\ task[c] = "done"
         /\ saw[c] = r.outcome /\ session[c] = r.session
         /\ r.outcome \in {"reproduced", "not_reproduced"}
         /\ r.outcome = "not_reproduced" => best # NULL
         /\ \A d \in 1..count : d # c => session[d] # session[c]
<1>1. c \in Candidates /\ r \in Results
  BY DEF ReproductionTypes, PumpsTyped, At, CarriedBy
<1>2. ~Untrusted(c, r) /\ ~cancelRequested /\ (r.outcome # "reproduced" => best # NULL)
  BY DEF Verdict
<1>3. r = result[c] /\ result[c] # NULL /\ launch[c] = "settled"
  BY <1>2 DEF ChildInvariant, PumpsCarryResults, At, Untrusted
<1>4. saw[c] = r.outcome /\ session[c] = r.session /\ task[c] = "done"
  BY <1>1, <1>3 DEF ChildInvariant, ResultIsWhatWasSeen
<1>5. r.outcome \in {"reproduced", "not_reproduced"}
  BY <1>1, <1>2 DEF Untrusted, Results, Outcomes
<1>6. c = active /\ active = count /\ search = "running"
  BY DEF Awaited, SearchInvariant, LastIsTried
<1>7. \A d \in 1..count : d # c => session[d] # session[c]
  <2> SUFFICES ASSUME NEW d \in 1..count, d # c PROVE session[d] # session[c]
    OBVIOUS
  <2>1. sessionHash[d] = session[d] /\ d \in Candidates
    BY <1>6, CountedAreCandidates DEF SearchInvariant, PastIsKnown, ReproductionTypes
  <2> QED BY <1>2, <1>4, <2>1 DEF Untrusted
<1> QED BY <1>1, <1>2, <1>3, <1>4, <1>5, <1>6, <1>7 DEF Untrusted

LEMMA CompleteKeepsSearch ==
  ASSUME ReproductionTypes, ChildInvariant, SearchInvariant, DoneStays,
         NEW w \in Pumps, PumpCompletes(w)
  PROVE  SearchInvariant'
<1> DEFINE c == pump[w].candidate
           r == pump[w].result
<1>1. c \in Candidates /\ r \in Results /\ Complete(c, r, pump[w].cancelled) /\ At(w, "completing")
  BY DEF PumpCompletes, ReproductionTypes, PumpsTyped, At, CarriedBy
<1>2. CASE ~Awaited(c)
  BY <1>1, <1>2, SearchKept DEF Complete, searchVars, candidateVars, ReproductionTypes
<1>3. CASE Awaited(c) /\ Verdict(c, r, pump[w].cancelled) # "queued"
  <2>1. Verdict(c, r, pump[w].cancelled) \notin {"absent", "queued", "running", "found"}
    BY <1>3 DEF Verdict
  <2> QED BY <1>1, <1>3, <2>1, SearchLeft DEF Complete, ReproductionTypes
<1>4. CASE Awaited(c) /\ Verdict(c, r, pump[w].cancelled) = "queued"
  <2>1. /\ c \in Candidates /\ c = active /\ active = count /\ search = "running"
        /\ task[c] = "done" /\ saw[c] = r.outcome /\ session[c] = r.session
        /\ r.outcome \in {"reproduced", "not_reproduced"}
        /\ r.outcome = "not_reproduced" => best # NULL
    BY <1>1, <1>4, TrustedResult
  <2>2. /\ EndSearch("queued") /\ sessionHash' = [sessionHash EXCEPT ![c] = r.session]
        /\ UNCHANGED <<count, steps>> /\ Advance(c, r.outcome = "reproduced")
    BY <1>1, <1>4 DEF Complete
  <2> HIDE DEF c, r
  <2>3. \A d \in 1..count : d \in Candidates
    BY CountedAreCandidates DEF ReproductionTypes
  <2>4. PastIsKnown' /\ LastIsTried' /\ FoundIsScanned'
    <3>1. \A d \in 1..count : sessionHash'[d] = session'[d] /\ task'[d] = "done"
      BY <2>1, <2>2, <2>3 DEF SearchInvariant, PastIsKnown, DoneStays, ReproductionTypes, SearchTyped
    <3> QED BY <2>2, <3>1 DEF PastIsKnown, LastIsTried, FoundIsScanned, EndSearch
  <2>5. ScannedInVain'
    <3>1. CASE r.outcome = "reproduced"
      <4>1. cursor' = 0
        BY <2>2, <3>1 DEF Advance
      <4> QED BY <4>1 DEF ScannedInVain
    <3>2. CASE r.outcome # "reproduced"
      <4>1. cursor' = cursor + 1 /\ best' = best /\ best # NULL /\ saw[c] = "not_reproduced"
        BY <2>1, <2>2, <3>2 DEF Advance
      <4>2. steps[c] = RemoveAt(best, cursor + 1)
        BY <2>1, <4>1 DEF SearchInvariant, LastIsTried, Shortened
      <4>3. \A i \in 1..cursor' : i \in 1..cursor \/ i = cursor + 1
        BY <4>1 DEF ReproductionTypes, SearchTyped
      <4>4. c \in 1..count
        BY <2>1, ReproductionAssumption DEF Candidates
      <4>5. \A i \in 1..cursor : \E d \in 1..count :
              steps[d] = RemoveAt(best, i) /\ saw[d] = "not_reproduced" /\ task[d] = "done"
        BY <4>1 DEF SearchInvariant, ScannedInVain
      <4>6. \A i \in 1..cursor' : \E d \in 1..count :
              steps[d] = RemoveAt(best, i) /\ saw[d] = "not_reproduced" /\ task[d] = "done"
        BY <2>1, <4>1, <4>2, <4>3, <4>4, <4>5
      <4> QED BY <2>2, <2>3, <4>1, <4>6 DEF ScannedInVain, DoneStays
    <3> QED BY <3>1, <3>2
  <2> QED BY <2>4, <2>5 DEF SearchInvariant
<1> QED BY <1>2, <1>3, <1>4

LEMMA SearchStep ==
  ReproductionTypes /\ ChildInvariant /\ SearchInvariant /\ [Next]_reproductionVars
    => SearchInvariant'
<1> SUFFICES ASSUME ReproductionTypes, ChildInvariant, SearchInvariant, [Next]_reproductionVars
             PROVE  SearchInvariant'
  OBVIOUS
<1>0. DoneStays /\ SearchTyped
  BY FinishedTasksStay DEF ChildInvariant, ReproductionTypes
<1> USE DEF searchVars, candidateVars
<1>1. CASE Prepare
  <2>1. search = "absent" => active = 0 /\ count = 0
    BY DEF SearchInvariant, LastIsTried
  <2> QED BY <1>0, <1>1, <2>1, SearchKept DEF Prepare
<1>2. CASE CancelSearch \/ DeadlinePasses \/ TimeRunsOut
  BY <1>0, <1>2, SearchKept DEF CancelSearch, DeadlinePasses, TimeRunsOut
<1>3. ASSUME NEW w \in Pumps, PumpStep(w) \/ PumpFails(w) PROVE SearchInvariant'
  <2>1. CASE PumpReads(w)
    BY <1>0, <2>1, SearchKept DEF PumpReads, RecoverExpired
  <2>2. CASE PumpCompletes(w)
    BY <1>0, <2>2, CompleteKeepsSearch
  <2>3. CASE PumpDispatches(w)
    BY <1>0, <2>3, SearchKept, DispatchKeepsSearch DEF PumpDispatches, RecoverExpired
  <2>4. CASE PumpInserts(w) \/ PumpFails(w)
    BY <1>0, <2>4, SearchKept DEF PumpInserts, PumpFails
  <2>5. CASE PumpStops(w)
    <3>1. pump[w].candidate \in Candidates
      BY <2>5 DEF PumpStops, At, CarriedBy, ReproductionTypes, PumpsTyped
    <3> QED BY <1>0, <2>5, <3>1, SearchKept, StopKeepsSearch DEF PumpStops
  <2> QED BY <1>3, <2>1, <2>2, <2>3, <2>4, <2>5 DEF PumpStep
<1>4. ASSUME NEW c \in Candidates, ChildStep(c) PROVE SearchInvariant'
  <2>1. CASE ClaimChild(c)
    BY <1>0, <2>1, SearchKept, StopKeepsSearch DEF ClaimChild
  <2>2. CASE ~ClaimChild(c)
    BY <1>0, <1>4, <2>2, SearchKept DEF ChildStep, StartReplay, FinishChild, HeartbeatChild,
       CancelChild, ReclaimChild, RecoverChild
  <2> QED BY <2>1, <2>2
<1>5. CASE UNCHANGED reproductionVars
  BY <1>0, <1>5, SearchKept DEF reproductionVars
<1> QED BY <1>1, <1>2, <1>3, <1>4, <1>5 DEF Next

(* The search, its children and the processes that pump it stay consistent.*)
THEOREM SearchesAreConsistent == Spec => []ReproductionInvariant
<1>1. Init => ReproductionInvariant
  <2> SUFFICES ASSUME Init PROVE ReproductionInvariant
    OBVIOUS
  <2> USE ReproductionAssumption DEF Init
  <2>1. SearchTyped
    <3>1. /\ steps \in [Candidates -> Seq(Steps)] /\ sessionHash \in [Candidates -> Sessions]
          /\ candidate \in [Candidates -> {"none", "running", "not_started"} \cup Outcomes]
      BY DEF Sessions
    <3>2. count \in 0..CandidateLimit /\ active \in 0..CandidateLimit /\ cursor \in Nat
      OBVIOUS
    <3> QED BY <3>1, <3>2 DEF SearchTyped
  <2>2. ChildrenTyped
    BY DEF ChildrenTyped, Sessions
  <2>3. Idle \in PumpStates /\ Idle.at = "idle"
    <3>1. 0 \in 0..CandidateLimit
      OBVIOUS
    <3> QED BY <3>1 DEF Idle, PumpStates, Positions
  <2>4. PumpsTyped
    BY <2>3 DEF PumpsTyped, CarriedBy
  <2>5. ChildInvariant
    BY <2>3 DEF ChildInvariant, ChildFollowsJob, ResultIsWhatWasSeen, PumpsCarryResults
  <2>6. SearchInvariant
    BY DEF SearchInvariant, LastIsTried, PastIsKnown, ScannedInVain, FoundIsScanned
  <2> QED BY <2>1, <2>2, <2>4, <2>5, <2>6 DEF ReproductionInvariant, ReproductionTypes
<1>2. ReproductionInvariant /\ [Next]_reproductionVars => ReproductionInvariant'
  BY TypesStep, ChildStepKeeps, SearchStep DEF ReproductionInvariant
<1> QED BY <1>1, <1>2, PTL DEF Spec

(* Delivered again after a crash or by another process, a candidate still  *)
(* becomes at most one child job (pumpReproductions()).                    *)
THEOREM OneChildForEach == Spec => []OneChildPerCandidate
<1>1. ReproductionInvariant => OneChildPerCandidate
  BY DEF ReproductionInvariant, ChildInvariant, ChildFollowsJob, OneChildPerCandidate
<1> QED BY <1>1, SearchesAreConsistent, PTL

(* What is called the shortest path is minimal: every path with one step   *)
(* less was tried, and did not show the failure (dispatchNext()).          *)
THEOREM TheShortestIsMinimal == Spec => []FoundIsMinimal
<1>1. ReproductionInvariant => FoundIsMinimal
  <2> SUFFICES ASSUME ReproductionInvariant, search = "found", NEW i \in 1..Len(best),
                      Len(best) # 1
               PROVE  \E c \in Candidates : steps[c] = RemoveAt(best, i) /\ saw[c] = "not_reproduced"
    BY DEF FoundIsMinimal
  <2>1. best # NULL /\ cursor >= Len(best)
    BY DEF ReproductionInvariant, SearchInvariant, FoundIsScanned
  <2>2. best \in Seq(Steps) /\ cursor \in Nat /\ SearchTyped
    BY <2>1 DEF ReproductionInvariant, ReproductionTypes, SearchTyped
  <2>3. Len(best) \in Nat
    BY <2>2
  <2>4. i \in 1..cursor
    BY <2>1, <2>2, <2>3
  <2> QED BY <2>1, <2>2, <2>4, CountedAreCandidates
          DEF ReproductionInvariant, SearchInvariant, ScannedInVain
<1> QED BY <1>1, SearchesAreConsistent, PTL

(* Only the awaited candidate's own settled browser, which showed the      *)
(* failure in time and in a session no other candidate had, makes a path   *)
(* the best one (completeCandidate()).                                     *)
THEOREM TheBestIsProven == Spec => BestIsProven
<1> DEFINE Proven == best' # best =>
             /\ search = "running" /\ ~deadlinePassed /\ ~cancelRequested
             /\ saw[active] = "reproduced" /\ launch[active] = "settled"
             /\ best' = steps[active] /\ (best # NULL => Len(best') = Len(best) - 1)
             /\ \A d \in 1..(active - 1) : session[d] # session[active]
<1>1. ReproductionInvariant /\ [Next]_reproductionVars => Proven
  <2> SUFFICES ASSUME ReproductionInvariant, [Next]_reproductionVars, best' # best PROVE Proven
    OBVIOUS
  <2>1. PICK w \in Pumps : PumpCompletes(w)
    <3> USE DEF searchVars, candidateVars
    <3>1. ASSUME NEW c \in Candidates PROVE ~ChildStep(c)
      BY DEF ChildStep, ClaimChild, StartReplay, FinishChild, HeartbeatChild, CancelChild,
             ReclaimChild, RecoverChild, StopUnallocated
    <3>2. ASSUME NEW w \in Pumps, PumpStep(w) \/ PumpFails(w) PROVE PumpCompletes(w)
      BY <3>2 DEF PumpStep, PumpReads, PumpDispatches, PumpInserts, PumpStops, PumpFails,
                  StopUnallocated, DispatchNext
    <3>3. ~Prepare /\ ~CancelSearch /\ ~DeadlinePasses /\ ~TimeRunsOut
      BY DEF Prepare, CancelSearch, DeadlinePasses, TimeRunsOut
    <3>4. Next
      BY DEF reproductionVars
    <3> QED BY <3>1, <3>2, <3>3, <3>4 DEF Next
  <2> DEFINE c == pump[w].candidate
             r == pump[w].result
  <2>2. /\ Complete(c, r, pump[w].cancelled) /\ At(w, "completing") /\ Awaited(c)
        /\ Verdict(c, r, pump[w].cancelled) = "queued"
        /\ r.outcome = "reproduced" /\ best' = steps[c]
    BY <2>1 DEF PumpCompletes, Complete, Advance, searchVars
  <2>3. /\ c = active /\ active = count /\ search = "running" /\ c \in Candidates
        /\ ~deadlinePassed /\ ~cancelRequested /\ launch[c] = "settled" /\ saw[c] = r.outcome
        /\ \A d \in 1..count : d # c => session[d] # session[c]
    BY <2>2, TrustedResult DEF ReproductionInvariant
  <2>4. \A d \in 1..(active - 1) : d \in 1..count /\ d # active
    BY <2>3 DEF Candidates
  <2>5. best # NULL => Len(best') = Len(best) - 1
    <3>1. /\ best # NULL => cursor < Len(best)
          /\ steps[active] = Shortened /\ SearchTyped
      BY <2>3 DEF ReproductionInvariant, ReproductionTypes, SearchInvariant, LastIsTried
    <3> QED BY <2>2, <2>3, <3>1, ShortenedIsAPath
  <2> HIDE DEF c, r
  <2> QED BY <2>2, <2>3, <2>4, <2>5
<1> QED BY <1>1, SearchesAreConsistent, PTL DEF Spec, BestIsProven
=============================================================================
