------------------------- MODULE BrowserPagesProofs -------------------------
(***************************************************************************)
(* Proofs about the surroundings of a browser: what its driver clicks and  *)
(* what becomes of the page's reports (PageDriver), that its network does  *)
(* nothing once it has ended (PublicNetwork) and reaches public addresses  *)
(* only (Destinations), and that the evidence it leaves is whole and fits  *)
(* its budget (Evidence).                                                  *)
(***************************************************************************)
EXTENDS PageDriver, PublicNetwork, Destinations, Evidence, FiniteSetTheorems, TLAPS

(* PageDriver.  The driver's candidates are those of the marked document,  *)
(* but between the marking and the driver's own note of it; an operation   *)
(* that throws there is the last one.                                      *)
MarksAreKnown ==
  /\ driverStep \notin {"evaluated", "thrown"} => marked = candidatesOf
  /\ HitsWhatWasObserved

LEMMA DriverStepKeepsMarks == MarksAreKnown /\ [DriverNext]_driverVars => MarksAreKnown'
<1> SUFFICES ASSUME MarksAreKnown, [DriverNext]_driverVars PROVE MarksAreKnown'
  OBVIOUS
<1> USE DEF MarksAreKnown, HitsWhatWasObserved, GoOn, pageFacts, viewFacts
<1>1. CASE Observe
  BY <1>1 DEF Observe
<1>2. CASE Evaluate
  BY <1>2 DEF Evaluate
<1>3. CASE Remember
  BY <1>3 DEF Remember, Passes
<1>4. CASE Shoot
  BY <1>4 DEF Shoot
<1>5. CASE Verify
  BY <1>5 DEF Verify
<1>6. ASSUME NEW works \in BOOLEAN, WriteTelemetry(works) PROVE MarksAreKnown'
  BY <1>6 DEF WriteTelemetry
<1>7. CASE Return
  BY <1>7 DEF Return
<1>8. CASE DriverFails
  BY <1>8 DEF DriverFails
<1>9. CASE Act
  BY <1>9 DEF Act
<1>10. CASE Locate
  BY <1>10 DEF Locate
<1>11. CASE DispatchAction
  BY <1>11 DEF DispatchAction, Found
<1>12. CASE SettleAction
  BY <1>12 DEF SettleAction
<1>13. ASSUME NEW address \in PageUrls, Navigate(address) PROVE MarksAreKnown'
  BY <1>13 DEF Navigate
<1>14. CASE ReportSignal
  BY <1>14 DEF ReportSignal
<1>15. CASE Refuse
  BY <1>15 DEF Refuse
<1>16. CASE AttemptStops
  BY <1>16 DEF AttemptStops
<1>17. CASE CloseOnce
  BY <1>17 DEF CloseOnce
<1>18. ASSUME NEW works \in BOOLEAN, WriteLast(works) PROVE MarksAreKnown'
  BY <1>18 DEF WriteLast
<1>19. CASE CloseBrowser
  BY <1>19 DEF CloseBrowser
<1>20. CASE UNCHANGED driverVars
  BY <1>20 DEF driverVars
<1> QED BY <1>1, <1>2, <1>3, <1>4, <1>5, <1>6, <1>7, <1>8, <1>9, <1>10, <1>11, <1>12, <1>13, <1>14, <1>15, <1>16, <1>17, <1>18, <1>19, <1>20 DEF DriverNext, ObserveStep, ActStep, PageEvent, CloseDriverStep

(* Whatever the page does meanwhile, an action lands in the document its   *)
(* candidates were found in: HitsWhatWasObserved.                          *)
THEOREM ActionsHitWhatWasObserved == DriverSpec => []HitsWhatWasObserved
<1>1. DriverInit => MarksAreKnown
  BY DEF DriverInit, MarksAreKnown, HitsWhatWasObserved
<1>2. MarksAreKnown => HitsWhatWasObserved
  BY DEF MarksAreKnown
<1> QED BY <1>1, <1>2, DriverStepKeepsMarks, PTL DEF DriverSpec
-----------------------------------------------------------------------------
(* The same account without indices: five sets of records, each in one.    *)
Parted(a, b, c, d, e, n) ==
  /\ a \cup b \cup c \cup d \cup e = 1..n
  /\ a \cap b = {} /\ a \cap c = {} /\ a \cap d = {} /\ a \cap e = {}
  /\ b \cap c = {} /\ b \cap d = {} /\ b \cap e = {}
  /\ c \cap d = {} /\ c \cap e = {} /\ d \cap e = {}

LEMMA PartedIsAccounted ==
  Parted(telemetry, taken.observe, taken.close, saved, unsaved, recorded) <=> TelemetryAccounted
<1> DEFINE parts == <<telemetry, taken.observe, taken.close, saved, unsaved>>
<1>1. /\ parts[1] = telemetry /\ parts[2] = taken.observe /\ parts[3] = taken.close
      /\ parts[4] = saved /\ parts[5] = unsaved
  OBVIOUS
<1>2. \A i : i \in 1..5 <=> i = 1 \/ i = 2 \/ i = 3 \/ i = 4 \/ i = 5
  OBVIOUS
<1>3. TelemetryAccounted <=>
        /\ UNION {parts[i] : i \in 1..5} = 1..recorded
        /\ \A i, j \in 1..5 : i # j => parts[i] \cap parts[j] = {}
  BY DEF TelemetryAccounted
<1> HIDE DEF parts
<1>4. UNION {parts[i] : i \in 1..5} = parts[1] \cup parts[2] \cup parts[3] \cup parts[4] \cup parts[5]
  <2>1. ASSUME NEW x PROVE x \in UNION {parts[i] : i \in 1..5} <=> \E i \in 1..5 : x \in parts[i]
    OBVIOUS
  <2> QED BY <2>1, <1>2
<1>5. (\A i, j \in 1..5 : i # j => parts[i] \cap parts[j] = {}) <=>
        /\ parts[1] \cap parts[2] = {} /\ parts[1] \cap parts[3] = {} /\ parts[1] \cap parts[4] = {}
        /\ parts[1] \cap parts[5] = {} /\ parts[2] \cap parts[3] = {} /\ parts[2] \cap parts[4] = {}
        /\ parts[2] \cap parts[5] = {} /\ parts[3] \cap parts[4] = {} /\ parts[3] \cap parts[5] = {}
        /\ parts[4] \cap parts[5] = {}
  BY <1>2
<1> QED BY <1>1, <1>3, <1>4, <1>5 DEF Parted

(* A record is being written by the operation that took it, and no other   *)
(* record is taken until that write is over.                               *)
AccountInvariant ==
  /\ recorded \in Nat
  /\ taken = [observe |-> taken.observe, close |-> taken.close]
  /\ Parted(telemetry, taken.observe, taken.close, saved, unsaved, recorded)
  /\ driverStep # "writing" => taken.observe = {}
  /\ closeStep # "writing" => taken.close = {}

LEMMA KeepAccounts ==
  ASSUME NEW b, NEW c, NEW d, NEW e, recorded \in Nat, Parted(telemetry, b, c, d, e, recorded), Keep
  PROVE  recorded' \in Nat /\ Parted(telemetry', b, c, d, e, recorded')
<1>1. CASE UNCHANGED <<telemetry, recorded>>
  BY <1>1
<1>2. CASE telemetry' = telemetry \cup {recorded + 1} /\ recorded' = recorded + 1
  <2>1. 1..(recorded + 1) = (1..recorded) \cup {recorded + 1} /\ recorded + 1 \notin 1..recorded
    OBVIOUS
  <2> QED BY <1>2, <2>1 DEF Parted
<1> QED BY <1>1, <1>2 DEF Keep

LEMMA DriverStepAccounts == AccountInvariant /\ [DriverNext]_driverVars => AccountInvariant'
<1> SUFFICES ASSUME AccountInvariant, [DriverNext]_driverVars PROVE AccountInvariant'
  OBVIOUS
<1> USE DEF AccountInvariant, GoOn, recordFacts, closingFacts
<1>1. CASE Observe
  BY <1>1 DEF Observe
<1>2. CASE Evaluate
  BY <1>2 DEF Evaluate
<1>3. CASE Remember
  BY <1>3 DEF Remember
<1>4. CASE Shoot
  BY <1>4 DEF Shoot
<1>5. CASE Verify
  BY <1>5 DEF Verify, Parted
<1>6. ASSUME NEW works \in BOOLEAN, WriteTelemetry(works) PROVE AccountInvariant'
  BY <1>6 DEF WriteTelemetry, AfterWrite, Parted
<1>7. CASE Return
  BY <1>7 DEF Return
<1>8. CASE DriverFails
  BY <1>8 DEF DriverFails
<1>9. CASE Act
  BY <1>9 DEF Act
<1>10. CASE Locate
  BY <1>10 DEF Locate
<1>11. CASE DispatchAction
  BY <1>11 DEF DispatchAction
<1>12. CASE SettleAction
  BY <1>12 DEF SettleAction
<1>13. ASSUME NEW address \in PageUrls, Navigate(address) PROVE AccountInvariant'
  BY <1>13 DEF Navigate
<1>14. CASE AttemptStops
  BY <1>14 DEF AttemptStops
<1>15. CASE CloseOnce
  BY <1>15 DEF CloseOnce, Parted
<1>16. ASSUME NEW works \in BOOLEAN, WriteLast(works) PROVE AccountInvariant'
  BY <1>16 DEF WriteLast, Parted
<1>17. CASE CloseBrowser
  BY <1>17 DEF CloseBrowser
<1>18. CASE ReportSignal
  BY <1>18, KeepAccounts DEF ReportSignal
<1>19. CASE Refuse
  BY <1>19, KeepAccounts DEF Refuse
<1>20. CASE UNCHANGED driverVars
  BY <1>20 DEF driverVars
<1> QED BY <1>1, <1>2, <1>3, <1>4, <1>5, <1>6, <1>7, <1>8, <1>9, <1>10, <1>11, <1>12, <1>13, <1>14, <1>15, <1>16, <1>17, <1>18, <1>19, <1>20 DEF DriverNext, ObserveStep, ActStep, PageEvent, CloseDriverStep

(* No report of the page is lost or written twice: TelemetryAccounted.     *)
THEOREM TelemetryIsAccounted == DriverSpec => []TelemetryAccounted
<1>1. DriverInit => AccountInvariant
  <2> SUFFICES ASSUME DriverInit PROVE AccountInvariant
    OBVIOUS
  <2>1. 1..0 = {}
    OBVIOUS
  <2> QED BY <2>1 DEF DriverInit, AccountInvariant, Parted
<1>2. AccountInvariant => TelemetryAccounted
  BY PartedIsAccounted DEF AccountInvariant
<1> QED BY <1>1, <1>2, DriverStepAccounts, PTL DEF DriverSpec-----------------------------------------------------------------------------
(* PublicNetwork.                                                          *)
Positions ==
  {"new", "left", "done", "verifying", "identifying", "resolving", "connected", "redirecting",
   "reading", "confirming", "fulfilling", "denying", "aborting"}
HandlersTyped == at \in [Requests -> Positions]

LEMMA NetworkStep ==
  ASSUME HandlersTyped, [NetworkNext]_networkVars
  PROVE  HandlersTyped' /\ (NetworkEnded => Effects' \subseteq Effects)
<1> DEFINE Good == HandlersTyped' /\ (NetworkEnded => Effects' \subseteq Effects)
<1> USE DEF HandlersTyped, Positions, NetworkEnded, Effects, NetworkActive, StillActive, MoveTo, FailRequest,
            Complete, Deliver, sessionVars
<1>1. ASSUME NEW r \in Requests, Paused(r) PROVE Good
  BY <1>1 DEF Paused
<1>2. ASSUME NEW r \in Requests, Bind(r) PROVE Good
  BY <1>2 DEF Bind
<1>3. ASSUME NEW r \in Requests, AwaitFails(r) PROVE Good
  BY <1>3 DEF AwaitFails
<1>4. ASSUME NEW r \in Requests, Resolve(r) PROVE Good
  BY <1>4 DEF Resolve
<1>5. ASSUME NEW r \in Requests, Respond(r) PROVE Good
  BY <1>5 DEF Respond, PageOperations
<1>6. ASSUME NEW r \in Requests, Redirect(r) PROVE Good
  BY <1>6 DEF Redirect
<1>7. ASSUME NEW r \in Requests, OperationFails(r) PROVE Good
  BY <1>7 DEF OperationFails, PageOperations, GatewayOperations
<1>8. ASSUME NEW r \in Requests, Identify(r) PROVE Good
  BY <1>8 DEF Identify
<1>9. ASSUME NEW r \in Requests, Admit(r) PROVE Good
  BY <1>9 DEF Admit
<1>10. ASSUME NEW r \in Requests, Dispatch(r) PROVE Good
  BY <1>10 DEF Dispatch
<1>11. ASSUME NEW r \in Requests, GatewayAnswers(r) PROVE Good
  BY <1>11 DEF GatewayAnswers, GatewayOperations
<1>12. ASSUME NEW r \in Requests, Confirm(r) PROVE Good
  BY <1>12 DEF Confirm
<1>13. ASSUME NEW r \in Requests, Fulfilled(r) PROVE Good
  BY <1>13 DEF Fulfilled
<1>14. ASSUME NEW r \in Requests, FulfillFails(r) PROVE Good
  BY <1>14 DEF FulfillFails
<1>15. ASSUME NEW r \in Requests, Aborted(r) PROVE Good
  BY <1>15 DEF Aborted
<1>16. ASSUME Attach PROVE Good
  BY <1>16 DEF Attach
<1>17. ASSUME Trip PROVE Good
  BY <1>17 DEF Trip
<1>18. ASSUME LoseLease PROVE Good
  BY <1>18 DEF LoseLease
<1>19. ASSUME Stop PROVE Good
  BY <1>19 DEF Stop
<1>20. ASSUME BeginNetworkClose PROVE Good
  BY <1>20 DEF BeginNetworkClose
<1>21. ASSUME CloseTargets PROVE Good
  BY <1>21 DEF CloseTargets
<1>22. ASSUME EndNetworkClose PROVE Good
  BY <1>22 DEF EndNetworkClose
<1>23. ASSUME UNCHANGED networkVars PROVE Good
  BY <1>23 DEF networkVars
<1> QED BY <1>1, <1>2, <1>3, <1>4, <1>5, <1>6, <1>7, <1>8, <1>9, <1>10, <1>11, <1>12, <1>13, <1>14, <1>15, <1>16, <1>17, <1>18, <1>19, <1>20, <1>21, <1>22, <1>23 DEF NetworkNext, HandlerStep, CloseNetwork

(* Once the lease is lost, the network tripped or its closing has begun no *)
(* handler starts an operation or answers the browser: NothingAfterEnd.    *)
THEOREM EndedNetworkIsInert == NetworkSpec => NothingAfterEnd
<1>1. NetworkInit => HandlersTyped
  BY DEF NetworkInit, HandlersTyped, Positions
<1>2. HandlersTyped /\ [NetworkNext]_networkVars => HandlersTyped'
  BY NetworkStep
<1>3. HandlersTyped /\ [NetworkNext]_networkVars =>
        [NetworkEnded => Effects' \subseteq Effects]_networkVars
  BY NetworkStep
<1> QED BY <1>1, <1>2, <1>3, PTL DEF NetworkSpec, NothingAfterEnd
-----------------------------------------------------------------------------
(* Destinations.  An operation that may dial has seen public addresses     *)
(* only; its record keeps its fields.                                      *)
Shaped(v) ==
  v = Free \/ v \in [at : {v.at}, link : {v.link}, kind : {v.kind}, unanswered : {v.unanswered},
                     found : {v.found}]
AddressesChecked ==
  /\ operation = [o \in Operations |-> operation[o]]
  /\ \A o \in Operations :
       /\ Shaped(operation[o])
       /\ operation[o].at \in {"dialing", "connected", "answered"} => operation[o].found = {"public"}

Checked(v) == v.at \in {"dialing", "connected", "answered"} => v.found = {"public"}

LEMMA PutKeepsChecked ==
  ASSUME AddressesChecked, NEW o \in Operations, NEW v, Shaped(v), Checked(v), Put(o, v)
  PROVE  AddressesChecked'
BY DEF AddressesChecked, Checked, Put

(* The last of the two answers frees the operation or lets it dial.        *)
LEMMA AnswerEffect ==
  ASSUME NEW o \in Operations, NEW f, Answer(o, f)
  PROVE  LET this == operation[o]
             found == this.found \cup answers[this.link.host][f] IN
         /\ this.at \in {"resolving", "redirecting"}
         /\ \/ Put(o, [this EXCEPT !.unanswered = this.unanswered \ {f}, !.found = found])
            \/ /\ found = {"public"}
               /\ Put(o, [this EXCEPT !.at = "dialing", !.unanswered = {}, !.found = found])
            \/ Put(o, Free)
BY SMTT(60) DEF Answer, At, SafeAnswer

LEMMA AnswerKeepsChecked ==
  ASSUME AddressesChecked, NEW o \in Operations, NEW f, Answer(o, f)
  PROVE  AddressesChecked'
<1> DEFINE this == operation[o]
           found == this.found \cup answers[this.link.host][f]
<1>1. this.at \in {"resolving", "redirecting"}
  BY AnswerEffect
<1>2. this \in [at : {this.at}, link : {this.link}, kind : {this.kind},
                unanswered : {this.unanswered}, found : {this.found}]
  <2>1. Shaped(this)
    BY DEF AddressesChecked
  <2> QED BY <1>1, <2>1 DEF Shaped, Free
<1>3. ASSUME NEW u, NEW y
      PROVE  /\ Shaped([this EXCEPT !.unanswered = u, !.found = y])
             /\ Checked([this EXCEPT !.unanswered = u, !.found = y])
             /\ Shaped([this EXCEPT !.at = "dialing", !.unanswered = u, !.found = y])
             /\ [this EXCEPT !.at = "dialing", !.unanswered = u, !.found = y].found = y
  BY <1>1, <1>2 DEF Shaped, Checked
<1>4. Shaped(Free) /\ Checked(Free)
  BY DEF Shaped, Checked, Free
<1> HIDE DEF found
<1>5. CASE Put(o, [this EXCEPT !.unanswered = this.unanswered \ {f}, !.found = found])
  BY <1>3, <1>5, PutKeepsChecked
<1>6. CASE /\ found = {"public"}
           /\ Put(o, [this EXCEPT !.at = "dialing", !.unanswered = {}, !.found = found])
  BY <1>3, <1>6, PutKeepsChecked DEF Checked
<1>7. CASE Put(o, Free)
  BY <1>4, <1>7, PutKeepsChecked
<1> QED BY <1>5, <1>6, <1>7, AnswerEffect, ZenonT(60) DEF found

LEMMA DestinationStepChecks ==
  AddressesChecked /\ [DestinationNext]_destinationVars => AddressesChecked'
<1> SUFFICES ASSUME AddressesChecked, [DestinationNext]_destinationVars PROVE AddressesChecked'
  OBVIOUS
<1>5. ASSUME NEW o \in Operations, NEW f \in Families, Answer(o, f) PROVE AddressesChecked'
  BY <1>5, AnswerKeepsChecked
<1>6. ASSUME NEW o \in Operations, NEW address \in Addresses, Dial(o, address) PROVE AddressesChecked'
  <2> DEFINE this == operation[o]
             next == [this EXCEPT !.at = "connected", !.found = {address}]
  <2>1. this.at = "dialing" /\ address \in this.found /\ Put(o, next)
    BY <1>6 DEF Dial, At, Pinned
  <2>2. Shaped(this) /\ this.found = {"public"}
    BY <2>1 DEF AddressesChecked
  <2>3. this \in [at : {this.at}, link : {this.link}, kind : {this.kind},
                  unanswered : {this.unanswered}, found : {this.found}]
    BY <2>1, <2>2 DEF Shaped, Free
  <2>4. Shaped(next) /\ next.found = {address} /\ address = "public"
    BY <2>1, <2>2, <2>3 DEF Shaped
  <2> QED BY <2>1, <2>4, PutKeepsChecked DEF Checked
<1> USE DEF AddressesChecked, Shaped, Free, Put, At, dnsVars, runVars, counters
<1>1. ASSUME NEW h \in ScopeHosts, AdmitHost(h) PROVE AddressesChecked'
  BY <1>1 DEF AdmitHost
<1>2. CASE OpenBrowser
  BY <1>2 DEF OpenBrowser, BeginAdmission
<1>3. CASE Unsupported
  BY <1>3 DEF Unsupported
<1>4. ASSUME NEW o \in Operations, NEW l \in Links, NEW kind \in {"navigation", "asset"},
             Request(o, l, kind)
      PROVE  AddressesChecked'
  <2>1. CASE UNCHANGED operation
    BY <2>1
  <2>2. CASE Put(o, Resolving(l, kind, "resolving"))
    <3>1. Shaped(Resolving(l, kind, "resolving")) /\ Checked(Resolving(l, kind, "resolving"))
      BY DEF Resolving, Checked
    <3> QED BY <2>2, <3>1, PutKeepsChecked
  <2> QED BY <1>4, <2>1, <2>2 DEF Request
<1>7. ASSUME NEW o \in Operations, Receive(o) PROVE AddressesChecked'
  BY <1>7 DEF Receive
<1>8. ASSUME NEW o \in Operations, Conclude(o) PROVE AddressesChecked'
  BY <1>8 DEF Conclude
<1>9. ASSUME NEW o \in Operations, RequestFails(o) PROVE AddressesChecked'
  BY <1>9 DEF RequestFails
<1>10. ASSUME NEW o \in Operations, NEW l \in Links, FollowRedirect(o, l) PROVE AddressesChecked'
  BY <1>10 DEF FollowRedirect, Resolving
<1>11. CASE StopTransport
  BY <1>11 DEF StopTransport
<1>12. ASSUME NEW n \in Names, NEW f \in Families, NEW found \in SUBSET Addresses, DnsChanges(n, f, found) PROVE AddressesChecked'
  BY <1>12 DEF DnsChanges
<1>13. CASE UNCHANGED destinationVars
  BY <1>13 DEF destinationVars
<1> QED BY <1>1, <1>2, <1>3, <1>4, <1>5, <1>6, <1>7, <1>8, <1>9, <1>10, <1>11, <1>12, <1>13 DEF DestinationNext, OperationStep

(* Whatever the name servers answer, the transport is connected to public  *)
(* addresses only: OnlyPublicConnections.                                  *)
THEOREM ConnectionsArePublic == DestinationSpec => []OnlyPublicConnections
<1>1. DestinationInit => AddressesChecked
  BY DEF DestinationInit, AddressesChecked, Shaped, Free
<1>2. AddressesChecked => OnlyPublicConnections
  BY DEF AddressesChecked, OnlyPublicConnections, At
<1> QED BY <1>1, <1>2, DestinationStepChecks, PTL DEF DestinationSpec-----------------------------------------------------------------------------
(* Evidence.                                                               *)
SaveSteps == {"idle", "locking", "counting", "opening", "writing", "written", "refused", "returned",
              "registered", "recorded", "failed", "dead"}
EvidenceTypes ==
  /\ file \in [Saves -> {"none", "partial", "whole"}]
  /\ bytes \in [Saves -> 0..2]
  /\ saveStep \in [Saves -> SaveSteps]

(* A file of which a reference was returned is whole, and so is one with a *)
(* row; nobody opens it a second time.                                     *)
WholeFiles ==
  /\ \A s \in Saves : saveStep[s] \in {"written", "returned", "registered", "recorded"} => file[s] = "whole"
  /\ \A s \in rows : /\ s \in Saves /\ file[s] = "whole"
                     /\ saveStep[s] \in {"registered", "recorded", "failed", "dead"}
  /\ steps \subseteq rows
ReportReadsRows ==
  /\ report \in [left : SUBSET rows, loaded : SUBSET (Saves \X {"unavailable", "available"})]

WholeInvariant == EvidenceTypes /\ WholeFiles /\ ReportReadsRows

LEMMA EvidenceStepKeepsWhole ==
  WholeInvariant /\ [EvidenceNext]_evidenceVars => WholeInvariant'
<1> SUFFICES ASSUME WholeInvariant, [EvidenceNext]_evidenceVars PROVE WholeInvariant'
  OBVIOUS
<1> USE DEF WholeInvariant, EvidenceTypes, SaveSteps, WholeFiles, ReportReadsRows, SaveGoes
<1>1. ASSUME NEW s \in Saves, BeginSave(s) PROVE WholeInvariant'
  BY <1>1 DEF BeginSave
<1>2. ASSUME NEW s \in Saves, Acquire(s) PROVE WholeInvariant'
  BY <1>2 DEF Acquire
<1>3. ASSUME NEW s \in Saves, Busy(s) PROVE WholeInvariant'
  BY <1>3 DEF Busy
<1>4. ASSUME NEW s \in Saves, CountFiles(s) PROVE WholeInvariant'
  BY <1>4 DEF CountFiles
<1>5. ASSUME NEW s \in Saves, OpenFile(s) PROVE WholeInvariant'
  BY <1>5 DEF OpenFile
<1>6. ASSUME NEW s \in Saves, WriteFile(s) PROVE WholeInvariant'
  BY <1>6 DEF WriteFile
<1>7. ASSUME NEW s \in Saves, WriteFails(s) PROVE WholeInvariant'
  BY <1>7 DEF WriteFails, FailedSave
<1>8. ASSUME NEW s \in Saves, Release(s) PROVE WholeInvariant'
  BY <1>8 DEF Release
<1>9. ASSUME NEW s \in Saves, SaverDies(s) PROVE WholeInvariant'
  BY <1>9 DEF SaverDies
<1>10. ASSUME NEW s \in Saves, Register(s) PROVE WholeInvariant'
  BY <1>10 DEF Register
<1>11. ASSUME NEW s \in Saves, RecordStep(s) PROVE WholeInvariant'
  BY <1>11 DEF RecordStep
<1>12. CASE LeaseEnds
  BY <1>12 DEF LeaseEnds
<1>13. CASE CancelAttempt
  BY <1>13 DEF CancelAttempt
<1>14. CASE BeginReport
  BY <1>14 DEF BeginReport
<1>15. ASSUME NEW s \in Saves, LoadFile(s) PROVE WholeInvariant'
  BY <1>15 DEF LoadFile, StateOf
<1>16. CASE EndReport
  BY <1>16 DEF EndReport, NoReport
<1>17. CASE UNCHANGED evidenceVars
  BY <1>17 DEF evidenceVars
<1> QED BY <1>1, <1>2, <1>3, <1>4, <1>5, <1>6, <1>7, <1>8, <1>9, <1>10, <1>11, <1>12, <1>13, <1>14, <1>15, <1>16, <1>17 DEF EvidenceNext, WriterStep, RegisterStep, ReportStep

(* A row stands for a whole file and a step for a row, and no report finds *)
(* one missing or cut short: EvidenceIsWhole.                              *)
THEOREM EvidenceStaysWhole == EvidenceSpec => []EvidenceIsWhole
<1>1. EvidenceInit => WholeInvariant
  BY DEF EvidenceInit, WholeInvariant, EvidenceTypes, SaveSteps, WholeFiles, ReportReadsRows, NoReport
<1>2. WholeInvariant => EvidenceIsWhole
  BY DEF WholeInvariant, WholeFiles, ReportReadsRows, EvidenceIsWhole
<1> QED BY <1>1, <1>2, EvidenceStepKeepsWhole, PTL DEF EvidenceSpec
-----------------------------------------------------------------------------
(* The budget: a writer between its count and the end of its write has the *)
(* lock, so that the room it found is still there when it opens its file.  *)
LockHeld ==
  \A s \in Saves :
    saveStep[s] \in {"counting", "opening", "writing", "written", "refused"} => writeLock = s
OpenedOnce ==
  \A s \in Saves :
    /\ saveStep[s] \in {"idle", "locking", "counting", "opening"} => file[s] = "none"
    /\ saveStep[s] = "writing" => file[s] = "partial"
RoomStays == \A s \in Saves : saveStep[s] = "opening" => Room(s)

BudgetInvariant ==
  EvidenceTypes /\ LockHeld /\ OpenedOnce /\ RoomStays /\ ArtifactBudgetKept

LEMMA UpTo ==
  ASSUME NEW n \in Nat
  PROVE  IsFiniteSet(1..n) /\ Cardinality(1..n) = n
<1> DEFINE one == 1
<1>1. one \in Int /\ n \in Int
  OBVIOUS
<1>2. IsFiniteSet(one..n) /\ Cardinality(one..n) = IF one > n THEN 0 ELSE n - one + 1
  <2> HIDE DEF one
  <2> QED BY <1>1, FS_Interval
<1> QED BY <1>2

LEMMA UnitsFinite ==
  ASSUME EvidenceTypes
  PROVE  /\ IsFiniteSet(Stored) /\ Cardinality(Stored) \in Nat
         /\ IsFiniteSet(Units) /\ TotalBytes \in Nat
<1>1. IsFiniteSet(Stored)
  BY SavesAssumption, FS_Subset DEF Stored
<1>2. IsFiniteSet(1..2)
  BY UpTo
<1>3. IsFiniteSet(Stored \X (1..2))
  BY <1>1, <1>2, FS_Product
<1>4. IsFiniteSet(Units)
  BY <1>3, FS_Subset DEF Units
<1> QED BY <1>1, <1>4, FS_CardinalityType DEF TotalBytes

(* Fewer files of the same sizes take no more room.                        *)
LEMMA FewerFiles ==
  ASSUME EvidenceTypes, EvidenceTypes',
         \A s \in Saves : file'[s] # "none" => file[s] # "none" /\ bytes'[s] = bytes[s]
  PROVE  Cardinality(Stored') <= Cardinality(Stored) /\ TotalBytes' <= TotalBytes
<1>1. Stored' \subseteq Stored
  BY DEF Stored
<1>2. Units' \subseteq Units
  BY <1>1 DEF Units, Stored
<1> QED BY <1>1, <1>2, UnitsFinite, FS_Subset DEF TotalBytes

(* Opening a file adds one, and its size at most.                          *)
LEMMA OneMoreFile ==
  ASSUME EvidenceTypes, EvidenceTypes', NEW s \in Saves, UNCHANGED bytes,
         file' = [file EXCEPT ![s] = "partial"], file[s] = "none"
  PROVE  Cardinality(Stored') = Cardinality(Stored) + 1 /\ TotalBytes' <= TotalBytes + bytes[s]
<1>1. Stored' = Stored \cup {s} /\ s \notin Stored
  BY DEF Stored, EvidenceTypes
<1>2. Cardinality(Stored') = Cardinality(Stored) + 1
  BY <1>1, UnitsFinite, FS_AddElement
<1> DEFINE added == {s} \X (1..bytes[s])
<1>3. IsFiniteSet(added) /\ Cardinality(added) = bytes[s]
  <2>1. bytes[s] \in Nat
    BY DEF EvidenceTypes
  <2> DEFINE one == {s}
             units == 1..bytes[s]
  <2>2. IsFiniteSet(units) /\ Cardinality(units) = bytes[s]
    BY <2>1, UpTo
  <2>3. IsFiniteSet(one) /\ Cardinality(one) = 1
    BY FS_Singleton
  <2>4. added = one \X units
    OBVIOUS
  <2> HIDE DEF one, units, added
  <2>5. IsFiniteSet(one \X units) /\ Cardinality(one \X units) = Cardinality(one) * Cardinality(units)
    BY <2>2, <2>3, FS_Product, Zenon
  <2>6. Cardinality(added) = 1 * bytes[s]
    BY <2>2, <2>3, <2>4, <2>5, Zenon
  <2> QED BY <2>1, <2>4, <2>5, <2>6
<1>4. Units' \subseteq Units \cup added
  BY <1>1 DEF Units, EvidenceTypes
<1> HIDE DEF added
<1>5. /\ IsFiniteSet(Units \cup added)
      /\ Cardinality(Units \cup added) = TotalBytes + bytes[s] - Cardinality(Units \cap added)
  BY <1>3, UnitsFinite, FS_Union DEF TotalBytes
<1>6. Cardinality(Units \cap added) \in Nat
  BY UnitsFinite, FS_Intersection, FS_CardinalityType
<1>7. IsFiniteSet(Units') /\ TotalBytes' <= Cardinality(Units \cup added)
  BY <1>4, <1>5, FS_Subset DEF TotalBytes
<1>8. TotalBytes \in Nat /\ TotalBytes' \in Nat /\ bytes[s] \in Nat
  BY <1>7, UnitsFinite, FS_CardinalityType DEF EvidenceTypes, TotalBytes
<1> QED BY <1>2, <1>5, <1>6, <1>7, <1>8
(* A step that opens no file and writes no size but that of an idle save   *)
(* keeps the budget and the room that others found.                        *)
LEMMA BudgetPersists ==
  ASSUME BudgetInvariant, EvidenceTypes',
         \A s \in Saves : file'[s] # "none" => file[s] # "none" /\ bytes'[s] = bytes[s],
         \A s \in Saves : saveStep'[s] = "opening" =>
            bytes'[s] = bytes[s] /\ (saveStep[s] = "opening" \/ Room(s))
  PROVE  RoomStays' /\ ArtifactBudgetKept'
<1>1. Cardinality(Stored') <= Cardinality(Stored) /\ TotalBytes' <= TotalBytes
  BY FewerFiles DEF BudgetInvariant
<1>2. /\ Cardinality(Stored) \in Nat /\ TotalBytes \in Nat
      /\ IsFiniteSet(Stored') /\ IsFiniteSet(Units')
  <2>1. Stored' \subseteq Stored
    BY DEF Stored
  <2>2. Units' \subseteq Units
    BY <2>1 DEF Units, Stored
  <2> QED BY <2>1, <2>2, UnitsFinite, FS_Subset DEF BudgetInvariant
<1>3. Cardinality(Stored') \in Nat /\ TotalBytes' \in Nat
  BY <1>2, FS_CardinalityType DEF TotalBytes
<1>4. ArtifactBudgetKept'
  BY <1>1, <1>2, <1>3, BudgetAssumption DEF BudgetInvariant, ArtifactBudgetKept
<1>5. ASSUME NEW s \in Saves, saveStep'[s] = "opening" PROVE Room(s)'
  <2>1. Room(s) /\ bytes'[s] = bytes[s] /\ bytes[s] \in Nat
    BY <1>5 DEF BudgetInvariant, RoomStays, EvidenceTypes
  <2> QED BY <1>1, <1>2, <1>3, <2>1, BudgetAssumption DEF Room
<1> QED BY <1>4, <1>5 DEF RoomStays

LEMMA EvidenceStepKeepsBudget ==
  BudgetInvariant /\ [EvidenceNext]_evidenceVars => BudgetInvariant'
<1> SUFFICES ASSUME BudgetInvariant, [EvidenceNext]_evidenceVars PROVE BudgetInvariant'
  OBVIOUS
<1> DEFINE Basics == EvidenceTypes' /\ LockHeld' /\ OpenedOnce'
           Quiet == /\ \A s \in Saves : file'[s] # "none" => file[s] # "none" /\ bytes'[s] = bytes[s]
                    /\ \A s \in Saves : saveStep'[s] = "opening" =>
                         bytes'[s] = bytes[s] /\ (saveStep[s] = "opening" \/ Room(s))
<1>0. ASSUME Basics, Quiet PROVE BudgetInvariant'
  BY <1>0, BudgetPersists DEF BudgetInvariant
<1>1. ASSUME NEW s \in Saves, OpenFile(s) PROVE BudgetInvariant'
  <2>1. Basics
    BY <1>1, SavesAssumption
    DEF OpenFile, SaveGoes, BudgetInvariant, EvidenceTypes, SaveSteps, LockHeld, OpenedOnce
  <2>2. /\ file[s] = "none" /\ file' = [file EXCEPT ![s] = "partial"] /\ UNCHANGED bytes
        /\ saveStep[s] = "opening" /\ saveStep' = [saveStep EXCEPT ![s] = "writing"]
    BY <1>1 DEF OpenFile, SaveGoes, BudgetInvariant, OpenedOnce
  <2>3. Cardinality(Stored') = Cardinality(Stored) + 1 /\ TotalBytes' <= TotalBytes + bytes[s]
    BY <2>1, <2>2, OneMoreFile DEF BudgetInvariant
  <2>4. Room(s) /\ bytes[s] \in Nat /\ Cardinality(Stored) \in Nat /\ TotalBytes \in Nat
    BY <2>2, UnitsFinite DEF BudgetInvariant, RoomStays, EvidenceTypes
  <2>5. TotalBytes' \in Nat
    <3> DEFINE added == {s} \X (1..2)
    <3>1. Units' \subseteq Units \cup added
      BY <2>1, <2>2 DEF Units, Stored, BudgetInvariant, EvidenceTypes
    <3>2. IsFiniteSet(added)
      BY UpTo, FS_Singleton, FS_Product
    <3> HIDE DEF added
    <3> QED BY <3>1, <3>2, UnitsFinite, FS_Union, FS_Subset, FS_CardinalityType
        DEF BudgetInvariant, TotalBytes
  <2>6. ArtifactBudgetKept'
    BY <2>3, <2>4, <2>5, BudgetAssumption DEF Room, ArtifactBudgetKept
  <2>7. RoomStays'
    <3>1. ASSUME NEW t \in Saves, saveStep'[t] = "opening" PROVE FALSE
      BY <1>1, <2>2, <3>1, SavesAssumption DEF BudgetInvariant, LockHeld, EvidenceTypes
    <3> QED BY <3>1 DEF RoomStays
  <2> QED BY <2>1, <2>6, <2>7 DEF BudgetInvariant
<1> USE SavesAssumption
    DEF BudgetInvariant, EvidenceTypes, SaveSteps, LockHeld, OpenedOnce, SaveGoes
<1>2. ASSUME NEW s \in Saves, BeginSave(s) PROVE BudgetInvariant'
  <2>1. Basics /\ Quiet
    BY <1>2 DEF BeginSave
  <2> QED BY <1>0, <2>1
<1>3. ASSUME NEW s \in Saves, Acquire(s) PROVE BudgetInvariant'
  <2>1. Basics /\ Quiet
    BY <1>3 DEF Acquire, LockFree
  <2> QED BY <1>0, <2>1
<1>4. ASSUME NEW s \in Saves, Busy(s) PROVE BudgetInvariant'
  <2>1. Basics /\ Quiet
    BY <1>4 DEF Busy
  <2> QED BY <1>0, <2>1
<1>5. ASSUME NEW s \in Saves, CountFiles(s) PROVE BudgetInvariant'
  <2>1. Basics /\ Quiet
    BY <1>5 DEF CountFiles
  <2> QED BY <1>0, <2>1
<1>6. ASSUME NEW s \in Saves, WriteFile(s) PROVE BudgetInvariant'
  <2>1. Basics /\ Quiet
    BY <1>6 DEF WriteFile
  <2> QED BY <1>0, <2>1
<1>7. ASSUME NEW s \in Saves, WriteFails(s) PROVE BudgetInvariant'
  <2>1. Basics /\ Quiet
    BY <1>7 DEF WriteFails, FailedSave
  <2> QED BY <1>0, <2>1
<1>8. ASSUME NEW s \in Saves, Release(s) PROVE BudgetInvariant'
  <2>1. Basics /\ Quiet
    BY <1>8 DEF Release
  <2> QED BY <1>0, <2>1
<1>9. ASSUME NEW s \in Saves, SaverDies(s) PROVE BudgetInvariant'
  <2>1. Basics /\ Quiet
    BY <1>9 DEF SaverDies
  <2> QED BY <1>0, <2>1
<1>10. ASSUME NEW s \in Saves, Register(s) PROVE BudgetInvariant'
  <2>1. Basics /\ Quiet
    BY <1>10 DEF Register
  <2> QED BY <1>0, <2>1
<1>11. ASSUME NEW s \in Saves, RecordStep(s) PROVE BudgetInvariant'
  <2>1. Basics /\ Quiet
    BY <1>11 DEF RecordStep
  <2> QED BY <1>0, <2>1
<1>12. CASE LeaseEnds
  <2>1. Basics /\ Quiet
    BY <1>12 DEF LeaseEnds
  <2> QED BY <1>0, <2>1
<1>13. CASE CancelAttempt
  <2>1. Basics /\ Quiet
    BY <1>13 DEF CancelAttempt
  <2> QED BY <1>0, <2>1
<1>14. CASE BeginReport
  <2>1. Basics /\ Quiet
    BY <1>14 DEF BeginReport
  <2> QED BY <1>0, <2>1
<1>15. ASSUME NEW s \in Saves, LoadFile(s) PROVE BudgetInvariant'
  <2>1. Basics /\ Quiet
    BY <1>15 DEF LoadFile
  <2> QED BY <1>0, <2>1
<1>16. CASE EndReport
  <2>1. Basics /\ Quiet
    BY <1>16 DEF EndReport
  <2> QED BY <1>0, <2>1
<1>17. CASE UNCHANGED evidenceVars
  <2>1. Basics /\ Quiet
    BY <1>17 DEF evidenceVars
  <2> QED BY <1>0, <2>1
<1> QED BY <1>1, <1>2, <1>3, <1>4, <1>5, <1>6, <1>7, <1>8, <1>9, <1>10, <1>11, <1>12, <1>13, <1>14, <1>15, <1>16, <1>17 DEF EvidenceNext, WriterStep, RegisterStep, ReportStep

(* The files of an attempt stay within its budget, whoever writes them and *)
(* whatever a writer that died left behind: ArtifactBudgetKept.            *)
THEOREM BudgetIsKept == EvidenceSpec => []ArtifactBudgetKept
<1>1. EvidenceInit => BudgetInvariant
  <2> SUFFICES ASSUME EvidenceInit PROVE BudgetInvariant
    OBVIOUS
  <2>1. EvidenceTypes /\ LockHeld /\ OpenedOnce /\ RoomStays /\ Stored = {}
    BY DEF EvidenceInit, EvidenceTypes, SaveSteps, LockHeld, OpenedOnce, RoomStays, Stored
  <2>2. Units = {}
    BY <2>1 DEF Units
  <2> QED BY <2>1, <2>2, FS_EmptySet, BudgetAssumption
      DEF BudgetInvariant, ArtifactBudgetKept, TotalBytes
<1>2. BudgetInvariant => ArtifactBudgetKept
  BY DEF BudgetInvariant
<1> QED BY <1>1, <1>2, EvidenceStepKeepsBudget, PTL DEF EvidenceSpec
=============================================================================
