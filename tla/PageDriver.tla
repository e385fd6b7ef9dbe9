----------------------------- MODULE PageDriver -----------------------------
(***************************************************************************)
(* The driver of a page, ScopedBrowserDriver (execution/driver.ts): the    *)
(* loop asks it to observe and to act, the page navigates and reports on   *)
(* its own, the network of a controlled site (fixture-network.ts) refuses  *)
(* requests, and the attempt may be over in the middle of an operation,    *)
(* which then goes on while the driver is closed.                          *)
(*                                                                         *)
(* A document has a number; an observation marks the candidates in it.     *)
(* Left out: what is visible, which values an action may have, the         *)
(* read-only driver's links, and the keyboard, whose keys go to whatever   *)
(* has the focus.                                                          *)
(***************************************************************************)
EXTENDS Integers, FiniteSets

CONSTANTS
  MaxDocuments,    (* bound: documents the page shows                       *)
  MaxRecords,      (* bound: telemetry records                              *)
  TelemetryLimit   (* 256: records kept between two observations            *)

VARIABLES
  document,        (* [n: its number, url: "a", "b" or "out" of scope]      *)
  marked,          (* the document that carries the marks                   *)
  candidatesOf,    (* the document the driver's candidates were found in    *)
  lastUrl,         (* lastObservationUrl                                    *)
  driverStep,      (* the operation underway, "idle" between two            *)
  driverStopped,   (* the signal is aborted, or the lease is lost           *)
  unsupported, networkFailed, limited,
  telemetry,       (* records the driver holds                              *)
  taken,           (* [by observe(), by close()] records being written      *)
  saved, unsaved,  (* records written, and those whose write failed         *)
  recorded,        (* number of records kept so far                         *)
  closeStep,       (* "no", "writing", "closing" or "done"                  *)
  closeFailed,     (* telemetry_write_failed                                *)
  hit              (* [of, at]: candidates' document, and the one acted on  *)

pageFacts == <<document, marked>>
viewFacts == <<candidatesOf, lastUrl>>
driverFlags == <<driverStopped, unsupported, networkFailed, limited>>
recordFacts == <<telemetry, taken, saved, unsaved, recorded>>
closingFacts == <<closeStep, closeFailed>>
driverVars ==
  <<pageFacts, viewFacts, driverStep, driverFlags, recordFacts, closingFacts, hit>>

PageUrls == {"a", "b", "out"}
NoDocument == 0
-----------------------------------------------------------------------------
(* guard(): checked again after every await. *)
Passes ==
  /\ ~driverStopped /\ closeStep = "no" /\ ~unsupported /\ ~networkFailed /\ ~limited
  /\ document.url # "out"

(* The operation goes on to the next step, or throws. *)
GoOn(from, to) == driverStep = from /\ driverStep' = IF Passes THEN to ELSE "thrown"

(* observe(): the page's script marks the candidates of its document, *)
Observe ==
  /\ GoOn("idle", "evaluating")
  /\ UNCHANGED <<pageFacts, viewFacts, driverFlags, recordFacts, closingFacts, hit>>

Evaluate ==
  /\ driverStep = "evaluating" /\ marked' = document.n /\ driverStep' = "evaluated"
  /\ UNCHANGED <<document, viewFacts, driverFlags, recordFacts, closingFacts, hit>>

(* and the driver keeps them, with the address the page has by now. *)
Remember ==
  /\ GoOn("evaluated", "shooting")
  /\ IF Passes THEN candidatesOf' = marked /\ lastUrl' = document.url ELSE UNCHANGED viewFacts
  /\ UNCHANGED <<pageFacts, driverFlags, recordFacts, closingFacts, hit>>

Shoot ==
  /\ GoOn("shooting", "verifying")
  /\ UNCHANGED <<pageFacts, viewFacts, driverFlags, recordFacts, closingFacts, hit>>

(* The telemetry is taken out of the driver before it is written: what the *)
(* page reports during the write waits for the next one.  Faulty variant:  *)
(* the driver is emptied when the write is over.                           *)
Emptied == {}
AfterWrite == telemetry

Verify ==
  /\ driverStep = "verifying"
  /\ IF telemetry = {} THEN driverStep' = "returning" /\ UNCHANGED <<telemetry, taken>>
     ELSE /\ driverStep' = "writing" /\ taken' = [taken EXCEPT !.observe = telemetry]
          /\ telemetry' = {}
  /\ UNCHANGED <<pageFacts, viewFacts, driverFlags, saved, unsaved, recorded, closingFacts, hit>>

WriteTelemetry(works) ==
  /\ driverStep = "writing" /\ taken' = [taken EXCEPT !.observe = {}]
  /\ IF works THEN saved' = saved \cup taken.observe /\ driverStep' = "returning" /\ UNCHANGED unsaved
     ELSE unsaved' = unsaved \cup taken.observe /\ driverStep' = "thrown" /\ UNCHANGED saved
  /\ telemetry' = AfterWrite
  /\ UNCHANGED <<pageFacts, viewFacts, driverFlags, recorded, closingFacts, hit>>

(* The observation is returned, or an operation of the browser fails. *)
Return ==
  /\ GoOn("returning", "idle")
  /\ UNCHANGED <<pageFacts, viewFacts, driverFlags, recordFacts, closingFacts, hit>>

DriverFails ==
  /\ driverStep \in {"evaluating", "shooting", "verifying", "locating", "acting"} /\ driverStep' = "thrown"
  /\ UNCHANGED <<pageFacts, viewFacts, driverFlags, recordFacts, closingFacts, hit>>
-----------------------------------------------------------------------------
(* act() needs an observation of the address the page has.  A candidate's  *)
(* marked element is looked up, and looked up again when it is clicked,    *)
(* filled or chosen from; other actions, scrolling say, have no candidate. *)
(* Faulty variant: the element is found again by what it looks like.       *)
Act ==
  /\ driverStep = "idle" /\ lastUrl # "none"
  /\ driverStep' \in IF Passes /\ lastUrl = document.url THEN {"locating", "settling"} ELSE {"thrown"}
  /\ UNCHANGED <<pageFacts, viewFacts, driverFlags, recordFacts, closingFacts, hit>>

FoundByLabel == TRUE
Found == marked = document.n

Locate ==
  /\ driverStep = "locating" /\ driverStep' = IF Found /\ Passes THEN "acting" ELSE "thrown"
  /\ UNCHANGED <<pageFacts, viewFacts, driverFlags, recordFacts, closingFacts, hit>>

DispatchAction ==
  /\ driverStep = "acting" /\ Found
  /\ hit' = [of |-> candidatesOf, at |-> document.n] /\ driverStep' = "settling"
  /\ UNCHANGED <<pageFacts, viewFacts, driverFlags, recordFacts, closingFacts>>

SettleAction ==
  /\ GoOn("settling", "idle")
  /\ UNCHANGED <<pageFacts, viewFacts, driverFlags, recordFacts, closingFacts, hit>>
-----------------------------------------------------------------------------
(* The page: it navigates, by itself or because of an action, and reports. *)
Navigate(url) ==
  /\ document.n < MaxDocuments /\ document' = [n |-> document.n + 1, url |-> url]
  /\ UNCHANGED <<marked, viewFacts, driverStep, driverFlags, recordFacts, closingFacts, hit>>

(* record(): over the limit it is not kept, and the attempt will fail. *)
Keep ==
  IF Cardinality(telemetry) >= TelemetryLimit
  THEN limited' = TRUE /\ UNCHANGED <<telemetry, recorded>>
  ELSE telemetry' = telemetry \cup {recorded + 1} /\ recorded' = recorded + 1 /\ UNCHANGED limited

ReportSignal ==
  /\ recorded < MaxRecords /\ Keep
  /\ UNCHANGED <<pageFacts, viewFacts, driverStep, driverStopped, unsupported, networkFailed,
                 taken, saved,
                 unsaved, closingFacts, hit>>

(* The network denies a request or a tab, or its transport fails. *)
Refuse ==
  /\ recorded < MaxRecords /\ Keep
  /\ \/ UNCHANGED <<unsupported, networkFailed>>
     \/ unsupported' = TRUE /\ UNCHANGED networkFailed
     \/ networkFailed' = TRUE /\ UNCHANGED unsupported
  /\ UNCHANGED <<pageFacts, viewFacts, driverStep, driverStopped, taken, saved, unsaved,
                 closingFacts, hit>>

AttemptStops ==
  /\ ~driverStopped /\ driverStopped' = TRUE
  /\ UNCHANGED <<pageFacts, viewFacts, driverStep, unsupported, networkFailed, limited, recordFacts,
                 closingFacts, hit>>
-----------------------------------------------------------------------------
(* close(): called between two operations, after one that threw, or with   *)
(* one underway that the loop no longer waits for.                         *)
CloseOnce ==
  /\ closeStep = "no" /\ (driverStopped \/ driverStep \in {"idle", "thrown"})
  /\ IF telemetry = {} THEN closeStep' = "closing" /\ UNCHANGED <<telemetry, taken>>
     ELSE closeStep' = "writing" /\ taken' = [taken EXCEPT !.close = telemetry] /\ telemetry' = {}
  /\ UNCHANGED <<pageFacts, viewFacts, driverStep, driverFlags, saved, unsaved, recorded,
                 closeFailed,
                 hit>>

WriteLast(works) ==
  /\ closeStep = "writing" /\ closeStep' = "closing" /\ taken' = [taken EXCEPT !.close = {}]
  /\ IF works THEN saved' = saved \cup taken.close /\ UNCHANGED <<unsaved, closeFailed>>
     ELSE unsaved' = unsaved \cup taken.close /\ closeFailed' = TRUE /\ UNCHANGED saved
  /\ UNCHANGED <<pageFacts, viewFacts, driverStep, driverFlags, telemetry, recorded, hit>>

CloseBrowser ==
  /\ closeStep = "closing" /\ closeStep' = "done"
  /\ UNCHANGED <<pageFacts, viewFacts, driverStep, driverFlags, recordFacts, closeFailed, hit>>
-----------------------------------------------------------------------------
DriverInit ==
  /\ document = [n |-> 1, url |-> "a"] /\ marked = NoDocument
  /\ candidatesOf = NoDocument /\ lastUrl = "none" /\ driverStep = "idle"
  /\ driverStopped = FALSE /\ unsupported = FALSE /\ networkFailed = FALSE /\ limited = FALSE
  /\ telemetry = {} /\ taken = [observe |-> {}, close |-> {}] /\ saved = {} /\ unsaved = {}
  /\ recorded = 0 /\ closeStep = "no" /\ closeFailed = FALSE
  /\ hit = [of |-> NoDocument, at |-> NoDocument]

ObserveStep ==
  \/ Observe \/ Evaluate \/ Remember \/ Shoot \/ Verify
  \/ (\E works \in BOOLEAN : WriteTelemetry(works)) \/ Return \/ DriverFails
ActStep == Act \/ Locate \/ DispatchAction \/ SettleAction
PageEvent == (\E url \in PageUrls : Navigate(url)) \/ ReportSignal \/ Refuse \/ AttemptStops
CloseDriverStep == CloseOnce \/ (\E works \in BOOLEAN : WriteLast(works)) \/ CloseBrowser

DriverNext == ObserveStep \/ ActStep \/ PageEvent \/ CloseDriverStep

DriverSpec == DriverInit /\ [][DriverNext]_driverVars
-----------------------------------------------------------------------------
(* What an action clicks, fills or chooses from is in the document its     *)
(* candidates were found in, however often the page navigated since, even  *)
(* to the same address (act()).                                            *)
HitsWhatWasObserved == hit.of = hit.at

(* Every record that was kept is held, being written, written, or its      *)
(* write failed: none is forgotten and none is written twice, although the *)
(* page reports during the writes and an abandoned observation writes      *)
(* beside close() (observe(), closeOnce()).                                *)
TelemetryAccounted ==
  LET parts == <<telemetry, taken.observe, taken.close, saved, unsaved>> IN
  /\ UNION {parts[i] : i \in 1..5} = 1..recorded
  /\ \A i, j \in 1..5 : i # j => parts[i] \cap parts[j] = {}
=============================================================================
