--------------------------- MODULE PublicNetwork ---------------------------
(***************************************************************************)
(* The network of a browser on a public site: every request of its page    *)
(* and of the extension's worker is paused by the debugger and answered by *)
(* a handler of installNetwork() (src/server/execution/public-network.ts), *)
(* through the transport of the page (public-transport.ts) or the one of   *)
(* the model gateway (gateway-transport.ts).                               *)
(*                                                                         *)
(* A handler is a sequence of awaits: the lease may be lost, the network   *)
(* tripped or closed in each of them.  Bytes, headers, addresses and the   *)
(* counters behind the limits are left out: exceeding one is a failure, or *)
(* a stop of the transport, that may happen wherever the code checks it.   *)
(***************************************************************************)
EXTENDS Integers, FiniteSets

CONSTANTS
  PageRequests, GatewayRequests, Urls,
  HandlerLimit,            (* 32 *)
  PermitLimit,             (* 8 *)
  GatewayConcurrency       (* 2 *)

VARIABLES
  networkLease,            (* "held", "lost" unnoticed, or its signal "aborted" *)
  fatal,                   (* tripped: onFatal() was called                 *)
  attached,                (* debugger sessions: "none", "gateway", "all"   *)
  networkClosing,          (* "no", "transports", "targets", "done", "failed" *)
  pageStopped, gatewayStopped, (* a transport's terminal error              *)
  url,                     (* of each request of the page                   *)
  at,                      (* position of each request's handler            *)
  permits                  (* requests whose browser headers may be sent    *)

networkVars == <<networkLease, fatal, attached, networkClosing, pageStopped, gatewayStopped, url,
                 at,
                 permits>>
sessionVars == <<networkLease, fatal, attached, networkClosing, pageStopped, gatewayStopped, url>>

Requests == PageRequests \cup GatewayRequests

(* "left": paused in the browser without a handler. *)
Handlers == {r \in Requests : at[r] \notin {"new", "left", "done"}}
PageOperations == {r \in PageRequests : at[r] \in {"resolving", "connected", "redirecting"}}
GatewayOperations == {r \in GatewayRequests : at[r] = "connected"}

(* active(): throws unless all of this holds. *)
NetworkActive == networkLease = "held" /\ networkClosing = "no" /\ ~fatal

(* The transports' own checks; the gateway's includes the network's.       *)
PageLive == ~pageStopped /\ networkLease = "held"
GatewayLive == ~gatewayStopped /\ NetworkActive

(* active() again after an await.  Faulty variant: trusted from before.    *)
TrustedFromBefore == TRUE
StillActive == NetworkActive

MoveTo(r, position) == at' = [at EXCEPT ![r] = position]

(* The catch block of a handler: Fetch.failRequest. *)
FailRequest(r) == MoveTo(r, "aborting")

(* browserHeaderPermits(): permits are told apart by identity.             *)
Authorized(r) == \E p \in permits : url[p] = url[r]

(* finally: the permit ends with the handler. *)
Complete(r) == MoveTo(r, "done") /\ permits' = permits \ {r} /\ UNCHANGED sessionVars
-----------------------------------------------------------------------------
(* The debugger reports a paused request.  Too many handlers trip the      *)
(* network; a request of an unsupported shape is failed.                   *)
Paused(r) ==
  /\ at[r] = "new"
  /\ attached = "all" \/ (attached = "gateway" /\ r \in GatewayRequests)
  /\ networkClosing = "no" /\ ~fatal /\ networkLease # "aborted"
  /\ UNCHANGED <<networkLease, attached, networkClosing, pageStopped, gatewayStopped, url, permits>>
  /\ IF Cardinality(Handlers) >= HandlerLimit THEN fatal' = TRUE /\ MoveTo(r, "left")
     ELSE /\ UNCHANGED fatal
          /\ \/ /\ NetworkActive
                /\ MoveTo(r, IF r \in PageRequests THEN "verifying" ELSE "identifying")
             \/ FailRequest(r)

(* A page request was verified: its permit is bound and the transport      *)
(* reserves an operation, which runs until it waits for the name server.   *)
Bind(r) ==
  /\ r \in PageRequests /\ at[r] = "verifying"
  /\ UNCHANGED sessionVars
  /\ IF StillActive /\ Cardinality(permits) < PermitLimit
     THEN /\ permits' = permits \cup {r}
          /\ \/ PageLive /\ MoveTo(r, "resolving")
             \/ FailRequest(r)             (* refused by the transport     *)
     ELSE FailRequest(r) /\ UNCHANGED permits

(* verifyActive(), a request to the browser or the target fails. *)
AwaitFails(r) ==
  /\ at[r] \in {"verifying", "identifying", "reading", "confirming"}
  /\ FailRequest(r) /\ UNCHANGED <<sessionVars, permits>>

(* The address is known and public: authorized again, then connected.      *)
Resolve(r) ==
  /\ at[r] = "resolving"
  /\ IF PageLive /\ Authorized(r) THEN MoveTo(r, "connected") ELSE FailRequest(r)
  /\ UNCHANGED <<sessionVars, permits>>

(* The transport's promise resolves, and the handler goes on.              *)
Deliver(r) == IF StillActive THEN MoveTo(r, "confirming") ELSE FailRequest(r)

Respond(r) ==
  /\ r \in PageOperations /\ at[r] = "connected" /\ PageLive
  /\ Deliver(r) \/ MoveTo(r, "redirecting")
  /\ UNCHANGED <<sessionVars, permits>>

(* A redirect is delivered once its destination was resolved, too.         *)
Redirect(r) ==
  /\ at[r] = "redirecting" /\ PageLive
  /\ Deliver(r)
  /\ UNCHANGED <<sessionVars, permits>>

(* Timeout, refusal by a name server or a peer, a response that breaks the *)
(* rules, a limit, the guard's timer, or the transport's stop.             *)
OperationFails(r) ==
  /\ r \in PageOperations \cup GatewayOperations
  /\ FailRequest(r) /\ UNCHANGED <<sessionVars, permits>>
-----------------------------------------------------------------------------
(* A request of the extension: it must come from the target it came from   *)
(* before.                                                                 *)
Identify(r) ==
  /\ at[r] = "identifying"
  /\ IF NetworkActive THEN MoveTo(r, "verifying") ELSE FailRequest(r)
  /\ UNCHANGED <<sessionVars, permits>>

(* Telemetry is denied on the spot (too much of it trips the network); a   *)
(* request to the gateway needs its body.                                  *)
Admit(r) ==
  /\ r \in GatewayRequests /\ at[r] = "verifying"
  /\ UNCHANGED <<networkLease, attached, networkClosing, pageStopped, gatewayStopped, url, permits>>
  /\ IF ~StillActive THEN FailRequest(r) /\ UNCHANGED fatal
     ELSE \/ MoveTo(r, "denying") /\ UNCHANGED fatal
          \/ fatal' = TRUE /\ FailRequest(r)
          \/ MoveTo(r, "reading") /\ UNCHANGED fatal

(* The body was read: charged with onDispatch() and sent, or refused.      *)
Dispatch(r) ==
  /\ at[r] = "reading"
  /\ \/ GatewayLive /\ Cardinality(GatewayOperations) < GatewayConcurrency /\ MoveTo(r, "connected")
     \/ FailRequest(r)
  /\ UNCHANGED <<sessionVars, permits>>

GatewayAnswers(r) ==
  /\ r \in GatewayOperations
  /\ IF GatewayLive THEN MoveTo(r, "confirming") ELSE FailRequest(r)
  /\ UNCHANGED <<sessionVars, permits>>
-----------------------------------------------------------------------------
(* Verified once more before the browser gets the answer. *)
Confirm(r) ==
  /\ at[r] = "confirming"
  /\ IF StillActive THEN MoveTo(r, "fulfilling") ELSE FailRequest(r)
  /\ UNCHANGED <<sessionVars, permits>>

(* Fetch.fulfillRequest is answered.  Only the gateway's answer is not     *)
(* followed by another check.                                              *)
Fulfilled(r) ==
  /\ at[r] \in {"fulfilling", "denying"} /\ networkClosing \in {"no", "transports"}
  /\ IF NetworkActive \/ (r \in GatewayRequests /\ at[r] = "fulfilling") THEN Complete(r)
     ELSE FailRequest(r) /\ UNCHANGED <<sessionVars, permits>>

(* It fails: no answer in ten seconds, or the target is closed. *)
FulfillFails(r) ==
  /\ at[r] \in {"fulfilling", "denying"}
  /\ FailRequest(r) /\ UNCHANGED <<sessionVars, permits>>

Aborted(r) == at[r] = "aborting" /\ Complete(r)
-----------------------------------------------------------------------------
(* Attaching to the extension's targets and then to the page, which ends   *)
(* the installation.                                                       *)
Attach ==
  /\ NetworkActive /\ attached # "all"
  /\ attached' = IF attached = "none" THEN "gateway" ELSE "all"
  /\ UNCHANGED <<networkLease, fatal, networkClosing, pageStopped, gatewayStopped, url, at,
                 permits>>

(* A debugger session fails, a target of the extension changes or is gone, *)
(* or there were too many reports.                                         *)
Trip ==
  /\ ~fatal /\ networkClosing = "no" /\ attached # "none"
  /\ fatal' = TRUE
  /\ UNCHANGED <<networkLease, attached, networkClosing, pageStopped, gatewayStopped, url, at,
                 permits>>

LoseLease ==
  /\ \/ networkLease = "held" /\ networkLease' \in {"lost", "aborted"}
     \/ networkLease = "lost" /\ networkLease' = "aborted"
  /\ UNCHANGED <<fatal, attached, networkClosing, pageStopped, gatewayStopped, url, at, permits>>

(* stop(): bytes, duration or, at the gateway, requests are used up.       *)
Stop ==
  /\ \/ ~pageStopped /\ pageStopped' = TRUE /\ UNCHANGED gatewayStopped
     \/ ~gatewayStopped /\ gatewayStopped' = TRUE /\ UNCHANGED pageStopped
  /\ UNCHANGED <<networkLease, fatal, attached, networkClosing, url, at, permits>>

(* close(), after an installation that failed or at the end of the job.    *)
BeginNetworkClose ==
  /\ networkClosing = "no"
  /\ networkClosing' = "transports"
  /\ pageStopped' = TRUE /\ gatewayStopped' = TRUE
  /\ UNCHANGED <<networkLease, fatal, attached, url, at, permits>>

(* Both transports have drained: the targets are closed. *)
CloseTargets ==
  /\ networkClosing = "transports" /\ PageOperations = {} /\ GatewayOperations = {}
  /\ networkClosing' = "targets"
  /\ UNCHANGED <<networkLease, fatal, attached, pageStopped, gatewayStopped, url, at, permits>>

EndNetworkClose ==
  /\ networkClosing = "targets" /\ Handlers = {}
  /\ networkClosing' \in {"done", "failed"}
  /\ permits' = {}
  /\ UNCHANGED <<networkLease, fatal, attached, pageStopped, gatewayStopped, url, at>>
-----------------------------------------------------------------------------
NetworkInit ==
  /\ networkLease = "held" /\ fatal = FALSE /\ attached = "none" /\ networkClosing = "no"
  /\ pageStopped = FALSE /\ gatewayStopped = FALSE
  /\ url \in [PageRequests -> Urls]
  /\ at = [r \in Requests |-> "new"]
  /\ permits = {}

HandlerStep(r) ==
  \/ Paused(r) \/ Bind(r) \/ AwaitFails(r) \/ Resolve(r) \/ Respond(r) \/ Redirect(r)
  \/ OperationFails(r) \/ Identify(r) \/ Admit(r) \/ Dispatch(r) \/ GatewayAnswers(r)
  \/ Confirm(r) \/ Fulfilled(r) \/ FulfillFails(r) \/ Aborted(r)
CloseNetwork == BeginNetworkClose \/ CloseTargets \/ EndNetworkClose

NetworkNext ==
  \/ \E r \in Requests : HandlerStep(r)
  \/ Attach \/ Trip \/ LoseLease \/ Stop \/ CloseNetwork

NetworkSpec == NetworkInit /\ [][NetworkNext]_networkVars
-----------------------------------------------------------------------------

(* Once the lease is lost, the network tripped or its closing has begun,   *)
(* no handler starts an operation or gives the browser an answer, whatever *)
(* it had verified before its last await.                                  *)
NetworkEnded == networkLease # "held" \/ fatal \/ networkClosing # "no"
Effects == {r \in Requests : at[r] \in {"resolving", "fulfilling", "denying"}}
NothingAfterEnd == [][NetworkEnded => Effects' \subseteq Effects]_networkVars

=============================================================================
