---------------------------- MODULE Destinations ----------------------------
(***************************************************************************)
(* Where a browser on a public site may connect to: the scope of a run is  *)
(* admitted by the API and again before the browser is bought              *)
(* (src/server/target-policy.ts, execution/public-cloud.ts), and every     *)
(* request of the browser is parsed, authorized and resolved on its own by *)
(* the transport (execution/public-transport.ts), which then dials the     *)
(* address it has checked.                                                 *)
(*                                                                         *)
(* The name servers may answer differently each time they are asked, also  *)
(* to the two queries of one request.  A link is a record: its host, its   *)
(* scheme, the segments of its path, and whether it is spelled in one of   *)
(* the ways the parsers refuse.  Headers and bodies are only their size.   *)
(***************************************************************************)
EXTENDS Integers, FiniteSets, SequencesExt

CONSTANTS
  Operations,               (* slots for requests in flight                 *)
  Links,                    (* what a page may ask for or redirect to       *)
  ScopeHosts, ScopeSecure, PathPrefixes, (* targetScope of the run          *)
  PublicLiterals, PrivateLiterals, (* hosts that are IP addresses           *)
  ControlHosts,             (* of the provider                              *)
  RequestLimit, Concurrency, RedirectLimit, ByteLimit,
  MaxAnswers                (* bounds how often a name server changes its mind *)

Families == {4, 6}
Literals == PublicLiterals \cup PrivateLiterals
Names == (ScopeHosts \cup {l.host : l \in Links}) \ Literals
Addresses == {"public", "private"}

VARIABLES
  answers, answered,        (* what DNS says of each name now; its changes  *)
  admission, unresolved,    (* of the run, and its unanswered lookups       *)
  operation,                (* the requests in flight                       *)
  transportOver,            (* the transport's terminal error               *)
  attempts, redirects, spent (* its counters                                *)

destinationVars == <<answers, answered, admission, unresolved, operation, transportOver, attempts,
                     redirects, spent>>
counters == <<attempts, redirects, spent>>
dnsVars == <<answers, answered>>
runVars == <<admission, unresolved>>
-----------------------------------------------------------------------------
(* parseTargetUrl() and safePath(): one spelling of every link. *)
Parsed(l) == l.plain

(* policy(): the origins of the scope all have the scheme of its target.   *)
InOrigins(l) == l.host \in ScopeHosts /\ l.secure = ScopeSecure

(* admit(): the path is under one of the prefixes, segment by segment.     *)
Admitted(l) == InOrigins(l) /\ \E prefix \in PathPrefixes : IsPrefix(prefix, l.path)

(* redirectUrl(), and no way back from https to http. *)
Followable(from, l) == Parsed(l) /\ (from.secure => l.secure)

(* publicExecutionPolicy(): a document is in scope; an asset may be        *)
(* anywhere but at the provider's own hosts.                               *)
MayAsk(l, kind) ==
  Parsed(l) /\ l.host \notin ControlHosts /\ (kind = "navigation" => Admitted(l))

(* checkAddress(), resolve(): every address of the answer must be public.  *)
SafeAnswer(found) == found = {"public"}
AllOf(name) == UNION {answers[name][f] : f \in Families}

Free == [at |-> "free"]
Pending == {o \in Operations : operation[o] # Free}
At(o) == operation[o].at
Put(o, value) == operation' = [operation EXCEPT ![o] = value]

(* The address lookup() hands to the connection: the first that was        *)
(* checked.  Faulty variant: the name is looked up again for the dial.     *)
AskedAgain(o) ==
  LET host == operation[o].link.host IN IF host \in Literals THEN {"public"} ELSE AllOf(host)
Pinned(o) == operation[o].found
-----------------------------------------------------------------------------
(* validateTargetScope() asks for all hosts of the scope at once; one      *)
(* unsafe answer, a failure or a timeout refuses it.                       *)
BeginAdmission(stage) == admission' = stage /\ unresolved' = ScopeHosts \ Literals

AdmitHost(h) ==
  /\ admission \in {"submitted", "launching"} /\ h \in unresolved
  /\ \/ /\ SafeAnswer(AllOf(h))
        /\ unresolved' = unresolved \ {h}
        /\ admission' = IF unresolved' # {} THEN admission
                        ELSE IF admission = "submitted" THEN "queued" ELSE "open"
     \/ admission' = "refused" /\ unresolved' = {}
  /\ UNCHANGED <<dnsVars, operation, transportOver, counters>>

(* The worker has claimed the run: createPublicExecution(). *)
OpenBrowser ==
  /\ admission = "queued" /\ BeginAdmission("launching")
  /\ UNCHANGED <<dnsVars, operation, transportOver, counters>>

(* resolve(): a name needs both queries, an address none. *)
Resolving(l, kind, at) ==
  IF l.host \in PublicLiterals
  THEN [at |-> "dialing", link |-> l, kind |-> kind, unanswered |-> {}, found |-> {"public"}]
  ELSE [at |-> at, link |-> l, kind |-> kind, unanswered |-> Families, found |-> {}]
Unresolvable(l) == l.host \in PrivateLiterals

Overspends(n) == spent + n > ByteLimit

(* A method, a body or headers the transport does not take. *)
Unsupported ==
  /\ admission = "open" /\ ~transportOver /\ attempts < RequestLimit /\ attempts' = attempts + 1
  /\ UNCHANGED <<dnsVars, runVars, operation, transportOver, redirects, spent>>

(* request() and run() up to its first await.  Too many in flight still    *)
(* uses up an attempt; the bytes of a request count before it is allowed.  *)
Request(o, l, kind) ==
  /\ admission = "open" /\ ~transportOver /\ operation[o] = Free /\ attempts < RequestLimit
  /\ attempts' = attempts + 1
  /\ UNCHANGED <<dnsVars, runVars, redirects>>
  /\ \/ /\ \/ Cardinality(Pending) >= Concurrency
           \/ ~Parsed(l)
        /\ UNCHANGED <<operation, transportOver, spent>>
     \/ /\ Cardinality(Pending) < Concurrency /\ Parsed(l)
        /\ IF Overspends(1) THEN transportOver' = TRUE /\ UNCHANGED <<operation, spent>>
           ELSE /\ spent' = spent + 1 /\ UNCHANGED transportOver
                /\ IF MayAsk(l, kind) /\ ~Unresolvable(l)
                   THEN Put(o, Resolving(l, kind, "resolving"))
                   ELSE UNCHANGED operation

(* One of the two queries is answered.  After the second all addresses are *)
(* checked, and the authorization once more.                               *)
Answer(o, f) ==
  LET this == operation[o]
      found == this.found \cup answers[this.link.host][f]
      left == this.unanswered \ {f} IN
  /\ At(o) \in {"resolving", "redirecting"} /\ f \in this.unanswered /\ ~transportOver
  /\ IF left # {} THEN Put(o, [this EXCEPT !.unanswered = left, !.found = found])
     ELSE IF SafeAnswer(found) /\ MayAsk(this.link, this.kind) /\ this.at = "resolving"
     THEN Put(o, [this EXCEPT !.at = "dialing", !.unanswered = {}, !.found = found])
     ELSE Put(o, Free)
  /\ UNCHANGED <<dnsVars, runVars, transportOver, counters>>

Dial(o, address) ==
  /\ At(o) = "dialing" /\ ~transportOver /\ address \in Pinned(o)
  /\ Put(o, [operation[o] EXCEPT !.at = "connected", !.found = {address}])
  /\ UNCHANGED <<dnsVars, runVars, transportOver, counters>>

(* Received bytes count before they are parsed: too many stop everything.  *)
Receive(o) ==
  /\ At(o) = "connected" /\ ~transportOver
  /\ UNCHANGED <<dnsVars, runVars, attempts, redirects>>
  /\ IF Overspends(1) THEN transportOver' = TRUE /\ UNCHANGED <<operation, spent>>
     ELSE /\ spent' = spent + 1 /\ UNCHANGED transportOver
          /\ Put(o, [operation[o] EXCEPT !.at = "answered"])

(* A response without a redirect is handed to the browser, or refused for  *)
(* its headers: either way the request is settled.                         *)
Conclude(o) ==
  /\ At(o) = "answered" /\ ~transportOver
  /\ Put(o, Free) /\ UNCHANGED <<dnsVars, runVars, transportOver, counters>>

(* A redirect counts against its limit and is checked like a request, but  *)
(* not followed: the browser asks for it again.  One to an address is      *)
(* settled at once.                                                        *)
FollowRedirect(o, l) ==
  LET this == operation[o] IN
  /\ At(o) = "answered" /\ ~transportOver /\ redirects < RedirectLimit
  /\ redirects' = redirects + 1
  /\ IF Followable(this.link, l) /\ MayAsk(l, this.kind) /\ l.host \notin Literals
     THEN Put(o, Resolving(l, this.kind, "redirecting"))
     ELSE Put(o, Free)
  /\ UNCHANGED <<dnsVars, runVars, transportOver, attempts, spent>>

(* A timeout, a failing lookup, headers or a response of an unsupported    *)
(* shape, the caller's signal, or the end of the transport.                *)
RequestFails(o) ==
  /\ o \in Pending /\ Put(o, Free)
  /\ UNCHANGED <<dnsVars, runVars, transportOver, counters>>

(* close(), a lost lease, the end of the job, the limit of its duration. *)
StopTransport ==
  /\ admission = "open" /\ ~transportOver /\ transportOver' = TRUE
  /\ UNCHANGED <<dnsVars, runVars, operation, counters>>

DnsChanges(name, f, found) ==
  /\ answered < MaxAnswers /\ found # answers[name][f]
  /\ answered' = answered + 1
  /\ answers' = [answers EXCEPT ![name][f] = found]
  /\ UNCHANGED <<runVars, operation, transportOver, counters>>
-----------------------------------------------------------------------------
DestinationInit ==
  /\ answers = [n \in Names |-> [f \in Families |-> {"public"}]] /\ answered = 0
  /\ admission = "submitted" /\ unresolved = ScopeHosts \ Literals
  /\ operation = [o \in Operations |-> Free]
  /\ transportOver = FALSE /\ attempts = 0 /\ redirects = 0 /\ spent = 0

OperationStep(o) ==
  \/ \E l \in Links, kind \in {"navigation", "asset"} : Request(o, l, kind)
  \/ \E f \in Families : Answer(o, f)
  \/ \E address \in Addresses : Dial(o, address)
  \/ Receive(o) \/ Conclude(o) \/ RequestFails(o)
  \/ \E l \in Links : FollowRedirect(o, l)

DestinationNext ==
  \/ \E h \in ScopeHosts : AdmitHost(h)
  \/ OpenBrowser
  \/ Unsupported
  \/ \E o \in Operations : OperationStep(o)
  \/ StopTransport
  \/ \E n \in Names, f \in Families, found \in SUBSET Addresses : DnsChanges(n, f, found)

DestinationSpec == DestinationInit /\ [][DestinationNext]_destinationVars
-----------------------------------------------------------------------------
(* Whatever the name servers answer, and whenever they change their minds, *)
(* the transport is connected to public addresses only.                    *)
OnlyPublicConnections ==
  \A o \in Operations : At(o) \in {"connected", "answered"} => operation[o].found = {"public"}
=============================================================================
