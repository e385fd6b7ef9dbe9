------------------------------- MODULE Replay -------------------------------
(***************************************************************************)
(* Watching a recording: createReplayAdapter() of reports/replay.ts, which *)
(* the routes of server/api.ts call for recordings that are over and whose *)
(* viewer has just been authorised.  The adapter asks the provider for the *)
(* pages of a session and the playlists of a page, and keeps the promises; *)
(* it downloads segments, and keeps none of them.                          *)
(*                                                                         *)
(* A promise is its place in work, so a cached promise is shared by the    *)
(* calls that await it.  Time is only that an entry's age or the minute of *)
(* the budget are over.  Left out: the text of playlists, the media, and   *)
(* calls that authorize() turns away, which change nothing.                *)
(***************************************************************************)
EXTENDS Integers, Sequences, FiniteSets

CONSTANTS
  Recordings,                  (* sessions with a recording                 *)
  RequestLimit, FlightLimit,   (* requests per minute and at a time         *)
  CacheLimit, ManifestLimit,   (* entries, and playlists of an entry        *)
  MaxPages, MaxWorks, MaxCalls (* bounds                                    *)

ASSUME ReplayAssumption == FlightLimit \in Nat /\ MaxPages \in Nat

VARIABLES
  work,            (* promises: Running, Rejected or a number of pages      *)
  requests, inFlight, minuteOver,
  entries,         (* every cache entry made, see NewEntry                  *)
  cache,           (* those in the cache, oldest first                      *)
  calls            (* what was asked: see Call                              *)

budgetVars == <<requests, inFlight, minuteOver>>
replayVars == <<work, budgetVars, entries, cache, calls>>

Running == -2
Rejected == -1
WorkOver(w) == work[w] # Running
Failed(w) == work[w] = Rejected
-----------------------------------------------------------------------------
(* limited(): a call that is refused fails before it is counted.  Faulty   *)
(* variant: it leaves through the same finally as one that was let in.     *)
Spent == IF minuteOver THEN 0 ELSE requests
Refused == Spent >= RequestLimit \/ inFlight >= FlightLimit

DiscountRefused == inFlight - 1
AfterRefusal == inFlight

Limited ==
  /\ Len(work) < MaxWorks
  /\ minuteOver' = FALSE
  /\ IF Refused
     THEN work' = Append(work, Rejected) /\ requests' = Spent /\ inFlight' = AfterRefusal
     ELSE work' = Append(work, Running) /\ requests' = Spent + 1 /\ inFlight' = inFlight + 1

NextWork == Len(work) + 1

(* entry(): the entry of the session, or a new one that asks for its pages *)
(* and takes the place of an old one.                                      *)
NewEntry(s) == [session |-> s, pages |-> NextWork, expired |-> FALSE, manifests |-> <<>>]
Usable(s) == {c \in 1..Len(cache) : entries[cache[c]].session = s /\ ~entries[cache[c]].expired}
OtherSessions(c, s) == SelectSeq(c, LAMBDA e : entries[e].session # s)
Room(c) == IF Len(c) >= CacheLimit THEN Tail(c) ELSE c

Entry(s, e) ==
  IF Usable(s) # {}
  THEN \E c \in Usable(s) : e = cache[c] /\ UNCHANGED <<work, budgetVars, entries, cache>>
  ELSE /\ e = Len(entries) + 1
       /\ Limited
       /\ entries' = Append(entries, NewEntry(s))
       /\ cache' = Append(Room(OtherSessions(cache, s)), e)

EntryIds == 1..Len(entries) + 1
-----------------------------------------------------------------------------
(* A call waits on the promise "on"; "report" is inspect(), which looks    *)
(* the entry up once more before it asks for the first playlist.           *)
Asked == {"report", "playlist", "segment"}
Call(ask, s, p, stage, e, on) ==
  [ask |-> ask, session |-> s, page |-> p, stage |-> stage, entry |-> e, on |-> on]

PagesOf(e) == IF e <= Len(entries) THEN entries[e].pages ELSE NextWork

AskReplay(ask, s, p) ==
  /\ Len(calls) < MaxCalls
  /\ ask = "report" => p = 1
  /\ \E e \in EntryIds :
       /\ Entry(s, e)
       /\ calls' = Append(calls, Call(ask, s, p,
                     IF ask = "report" THEN "inspecting" ELSE "listing", e, PagesOf(e)))

Move(i, to) == calls' = [calls EXCEPT ![i] = to]
Over(i) == Move(i, [calls[i] EXCEPT !.stage = "over", !.entry = 0, !.on = 0])

Resumed(i, stage) == calls[i].stage = stage /\ WorkOver(calls[i].on)

(* inspect() has the pages. *)
Inspected(i) ==
  /\ Resumed(i, "inspecting")
  /\ IF Failed(calls[i].on) \/ work[calls[i].on] = 0
     THEN Over(i) /\ UNCHANGED <<work, budgetVars, entries, cache>>
     ELSE \E e \in EntryIds :
            /\ Entry(calls[i].session, e)
            /\ Move(i, [calls[i] EXCEPT !.stage = "listing", !.entry = e, !.on = PagesOf(e)])

(* manifest() has the pages: the playlist is cached under its entry, which *)
(* may have left the cache, and the oldest playlist makes room.            *)
Cached(e, p) == {k \in 1..Len(entries[e].manifests) : entries[e].manifests[k].page = p}
Kept(list) == IF Len(list) >= ManifestLimit THEN Tail(list) ELSE list

Listed(i) ==
  /\ Resumed(i, "listing")
  /\ LET e == calls[i].entry
         p == calls[i].page IN
     IF Failed(calls[i].on) \/ p > work[calls[i].on]
     THEN Over(i) /\ UNCHANGED <<work, budgetVars, entries, cache>>
     ELSE \/ \E k \in Cached(e, p) :
               /\ Move(i, [calls[i] EXCEPT !.stage = "loading", !.on = entries[e].manifests[k].on])
               /\ UNCHANGED <<work, budgetVars, entries, cache>>
          \/ /\ Cached(e, p) = {}
             /\ Limited
             /\ entries' = [entries EXCEPT ![e].manifests =
                              Append(Kept(@), [page |-> p, on |-> NextWork]),
                              ![e].expired = @ /\ ~Refused]
             /\ Move(i, [calls[i] EXCEPT !.stage = "loading", !.on = NextWork])
             /\ UNCHANGED cache

(* playlist() and inspect() answer; segment() downloads. *)
Loaded(i) ==
  /\ Resumed(i, "loading")
  /\ UNCHANGED <<entries, cache>>
  /\ IF calls[i].ask = "segment" /\ ~Failed(calls[i].on)
     THEN Limited /\ Move(i, [calls[i] EXCEPT !.stage = "downloading", !.on = NextWork])
     ELSE Over(i) /\ UNCHANGED <<work, budgetVars>>

Downloaded(i) ==
  /\ Resumed(i, "downloading") /\ Over(i)
  /\ UNCHANGED <<work, budgetVars, entries, cache>>
-----------------------------------------------------------------------------
(* deadline() and limited(): the provider answers, with as many pages as   *)
(* it has, or the request fails or takes 10 seconds.  An entry whose pages *)
(* or playlist failed lives on for 5 seconds, even one that was too old.   *)
Holds(entry, w) ==
  entry.pages = w \/ \E k \in 1..Len(entry.manifests) : entry.manifests[k].on = w

AsksForPages(w) == \E e \in 1..Len(entries) : entries[e].pages = w

Succeeds(w) ==
  /\ ~WorkOver(w) /\ inFlight' = inFlight - 1
  /\ \E pages \in IF AsksForPages(w) THEN 0..MaxPages ELSE {0} :
       work' = [work EXCEPT ![w] = pages]
  /\ UNCHANGED <<requests, minuteOver, entries, cache, calls>>

Fails(w) ==
  /\ ~WorkOver(w) /\ inFlight' = inFlight - 1
  /\ work' = [work EXCEPT ![w] = Rejected]
  /\ entries' = [e \in DOMAIN entries |->
                   IF Holds(entries[e], w) THEN [entries[e] EXCEPT !.expired = FALSE] ELSE entries[e]]
  /\ UNCHANGED <<requests, minuteOver, cache, calls>>

(* A minute, or 5 seconds.  Requests are given up long before their entry  *)
(* is too old.                                                             *)
TooOld(e) ==
  /\ ~entries[e].expired /\ WorkOver(entries[e].pages)
  /\ entries' = [entries EXCEPT ![e].expired = TRUE]
  /\ UNCHANGED <<work, budgetVars, cache, calls>>

MinutePasses ==
  /\ ~minuteOver /\ minuteOver' = TRUE
  /\ UNCHANGED <<work, requests, inFlight, entries, cache, calls>>
-----------------------------------------------------------------------------
ReplayInit ==
  /\ work = <<>> /\ requests = 0 /\ inFlight = 0 /\ minuteOver = FALSE
  /\ entries = <<>> /\ cache = <<>> /\ calls = <<>>

CallStep ==
  \/ \E ask \in Asked, s \in Recordings, p \in 1..MaxPages : AskReplay(ask, s, p)
  \/ \E i \in 1..Len(calls) : Inspected(i) \/ Listed(i) \/ Loaded(i) \/ Downloaded(i)
ProviderStep == \E w \in 1..Len(work) : Succeeds(w) \/ Fails(w)
TimeStep == MinutePasses \/ \E e \in 1..Len(entries) : TooOld(e)

ReplayNext == CallStep \/ ProviderStep \/ TimeStep
ReplaySpec == ReplayInit /\ [][ReplayNext]_replayVars
-----------------------------------------------------------------------------
(* The provider never has more of the adapter's requests at a time than it *)
(* is meant to, and the adapter never takes itself for busy when it is     *)
(* not: refused, failed and late requests are counted out exactly as often *)
(* as they were counted in (limited()).                                    *)
FlightsCounted ==
  LET flying == Cardinality({w \in 1..Len(work) : ~WorkOver(w)}) IN
  inFlight = flying /\ flying <= FlightLimit
=============================================================================
