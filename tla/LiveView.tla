------------------------------ MODULE LiveView ------------------------------
(***************************************************************************)
(* Watching a run: the rows and events of one run                          *)
(* (src/server/repository.ts), the event stream that the server sends of   *)
(* them (server/event-stream.ts) and the client that merges this stream    *)
(* with four reads of its own (lib/live-wall.ts, components/run-wall.tsx). *)
(*                                                                         *)
(* The worker writes in transactions; every read of the server and of the  *)
(* client happens at a moment of its own, and answers arrive later.        *)
(* Timestamps, labels, counters, the ids of viewers and the events that    *)
(* report an agent's steps are left out: no status depends on them.  So    *)
(* are refusals (401, 403 and 404), which close the view for good.  The    *)
(* event of sequence i is events[i], the same for everybody.               *)
(***************************************************************************)
EXTENDS Integers, Sequences, FiniteSets, SequencesExt

CONSTANTS
  Attempts,
  PageLimit,       (* events in a page, of the stream and of a read        *)
  Nothing,
  MaxFaults        (* bound: failed reads, broken or expired streams       *)

ASSUME LiveViewAssumption ==
  /\ IsFiniteSet(Attempts) /\ Nothing \notin Attempts \cup Nat
  /\ PageLimit \in Nat \ {0} /\ MaxFaults \in Nat

VARIABLES
  history,         (* the rows of the run after each transaction           *)
  events,
  (* the server's end of the event stream *)
  feed,            (* "none", "first", "second" read, or "closed"          *)
  after, seen,
  complete,        (* it closed because the run had ended                  *)
  wire,            (* what is on its way to the client                     *)
  (* the client *)
  wall,            (* run, cancelled, attempts, launches, viewers          *)
  known, cursor,   (* sequences of its events, and their contiguous prefix *)
  shown,           (* the wall last published                              *)
  refresh,         (* position of the reconciliation loop                  *)
  since,           (* transaction after which its reads in flight began    *)
  pageAfter,
  terminalBefore,  (* terminalSequenceBeforeRead                           *)
  again,
  streaming,       (* stream # null                                        *)
  poll, reconnect, (* timers                                               *)
  faults

databaseVars == <<history, events>>
feedVars == <<feed, after, seen, complete, wire>>
refreshVars == <<refresh, since, pageAfter, terminalBefore>>
clientVars == <<wall, known, cursor, shown, refreshVars, again, streaming, poll, reconnect>>
liveVars == <<databaseVars, feedVars, clientVars, faults>>

Event(kind, a) == [kind |-> kind, attempt |-> a]
TerminalKinds == {"run.finished", "attempt.finished"}
-----------------------------------------------------------------------------
Now == Last(history)

(* The worker's transactions.  Each appends its events with the next       *)
(* sequences (append()).                                                   *)
Commit(rows, batch) ==
  /\ events' = events \o batch
  /\ history' = Append(history, [rows EXCEPT !.total = Len(events')])
  /\ UNCHANGED <<feedVars, clientVars, faults>>

(* reconcile(): with its last attempt the run ends too. *)
AllEnded(attempts) == \A a \in Attempts : attempts[a] = "ended"
Reconciled(rows) == IF AllEnded(rows.attempts) THEN [rows EXCEPT !.run = "ended"] ELSE rows
RunFinished(rows) ==
  IF AllEnded(rows.attempts) THEN <<Event("run.finished", Nothing)>> ELSE <<>>

(* The browser starts; its live view can be opened from now on.            *)
Start(a) ==
  /\ Now.attempts[a] = "queued" /\ ~Now.cancelled
  /\ Commit([Now EXCEPT !.attempts[a] = "running", !.launches[a] = "active", !.run = "running"],
            <<Event("attempt.started", a)>>)

Recovering(a) ==
  /\ Now.launches[a] = "active"
  /\ Commit([Now EXCEPT !.launches[a] = "recovering"], <<Event("attempt.recovering", a)>>)

(* end(): settled, or quarantined for an operator. *)
EndAttempt(a) ==
  /\ Now.attempts[a] = "running"
  /\ \E launch \in {"settled"} \cup (IF Now.launches[a] = "recovering" THEN {"quarantined"} ELSE {}) :
       LET rows == [Now EXCEPT !.attempts[a] = "ended", !.launches[a] = launch] IN
       Commit(Reconciled(rows), <<Event("attempt.finished", a)>> \o RunFinished(rows))

SettleQuarantined(a) ==
  /\ Now.launches[a] = "quarantined"
  /\ Commit([Now EXCEPT !.launches[a] = "settled"], <<>>)

(* cancelRun(): attempts that wait end at once. *)
CancelRun ==
  /\ ~Now.cancelled /\ Now.run # "ended"
  /\ LET waiting == {a \in Attempts : Now.attempts[a] = "queued"}
         rows == [Now EXCEPT !.cancelled = TRUE,
           !.attempts = [a \in Attempts |-> IF a \in waiting THEN "ended" ELSE Now.attempts[a]]] IN
     Commit(Reconciled(rows),
            <<Event("run.cancel_requested", Nothing)>>
            \o SetToSeq({Event("attempt.finished", a) : a \in waiting}) \o RunFinished(rows))
-----------------------------------------------------------------------------
(* events(after, limit): one row more than the page tells if it continues. *)
Page(from, total) ==
  LET last == IF total > from + PageLimit THEN from + PageLimit ELSE total IN
  [items |-> from + 1 .. last, next |-> IF last < total THEN last ELSE Nothing]

(* The server's end of the stream: pull() reads first and reads again, and *)
(* the worker may write in between.                                        *)
FeedReads ==
  /\ feed = "first"
  /\ seen' = Len(history)
  /\ feed' = "second"
  /\ UNCHANGED <<databaseVars, after, complete, wire, clientVars, faults>>

(* The status comes from the first read and the page from the second.      *)
(* Faulty variant: the other way round.                                    *)
PageFirst == [status |-> Now.run, page |-> Page(after, history[seen].total)]
StatusFirst == [status |-> history[seen].run, page |-> Page(after, Now.total)]

FeedSends ==
  /\ feed = "second"
  /\ LET read == StatusFirst
         sent == Cardinality(read.page.items)
         ended == read.status = "ended" /\ read.page.next = Nothing IN
     /\ wire' = wire \o [i \in 1..sent |-> after + i] \o IF ended THEN <<Nothing>> ELSE <<>>
     /\ after' = after + sent
     /\ complete' = ended
     /\ feed' = IF ended THEN "closed" ELSE "first"
  /\ seen' = 0
  /\ UNCHANGED <<databaseVars, clientVars, faults>>

(* Its lifetime is over, or a read of it fails. *)
FeedExpires ==
  /\ faults < MaxFaults /\ faults' = faults + 1
  /\ feed \in {"first", "second"}
  /\ feed' = "closed" /\ wire' = Append(wire, Nothing) /\ seen' = 0
  /\ UNCHANGED <<databaseVars, after, complete, clientVars>>
-----------------------------------------------------------------------------
(* projectWall(): all events known overlay what was read.                  *)
HasEvent(seqs, kind, a) == \E i \in seqs : events[i] = Event(kind, a)

Hidden(w, seqs) ==
  {a \in Attempts : w.launches[a] \in {"recovering", "quarantined", "settled"}}
    \cup {a \in Attempts : HasEvent(seqs, "attempt.recovering", a)
                           \/ HasEvent(seqs, "attempt.finished", a)}
RunOverlaid(w, upTo) ==
  IF w.run = Nothing THEN Nothing
  ELSE IF HasEvent(1..upTo, "run.finished", Nothing) THEN "ended"
  ELSE IF w.run = "queued" /\ \E a \in Attempts : HasEvent(1..upTo, "attempt.started", a)
  THEN "running" ELSE w.run

Project(w, seqs, upTo) ==
  LET run == RunOverlaid(w, upTo)
      cancelled == w.cancelled \/ (w.run # Nothing /\ HasEvent(seqs, "run.cancel_requested", Nothing))
      attempts == [a \in Attempts |->
        IF w.attempts[a] # Nothing /\ HasEvent(1..upTo, "attempt.finished", a) THEN "ended"
        ELSE IF w.attempts[a] = "queued" /\ HasEvent(1..upTo, "attempt.started", a) THEN "running"
        ELSE w.attempts[a]]
  IN [w EXCEPT !.run = run, !.cancelled = cancelled, !.attempts = attempts,
        !.viewers = {a \in w.viewers \ Hidden(w, seqs) :
          /\ run \notin {Nothing, "ended"} /\ ~cancelled
          /\ ~HasEvent(seqs, "run.finished", Nothing)
          /\ attempts[a] = "running"}]

Publish(w, seqs, upTo) ==
  wall' = Project(w, seqs, upTo) /\ shown' = wall'

(* mergeEvents(): the cursor is the last sequence of the prefix known.     *)
Prefix(seqs) == CHOOSE n \in 0..Len(events) : 1..n \subseteq seqs /\ n + 1 \notin seqs
Gap(seqs) == \E i \in seqs : i > Prefix(seqs)

Terminal(seqs) == {i \in seqs : events[i].kind \in TerminalKinds}

(* accept() *)
Accept(seqs) ==
  /\ known' = known \cup seqs
  /\ cursor' = Prefix(known \cup seqs)
  /\ Publish(wall, known \cup seqs, Prefix(known \cup seqs))

(* refresh(): starts the loop, or asks for another round.                  *)
Latest(seqs) == IF Terminal(seqs) = {} THEN 0
                ELSE CHOOSE i \in Terminal(seqs) : \A j \in Terminal(seqs) : j <= i
StartReading(seqs) ==
  /\ refresh' = "reading" /\ since' = Len(history) /\ pageAfter' = 0
  /\ terminalBefore' = Latest(seqs)
Refresh(seqs) ==
  IF refresh = "none" THEN StartReading(seqs) /\ poll' = FALSE /\ UNCHANGED again
  ELSE again' = TRUE /\ UNCHANGED <<refreshVars, poll>>

(* closeStream() and openStream(); the server's end goes with it.          *)
Disconnect ==
  /\ streaming' = FALSE /\ feed' = "none" /\ wire' = <<>> /\ complete' = FALSE
  /\ after' = 0 /\ seen' = 0
Connect ==
  /\ streaming' = TRUE /\ feed' = "first" /\ after' = cursor' /\ wire' = <<>>
  /\ complete' = FALSE /\ seen' = 0

(* A message of the stream. *)
Receive ==
  /\ streaming /\ wire # <<>> /\ Head(wire) # Nothing
  /\ LET i == Head(wire) seqs == known \cup {i} IN
     /\ Accept({i})
     /\ IF Gap(seqs) \/ events[i].kind \in
             {"run.finished", "attempt.finished", "attempt.recovering", "run.cancel_requested"}
        THEN Refresh(seqs)
        ELSE UNCHANGED <<refreshVars, again, poll>>
     /\ IF wall'.run = "ended" THEN Disconnect
        ELSE wire' = Tail(wire) /\ UNCHANGED <<streaming, feed, after, seen, complete>>
  /\ UNCHANGED <<databaseVars, reconnect, faults>>

(* onerror: the end of the stream arrives, or the connection breaks.       *)
StreamErrs ==
  /\ streaming
  /\ \/ wire # <<>> /\ Head(wire) = Nothing /\ UNCHANGED faults
     \/ faults < MaxFaults /\ faults' = faults + 1
  /\ Disconnect
  /\ Publish([wall EXCEPT !.viewers = {}], known, cursor)
  /\ reconnect' = TRUE
  /\ Refresh(known)
  /\ UNCHANGED <<databaseVars, known, cursor>>

TimerFires ==
  /\ \/ poll /\ UNCHANGED reconnect
     \/ reconnect /\ reconnect' = FALSE
  /\ Refresh(known)
  /\ UNCHANGED <<databaseVars, feedVars, wall, known, cursor, shown, streaming, faults>>

(* reconcile(): the four reads were answered, each at its own moment since *)
(* they began; the state is replaced, but not yet published.               *)
Moments == {history[i] : i \in since..Len(history)}

(* sessionViews() *)
Viewers(rows) ==
  {a \in Attempts : rows.launches[a] = "active" /\ rows.attempts[a] = "running" /\ ~rows.cancelled}

Land ==
  /\ refresh = "reading"
  /\ \E run \in {<<rows.run, rows.cancelled>> : rows \in Moments},
        attempts \in {rows.attempts : rows \in Moments},
        summaries \in {rows.launches : rows \in Moments},
        sessions \in {Viewers(rows) : rows \in Moments} :
       wall' = [run |-> run[1], cancelled |-> run[2], attempts |-> attempts,
                launches |-> summaries, viewers |-> sessions]
  /\ refresh' = "paging" /\ pageAfter' = cursor /\ since' = Len(history)
  /\ UNCHANGED <<databaseVars, feedVars, known, cursor, shown, terminalBefore, again, streaming,
                 poll, reconnect, faults>>

NeedsCleanup == \E a \in Attempts : wall.launches[a] \notin {"not_launched", "settled"}

(* Faulty variant: the summaries read before the end count as final.       *)
NothingDiscovered(seqs) == FALSE
DiscoveredTerminal(seqs) == \E i \in Terminal(seqs) : i > terminalBefore

(* The end of a round: another one at once, or after a while, or none.     *)
NextRound(seqs, wanted, pollAgain) ==
  /\ again' = FALSE
  /\ IF wanted THEN StartReading(seqs) /\ poll' = FALSE
     ELSE /\ refresh' = "none" /\ poll' = pollAgain
          /\ since' = 0 /\ pageAfter' = 0 /\ terminalBefore' = 0

EndRound(seqs) ==
  /\ IF wall'.run = "ended" THEN Disconnect /\ reconnect' = FALSE
     ELSE /\ UNCHANGED reconnect
          /\ IF streaming \/ reconnect THEN UNCHANGED <<streaming, feedVars>> ELSE Connect
  /\ NextRound(seqs, again \/ DiscoveredTerminal(seqs),
               DiscoveredTerminal(seqs) \/ wall'.run # "ended" \/ NeedsCleanup)

(* A page of the history arrives; the last one ends the round.             *)
LandPage ==
  /\ refresh = "paging"
  /\ \E rows \in Moments :
       LET page == Page(pageAfter, rows.total) IN
       /\ Accept(page.items)
       /\ IF page.next = Nothing THEN EndRound(known \cup page.items)
          ELSE /\ pageAfter' = page.next /\ since' = Len(history)
               /\ UNCHANGED <<refresh, terminalBefore, again, streaming, feedVars, poll, reconnect>>
  /\ UNCHANGED <<databaseVars, faults>>

(* fail(): viewers are hidden; a rate limit also ends the stream.          *)
RefreshFails ==
  /\ faults < MaxFaults /\ faults' = faults + 1
  /\ refresh # "none"
  /\ Publish([wall EXCEPT !.viewers = {}], known, cursor)
  /\ \/ UNCHANGED <<streaming, feedVars, reconnect>>
     \/ Disconnect /\ reconnect' = FALSE
  /\ NextRound(known, again, TRUE)
  /\ UNCHANGED <<databaseVars, known, cursor>>
-----------------------------------------------------------------------------
EmptyWall ==
  [run |-> Nothing, cancelled |-> FALSE, attempts |-> [a \in Attempts |-> Nothing],
   launches |-> [a \in Attempts |-> "not_launched"], viewers |-> {}]

LiveInit ==
  /\ events = <<Event("run.created", Nothing)>>
  /\ history = <<[run |-> "queued", cancelled |-> FALSE, attempts |-> [a \in Attempts |-> "queued"],
                  launches |-> [a \in Attempts |-> "not_launched"], total |-> 1]>>
  /\ feed = "none" /\ after = 0 /\ seen = 0 /\ complete = FALSE /\ wire = <<>>
  /\ wall = EmptyWall /\ shown = EmptyWall /\ known = {} /\ cursor = 0
  /\ refresh = "reading" /\ since = 1 /\ pageAfter = 0 /\ terminalBefore = 0
  /\ again = FALSE /\ streaming = FALSE
  /\ poll = FALSE /\ reconnect = FALSE
  /\ faults = 0

WorkerStep ==
  \/ CancelRun
  \/ \E a \in Attempts : Start(a) \/ Recovering(a) \/ EndAttempt(a)
                         \/ SettleQuarantined(a)
ViewStep == FeedReads \/ FeedSends \/ Land \/ LandPage \/ Receive \/ StreamErrs \/ TimerFires

LiveNext == WorkerStep \/ ViewStep \/ FeedExpires \/ RefreshFails

LiveSpec == LiveInit /\ [][LiveNext]_liveVars
-----------------------------------------------------------------------------
(* The stream closes as complete only when every event of the run was      *)
(* sent: the status is read before the page (createEventStreamHandler()).  *)
CloseIsComplete == complete => Now.run = "ended" /\ after = Len(events)

(* A wall without timer, stream and read in flight shows the final rows of *)
(* the run, summaries included: nothing will change them, and nothing      *)
(* would make the wall look again (reconcile()).                           *)
AtRest == refresh = "none" /\ ~poll /\ ~reconnect /\ ~streaming
RestIsFinal ==
  AtRest => /\ shown.run = "ended" /\ Now.run = "ended"
            /\ shown.attempts = Now.attempts /\ shown.launches = Now.launches
            /\ cursor = Len(events) /\ ~NeedsCleanup
=============================================================================
