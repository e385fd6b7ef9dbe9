----------------------------- MODULE OwnerPages -----------------------------
(***************************************************************************)
(* The owner's pages, which read while they are looked at: the wall of a   *)
(* managed run, the report of a run, a private screenshot and a recording, *)
(* under the owner's session (components/owner-session.tsx, managed-wall,  *)
(* run-report and recording-evidence.tsx).                                 *)
(*                                                                         *)
(* One of them is open.  Requests are answered in any order, their answers *)
(* wait their turn in the page, and the session may have to be opened      *)
(* again at any time, which ends whatever is underway.  What a run or a    *)
(* report says is its version; the last version is final.                  *)
(***************************************************************************)
EXTENDS Integers, Sequences, FiniteSets

CONSTANTS
  MaxRefreshes, MaxChecks,                 (* limits of the code            *)
  MaxVersion, MaxRequests, MaxRevisions    (* bounds                        *)

OwnerPageNames == {"wall", "report", "image", "recording"}
Private == {"image", "recording"}

VARIABLES
  page,
  authorized, opening, revision, (* the owner's session                     *)
  version,         (* of the run, on the server                             *)
  asked,           (* what the page has asked for, see Request              *)
  displayed,       (* the version shown, or 0                               *)
  busy,            (* the wall's action or the recording's check            *)
  armed,           (* a timer will read again                               *)
  reads,           (* of the report since the page opened; checks made      *)
  paused, missing, (* the report: its last read says so                     *)
  tooSoon,         (* the recording was checked less than 5 seconds ago     *)
  wanted           (* the user's last word: show it                         *)

sessionVars == <<authorized, opening, revision>>
paneVars == <<displayed, busy, armed, reads, paused, missing, tooSoon, wanted>>
ownerPageVars == <<page, sessionVars, version, asked, paneVars>>
-----------------------------------------------------------------------------
Request(what) == [what |-> what, aborted |-> FALSE, stage |-> "sent", answer |-> 0]
With(list, what) == Append(list, Request(what))
MayAsk == Len(asked) < MaxRequests

Aborted(list) == [i \in DOMAIN list |-> [list[i] EXCEPT !.aborted = TRUE]]
Ids == 1..Len(asked)

(* acceptRun(): an answer that was overtaken does not replace a newer one. *)
(* Faulty variant: the last answer to arrive is shown.                     *)
Newest(next) == next
NewerOf(next) == IF next >= displayed THEN next ELSE displayed

(* Faulty variant of the checks of signal.aborted after an await.          *)
NeverIgnored(i) == FALSE
Ignored(i) == asked[i].aborted

MayReadAgain(n) == n < MaxRefreshes
-----------------------------------------------------------------------------
(* bootstrap(): while it is underway the page is locked, so the screenshot,*)
(* the recording and the report are gone, and the wall stops reading.      *)
Locks ==
  /\ ~opening /\ opening' = TRUE /\ authorized' = FALSE /\ UNCHANGED revision
  /\ armed' = FALSE
  /\ IF page = "wall" THEN UNCHANGED <<displayed, busy, wanted>>
     ELSE displayed' = 0 /\ busy' = "none" /\ wanted' = FALSE

RetryOwner ==
  /\ revision < MaxRevisions
  /\ Locks /\ asked' = Aborted(asked)
  /\ UNCHANGED <<page, version, reads, paused, missing, tooSoon>>

(* The session is opened, and the page begins to read: for the same owner  *)
(* the wall keeps what it shows.                                           *)
SessionOpened ==
  /\ opening /\ opening' = FALSE /\ authorized' = TRUE /\ revision' = revision + 1
  /\ paused' = FALSE /\ missing' = FALSE /\ tooSoon' = FALSE /\ wanted' = FALSE /\ armed' = FALSE
  /\ UNCHANGED <<page, version>>
  /\ IF page \in Private THEN reads' = 0 /\ UNCHANGED <<asked, displayed, busy>>
     ELSE /\ MayAsk
          /\ reads' = 1 /\ asked' = With(asked, "read")
          /\ \/ UNCHANGED <<displayed, busy>>
             \/ page = "wall" /\ displayed' = 0 /\ busy' = "none"     (* another owner *)

SessionRefused ==
  /\ opening /\ opening' = FALSE
  /\ UNCHANGED <<page, authorized, revision, version, asked, paneVars>>
-----------------------------------------------------------------------------
(* What the user does. *)
RequestAction(action) ==
  /\ page = "wall" /\ authorized /\ busy = "none" /\ displayed # 0 /\ MayAsk
  /\ busy' = action /\ asked' = With(asked, action)
  /\ UNCHANGED <<page, sessionVars, version, displayed, armed, reads, paused, missing, tooSoon,
                 wanted>>

Loading == \E i \in Ids : asked[i].stage # "over" /\ ~asked[i].aborted

ShowImage ==
  /\ page = "image" /\ authorized /\ displayed = 0 /\ ~Loading /\ MayAsk
  /\ asked' = With(Aborted(asked), "image") /\ wanted' = TRUE
  /\ UNCHANGED <<page, sessionVars, version, displayed, busy, armed, reads, paused, missing,
                 tooSoon>>

InspectRecording ==
  /\ page = "recording" /\ authorized /\ busy = "none" /\ reads < MaxChecks /\ ~tooSoon /\ MayAsk
  /\ asked' = With(Aborted(asked), "authorize")
  /\ busy' = "check" /\ displayed' = 0 /\ reads' = reads + 1 /\ wanted' = TRUE
  /\ UNCHANGED <<page, sessionVars, version, armed, paused, missing, tooSoon>>

(* hideImage() and hide(). *)
Hide ==
  /\ page \in Private /\ authorized /\ wanted
  /\ asked' = Aborted(asked)
  /\ displayed' = 0 /\ busy' = "none" /\ wanted' = FALSE
  /\ UNCHANGED <<page, sessionVars, version, armed, reads, paused, missing, tooSoon>>

RefreshReport ==
  /\ page = "report" /\ authorized /\ MayAsk
  /\ asked' = With(Aborted(asked), "read") /\ reads' = 1 /\ armed' = FALSE
  /\ UNCHANGED <<page, sessionVars, version, displayed, busy, paused, missing, tooSoon, wanted>>

(* Timers. *)
ReadAgain ==
  /\ armed /\ armed' = FALSE /\ MayAsk
  /\ asked' = With(asked, "read") /\ reads' = IF page = "report" THEN reads + 1 ELSE reads
  /\ UNCHANGED <<page, sessionVars, version, displayed, busy, paused, missing, tooSoon, wanted>>

FiveSecondsPass ==
  /\ tooSoon /\ tooSoon' = FALSE
  /\ UNCHANGED <<page, sessionVars, version, asked, displayed, busy, armed, reads, paused, missing,
                 wanted>>
-----------------------------------------------------------------------------
(* The server: it works on requests that were given up, too.               *)
Denied == -1
Missing == -2
PollFailed == -3

RunChanges ==
  /\ version < MaxVersion /\ version' = version + 1
  /\ UNCHANGED <<page, sessionVars, asked, paneVars>>

Serve(i) ==
  /\ asked[i].stage = "sent"
  /\ \/ UNCHANGED version
     \/ asked[i].what = "cancel" /\ version < MaxVersion /\ version' = version + 1
  /\ \E answer \in {Denied, Missing, PollFailed, version'} :
       asked' = [asked EXCEPT ![i].stage = "answered", ![i].answer = answer]
  /\ UNCHANGED <<page, sessionVars, paneVars>>
-----------------------------------------------------------------------------
(* Answers reach the page. *)
Ended(i) == [asked EXCEPT ![i].stage = "over", ![i].answer = 0]
Answer(i) == asked[i].answer
Given(i) == Answer(i) > 0

IgnoreAnswer(i) ==
  /\ Ignored(i) /\ asked' = Ended(i)
  /\ UNCHANGED <<page, sessionVars, version, paneVars>>

(* 401 and 403: the session is opened again. *)
AnswerDenied(i) ==
  /\ ~Ignored(i) /\ page # "wall" /\ Answer(i) = Denied /\ revision < MaxRevisions
  /\ Locks /\ asked' = Aborted(Ended(i))
  /\ UNCHANGED <<page, version, reads, paused, missing, tooSoon>>

(* poll() and request() of the managed wall. *)
WallAnswered(i) ==
  /\ ~Ignored(i) /\ page = "wall" /\ asked' = Ended(i)
  /\ displayed' = IF Given(i) THEN NewerOf(Answer(i)) ELSE displayed
  /\ IF asked[i].what = "read" THEN armed' = TRUE /\ UNCHANGED busy
     ELSE busy' = "none" /\ UNCHANGED armed
  /\ UNCHANGED <<page, sessionVars, version, reads, paused, missing, tooSoon, wanted>>

ImageAnswered(i) ==
  /\ ~Ignored(i) /\ page = "image" /\ Answer(i) # Denied /\ asked' = Ended(i)
  /\ displayed' = IF Given(i) THEN Answer(i) ELSE 0
  /\ UNCHANGED <<page, sessionVars, version, busy, armed, reads, paused, missing, tooSoon, wanted>>

(* inspect(): once authorised, it asks for the recording.                  *)
RecordingAnswered(i) ==
  /\ ~Ignored(i) /\ page = "recording" /\ Answer(i) # Denied
  /\ IF Given(i) /\ asked[i].what = "authorize"
     THEN MayAsk /\ asked' = With(Ended(i), "inspect") /\ UNCHANGED <<displayed, busy, tooSoon>>
     ELSE /\ asked' = Ended(i) /\ busy' = "none" /\ tooSoon' = TRUE
          /\ displayed' = IF Given(i) THEN Answer(i) ELSE displayed
  /\ UNCHANGED <<page, sessionVars, version, armed, reads, paused, missing, wanted>>

(* read() of the report: one that failed keeps what an earlier one of this *)
(* refresh has shown.                                                      *)
ReportAnswered(i) ==
  /\ ~Ignored(i) /\ page = "report" /\ Answer(i) # Denied /\ asked' = Ended(i)
  /\ LET ongoing == Answer(i) # MaxVersion IN
     /\ displayed' = IF Given(i) THEN Answer(i) ELSE IF reads = 1 THEN 0 ELSE displayed
     /\ missing' = (Answer(i) = Missing)
     /\ paused' = (ongoing /\ reads >= MaxRefreshes)
     /\ armed' = (ongoing /\ ~missing' /\ MayReadAgain(reads))
  /\ UNCHANGED <<page, sessionVars, version, busy, reads, tooSoon, wanted>>

Arrive(i) ==
  /\ asked[i].stage = "answered"
  /\ \/ IgnoreAnswer(i) \/ AnswerDenied(i) \/ WallAnswered(i) \/ ImageAnswered(i)
     \/ RecordingAnswered(i) \/ ReportAnswered(i)
-----------------------------------------------------------------------------
OwnerPagesInit ==
  /\ page \in OwnerPageNames
  /\ authorized = FALSE /\ opening = TRUE /\ revision = 0 /\ version = 1 /\ asked = <<>>
  /\ displayed = 0 /\ busy = "none" /\ armed = FALSE /\ reads = 0
  /\ paused = FALSE /\ missing = FALSE /\ tooSoon = FALSE /\ wanted = FALSE

OwnerStep == RetryOwner \/ SessionOpened \/ SessionRefused
UserStep ==
  \/ \E action \in {"cancel", "report"} : RequestAction(action)
  \/ ShowImage \/ InspectRecording \/ Hide \/ RefreshReport
TimerStep == ReadAgain \/ FiveSecondsPass
AnswerStep == RunChanges \/ \E i \in Ids : Serve(i) \/ Arrive(i)

OwnerPagesNext == OwnerStep \/ UserStep \/ TimerStep \/ AnswerStep
OwnerPagesSpec == OwnerPagesInit /\ [][OwnerPagesNext]_ownerPageVars
-----------------------------------------------------------------------------
(* Private pixels are on the page only while the user's last word was to   *)
(* show them and the session is open: an answer that was already on its    *)
(* way does not bring them back after Hide (showImage(), inspect()).       *)
HiddenStaysHidden == page \in Private /\ displayed # 0 => wanted /\ authorized

(* The wall of a managed run never goes back, neither to a moment before   *)
(* the cancellation it has shown nor by a poll that was overtaken, as long *)
(* as it is the same owner's (acceptRun()).                                *)
WallNeverGoesBack == [][page = "wall" /\ authorized => displayed' >= displayed]_ownerPageVars
=============================================================================
