------------------------------ MODULE PausePage ------------------------------
(* views/Blocklists.vue: the card that pauses the filter for everybody or for *)
(* some profiles, and tells when it resumes.  Time is the node's clock; the   *)
(* card follows it by a ticker.  A pause is the time it ends, 0 none.  The    *)
(* reason and the profiles it is for are left out.                            *)
EXTENDS Page

TimeBound == 3          \* bound: the clock
Time == 0..TimeBound
PausePauseState == [until : Time]

PauseTypeOK ==
    /\ TypedCalls /\ srv \in [pause : Time, clock : Time]
    /\ ui.globalPause \in PausePauseState /\ ui.now \in Time
    /\ {ui.showPauseModal, ui.pauseError, ui.pausingGlobal, ui.resumingGlobal,
        ui.lastError} \subseteq BOOLEAN

NodePauses == srv.pause > srv.clock
PauseActive == ui.globalPause.until > ui.now

\* What the card offers: one button or the other, unless the dialog covers it.
PauseOpenOffered == ~ui.showPauseModal /\ ~PauseActive
PauseResumeOffered == ~ui.showPauseModal /\ PauseActive /\ ~ui.resumingGlobal
PausePauseOffered == ui.showPauseModal /\ ~ui.pausingGlobal

PauseInit ==
    /\ page = "pause"
    /\ ui = [globalPause |-> [until |-> 0], now |-> 0, showPauseModal |-> FALSE,
             pauseError |-> FALSE, pausingGlobal |-> FALSE, resumingGlobal |-> FALSE,
             lastError |-> FALSE]
    /\ \E u \in {0, 1} : srv = [pause |-> u, clock |-> 0]
    /\ calls = {Call(1, "getGlobalPause", None)} /\ writes = 0 /\ crossed = FALSE

\* The read of the mount, and the one that follows a resumption.
PauseGotPause(c) ==
    /\ c \in Ended("getGlobalPause")
    /\ ui' = [ui EXCEPT !.globalPause = IF c.at = "ok" THEN c.data ELSE @,
                        !.lastError = @ \/ (ui.resumingGlobal /\ c.at = "failed"),
                        !.resumingGlobal = FALSE]
    /\ Done(c) /\ UNCHANGED <<page, srv>>

OpenPauseModal ==
    /\ PauseOpenOffered
    /\ ui' = [ui EXCEPT !.showPauseModal = TRUE, !.pauseError = FALSE]
    /\ Local

\* Without a valid duration nothing is sent.
ActivatePause ==
    /\ PausePauseOffered
    /\ \/ ui' = [ui EXCEPT !.pauseError = TRUE] /\ Local
       \/ /\ ui' = [ui EXCEPT !.pauseError = FALSE, !.pausingGlobal = TRUE]
          /\ \E d \in 1..2 : Asks("setGlobalPause", [seconds |-> d])
          /\ UNCHANGED <<page, srv>>

Paused(c) ==
    /\ c \in Ended("setGlobalPause")
    /\ ui' = IF c.at = "failed" THEN [ui EXCEPT !.pausingGlobal = FALSE, !.pauseError = TRUE]
             ELSE [ui EXCEPT !.pausingGlobal = FALSE, !.showPauseModal = FALSE,
                             !.globalPause = c.data]
    /\ Done(c) /\ UNCHANGED <<page, srv>>

\* Cancel, the backdrop and Escape.
ClosePauseModal ==
    /\ ui.showPauseModal
    /\ ui' = [ui EXCEPT !.showPauseModal = FALSE]
    /\ Local

ResumeFiltering ==
    /\ PauseResumeOffered
    /\ ui' = [ui EXCEPT !.resumingGlobal = TRUE]
    /\ Asks("clearGlobalPause", None)
    /\ UNCHANGED <<page, srv>>

\* mutant: the pause is not read again.
ResumedOnly(c) ==
    /\ c \in Ended("clearGlobalPause")
    /\ ui' = [ui EXCEPT !.resumingGlobal = FALSE]
    /\ Done(c) /\ UNCHANGED <<page, srv>>

Resumed(c) ==
    /\ c \in Ended("clearGlobalPause")
    /\ \/ /\ c.at = "failed" /\ Done(c)
          /\ ui' = [ui EXCEPT !.resumingGlobal = FALSE, !.lastError = TRUE]
       \/ c.at = "ok" /\ Then(c, "getGlobalPause", None) /\ UNCHANGED ui
    /\ UNCHANGED <<page, srv>>

\* The ticker follows the node's clock.
Ticker ==
    /\ ui.now < srv.clock
    /\ ui' = [ui EXCEPT !.now = srv.clock]
    /\ Local

\* A pause that is over is none: it can not be ended again.
PauseServes(c) ==
    /\ c.at = "sent"
    /\ \/ /\ c.op = "getGlobalPause" /\ UNCHANGED srv
          /\ Answers(c, [until |-> IF NodePauses THEN srv.pause ELSE 0])
       \/ /\ c.op = "setGlobalPause" /\ srv.clock + c.arg.seconds <= TimeBound
          /\ srv' = [srv EXCEPT !.pause = srv.clock + c.arg.seconds]
          /\ Answers(c, [until |-> srv'.pause])
       \/ c.op = "clearGlobalPause" /\ ~NodePauses /\ Refuses(c)
       \/ /\ c.op = "clearGlobalPause" /\ NodePauses
          /\ srv' = [srv EXCEPT !.pause = 0]
          /\ Answers(c, None)
    /\ UNCHANGED <<page, ui>>

TimePasses ==
    /\ srv.clock < TimeBound
    /\ srv' = [srv EXCEPT !.clock = @ + 1]
    /\ UNCHANGED <<page, ui, calls, writes, crossed>>

\* Somebody else ends the pause: the card shows it all the same.
ElsewhereResumed ==
    /\ NodePauses
    /\ srv' = [srv EXCEPT !.pause = 0] /\ crossed' = TRUE
    /\ UNCHANGED <<page, ui, calls, writes>>

PauseNext ==
    \/ OpenPauseModal \/ ActivatePause \/ ClosePauseModal \/ ResumeFiltering \/ Ticker
    \/ TimePasses \/ ElsewhereResumed
    \/ \E c \in calls : \/ PauseGotPause(c) \/ Paused(c) \/ Resumed(c) \/ PauseServes(c)
                        \/ Fails(c)

-----------------------------------------------------------------------------

\* Once everything is answered, no call crossed another and the ticker has caught
\* up, the card says that the filter is paused exactly when it is: it resumes by
\* itself when the time is over.
ShowsPause == Settled /\ ui.now = srv.clock => (PauseActive <=> NodePauses)

\* A resumption that ended, however it did, leaves no pause on the card that the
\* node does not have.  One that somebody else ended first does: the node refuses
\* to end it again and the card is not read again.
ResumeTellsTheTruth ==
    [][\A c \in Ended("clearGlobalPause") :
          c \notin calls' /\ ~NodePauses /\ ui.now = srv.clock /\ calls' = {}
             => ~PauseActive']_pageVars

=============================================================================
