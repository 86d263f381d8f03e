----------------------------- MODULE GuideSession -----------------------------
(***************************************************************************)
(* A session of the program: MyFrame's handlers of commands, of images and *)
(* of completed moves, composed with the guider, the controller and the    *)
(* two worker threads (each as WorkQueue specifies it), and the clients of *)
(* the event server that listen.                                           *)
(*                                                                         *)
(* The GUI thread handles one command or one queued event at a time.  What *)
(* the workers report is queued and handled in order.                      *)
(***************************************************************************)
EXTENDS Controller

CONSTANTS Commands    \* the commands that are given in this instance

VARIABLES s,          \* what the GUI thread works on
          primary,    \* what the primary worker is serving: <<>> or one item
          secondary,  \* the same for the secondary worker
          events      \* the frame's queue of completion events

vars == <<s, primary, secondary, events>>

Exposure == [mount |-> "camera", kind |-> "exposure"]
Work == Moves \cup {Exposure}
Results == {"ok", "error", "slewing", "limit", "reconnect"}

Init == /\ s = Connected
        /\ primary = <<>> /\ secondary = <<>>
        /\ events = <<>>

\* What the sky and the algorithms may answer, asked only where it matters.
Skies ==
    [star : IF s.star = "none" THEN {FALSE} ELSE BOOLEAN,
     auto : IF s.ctl \in {"ATTEMPT_START", "SELECT_STAR"}
            THEN {"ok", "refused", "none"} ELSE {"none"},
     calib : IF s.gs \in {"CAL_PRIMARY", "CAL_SECONDARY"}
             THEN {"wait", "one", "two", "done", "fail"} ELSE {"wait"},
     settled : IF s.ctl = "SETTLE_WAIT" THEN BOOLEAN ELSE {FALSE}]
AutoSkies == [star : {FALSE}, auto : {"ok", "refused", "none"},
              calib : {"wait"}, settled : {FALSE}]
NoSky == [star |-> FALSE, auto |-> "none", calib |-> "wait",
          settled |-> FALSE]

-------------------------------------------------------------------------------
(* MyFrame's handlers.                                                     *)

FinishStop(f) ==
    AbortController(Tell([f EXCEPT !.single = FALSE], "LoopingStopped"))

\* A resume schedules nothing.
ResumeIdle(f) == IF ~IsPaused(f) THEN f ELSE Tell([f EXCEPT !.pause = "none"], "Resumed")

SetPausedNone(f) ==
    IF ~IsPaused(f) THEN f
    ELSE LET t == [f EXCEPT !.pause = "none"]
         IN Tell(IF t.cont /\ ~t.pending THEN ScheduleExposure(t) ELSE t,
                 "Resumed")

SetPaused(f, pause) ==
    IF pause = "none" THEN SetPausedNone(f)
    ELSE IF IsPaused(f) THEN f ELSE Tell([f EXCEPT !.pause = pause], "Paused")

\* With an exposure pending the rest is left to its completion.
StopCapturing(f) ==
    LET resumed == IF IsPaused(f) THEN SetPausedNone([f EXCEPT !.cont = FALSE])
                   ELSE f
        t == [resumed EXCEPT !.cont = FALSE]
        idle == [t EXCEPT !.capture = FALSE]
    IN IF ~f.cont /\ ~f.pending THEN resumed
       ELSE IF t.pending THEN t
       ELSE FinishStop(IF IsCalibratingOrGuiding(idle) THEN StopGuiding(idle)
                       ELSE idle)

StartLooping(f) ==
    IF ~f.capture THEN StartCapturing(f)
    ELSE IF IsCalibratingOrGuiding(f) THEN StopGuiding(f) ELSE f

\* CaptureActive is left to StopCapturing.
CaptureFailedActive(f) ==
    LET stopped == StopCapturing(f)
        t == IF IsCalibratingOrGuiding(stopped) THEN StopGuiding(stopped)
             ELSE stopped
    IN AbortController(Reset(Tell([t EXCEPT !.single = FALSE],
                                  "LoopingStopped")))

CaptureFailed(f) ==
    LET stopped == StopCapturing(f)
        t == IF IsCalibratingOrGuiding(stopped) THEN StopGuiding(stopped)
             ELSE stopped
        u == Reset(Tell([t EXCEPT !.single = FALSE], "LoopingStopped"))
    IN AbortController([u EXCEPT !.capture = u.cont])

\* CaptureActive does not follow m_continueCapturing.
NewImageGoesOn(f, sky) ==
    LET f1 == [f EXCEPT !.image = TRUE]
        t == UpdateControllerState(UpdateGuideState(f1, sky, ~f.cont), sky)
    IN IF t.capture THEN ScheduleExposure(t) ELSE FinishStop(t)

NewImage(f, sky) ==
    LET f1 == [f EXCEPT !.image = TRUE]
        t == UpdateControllerState(UpdateGuideState(f1, sky, ~f.cont), sky)
        u == [t EXCEPT !.capture = t.cont]
    IN IF u.capture THEN ScheduleExposure(u) ELSE FinishStop(u)

\* m_exposurePending is not cleared.
CompleteStillPending(f, err, sky) ==
    IF f.pause = "full" THEN f
    ELSE IF err THEN CaptureFailed(f) ELSE NewImage(f, sky)

OnExposeComplete(f, err, sky) ==
    LET t == [f EXCEPT !.pending = FALSE]
    IN IF t.pause = "full" THEN t
       ELSE IF err THEN CaptureFailed(t) ELSE NewImage(t, sky)

\* DoTryReconnect: too many attempts in a minute and a failed reconnection
\* complete the exposure with an error.
DoTryReconnect(f, reconnected) ==
    LET t == [f EXCEPT !.camera = reconnected]
    IN IF reconnected THEN ScheduleExposure([t EXCEPT !.pending = FALSE])
       ELSE OnExposeComplete(t, TRUE, NoSky)

LogGuideStepInfo(f, m) ==
    IF f.step[m] THEN Tell([f EXCEPT !.step[m] = FALSE], "GuideStep") ELSE f

\* An AO that hit its travel limit while guiding was re-centred: guiding is
\* stopped and started again.
MoveFailed(f, result) ==
    CASE result = "slewing" -> StopGuiding(f)
      [] result = "limit" ->
            IF f.gs \in {"CAL_PRIMARY", "CAL_SECONDARY"} THEN StopGuiding(f)
            ELSE GuiderStart(StopGuiding(f))
      [] OTHER -> f

\* The step is reported after the end of guiding.
CompleteThenLog(f, move, result) ==
    IF move.kind = "manual" THEN f
    ELSE LET t == Check([f EXCEPT !.busy[move.mount] = IF @ > 0 THEN @ - 1 ELSE 0],
                        "request count", f.busy[move.mount] > 0)
             told == IF ~IsCalibratingOrGuiding(t) /\ MountsIdle(t)
                     THEN NotifyGuidingStopped(t) ELSE t
         IN MoveFailed(LogGuideStepInfo(told, move.mount), result)

\* The end of guiding is not told when the last move is done.
CompleteUntold(f, move, result) ==
    IF move.kind = "manual" THEN f
    ELSE LET t == Check([f EXCEPT !.busy[move.mount] = IF @ > 0 THEN @ - 1 ELSE 0],
                        "request count", f.busy[move.mount] > 0)
         IN MoveFailed(LogGuideStepInfo(t, move.mount), result)

OnMoveComplete(f, move, result) ==
    IF move.kind = "manual" THEN f
    ELSE LET t == Check([f EXCEPT !.busy[move.mount] = IF @ > 0 THEN @ - 1 ELSE 0],
                        "request count", f.busy[move.mount] > 0)
             logged == LogGuideStepInfo(t, move.mount)
             told == IF ~IsCalibratingOrGuiding(logged) /\ MountsIdle(logged)
                     THEN NotifyGuidingStopped(logged) ELSE logged
         IN MoveFailed(told, result)

-------------------------------------------------------------------------------
(* The steps of the GUI thread.                                            *)

Command(name, t) ==
    /\ name \in Commands
    /\ s' = t
    /\ UNCHANGED <<primary, secondary, events>>

Loop == s.camera /\ Command("loop", StartLooping(s))
Stop == Command("stop_capture", StopCapturing(s))
PauseGuiding == Command("pause", SetPaused(s, "guiding"))
PauseFull == Command("pause_full", SetPaused(s, "full"))
Resume == Command("resume", SetPaused(s, "none"))
SingleFrame ==
    /\ s.camera /\ ~s.capture
    /\ Command("capture_single_frame", StartCapturing([s EXCEPT !.single = TRUE]))
\* GuideButtonClick, which resets the guider if it cannot start; the button is
\* enabled while a star is selected.
GuideButton == /\ s.gs = "SELECTED"
               /\ Command("guide_button", IF CannotStart(s) THEN Reset(s)
                                          ELSE StartGuiding(s))
\* The phd1-style STARTGUIDING command, whatever the guider is doing.
StartGuidingCompat == ~CannotStart(s) /\ Command("start_guiding", StartGuiding(s))
\* ConnectAll, with the automatic loading of a saved calibration switched off.
Connect == ~s.capture /\ Command("connect", [s EXCEPT !.camera = TRUE])
FindStar ==
    /\ ~IsCalibratingOrGuiding(s)
    /\ \E sky \in AutoSkies : Command("find_star", AutoSelect(s, sky))
DeselectStar == Command("deselect_star", FullReset(s))
Click == /\ s.image /\ ~IsCalibratingOrGuiding(s)
         /\ \E found \in BOOLEAN : Command("click", ClickSelect(s, found))
ShiftClick == ~IsCalibratingOrGuiding(s) /\ Command("click", DropStar(s))
ClearCalibration ==
    Command("clear_calibration",
            [s EXCEPT !.cal = [m \in Mounts |-> FALSE]])
MultiStar ==
    \E sky \in AutoSkies : Command("multistar", MultiStarOn(s, sky))

\* One pulse at a time is enough here: manual moves are not counted and only
\* take the primary worker's time.
GuidePulse ==
    /\ \A i \in DOMAIN s.moves : s.moves[i].kind # "manual"
    /\ \A i \in DOMAIN events : events[i].work.kind # "manual"
    /\ \A i \in DOMAIN primary : primary[i].kind # "manual"
    /\ ~IsCalibratingOrGuiding(s)
    /\ \E m \in Mounts : s.busy[m] = 0
                         /\ Command("guide_pulse", ScheduleMove(s, m, "manual"))

GuideOperation ==
    /\ s.ctl = "IDLE" /\ CanGuide(s)
    /\ \E force \in BOOLEAN, sky \in AutoSkies :
          Command("guide", Guide(s, force, sky))
DitherOperation ==
    /\ s.ctl = "IDLE" /\ ~DitherFails(s, TRUE)
    /\ \E raOnly \in BOOLEAN :
          Command("dither", Dither(s, "dither", raOnly))

\* The phd1-style MOVE command: whatever the controller is doing is aborted,
\* also when the dither then fails.
DitherCompat ==
    LET t == AbortController(s)
    IN IF DitherFails(t, TRUE) THEN Command("move", t)
       ELSE Command("move", Dither(t, "compat", FALSE))

NextEvent(isExposure, results) ==
    /\ events # <<>>
    /\ (Head(events).work = Exposure) \in isExposure
    /\ Head(events).result \in results
    /\ events' = Tail(events)
    /\ UNCHANGED <<primary, secondary>>

HandleImage ==
    /\ NextEvent({TRUE}, {"ok"})
    /\ \E sky \in Skies : s' = OnExposeComplete(s, FALSE, sky)

HandleCaptureError ==
    /\ NextEvent({TRUE}, {"error"})
    /\ s' = OnExposeComplete(s, TRUE, NoSky)

HandleReconnect ==
    /\ NextEvent({TRUE}, {"reconnect"})
    /\ \E reconnected \in BOOLEAN : s' = DoTryReconnect(s, reconnected)

HandleMoveComplete ==
    /\ NextEvent({FALSE}, Results)
    /\ s' = OnMoveComplete(s, Head(events).work, Head(events).result)

\* settleTimeout: the time limit passes while the controller waits.
SettleTimeLimit ==
    /\ s.ctl = "SETTLE_WAIT" /\ ~s.late
    /\ s' = [s EXCEPT !.late = TRUE]
    /\ UNCHANGED <<primary, secondary, events>>

-------------------------------------------------------------------------------
(* The worker threads.                                                     *)

\* Exposures come before moves.
PrimaryTakeExposure ==
    /\ primary = <<>>
    /\ IF s.shots > 0
       THEN /\ primary' = <<Exposure>>
            /\ s' = [s EXCEPT !.shots = @ - 1]
       ELSE /\ s.moves # <<>>
            /\ primary' = <<Head(s.moves)>>
            /\ s' = [s EXCEPT !.moves = Tail(@)]
    /\ UNCHANGED <<secondary, events>>

\* Moves come before exposures.
PrimaryTake ==
    /\ primary = <<>>
    /\ IF s.moves # <<>>
       THEN /\ primary' = <<Head(s.moves)>>
            /\ s' = [s EXCEPT !.moves = Tail(@)]
       ELSE /\ s.shots > 0
            /\ primary' = <<Exposure>>
            /\ s' = [s EXCEPT !.shots = @ - 1]
    /\ UNCHANGED <<secondary, events>>

\* The camera delivers, fails (with the interrupt of a stop, or by itself) or
\* times out; a driver may drop the connection on an error, a timeout does.
PrimaryExpose(results) ==
    /\ primary = <<Exposure>>
    /\ \E result \in results :
          /\ events' = Append(events, [work |-> Exposure, result |-> result])
          /\ \E camera \in BOOLEAN :
                /\ result = "ok" => camera = s.camera
                /\ camera => s.camera /\ result # "reconnect"
                /\ s' = [s EXCEPT !.camera = camera]
    /\ primary' = <<>>
    /\ UNCHANGED secondary

\* A move is done: MoveOffset leaves a step to report, unless it had nothing to
\* deduce or threw; an axis move leaves none.
MoveResult(move, result, recorded) ==
    /\ result = "limit" => move.mount = "ao"
    /\ result = "slewing" => move.mount = "scope"
    /\ CASE move.kind \in {"calibration", "manual"} -> ~recorded
         [] move.kind = "deduced" -> result \in {"slewing", "limit"} => recorded
         [] move.kind \in {"step", "bump"} -> result # "error" => recorded

\* A guide step of the AO may bump the scope, if the scope is not being moved.
PrimaryMove ==
    /\ primary # <<>> /\ primary # <<Exposure>>
    /\ LET move == primary[1]
       IN \E result \in {"ok", "error", "slewing", "limit"},
             recorded \in BOOLEAN, bump \in BOOLEAN :
            /\ MoveResult(move, result, recorded)
            /\ bump => /\ move.mount = "ao" /\ move.kind = "step"
                       /\ s.busy["scope"] = 0
            /\ s' = LET t == [s EXCEPT !.step[move.mount] = @ \/ recorded]
                    IN IF bump THEN ScheduleSecondaryMove(t) ELSE t
            /\ events' = Append(events, [work |-> move, result |-> result])
    /\ primary' = <<>>
    /\ UNCHANGED secondary

SecondaryTake ==
    /\ secondary = <<>> /\ s.pulses # <<>>
    /\ secondary' = <<Head(s.pulses)>>
    /\ s' = [s EXCEPT !.pulses = Tail(@)]
    /\ UNCHANGED <<primary, events>>

SecondaryMove ==
    /\ secondary # <<>>
    /\ \E result \in {"ok", "error", "slewing"}, recorded \in BOOLEAN :
          /\ MoveResult(secondary[1], result, recorded)
          /\ s' = [s EXCEPT !.step[secondary[1].mount] = @ \/ recorded]
          /\ events' = Append(events, [work |-> secondary[1], result |-> result])
    /\ secondary' = <<>>
    /\ UNCHANGED primary

-------------------------------------------------------------------------------
UserCommand ==
    \/ Loop \/ Stop \/ PauseGuiding \/ PauseFull \/ Resume \/ SingleFrame
    \/ Connect \/ GuideButton \/ StartGuidingCompat \/ FindStar \/ DeselectStar
    \/ Click \/ ShiftClick \/ ClearCalibration \/ MultiStar \/ GuidePulse
    \/ GuideOperation \/ DitherOperation \/ DitherCompat

Gui == \/ HandleImage \/ HandleCaptureError \/ HandleReconnect
       \/ HandleMoveComplete

PrimaryWorker == \/ PrimaryTake \/ PrimaryMove
                 \/ PrimaryExpose({"ok", "error", "reconnect"})
SecondaryWorker == SecondaryTake \/ SecondaryMove

Next == UserCommand \/ Gui \/ SettleTimeLimit \/ PrimaryWorker \/ SecondaryWorker

Spec == Init /\ [][Next]_vars

\* The GUI thread handles what is queued, the workers serve what they are sent
\* and time passes.  A camera that is reconnected again and again completes an
\* exposure in the end.
Fairness ==
    /\ WF_events(NextEvent(BOOLEAN, Results)) /\ WF_vars(SettleTimeLimit)
    /\ WF_vars(PrimaryWorker) /\ WF_vars(SecondaryWorker)
    /\ SF_vars(PrimaryExpose({"ok", "error"}))
FairSpec == Spec /\ Fairness

-------------------------------------------------------------------------------
(* Properties.                                                             *)

TypeOK ==
    /\ s \in States
    /\ primary \in {<<>>} \cup {<<w>> : w \in Work}
    /\ secondary \in {<<>>} \cup {<<m>> : m \in Moves}
    /\ events \in Seq([work : Work, result : Results])

\* Everything that is queued, being served or reported and not yet handled.
Reported == [i \in DOMAIN events |-> events[i].work]
Count(q, works) == Cardinality({i \in DOMAIN q : q[i] \in works})
InFlight(works) ==
    Count(s.moves, works) + Count(s.pulses, works) + Count(primary, works)
    + Count(secondary, works) + Count(Reported, works)
Counted(m) == {w \in Moves : w.mount = m /\ w.kind # "manual"}

\* m_exposurePending is true exactly while one exposure is on its way: none is
\* scheduled twice, and none is forgotten, across stops, pauses, capture errors
\* and reconnections (the assertion !m_exposurePending of ScheduleExposure).
ExposureInFlight ==
    /\ s.shots + InFlight({Exposure}) = IF s.pending THEN 1 ELSE 0
    /\ "pending exposure" \notin s.failed

\* m_requestCount is the number of outstanding moves of the mount, never more
\* than two (the assertions of Increment- and DecrementRequestCount), although
\* it is changed by the GUI thread and by the primary worker.
RequestCountExact ==
    /\ \A m \in Mounts : s.busy[m] = InFlight(Counted(m))
    /\ "request count" \notin s.failed

\* A new image never reaches the guider while the primary mount is being moved:
\* the moves a frame asked for are done, and their completions handled, before
\* the image of the next frame is.
FrameNotBusy ==
    events # <<>> /\ Head(events).work = Exposure => s.busy[Primary] = 0

\* The guider's state machine is never run while the primary mount is being
\* moved, whoever runs it (the assertion of UpdateGuideState, guider.cpp:1237).
GuiderNotBusy == "busy guider" \notin s.failed

\* Guide steps are reported between StartGuiding and GuidingStopped
\* (the comment in Guider::StopGuiding), settling news between SettleBegin and
\* SettleDone, and SettleDone answers an operation that was accepted.
InTurn == ~s.client.outOfTurn

\* An accepted operation is answered once, when the controller goes idle.
OneAnswer == s.client.owed = IF s.ctl = "IDLE" THEN 0 ELSE 1

\* Between operations the scope has the Dec guide mode the user gave it.
DecModeRestored == s.ctl = "IDLE" => s.dec = UserDecMode

\* Guiding has a star position, a lock position and calibrated mounts.
GuidingReady == s.gs = "GUIDING" => /\ ValidStar(s) /\ s.lock
                                    /\ AllCalibrated(s)

\* While images are wanted an exposure is on its way, or the guider is fully
\* paused.
CaptureAlive == s.capture /\ s.cont => s.pending \/ s.pause = "full"

\* CaptureActive is cleared on exposure completion (the comment in
\* StartCapturing).
CaptureCleared == s.capture /\ ~s.cont => s.pending

\* The guider calibrates or guides only while images are taken.
GuidesOnImages == IsCalibratingOrGuiding(s) => s.capture

\* A listener that was told guiding has started is told when it has stopped, at
\* the latest when the last outstanding move is done (Guider::StopGuiding).
StoppedIsTold ==
    s.client.guiding => IsCalibratingOrGuiding(s) \/ ~MountsIdle(s)

-------------------------------------------------------------------------------
(* The inductive invariant: what a handler leaves in the record, and what  *)
(* is on its way to and from the workers.                                  *)

\* A capture is active while an exposure is pending or another is to follow.
Capturing(t) == (t.pending => t.capture) /\ (t.cont => t.capture)

\* The states of the controller that wait for a frame; it passes through the
\* others within a call.
Resting == {"IDLE", "ATTEMPT_START", "SELECT_STAR", "WAIT_SELECTED",
            "CALIBRATION_WAIT", "SETTLE_BEGIN", "SETTLE_WAIT"}

\* The clients are told as the controller goes on.
AnswersKept(t) ==
    /\ t.client.owed = IF t.ctl = "IDLE" THEN 0 ELSE 1
    /\ t.client.settling = (t.ctl = "SETTLE_WAIT")
    /\ ~t.client.outOfTurn

\* The attempts that are left, and the overridden Dec guide mode.
Trying(t) ==
    /\ t.ctl \in {"ATTEMPT_START", "SELECT_STAR", "WAIT_SELECTED"} => t.attempts # 0
    /\ t.ctl = "WAIT_SELECTED" => t.waits # 0
DecKept(t) ==
    /\ t.override => t.saveDec = UserDecMode /\ t.ctl \in {"SETTLE_BEGIN", "SETTLE_WAIT"}
    /\ ~t.override => t.dec = UserDecMode

\* Unless a calibration is cleared under the guider.
Ready(t) ==
    "clear_calibration" \notin Commands =>
        /\ t.gs = "GUIDING" => ValidStar(t) /\ t.lock
        /\ t.gs \in {"CALIBRATED", "GUIDING"} => AllCalibrated(t)
        /\ t.gs = "CAL_SECONDARY" => t.cal[Primary]

\* Some commands stop guiding and tell nobody.
Silent == {"deselect_star", "clear_calibration", "guide"}
Told(t) ==
    Commands \cap Silent = {} =>
        /\ t.client.guiding => AllCalibrated(t) /\ (IsCalibratingOrGuiding(t) \/ ~MountsIdle(t))
        /\ t.ctl \in {"IDLE", "SETTLE_BEGIN", "SETTLE_WAIT"}

\* The moves that leave a guide step to report, and those a frame asks for.
GuideMoves == {w \in Moves : w.kind \in {"step", "deduced", "bump"}}
Bump == [mount |-> "scope", kind |-> "bump"]
FrameMoves == {w \in Moves : w.kind \notin {"manual", "bump"}}

\* Guide moves are on their way only while a listener knows of guiding, and a step
\* that is not reported has its move's completion queued.
StepsKnown ==
    /\ s.gs = "GUIDING" \/ InFlight(GuideMoves) > 0 => s.client.guiding
    /\ \A m \in Mounts : s.step[m] =>
          \E i \in DOMAIN events : events[i].work.mount = m /\ events[i].work \in GuideMoves

\* Only the secondary worker bumps the scope, once at a time.
Bumps ==
    /\ InFlight({Bump}) <= IF HasAO THEN 1 ELSE 0
    /\ \A i \in DOMAIN s.moves : s.moves[i].kind # "bump"
    /\ \A i \in DOMAIN primary : primary[i].kind # "bump"
    /\ \A i \in DOMAIN s.pulses : s.pulses[i] = Bump
    /\ \A i \in DOMAIN secondary : secondary[i] = Bump
    /\ \A i \in DOMAIN events : events[i].work.kind = "bump" => events[i].work = Bump

\* An exposure that is taken has the moves of the last frame before it.
MovesFirst ==
    /\ Exposure \in {primary[i] : i \in DOMAIN primary} \cup {events[i].work : i \in DOMAIN events}
          => \A i \in DOMAIN s.moves : s.moves[i] \notin FrameMoves
    /\ \A i \in DOMAIN events : events[i].work = Exposure =>
          /\ \A j \in DOMAIN primary : primary[j] \notin FrameMoves
          /\ \A j \in DOMAIN events : j > i => events[j].work \notin FrameMoves

\* Between handlers the capture flags, the controller, its listener, the guider
\* and the Dec mode agree with each other, and the counts and the pending
\* exposure with what is queued, being served and reported: a handler that
\* returns early, or a queue served in another order, must not part them.
SessionInv ==
    /\ TypeOK /\ s.ctl \in Resting
    /\ Capturing(s) /\ AnswersKept(s) /\ Trying(s) /\ DecKept(s) /\ Ready(s) /\ Told(s)
    /\ CaptureAlive /\ ExposureInFlight /\ RequestCountExact
    /\ StepsKnown /\ Bumps /\ MovesFirst
    /\ "pause_full" \notin Commands => s.pause # "full" /\ CaptureCleared

\* What the clients see of the steps above is what Operations promises: no handler,
\* whatever it calls on its way, begins an operation, answers it, stops guiding or
\* leaves the Dec guide mode in another order.
Phase == CASE s.client.owed = 0 -> "idle"
           [] s.client.owed # 0 /\ s.client.settling -> "settling"
           [] s.client.owed # 0 /\ ~s.client.settling -> "waiting"
Ops == INSTANCE Operations WITH
        op <- s.op, phase <- Phase, guiding <- s.client.guiding, dec <- s.dec,
        UserMode <- UserDecMode, Overridable <- ~HasAO /\ UserDecMode = "NORTH"
ImplementsOperations == Ops!Spec

\* A capture that is stopped ends, or is started again.
StopEnds == s.capture /\ ~s.cont ~> ~s.capture \/ s.cont

\* Settling that has begun ends.
SettlingEnds == s.client.settling ~> ~s.client.settling

\* An accepted operation is guaranteed its SettleDone (doc/index.md:563).
OperationAnswered == s.client.owed = 1 ~> s.client.owed = 0
===============================================================================
