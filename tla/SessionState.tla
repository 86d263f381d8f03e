----------------------------- MODULE SessionState -----------------------------
(***************************************************************************)
(* The state the GUI thread works on while it loops, calibrates and        *)
(* guides, as one record s, and the operations every part of it uses: what *)
(* MyFrame schedules on the worker threads, what clients are told, the end *)
(* of a controller operation and the end of guiding.                       *)
(*                                                                         *)
(* A handler of the GUI thread runs to its end before the next one, and    *)
(* calls from frame to guider to controller and back, so each function is  *)
(* an operator from such a record to the record it leaves.                 *)
(***************************************************************************)
EXTENDS Integers, Sequences, FiniteSets

CONSTANTS HasAO,         \* an AO is the primary mount, the scope the secondary
          AutoExposure,  \* auto-exposure is enabled
          UserDecMode    \* the scope's Dec guide mode, as the user set it

DecModes == {"AUTO", "NONE", "NORTH"}
ASSUME SessionAssumption ==
    /\ HasAO \in BOOLEAN /\ AutoExposure \in BOOLEAN
    /\ UserDecMode \in DecModes

Primary == IF HasAO THEN "ao" ELSE "scope"       \* pMount
Mounts == {Primary, "scope"}                     \* pMount, pSecondaryMount

GuiderStates == {"SELECTING", "SELECTED", "CAL_PRIMARY", "CAL_SECONDARY",
                 "CALIBRATED", "GUIDING"}
ControllerStates == {"IDLE", "SETUP", "ATTEMPT_START", "SELECT_STAR",
                     "WAIT_SELECTED", "CALIBRATE", "CALIBRATION_WAIT", "GUIDE",
                     "SETTLE_BEGIN", "SETTLE_WAIT", "FINISH"}

\* MOVEOPTS_GUIDE_STEP and _RECOVERY_MOVE, _DEDUCED_MOVE, _AO_BUMP,
\* _CALIBRATION_MOVE, and MOVEOPT_MANUAL.
MoveKinds == {"step", "deduced", "bump", "calibration", "manual"}
Moves == [mount : Mounts, kind : MoveKinds]

\* What a listener to the events keeps: it was told that guiding runs, it is in the
\* middle of settling, how many SettleDone answers it is owed, and that it was told
\* something out of turn.
Listeners == [guiding : BOOLEAN, settling : BOOLEAN, owed : Int,
              outOfTurn : BOOLEAN]

\* The frame's capture flags (CaptureActive, m_continueCapturing,
\* m_exposurePending, m_singleExposure.enabled), pCamera->Connected and whether
\* there is an image; the guider's pause, state, primary star and lock position;
\* each mount's calibration, m_requestCount and whether m_lastStep holds a step
\* not yet reported; the controller's record (late: its time limit for settling
\* has passed) and the Dec guide mode; the queues of the two worker threads; a listener
\* to the events; the assertions that have failed.
\* A star is "none" (invalid, at the origin), "stale" (invalid, its position
\* kept), "lost" (valid, not found in the last image), or "found".
States == [capture : BOOLEAN, cont : BOOLEAN, pending : BOOLEAN,
           single : BOOLEAN, camera : BOOLEAN, image : BOOLEAN,
           pause : {"none", "guiding", "full"},
           gs : GuiderStates,
           star : {"none", "stale", "lost", "found"},
           lock : BOOLEAN, cal : [Mounts -> BOOLEAN], busy : [Mounts -> Nat],
           step : [Mounts -> BOOLEAN],
           ctl : ControllerStates, op : {"none", "guide", "dither", "compat"},
           force : BOOLEAN, late : BOOLEAN, attempts : 0..3, waits : 0..3,
           override : BOOLEAN, dec : DecModes, saveDec : DecModes,
           moves : Seq(Moves), shots : Nat, pulses : Seq(Moves),
           client : Listeners,
           failed : SUBSET {"busy guider", "pending exposure", "request count"}]

Connected == [capture |-> FALSE, cont |-> FALSE, pending |-> FALSE,
              single |-> FALSE, camera |-> TRUE, image |-> FALSE,
              pause |-> "none",
              gs |-> "SELECTING", star |-> "none", lock |-> FALSE,
              cal |-> [m \in Mounts |-> FALSE],
              busy |-> [m \in Mounts |-> 0], step |-> [m \in Mounts |-> FALSE],
              ctl |-> "IDLE", op |-> "none", force |-> FALSE,
              late |-> FALSE, attempts |-> 0, waits |-> 0, override |-> FALSE,
              dec |-> UserDecMode, saveDec |-> UserDecMode,
              moves |-> <<>>, shots |-> 0, pulses |-> <<>>,
              client |-> [guiding |-> FALSE, settling |-> FALSE, owed |-> 0,
                          outOfTurn |-> FALSE],
              failed |-> {}]

\* A guide step outside guiding, settling news outside settling or an answer to
\* nothing is out of turn.
Hear(c, e) ==
    CASE e = "StartGuiding" -> [c EXCEPT !.guiding = TRUE]
      [] e = "GuidingStopped" -> [c EXCEPT !.guiding = FALSE]
      [] e = "GuideStep" -> [c EXCEPT !.outOfTurn = @ \/ ~c.guiding]
      [] e = "SettleBegin" -> [c EXCEPT !.settling = TRUE,
                                        !.outOfTurn = @ \/ c.settling]
      [] e = "Settling" -> [c EXCEPT !.outOfTurn = @ \/ ~c.settling]
      [] e \in {"SettleDone", "SettleFailed"} ->
            [c EXCEPT !.settling = FALSE, !.owed = @ - 1,
                      !.outOfTurn = @ \/ c.owed = 0
                                      \/ (e = "SettleDone" /\ ~c.settling)]
      [] OTHER -> c

\* EvtServer.Notify...
Tell(s, e) == [s EXCEPT !.client = Hear(@, e)]
Check(s, what, holds) == IF holds THEN s ELSE [s EXCEPT !.failed = @ \cup {what}]

ValidStar(s) == s.star \in {"lost", "found"}     \* CurrentPosition().IsValid()
IsLocked(s) == s.star = "found"
IsCalibratingOrGuiding(s) == s.gs \notin {"SELECTING", "SELECTED"}
IsPaused(s) == s.pause # "none"
MountsIdle(s) == \A m \in Mounts : s.busy[m] = 0
AllCalibrated(s) == \A m \in Mounts : s.cal[m]

-------------------------------------------------------------------------------
(* What the frame schedules.                                               *)

ScheduleExposure(s) ==
    [Check(s, "pending exposure", ~s.pending) EXCEPT
        !.pending = TRUE, !.shots = @ + 1]

\* Mount::IncrementRequestCount, with its assertion.
IncrementRequestCount(s, m) ==
    Check([s EXCEPT !.busy[m] = @ + 1], "request count", s.busy[m] < 2)

\* SchedulePrimaryMove and ScheduleAxisMove.
ScheduleMove(s, m, kind) ==
    LET counted == IF kind = "manual" THEN s ELSE IncrementRequestCount(s, m)
    IN [counted EXCEPT !.moves = Append(@, [mount |-> m, kind |-> kind])]

\* A bump that is not counted as an outstanding move.
ScheduleUncounted(s) ==
    [s EXCEPT !.pulses = Append(@, [mount |-> "scope", kind |-> "bump"])]

\* The primary worker asks the secondary one to bump the scope.
ScheduleSecondaryMove(s) ==
    [IncrementRequestCount(s, "scope") EXCEPT
        !.pulses = Append(@, [mount |-> "scope", kind |-> "bump"])]

StartCapturing(s) ==
    IF s.capture THEN s
    ELSE LET t == [s EXCEPT !.capture = TRUE, !.cont = ~s.single \/ s.cont]
         IN IF t.pending THEN t ELSE ScheduleExposure(t)

-------------------------------------------------------------------------------
(* The end of a controller operation, and the end of guiding.              *)

\* The overridden Dec guide mode stays.
FinishKeepsDec(s, event) ==
    Tell([s EXCEPT !.override = FALSE, !.ctl = "IDLE", !.op = "none",
                   !.force = FALSE, !.late = FALSE, !.attempts = 0, !.waits = 0,
                   !.saveDec = UserDecMode], event)

\* STATE_FINISH: the Dec guide mode is restored, SettleDone sent.  What the next
\* operation sets before it reads it is forgotten, to merge states that do not
\* differ.
Finish(s, event) ==
    Tell([s EXCEPT !.dec = IF s.override THEN s.saveDec ELSE @,
                   !.override = FALSE, !.ctl = "IDLE",
                   !.op = "none", !.force = FALSE, !.late = FALSE,
                   !.attempts = 0, !.waits = 0, !.saveDec = UserDecMode], event)

\* The client is told of the abort, and the controller goes on.
AbortGoesOn(s) == IF s.ctl = "IDLE" THEN s ELSE Tell(s, "SettleFailed")

AbortController(s) == IF s.ctl = "IDLE" THEN s ELSE Finish(s, "SettleFailed")

\* The end of guiding leaves the operation waiting.
StoppedUnanswered(s) == Tell(s, "GuidingStopped")

NotifyGuidingStopped(s) == AbortController(Tell(s, "GuidingStopped"))
===============================================================================
