# Models of the guiding core

This directory holds TLA+ models of the part of the program that guides: the
worker threads that talk to the camera and the mounts, the frame (`MyFrame`)
that loops exposures, the guider that looks at each image, the controller that
runs the operations of the event server, and what clients of the event server
are told; and, each by itself, an adaptive optics unit, the calibration of a
scope, the compensation of its backlash, and a camera behind an INDI server. TLC
checks them on small instances; TLAPS proves the invariants of the worker thread, the
guide session, the INDI camera, the AO, the calibration of a scope and the backlash
compensation for every instance.

The text has five parts: the inventory of the system, the modules, the runs,
the proofs, and the plan.

## 1. The system

The program is an autoguider. It takes an image of a star every second or so,
measures how far the star has drifted from its *lock position*, and moves the
mount (and, if there is one, an adaptive optics unit, AO) to bring it back. A
wxWidgets application, it has one GUI thread that owns nearly all state, and one
or two *worker threads* that make the blocking calls.

    clients <-- events ---+-- commands --> EventServer / SocketServer
                          |                      |
                          |   (GUI thread)       v
                       MyFrame  <---------->  PhdController
                          |  ^                   |
         ScheduleExposure |  | OnExposeComplete  v
         Schedule...Move  |  | OnMoveComplete  Guider (GuiderMultiStar)
                          v  |
         primary WorkerThread, secondary WorkerThread
                          |
                 camera, AO, mount drivers

| Component | State it keeps | Operations | Hard behaviour |
|---|---|---|---|
| Worker thread (`server/worker_thread`) | two message queues by priority, a wake-up queue, interrupt flags, a "completion deferred" flag | enqueue an exposure, a move, a termination; request a stop; serve | several threads enqueue; message and wake-up are posted separately; a capture timeout hands the answer to another thread; the thread can be killed |
| `MyFrame` (`gui/myframe`, `gui/myframe_events`) | capture active, continue, exposure pending, single exposure; the two workers | loop, stop, pause, resume, single frame, completion of exposures and moves, reconnect, dither, start guiding | stops and pauses that come while an exposure is pending are finished by its completion |
| `Guider`, `GuiderMultiStar` (`guiding/`) | state machine from SELECTING to GUIDING, primary star, lock position, pause | select a star, start, stop, reset, process a frame | stopped while moves are outstanding; run outside a frame by star selection |
| `PhdController` (`controller.cpp`) | the operation, its state, retries, settling, the saved Dec mode | guide, dither, abort, advance on a frame | an operation can end in many places and must be answered once; waits for other components |
| `Mount` (`telescope/mount`) | calibration, number of outstanding requests, the last step to report | move, report | counted by the GUI thread and by a worker |
| Event and socket servers (`server/`) | connected clients | commands, notifications | what clients infer from the order of events |
| Camera (`camera/camera`) | connected, a reconnection under way | capture, disconnect, reconnect | a timeout on the worker reconnects on the GUI thread |
| `StepGuider` (`ao/`) | position within limits, bump in progress, calibration | step, bump the mount, re-centre | limits off by one; bump against the secondary mount's own moves |
| `CameraINDI` (`camera/cam_indi`) | connection, properties, the last frame, a guide pulse under way | capture a frame or a stream, guide, handle what the driver sends | the worker and the INDI client's thread share all of it; late images, lost connections |
| `Scope` (`telescope/scope`) | calibration state machine, rates, Dec mode | calibrate, move an axis | long sequences of frames, thresholds, play in the gear, pulses that fail |
| `BacklashComp` (`algorithm/backlash_comp`) | last direction, pulse and its limits, a history of compensations | track, adjust, compensate; settings | an index into a history that several handlers shorten, a pulse adjusted by its own results |
| Guide algorithms (`algorithm/`) | histories of offsets | result for an offset | floating-point arithmetic |

The rest (device drivers, image processing, the JSON parser, configuration,
loggers, dialogs and tools, network update, the Gaussian process) has no control
of its own that the properties below depend on. `PROJECT.json` lists every
component with its sources and what is left out.

What makes each part correct:

- *Worker thread*: an enqueued request is served, in its priority and order, and
  answered exactly once; no wake-up is lost or spurious; a termination ends it
  whatever else is enqueued.
- *Frame*: one exposure is on its way exactly when the frame believes so; the loop
  dies only when it was told to stop; a stop always ends it.
- *Guider*: a frame is processed only when the moves of the previous one are done;
  guiding has a star, a lock position and a calibration; clients hear of its start
  and its end, with every guide step in between.
- *Controller*: an accepted operation is answered once, and at all; the user's Dec
  mode survives every way a dither can end.
- *AO*: the program knows where the mirror is, keeps it in its travel, and a
  calibration ends with distances it can divide by.
- *INDI camera*: a capture returns the image it asked for or ends; a pulse that is
  reported done is done.
- *Scope calibration*: it ends; the rates are the mount's, whatever play the gear has;
  going back loses no star and ends where it began.
- *Backlash compensation*: tracking stays inside the history; an adjustment goes the
  way the miss demands and respects the user's limits.

## 2. The modules

| Module | Models |
|---|---|
| `WorkQueue` | what a worker thread promises: two classes of requests, one served at a time, each answered once |
| `WorkerThread` | how it does so: every step that another thread can observe |
| `MCWorkerThread` | instances of it for TLC |
| `WorkerThread_proofs` | theorems about its queues, flags and answers, and the refinement of `WorkQueue` |
| `Operations` | what a client is promised about guide and dither |
| `SessionState` | the state of the GUI thread, and the operations every part of it uses |
| `Guider` | the guider's state machine, a frame, star selection (extends `SessionState`) |
| `Controller` | `PhdController` (extends `Guider`) |
| `GuideSession` | the frame's handlers, commands, the worker threads as `WorkQueue` describes them, a listening client (extends `Controller`) |
| `GuideSession_proofs` | theorems about the session |
| `GuideOperations_proofs` | the refinement of `Operations` by the session (extends `GuideSession_proofs`) |
| `MCGuideSession` | sets of commands for TLC |
| `StepGuider` | the AO by itself: its position and mirror, the moves of two threads, centring, its calibration |
| `MCStepGuider` | values of its constants for TLC |
| `StepGuider_proofs` | theorems about the AO's position |
| `AOCalibration_proofs` | theorems about its calibration (extends `StepGuider_proofs`) |
| `IndiCamera` | a camera and guide port behind an INDI server: the worker, the INDI client's thread and the GUI thread over shared fields |
| `IndiCamera_proofs` | theorems about it |
| `ScopeCalibration` | the calibration of a scope, image by image, on a mount with play |
| `ScopeCalibration_proofs` | theorems about it |
| `Backlash` | the compensation of the Dec backlash: its history, its pulse, its settings |
| `MCBacklash` | values of its constants for TLC |
| `Backlash_proofs` | theorems about it |

From `StepGuider` on they stand by themselves: the session takes what they decide (an image or
none, a calibration step, the result of a move) as an input.

### The worker thread

`WorkerThread` has the steps other threads can observe. A producer's call
(`Call`) is followed by taking the critical section (`Enter`), reading the
interrupt flags (`LoadFlags`), writing them (`StoreFlags`), posting the message
(`PostMessage`), posting the wake-up (`PostWakeup`) and leaving (`Leave`): `&=` on
a shared variable is two steps, and a message becomes visible before its
wake-up. The worker takes a wake-up (`Wake`), looks at the high-priority queue
(`ReceiveHigh`) and, when that is empty, at the low-priority one (`ReceiveLow`);
`wpc = "missed"` is the instant in between, where a move can still arrive. An
exposure is delayed, captured and reported (`ExposeDelay`, `Capture` or
`CaptureTimeout`, `ReportExpose`); a timeout queues the reconnection and sets the
flag that suppresses the report.

`StopWorkerThread` posts a termination and waits *inside* the critical section,
dispatching events: `stopping` stands for that wait, during which handlers of the
GUI thread may enqueue more (the section is recursive), until the thread has ended
(`Join`) or the time is up (`Kill`). `Kill` may happen at any moment of the wait.

Producers are the GUI thread (`Main`), other worker threads (`Others`) and the
worker itself (`Self`): moving an AO may ask for a bump of the mount, and a mount
that can only be moved synchronously shares the worker of the AO. `Bumping` are the
moves that may do so.

Not in the model: the captures and moves that are run on the GUI thread while the
worker waits on a semaphore (every camera has a non-GUI capture and no mount asks
for it), and `WorkerThreadKillGuard`, which has no user.

`ImplementsWorkQueue` maps the thread to `WorkQueue`. An exposure counts as taken
at the moment the high-priority queue is found empty, so a move that arrives
between the two receives is, correctly, too late; a deferred exposure counts as
answered when the reconnection is queued.

### The session

The GUI thread runs one handler at a time, to its end, and a handler calls from
frame to guider to controller and back. So the state the GUI thread works on is one
record `s`, and each function of the program is an operator from a record to the
record it leaves: `StopCapturing(s)`, `UpdateGuideState(s, sky, stopping)`,
`UpdateControllerState(s, sky)`. An action of `GuideSession` applies one handler to
`s`; a notification changes the listener's part of it (`s.client`, by `Hear`), in
the order the handler sends them. The controller's loop is a chain: an operator per
state, which goes on in another one or leaves the record. The interleaving is between handlers, the worker threads and the queue of completion
events.

Fields of `s` follow the code: `capture` is `CaptureActive`, `cont`
`m_continueCapturing`, `pending` `m_exposurePending`, `busy[m]` the mount's
`m_requestCount`, `step[m]` whether `m_lastStep` holds a step not yet reported, `gs`
the guider's state, `ctl` the controller's, `op` its operation, `dec` and `saveDec`
the Dec guide mode and the one saved by a dither. `late` says that the settling
time limit has passed. `shots`, `moves` and `pulses` are what the workers were sent.
`failed` collects assertions of the code that did not hold.

What the algorithms see in an image is an input, `sky`: whether the star is found
and passes the checks, what automatic selection finds, what a calibration step asks
for (nothing, a move, two moves, done, failed), whether a frame completes the
settling. These are free choices in every step in which they matter. A star is
`none`, `stale` (invalid, its coordinates kept), `lost` (valid, not in the last
image) or `found`, since the code treats the four differently.

The workers in `GuideSession` are the ones of `WorkQueue`: moves before exposures,
each class in order, one answer each. A move may fail, find the mount slewing or
the AO at its limit; whether it leaves a guide step to report follows
`Mount::MoveOffset`. The primary worker counts the bump of the scope itself
(`ScheduleSecondaryMove`) while the GUI thread counts it down; both are single
steps, because the worker counts up only when it has read 0, so the GUI thread is
not at that moment counting down.

`Operations` is the session seen by a client: its `op` is `s.op`, its `phase` what the
client was told (`Phase`: nothing owed, an answer owed, settling begun), `guiding` that
guiding was announced, `dec` the scope's Dec guide mode. What makes an operation wait
or fail is left open there, and the order is not: nothing stops guiding under an
operation that is still to be answered, and only a phd1-style dither takes the place of
another operation.

Assumptions of the session:

- The mounts stay connected; the camera may disconnect on an error or a timeout.
- The lock position is present or absent; where it is, and whether it is sticky,
  is not modelled. Neither are secondary stars: the primary decides.
- Automatic loading of a saved calibration is switched off.
- The user's Dec mode does not change during a session (`UserDecMode`).
- One guide pulse is outstanding at a time (manual moves are not counted and only
  take the worker's time).

### The AO

`StepGuider` models the AO as the primary mount, closer than the session does, with
only as much of guider, frame and worker around it as moves it. `offset` is
`m_xOffset` and `m_yOffset`, where the program thinks the mirror is; `mirror` is where
it is. A call of `MoveAxis` (`call[t]`) is cut to what is left of the travel
(`CheckLimit`), moves the mirror (`StepTaken`, `StepFails` or `StepLimitReached`, after
which `Center` zeroes both) and adds to the offset, which is a read and a write
(`LoadOffset`, `StoreOffset`). Two threads make such calls: the primary worker serves
calibration moves, guide steps (both axes, `NextAxis`) and pulses; the GUI thread
centres the mirror itself (`MoveToCenter`: `CentreAxis`, `CentreMoved`) when it is told
that guiding has stopped, and does nothing else until that is over (`GuiFree`). No
lock orders the two. What keeps them apart is `m_requestCount` (`Busy`): guiding is told
to have stopped with the last counted move.

The calibration (`CalibrationStep`) is `UpdateCalibrationState` state by state, with its
fall-through cases as operators that call the next one. An image shows the star where
the mirror was when it was exposed; distances are measured in steps, and a rate is kept
as the distance and the number it is divided by. `LimitReached` and `MoveEnded` are
`OnMoveComplete`.

Three commands come between: pulses of the manual guide window, which nothing refuses
and nothing counts; a new travel set in the dialog; guiding started on an image taken
before the mirror last moved. `undisturbed` is false once a pulse overlaps a
calibration or a centring, the travel is changed other than at rest or to less than
where the mirror is, or guiding starts on such an image: then the code keeps no promise
about the position, and the properties do not ask for one. `Interfere` is FALSE in the
runs: what follows an interference is not explored, except the end of the program
(`Restart`), after which everything is as at the first connection. Two things are
forgotten that the code keeps but overwrites before it reads them, to merge states:
the measurements of a calibration that was given up, and the error count outside a
calibration.

### The INDI camera

`IndiCamera` has three threads. The worker is in `Capture` or in
`ST4PulseGuideScope` (`worker`, one place for every test or use of a shared field);
the INDI client's thread takes one message after the other from `net` (`listener` is
inside the stacking of a streamed frame, or idle); the GUI thread connects, handles a
queued disconnection (`alert`) and requests stops. `cam` are the fields they share
without a lock: which properties are set, `ready`, `first_frame`, the state of the
exposure property, `m_lastFrame`, `guide_active` and its axis. The driver is external:
it may be late for ever, sends what it owes in order, and can drop its device or its
server at any time, which clears the properties under the worker. The worker then
reaches code that uses a null property; `crashed` is that, and nothing follows it.

An image is `own` when it was exposed for the request being served and `old` when
it was for an earlier one; sending an exposure turns every image on its way into an
old one. That is what makes a late image visible to `FrameIsFresh`.

### The calibration of a scope

`ScopeCalibration` runs `UpdateCalibrationState` once per image (`NewImage`). Each
state of it is an operator, and a case that falls through into the next calls it. It asks for
one pulse, which the worker executes (`MoveAxis`): the star moves with the speed of
the axis, after the play of the Dec gear is taken up; the axis may be dead, and up to
`MaxFaults` pulses do nothing or move the star a pixel the other way. Distances are
whole pixels along the camera's axes. A rate is the pair of the distance and the time
it is divided by, so every comparison of the code is one of integers, by cross
multiplication; where the code compares lengths the model compares squares.
`SetDecGuideMode` changes the mode between two images.

### Backlash compensation

`Backlash` follows one `MoveOffset` of the worker after the other: `Track` (what
`TrackBLCResults` does before it looks at the history), `Adjust` (the rest of it) and
`Apply` (`ApplyBacklashComp`). Between them the GUI thread changes settings, takes a
recommendation, changes the Dec mode, or is told that guiding has stopped. An event of
the history is the sequence of the misses that followed it, at most two; offsets are in
units of what the mount moves in a unit of time. There is no lock between the threads:
settings change while the worker tracks, and a change of more than 100 ms clears the
history under it. `Adjust` then reads beyond the end of `blcEvents`, which is undefined;
the model ends there (`worker = "crashed"`). What `Adjust` does after that test is one
step, in which settings do not interleave.

A profile starts with no pulse and no limits (`<<0, 0, 0>>`) or with stored settings.
`Settings` are pulses of at least `MIN_COMP_AMOUNT` with their limits: the dialog's
control begins there, at 20 milliseconds, and a recommendation is only taken above 100.

## 3. The runs

Properties of a run, and what they say, are commented in the modules.

| Run | Instance | Shows |
|---|---|---|
| `WorkerPrimary` | 2 exposures, 2 moves, one of them bumping; the GUI thread, the worker itself and another worker post | the invariant of the proofs (`WorkerInv`, which contains the types); no spurious or lost wake-up, one answer each, `WorkQueue` implemented, the termination flag sticks, requests are answered, `StopWorkerThread` returns |
| `ScopeOperations` | a scope, one-sided Dec mode, auto-exposure; the operations of the event server and what aborts or disturbs them | the invariant of the proofs (`SessionInv`, which contains the types); `OneAnswer`, `DecModeRestored`, `ExposureInFlight`, `CaptureAlive`; `Operations` implemented (`ImplementsOperations`) |
| `AOSession` | an AO in front of a scope, under fairness; the guide button, the phd1-style start, dither, clicks, pauses, stops | counts of two mounts and two threads (`RequestCountExact`, `FrameNotBusy`); events in turn, the end of guiding told after the last step (`InTurn`, `StoppedIsTold`); `GuidingReady`, `CaptureCleared`; a stop ends, settling ends |
| `AOCalibration` | the AO, travel 1 or 3, moves of up to 2 steps, one error allowed, under fairness | the invariant of the proofs (`CalibrationInv`, which contains `PositionInv` and the types); `PositionKnown`, `WithinTravel`, `CalibrationExact`, `AssertionsHold`, `EndsNearCentre`, `CalibrationEnds` |
| `IndiCamera` | a driver with exposures, a stream and a guide port, under fairness | the invariant of the proofs (`CameraInv`, which contains the types); `FrameIsFresh`, `PulseIsOwn`, `StillEnds`, `PulseEnds` |
| `ScopeCalibration` | play from none to more than clearing can take up, a dead axis, two failing pulses, changes of the Dec mode | `RatesExact`, `RetraceSafe`, `EndsNearStart`, `DecReturns`, `CalibrationEnds` |
| `Backlash` | a pulse that may be adjusted and one that is fixed; moves of all kinds, all settings | `HistorySound`, `AdjustmentBounded` |

Bounds. The worker's requests are used once each, so two exposures and two moves
are two requests in each queue at the same time, with a termination behind or
between them, and three threads contend for the critical section. More requests
only repeat these situations: nothing in the code compares two requests of a class. In the session
no bound is needed on images, moves or events: the program itself keeps at most one
exposure and two moves per mount outstanding, and the invariants confirm it.
`MaxAttempts` is 2 where the code allows 3 attempts at selecting a star and 3 frames
of waiting, which keeps the first, the repeated and the last attempt apart. Each run
gives the set of commands it explores (`Commands`, in `MCGuideSession`): together they
cover every command, and the sets are chosen so that commands that can disturb each
other are together. For the AO a travel of 1 is the case with no step to make, and a travel of 3
has two positions on each side of the centre: with two steps to a calibration move
(`CalSteps`), moves across the travel are whole and a move from the centre to an end
is one, a failed or cut one leaves an odd rest, and re-centring ends at or beside the
centre. Guide steps and pulses of 0 and 3 do nothing and overshoot. Two samples
(`Samples`) make averaging take more than one image. `MaxErrors` is 1 for 12: the errors
that are allowed, and one more. `MaxManual` pulses wait in the queue at a time.

The INDI camera has one of each thing: one frame kept, one pulse, at most one stream
message not yet read; stacked frames count to 3, which is what the code asks for. The
driver has all three properties, so that a capture can turn from an exposure to the
stream, and `ForceExposure` is FALSE, so that it does.

The calibration measures 10 pixels (`CalDistance`) with pulses of 4 at speeds of 2 and
1, so it takes two pulses west and three north. `Plays` are none, less than a
pulse, more than one, more than two, as much as leaves the eight clearing pulses
(`MaxClearing`) just the three pixels that are enough (29), and more than they take up
(40). `MaxSteps` is 4
where the code has 60: with a failing pulse the longest measurement is at the limit, with two beyond it.
`MaxMove` and the longest pulses (`MaxRa`, `MaxDec`) lie on both sides of the
calibration pulse and of each other's limit. `EndsNearStart` leaves Dec as much way as the
play of the gear may keep from it; `DecReturns` asks for a return to within the nudges'
tolerance, but only if the play is no more than one pulse: the nudges, four at most,
cannot undo more.

The backlash history is 5 deep where the code has 10: 5 is the least depth at which the
rule for repeated overshoots (`blcIndex >= 4`) applies, with events dropping out
at the front. Offsets of two units on either side are beyond `MinMove`; one pulse lies
within limits `MIN_COMP_AMOUNT` apart, the other is its own floor and ceiling, as
the dialog sets it with an AO, and is fixed.

Fairness. A thread that can run does run (`WF` of the worker and of the event
queue); a producer that waits for the critical section gets it in the end (`SF`, since
it is not always free); a wait with a time limit ends (`WF` of `Join \/ Kill` and
`SettleTimeLimit`). One assumption is about the environment: `SF` of an exposure that
completes or fails says that a camera which is reconnected again and again completes
an exposure in the end. The code gives up after three reconnections in a minute; the
assumption excludes a camera that times out for ever, but less often than that.

For the AO the worker's steps, its exposures, and the GUI thread's centring and its
handlers of images and completed moves are weakly fair; no command has to be given,
and steps may fail for ever: `CalibrationEnds` then rests on the count of errors.

For the INDI camera the worker and the INDI client's thread are weakly fair, time
passes for the watchdog, a queued disconnection is handled, and the driver ends a pulse
and streams; it need not end an exposure, nor stay connected. For the calibration
images come and pulses are executed; nobody has to change the Dec mode, or to stop
changing it. Backlash has no liveness: nothing has to happen there.

`CHECK_DEADLOCK FALSE` is set where the system may stop: a worker thread that has
ended, an INDI camera whose worker has crashed or was told to end, a calibration that
is over. `Backlash` sets it for the same reason, a worker that has crashed, which
`HistorySound` shows to happen in one case only. The session and the AO never stop, and deadlock is
checked there.

### What the code does not keep

Five runs check a statement of a comment, an assertion or the API document that the
program violates; `PROJECT.json` quotes each one.

- `CaptureNotCleared`: stop while exposing, then a full pause before the image
  comes. The completion returns early, and `CaptureActive` stays set with no exposure
  to clear it. Looping again is refused as already active.
- `OperationForgotten`: a calibration that fails during a `guide` operation leaves the
  controller in `CALIBRATION_WAIT` for ever: no `SettleDone`, and later operations are
  refused. The document guarantees a `SettleDone`.
- `GuidesWithoutImages`: a stop while a guide operation is starting. The controller
  runs on the last image, after the guider was stopped, and starts it again.
- `GuiderRunWhileBusy`: looping stops a calibration while its move is outstanding;
  selecting a star then runs the guider's state machine with the mount busy, which
  the code asserts never happens.
- `AOCleared`: `clear_calibration` while the AO calibrates. The next image finds the
  state machine in a state that its switch asserts not to exist; without assertions
  calibration goes on for ever and moves nothing.

The instances of the passing runs are not chosen to hide these: `CaptureCleared` is
checked in `AOSession`, which has every command of the guide button's world but the full
pause, `AOCalibration` has `clear_calibration`, and the properties of the other three are
stated for them alone.

More disagreements came up for which there is no run, because a property that
demanded them would only restate the line. They are modelled as the code has them.

- A stop does not end the loop that adds up a stream, only a termination or three
  frames do (`cam_indi.cpp:1136`): a server that goes away there keeps the worker.
- Properties of the INDI driver are cleared under the worker, which tests some of its
  pointers before it uses them and others not (`cam_indi.cpp:1152`).
- The limit of nudges is `<= MAX_NUDGES` (`scope.cpp:1766`), so a fourth is made where
  the constant says three.
- If Dec guiding is enabled in the one image in which a calibration without Dec is
  complete, `IsCalibrated` is false and `COMPLETE` runs on every image, until the mode
  changes again: `CalibrationEnds` excludes that state by name (`Nowhere`), and no other.
- A change of the backlash pulse by more than 100 ms while the worker is in
  `TrackBLCResults` clears the history it is about to index (`backlash_comp.cpp:166`, `437`):
  `HistorySound` allows that case and shows it is the only one.
- `EnableBacklashComp` resets the last direction before it sets `m_compActive`, without
  which the reset does nothing (`backlash_comp.cpp:455`).
- The tracking window closes with the third deflection after a reversal, though the
  comment there speaks of two (`backlash_comp.cpp:107`).
- The guiding assistant sets the pulse before it enables the compensation, so the
  longest Dec pulse is not raised to it.

## 4. The proofs

Each theorem is of the whole specification, `Spec => ...`, for every value of the
constants that the module's assumption admits. The assumptions say only what kind of
thing a constant is and where the code bounds it (a travel is at least 1, a
setting no shorter than the least pulse, requests and threads are different things). Three theorems about
the session have a hypothesis about the commands that are given, explained below.

| Module | Theorems | Of |
|---|---|---|
| `WorkerThread_proofs` | `InvHolds`, `TypeCorrect`, `WakeupHasMessageHolds`, `TerminateSticksHolds`, `AnsweredOnceHolds`, `NothingLostHolds`, `WorkQueueImplemented` | `WorkerInv`, what follows, the refinement |
| `GuideSession_proofs` | `SessionInvHolds`, `TypeOKHolds`, `ExposureInFlightHolds`, `RequestCountExactHolds`, `FrameNotBusyHolds`, `CaptureAliveHolds`, `InTurnHolds`, `OneAnswerHolds`, `DecModeRestoredHolds`, `GuidingReadyHolds`, `StoppedIsToldHolds`, `CaptureClearedHolds` | `SessionInv` and what follows |
| `GuideOperations_proofs` | `OperationsImplemented` | the refinement of `Operations` |
| `IndiCamera_proofs` | `InvHolds`, `TypeCorrect`, `FrameIsFreshHolds`, `PulseIsOwnHolds` | `CameraInv` and what follows |
| `StepGuider_proofs` | `InvHolds`, `TypeCorrect`, `PositionKnownHolds`, `WithinTravelHolds`, `AssertionsHoldHolds` | `PositionInv` and what follows |
| `AOCalibration_proofs` | `CalibrationInvHolds`, `CalibrationExactHolds`, `EndsNearCentreHolds` | `CalibrationInv`, what follows, and an action property |
| `ScopeCalibration_proofs` | `InvHolds`, `RatesExactHolds`, `RetraceSafeHolds`, `EndsNearStartHolds` | `ScopeInv` and what follows |
| `Backlash_proofs` | `InvHolds`, `HistorySoundHolds`, `AdjustmentBoundedHolds` | `BacklashInv`, what follows, and an action property |

The inductive invariants `WorkerInv`, `SessionInv`, `CameraInv` and `CalibrationInv`
(with `PositionInv` in it) are properties of the runs as well; `ScopeInv`, `BacklashInv` and
`OperationInv` are proved only. Every invariant is a conjunction of named parts; the proof that a step preserves it has a lemma for
each action or part, with one step per action and under it one per conjunct the
action can disturb. Facts about the operators of the models (appending to a queue and
taking from it, cutting a move to the travel, which fields of a record an operator
leaves alone) are lemmas of their own.

**The worker thread.** `WakeupHasMessage` is not inductive: that a wake-up finds a
message says nothing of the next wake-up. `WakeupsMatch` counts: the messages in both
queues are as many as the wake-ups, plus the message whose wake-up is about to be
posted, plus the one whose wake-up the worker has taken. The count would be wrong if
two producers were between the two posts, so `OneHolder` says that a producer in the
middle of a call holds the critical section. When the worker has found the
high-priority queue empty, the message it is owed is in the low-priority queue, and it
stays there since only the worker takes from it. `TerminateSticks` needs the same
`OneHolder`: the value a producer is about to store was read after every
earlier store (`FlagsCurrent`), because only `RequestStop` writes outside the critical
section, and it only adds the stop bit. These are `QueueInv`.

`AnsweredOnce` and `NothingLost` need to know where each request is. `OnePlace` says
that a request is in at most one place: with the producer that has not posted it yet, in
one entry of a queue, with the worker, or in one event, and that a report which is left out (`skip`)
is the one whose reconnection was queued last. `ServesMessage` ties the worker's
place in its handler to the message it holds. With the types and `QueueInv` they are
`WorkerInv`. `NothingLost` says the other half, that a request is in at least one: no step
of a thread that lives takes it out of these places, so an idle worker with empty
queues owes no answer. It is an action property, proved from `WorkerInv` step by step, and
has no run of its own. For the refinement
the initial state maps to `WorkQueue`'s, and each action to one of its actions or to a
stutter: posting is the message, not the wake-up; taking an exposure is the moment the
high-priority queue is found empty; `OneHolder` and `ServesMessage` say that a step in
between maps to a stutter.

**The guide session.** Each property of the session is about the record and the queues
between two handlers, and none is inductive. `FrameNotBusy` says that no move is
outstanding when an image is handled; that needs the moves of the last frame to be
served before the exposure (`MovesFirst`: an exposure that is taken, or reported, has no move
of a frame behind it), the count to be exact (`RequestCountExact`), and the scope's
bumps, which are counted elsewhere and come while images are handled, to be the only
other moves (`Bumps`). `RequestCountExact` needs `Bumps` as well, for the limit of two,
and `ExposureInFlight`, since a frame schedules its moves only when it is handled. A guide
step is told in turn because its move is on its way only while a listener knows of
guiding, and a step not yet reported has its completion queued (`StepsKnown`).
`OneAnswer` rests on the controller's state between handlers (`Resting`, `Trying`: an attempt is
left where one will be taken), `DecModeRestored` on the override being on only while an operation
settles (`DecKept`). `CaptureAlive` and `CaptureCleared` are about the three capture
flags (`Capturing`), which stops, pauses and completions change in different orders.
Their conjunction is `SessionInv`.

A handler calls a dozen operators and changes the record in each, so the proof is not by
action but by operator. `Good(t, o)` says what a record owes to itself and to `o`,
the sums of what is on its way outside it (`Out`). Each operator of `SessionState`,
`Guider` and `Controller` has a lemma: from `Good`, and what the callers know of the
guider and the controller, it returns a record that is `Good` and differs
from its argument only in the fields named (`Same`). In the middle of a handler some of it does not
hold: `Core` leaves out what the guider's own state promises, `Bare` and `Quiet` the word that the
listener waits for. `Sound` is `SessionInv` in these terms (`InvSound`, `InvSoundNext`); the
last part shows that each command, each event that is handled and each step of a
worker keeps it.

Three theorems hold for some commands only, and the hypotheses name the commands for which the code
behaves otherwise. `GuidingReady` is not kept by `clear_calibration`, which clears the
calibration of a mount that goes on being guided. `StoppedIsTold` is not kept by
`deselect_star`, which resets the guider without `GuidingStopped`, and by
`clear_calibration` and `guide`, after which a guider that was guiding may calibrate again
(the second can force it) and fail, which resets it as silently. `CaptureCleared` is not kept by a
full pause, as the run `CaptureNotCleared` shows. The run `AOSession` has none of these
commands and is an instance of all three theorems.

**The operations.** `Operations` is what the client of the event server is promised, in four
variables: the operation, whether it waits or settles, whether guiding runs, and the Dec
guide mode. A step of the session is a whole handler: an image may be found, start
guiding, begin the settling and end it, and an abort in the middle of it may end
the operation and tell of the end of guiding. That all of it is at most one step of
`Operations` is again shown operator by operator. `Onward(t, u)` says what an operator
may do to a record: it begins no operation, does not go back from settling to
waiting, stops guiding only with the operation answered, and leaves the Dec mode alone
while an operation goes on settling. `Onward` is transitive (`OnwardTrans`), so a
handler is `Onward` because what it calls is, in whatever order (`Silently` and `Aside` are the
same without news of guiding, and without a change of the controller). Only the commands that begin
an operation (`GuideOperation`, `DitherOperation`, `DitherCompat`) are not, and are
shown to be `Guide`, `Dither` or `Replace`, with what follows at once in the same
handler. `SessionInv` says what the client's counters show of the controller's
state; `OperationInv` adds that an operation is named exactly while the controller is
not idle, and that the Dec mode is overridden only while it settles.

**The INDI camera.** `FrameIsFresh` holds because the program never asks for an exposure
while one is out (`AsksOne`), with an image on its way counted as out. That is known
to the worker only through what the driver reports, so the invariant also says that the
report of an end is the last message about that exposure or pulse (`InOrder`), that
the properties come once in a connection, with no pulse under way (`DefinedOnce`), and
that while the properties are there an exposure or a pulse that is out shows in the
program's flags (`StatesKnown`). A connection that is lost takes its messages with it.

**The AO's position.** `PositionKnown` is about moments between two moves; the
inductive statement is about the middle of them. `PositionInv` says that the call of a
thread agrees with what that thread has queued, that while undisturbed at most one
thread is in `MoveAxis`, and that the mirror is off the program's offset by exactly what
the call under way has moved and not yet noted. That the travel is kept needs the cut
of `CheckLimit` to have been computed from the offset the step starts from, which again
is the one thread.

**The AO's calibration.** Distances are exact if the star was seen in the corner or on
the edge that the state assumes. `CalibrationInv` gives for each state where the mirror
is or will be when the moves on their way are done, that all of them are the
calibration's own, and that a sum of samples is their number times that place. The mirror's own limit
(`LimitReached`) is the exception the code handles, and the invariant
exempts it in the same words. `EndsNearCentre` is about the step that completes the
calibration, which the code takes when neither axis has the length of a move left. The
moves asked for by the last image must have been made by then and none may have gone
past the centre: `Recentring` says that each axis makes one move at a time on its
way back, and only while its way is at least as long as the move.

**The calibration of a scope.** `ScopeInv` says where the star is: while no pulse has
failed, RA has gone as far as the pulses that were asked for take it, less the one that
is not done yet, and comes back by what `remaining` still promises (`RaTracked`). Dec
moves only once the play is taken up, so whatever has moved since the beginning of
clearing has done so with no play left (`DecTracked`). That an accepted
move has moved Dec at all is `AcceptedMoved`: the expected length is a product of
positive numbers. The measurement north then starts from a place where there is no
play, and distance is speed times time. `RetraceSafe` adds what rounding down does
to a quotient, for the two limits (`EastLimit`, `NorthLimit`). There is a lemma for each state,
from the last to the first, because a state falls through into the next.
`EndsNearStart` needs where Dec is on the way back, when the gear is at first
turned without moving it: `BackTracked` counts the play that is not taken up yet
(`mount.gap`) as way that is left, as it does the pulses that are still owed, and
bounds a nudge by the way it has. The statement leaves Dec the play of the gear.

**Backlash compensation.** `HistorySound` rests on `WindowSound`: an open tracking window
has an event in the history that it tracks, and every operation that shortens the
history closes the window or shortens it from the front no further than the event. A
worker that is past its test of the window has its event, or the user has cleared the
history since; only then does it read beyond the end.
`AdjustmentBounded` needs `LimitsSound`: the limits are as `SetCompValues` leaves them,
with the pulse within them, so that clamping to them makes no new ones, even
for a pulse that has become fixed after that test. The average
over the history is a sum by a recursive function. The installed provers cannot
instantiate the library's induction theorems, so `SumExists` uses the least number
principle instead (a well-founded order on the naturals has minimal elements): if some sum were
not a number, there would be a first such, whose predecessor is. The direction of an adjustment is then
arithmetic: an average of misses of one sign has that sign.

Model-checked only:

- Liveness: `EveryRequestAnswered`, `StopReturns`, `StopEnds`, `SettlingEnds`, `StillEnds`,
  `PulseEnds` and both `CalibrationEnds`. The prover does not reason about fairness.
- `DecReturns`: that four nudges are enough depends on the numbers of an instance (the
  length of a nudge, the speed of Dec, the play), and no bound on them is in the code.
- The properties of the five runs that expect a violation, which the code does not have.

## 5. The plan

Done: the worker thread with its abstract specification; the session of frame, guider,
controller, mounts and workers, with the abstract specification of its operations; the
AO's position and calibration; the calibration of a scope; backlash compensation; the
INDI camera. The safety properties of their passing runs are proved, but for
`DecReturns`, and so are both refinements.

Not modelled yet, in the order in which it would be taken:

1. `AOBump`, extending `StepGuider`: when a bump of the mount starts (`IsAtLimit`, the
   bump positions, a forced bump) and ends, with the filtered average abstracted to its
   side of the thresholds.
2. `set_dec_guide_mode` during a dither, and the sticky lock position.
3. `DistanceChecker` and the limiter of reconnections, with time as a counter.
4. `AppState`: a client that follows the events by the table of the API document
   (`doc/index.md`), against the state `get_app_state` returns.
5. Pure algorithms: the dither spiral, the resist switch's decision. `BacklashTool`,
   which measures the play for the guiding assistant.

Not modelled at all: most of the source. A fifth of it is a third-party JSON parser
(`server/json.hpp`); most of the rest is dialogs and drawing, drivers that translate
one call into a vendor's, image processing and regression in floating point, logs and
configuration. These keep no state whose order of changes a property here could be
about, and their outcomes are the inputs of the models.
