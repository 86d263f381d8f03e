------------------------------ MODULE IndiCamera ------------------------------
(***************************************************************************)
(* A camera behind an INDI server, with the guide port it may have: the    *)
(* primary worker captures images and sends guide pulses, the thread of    *)
(* the INDI client handles what the driver sends, the GUI thread connects  *)
(* and disconnects.  They share the fields of CameraINDI, most of them     *)
(* without a lock: a server that goes away clears them under the worker.   *)
(*                                                                         *)
(* The driver and the connection are external.  The driver sends the image *)
(* of an exposure before the news that the exposure is done, a pulse's     *)
(* busy state before its end, and all its properties once it is asked; its *)
(* stream and the images of its exposures differ in size.                  *)
(***************************************************************************)
EXTENDS Naturals, Sequences

CONSTANTS Has,            \* the properties this driver has
          ForceExposure   \* INDICameraForceExposure, a setting

Properties == {"expose", "video", "pulse"}
ASSUME IndiAssumption == Has \subseteq Properties /\ ForceExposure \in BOOLEAN

VARIABLES cam,        \* the fields of CameraINDI
          worker,     \* where the worker is in Capture or ST4PulseGuideScope
          listener,   \* where the INDI client's thread is
          net,        \* what the driver has sent and the listener not yet read
          up,         \* the connection to the server
          driver,     \* the driver's device
          alert,      \* a disconnection is queued for the GUI thread
          interrupt   \* the worker's interrupt requests

vars == <<cam, worker, listener, net, up, driver, alert, interrupt>>

Axes == {"RA", "Dec"}

\* An image is "own" if it is exposed for the request the worker serves, "old" if
\* for an earlier one.
Images == {"own", "old"}

\* expose_prop, video_prop and the pulse properties as far as they are set;
\* Connected, ready, first_frame; the state of expose_prop; m_lastFrame;
\* guide_active and its axis; the setting to use video; modal, stacking and
\* StackFrames (three stand for more).
Cameras == [props : SUBSET Properties, connected : BOOLEAN, ready : BOOLEAN,
            first : BOOLEAN, busy : BOOLEAN, frame : Images \cup {"none"},
            active : BOOLEAN, axis : Axes, forceVideo : BOOLEAN,
            modal : BOOLEAN, stacking : BOOLEAN, frames : 0..3]

Still == {"busy", "discard", "send", "wait"}
Streaming == {"stream", "stacking", "stop_stream", "drain"}
Pulsing == {"activate", "send_pulse", "pulsing"}
WorkerPlaces == {"idle", "capture", "crashed"} \cup Still \cup Streaming \cup Pulsing

Messages == [type : {"image"}, image : Images] \cup [type : {"video"}]
            \cup [type : {"exposed", "connected", "off"}]
            \cup [type : {"properties"}, busy : BOOLEAN]
            \cup [type : {"pulse"}, axis : Axes, busy : BOOLEAN]

Definitions(busy) == <<[type |-> "connected"], [type |-> "properties", busy |-> busy]>>

Init ==
    /\ \E force \in BOOLEAN :
          cam = [props |-> {}, connected |-> FALSE, ready |-> FALSE,
                 first |-> FALSE, busy |-> FALSE, frame |-> "none",
                 active |-> FALSE, axis |-> "RA", forceVideo |-> force,
                 modal |-> FALSE, stacking |-> FALSE, frames |-> 0]
    /\ worker = "idle" /\ listener = "idle"
    /\ net = <<>> /\ up = FALSE /\ alert = FALSE
    /\ driver = [exposing |-> "none", pulsing |-> "none", streaming |-> FALSE]
    /\ interrupt = [stop |-> FALSE, terminate |-> FALSE]

InterruptRequested == interrupt.stop \/ interrupt.terminate

-------------------------------------------------------------------------------
(* What the threads do to the fields.                                      *)

\* guide_active is left as it is: a pulse waits for a driver that is gone.
ClearKeepsActive(c) ==
    [c EXCEPT !.props = {}, !.connected = FALSE, !.ready = FALSE, !.frame = "none"]

\* A camera that has gone still counts as ready.
ClearKeepsReady(c) ==
    [c EXCEPT !.props = {}, !.connected = FALSE, !.frame = "none", !.active = FALSE]

ClearStatus(c) ==
    [c EXCEPT !.props = {}, !.connected = FALSE, !.ready = FALSE,
              !.frame = "none", !.active = FALSE]

\* CheckState; has_blob comes with the other properties.
CheckState(c) ==
    IF c.connected /\ ~c.ready /\ c.props \cap {"expose", "video"} # {}
    THEN [c EXCEPT !.ready = TRUE, !.first = TRUE, !.modal = FALSE]
    ELSE c

\* A property of the guide port has a new state: the pulse under way has ended, or
\* somebody has started one.
PulseUpdate(c, axis, busy) ==
    IF "pulse" \notin c.props THEN c
    ELSE IF c.active /\ ~busy /\ c.axis = axis THEN [c EXCEPT !.active = FALSE]
    ELSE IF ~c.active /\ busy THEN [c EXCEPT !.active = TRUE, !.axis = axis]
    ELSE c

Frames(c) == "expose" \in c.props /\ ~c.forceVideo

\* The connection is closed, by whoever notices.
Close(c) ==
    /\ cam' = ClearStatus(c)
    /\ up' = FALSE /\ net' = <<>>

-------------------------------------------------------------------------------
(* The worker: Capture.                                                    *)

Request(place) ==
    /\ worker = "idle" /\ ~interrupt.terminate
    /\ worker' = place
    /\ interrupt' = [interrupt EXCEPT !.stop = FALSE]
    /\ UNCHANGED <<cam, listener, net, up, driver, alert>>

CaptureRequest == Request("capture")

\* Neither property is there: DisconnectWithAlert, which joins the listener.
Capture ==
    /\ worker = "capture"
    /\ CASE ~cam.connected ->
              worker' = "idle" /\ UNCHANGED <<cam, up, net>>
         [] cam.connected /\ Frames(cam) ->
              worker' = "busy" /\ UNCHANGED <<cam, up, net>>
         [] cam.connected /\ ~Frames(cam) /\ "video" \in cam.props ->
              worker' = "stream" /\ UNCHANGED <<cam, up, net>>
         [] OTHER -> listener = "idle" /\ worker' = "idle" /\ Close(cam)
    /\ UNCHANGED <<listener, driver, alert, interrupt>>

\* A property that has been cleared is used.
Uses(property, place) ==
    /\ worker' = IF property \in cam.props THEN place ELSE "crashed"

\* The exposure of an earlier request is not over: Capture waits.
BusyOver ==
    /\ worker = "busy" /\ ("expose" \in cam.props => ~cam.busy)
    /\ Uses("expose", "discard")
    /\ UNCHANGED <<cam, listener, net, up, driver, alert, interrupt>>

\* The frame that is there is taken for the next one.
DiscardNothing(c) == c
Discard(c) == [c EXCEPT !.frame = "none"]

DiscardFrame ==
    /\ worker = "discard"
    /\ cam' = Discard(cam)
    /\ worker' = "send"
    /\ UNCHANGED <<listener, net, up, driver, alert, interrupt>>

\* From here on every image that was asked for before is old.
Aged(i) == IF i = "own" THEN "old" ELSE i
SendExposure ==
    /\ worker = "send"
    /\ Uses("expose", "wait")
    /\ cam' = [cam EXCEPT !.busy = TRUE, !.frame = Aged(@)]
    /\ net' = [i \in DOMAIN net |->
                  IF net[i].type = "image" THEN [net[i] EXCEPT !.image = Aged(@)]
                  ELSE net[i]]
    /\ driver' = IF "expose" \in cam.props THEN [driver EXCEPT !.exposing = "own"]
                 ELSE driver
    /\ UNCHANGED <<listener, up, alert, interrupt>>

TakeFrame ==
    /\ worker = "wait" /\ cam.frame # "none"
    /\ cam' = [cam EXCEPT !.frame = "none", !.first = FALSE]
    /\ worker' = "idle"
    /\ UNCHANGED <<listener, net, up, driver, alert, interrupt>>

\* The waits that have a watchdog and end with a termination.
WatchedWait == {"wait"}
Watched == {"busy", "wait"}

\* The watchdog: a camera that has never sent a frame may be one that only
\* streams; any other is disconnected and reconnected.  The wait for a camera that is
\* busy does not look at the frame.
WatchdogExpired ==
    /\ worker \in Watched
    /\ worker = "wait" => cam.frame = "none"
    /\ worker = "busy" => "expose" \in cam.props
    /\ IF worker = "wait" /\ cam.first /\ "video" \in cam.props /\ ~ForceExposure
       THEN /\ cam' = [cam EXCEPT !.forceVideo = TRUE, !.first = FALSE]
            /\ worker' = "capture"
            /\ UNCHANGED <<up, net>>
       ELSE /\ listener = "idle"
            /\ Close([cam EXCEPT !.first = FALSE])
            /\ worker' = "idle"
    /\ UNCHANGED <<listener, driver, alert, interrupt>>

CaptureTerminated ==
    /\ worker \in Watched /\ interrupt.terminate
    /\ worker' = "idle"
    /\ UNCHANGED <<cam, listener, net, up, driver, alert, interrupt>>

\* A camera without exposure times: frames of its stream are added up.
StartStream ==
    /\ worker = "stream"
    /\ Uses("video", "stacking")
    /\ cam' = [cam EXCEPT !.first = FALSE, !.modal = TRUE, !.stacking = FALSE,
                          !.frames = 0]
    /\ driver' = IF up THEN [driver EXCEPT !.streaming = TRUE] ELSE driver
    /\ UNCHANGED <<listener, net, up, alert, interrupt>>

\* The time is over and there are enough frames, or a termination.
StreamLongEnough ==
    /\ worker = "stacking" /\ cam.modal
    /\ cam.frames > 2 \/ interrupt.terminate
    /\ cam' = [cam EXCEPT !.modal = FALSE]
    /\ UNCHANGED <<worker, listener, net, up, driver, alert, interrupt>>

StreamOver ==
    /\ worker = "stacking" /\ ~cam.modal
    /\ worker' = "stop_stream"
    /\ UNCHANGED <<cam, listener, net, up, driver, alert, interrupt>>

\* The stream goes on from one capture to the next, until a stop.
StopStream ==
    /\ worker = "stop_stream"
    /\ worker' = IF interrupt.terminate THEN "idle" ELSE "drain"
    /\ driver' = [driver EXCEPT !.streaming =
                     @ /\ ~(InterruptRequested /\ "video" \in cam.props)]
    /\ UNCHANGED <<cam, listener, net, up, alert, interrupt>>

Drain ==
    /\ worker = "drain" /\ ~cam.stacking
    /\ worker' = "idle"
    /\ UNCHANGED <<cam, listener, net, up, driver, alert, interrupt>>

-------------------------------------------------------------------------------
(* The worker: ST4PulseGuideScope.                                         *)

PulseRequest == "pulse" \in cam.props /\ Request("activate")

ActivatePulse ==
    /\ worker = "activate"
    /\ IF cam.active THEN worker' = "idle" /\ UNCHANGED cam
       ELSE /\ worker' = "send_pulse"
            /\ \E axis \in Axes : cam' = [cam EXCEPT !.active = TRUE, !.axis = axis]
    /\ UNCHANGED <<listener, net, up, driver, alert, interrupt>>

SendPulse ==
    /\ worker = "send_pulse"
    /\ Uses("pulse", "pulsing")
    /\ driver' = IF "pulse" \in cam.props THEN [driver EXCEPT !.pulsing = cam.axis]
                 ELSE driver
    /\ net' = IF "pulse" \in cam.props
              THEN Append(net, [type |-> "pulse", axis |-> cam.axis, busy |-> TRUE])
              ELSE net
    /\ UNCHANGED <<cam, listener, up, alert, interrupt>>

PulseDone ==
    /\ worker = "pulsing" /\ ~cam.active
    /\ worker' = "idle"
    /\ UNCHANGED <<cam, listener, net, up, driver, alert, interrupt>>

\* The next pulse need not wait for this one.
InterruptForgets(c) == [c EXCEPT !.active = FALSE]
InterruptKeeps(c) == c

PulseInterrupted ==
    /\ worker = "pulsing" /\ cam.active /\ InterruptRequested
    /\ cam' = InterruptKeeps(cam)
    /\ worker' = "idle"
    /\ UNCHANGED <<listener, net, up, driver, alert, interrupt>>

-------------------------------------------------------------------------------
(* The INDI client's thread.                                               *)

Receive(type) ==
    /\ listener = "idle" /\ net # <<>> /\ Head(net).type = type
    /\ net' = Tail(net)

ImageReceived ==
    /\ Receive("image")
    /\ IF Frames(cam)
       THEN cam' = [cam EXCEPT !.frame = Head(net).image] /\ UNCHANGED listener
       ELSE UNCHANGED <<cam, listener>>      \* StackStream refuses its size
    /\ UNCHANGED <<worker, up, driver, alert, interrupt>>

\* modal and stacking are tested here, and stacking is set later.
VideoReceived ==
    /\ Receive("video")
    /\ listener' = IF ~Frames(cam) /\ "video" \in cam.props
                      /\ cam.modal /\ ~cam.stacking
                   THEN "stack" ELSE "idle"
    /\ UNCHANGED <<cam, worker, up, driver, alert, interrupt>>

StackStream ==
    /\ listener = "stack"
    /\ cam' = [cam EXCEPT !.stacking = TRUE]
    /\ listener' = "adding"
    /\ UNCHANGED <<worker, net, up, driver, alert, interrupt>>

FrameStacked ==
    /\ listener = "adding"
    /\ cam' = [cam EXCEPT !.stacking = FALSE, !.frames = IF @ < 3 THEN @ + 1 ELSE @]
    /\ listener' = "idle"
    /\ UNCHANGED <<worker, net, up, driver, alert, interrupt>>

NumberReceived ==
    /\ \/ /\ Receive("exposed")
          /\ cam' = [cam EXCEPT !.busy = FALSE]
       \/ /\ Receive("pulse")
          /\ cam' = PulseUpdate(cam, Head(net).axis, Head(net).busy)
    /\ UNCHANGED <<worker, listener, up, driver, alert, interrupt>>

ConnectionReceived ==
    /\ Receive("connected")
    /\ cam' = CheckState([cam EXCEPT !.connected = TRUE])
    /\ UNCHANGED <<worker, listener, up, driver, alert, interrupt>>

\* newProperty, for all of them.
PropertiesReceived ==
    /\ Receive("properties")
    /\ cam' = CheckState([cam EXCEPT !.props = Has, !.busy = Head(net).busy])
    /\ UNCHANGED <<worker, listener, up, driver, alert, interrupt>>

\* The device was disconnected from its driver: the GUI thread disconnects later.
OffReceived ==
    /\ Receive("off")
    /\ cam' = IF cam.ready THEN ClearStatus(cam) ELSE cam
    /\ alert' = (alert \/ cam.ready)
    /\ UNCHANGED <<worker, listener, up, driver, interrupt>>

\* serverDisconnected, and removeDevice.
ServerLost ==
    /\ up /\ listener = "idle"
    /\ Close(cam)
    /\ UNCHANGED <<worker, listener, driver, alert, interrupt>>

-------------------------------------------------------------------------------
(* The GUI thread.                                                         *)

\* Connecting takes longer than a pulse: the driver's last one is over.
Connect ==
    /\ ~up /\ ~alert /\ worker = "idle" /\ listener = "idle"
    /\ driver.pulsing = "none"
    /\ up' = TRUE
    /\ net' = Definitions(driver.exposing # "none")
    /\ UNCHANGED <<cam, worker, listener, driver, alert, interrupt>>

Disconnect ==
    /\ alert /\ listener = "idle"
    /\ alert' = FALSE
    /\ Close(cam)
    /\ UNCHANGED <<worker, listener, driver, interrupt>>

StopRequest ==
    /\ ~interrupt.stop /\ worker # "idle"
    /\ interrupt' = [interrupt EXCEPT !.stop = TRUE]
    /\ UNCHANGED <<cam, worker, listener, net, up, driver, alert>>

TerminateRequest ==
    /\ ~interrupt.terminate
    /\ interrupt' = [stop |-> TRUE, terminate |-> TRUE]
    /\ UNCHANGED <<cam, worker, listener, net, up, driver, alert>>

-------------------------------------------------------------------------------
(* The driver.                                                             *)

Send(messages) == net' = IF up THEN net \o messages ELSE net

Exposed ==
    /\ driver.exposing # "none"
    /\ driver' = [driver EXCEPT !.exposing = "none"]
    /\ Send(<<[type |-> "image", image |-> driver.exposing], [type |-> "exposed"]>>)
    /\ UNCHANGED <<cam, worker, listener, up, alert, interrupt>>

Pulsed ==
    /\ driver.pulsing # "none"
    /\ driver' = [driver EXCEPT !.pulsing = "none"]
    /\ Send(<<[type |-> "pulse", axis |-> driver.pulsing, busy |-> FALSE]>>)
    /\ UNCHANGED <<cam, worker, listener, up, alert, interrupt>>

\* A driver streams no faster than its client reads.
Streamed ==
    /\ driver.streaming /\ up /\ net = <<>>
    /\ Send(<<[type |-> "video"]>>)
    /\ UNCHANGED <<cam, worker, listener, up, driver, alert, interrupt>>

DeviceOff ==
    /\ up /\ \A i \in DOMAIN net : net[i].type # "off"
    /\ driver' = [exposing |-> "none", pulsing |-> "none", streaming |-> FALSE]
    /\ Send(<<[type |-> "off"]>>)
    /\ UNCHANGED <<cam, worker, listener, up, alert, interrupt>>

-------------------------------------------------------------------------------
WorkerStep ==
    \/ Capture \/ BusyOver \/ DiscardFrame \/ SendExposure \/ TakeFrame
    \/ WatchdogExpired \/ CaptureTerminated \/ StartStream \/ StreamLongEnough
    \/ StreamOver \/ StopStream \/ Drain
    \/ ActivatePulse \/ SendPulse \/ PulseDone \/ PulseInterrupted
ListenerStep ==
    \/ ImageReceived \/ VideoReceived \/ StackStream \/ FrameStacked
    \/ NumberReceived \/ ConnectionReceived \/ PropertiesReceived \/ OffReceived
DriverStep == Exposed \/ Pulsed \/ Streamed

Running == worker # "crashed"

Next == /\ Running
        /\ \/ WorkerStep \/ ListenerStep \/ DriverStep
           \/ CaptureRequest \/ PulseRequest \/ ServerLost \/ DeviceOff
           \/ Connect \/ Disconnect \/ StopRequest \/ TerminateRequest

Spec == Init /\ [][Next]_vars

\* The threads run, time passes for the watchdog, and the driver finishes what it
\* has begun; nothing makes a camera answer in time, or stay connected.
Fairness ==
    /\ WF_vars(Running /\ WorkerStep) /\ WF_vars(Running /\ ListenerStep)
    /\ WF_vars(Running /\ Pulsed) /\ WF_vars(Running /\ Streamed)
    /\ WF_vars(Running /\ Disconnect)
FairSpec == Spec /\ Fairness

-------------------------------------------------------------------------------
(* Properties.                                                             *)

\* The types; a camera that is ready has been connected and can capture.
TypeOK ==
    /\ cam.ready => cam.connected /\ cam.props \cap {"expose", "video"} # {}
    /\ cam \in Cameras /\ worker \in WorkerPlaces
    /\ listener \in {"idle", "stack", "adding"}
    /\ net \in Seq(Messages) /\ up \in BOOLEAN /\ alert \in BOOLEAN
    /\ driver \in [exposing : Images \cup {"none"}, pulsing : Axes \cup {"none"},
                   streaming : BOOLEAN]
    /\ interrupt \in [stop : BOOLEAN, terminate : BOOLEAN]

\* An exposure, or a pulse, whose end the listener has not read yet.
ExposureOut == \/ driver.exposing # "none"
               \/ \E i \in DOMAIN net : net[i].type \in {"image", "exposed"}
PulseOut == driver.pulsing # "none" \/ \E i \in DOMAIN net : net[i].type = "pulse"

\* Why FrameIsFresh and PulseIsOwn hold, as an inductive invariant.  The news of the
\* end of an exposure or a pulse is the last there is about it.
InOrder ==
    \A i \in DOMAIN net :
        /\ net[i].type = "exposed" =>
              /\ driver.exposing = "none"
              /\ \A j \in DOMAIN net : j > i => net[j].type \notin {"image", "exposed"}
        /\ net[i].type = "pulse" /\ ~net[i].busy =>
              /\ driver.pulsing = "none"
              /\ \A j \in DOMAIN net : j > i => net[j].type # "pulse"

\* The properties come once in a connection, with no pulse under way, and report an
\* exposure that is.
DefinedOnce ==
    \A i \in DOMAIN net :
        net[i].type = "properties" =>
            /\ cam.props = {} /\ worker \notin Pulsing /\ ~PulseOut
            /\ ExposureOut => net[i].busy
            /\ \A j \in DOMAIN net : net[j].type = "properties" => j = i

\* What expose_prop and guide_active say while the properties are there.
StatesKnown ==
    /\ ~up => net = <<>> /\ cam.props = {}
    /\ "expose" \in cam.props /\ ExposureOut => cam.busy
    /\ "pulse" \in cam.props /\ PulseOut => cam.active

\* The worker asks for an exposure, or for a pulse, when none is under way; what it
\* waits for is then its own.
AsksOne ==
    /\ worker \in {"discard", "send"} => ~ExposureOut
    /\ worker = "send" => cam.frame = "none"
    /\ worker = "wait" =>
          /\ cam.frame # "old" /\ driver.exposing # "old"
          /\ \A i \in DOMAIN net : net[i].type = "image" => net[i].image # "old"
    /\ worker = "send_pulse" /\ "pulse" \in cam.props => cam.active /\ ~PulseOut

CameraInv == TypeOK /\ InOrder /\ DefinedOnce /\ StatesKnown /\ AsksOne

\* The frame Capture returns was exposed for this request: an image of an exposure
\* that timed out, and comes after the reconnection, is never taken for it.
FrameIsFresh == worker = "wait" => cam.frame # "old"

\* A pulse is reported done when the driver has done it, or is disconnected; and
\* the driver is not asked for a pulse while it executes one, although a stop
\* leaves a pulse under way behind.
PulseIsOwn ==
    /\ worker = "pulsing" /\ ~cam.active /\ "pulse" \in cam.props
          => driver.pulsing = "none"
    /\ worker = "send_pulse" /\ "pulse" \in cam.props => driver.pulsing = "none"

\* Capturing an exposure ends, in an image, an error or the use of the stream,
\* whatever the camera and the connection do.
StillEnds == worker \in Still ~> worker \notin Still

\* A guide pulse ends, also when the connection goes away under it.
PulseEnds == worker \in Pulsing ~> worker \notin Pulsing
===============================================================================
