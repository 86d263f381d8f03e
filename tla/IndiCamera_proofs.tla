--------------------------- MODULE IndiCamera_proofs ---------------------------
(***************************************************************************)
(* Proofs about IndiCamera: the image of an earlier exposure is never      *)
(* taken for the one that was asked for, and a pulse is the one that was   *)
(* sent, for every driver and through every loss of the connection.        *)
(***************************************************************************)
EXTENDS IndiCamera, TLAPS, SequenceTheorems

-------------------------------------------------------------------------------
(* Messages, and the sequence of them.                                     *)

\* What a message carries, by its type.
LEMMA MessageTypes ==
    /\ \A m \in Messages :
          /\ m.type = "image" => m.image \in Images
          /\ m.type = "pulse" => m.axis \in Axes /\ m.busy \in BOOLEAN
          /\ m.type = "properties" => m.busy \in BOOLEAN
    /\ \A i \in Images : [type |-> "image", image |-> i] \in Messages
    /\ \A a \in Axes, b \in BOOLEAN : [type |-> "pulse", axis |-> a, busy |-> b] \in Messages
    /\ \A b \in BOOLEAN : [type |-> "properties", busy |-> b] \in Messages
    /\ \A t \in {"video", "exposed", "connected", "off"} : [type |-> t] \in Messages
  BY DEF Messages

\* What is left when the first message has been read.
LEMMA NetRead ==
    ASSUME net \in Seq(Messages), net # <<>>
    PROVE  /\ Tail(net) \in Seq(Messages) /\ Head(net) \in Messages
           /\ 1 \in DOMAIN net /\ Head(net) = net[1]
           /\ \A i \in DOMAIN Tail(net) :
                 i \in Nat /\ i > 0 /\ i + 1 \in DOMAIN net /\ Tail(net)[i] = net[i + 1]
  BY HeadTailProperties, LenProperties, EmptySeq

\* What is there when a message has been sent.
LEMMA NetSent ==
    ASSUME net \in Seq(Messages), NEW m \in Messages
    PROVE  /\ Append(net, m) \in Seq(Messages)
           /\ net \o <<m>> = Append(net, m)
           /\ Append(net, m) # <<>>
           /\ \A i \in DOMAIN net : i \in Nat /\ i < Len(net) + 1
           /\ Len(net) + 1 \in Nat
           /\ \A i \in DOMAIN Append(net, m) :
                 \/ i \in DOMAIN net /\ Append(net, m)[i] = net[i]
                 \/ i = Len(net) + 1 /\ Append(net, m)[i] = m
  BY AppendProperties, LenProperties, EmptySeq, AppendIsConcat

\* What is there when two have been sent.
LEMMA NetSentTwo ==
    ASSUME net \in Seq(Messages), NEW m \in Messages, NEW n \in Messages
    PROVE  /\ net \o <<m, n>> \in Seq(Messages)
           /\ net \o <<m, n>> # <<>>
           /\ \A i \in DOMAIN net : i \in Nat /\ i < Len(net) + 1
           /\ Len(net) + 1 \in Nat
           /\ \A i \in DOMAIN (net \o <<m, n>>) :
                 \/ i \in DOMAIN net /\ (net \o <<m, n>>)[i] = net[i]
                 \/ i = Len(net) + 1 /\ (net \o <<m, n>>)[i] = m
                 \/ i = Len(net) + 2 /\ (net \o <<m, n>>)[i] = n
  <1>1. <<m, n>> \in Seq(Messages) /\ Len(<<m, n>>) = 2
    OBVIOUS
  <1> QED BY <1>1, ConcatProperties, LenProperties, EmptySeq

\* What is there when an exposure is asked for: the images have aged.
NetAged == [i \in DOMAIN net |->
               IF net[i].type = "image" THEN [net[i] EXCEPT !.image = Aged(@)]
               ELSE net[i]]
LEMMA NetOlder ==
    ASSUME net \in Seq(Messages)
    PROVE  /\ NetAged \in Seq(Messages) /\ DOMAIN NetAged = DOMAIN net
           /\ \A i \in DOMAIN net : net[i].type # "image" => NetAged[i] = net[i]
           /\ net = <<>> => NetAged = <<>>
  <1>1. DOMAIN net = 1..Len(net) /\ Len(net) \in Nat
    BY LenProperties
  <1>2. ASSUME NEW i \in DOMAIN net
        PROVE  NetAged[i] \in Messages
    <2>1. net[i] \in Messages
      BY <1>1, ElementOfSeq
    <2>2. CASE net[i].type = "image"
      <3>1. net[i] \in [type : {"image"}, image : Images]
        BY <2>1, <2>2 DEF Messages
      <3>2. NetAged[i] = [net[i] EXCEPT !.image = Aged(net[i].image)]
        BY <2>2 DEF NetAged
      <3>3. Aged(net[i].image) \in Images
        BY <3>1 DEF Aged, Images
      <3> QED BY <3>1, <3>2, <3>3 DEF Messages
    <2> QED BY <2>1, <2>2 DEF NetAged
  <1>3. NetAged \in Seq(Messages)
    BY <1>1, <1>2 DEF NetAged
  <1>4. net = <<>> => NetAged = <<>>
    BY <1>1, <1>3, EmptySeq, LenProperties DEF NetAged
  <1> QED BY <1>3, <1>4 DEF NetAged

-------------------------------------------------------------------------------
(* Types.                                                                  *)

\* What the threads do to the fields keeps their types.
LEMMA FieldTypes ==
    ASSUME NEW c \in Cameras
    PROVE  /\ ClearStatus(c) \in Cameras /\ ~ClearStatus(c).ready
           /\ CheckState(c) \in Cameras
           /\ \A axis \in Axes, busy \in BOOLEAN : PulseUpdate(c, axis, busy) \in Cameras
  <1>1. ClearStatus(c) \in Cameras /\ ~ClearStatus(c).ready
    BY DEF Cameras, ClearStatus
  <1>2. CheckState(c) \in Cameras
    BY DEF Cameras, CheckState
  <1>3. \A axis \in Axes, busy \in BOOLEAN : PulseUpdate(c, axis, busy) \in Cameras
    BY DEF Cameras, PulseUpdate
  <1> QED BY <1>1, <1>2, <1>3

\* A camera that is ready has been connected and can capture.
ReadyOK(c) == c.ready => c.connected /\ c.props \cap {"expose", "video"} # {}
CamOK(c) == c \in Cameras /\ ReadyOK(c)
PlacesOK == worker \in WorkerPlaces /\ listener \in {"idle", "stack", "adding"}
DriverOK == /\ driver \in [exposing : Images \cup {"none"}, pulsing : Axes \cup {"none"},
                           streaming : BOOLEAN]
            /\ up \in BOOLEAN /\ alert \in BOOLEAN
            /\ interrupt \in [stop : BOOLEAN, terminate : BOOLEAN]

LEMMA TypeParts == TypeOK <=> CamOK(cam) /\ net \in Seq(Messages) /\ PlacesOK /\ DriverOK
  BY DEF TypeOK, CamOK, ReadyOK, PlacesOK, DriverOK

\* The threads, the driver and the flags.
LEMMA PlacesTyped ==
    ASSUME TypeOK, [Next]_vars
    PROVE  PlacesOK' /\ DriverOK'
  <1> USE TypeParts DEF PlacesOK, DriverOK, WorkerPlaces, Still, Streaming, Pulsing
  <1>1. CASE WorkerStep
    BY <1>1, ZenonT(60) DEF WorkerStep, Capture, BusyOver, DiscardFrame, SendExposure, TakeFrame,
                WatchdogExpired, CaptureTerminated, StartStream, StreamLongEnough,
                StreamOver, StopStream, Drain, ActivatePulse, SendPulse, PulseDone,
                PulseInterrupted, Uses, Images, Close, CamOK, Cameras
  <1>2. CASE ListenerStep
    BY <1>2 DEF ListenerStep, ImageReceived, VideoReceived, StackStream, FrameStacked,
                NumberReceived, ConnectionReceived, PropertiesReceived, OffReceived,
                CamOK, Cameras
  <1>3. CASE Exposed \/ Pulsed
    BY <1>3 DEF Exposed, Pulsed
  <1>4. CASE Streamed \/ UNCHANGED vars
    BY <1>4 DEF Streamed, vars
  <1>5. CASE DeviceOff
    BY <1>5 DEF DeviceOff
  <1>6. CASE CaptureRequest \/ PulseRequest
    BY <1>6 DEF CaptureRequest, PulseRequest, Request
  <1>7. CASE ServerLost \/ Connect \/ Disconnect
    BY <1>7 DEF ServerLost, Connect, Disconnect, Close
  <1>8. CASE StopRequest
    BY <1>8 DEF StopRequest
  <1>9. CASE TerminateRequest
    BY <1>9 DEF TerminateRequest
  <1> QED BY <1>1, <1>2, <1>3, <1>4, <1>5, <1>6, <1>7, <1>8, <1>9 DEF Next, DriverStep

\* The fields of the camera.  Properties come only when there are none.
LEMMA CamTyped ==
    ASSUME TypeOK, DefinedOnce, [Next]_vars
    PROVE  CamOK(cam')
  <1>0. CamOK(cam) /\ CamOK(ClearStatus(cam))
    BY FieldTypes DEF CamOK, ReadyOK, TypeOK
  <1>1. CASE UNCHANGED cam \/ cam' = ClearStatus(cam)
    BY <1>0, <1>1
  <1>2. CASE DiscardFrame \/ TakeFrame
    BY <1>0, <1>2 DEF DiscardFrame, Discard, TakeFrame, CamOK, ReadyOK, Cameras
  <1>3. CASE SendExposure
    BY <1>0, <1>3 DEF SendExposure, CamOK, ReadyOK, Cameras, Aged, Images
  <1>4. CASE WatchdogExpired
    <2>1. [cam EXCEPT !.first = FALSE] \in Cameras
      BY <1>0 DEF CamOK, Cameras
    <2>2. CASE cam' = [cam EXCEPT !.forceVideo = TRUE, !.first = FALSE]
      BY <1>0, <2>2 DEF CamOK, ReadyOK, Cameras
    <2>3. CASE cam' = ClearStatus([cam EXCEPT !.first = FALSE])
      BY <2>1, <2>3, FieldTypes DEF CamOK, ReadyOK
    <2> QED BY <1>4, <2>2, <2>3 DEF WatchdogExpired, Close
  <1>5. CASE StartStream \/ StreamLongEnough
    <2>1. CASE cam' = [cam EXCEPT !.first = FALSE, !.modal = TRUE, !.stacking = FALSE,
                                  !.frames = 0]
      <3>1. 0 \in 0..3
        OBVIOUS
      <3>2. cam' \in Cameras
        BY <1>0, <2>1, <3>1 DEF CamOK, Cameras
      <3>3. ReadyOK(cam')
        BY <1>0, <2>1 DEF CamOK, ReadyOK, Cameras
      <3> QED BY <3>2, <3>3 DEF CamOK
    <2>2. CASE cam' = [cam EXCEPT !.modal = FALSE]
      BY <1>0, <2>2 DEF CamOK, ReadyOK, Cameras
    <2> QED BY <1>5, <2>1, <2>2 DEF StartStream, StreamLongEnough
  <1>6. CASE ActivatePulse
    BY <1>0, <1>6 DEF ActivatePulse, CamOK, ReadyOK, Cameras
  <1>7. CASE StackStream \/ FrameStacked
    <2> DEFINE n == IF cam.frames < 3 THEN cam.frames + 1 ELSE cam.frames
    <2>1. n \in 0..3
      <3>1. cam.frames \in 0..3
        BY <1>0 DEF CamOK, Cameras
      <3> QED BY <3>1
    <2>2. \/ cam' = [cam EXCEPT !.stacking = TRUE]
          \/ cam' = [cam EXCEPT !.stacking = FALSE, !.frames = n]
      BY <1>7 DEF StackStream, FrameStacked
    <2> HIDE DEF n
    <2> QED BY <1>0, <2>1, <2>2 DEF CamOK, ReadyOK, Cameras
  <1>8. CASE ImageReceived
    <2>1. Head(net) \in Messages /\ Head(net).type = "image"
      BY <1>8, NetRead DEF ImageReceived, Receive, TypeOK
    <2> QED BY <1>0, <1>8, <2>1, MessageTypes DEF ImageReceived, CamOK, ReadyOK, Cameras
  <1>9. CASE NumberReceived
    <2>1. CASE cam' = [cam EXCEPT !.busy = FALSE]
      BY <1>0, <2>1 DEF CamOK, ReadyOK, Cameras
    <2>2. CASE /\ Receive("pulse")
               /\ cam' = PulseUpdate(cam, Head(net).axis, Head(net).busy)
      <3>1. Head(net).axis \in Axes /\ Head(net).busy \in BOOLEAN
        BY <2>2, NetRead, MessageTypes DEF Receive, TypeOK
      <3>2. cam' \in Cameras
        BY <1>0, <2>2, <3>1, FieldTypes DEF CamOK
      <3>3. ReadyOK(cam')
        BY <1>0, <2>2 DEF PulseUpdate, ReadyOK, CamOK, Cameras
      <3> QED BY <3>2, <3>3 DEF CamOK
    <2> QED BY <1>9, <2>1, <2>2 DEF NumberReceived
  <1>10. CASE ConnectionReceived
    <2>1. [cam EXCEPT !.connected = TRUE] \in Cameras
      BY <1>0 DEF CamOK, Cameras
    <2>2. ReadyOK(cam')
      BY <1>0, <1>10 DEF ConnectionReceived, CheckState, ReadyOK, CamOK, Cameras
    <2> QED BY <1>10, <2>1, <2>2, FieldTypes DEF ConnectionReceived, CamOK
  <1>11. CASE PropertiesReceived
    <2>1. Head(net).busy \in BOOLEAN /\ cam.props = {}
      BY <1>11, NetRead, MessageTypes DEF PropertiesReceived, Receive, TypeOK, DefinedOnce
    <2>2. [cam EXCEPT !.props = Has, !.busy = Head(net).busy] \in Cameras
      BY <1>0, <2>1, IndiAssumption DEF CamOK, Cameras
    <2>3. ReadyOK(cam')
      BY <1>0, <1>11, <2>1 DEF PropertiesReceived, CheckState, ReadyOK, CamOK, Cameras
    <2> QED BY <1>11, <2>2, <2>3, FieldTypes DEF PropertiesReceived, CamOK
  <1> QED BY <1>1, <1>2, <1>3, <1>4, <1>5, <1>6, <1>7, <1>8, <1>9, <1>10, <1>11
          DEF Next, vars, WorkerStep, DriverStep, ListenerStep, Capture, BusyOver,
              CaptureTerminated, StreamOver, StopStream, Drain, SendPulse, PulseDone,
              PulseInterrupted, InterruptKeeps, CaptureRequest, PulseRequest, Request,
              StopRequest, TerminateRequest, VideoReceived, OffReceived, ServerLost,
              Connect, Disconnect, Close, Exposed, Pulsed, Streamed, DeviceOff

\* The messages.
LEMMA NetTyped ==
    ASSUME TypeOK, [Next]_vars
    PROVE  net' \in Seq(Messages)
  <1>0. /\ net \in Seq(Messages) /\ cam.axis \in Axes
        /\ driver.exposing \in Images \cup {"none"} /\ driver.pulsing \in Axes \cup {"none"}
    BY DEF TypeOK, Cameras
  <1>1. CASE SendExposure
    BY <1>1, NetOlder DEF SendExposure, NetAged, TypeOK
  <1>2. CASE SendPulse
    <2>1. [type |-> "pulse", axis |-> cam.axis, busy |-> TRUE] \in Messages
      BY <1>0, MessageTypes
    <2> QED BY <1>0, <1>2, <2>1, NetSent DEF SendPulse
  <1>3. CASE Exposed
    <2>1. /\ [type |-> "image", image |-> driver.exposing] \in Messages
          /\ [type |-> "exposed"] \in Messages
      BY <1>0, <1>3, MessageTypes DEF Exposed
    <2> QED BY <1>0, <1>3, <2>1, NetSentTwo DEF Exposed, Send
  <1>4. CASE Pulsed
    <2>1. [type |-> "pulse", axis |-> driver.pulsing, busy |-> FALSE] \in Messages
      BY <1>0, <1>4, MessageTypes DEF Pulsed
    <2> QED BY <1>0, <1>4, <2>1, NetSent DEF Pulsed, Send
  <1>5. CASE Streamed \/ DeviceOff
    <2>1. [type |-> "video"] \in Messages /\ [type |-> "off"] \in Messages
      BY MessageTypes
    <2> QED BY <1>0, <1>5, <2>1, NetSent DEF Streamed, DeviceOff, Send
  <1>6. CASE Connect
    <2>1. \A b \in BOOLEAN : /\ [type |-> "connected"] \in Messages
                             /\ [type |-> "properties", busy |-> b] \in Messages
      BY MessageTypes
    <2> DEFINE busy == driver.exposing # "none"
    <2>2. /\ [type |-> "connected"] \in Messages
          /\ [type |-> "properties", busy |-> busy] \in Messages
      BY <2>1
    <2>3. net' = <<[type |-> "connected"], [type |-> "properties", busy |-> busy]>>
      BY <1>6 DEF Connect, Definitions
    <2> QED BY <2>2, <2>3
  <1>7. CASE ListenerStep
    BY <1>7, NetRead
       DEF ListenerStep, ImageReceived, VideoReceived, StackStream, FrameStacked,
           NumberReceived, ConnectionReceived, PropertiesReceived, OffReceived, Receive,
           TypeOK
  <1>8. CASE Capture \/ WatchdogExpired \/ ServerLost \/ Disconnect
    <2>1. net' \in {net, <<>>}
      BY <1>8 DEF Capture, WatchdogExpired, ServerLost, Disconnect, Close
    <2>2. <<>> \in Seq(Messages)
      OBVIOUS
    <2> QED BY <1>0, <2>1, <2>2
  <1>9. CASE UNCHANGED net
    BY <1>9 DEF TypeOK
  <1> QED BY <1>1, <1>2, <1>3, <1>4, <1>5, <1>6, <1>7, <1>8, <1>9
          DEF Next, vars, WorkerStep, DriverStep, BusyOver, DiscardFrame, TakeFrame,
              CaptureTerminated, StartStream, StreamLongEnough, StreamOver, StopStream,
              Drain, ActivatePulse, PulseDone, PulseInterrupted, CaptureRequest,
              PulseRequest, Request, StopRequest, TerminateRequest

\* The type of every variable is kept.
LEMMA TypeInductive ==
    ASSUME TypeOK, DefinedOnce, [Next]_vars
    PROVE  TypeOK'
  <1>1. CamOK(cam') /\ net' \in Seq(Messages) /\ PlacesOK' /\ DriverOK'
    BY CamTyped, NetTyped, PlacesTyped
  <1> QED BY <1>1 DEF TypeOK, CamOK, ReadyOK, PlacesOK, DriverOK

-------------------------------------------------------------------------------
(* The protocol of exposures, pulses and properties, step by step.         *)

Protocol == InOrder /\ DefinedOnce /\ StatesKnown /\ AsksOne

\* What is under way when a message has been read is what was, but that message.
LEMMA OutRead ==
    ASSUME TypeOK, net # <<>>, net' = Tail(net), driver' = driver
    PROVE  /\ ExposureOut' => ExposureOut
           /\ PulseOut' => PulseOut
           /\ Head(net).type = "exposed" /\ InOrder => ~ExposureOut'
           /\ Head(net).type = "pulse" /\ ~Head(net).busy /\ InOrder => ~PulseOut'
  BY NetRead DEF TypeOK, ExposureOut, PulseOut, InOrder

\* A step that does not touch what the protocol is about.
LEMMA QuietStep ==
    ASSUME TypeOK, Protocol, UNCHANGED <<net, up>>,
           driver'.exposing = driver.exposing, driver'.pulsing = driver.pulsing,
           cam'.props = cam.props, cam'.busy = cam.busy, cam'.active = cam.active,
           cam'.frame \in {cam.frame, "none"},
           \/ worker' = worker
           \/ worker' \notin {"discard", "send", "wait"} \cup Pulsing
    PROVE  Protocol'
  BY DEF Protocol, InOrder, DefinedOnce, StatesKnown, AsksOne, ExposureOut, PulseOut,
         Pulsing

\* A connection that is closed leaves no message and no property behind.
LEMMA CloseStep ==
    ASSUME TypeOK, Protocol, net' = <<>>, up' = FALSE, UNCHANGED driver,
           cam'.props = {}, cam'.frame = "none", worker' \in {worker, "idle"}
    PROVE  Protocol'
  <1>1. DOMAIN net' = {}
    OBVIOUS
  <1> QED BY <1>1 DEF Protocol, InOrder, DefinedOnce, StatesKnown, AsksOne, ExposureOut,
                      PulseOut, Pulsing

\* A message is read, and what the fields then say is still so.
LEMMA ReadStep ==
    ASSUME TypeOK, Protocol, net # <<>>, net' = Tail(net),
           UNCHANGED <<up, driver, worker>>,
           cam'.props \in {cam.props, {}} \/ Head(net).type = "properties",
           "expose" \in cam'.props /\ ExposureOut' => cam'.busy,
           "pulse" \in cam'.props /\ PulseOut' => cam'.active,
           worker = "send_pulse" /\ "pulse" \in cam'.props => cam'.active,
           \/ cam'.frame \in {cam.frame, "none"}
           \/ Head(net).type = "image" /\ cam'.frame = Head(net).image
    PROVE  Protocol'
  <1>1. InOrder'
    BY NetRead DEF TypeOK, Protocol, InOrder
  <1>2. DefinedOnce'
    BY NetRead, OutRead DEF TypeOK, Protocol, DefinedOnce
  <1>3. StatesKnown'
    BY DEF TypeOK, Protocol, StatesKnown
  <1>4. AsksOne'
    <2>1. worker \in {"discard", "send"} => Head(net).type # "image" /\ ~ExposureOut'
      BY NetRead, OutRead DEF TypeOK, Protocol, AsksOne, ExposureOut
    <2>2. worker = "wait" /\ Head(net).type = "image" => Head(net).image # "old"
      BY NetRead DEF TypeOK, Protocol, AsksOne
    <2>3. worker = "wait" =>
             \A i \in DOMAIN net' : net'[i].type = "image" => net'[i].image # "old"
      BY NetRead DEF TypeOK, Protocol, AsksOne
    <2>4. worker = "send_pulse" /\ "pulse" \in cam'.props => ~PulseOut'
      BY NetRead, OutRead DEF TypeOK, Protocol, AsksOne, DefinedOnce, Pulsing
    <2> QED BY <2>1, <2>2, <2>3, <2>4 DEF Protocol, AsksOne
  <1> QED BY <1>1, <1>2, <1>3, <1>4 DEF Protocol

\* The client's thread keeps the protocol.
LEMMA ListenerKeeps ==
    ASSUME TypeOK, Protocol, ListenerStep
    PROVE  Protocol'
  <1> USE DEF Receive
  <1>1. CASE ImageReceived \/ VideoReceived
    <2>1. /\ UNCHANGED <<up, driver, worker>> /\ net # <<>> /\ net' = Tail(net)
          /\ cam'.props = cam.props /\ cam'.busy = cam.busy /\ cam'.active = cam.active
          /\ \/ cam'.frame = cam.frame
             \/ Head(net).type = "image" /\ cam'.frame = Head(net).image
      BY <1>1 DEF ImageReceived, VideoReceived, TypeOK, Cameras
    <2> QED BY <2>1, ReadStep, OutRead DEF Protocol, StatesKnown, AsksOne
  <1>2. CASE StackStream \/ FrameStacked
    <2>1. /\ UNCHANGED <<net, up, driver, worker>>
          /\ cam'.props = cam.props /\ cam'.busy = cam.busy /\ cam'.active = cam.active
          /\ cam'.frame = cam.frame
      BY <1>2 DEF StackStream, FrameStacked, TypeOK, Cameras
    <2> QED BY <2>1, QuietStep
  <1>3. CASE NumberReceived
    <2>1. /\ UNCHANGED <<up, driver, worker>> /\ net # <<>> /\ net' = Tail(net)
          /\ cam'.props = cam.props /\ cam'.frame = cam.frame
      BY <1>3 DEF NumberReceived, PulseUpdate, TypeOK, Cameras
    <2>2. CASE Head(net).type = "exposed"
      <3>1. cam'.active = cam.active
        BY <1>3, <2>2 DEF NumberReceived, TypeOK, Cameras
      <3> QED BY <2>1, <2>2, <3>1, ReadStep, OutRead DEF Protocol, StatesKnown, AsksOne
    <2>3. CASE Head(net).type = "pulse"
      <3>1. /\ cam'.busy = cam.busy
            /\ \/ cam'.active = cam.active
               \/ cam'.active = TRUE
               \/ cam'.active = FALSE /\ ~Head(net).busy /\ "pulse" \in cam.props
        BY <1>3, <2>3 DEF NumberReceived, PulseUpdate, TypeOK, Cameras
      <3>2. worker = "send_pulse" => "pulse" \notin cam.props
        BY <2>3, NetRead, <2>1 DEF Protocol, AsksOne, PulseOut, TypeOK
      <3> QED BY <2>1, <2>3, <3>1, <3>2, ReadStep, OutRead
              DEF Protocol, StatesKnown, AsksOne
    <2> QED BY <1>3, <2>2, <2>3 DEF NumberReceived
  <1>4. CASE ConnectionReceived
    <2>1. /\ UNCHANGED <<up, driver, worker>> /\ net # <<>> /\ net' = Tail(net)
          /\ cam'.props = cam.props /\ cam'.busy = cam.busy /\ cam'.active = cam.active
          /\ cam'.frame = cam.frame
      BY <1>4 DEF ConnectionReceived, CheckState, TypeOK, Cameras
    <2> QED BY <2>1, ReadStep, OutRead DEF Protocol, StatesKnown, AsksOne
  <1>5. CASE PropertiesReceived
    <2>1. /\ UNCHANGED <<up, driver, worker>> /\ net # <<>> /\ net' = Tail(net)
          /\ cam'.props = Has /\ cam'.busy = Head(net).busy /\ cam'.active = cam.active
          /\ cam'.frame = cam.frame /\ Head(net).type = "properties"
      BY <1>5 DEF PropertiesReceived, CheckState, TypeOK, Cameras
    <2>2. worker \notin Pulsing /\ ~PulseOut /\ (ExposureOut => Head(net).busy)
      BY <2>1, NetRead DEF Protocol, DefinedOnce, TypeOK
    <2> QED BY <2>1, <2>2, ReadStep, OutRead DEF Pulsing
  <1>6. CASE OffReceived
    <2>1. /\ UNCHANGED <<up, driver, worker>> /\ net # <<>> /\ net' = Tail(net)
          /\ cam' = cam \/ (cam'.props = {} /\ cam'.frame = "none")
      BY <1>6 DEF OffReceived, ClearStatus, TypeOK, Cameras
    <2> QED BY <2>1, ReadStep, OutRead DEF Protocol, StatesKnown, AsksOne
  <1> QED BY <1>1, <1>2, <1>3, <1>4, <1>5, <1>6 DEF ListenerStep

\* A message is sent that is not about exposures, pulses or properties.
LEMMA OtherSent ==
    ASSUME TypeOK, Protocol, NEW t \in {"video", "off"}, up,
           net' = Append(net, [type |-> t]), UNCHANGED <<up, cam, worker>>,
           driver'.exposing \in {driver.exposing, "none"},
           driver'.pulsing \in {driver.pulsing, "none"}
    PROVE  Protocol'
  <1> DEFINE m == [type |-> t]
  <1>1. m \in Messages /\ m.type \notin {"image", "exposed", "pulse", "properties"}
    BY MessageTypes
  <1> HIDE DEF m
  <1>2. /\ \A i \in DOMAIN net' :
              \/ i \in DOMAIN net /\ net'[i] = net[i]
              \/ net'[i].type \notin {"image", "exposed", "pulse", "properties"}
        /\ net' # <<>>
    BY <1>1, NetSent DEF TypeOK, m
  <1>3. (ExposureOut' => ExposureOut) /\ (PulseOut' => PulseOut)
    BY <1>2 DEF ExposureOut, PulseOut
  <1>4. InOrder'
    BY <1>2 DEF Protocol, InOrder
  <1>5. DefinedOnce'
    BY <1>2, <1>3 DEF Protocol, DefinedOnce
  <1> QED BY <1>2, <1>3, <1>4, <1>5 DEF Protocol, StatesKnown, AsksOne

\* The driver keeps the protocol.
LEMMA DriverKeeps ==
    ASSUME TypeOK, Protocol, DriverStep \/ DeviceOff
    PROVE  Protocol'
  <1>1. CASE Exposed /\ up
    <2> DEFINE m == [type |-> "image", image |-> driver.exposing]
               n == [type |-> "exposed"]
    <2>1. /\ m \in Messages /\ n \in Messages
          /\ m.type = "image" /\ m.image = driver.exposing /\ n.type = "exposed"
      BY <1>1, MessageTypes DEF Exposed, TypeOK
    <2>2. /\ net' = net \o <<m, n>> /\ UNCHANGED <<up, cam, worker>>
          /\ driver.exposing # "none" /\ driver'.exposing = "none"
          /\ driver'.pulsing = driver.pulsing
      BY <1>1 DEF Exposed, Send, TypeOK
    <2> HIDE DEF m, n
    <2>3. /\ \A i \in DOMAIN net' : \/ i \in DOMAIN net /\ net'[i] = net[i]
                                    \/ i = Len(net) + 1 /\ net'[i] = m
                                    \/ i = Len(net) + 2 /\ net'[i] = n
          /\ \A i \in DOMAIN net : i \in Nat /\ i < Len(net) + 1
          /\ Len(net) + 1 \in Nat /\ net' # <<>>
      BY <2>1, <2>2, NetSentTwo DEF TypeOK
    <2>4. ExposureOut /\ (PulseOut' => PulseOut)
      BY <2>1, <2>2, <2>3 DEF ExposureOut, PulseOut
    <2>5. InOrder'
      BY <2>1, <2>2, <2>3 DEF Protocol, InOrder
    <2>6. DefinedOnce'
      BY <2>1, <2>2, <2>3, <2>4 DEF Protocol, DefinedOnce
    <2> QED BY <1>1, <2>1, <2>2, <2>3, <2>4, <2>5, <2>6 DEF Protocol, StatesKnown, AsksOne
  <1>2. CASE Pulsed /\ up
    <2> DEFINE m == [type |-> "pulse", axis |-> driver.pulsing, busy |-> FALSE]
    <2>1. m \in Messages /\ m.type = "pulse"
      BY <1>2, MessageTypes DEF Pulsed, TypeOK
    <2>2. /\ net' = Append(net, m) /\ UNCHANGED <<up, cam, worker>>
          /\ driver.pulsing # "none" /\ driver'.pulsing = "none"
          /\ driver'.exposing = driver.exposing
      BY <1>2, <2>1, NetSent DEF Pulsed, Send, TypeOK
    <2> HIDE DEF m
    <2>3. /\ \A i \in DOMAIN net' : \/ i \in DOMAIN net /\ net'[i] = net[i]
                                    \/ i = Len(net) + 1 /\ net'[i] = m
          /\ \A i \in DOMAIN net : i \in Nat /\ i < Len(net) + 1
          /\ Len(net) + 1 \in Nat /\ net' # <<>>
      BY <2>1, <2>2, NetSent DEF TypeOK
    <2>4. PulseOut /\ (ExposureOut' => ExposureOut)
      BY <2>1, <2>2, <2>3 DEF ExposureOut, PulseOut
    <2>5. InOrder'
      BY <2>1, <2>2, <2>3 DEF Protocol, InOrder
    <2>6. DefinedOnce'
      BY <2>1, <2>2, <2>3, <2>4 DEF Protocol, DefinedOnce
    <2> QED BY <1>2, <2>1, <2>2, <2>3, <2>4, <2>5, <2>6 DEF Protocol, StatesKnown, AsksOne
  <1>3. CASE (Exposed \/ Pulsed) /\ ~up
    <2>1. /\ UNCHANGED <<net, up, cam, worker>>
          /\ driver'.exposing \in {driver.exposing, "none"}
          /\ driver'.pulsing \in {driver.pulsing, "none"}
      BY <1>3 DEF Exposed, Pulsed, Send, TypeOK
    <2> QED BY <1>3, <2>1 DEF Protocol, InOrder, DefinedOnce, StatesKnown, AsksOne,
                              ExposureOut, PulseOut
  <1>4. CASE Streamed \/ DeviceOff
    <2>1. /\ [type |-> "video"] \in Messages /\ [type |-> "off"] \in Messages
      BY MessageTypes
    <2>2. PICK t \in {"video", "off"} : net' = Append(net, [type |-> t])
      BY <1>4, <2>1, NetSent DEF Streamed, DeviceOff, Send, TypeOK
    <2>3. /\ UNCHANGED <<up, cam, worker>> /\ up
          /\ driver'.exposing \in {driver.exposing, "none"}
          /\ driver'.pulsing \in {driver.pulsing, "none"}
      BY <1>4 DEF Streamed, DeviceOff
    <2> QED BY <2>2, <2>3, OtherSent
  <1> QED BY <1>1, <1>2, <1>3, <1>4 DEF DriverStep

\* The worker asks for an exposure.
LEMMA SendExposureKeeps ==
    ASSUME TypeOK, Protocol, SendExposure
    PROVE  Protocol'
  <1>1. /\ net' = NetAged /\ UNCHANGED <<up, listener, alert>> /\ worker = "send"
        /\ cam'.props = cam.props /\ cam'.active = cam.active /\ cam'.busy = TRUE
        /\ cam'.frame = "none" /\ driver'.pulsing = driver.pulsing
        /\ driver'.exposing = IF "expose" \in cam.props THEN "own" ELSE driver.exposing
        /\ worker' = IF "expose" \in cam.props THEN "wait" ELSE "crashed"
    BY DEF SendExposure, NetAged, Uses, TypeOK, Cameras, Protocol, AsksOne, Aged
  <1>2. ~ExposureOut
    BY <1>1 DEF Protocol, AsksOne
  <1>3. net' = net /\ driver.exposing = "none"
    <2>1. /\ DOMAIN net' = DOMAIN net
          /\ \A i \in DOMAIN net : net'[i] = net[i]
      BY <1>1, <1>2, NetOlder DEF ExposureOut, TypeOK
    <2>2. net' \in Seq(Messages)
      BY <1>1, NetOlder DEF TypeOK
    <2>3. Len(net') = Len(net)
      BY <2>1, <2>2, LenProperties DEF TypeOK
    <2>4. \A i \in 1..Len(net) : net'[i] = net[i]
      BY <2>1, LenProperties DEF TypeOK
    <2> QED BY <1>2, <2>2, <2>3, <2>4, SeqEqual DEF ExposureOut, TypeOK
  <1>4. InOrder'
    BY <1>2, <1>1, <1>3 DEF Protocol, InOrder, ExposureOut
  <1>5. DefinedOnce'
    BY <1>1, <1>3 DEF Protocol, DefinedOnce, ExposureOut, PulseOut, Pulsing
  <1>6. StatesKnown' /\ AsksOne'
    BY <1>1, <1>2, <1>3 DEF Protocol, StatesKnown, AsksOne, ExposureOut, PulseOut
  <1> QED BY <1>4, <1>5, <1>6 DEF Protocol

\* The worker asks for a pulse.
LEMMA SendPulseKeeps ==
    ASSUME TypeOK, Protocol, SendPulse
    PROVE  Protocol'
  <1>1. CASE "pulse" \notin cam.props
    BY <1>1, QuietStep DEF SendPulse, Uses, Pulsing
  <1>2. CASE "pulse" \in cam.props
    <2> DEFINE m == [type |-> "pulse", axis |-> cam.axis, busy |-> TRUE]
    <2>1. m \in Messages /\ m.type = "pulse" /\ m.busy
      BY MessageTypes DEF TypeOK, Cameras
    <2>2. /\ net' = Append(net, m) /\ UNCHANGED <<up, cam>>
          /\ driver'.exposing = driver.exposing
          /\ worker = "send_pulse" /\ worker' = "pulsing"
      BY <1>2 DEF SendPulse, Uses, TypeOK
    <2> HIDE DEF m
    <2>3. /\ \A i \in DOMAIN net' : \/ i \in DOMAIN net /\ net'[i] = net[i]
                                    \/ i = Len(net) + 1 /\ net'[i] = m
          /\ \A i \in DOMAIN net : i \in Nat /\ i < Len(net) + 1
          /\ Len(net) + 1 \in Nat /\ net' # <<>>
      BY <2>1, <2>2, NetSent DEF TypeOK
    <2>4. cam.active /\ ~PulseOut /\ up
      BY <1>2, <2>2 DEF Protocol, AsksOne, StatesKnown, TypeOK
    <2>5. ExposureOut' => ExposureOut
      BY <2>1, <2>2, <2>3 DEF ExposureOut
    <2>6. InOrder'
      BY <2>1, <2>2, <2>3, <2>4 DEF Protocol, InOrder, PulseOut
    <2>7. DefinedOnce'
      BY <1>2, <2>1, <2>2, <2>3, <2>5 DEF Protocol, DefinedOnce
    <2> QED BY <2>2, <2>4, <2>5, <2>6, <2>7 DEF Protocol, StatesKnown, AsksOne
  <1> QED BY <1>1, <1>2

\* The worker keeps the protocol: it waits for an earlier exposure, and leaves the
\* guide port alone while a pulse is under way.
LEMMA WorkerKeeps ==
    ASSUME TypeOK, Protocol, WorkerStep
    PROVE  Protocol'
  <1>1. CASE BusyOver \/ DiscardFrame
    <2>1. CASE BusyOver /\ worker' = "crashed"
      BY <2>1, QuietStep DEF BusyOver, Pulsing
    <2>2. CASE worker' # "crashed"
      <3>1. /\ UNCHANGED <<net, up, driver>>
            /\ cam'.props = cam.props /\ cam'.busy = cam.busy /\ cam'.active = cam.active
            /\ \/ worker' = "discard" /\ cam' = cam
               \/ worker' = "send" /\ cam'.frame = "none"
        BY <1>1, <2>2 DEF BusyOver, DiscardFrame, Discard, Uses, TypeOK, Cameras
      <3>2. ~ExposureOut
        BY <1>1, <2>2 DEF BusyOver, DiscardFrame, Uses, Protocol, AsksOne, StatesKnown
      <3> QED BY <3>1, <3>2 DEF Protocol, InOrder, DefinedOnce, StatesKnown, AsksOne,
                                ExposureOut, PulseOut, Pulsing
    <2> QED BY <1>1, <2>1, <2>2 DEF DiscardFrame
  <1>2. CASE ActivatePulse
    <2>1. CASE cam.active
      BY <1>2, <2>1, QuietStep DEF ActivatePulse, Pulsing
    <2>2. CASE ~cam.active
      <3>1. /\ UNCHANGED <<net, up, driver>> /\ worker = "activate"
            /\ cam'.props = cam.props /\ cam'.busy = cam.busy /\ cam'.active = TRUE
            /\ cam'.frame = cam.frame /\ worker' = "send_pulse"
        BY <1>2, <2>2 DEF ActivatePulse, TypeOK, Cameras
      <3>2. "pulse" \in cam.props => ~PulseOut
        BY <2>2 DEF Protocol, StatesKnown
      <3> QED BY <3>1, <3>2 DEF Protocol, InOrder, DefinedOnce, StatesKnown, AsksOne,
                                ExposureOut, PulseOut, Pulsing
    <2> QED BY <2>1, <2>2
  <1>3. CASE Capture
    <2>1. \/ UNCHANGED <<cam, up, net, driver>> /\ worker' \in {"idle", "busy", "stream"}
          \/ Close(cam) /\ worker' = "idle" /\ UNCHANGED driver
      BY <1>3 DEF Capture
    <2>2. CASE UNCHANGED <<cam, up, net, driver>> /\ worker' \in {"idle", "busy", "stream"}
      BY <2>2, QuietStep DEF Pulsing
    <2>3. CASE Close(cam) /\ worker' = "idle" /\ UNCHANGED driver
      BY <2>3, CloseStep DEF Close, ClearStatus, TypeOK, Cameras
    <2> QED BY <2>1, <2>2, <2>3
  <1>4. CASE WatchdogExpired
    <2>1. CASE /\ UNCHANGED <<up, net, driver>> /\ worker' = "capture"
               /\ cam' = [cam EXCEPT !.forceVideo = TRUE, !.first = FALSE]
      BY <2>1, QuietStep DEF Pulsing, TypeOK, Cameras
    <2>2. CASE /\ Close([cam EXCEPT !.first = FALSE]) /\ worker' = "idle"
               /\ UNCHANGED driver
      BY <2>2, CloseStep DEF Close, ClearStatus, TypeOK, Cameras
    <2> QED BY <1>4, <2>1, <2>2 DEF WatchdogExpired
  <1>5. CASE \/ TakeFrame \/ CaptureTerminated \/ StartStream \/ StreamLongEnough
             \/ StreamOver \/ StopStream \/ Drain \/ PulseDone \/ PulseInterrupted
    <2>1. /\ UNCHANGED <<net, up>>
          /\ driver'.exposing = driver.exposing /\ driver'.pulsing = driver.pulsing
      BY <1>5 DEF TakeFrame, CaptureTerminated, StartStream, StreamLongEnough, StreamOver,
                  StopStream, Drain, PulseDone, PulseInterrupted, TypeOK
    <2>2. /\ cam'.props = cam.props /\ cam'.busy = cam.busy /\ cam'.active = cam.active
          /\ cam'.frame \in {cam.frame, "none"}
      BY <1>5 DEF TakeFrame, CaptureTerminated, StartStream, StreamLongEnough, StreamOver,
                  StopStream, Drain, PulseDone, PulseInterrupted, InterruptKeeps, TypeOK,
                  Cameras
    <2>3. \/ worker' = worker
          \/ worker' \notin {"discard", "send", "wait"} \cup Pulsing
      BY <1>5 DEF TakeFrame, CaptureTerminated, StartStream, StreamLongEnough, StreamOver,
                  StopStream, Drain, PulseDone, PulseInterrupted, Uses, Pulsing
    <2> QED BY <2>1, <2>2, <2>3, QuietStep
  <1> QED BY <1>1, <1>2, <1>3, <1>4, <1>5, SendExposureKeeps, SendPulseKeeps
          DEF WorkerStep

\* Requests, connecting and disconnecting keep the protocol.
LEMMA GuiKeeps ==
    ASSUME TypeOK, Protocol,
           \/ CaptureRequest \/ PulseRequest \/ ServerLost
           \/ Connect \/ Disconnect \/ StopRequest \/ TerminateRequest
    PROVE  Protocol'
  <1>1. CASE CaptureRequest \/ StopRequest \/ TerminateRequest
    BY <1>1, QuietStep DEF CaptureRequest, Request, StopRequest, TerminateRequest, Pulsing
  <1>2. CASE PulseRequest
    <2>1. "pulse" \in cam.props /\ worker' = "activate"
          /\ UNCHANGED <<cam, net, up, driver>>
      BY <1>2 DEF PulseRequest, Request
    <2> QED BY <2>1 DEF Protocol, InOrder, DefinedOnce, StatesKnown, AsksOne, ExposureOut,
                        PulseOut, Pulsing
  <1>3. CASE ServerLost \/ Disconnect
    BY <1>3, CloseStep DEF ServerLost, Disconnect, Close, ClearStatus, TypeOK, Cameras
  <1>4. CASE Connect
    <2> DEFINE b == driver.exposing # "none"
    <2>1. /\ net' = <<[type |-> "connected"], [type |-> "properties", busy |-> b]>>
          /\ UNCHANGED <<cam, worker, driver>> /\ up' /\ worker = "idle"
          /\ cam.props = {} /\ driver.pulsing = "none"
      BY <1>4 DEF Connect, Definitions, Protocol, StatesKnown
    <2>2. /\ DOMAIN net' = {1, 2} /\ net'[1].type = "connected"
          /\ net'[2].type = "properties" /\ net'[2].busy = b
      BY <2>1
    <2> HIDE DEF b
    <2>3. (ExposureOut' <=> driver.exposing # "none") /\ ~PulseOut'
      BY <2>1, <2>2 DEF ExposureOut, PulseOut
    <2>4. InOrder'
      BY <2>2 DEF InOrder
    <2>5. DefinedOnce'
      BY <2>1, <2>2, <2>3 DEF DefinedOnce, Pulsing, b
    <2> QED BY <2>1, <2>4, <2>5 DEF Protocol, StatesKnown, AsksOne
  <1> QED BY <1>1, <1>2, <1>3, <1>4

-------------------------------------------------------------------------------
(* The theorems.                                                           *)

LEMMA InitInv == Init => CameraInv
  <1> SUFFICES ASSUME Init PROVE CameraInv
    OBVIOUS
  <1>1. TypeOK
    <2>1. cam \in Cameras
      BY DEF Init, Cameras, Properties, Axes
    <2>2. ~cam.ready
      BY DEF Init
    <2>3. net \in Seq(Messages)
      BY DEF Init
    <2> QED BY <2>1, <2>2, <2>3 DEF Init, TypeOK, WorkerPlaces
  <1>2. DOMAIN net = {} /\ net = <<>> /\ cam.props = {} /\ worker = "idle"
    BY DEF Init
  <1> QED BY <1>1, <1>2 DEF CameraInv, InOrder, DefinedOnce, StatesKnown, AsksOne

\* The inductive invariant: types, the order of the messages, what the fields say of
\* the driver, and what the worker may ask.
LEMMA InvInductive == CameraInv /\ [Next]_vars => CameraInv'
  <1> SUFFICES ASSUME TypeOK, Protocol, [Next]_vars PROVE TypeOK' /\ Protocol'
    BY DEF CameraInv, Protocol
  <1>1. TypeOK'
    BY TypeInductive DEF Protocol
  <1>2. CASE UNCHANGED vars
    <2>1. Protocol'
      BY <1>2, QuietStep DEF vars
    <2> QED BY <1>1, <2>1
  <1>3. CASE Next
    <2>1. \/ WorkerStep \/ ListenerStep \/ DriverStep \/ DeviceOff
          \/ CaptureRequest \/ PulseRequest \/ ServerLost
          \/ Connect \/ Disconnect \/ StopRequest \/ TerminateRequest
      BY <1>3 DEF Next
    <2>2. Protocol'
      BY <2>1, WorkerKeeps, ListenerKeeps, DriverKeeps, GuiKeeps
    <2> QED BY <1>1, <2>2
  <1> QED BY <1>2, <1>3

\* The invariant of the INDI camera holds, with every set of properties a driver has.
THEOREM InvHolds == Spec => []CameraInv
  BY InitInv, InvInductive, PTL DEF Spec

\* The types are kept, and a camera that is ready has been connected and can capture.
THEOREM TypeCorrect == Spec => []TypeOK
  <1>1. CameraInv => TypeOK
    BY DEF CameraInv
  <1> QED BY <1>1, InvHolds, PTL

\* While Capture waits, the image it finds is never one exposed for an earlier request,
\* however the connection was lost and made again.
THEOREM FrameIsFreshHolds == Spec => []FrameIsFresh
  <1>1. CameraInv => FrameIsFresh
    BY DEF CameraInv, AsksOne, FrameIsFresh
  <1> QED BY <1>1, InvHolds, PTL

\* A pulse is done when the driver has done it or is gone, and none is sent while one
\* is under way.
THEOREM PulseIsOwnHolds == Spec => []PulseIsOwn
  <1>1. CameraInv => PulseIsOwn
    BY DEF CameraInv, AsksOne, StatesKnown, PulseOut, PulseIsOwn
  <1> QED BY <1>1, InvHolds, PTL
===============================================================================
