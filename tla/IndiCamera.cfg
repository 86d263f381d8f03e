CONSTANTS
    Has = {"expose", "video", "pulse"}
    ForceExposure = FALSE
SPECIFICATION FairSpec
INVARIANTS CameraInv FrameIsFresh PulseIsOwn
PROPERTIES StillEnds PulseEnds
CHECK_DEADLOCK FALSE
