---------------------------- MODULE MCGuideSession ----------------------------
(* Instances of GuideSession for TLC: the commands each of them gives.     *)
EXTENDS GuideSession

Operating == {"loop", "stop_capture", "pause", "pause_full", "resume", "guide",
              "dither", "move", "deselect_star", "clear_calibration",
              "multistar", "connect", "guide_pulse", "capture_single_frame"}
Guiding == {"loop", "stop_capture", "pause", "resume", "guide_button",
            "start_guiding", "find_star", "dither", "connect", "click",
            "capture_single_frame"}
Pausing == {"loop", "stop_capture", "pause_full"}
Answering == {"guide", "loop", "connect"}
Stopping == {"guide", "stop_capture"}
Selecting == {"loop", "stop_capture", "find_star", "guide_button"}
===============================================================================
