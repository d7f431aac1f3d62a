---------------------------- MODULE MCCaptureApp -----------------------------
(***************************************************************************)
(* The program with sessions of up to MaxFrames frames, and what its       *)
(* documents say of it.  Each of the latter is the property of a run that  *)
(* finds the code doing otherwise.                                         *)
(***************************************************************************)
EXTENDS CaptureApp

(* README: the button stops a capture, so the handler of a click on Stop
   comes back to the message loop. *)
StopReturns == gui = "join" ~> gui = "idle"

(* inc/CStreamVideo.hpp: m_recording indicates the recording status, so when
   it is set, the recording thread has been started and no click is being
   handled, there is a session. *)
StatusIsTrue == gui = "idle" /\ m_recording /\ joinable => Active

(* inc/CVideoCaptureGUI.hpp: the GUI object is destroyed and its resources
   cleaned up; the thread it owns does not abort the process. *)
NeverTerminated == gui # "terminated"
==============================================================================
