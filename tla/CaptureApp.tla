----------------------------- MODULE CaptureApp ------------------------------
(***************************************************************************)
(* The program around a recording session: the thread that runs WinMain    *)
(* and the message loop (src/CVideoCaptureGUI.cpp), its Start/Stop button, *)
(* the std::thread m_videoThread in which it calls                         *)
(* videoCaptureAndEncoding, and the closing of the window.  The handler    *)
(* of a click runs on the GUI thread and loads m_recording, stores it and  *)
(* joins or starts the thread in separate steps, between which the         *)
(* session's own threads go on.                                            *)
(***************************************************************************)
EXTENDS RecordingPipeline

CONSTANT Bindings  \* what m_videoStreamPtr may be once WinMain has set up:
                   \* {"null"} in the repository's WinMain, "stream" where
                   \* setVideoStreamingObject has been called

ASSUME BindingsAssumption == Bindings \subseteq {"null", "stream"}

VARIABLES
  m_videoStreamPtr,  \* the GUI's pointer to the videoStream object
  gui,               \* where the GUI thread is
  label,             \* the text of the Start/Stop button
  joinable           \* m_videoThread.joinable()

guiVars == <<m_videoStreamPtr, gui, label, joinable>>
appVars == <<vars, guiVars>>

(***************************************************************************)
(* "idle": in the message loop.  "stop", "join", "start", "spawn": in the  *)
(* handler of a click.  "closing": the loop is over and the GUI object     *)
(* about to be destroyed.  The last three end the process: a normal exit,  *)
(* std::terminate, and an access through a null pointer.                   *)
(***************************************************************************)
Ended == {"exited", "terminated", "crashed"}
GuiSteps == {"idle", "stop", "join", "start", "spawn", "closing"} \cup Ended

Alive == gui \notin Ended

AppInit ==
  /\ Init
  /\ m_videoStreamPtr \in Bindings
  /\ gui = "idle"
  /\ label = "Start"
  /\ joinable = FALSE

-----------------------------------------------------------------------------
(* A click loads m_recording through getVideoStream(), which is null unless
   setVideoStreamingObject has been called. *)
Click ==
  /\ gui = "idle"
  /\ m_videoStreamPtr = "stream"
  /\ gui' = IF m_recording THEN "stop" ELSE "start"
  /\ UNCHANGED <<vars, m_videoStreamPtr, label, joinable>>

ClickWithoutStream ==
  /\ gui = "idle"
  /\ m_videoStreamPtr = "null"
  /\ gui' = "crashed"
  /\ UNCHANGED <<vars, m_videoStreamPtr, label, joinable>>

(* Mutant: the button is reset without waiting for the session. *)
StopWithoutJoin ==
  /\ gui = "stop"
  /\ SetRecording(FALSE)
  /\ gui' = "idle" /\ label' = "Start"
  /\ UNCHANGED <<m_videoStreamPtr, joinable>>

(* Mutant: the session is waited for without being stopped. *)
JoinWithoutStop ==
  /\ gui = "stop"
  /\ IF joinable THEN gui' = "join" /\ UNCHANGED label
                 ELSE gui' = "idle" /\ label' = "Start"
  /\ UNCHANGED <<vars, m_videoStreamPtr, joinable>>

StopRecording ==
  /\ gui = "stop"
  /\ SetRecording(FALSE)
  /\ IF joinable THEN gui' = "join" /\ UNCHANGED label
                 ELSE gui' = "idle" /\ label' = "Start"
  /\ UNCHANGED <<m_videoStreamPtr, joinable>>

(* Mutant: the thread is let go instead of waited for. *)
Detach ==
  /\ gui = "join"
  /\ gui' = "idle" /\ label' = "Start" /\ joinable' = FALSE
  /\ UNCHANGED <<vars, m_videoStreamPtr>>

(* join: the message loop stands still until the session has returned. *)
JoinVideoThread ==
  /\ gui = "join" /\ ~Active
  /\ gui' = "idle" /\ label' = "Start" /\ joinable' = FALSE
  /\ UNCHANGED <<vars, m_videoStreamPtr>>

StartRecording ==
  /\ gui = "start"
  /\ SetRecording(TRUE)
  /\ gui' = "spawn"
  /\ UNCHANGED <<m_videoStreamPtr, label, joinable>>

(* A thread of an earlier recording that nobody has joined keeps the handler
   from starting another one, even when it has long ended. *)
KeepThread ==
  /\ gui = "spawn" /\ joinable
  /\ gui' = "idle" /\ label' = "Stop"
  /\ UNCHANGED <<vars, m_videoStreamPtr, joinable>>

StartThread ==
  /\ gui = "spawn" /\ ~joinable
  /\ gui' = "idle" /\ label' = "Stop" /\ joinable' = TRUE
  /\ Begin
  /\ UNCHANGED m_videoStreamPtr

(* The std::thread constructor throws; the exception is logged. *)
StartThreadFails ==
  /\ gui = "spawn" /\ ~joinable
  /\ gui' = "idle" /\ label' = "Stop"
  /\ UNCHANGED <<vars, m_videoStreamPtr, joinable>>

(* WM_DESTROY posts WM_QUIT, Show returns and WinMain ends. *)
CloseWindow ==
  /\ gui = "idle"
  /\ gui' = "closing"
  /\ UNCHANGED <<vars, m_videoStreamPtr, label, joinable>>

(* Mutant: a destructor that ignores the thread. *)
DestroyAnyway ==
  /\ gui = "closing"
  /\ gui' = "exited"
  /\ UNCHANGED <<vars, m_videoStreamPtr, label, joinable>>

(* uiPtr goes first; the destructor of a joinable std::thread terminates.
   Then vsPtr, whose destructor is cleanupCamera. *)
Destroy ==
  /\ gui = "closing"
  /\ gui' = IF joinable THEN "terminated" ELSE "exited"
  /\ camera' = IF joinable THEN camera ELSE FALSE
  /\ UNCHANGED <<captureVars, vpc, encoder, abandoned, rearmed,
                 m_videoStreamPtr, label, joinable>>

GuiStep ==
  \/ StopRecording \/ JoinVideoThread \/ StartRecording
  \/ KeepThread \/ StartThread \/ StartThreadFails \/ Destroy

UserStep == Click \/ ClickWithoutStream \/ CloseWindow

(* The session's threads run as long as the process does. *)
Runs(step) == step /\ Alive /\ UNCHANGED guiVars

AppNext == GuiStep \/ UserStep \/ Runs(SessionStep)

AppSpec == AppInit /\ [][AppNext]_appVars

(* The GUI thread goes on through a handler; users need not click. *)
AppFairness ==
  /\ WF_appVars(GuiStep)
  /\ WF_appVars(Runs(VideoStep))
  /\ WF_appVars(Runs(KeyThread))
  /\ WF_appVars(Runs(ReaderThread))
  /\ WF_appVars(Runs(EncoderThread))

AppFairSpec == AppSpec /\ AppFairness

-----------------------------------------------------------------------------
(* The type invariant. *)
AppTypeOK ==
  /\ TypeOK
  /\ m_videoStreamPtr \in Bindings
  /\ gui \in GuiSteps
  /\ label \in {"Start", "Stop"}
  /\ joinable \in BOOLEAN

(* Two sessions never run at once: whoever starts a thread, or has no thread
   to join, has no session either, although m_recording alone decides which
   branch of the handler is taken and the key listener may clear it. *)
OneSession == ~joinable => ~Active

(* While the button offers Start and no click is being handled, nothing is
   recording: no session, no open camera, no file without its trailer. *)
StartMeansStopped ==
  gui = "idle" /\ label = "Start" =>
    ~m_recording /\ ~joinable /\ ~Active /\ ~camera /\
    container # "recording"

(* A normal exit leaves no session behind and no file without its trailer. *)
ExitIsClean ==
  gui = "exited" => ~Active /\ ~camera /\ ~mIsOpen /\ codec = {} /\
                    container # "recording"

(* A click on Stop comes back to the message loop, unless the encoder thread
   waits for ever for a frame: the only way the join can fail to return. *)
StopReturnsOrStarves == gui = "join" ~> (gui = "idle" \/ Starved)
==============================================================================
