-------------------------- MODULE CaptureAppProofs ---------------------------
(***************************************************************************)
(* Proofs about CaptureApp, for any bound on the frames of a session and   *)
(* whether or not the GUI has been given its videoStream object: the       *)
(* program only ever runs the pipeline of RecordingPipeline.tla, which     *)
(* carries over what is proved of it, and the handler keeps the button,    *)
(* the thread object and the session in step.                              *)
(***************************************************************************)
EXTENDS CaptureApp, RecordingPipelineProofs

(* What the handler of a click may rely on at each of its steps. *)
Handler ==
  /\ m_recording \in BOOLEAN
  /\ m_videoStreamPtr \in Bindings
  /\ gui \in GuiSteps /\ label \in {"Start", "Stop"} /\ joinable \in BOOLEAN
  /\ OneSession
  /\ gui = "idle" /\ label = "Start" => ~m_recording /\ ~joinable
  /\ gui = "join" => ~m_recording /\ joinable
  /\ gui = "exited" => ~joinable

(* Destroy releases a camera that no session has left open, and every other
   step of the program is a step of the pipeline or leaves it alone. *)
LEMMA StepMaps ==
  ASSUME Phases, OneSession, [AppNext]_appVars
  PROVE  [Next]_vars
<1>1. CASE Destroy
  <2>1. camera' = camera
    BY <1>1 DEF Destroy, Phases, OneSession, Active, Started
  <2> QED
    BY <1>1, <2>1 DEF Destroy, vars, session
<1>2. CASE StopRecording \/ StartRecording
  <2>1. \E on \in BOOLEAN : SetRecording(on)
    BY <1>2 DEF StopRecording, StartRecording
  <2> QED
    BY <2>1 DEF Next, OwnerStep
<1>3. CASE StartThread
  BY <1>3 DEF StartThread, Next, OwnerStep
<1>4. CASE JoinVideoThread \/ KeepThread \/ StartThreadFails \/ UserStep
  BY <1>4 DEF JoinVideoThread, KeepThread, StartThreadFails, UserStep, Click,
              ClickWithoutStream, CloseWindow
<1>5. CASE Runs(SessionStep)
  BY <1>5 DEF Runs, Next
<1>6. CASE UNCHANGED appVars
  BY <1>6 DEF appVars
<1> QED
  BY <1>1, <1>2, <1>3, <1>4, <1>5, <1>6 DEF AppNext, GuiStep

(* The session's own threads start no session and record nothing new. *)
LEMMA SessionKeeps ==
  ASSUME Phases, m_recording \in BOOLEAN, SessionStep
  PROVE  /\ m_recording' \in BOOLEAN
         /\ ~m_recording => ~m_recording'
         /\ ~Active => UNCHANGED <<m_recording, vpc>>
<1>1. CASE VideoStep
  <2>1. Active
    BY <1>1 DEF VideoStep, OpenEncoder, OpenFails, InitializeCamera,
       CameraFails, Abandon, SpawnThreads, JoinKeyListener, JoinReader,
       JoinEncoder, CloseEncoder, CleanupCamera, Return, Active
  <2>2. CASE SpawnThreads \/ Return
    BY <2>1, <2>2 DEF SpawnThreads, Return
  <2>3. CASE UNCHANGED captureVars
    BY <2>1, <2>3 DEF captureVars
  <2> QED
    BY <1>1, <2>2, <2>3 DEF VideoStep, OpenEncoder, OpenFails,
       InitializeCamera, CameraFails, Abandon, JoinKeyListener, JoinReader,
       JoinEncoder, CloseEncoder, CleanupCamera
<1>2. CASE KeyThread
  <2>1. m_recording' = m_recording \/ m_recording' = FALSE
    BY <1>2 DEF KeyThread, KeyStep, KeyCheck, KeyOther, KeyQ
  <2>2. kpc # "none" /\ vpc' = vpc
    BY <1>2 DEF KeyThread, KeyStep, KeyCheck, KeyOther, KeyQ
  <2>3. Active
    BY <2>2 DEF Phases, Started, Active
  <2>4. CASE m_recording' = m_recording
    BY <2>3, <2>4
  <2>5. CASE m_recording' = FALSE
    BY <2>3, <2>5
  <2> QED
    BY <2>1, <2>4, <2>5
<1>3. CASE ReaderThread
  BY <1>3 DEF ReaderThread, ReaderStep, ReaderMoves, ReaderCheck, ReaderLoop,
              ReadNothing, ReadFrame, NotifyObserver, PushFrame
<1>4. CASE EncoderThread
  BY <1>4 DEF EncoderThread, EncoderLoopStep, EncoderMoves, EncoderCheck,
              EncoderEmpty, PopFrame, FreeFrame, WriteFrame
<1> QED
  BY <1>1, <1>2, <1>3, <1>4 DEF SessionStep

LEMMA HandlerStep ==
  ASSUME Phases, Handler, [AppNext]_appVars
  PROVE  Handler'
<1> USE DEF Handler, OneSession, Active, GuiSteps, Ended
<1>1. CASE StopRecording \/ StartRecording
  <2>1. /\ vpc' = vpc /\ joinable' = joinable
        /\ m_videoStreamPtr' = m_videoStreamPtr
    BY <1>1 DEF StopRecording, StartRecording, SetRecording
  <2>2. CASE StopRecording
    <3>1. m_recording' = FALSE
      BY <2>2 DEF StopRecording, SetRecording
    <3>2. \/ gui' = "join" /\ joinable /\ label' = label
          \/ gui' = "idle" /\ ~joinable /\ label' = "Start"
      BY <2>2 DEF StopRecording
    <3> QED
      BY <2>1, <3>1, <3>2
  <2>3. CASE StartRecording
    BY <2>1, <2>3 DEF StartRecording, SetRecording
  <2> QED
    BY <1>1, <2>2, <2>3
<1>2. CASE JoinVideoThread \/ KeepThread \/ StartThreadFails
  <2>1. /\ vpc' = vpc /\ m_recording' = m_recording
        /\ m_videoStreamPtr' = m_videoStreamPtr /\ gui' = "idle"
    BY <1>2 DEF JoinVideoThread, KeepThread, StartThreadFails, vars, captureVars
  <2>2. CASE JoinVideoThread
    BY <2>1, <2>2 DEF JoinVideoThread
  <2>3. CASE KeepThread \/ StartThreadFails
    BY <2>1, <2>3 DEF KeepThread, StartThreadFails
  <2> QED
    BY <1>2, <2>2, <2>3
<1>3. CASE StartThread
  BY <1>3 DEF StartThread, Begin
<1>4. CASE Destroy
  BY <1>4 DEF Destroy, captureVars
<1>5. CASE UserStep
  BY <1>5 DEF UserStep, Click, ClickWithoutStream, CloseWindow, vars, captureVars
<1>6. CASE Runs(SessionStep)
  BY <1>6, SessionKeeps DEF Runs, guiVars
<1>7. CASE UNCHANGED appVars
  BY <1>7 DEF appVars, guiVars, vars, captureVars
<1> QED
  BY <1>1, <1>2, <1>3, <1>4, <1>5, <1>6, <1>7 DEF AppNext, GuiStep

AppInv == Phases /\ Finished /\ Handler

LEMMA AppInvariant == AppSpec => []AppInv
<1>1. AppInit => AppInv
  BY DEF AppInit, Init, CaptureInit, AppInv, Phases, Finished, Handler,
         OneSession, Active, Started, VideoSteps, KeySteps, ReaderSteps,
         EncoderSteps, GuiSteps, Ended
<1>2. AppInv /\ [AppNext]_appVars => AppInv'
  <2> SUFFICES ASSUME AppInv, [AppNext]_appVars PROVE AppInv'
    OBVIOUS
  <2>1. [Next]_vars
    BY StepMaps DEF AppInv, Handler
  <2> QED
    BY <2>1, PhasesStep, FinishedStep, HandlerStep DEF AppInv
<1> QED
  BY <1>1, <1>2, PTL DEF AppSpec

-----------------------------------------------------------------------------
(* The program runs the pipeline: what a click, a join or the closing of the
   window does to a session is something its environment may do. *)
THEOREM AppRunsPipeline == AppSpec => Spec
<1>1. AppInit => Init
  BY DEF AppInit
<1>2. AppInv /\ [AppNext]_appVars => [Next]_vars
  BY StepMaps DEF AppInv, Handler
<1> QED
  BY <1>1, <1>2, AppInvariant, PTL DEF AppSpec, Spec

(* Every variable of the program keeps its type. *)
THEOREM AppTypeCorrect == AppSpec => []AppTypeOK
<1>1. AppInv /\ TypeOK => AppTypeOK
  BY DEF AppInv, Handler, AppTypeOK
<1> QED
  BY <1>1, AppInvariant, AppRunsPipeline, TypeCorrect, PTL

(* The program never has two sessions, nor one it could not join. *)
THEOREM OneSessionAtATime == AppSpec => []OneSession
<1>1. AppInv => OneSession
  BY DEF AppInv, Handler
<1> QED
  BY <1>1, AppInvariant, PTL

(* A button that offers Start is telling the truth. *)
THEOREM StartIsHonest == AppSpec => []StartMeansStopped
<1>1. AppInv => StartMeansStopped
  BY DEF AppInv, Handler, OneSession, Active, Phases, Finished, Started,
         StartMeansStopped
<1> QED
  BY <1>1, AppInvariant, PTL

(* A process that exits normally has finished its file and let go of the
   camera. *)
THEOREM ExitsClean == AppSpec => []ExitIsClean
<1>1. AppInv => ExitIsClean
  BY DEF AppInv, Handler, OneSession, Active, Phases, Finished, Started,
         ExitIsClean
<1> QED
  BY <1>1, AppInvariant, PTL
==============================================================================
