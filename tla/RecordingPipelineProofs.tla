----------------------- MODULE RecordingPipelineProofs -----------------------
(***************************************************************************)
(* Proofs about RecordingPipeline, for any bound on the frames of a        *)
(* session.                                                                *)
(***************************************************************************)
EXTENDS RecordingPipeline, SequenceTheorems, FiniteSetTheorems, TLAPS

Started ==
  {"joinKey", "joinReader", "joinEncoder", "close", "cleanup", "return"}

(* How far the threads can be, and what is open, at each point of the call. *)
Phases ==
  /\ vpc \in VideoSteps
  /\ kpc \in KeySteps /\ rpc \in ReaderSteps /\ epc \in EncoderSteps
  /\ vpc \notin Started => kpc = "none" /\ rpc = "none" /\ epc = "none"
  /\ vpc \in Started \ {"joinKey"} => kpc = "done"
  /\ vpc \in Started \ {"joinKey", "joinReader"} => rpc = "done"
  /\ vpc \in {"close", "cleanup", "return"} => epc = "done"
  /\ camera = IF vpc \in {"returned", "open", "camera", "abandon", "return"}
              THEN FALSE ELSE TRUE
  /\ mIsOpen = IF vpc \in {"returned", "open", "cleanup", "return"}
               THEN FALSE ELSE TRUE

(* The parts of a step, each with the actions that make it up. *)
LEMMA StepCases ==
  ASSUME [Next]_vars
  PROVE  \/ Begin
         \/ \E on \in BOOLEAN : SetRecording(on)
         \/ OpenEncoder \/ OpenFails \/ InitializeCamera \/ CameraFails
         \/ Abandon \/ SpawnThreads
         \/ JoinKeyListener \/ JoinReader \/ JoinEncoder
         \/ CloseEncoder \/ CleanupCamera \/ Return
         \/ KeyThread
         \/ ReaderThread
         \/ EncoderLoopStep /\ UNCHANGED <<vpc, encoder, session>>
         \/ WriteFrame /\ Write(data) /\ UNCHANGED <<vpc, mIsOpen, container, session>>
         \/ UNCHANGED vars
BY DEF Next, SessionStep, OwnerStep, VideoStep, EncoderThread

LEMMA PhasesStep ==
  ASSUME Phases, [Next]_vars
  PROVE  Phases'
<1> USE DEF Phases, Started, VideoSteps, KeySteps, ReaderSteps, EncoderSteps,
            vars, captureVars, threads, frames, encoder, session
<1>1. CASE Begin \/ \E on \in BOOLEAN : SetRecording(on)
  BY <1>1 DEF Begin, SetRecording
<1>2. CASE OpenEncoder \/ OpenFails \/ InitializeCamera \/ CameraFails
  BY <1>2 DEF OpenEncoder, OpenFails, InitializeCamera, CameraFails
<1>3. CASE Abandon \/ CloseEncoder
  BY <1>3 DEF Abandon, CloseEncoder, Close
<1>4. CASE SpawnThreads \/ CleanupCamera \/ Return
  BY <1>4 DEF SpawnThreads, StartThreads, CleanupCamera, Return
<1>5. CASE JoinKeyListener \/ JoinReader \/ JoinEncoder
  BY <1>5 DEF JoinKeyListener, JoinReader, JoinEncoder
<1>6. CASE KeyThread
  BY <1>6 DEF KeyThread, KeyStep, KeyCheck, KeyOther, KeyQ
<1>7. CASE ReaderThread
  BY <1>7 DEF ReaderThread, ReaderStep, ReaderMoves, ReaderCheck, ReaderLoop,
              ReadNothing, ReadFrame, NotifyObserver, PushFrame
<1>8. CASE EncoderLoopStep /\ UNCHANGED <<vpc, encoder, session>>
  BY <1>8 DEF EncoderLoopStep, EncoderMoves, EncoderCheck, EncoderEmpty,
              PopFrame, FreeFrame
<1>9. CASE WriteFrame /\ UNCHANGED <<vpc, mIsOpen, container, session>>
  BY <1>9 DEF WriteFrame, EncoderMoves
<1>10. CASE UNCHANGED vars
  BY <1>10
<1> QED
  BY StepCases, <1>1, <1>2, <1>3, <1>4, <1>5, <1>6, <1>7, <1>8, <1>9, <1>10

LEMMA PhasesInvariant == Spec => []Phases
<1>1. Init => Phases
  BY DEF Init, CaptureInit, Phases, Started, VideoSteps, KeySteps,
         ReaderSteps, EncoderSteps
<1>2. Phases /\ [Next]_vars => Phases'
  BY PhasesStep
<1> QED
  BY <1>1, <1>2, PTL DEF Spec

(* The joins keep the camera and the encoder open for as long as a thread may
   use them, and the function leaves neither open. *)
THEOREM ResourcesSafe == Spec => []ResourcesOutliveThreads
<1>1. Phases => ResourcesOutliveThreads
  BY DEF Phases, Started, ResourcesOutliveThreads, Active, VideoSteps
<1> QED
  BY <1>1, PhasesInvariant, PTL

-----------------------------------------------------------------------------
(* An encoder that is not open has nothing in its codec, and the file it last
   wrote, if frames went into it, has its trailer. *)
Finished ==
  ~mIsOpen => /\ codec = {}
              /\ container # "recording"
              /\ file # {} => container = "final"

LEMMA CloseFinishes ==
  ASSUME Finished, mIsOpen, Close
  PROVE  Finished'
BY DEF Close, Finished

LEMMA FinishedStep ==
  ASSUME Phases, Finished, [Next]_vars
  PROVE  Finished'
<1>1. CASE OpenEncoder \/ OpenFails
  BY <1>1 DEF OpenEncoder, OpenFails, Finished
<1>2. CASE Abandon \/ CloseEncoder
  <2>1. mIsOpen /\ Close
    BY <1>2 DEF Abandon, CloseEncoder, Phases, VideoSteps
  <2> QED
    BY <2>1, CloseFinishes
<1>3. CASE /\ WriteFrame /\ Write(data)
           /\ UNCHANGED <<vpc, mIsOpen, container, session>>
  <2>1. CASE mIsOpen
    BY <1>3, <2>1 DEF Finished
  <2>2. CASE ~mIsOpen
    <3>1. UNCHANGED <<codec, file, container, mIsOpen>>
      BY <1>3, <2>2 DEF Write, TakePts
    <3> QED
      BY <3>1 DEF Finished
  <2> QED
    BY <2>1, <2>2
<1>4. CASE UNCHANGED <<mIsOpen, codec, file, container>>
  BY <1>4 DEF Finished
<1>5. \/ OpenEncoder \/ OpenFails \/ Abandon \/ CloseEncoder
      \/ /\ WriteFrame /\ Write(data)
         /\ UNCHANGED <<vpc, mIsOpen, container, session>>
      \/ UNCHANGED <<mIsOpen, codec, file, container>>
  BY StepCases
  DEF Begin, SetRecording, InitializeCamera, CameraFails, SpawnThreads,
      JoinKeyListener, JoinReader, JoinEncoder, CleanupCamera, Return,
      KeyThread, ReaderThread, vars, encoder
<1> QED
  BY <1>1, <1>2, <1>3, <1>4, <1>5

(* Whatever fails on the way, a session that has returned leaves no file
   without its trailer once frames went in, and nothing in the codec. *)
THEOREM FilesFinished == Spec => []FileFinished
<1>1. Init => Finished
  BY DEF Init, Finished
<1>2. Phases /\ Finished /\ [Next]_vars => Finished'
  BY FinishedStep
<1>3. Phases /\ Finished => FileFinished
  BY DEF Phases, Finished, FileFinished, Active
<1> QED
  BY <1>1, <1>2, <1>3, PhasesInvariant, PTL DEF Spec

-----------------------------------------------------------------------------
(* Every pts used up, every frame in the queue or in a thread's hands is a
   frame captured in this session; so none of them outgrows MaxFrames. *)
Writing == IF epc = "write" THEN 1 ELSE 0
Reading == IF rpc \in {"notify", "push"} THEN 1 ELSE 0

Counted ==
  /\ frame_index + Len(frameQueue) + Writing + Reading <= captured
  /\ epc = "write" => data \in Frames

(* The typing of everything Phases does not speak of. *)
DataOK ==
  /\ m_recording \in BOOLEAN /\ rearmed \in BOOLEAN
  /\ frameQueue \in Seq(Frames) /\ abandoned \in Seq(Frames)
  /\ captured \in 0..MaxFrames /\ data \in 0..MaxFrames
  /\ frame_index \in 0..MaxFrames
  /\ live \in SUBSET Frames /\ dropped \in SUBSET Frames
  /\ codec \in SUBSET Packets /\ file \in SUBSET Packets
  /\ container \in Containers

TInv == Phases /\ DataOK /\ Counted

(* What the codec turns frames into keeps its type. *)
LEMMA FramesOfPackets ==
  ASSUME NEW P \in SUBSET Packets
  PROVE  FramesOf(P) \in SUBSET Frames
BY DEF FramesOf, Packets

LEMMA CloseType ==
  ASSUME DataOK, Close
  PROVE  /\ file' \in SUBSET Packets /\ codec' \in SUBSET Packets
         /\ dropped' \in SUBSET Frames
         /\ container' \in Containers
         /\ frame_index' = frame_index
<1>1. PICK out \in SUBSET codec :
        /\ file' = file \cup out
        /\ dropped' = dropped \cup FramesOf(codec \ out)
  BY DEF Close
<1>2. codec \ out \in SUBSET Packets
  BY DEF DataOK
<1>3. FramesOf(codec \ out) \in SUBSET Frames
  BY <1>2, FramesOfPackets
<1> QED
  BY <1>1, <1>3 DEF DataOK, Close, Containers

LEMMA WriteType ==
  ASSUME DataOK, frame_index \in 0..MaxFrames - 1, data \in Frames, Write(data)
  PROVE  /\ file' \in SUBSET Packets /\ codec' \in SUBSET Packets
         /\ dropped' \in SUBSET Frames
         /\ frame_index' \in {frame_index, frame_index + 1}
<1>1. CASE /\ dropped' = dropped \cup {data}
           /\ UNCHANGED <<codec, file>>
           /\ frame_index' \in {frame_index, frame_index + 1}
  BY <1>1 DEF DataOK
<1>2. CASE /\ TakePts
           /\ LET in == codec \cup {[frame |-> data, pts |-> frame_index]}
              IN  \E out \in SUBSET in : \E lost \in SUBSET (in \ out) :
                    FlushPackets(in, out, lost)
  <2> DEFINE in == codec \cup {[frame |-> data, pts |-> frame_index]}
  <2>1. in \in SUBSET Packets
    BY DEF DataOK, Packets
  <2>2. PICK out \in SUBSET in :
          \E lost \in SUBSET (in \ out) : FlushPackets(in, out, lost)
    BY <1>2
  <2>3. PICK lost \in SUBSET (in \ out) : FlushPackets(in, out, lost)
    BY <2>2
  <2>4. FramesOf(lost) \in SUBSET Frames
    BY <2>1, FramesOfPackets
  <2> HIDE DEF in
  <2> QED
    BY <1>2, <2>1, <2>2, <2>3, <2>4 DEF DataOK, FlushPackets, TakePts
<1> QED
  BY <1>1, <1>2 DEF Write, TakePts

LEMMA DataStep ==
  ASSUME TInv, [Next]_vars
  PROVE  DataOK' /\ Counted'
<1> DEFINE Good == DataOK' /\ Counted'
<1> USE DEF TInv, DataOK, Counted, Writing, Reading,
        vars, captureVars, threads, frames, encoder, session
<1>l. Len(frameQueue) \in Nat
  BY LenProperties
<1>1. CASE Begin
  <2>1. /\ frameQueue' \in Seq(Frames) /\ abandoned' \in Seq(Frames)
        /\ Len(frameQueue') = 0
        /\ captured' \in 0..MaxFrames /\ frame_index' \in 0..MaxFrames
    BY <1>1, EmptySeq, MaxFramesAssumption DEF Begin
  <2>2. rpc' = "none" /\ epc' = "none" /\ data' = data
    BY <1>1 DEF Begin, Phases, Started
  <2>3. DataOK'
    BY <1>1, <2>1 DEF Begin
  <2>4. frame_index' = 0 /\ captured' = 0
    BY <1>1 DEF Begin
  <2>5. Counted'
    BY <2>1, <2>2, <2>4
  <2> QED
    BY <2>3, <2>5
<1>2. ASSUME NEW on \in BOOLEAN, SetRecording(on) PROVE Good
  BY <1>2 DEF SetRecording
<1>3. CASE OpenEncoder
  <2>1. /\ frame_index' = 0 /\ file' = {} /\ container' = "recording"
        /\ UNCHANGED <<captureVars, codec, dropped, session>>
    BY <1>3 DEF OpenEncoder
  <2>2. 0 \in 0..MaxFrames /\ {} \in SUBSET Packets
    BY MaxFramesAssumption
  <2>3. DataOK'
    BY <2>1, <2>2 DEF Containers
  <2>4. /\ frameQueue' = frameQueue /\ captured' = captured /\ data' = data
        /\ epc' = epc /\ rpc' = rpc
    BY <2>1
  <2>5. frame_index \in Nat /\ captured \in Nat
    BY MaxFramesAssumption
  <2>6. /\ frame_index + Len(frameQueue) + Writing + Reading <= captured
        /\ epc = "write" => data \in Frames
    BY Zenon
  <2>7. Writing' = Writing /\ Reading' = Reading
    BY <2>4
  <2>8. Writing \in Nat /\ Reading \in Nat
    OBVIOUS
  <2>9. Counted'
    <3> HIDE DEF Writing, Reading, DataOK, Counted, TInv
    <3>1. 0 + Len(frameQueue) + Writing + Reading <= captured
      BY <2>5, <2>6, <2>8, <1>l
    <3>2. Len(frameQueue') = Len(frameQueue)
      BY <2>4
    <3> QED
      BY <2>1, <2>4, <2>6, <2>7, <3>1, <3>2 DEF Counted
  <2> QED
    BY <2>3, <2>9
<1>4. CASE OpenFails
  BY <1>4 DEF OpenFails, Containers
<1>5. CASE InitializeCamera \/ CameraFails
  BY <1>5 DEF InitializeCamera, CameraFails
<1>6. CASE Abandon
  BY <1>6, CloseType DEF Abandon
<1>7. CASE SpawnThreads
  BY <1>7 DEF SpawnThreads, StartThreads, Phases, Started
<1>8. CASE JoinKeyListener \/ JoinReader \/ JoinEncoder
  BY <1>8 DEF JoinKeyListener, JoinReader, JoinEncoder
<1>9. CASE CloseEncoder
  BY <1>9, CloseType DEF CloseEncoder
<1>10. CASE CleanupCamera \/ Return
  <2>1. CASE CleanupCamera
    BY <2>1 DEF CleanupCamera
  <2>2. CASE Return
    <3>1. frameQueue' \in Seq(Frames) /\ Len(frameQueue') = 0
      BY <2>2, EmptySeq DEF Return
    <3> QED
      BY <2>2, <1>l, <3>1 DEF Return
  <2> QED
    BY <1>10, <2>1, <2>2
<1>11. CASE KeyThread
  BY <1>11 DEF KeyThread, KeyStep, KeyCheck, KeyOther, KeyQ
<1>12. CASE ReaderThread
  <2>1. CASE ReaderCheck \/ ReaderLoop \/ ReadNothing \/ NotifyObserver
    BY <1>12, <2>1, <1>l DEF ReaderThread, ReaderMoves, ReaderCheck,
       ReaderLoop, ReadNothing, NotifyObserver
  <2>2. CASE ReadFrame
    BY <1>12, <2>2, <1>l, MaxFramesAssumption
    DEF ReaderThread, ReaderMoves, ReadFrame, Frames
  <2>3. CASE PushFrame
    <3>1. captured \in Frames
      BY <2>3, <1>l, MaxFramesAssumption DEF PushFrame, ReaderMoves, Frames
    <3>2. /\ Append(frameQueue, captured) \in Seq(Frames)
          /\ Len(Append(frameQueue, captured)) = Len(frameQueue) + 1
      BY <3>1, AppendProperties
    <3> QED
      BY <1>12, <2>3, <1>l, <3>1, <3>2
      DEF ReaderThread, ReaderMoves, PushFrame
  <2> QED
    BY <1>12, <2>1, <2>2, <2>3 DEF ReaderThread, ReaderStep
<1>13. CASE EncoderLoopStep /\ UNCHANGED <<vpc, encoder, session>>
  <2>1. CASE EncoderCheck \/ EncoderEmpty
    BY <1>13, <2>1, <1>l DEF EncoderMoves, EncoderCheck, EncoderEmpty
  <2>2. CASE PopFrame
    <3>1. /\ Head(frameQueue) \in Frames /\ Tail(frameQueue) \in Seq(Frames)
          /\ Len(Tail(frameQueue)) = Len(frameQueue) - 1
      BY <2>2, HeadTailProperties DEF PopFrame
    <3>2. Frames \subseteq 0..MaxFrames
      BY MaxFramesAssumption DEF Frames
    <3>3. /\ frameQueue' = Tail(frameQueue) /\ data' = Head(frameQueue)
          /\ epc = "pop" /\ epc' = "write" /\ rpc' = rpc
          /\ UNCHANGED <<m_recording, captured, live, encoder, session>>
      BY <1>13, <2>2 DEF EncoderMoves, PopFrame
    <3>4. DataOK'
      BY <3>1, <3>2, <3>3
    <3>5. Counted'
      BY <3>1, <3>3, <1>l
    <3> QED
      BY <3>4, <3>5
  <2>3. CASE FreeFrame
    BY <1>13, <2>3, <1>l, MaxFramesAssumption DEF EncoderMoves, FreeFrame
  <2> QED
    BY <1>13, <2>1, <2>2, <2>3 DEF EncoderLoopStep
<1>14. CASE WriteFrame /\ Write(data) /\ UNCHANGED <<vpc, mIsOpen, container, session>>
  <2>1. frame_index \in 0..MaxFrames - 1 /\ data \in Frames
    BY <1>14, <1>l, MaxFramesAssumption DEF WriteFrame, EncoderMoves
  <2>2. /\ file' \in SUBSET Packets /\ codec' \in SUBSET Packets
        /\ dropped' \in SUBSET Frames
        /\ frame_index' \in {frame_index, frame_index + 1}
    BY <1>14, <2>1, WriteType
  <2> QED
    BY <1>14, <2>1, <2>2, <1>l, MaxFramesAssumption DEF WriteFrame, EncoderMoves
<1>15. CASE UNCHANGED vars
  BY <1>15
<1> QED
  BY StepCases, <1>1, <1>2, <1>3, <1>4, <1>5, <1>6, <1>7, <1>8, <1>9, <1>10,
     <1>11, <1>12, <1>13, <1>14, <1>15

LEMMA TypeInvariant == Spec => []TInv
<1>1. Init => TInv
  <2> SUFFICES ASSUME Init PROVE DataOK /\ Counted /\ Phases
    BY DEF TInv
  <2>1. <<>> \in Seq(Frames) /\ Len(<<>>) = 0
    BY EmptySeq
  <2>2. Counted
    BY <2>1 DEF Init, CaptureInit, Counted, Writing, Reading
  <2>z. 0 \in 0..MaxFrames
    BY MaxFramesAssumption
  <2>d. DataOK
    BY <2>1, <2>z DEF Init, CaptureInit, DataOK, Containers
  <2>3. Phases
    BY DEF Init, CaptureInit, Phases, Started, VideoSteps, KeySteps,
           ReaderSteps, EncoderSteps
  <2> QED
    BY <2>2, <2>d, <2>3
<1>2. TInv /\ [Next]_vars => TInv'
  BY DataStep, PhasesStep DEF TInv
<1> QED
  BY <1>1, <1>2, PTL DEF Spec

(* The variables keep their types through every session. *)
THEOREM TypeCorrect == Spec => []TypeOK
<1>1. TInv => TypeOK
  BY DEF TInv, Phases, DataOK, TypeOK, CaptureTypeOK
<1> QED
  BY <1>1, TypeInvariant, PTL

-----------------------------------------------------------------------------
(***************************************************************************)
(* At most one frame is left behind.  While nobody sets m_recording again, *)
(* an encoder thread that has got past its load of m_recording knows it is *)
(* off; so once it has found the queue empty, only the frame the reader    *)
(* already had in flight can still arrive, and the reader takes no other.  *)
(***************************************************************************)
InFlight == IF rpc \in {"read", "notify", "push"} THEN 1 ELSE 0

Stopping ==
  /\ ~rearmed /\ epc \in {"empty", "done"} => ~m_recording
  /\ ~rearmed /\ epc = "done" => Len(frameQueue) + InFlight <= 1
  /\ ~rearmed => Len(abandoned) <= 1

LEMMA StoppingStep ==
  ASSUME TInv, Stopping, [Next]_vars
  PROVE  Stopping'
<1> USE DEF Stopping, InFlight
<1>q. frameQueue \in Seq(Frames)
  BY DEF TInv, DataOK
<1>l. Len(frameQueue) \in Nat
  BY <1>q, LenProperties
<1>f. m_recording \in BOOLEAN /\ rearmed \in BOOLEAN
  BY DEF TInv, DataOK
<1>1. CASE Begin
  <2>1. Len(abandoned') = 0
    BY <1>1, EmptySeq DEF Begin
  <2>2. epc' = "none"
    BY <1>1 DEF Begin, TInv, Phases, Started, threads
  <2> QED
    BY <2>1, <2>2
<1>2. ASSUME NEW on \in BOOLEAN, SetRecording(on) PROVE Stopping'
  <2>1. CASE Active
    BY <1>2, <1>f, <2>1 DEF SetRecording, frames, threads
  <2>2. CASE ~Active
    <3>1. epc = "none"
      BY <2>2 DEF Active, TInv, Phases, Started
    <3> QED
      BY <1>2, <1>f, <3>1, <2>2 DEF SetRecording, frames, threads
  <2> QED
    BY <2>1, <2>2
<1>3. CASE OpenEncoder \/ OpenFails \/ InitializeCamera \/ CameraFails
  BY <1>3 DEF OpenEncoder, OpenFails, InitializeCamera, CameraFails,
              captureVars, threads, frames, session
<1>4. CASE Abandon \/ CloseEncoder
  BY <1>4 DEF Abandon, CloseEncoder, captureVars, threads, frames, session
<1>5. CASE SpawnThreads
  BY <1>5 DEF SpawnThreads, StartThreads, frames, session
<1>6. CASE JoinKeyListener \/ JoinReader \/ JoinEncoder
  BY <1>6 DEF JoinKeyListener, JoinReader, JoinEncoder,
              captureVars, threads, frames, session
<1>7. CASE CleanupCamera \/ Return
  <2>1. CASE CleanupCamera
    BY <2>1 DEF CleanupCamera, captureVars, threads, frames
  <2>2. CASE Return
    <3>1. epc = "done" /\ rpc = "done"
      BY <2>2 DEF Return, TInv, Phases, Started
    <3>2. ~rearmed => Len(frameQueue) <= 1
      BY <3>1, <1>l
    <3>3. epc' = "none" /\ rearmed' = rearmed /\ abandoned' = frameQueue
      BY <2>2 DEF Return
    <3> QED
      BY <3>2, <3>3
  <2> QED
    BY <1>7, <2>1, <2>2
<1>8. CASE KeyThread
  BY <1>8, <1>f DEF KeyThread, KeyStep, KeyCheck, KeyOther, KeyQ, frames, session
<1>9. CASE ReaderThread
  <2>0. UNCHANGED <<m_recording, epc, abandoned, rearmed>>
    BY <1>9 DEF ReaderThread, ReaderStep, ReaderMoves, ReaderCheck, ReaderLoop,
                ReadNothing, ReadFrame, NotifyObserver, PushFrame, session
  <2>1. ASSUME ~rearmed, epc = "done"
        PROVE  Len(frameQueue') + InFlight' <= 1
    <3>1. ~m_recording /\ Len(frameQueue) + InFlight <= 1
      BY <2>1
    <3>2. CASE ReaderCheck \/ ReaderLoop \/ ReadNothing \/ ReadFrame \/ NotifyObserver
      BY <3>1, <3>2, <1>l DEF ReaderMoves, ReaderCheck, ReaderLoop,
         ReadNothing, ReadFrame, NotifyObserver, frames
    <3>3. CASE PushFrame
      <4>1. captured \in Frames
        BY <3>3, <1>l, MaxFramesAssumption
        DEF TInv, DataOK, Counted, Writing, Reading, PushFrame, ReaderMoves, Frames
      <4>2. Len(frameQueue') = Len(frameQueue) + 1
        BY <3>3, <1>q, <4>1, AppendProperties DEF PushFrame
      <4>3. rpc = "push" /\ rpc' = "check"
        BY <3>3 DEF PushFrame, ReaderMoves
      <4> QED
        BY <3>1, <4>2, <4>3, <1>l
    <3> QED
      BY <1>9, <3>2, <3>3 DEF ReaderThread, ReaderStep
  <2> QED
    BY <2>0, <2>1
<1>10. CASE EncoderLoopStep /\ UNCHANGED <<vpc, encoder, session>>
  <2>0. UNCHANGED <<m_recording, rpc, abandoned, rearmed>>
    BY <1>10 DEF EncoderLoopStep, EncoderMoves, EncoderCheck, EncoderEmpty,
                 PopFrame, FreeFrame, session
  <2>1. CASE EncoderCheck
    BY <2>0, <2>1, <1>f DEF EncoderCheck, EncoderMoves
  <2>2. CASE EncoderEmpty
    <3>1. epc = "empty" /\ frameQueue' = frameQueue
      BY <2>2 DEF EncoderEmpty, EncoderMoves
    <3>2. epc' = "done" => Len(frameQueue) = 0
      BY <2>2, EmptySeq DEF EncoderEmpty, EncoderMoves
    <3>3. epc' \in {"done", "pop"}
      BY <2>2 DEF EncoderEmpty, EncoderMoves
    <3> QED
      BY <2>0, <3>1, <3>2, <3>3
  <2>3. CASE PopFrame \/ FreeFrame
    <3>1. epc' \in {"write", "check"}
      BY <2>3 DEF PopFrame, FreeFrame, EncoderMoves
    <3> QED
      BY <2>0, <3>1
  <2> QED
    BY <1>10, <2>1, <2>2, <2>3 DEF EncoderLoopStep
<1>11. CASE WriteFrame /\ UNCHANGED <<vpc, mIsOpen, container, session>>
  BY <1>11 DEF WriteFrame, EncoderMoves, session
<1>12. CASE UNCHANGED vars
  BY <1>12 DEF vars, captureVars, threads, frames, session
<1> QED
  BY StepCases, <1>1, <1>2, <1>3, <1>4, <1>5, <1>6, <1>7, <1>8, <1>9,
     <1>10, <1>11, <1>12

(* Stopping loses at most the frame the reader had in flight. *)
THEOREM LossBounded == Spec => []AtMostOneFrameLost
<1>1. Init => Stopping
  BY EmptySeq DEF Init, CaptureInit, Stopping
<1>2. TInv /\ Stopping /\ [Next]_vars => Stopping'
  BY StoppingStep
<1>3. Stopping => AtMostOneFrameLost
  BY DEF Stopping, AtMostOneFrameLost
<1> QED
  BY <1>1, <1>2, <1>3, TypeInvariant, PTL DEF Spec

-----------------------------------------------------------------------------
(* The single frames: in which order they go through a session, where each of
   them is, and who owns its buffer. *)

(* Frames are captured, pushed and popped one after the other: so many have
   been popped, and so many handed to Write. *)
Popped == captured - Reading - Len(frameQueue)
Handed == Popped - Writing

(* The queue holds the frames after the popped ones, in order; the encoder
   holds the last popped one.  Outside of a session the queue is empty, and
   nothing is left over before the end of one. *)
Line ==
  /\ \A i \in 1..Len(frameQueue) : frameQueue[i] = Popped + i
  /\ epc \in {"write", "free"} => data = Popped
  /\ vpc \notin Started => frameQueue = <<>>
  /\ Active => abandoned = <<>>

LEMMA Counts ==
  ASSUME TInv
  PROVE  /\ frameQueue \in Seq(Frames) /\ Len(frameQueue) \in Nat
         /\ captured \in Nat /\ captured <= MaxFrames
         /\ frame_index \in Nat /\ Reading \in 0..1 /\ Writing \in 0..1
         /\ Popped \in Nat /\ Handed \in Nat
         /\ Popped + Len(frameQueue) + Reading = captured
         /\ Handed + Writing = Popped
<1>1. /\ frameQueue \in Seq(Frames) /\ Len(frameQueue) \in Nat
      /\ captured \in Nat /\ captured <= MaxFrames
      /\ frame_index \in Nat
      /\ frame_index + Len(frameQueue) + Writing + Reading <= captured
  BY LenProperties, MaxFramesAssumption DEF TInv, DataOK, Counted
<1>2. Reading \in 0..1 /\ Writing \in 0..1
  BY DEF Reading, Writing
<1> HIDE DEF TInv
<1>3. /\ Popped = (captured - Reading) - Len(frameQueue)
      /\ Handed = Popped - Writing
  BY DEF Popped, Handed
<1> QED
  BY <1>1, <1>2, <1>3

(* Steps that move no frame between the reader, the queue and the encoder. *)
LEMMA LineRests ==
  ASSUME Line, UNCHANGED <<frameQueue, captured, data>>,
         abandoned' = abandoned \/ vpc' = "returned",
         Reading' = Reading,
         epc' \in {"write", "free"} => epc \in {"write", "free"},
         vpc' \notin Started => vpc \notin Started \/ frameQueue = <<>>,
         vpc' # "returned" => Active
  PROVE  Line'
<1>1. Popped' = Popped
  BY DEF Popped
<1> HIDE DEF Popped, Reading
<1> QED
  BY <1>1 DEF Line, Active

LEMMA LineReader ==
  ASSUME TInv, Line, ReaderThread
  PROVE  Line' /\ Popped' = Popped
<1>1. UNCHANGED <<vpc, epc, data, abandoned>>
  BY DEF ReaderThread, ReaderStep, ReaderMoves, ReaderCheck, ReaderLoop,
         ReadNothing, ReadFrame, NotifyObserver, PushFrame, session, frames
<1>2. CASE ReaderCheck \/ ReaderLoop \/ ReadNothing \/ NotifyObserver
  <2>1. UNCHANGED <<frameQueue, captured>> /\ Reading' = Reading
    BY <1>2 DEF ReaderMoves, ReaderCheck, ReaderLoop, ReadNothing,
                NotifyObserver, frames, Reading
  <2>2. Popped' = Popped
    BY <2>1 DEF Popped
  <2> QED
    BY <1>1, <2>1, <2>2, LineRests DEF Active
<1>3. CASE ReadFrame
  <2>1. /\ captured' = captured + 1 /\ frameQueue' = frameQueue
        /\ Reading = 0 /\ Reading' = 1
    BY <1>3 DEF ReaderMoves, ReadFrame, Reading
  <2>2. Popped' = Popped
    BY <2>1, Counts DEF Popped
  <2> QED
    BY <1>1, <2>1, <2>2 DEF Line, Active
<1>4. CASE PushFrame
  <2>1. /\ frameQueue' = Append(frameQueue, captured) /\ captured' = captured
        /\ Reading = 1 /\ Reading' = 0 /\ rpc = "push"
    BY <1>4 DEF ReaderMoves, PushFrame, Reading
  <2>2. captured = (Popped + Len(frameQueue)) + 1 /\ captured \in Frames
    BY <2>1, Counts DEF Frames
  <2>3. /\ Len(frameQueue') = Len(frameQueue) + 1
        /\ \A i \in 1..Len(frameQueue) : frameQueue'[i] = frameQueue[i]
        /\ frameQueue'[Len(frameQueue) + 1] = captured
    BY <2>1, <2>2, Counts, AppendProperties
  <2>4. Popped' = Popped
    BY <2>1, <2>3, Counts DEF Popped
  <2> HIDE DEF Popped
  <2>5. ASSUME NEW i \in 1..Len(frameQueue')
        PROVE  frameQueue'[i] = Popped + i
    <3>1. i \in 1..Len(frameQueue) \/ i = Len(frameQueue) + 1
      BY <2>3, Counts
    <3>2. CASE i \in 1..Len(frameQueue)
      BY <2>3, <3>2 DEF Line
    <3>3. CASE i = Len(frameQueue) + 1
      BY <2>2, <2>3, <3>3, Counts
    <3> QED
      BY <3>1, <3>2, <3>3
  <2>6. vpc \in Started
    BY <2>1 DEF TInv, Phases
  <2> QED
    BY <1>1, <2>4, <2>5, <2>6 DEF Line, Active
<1> QED
  BY <1>2, <1>3, <1>4 DEF ReaderThread, ReaderStep

LEMMA LinePop ==
  ASSUME TInv, Line, PopFrame, UNCHANGED <<vpc, session>>
  PROVE  Line' /\ Popped' = Popped + 1 /\ data' = Popped + 1
<1>1. /\ frameQueue # <<>> /\ frameQueue' = Tail(frameQueue)
      /\ data' = Head(frameQueue) /\ captured' = captured /\ rpc' = rpc
      /\ epc = "pop" /\ epc' = "write"
  BY DEF PopFrame, EncoderMoves
<1>2. Reading' = Reading
  BY <1>1 DEF Reading
<1>3. /\ Len(frameQueue) \in Nat \ {0} /\ Head(frameQueue) = frameQueue[1]
      /\ Len(frameQueue') = Len(frameQueue) - 1
      /\ \A i \in 1..Len(frameQueue') : frameQueue'[i] = frameQueue[i + 1]
  BY <1>1, Counts, HeadTailProperties, EmptySeq
<1>4. Popped' = Popped + 1
  BY <1>1, <1>2, <1>3, Counts DEF Popped
<1> HIDE DEF Popped
<1>5. data' = Popped + 1
  <2>1. 1 \in 1..Len(frameQueue)
    BY <1>3
  <2> QED
    BY <1>1, <1>3, <2>1 DEF Line
<1>6. ASSUME NEW i \in 1..Len(frameQueue')
      PROVE  frameQueue'[i] = (Popped + 1) + i
  <2>1. i + 1 \in 1..Len(frameQueue)
    BY <1>3
  <2>2. frameQueue'[i] = Popped + (i + 1)
    BY <1>3, <2>1 DEF Line
  <2> QED
    BY <2>2, Counts
<1>7. vpc \in Started
  BY <1>1 DEF TInv, Phases
<1> QED
  BY <1>1, <1>4, <1>5, <1>6, <1>7 DEF Line, Active, session

LEMMA LineStep ==
  ASSUME TInv, Line, [Next]_vars
  PROVE  Line'
<1>1. CASE Begin
  <2>1. /\ frameQueue' = <<>> /\ Len(frameQueue') = 0 /\ abandoned' = <<>>
        /\ epc' = "none"
    BY <1>1, EmptySeq DEF Begin, threads, TInv, Phases, Started
  <2> QED
    BY <2>1 DEF Line
<1>2. CASE Return
  <2>1. /\ frameQueue' = <<>> /\ Len(frameQueue') = 0 /\ vpc' = "returned"
        /\ epc' = "none"
    BY <1>2, EmptySeq DEF Return
  <2> QED
    BY <2>1 DEF Line, Active
<1>3. CASE \/ \E on \in BOOLEAN : SetRecording(on)
           \/ OpenEncoder \/ OpenFails \/ InitializeCamera \/ CameraFails
           \/ Abandon \/ SpawnThreads
           \/ JoinKeyListener \/ JoinReader \/ JoinEncoder
           \/ CloseEncoder \/ CleanupCamera
           \/ KeyThread
           \/ UNCHANGED vars
  <2> USE DEF SetRecording, OpenEncoder, OpenFails, InitializeCamera,
        CameraFails, Abandon, SpawnThreads, StartThreads, JoinKeyListener,
        JoinReader, JoinEncoder, CloseEncoder, CleanupCamera, KeyThread,
        KeyStep, KeyCheck, KeyOther, KeyQ, vars, captureVars, threads, frames,
        session
  <2>1. UNCHANGED <<frameQueue, captured, data, abandoned>>
    BY <1>3
  <2>2. /\ vpc' \notin Started => vpc \notin Started
        /\ vpc' # "returned" => Active
    BY <1>3 DEF Started, Active
  <2>3. /\ epc' = epc \/ epc' = "check"
        /\ rpc' = rpc \/ (rpc = "none" /\ rpc' = "check")
    BY <1>3 DEF TInv, Phases, Started
  <2>4. Reading' = Reading
    BY <2>3 DEF Reading
  <2> QED
    BY <2>1, <2>2, <2>3, <2>4, LineRests
<1>4. CASE ReaderThread
  BY <1>4, LineReader
<1>5. CASE EncoderLoopStep /\ UNCHANGED <<vpc, encoder, session>>
  <2>1. CASE PopFrame
    BY <1>5, <2>1, LinePop
  <2>2. CASE EncoderCheck \/ EncoderEmpty
    <3>1. /\ UNCHANGED <<frameQueue, captured, data, abandoned, vpc, rpc>>
          /\ epc' \in {"pop", "empty", "done"}
      BY <1>5, <2>2 DEF EncoderCheck, EncoderEmpty, EncoderMoves, session
    <3>2. Reading' = Reading
      BY <3>1 DEF Reading
    <3> QED
      BY <3>1, <3>2, LineRests DEF Active
  <2>3. CASE FreeFrame
    <3>1. /\ UNCHANGED <<frameQueue, captured, abandoned, vpc, rpc>>
          /\ epc' = "check"
      BY <1>5, <2>3 DEF FreeFrame, EncoderMoves, session
    <3>2. Popped' = Popped
      BY <3>1 DEF Popped, Reading
    <3> HIDE DEF Popped
    <3> QED
      BY <3>1, <3>2 DEF Line, Active
  <2> QED
    BY <1>5, <2>1, <2>2, <2>3 DEF EncoderLoopStep
<1>6. CASE /\ WriteFrame /\ Write(data)
           /\ UNCHANGED <<vpc, mIsOpen, container, session>>
  <2>1. /\ UNCHANGED <<frameQueue, captured, data, abandoned, vpc, rpc>>
        /\ epc = "write"
    BY <1>6 DEF WriteFrame, EncoderMoves, session
  <2>2. Reading' = Reading
    BY <2>1 DEF Reading
  <2> QED
    BY <2>1, <2>2, LineRests DEF Active
<1> QED
  BY StepCases, <1>1, <1>2, <1>3, <1>4, <1>5, <1>6
-----------------------------------------------------------------------------
(* A step that moves no frame into or out of the encoder's hands. *)
Rests ==
  /\ UNCHANGED <<mIsOpen, frame_index, codec, file, dropped, abandoned>>
  /\ \/ captured' = captured
     \/ captured' = captured + 1 /\ vpc \in Started /\ vpc' = vpc
  /\ Active' /\ vpc' \notin Started => Active /\ vpc \notin Started

(* What each step does to the number of frames handed to Write. *)
LEMMA HandedSteps ==
  ASSUME TInv, Line, [Next]_vars
  PROVE  \/ Begin
         \/ Return /\ Handed' = captured
         \/ /\ WriteFrame /\ Write(data)
            /\ UNCHANGED <<vpc, mIsOpen, container, session>>
            /\ Handed' = Handed + 1 /\ data = Handed + 1
         \/ Handed' = Handed /\ (OpenEncoder \/ OpenFails)
         \/ Handed' = Handed /\ mIsOpen = TRUE /\ (Abandon \/ CloseEncoder)
         \/ Handed' = Handed /\ Rests
<1>1. CASE Begin
  BY <1>1
<1>2. CASE Return
  <2>1. /\ Len(frameQueue') = 0 /\ rpc' = "none" /\ epc' = "none"
        /\ captured' = captured
    BY <1>2, EmptySeq DEF Return
  <2>2. Reading' = 0 /\ Writing' = 0
    BY <2>1 DEF Reading, Writing
  <2>3. Handed' = captured
    <3>1. Handed' = ((captured' - Reading') - Len(frameQueue')) - Writing'
      BY DEF Handed, Popped
    <3> QED
      BY <2>1, <2>2, <3>1, Counts
  <2> QED
    BY <1>2, <2>3
<1>3. CASE \/ \E on \in BOOLEAN : SetRecording(on)
           \/ OpenEncoder \/ OpenFails \/ InitializeCamera \/ CameraFails
           \/ Abandon \/ SpawnThreads
           \/ JoinKeyListener \/ JoinReader \/ JoinEncoder
           \/ CloseEncoder \/ CleanupCamera
           \/ KeyThread
           \/ UNCHANGED vars
  <2> USE DEF SetRecording, OpenEncoder, OpenFails, InitializeCamera,
        CameraFails, Abandon, SpawnThreads, StartThreads, JoinKeyListener,
        JoinReader, JoinEncoder, CloseEncoder, CleanupCamera, KeyThread,
        KeyStep, KeyCheck, KeyOther, KeyQ, vars, captureVars, threads, frames,
        session, encoder
  <2>1. UNCHANGED <<frameQueue, captured>>
    BY <1>3
  <2>2. /\ epc' = epc \/ (epc = "none" /\ epc' = "check")
        /\ rpc' = rpc \/ (rpc = "none" /\ rpc' = "check")
    BY <1>3 DEF TInv, Phases, Started
  <2>3. Handed' = Handed
    BY <2>1, <2>2 DEF Handed, Popped, Reading, Writing
  <2>4. \/ OpenEncoder \/ OpenFails
        \/ Abandon \/ CloseEncoder
        \/ Rests
    BY <1>3 DEF Rests, Active, Started
  <2>5. Abandon \/ CloseEncoder => mIsOpen = TRUE
    BY DEF TInv, Phases
  <2> QED
    BY <2>3, <2>4, <2>5
<1>4. CASE ReaderThread
  <2>1. Popped' = Popped
    BY <1>4, LineReader
  <2>2. /\ epc' = epc /\ UNCHANGED <<encoder, session, vpc>>
        /\ captured' = captured \/ (rpc = "read" /\ captured' = captured + 1)
    BY <1>4
    DEF ReaderThread, ReaderStep, ReaderMoves, ReaderCheck, ReaderLoop,
        ReadNothing, ReadFrame, NotifyObserver, PushFrame, frames
  <2>3. rpc = "read" => vpc \in Started
    BY DEF TInv, Phases
  <2>4. Rests
    BY <2>2, <2>3 DEF Rests, encoder, session, Active
  <2> QED
    BY <2>1, <2>2, <2>4 DEF Handed, Writing
<1>5. CASE EncoderLoopStep /\ UNCHANGED <<vpc, encoder, session>>
  <2>0. Rests
    BY <1>5 DEF EncoderLoopStep, EncoderMoves, EncoderCheck, EncoderEmpty,
                PopFrame, FreeFrame, encoder, session, Rests, Active
  <2>1. CASE PopFrame
    <3>1. Popped' = Popped + 1 /\ Writing = 0 /\ Writing' = 1
      BY <1>5, <2>1, LinePop DEF PopFrame, EncoderMoves, Writing
    <3>2. Handed' = Handed
      BY <3>1, Counts DEF Handed
    <3> QED
      BY <2>0, <3>2
  <2>2. CASE EncoderCheck \/ EncoderEmpty \/ FreeFrame
    <3>1. Handed' = Handed
      BY <2>2 DEF EncoderCheck, EncoderEmpty, FreeFrame, EncoderMoves, Handed,
                  Popped, Reading, Writing
    <3> QED
      BY <2>0, <3>1
  <2> QED
    BY <1>5, <2>1, <2>2 DEF EncoderLoopStep
<1>6. CASE /\ WriteFrame /\ Write(data)
           /\ UNCHANGED <<vpc, mIsOpen, container, session>>
  <2>1. Popped' = Popped /\ Writing = 1 /\ Writing' = 0
    BY <1>6 DEF WriteFrame, EncoderMoves, Popped, Reading, Writing
  <2>2. data = Popped
    BY <1>6 DEF WriteFrame, EncoderMoves, Line
  <2>3. Handed' = Handed + 1 /\ data = Handed + 1
    BY <2>1, <2>2, Counts DEF Handed
  <2> QED
    BY <1>6, <2>3
<1> QED
  BY StepCases, <1>1, <1>2, <1>3, <1>4, <1>5, <1>6

(* Packets are numbered as their frames are, and all of them, while the
   encoder is open, come before what is still to be written. *)
Packed ==
  /\ \A p, q \in codec \cup file : p.frame < q.frame <=> p.pts < q.pts
  /\ mIsOpen => \A p \in codec \cup file :
                  p.frame <= Handed /\ p.pts < frame_index

LEMMA PacketsAreNumbers ==
  ASSUME TInv
  PROVE  \A p \in codec \cup file :
           p \in Packets /\ p.frame \in Nat /\ p.pts \in Nat
BY MaxFramesAssumption DEF TInv, DataOK, Packets, Frames

(* What Write may do while the encoder is open. *)
LEMMA WriteOutcome ==
  ASSUME Write(data)
  PROVE  \/ /\ dropped' = dropped \cup {data}
            /\ UNCHANGED <<codec, file>>
            /\ frame_index' = frame_index \/ frame_index' = frame_index + 1
         \/ LET in == codec \cup {[frame |-> data, pts |-> frame_index]}
            IN  /\ frame_index' = frame_index + 1
                /\ \E out \in SUBSET in : \E lost \in SUBSET (in \ out) :
                     /\ file' = file \cup out
                     /\ codec' = in \ (out \cup lost)
                     /\ dropped' = dropped \cup FramesOf(lost)
BY DEF Write, TakePts, FlushPackets

LEMMA PackedWrite ==
  ASSUME TInv, Packed, WriteFrame, Write(data), mIsOpen' = mIsOpen,
         Handed' = Handed + 1, data = Handed + 1
  PROVE  Packed'
<1>1. mIsOpen = TRUE
  BY DEF WriteFrame, EncoderMoves, TInv, Phases, Started
<1>2. Handed \in Nat /\ frame_index \in Nat
  BY Counts
<1>3. \A p \in codec \cup file : p.frame \in Nat /\ p.pts \in Nat
  BY PacketsAreNumbers
<1>4. \A p \in codec \cup file : p.frame <= Handed /\ p.pts < frame_index
  BY <1>1 DEF Packed
<1> DEFINE new == [frame |-> data, pts |-> frame_index]
<1>5. new.frame = Handed + 1 /\ new.pts = frame_index
  OBVIOUS
<1>6. /\ codec' \cup file' \subseteq (codec \cup file) \cup {new}
      /\ \/ frame_index' = frame_index + 1
         \/ frame_index' = frame_index /\ UNCHANGED <<codec, file>>
  BY WriteOutcome
<1> HIDE DEF new
<1>7. \A p, q \in (codec \cup file) \cup {new} :
        p.frame < q.frame <=> p.pts < q.pts
  BY <1>2, <1>3, <1>4, <1>5 DEF Packed
<1>8. \A p \in (codec \cup file) \cup {new} :
        p.frame <= Handed + 1 /\ p.pts < frame_index + 1
  BY <1>2, <1>3, <1>4, <1>5
<1>9. \A p \in codec' \cup file' : p.frame <= Handed' /\ p.pts < frame_index'
  <2>1. CASE frame_index' = frame_index + 1
    BY <1>6, <1>8, <2>1
  <2>2. CASE frame_index' = frame_index /\ UNCHANGED <<codec, file>>
    BY <1>2, <1>3, <1>4, <2>2
  <2> QED
    BY <1>6, <2>1, <2>2
<1> QED
  BY <1>6, <1>7, <1>9 DEF Packed

LEMMA PackedStep ==
  ASSUME TInv, Finished, Line, Packed, [Next]_vars
  PROVE  Packed'
<1>1. CASE Begin
  BY <1>1 DEF Begin, TInv, Phases, Packed
<1>2. CASE Return
  BY <1>2 DEF Return, TInv, Phases, Packed, encoder
<1>3. CASE OpenEncoder \/ OpenFails
  <2>1. codec = {} /\ codec' = codec
    BY <1>3 DEF OpenEncoder, OpenFails, TInv, Phases, Finished
  <2>2. CASE OpenEncoder
    <3>1. codec' \cup file' = {}
      BY <2>1, <2>2 DEF OpenEncoder
    <3> QED
      BY <3>1 DEF Packed
  <2>3. CASE OpenFails
    <3>1. mIsOpen' = FALSE /\ codec' \cup file' \subseteq codec \cup file
      BY <2>1, <2>3 DEF OpenFails, TInv, Phases
    <3> QED
      BY <3>1 DEF Packed
  <2> QED
    BY <1>3, <2>2, <2>3
<1>4. CASE Abandon \/ CloseEncoder
  <2>1. codec' \cup file' \subseteq codec \cup file /\ mIsOpen' = FALSE
    BY <1>4 DEF Abandon, CloseEncoder, Close
  <2> QED
    BY <2>1 DEF Packed
<1>5. CASE /\ WriteFrame /\ Write(data)
           /\ UNCHANGED <<vpc, mIsOpen, container, session>>
           /\ Handed' = Handed + 1 /\ data = Handed + 1
  BY <1>5, PackedWrite
<1>6. CASE Handed' = Handed /\ Rests
  BY <1>6 DEF Packed, Rests
<1> QED
  BY HandedSteps, <1>1, <1>2, <1>3, <1>4, <1>5, <1>6

(* Two pieces of a run of consecutive numbers, one after the other. *)
LEMMA RunsJoin ==
  ASSUME NEW s \in Seq(Nat), NEW t \in Seq(Nat), NEW k \in Nat,
         \A i \in 1..Len(s) : s[i] = k + i,
         \A i \in 1..Len(t) : t[i] = (k + Len(s)) + i
  PROVE  /\ s \o t \in Seq(Nat) /\ Len(s \o t) = Len(s) + Len(t)
         /\ \A i \in 1..Len(s \o t) : (s \o t)[i] = k + i
<1>1. /\ s \o t \in Seq(Nat) /\ Len(s \o t) = Len(s) + Len(t)
      /\ \A i \in 1..(Len(s) + Len(t)) :
           (s \o t)[i] = IF i <= Len(s) THEN s[i] ELSE t[i - Len(s)]
  BY ConcatProperties
<1>2. Len(s) \in Nat /\ Len(t) \in Nat
  BY LenProperties
<1>3. ASSUME NEW i \in 1..(Len(s) + Len(t))
      PROVE  (s \o t)[i] = k + i
  <2>1. CASE i <= Len(s)
    <3>1. i \in 1..Len(s) /\ (s \o t)[i] = s[i]
      BY <1>1, <1>2, <2>1
    <3> QED
      BY <3>1
  <2>2. CASE ~(i <= Len(s))
    <3>1. i - Len(s) \in 1..Len(t) /\ (s \o t)[i] = t[i - Len(s)]
      BY <1>1, <1>2, <2>2
    <3>2. (k + Len(s)) + (i - Len(s)) = k + i
      BY <1>2
    <3> QED
      BY <3>1, <3>2
  <2> QED
    BY <2>1, <2>2
<1> QED
  BY <1>1, <1>3

LEMMA OnTheWayIsARun ==
  ASSUME TInv, Line
  PROVE  \A i \in 1..Len(OnTheWay) : OnTheWay[i] = Handed + i
<1> DEFINE a == IF epc = "write" THEN <<data>> ELSE <<>>
           b == IF rpc \in {"notify", "push"} THEN <<captured>> ELSE <<>>
<1>1. /\ a \in Seq(Nat) /\ Len(a) = Writing
      /\ \A i \in 1..Len(a) : a[i] = Handed + i
  <2>1. CASE epc = "write"
    <3>1. data = Handed + 1 /\ Writing = 1
      BY <2>1, Counts DEF Line, Handed, Writing
    <3>2. a = <<data>> /\ data \in Nat
      BY <2>1, <3>1, Counts
    <3>3. a \in Seq(Nat) /\ Len(a) = 1 /\ a[1] = data
      BY <3>2
    <3> HIDE DEF a
    <3> QED
      BY <3>1, <3>3
  <2>2. CASE epc # "write"
    <3>1. Writing = 0 /\ a = <<>>
      BY <2>2 DEF Writing
    <3> HIDE DEF a
    <3> QED
      BY <3>1, EmptySeq
  <2> QED
    BY <2>1, <2>2
<1>2. /\ b \in Seq(Nat) /\ Len(b) = Reading
      /\ \A i \in 1..Len(b) : b[i] = (Popped + Len(frameQueue)) + i
  <2>1. CASE rpc \in {"notify", "push"}
    <3>1. captured = (Popped + Len(frameQueue)) + 1 /\ Reading = 1
      BY <2>1, Counts DEF Reading
    <3>2. b = <<captured>> /\ captured \in Nat
      BY <2>1, Counts
    <3>3. b \in Seq(Nat) /\ Len(b) = 1 /\ b[1] = captured
      BY <3>2
    <3> HIDE DEF b
    <3> QED
      BY <3>1, <3>3
  <2>2. CASE rpc \notin {"notify", "push"}
    <3>1. Reading = 0 /\ b = <<>>
      BY <2>2 DEF Reading
    <3> HIDE DEF b
    <3> QED
      BY <3>1, EmptySeq
  <2> QED
    BY <2>1, <2>2
<1>3. /\ frameQueue \in Seq(Nat)
      /\ \A i \in 1..Len(frameQueue) : frameQueue[i] = Popped + i
  BY Counts DEF Line, Frames
<1> HIDE DEF a, b
<1>4. /\ Handed \in Nat /\ Popped \in Nat /\ Handed + Writing = Popped
      /\ Len(frameQueue) \in Nat
  BY Counts
<1>5. /\ a \o frameQueue \in Seq(Nat)
      /\ Len(a \o frameQueue) = Writing + Len(frameQueue)
      /\ \A i \in 1..Len(a \o frameQueue) : (a \o frameQueue)[i] = Handed + i
  BY <1>1, <1>3, <1>4, RunsJoin
<1>6. Handed + Len(a \o frameQueue) = Popped + Len(frameQueue)
  BY <1>4, <1>5, Counts
<1> DEFINE c == a \o frameQueue
<1> HIDE DEF c
<1>7. \A i \in 1..Len(c \o b) : (c \o b)[i] = Handed + i
  <2>1. /\ c \in Seq(Nat) /\ \A i \in 1..Len(c) : c[i] = Handed + i
        /\ Handed + Len(c) = Popped + Len(frameQueue)
    BY <1>5, <1>6 DEF c
  <2>2. \A i \in 1..Len(b) : b[i] = (Handed + Len(c)) + i
    BY <1>2, <2>1
  <2> QED
    BY <1>2, <1>4, <2>1, <2>2, RunsJoin
<1>8. OnTheWay = c \o b
  BY DEF OnTheWay, a, b, c
<1> QED
  BY <1>7, <1>8

FramesInv == TInv /\ Finished /\ Line /\ Packed

LEMMA FramesInvariant == Spec => []FramesInv
<1>1. Init => Finished
  BY DEF Init, Finished
<1>2. Init => Line
  <2> SUFFICES ASSUME Init
               PROVE  Line
    OBVIOUS
  <2>1. Len(frameQueue) = 0
    BY EmptySeq DEF Init, CaptureInit
  <2> QED
    BY <2>1 DEF Init, CaptureInit, Line, Active
<1>3. Init => Packed
  BY DEF Init, Packed
<1>4. TInv /\ Finished /\ Line /\ Packed /\ [Next]_vars =>
        Finished' /\ Line' /\ Packed'
  BY FinishedStep, LineStep, PackedStep DEF TInv
<1> QED
  BY <1>1, <1>2, <1>3, <1>4, TypeInvariant, PTL DEF Spec, FramesInv

(* Frames go to the encoder in the order of their capture, their pts grow
   with them, and what is still on its way is later than what was written. *)
THEOREM OrderIsKept == Spec => []CaptureOrder
<1>1. FramesInv => CaptureOrder
  <2> SUFFICES ASSUME FramesInv
               PROVE  CaptureOrder
    OBVIOUS
  <2>0. Handed \in Nat
    BY Counts DEF FramesInv
  <2>1. \A i \in 1..Len(OnTheWay) : OnTheWay[i] = Handed + i
    BY OnTheWayIsARun DEF FramesInv
  <2>2. Ascending(OnTheWay)
    <3> SUFFICES ASSUME NEW i \in 1..Len(OnTheWay),
                        NEW j \in 1..Len(OnTheWay), i < j
                 PROVE  OnTheWay[i] < OnTheWay[j]
      BY DEF Ascending
    <3> QED
      BY <2>0, <2>1
  <2>3. ASSUME mIsOpen, NEW p \in codec \cup file
        PROVE  /\ \A i \in 1..Len(OnTheWay) : p.frame < OnTheWay[i]
               /\ p.pts < frame_index
    <3>1. p.frame <= Handed /\ p.pts < frame_index /\ p.frame \in Nat
      BY <2>3, PacketsAreNumbers DEF FramesInv, Packed
    <3> QED
      BY <2>0, <2>1, <3>1
  <2>4. \A p, q \in codec \cup file : p.frame < q.frame <=> p.pts < q.pts
    BY DEF FramesInv, Packed
  <2> QED
    BY <2>2, <2>3, <2>4 DEF CaptureOrder
<1> QED
  BY <1>1, FramesInvariant, PTL

-----------------------------------------------------------------------------
(* Every allocated buffer has its place: with the reader, in the queue, with
   the encoder, or in the queue that was left over. *)
Owned ==
  live = ((ReadersFrame \cup Range(frameQueue)) \cup EncodersFrame)
           \cup Range(abandoned)

(* The queue, as a set, is an interval. *)
InQueue == (Popped + 1)..(Popped + Len(frameQueue))

LEMMA RunIsInterval ==
  ASSUME NEW q \in Seq(Frames), NEW k \in Nat,
         \A i \in 1..Len(q) : q[i] = k + i
  PROVE  Range(q) = (k + 1)..(k + Len(q))
<1>1. DOMAIN q = 1..Len(q) /\ Len(q) \in Nat
  BY LenProperties
<1>2. Range(q) = {q[i] : i \in 1..Len(q)}
  BY <1>1 DEF Range
<1>3. ASSUME NEW f \in (k + 1)..(k + Len(q))
      PROVE  f \in Range(q)
  <2>1. f - k \in 1..Len(q) /\ k + (f - k) = f
    BY <1>1
  <2> QED
    BY <1>2, <2>1
<1>4. \A i \in 1..Len(q) : q[i] \in (k + 1)..(k + Len(q))
  BY <1>1
<1> QED
  BY <1>2, <1>3, <1>4

LEMMA QueueIsInterval ==
  ASSUME TInv, Line
  PROVE  Range(frameQueue) = InQueue
BY Counts, RunIsInterval DEF Line, InQueue

LEMMA PartsLeft ==
  ASSUME NEW i \in Nat, NEW l \in Nat, NEW w \in Nat, NEW r \in Nat,
         NEW c \in Nat, i + l + w + r <= c
  PROVE  (c - r) - l \in Nat
OBVIOUS

LEMMA NextQueueIsInterval ==
  ASSUME TInv, Line, [Next]_vars
  PROVE  Range(frameQueue') = InQueue'
<1>1. TInv' /\ Line'
  BY DataStep, PhasesStep, LineStep DEF TInv
<1>2. /\ frameQueue' \in Seq(Frames) /\ captured' \in Nat
      /\ frame_index' \in Nat /\ Writing' \in Nat /\ Reading' \in Nat
      /\ frame_index' + Len(frameQueue') + Writing' + Reading' <= captured'
  BY <1>1, MaxFramesAssumption DEF TInv, DataOK, Counted, Writing, Reading
<1>3. Popped' \in Nat
  <2>1. Popped' = (captured' - Reading') - Len(frameQueue')
    BY DEF Popped
  <2>2. Len(frameQueue') \in Nat
    BY <1>2, LenProperties
  <2> QED
    BY <1>2, <2>1, <2>2, PartsLeft
<1>4. \A i \in 1..Len(frameQueue') : frameQueue'[i] = Popped' + i
  BY <1>1 DEF Line
<1> QED
  BY <1>2, <1>3, <1>4, RunIsInterval DEF InQueue

LEMMA EmptyRange == Range(<<>>) = {}
BY DEF Range

(* Where the frames that are not yet written, or not yet freed, are. *)
LEMMA HandsAreNumbers ==
  ASSUME TInv, Line
  PROVE  /\ Range(frameQueue) = InQueue
         /\ ReadersFrame = IF Reading = 1 THEN {captured} ELSE {}
         /\ EncodersFrame = IF epc \in {"write", "free"} THEN {Popped} ELSE {}
         /\ Active => Range(abandoned) = {}
<1>1. ReadersFrame = IF Reading = 1 THEN {captured} ELSE {}
  BY DEF ReadersFrame, Reading
<1>2. EncodersFrame = IF epc \in {"write", "free"} THEN {Popped} ELSE {}
  BY DEF EncodersFrame, Line
<1> QED
  BY <1>1, <1>2, QueueIsInterval, EmptyRange DEF Line

LEMMA OwnedStep ==
  ASSUME TInv, Line, Owned, [Next]_vars
  PROVE  Owned'
<1>1. CASE Begin
  <2>1. /\ live' = {} /\ frameQueue' = <<>> /\ abandoned' = <<>>
        /\ rpc' = "none" /\ epc' = "none"
    BY <1>1 DEF Begin, threads, TInv, Phases, Started
  <2> QED
    BY <2>1, EmptyRange DEF Owned, ReadersFrame, EncodersFrame
<1>2. CASE Return
  <2>1. /\ live' = live /\ frameQueue' = <<>> /\ abandoned' = frameQueue
        /\ rpc' = "none" /\ epc' = "none" /\ Active
        /\ rpc = "done" /\ epc = "done"
    BY <1>2 DEF Return, Active, TInv, Phases, Started
  <2>2. Range(abandoned) = {}
    BY <2>1, EmptyRange DEF Line
  <2> QED
    BY <2>1, <2>2, EmptyRange DEF Owned, ReadersFrame, EncodersFrame
<1>3. CASE UNCHANGED <<live, frameQueue, abandoned, ReadersFrame,
                       EncodersFrame>>
  BY <1>3 DEF Owned
<1>4. CASE \/ \E on \in BOOLEAN : SetRecording(on)
           \/ OpenEncoder \/ OpenFails \/ InitializeCamera \/ CameraFails
           \/ Abandon \/ SpawnThreads
           \/ JoinKeyListener \/ JoinReader \/ JoinEncoder
           \/ CloseEncoder \/ CleanupCamera
           \/ KeyThread
           \/ UNCHANGED vars
  <2> USE DEF SetRecording, OpenEncoder, OpenFails, InitializeCamera,
        CameraFails, Abandon, SpawnThreads, StartThreads, JoinKeyListener,
        JoinReader, JoinEncoder, CloseEncoder, CleanupCamera, KeyThread,
        KeyStep, KeyCheck, KeyOther, KeyQ, vars, captureVars, threads, frames,
        session
  <2>1. UNCHANGED <<frameQueue, captured, data, live, abandoned>>
    BY <1>4
  <2>2. /\ epc' = epc \/ (epc = "none" /\ epc' = "check")
        /\ rpc' = rpc \/ (rpc = "none" /\ rpc' = "check")
    BY <1>4 DEF TInv, Phases, Started
  <2>3. ReadersFrame' = ReadersFrame /\ EncodersFrame' = EncodersFrame
    BY <2>1, <2>2 DEF ReadersFrame, EncodersFrame
  <2> QED
    BY <1>3, <2>1, <2>3
<1>5. CASE ReaderThread
  <2>0. UNCHANGED <<epc, data, abandoned, vpc>>
    BY <1>5 DEF ReaderThread, ReaderStep, ReaderMoves, ReaderCheck,
                ReaderLoop, ReadNothing, ReadFrame, NotifyObserver, PushFrame,
                session, frames
  <2>1. EncodersFrame' = EncodersFrame
    BY <2>0 DEF EncodersFrame
  <2>2. CASE ReaderCheck \/ ReaderLoop \/ ReadNothing \/ NotifyObserver
    BY <1>3, <2>0, <2>1, <2>2
    DEF ReaderMoves, ReaderCheck, ReaderLoop, ReadNothing, NotifyObserver,
        frames, ReadersFrame
  <2>3. CASE ReadFrame
    <3>1. /\ live' = live \cup {captured + 1} /\ captured' = captured + 1
          /\ frameQueue' = frameQueue /\ rpc = "read" /\ rpc' = "notify"
      BY <2>3 DEF ReadFrame, ReaderMoves
    <3>2. ReadersFrame = {} /\ ReadersFrame' = {captured + 1}
      BY <3>1 DEF ReadersFrame
    <3> QED
      BY <2>0, <2>1, <3>1, <3>2 DEF Owned
  <2>4. CASE PushFrame
    <3>1. /\ live' = live /\ captured' = captured
          /\ frameQueue' = Append(frameQueue, captured)
          /\ rpc = "push" /\ rpc' = "check"
      BY <2>4 DEF PushFrame, ReaderMoves
    <3>2. ReadersFrame = {captured} /\ ReadersFrame' = {}
      BY <3>1 DEF ReadersFrame
    <3>3. Range(frameQueue') = Range(frameQueue) \cup {captured}
      <4>1. Popped' = Popped
        BY <1>5, LineReader
      <4>2. captured = (Popped + Len(frameQueue)) + 1 /\ captured \in Frames
        BY <3>1, Counts DEF Reading, Frames
      <4>3. Len(frameQueue') = Len(frameQueue) + 1
        BY <3>1, <4>2, Counts, AppendProperties
      <4>4. Range(frameQueue') = InQueue'
        BY NextQueueIsInterval
      <4>5. Popped \in Nat /\ Len(frameQueue) \in Nat
        BY Counts
      <4> HIDE DEF Popped
      <4>6. InQueue' = InQueue \cup {captured}
        BY <4>1, <4>2, <4>3, <4>5 DEF InQueue
      <4> QED
        BY <4>4, <4>6, QueueIsInterval
    <3> QED
      BY <2>0, <2>1, <3>1, <3>2, <3>3 DEF Owned
  <2> QED
    BY <1>5, <2>2, <2>3, <2>4 DEF ReaderThread, ReaderStep
<1>6. CASE EncoderLoopStep /\ UNCHANGED <<vpc, encoder, session>>
  <2>0. UNCHANGED <<rpc, captured, abandoned, vpc>>
    BY <1>6 DEF EncoderLoopStep, EncoderMoves, EncoderCheck, EncoderEmpty,
                PopFrame, FreeFrame, session
  <2>1. ReadersFrame' = ReadersFrame
    BY <2>0 DEF ReadersFrame
  <2>2. CASE EncoderCheck \/ EncoderEmpty
    BY <1>3, <2>0, <2>1, <2>2
    DEF EncoderMoves, EncoderCheck, EncoderEmpty, EncodersFrame
  <2>3. CASE PopFrame
    <3>1. /\ live' = live /\ epc = "pop" /\ epc' = "write"
          /\ frameQueue # <<>> /\ frameQueue' = Tail(frameQueue)
      BY <2>3 DEF PopFrame, EncoderMoves
    <3>2. Popped' = Popped + 1 /\ data' = Popped + 1
      BY <1>6, <2>3, LinePop
    <3>3. EncodersFrame = {} /\ EncodersFrame' = {Popped + 1}
      BY <3>1, <3>2 DEF EncodersFrame
    <3>4. Range(frameQueue) = Range(frameQueue') \cup {Popped + 1}
      <4>1. /\ Len(frameQueue) \in Nat \ {0}
            /\ Len(frameQueue') = Len(frameQueue) - 1
        BY <3>1, Counts, HeadTailProperties, EmptySeq
      <4>2. Range(frameQueue') = InQueue' /\ Range(frameQueue) = InQueue
        BY QueueIsInterval, NextQueueIsInterval
      <4>3. Popped \in Nat
        BY Counts
      <4> HIDE DEF Popped
      <4>4. InQueue = InQueue' \cup {Popped + 1}
        BY <3>2, <4>1, <4>3 DEF InQueue
      <4> QED
        BY <4>2, <4>4
    <3> QED
      BY <2>0, <2>1, <3>1, <3>3, <3>4 DEF Owned
  <2>4. CASE FreeFrame
    <3>1. /\ live' = live \ {data} /\ epc = "free" /\ epc' = "check"
          /\ frameQueue' = frameQueue
      BY <2>4 DEF FreeFrame, EncoderMoves
    <3>2. data = Popped /\ EncodersFrame = {data} /\ EncodersFrame' = {}
      BY <3>1 DEF EncodersFrame, Line
    <3>3. Active
      BY <3>1 DEF Active, TInv, Phases, Started
    <3>4. Popped \in Nat /\ Popped + Len(frameQueue) + Reading = captured
      BY Counts
    <3>5. /\ data \notin Range(frameQueue) /\ data \notin ReadersFrame
          /\ Range(abandoned) = {}
      <4>1. Len(frameQueue) \in Nat
        BY Counts
      <4> HIDE DEF Popped
      <4> QED
        BY <3>2, <3>3, <3>4, <4>1, HandsAreNumbers DEF InQueue
    <3> QED
      BY <2>0, <2>1, <3>1, <3>2, <3>5 DEF Owned
  <2> QED
    BY <1>6, <2>2, <2>3, <2>4 DEF EncoderLoopStep
<1>7. CASE /\ WriteFrame /\ Write(data)
           /\ UNCHANGED <<vpc, mIsOpen, container, session>>
  BY <1>3, <1>7 DEF WriteFrame, EncoderMoves, ReadersFrame, EncodersFrame,
                    session
<1> QED
  BY StepCases, <1>1, <1>2, <1>4, <1>5, <1>6, <1>7

LEMMA UnionOfFour ==
  ASSUME NEW a, NEW b, NEW c, NEW d
  PROVE  UNION Range(<<a, b, c, d>>) = ((a \cup b) \cup c) \cup d
<1> DEFINE s == <<a, b, c, d>>
<1>1. Range(s) = {a, b, c, d}
  <2>1. DOMAIN s = {1, 2, 3, 4}
    OBVIOUS
  <2>2. s[1] = a /\ s[2] = b /\ s[3] = c /\ s[4] = d
    OBVIOUS
  <2> HIDE DEF s
  <2> QED
    BY <2>1, <2>2 DEF Range
<1> QED
  BY <1>1

(* No buffer is in two places, none is used after it was freed, and every one
   that is allocated still has an owner. *)
THEOREM BuffersAreOwned == Spec => []BufferOwnership
<1>1. Init => Owned
  BY EmptyRange DEF Init, CaptureInit, Owned, ReadersFrame, EncodersFrame
<1>2. TInv /\ Line /\ Owned /\ [Next]_vars => Owned'
  BY OwnedStep
<1>3. TInv /\ Line /\ Owned => BufferOwnership
  <2> SUFFICES ASSUME TInv, Line, Owned
               PROVE  BufferOwnership
    OBVIOUS
  <2> DEFINE places == <<ReadersFrame, Range(frameQueue), EncodersFrame,
                         Range(abandoned)>>
  <2>1. live = UNION Range(places)
    BY UnionOfFour DEF Owned
  <2>2. /\ Popped \in Nat /\ Len(frameQueue) \in Nat
        /\ Popped + Len(frameQueue) + Reading = captured
    BY Counts
  <2>3. Cardinality(Range(frameQueue)) = Len(frameQueue)
    <3>1. Cardinality(InQueue) = Len(frameQueue)
      <4> HIDE DEF Popped
      <4>1. /\ Popped + 1 \in Int /\ Popped + Len(frameQueue) \in Int
        BY <2>2
      <4>2. Cardinality(InQueue) =
              IF Popped + 1 > Popped + Len(frameQueue) THEN 0
              ELSE ((Popped + Len(frameQueue)) - (Popped + 1)) + 1
        BY <4>1, FS_Interval DEF InQueue
      <4> QED
        BY <2>2, <4>2
    <3> QED
      BY <3>1, QueueIsInterval
  <2>4. /\ ReadersFrame \cap Range(frameQueue) = {}
        /\ ReadersFrame \cap EncodersFrame = {}
        /\ Range(frameQueue) \cap EncodersFrame = {}
    <3> HIDE DEF Popped
    <3> QED
      BY <2>2, HandsAreNumbers DEF InQueue
  <2>5. /\ ReadersFrame \cap Range(abandoned) = {}
        /\ Range(frameQueue) \cap Range(abandoned) = {}
        /\ EncodersFrame \cap Range(abandoned) = {}
    <3>1. CASE Active
      BY <3>1, HandsAreNumbers
    <3>2. CASE ~Active
      <4>1. frameQueue = <<>> /\ rpc = "none" /\ epc = "none"
        BY <3>2 DEF Active, Line, TInv, Phases, Started
      <4> QED
        BY <4>1, EmptyRange DEF ReadersFrame, EncodersFrame
    <3> QED
      BY <3>1, <3>2
  <2>6. \A i, j \in 1..4 : i # j => places[i] \cap places[j] = {}
    <3>1. /\ places[1] = ReadersFrame /\ places[2] = Range(frameQueue)
          /\ places[3] = EncodersFrame /\ places[4] = Range(abandoned)
      OBVIOUS
    <3> HIDE DEF places
    <3>2. \A i \in 1..4 : i = 1 \/ i = 2 \/ i = 3 \/ i = 4
      OBVIOUS
    <3> QED
      BY <2>4, <2>5, <3>1, <3>2
  <2> QED
    BY <2>1, <2>3, <2>6 DEF BufferOwnership
<1> QED
  BY <1>1, <1>2, <1>3, FramesInvariant, PTL DEF Spec, FramesInv

-----------------------------------------------------------------------------
(* The four places of a frame that was handed to Write or left over. *)
InOneOf(f, a, b, c, d) ==
  /\ f \in a \/ f \in b \/ f \in c \/ f \in d
  /\ ~(f \in a /\ f \in b) /\ ~(f \in a /\ f \in c) /\ ~(f \in a /\ f \in d)
  /\ ~(f \in b /\ f \in c) /\ ~(f \in b /\ f \in d) /\ ~(f \in c /\ f \in d)

InNoneOf(f, a, b, c, d) == f \notin a /\ f \notin b /\ f \notin c /\ f \notin d

(* What was handed to Write is in one of them, what was not is in none; no
   frame of a session exists before its encoder is open. *)
Placed ==
  /\ \A f \in 1..captured :
       /\ f <= Handed => InOneOf(f, FramesOf(codec), FramesOf(file), dropped,
                                 Range(abandoned))
       /\ f > Handed => InNoneOf(f, FramesOf(codec), FramesOf(file), dropped,
                                 Range(abandoned))
  /\ \A f \in dropped : f <= Handed
  /\ Active /\ vpc \notin Started => captured = 0

(* Packets that Write or Close moves: in the codec before, and after it in
   the file (out), lost, or still in the codec. *)
LEMMA PacketsSplit ==
  ASSUME NEW S \in SUBSET Packets,
         \A p, q \in S : p.frame < q.frame <=> p.pts < q.pts,
         NEW in \in SUBSET S, NEW old \in SUBSET S,
         NEW out \in SUBSET in, NEW lost \in SUBSET (in \ out),
         NEW c, NEW d, NEW f
  PROVE  LET rest == in \ (out \cup lost)
         IN  /\ InOneOf(f, FramesOf(in), FramesOf(old), c, d) =>
                  InOneOf(f, FramesOf(rest), FramesOf(old \cup out),
                          c \cup FramesOf(lost), d)
             /\ InNoneOf(f, FramesOf(in), FramesOf(old), c, d) =>
                  InNoneOf(f, FramesOf(rest), FramesOf(old \cup out),
                           c \cup FramesOf(lost), d)
<1> DEFINE rest == in \ (out \cup lost)
<1>1. \A P : f \in FramesOf(P) <=> \E p \in P : p.frame = f
  BY DEF FramesOf
<1>2. ASSUME NEW p \in S, NEW q \in S, p.frame = q.frame
      PROVE  p = q
  <2>1. /\ p \in Packets /\ q \in Packets
        /\ p.frame \in Nat /\ p.pts \in Nat /\ q.pts \in Nat
    BY MaxFramesAssumption DEF Packets, Frames
  <2>2. p.pts = q.pts
    BY <1>2, <2>1
  <2> QED
    BY <1>2, <2>1, <2>2 DEF Packets
<1>3. f \in FramesOf(in) <=>
        f \in FramesOf(rest) \/ f \in FramesOf(out) \/ f \in FramesOf(lost)
  BY <1>1
<1>4. /\ ~(f \in FramesOf(rest) /\ f \in FramesOf(out))
      /\ ~(f \in FramesOf(rest) /\ f \in FramesOf(lost))
      /\ ~(f \in FramesOf(out) /\ f \in FramesOf(lost))
  BY <1>1, <1>2
<1>5. f \in FramesOf(old \cup out) <=>
        f \in FramesOf(old) \/ f \in FramesOf(out)
  BY <1>1
<1> HIDE DEF rest
<1>6. /\ InOneOf(f, FramesOf(in), FramesOf(old), c, d) =>
           InOneOf(f, FramesOf(rest), FramesOf(old \cup out),
                   c \cup FramesOf(lost), d)
      /\ InNoneOf(f, FramesOf(in), FramesOf(old), c, d) =>
           InNoneOf(f, FramesOf(rest), FramesOf(old \cup out),
                    c \cup FramesOf(lost), d)
  BY <1>3, <1>4, <1>5 DEF InOneOf, InNoneOf
<1> QED
  BY <1>6 DEF rest

(* Write hands one more frame over: refused, lost, or among the packets. *)
LEMMA PlacedWrite ==
  ASSUME TInv, Line, Packed, Placed, WriteFrame, Write(data),
         UNCHANGED <<vpc, session>>, Handed' = Handed + 1, data = Handed + 1
  PROVE  Placed'
<1>1. /\ mIsOpen = TRUE /\ vpc \in Started /\ Active
      /\ captured' = captured /\ abandoned' = abandoned /\ vpc' = vpc
  BY DEF WriteFrame, EncoderMoves, TInv, Phases, Started, Active, session
<1>2. Handed \in Nat /\ captured \in Nat
  BY Counts
<1>3. /\ codec \cup file \in SUBSET Packets /\ dropped \in SUBSET Frames
      /\ \A p \in codec \cup file : p.frame \in Nat
      /\ data \in Frames /\ frame_index \in 0..MaxFrames - 1
  <2>1. epc = "write" /\ Writing = 1
    BY DEF WriteFrame, EncoderMoves, Writing
  <2>2. frame_index + Len(frameQueue) + 1 + Reading <= captured
    BY <2>1 DEF TInv, Counted
  <2>3. frame_index \in 0..MaxFrames - 1
    BY <2>2, Counts, MaxFramesAssumption
  <2> QED
    BY <2>1, <2>3, PacketsAreNumbers DEF TInv, DataOK, Counted
<1>4. Range(abandoned) = {}
  BY <1>1, HandsAreNumbers
<1> DEFINE new == [frame |-> data, pts |-> frame_index]
           in == codec \cup {new}
           S == (codec \cup file) \cup {new}
<1>5. FramesOf(in) = FramesOf(codec) \cup {data}
  <2>1. new.frame = data
    OBVIOUS
  <2> HIDE DEF new
  <2> QED
    BY <2>1 DEF FramesOf
<1>6. /\ S \in SUBSET Packets
      /\ \A p, q \in S : p.frame < q.frame <=> p.pts < q.pts
  <2>1. \A p \in codec \cup file :
          p.frame <= Handed /\ p.pts < frame_index /\ p.pts \in Nat
    BY <1>1, PacketsAreNumbers DEF Packed
  <2>2. new \in Packets /\ new.frame = Handed + 1 /\ new.pts = frame_index
    BY <1>3 DEF Packets
  <2>3. frame_index \in Nat
    BY Counts
  <2> HIDE DEF new
  <2>4. S \in SUBSET Packets
    BY <1>3, <2>2
  <2> QED
    BY <1>2, <1>3, <2>1, <2>2, <2>3, <2>4 DEF Packed
<1>7. /\ data \notin FramesOf(codec) /\ data \notin FramesOf(file)
      /\ data \notin dropped
  <2>1. \A p \in codec \cup file : p.frame <= Handed
    BY <1>1 DEF Packed
  <2>2. data \notin dropped
    BY <1>2 DEF Placed
  <2> QED
    BY <1>2, <1>3, <2>1, <2>2 DEF FramesOf
(* As if the frame had been refused, or had gone into the codec. *)
<1>8. ASSUME NEW f \in 1..captured
      PROVE  /\ f <= Handed + 1 =>
                  /\ InOneOf(f, FramesOf(codec), FramesOf(file),
                             dropped \cup {data}, Range(abandoned))
                  /\ InOneOf(f, FramesOf(in), FramesOf(file), dropped,
                             Range(abandoned))
             /\ f > Handed + 1 =>
                  /\ InNoneOf(f, FramesOf(codec), FramesOf(file),
                              dropped \cup {data}, Range(abandoned))
                  /\ InNoneOf(f, FramesOf(in), FramesOf(file), dropped,
                              Range(abandoned))
  <2>1. CASE f <= Handed
    <3>1. f # data
      BY <1>2, <2>1
    <3>2. InOneOf(f, FramesOf(codec), FramesOf(file), dropped,
                  Range(abandoned))
      BY <2>1 DEF Placed
    <3>3. f <= Handed + 1 /\ ~(f > Handed + 1)
      BY <1>2, <2>1
    <3> HIDE DEF in
    <3> QED
      BY <1>5, <3>1, <3>2, <3>3 DEF InOneOf
  <2>2. CASE f > Handed
    <3>1. InNoneOf(f, FramesOf(codec), FramesOf(file), dropped,
                   Range(abandoned))
      BY <2>2 DEF Placed
    <3>2. f = data <=> f <= Handed + 1
      BY <1>2, <2>2
    <3>3. f > Handed + 1 <=> f # data
      BY <1>2, <2>2
    <3> HIDE DEF in
    <3> QED
      BY <1>5, <3>1, <3>2, <3>3 DEF InOneOf, InNoneOf
  <2> QED
    BY <1>2, <2>1, <2>2
<1>9. ASSUME \A f \in dropped' : f \in dropped \/ f = data \/
               \E p \in in : p.frame = f
      PROVE  \A f \in dropped' : f <= Handed'
  <2>1. \A p \in in : p.frame <= Handed + 1
    <3>1. \A p \in codec : p.frame <= Handed
      BY <1>1 DEF Packed
    <3>2. new.frame = Handed + 1
      OBVIOUS
    <3> HIDE DEF new
    <3> QED
      BY <1>2, <1>3, <3>1, <3>2
  <2>2. \A f \in dropped : f <= Handed /\ f \in Nat
    BY <1>3 DEF Placed, Frames
  <2> HIDE DEF in
  <2> QED
    BY <1>2, <1>9, <2>1, <2>2
<1>10. CASE dropped' = dropped \cup {data} /\ UNCHANGED <<codec, file>>
  <2>1. \A f \in dropped' : f <= Handed'
    BY <1>9, <1>10
  <2> HIDE DEF in
  <2> QED
    BY <1>1, <1>8, <1>10, <2>1 DEF Placed
<1>11. ASSUME NEW out \in SUBSET in, NEW lost \in SUBSET (in \ out),
              file' = file \cup out, codec' = in \ (out \cup lost),
              dropped' = dropped \cup FramesOf(lost)
       PROVE  Placed'
  <2>1. \A f \in dropped' : f <= Handed'
    <3>1. \A f \in FramesOf(lost) : \E p \in in : p.frame = f
      BY DEF FramesOf
    <3> HIDE DEF in
    <3> QED
      BY <1>9, <1>11, <3>1
  <2>2. in \in SUBSET S /\ file \in SUBSET S
    OBVIOUS
  <2> HIDE DEF in, S
  <2>3. ASSUME NEW f \in 1..captured
        PROVE  /\ f <= Handed' =>
                    InOneOf(f, FramesOf(codec'), FramesOf(file'), dropped',
                            Range(abandoned'))
               /\ f > Handed' =>
                    InNoneOf(f, FramesOf(codec'), FramesOf(file'), dropped',
                             Range(abandoned'))
    <3>1. /\ InOneOf(f, FramesOf(in), FramesOf(file), dropped,
                     Range(abandoned)) =>
               InOneOf(f, FramesOf(codec'), FramesOf(file'), dropped',
                       Range(abandoned))
          /\ InNoneOf(f, FramesOf(in), FramesOf(file), dropped,
                      Range(abandoned)) =>
               InNoneOf(f, FramesOf(codec'), FramesOf(file'), dropped',
                        Range(abandoned))
      BY <1>6, <1>11, <2>2, PacketsSplit
    <3> QED
      BY <1>1, <1>8, <3>1
  <2> QED
    BY <1>1, <2>1, <2>3 DEF Placed, FramesOf
<1> QED
  BY <1>10, <1>11, WriteOutcome

LEMMA PlacedClose ==
  ASSUME TInv, Packed, Placed, mIsOpen = TRUE, Close, Handed' = Handed,
         UNCHANGED <<captured, abandoned>>,
         vpc' \notin Started => vpc' = "returned" \/ vpc \notin Started,
         vpc # "returned"
  PROVE  Placed'
<1>1. PICK out \in SUBSET codec :
        /\ file' = file \cup out
        /\ dropped' = dropped \cup FramesOf(codec \ out)
  BY DEF Close
<1>2. codec' = {}
  BY DEF Close
<1> DEFINE lost == codec \ out
           S == codec \cup file
<1>3. /\ S \in SUBSET Packets /\ codec \in SUBSET S /\ file \in SUBSET S
      /\ lost \in SUBSET (codec \ out) /\ codec' = codec \ (out \cup lost)
      /\ \A p, q \in S : p.frame < q.frame <=> p.pts < q.pts
  BY <1>2 DEF TInv, DataOK, Packed
<1>4. dropped' = dropped \cup FramesOf(lost)
  BY <1>1
<1>5. \A f \in FramesOf(lost) : f <= Handed
  BY DEF FramesOf, Packed
<1> HIDE DEF lost, S
<1>6. ASSUME NEW f \in 1..captured
      PROVE  /\ f <= Handed' =>
                  InOneOf(f, FramesOf(codec'), FramesOf(file'), dropped',
                          Range(abandoned'))
             /\ f > Handed' =>
                  InNoneOf(f, FramesOf(codec'), FramesOf(file'), dropped',
                           Range(abandoned'))
  <2>1. /\ InOneOf(f, FramesOf(codec), FramesOf(file), dropped,
                   Range(abandoned)) =>
             InOneOf(f, FramesOf(codec'), FramesOf(file'), dropped',
                     Range(abandoned))
        /\ InNoneOf(f, FramesOf(codec), FramesOf(file), dropped,
                    Range(abandoned)) =>
             InNoneOf(f, FramesOf(codec'), FramesOf(file'), dropped',
                      Range(abandoned))
    <3> DEFINE a == Range(abandoned)
    <3> HIDE DEF a
    <3>1. LET rest == codec \ (out \cup lost)
          IN  /\ InOneOf(f, FramesOf(codec), FramesOf(file), dropped, a) =>
                   InOneOf(f, FramesOf(rest), FramesOf(file \cup out),
                           dropped \cup FramesOf(lost), a)
              /\ InNoneOf(f, FramesOf(codec), FramesOf(file), dropped, a) =>
                   InNoneOf(f, FramesOf(rest), FramesOf(file \cup out),
                            dropped \cup FramesOf(lost), a)
      BY <1>1, <1>3, PacketsSplit
    <3>2. /\ codec' = codec \ (out \cup lost) /\ file' = file \cup out
          /\ dropped' = dropped \cup FramesOf(lost)
      BY <1>1, <1>3, <1>4
    <3> QED
      BY <3>1, <3>2 DEF a
  <2> QED
    BY <2>1 DEF Placed
<1>7. \A f \in dropped' : f <= Handed'
  BY <1>4, <1>5 DEF Placed
<1> QED
  BY <1>6, <1>7 DEF Placed, FramesOf, Active

LEMMA PlacedStep ==
  ASSUME FramesInv, Placed, [Next]_vars
  PROVE  Placed'
<1> USE DEF FramesInv
<1>n. Handed \in Nat /\ captured \in Nat /\ Popped \in Nat
  BY Counts
<1>1. CASE Begin
  <2>1. /\ captured' = 0 /\ dropped' = {}
    BY <1>1 DEF Begin
  <2> QED
    BY <2>1 DEF Placed
<1>2. CASE Return /\ Handed' = captured
  <2>1. /\ UNCHANGED <<codec, file, dropped, captured>>
        /\ abandoned' = frameQueue /\ vpc' = "returned"
        /\ vpc = "return" /\ rpc = "done" /\ epc = "done"
    BY <1>2 DEF Return, encoder, TInv, Phases, Started
  <2>2. Range(abandoned) = {} /\ Range(abandoned') = InQueue
    BY <2>1, HandsAreNumbers DEF Active
  <2>3. InQueue = (Handed + 1)..captured
    <3>1. Reading = 0 /\ Writing = 0
      BY <2>1 DEF Reading, Writing
    <3>2. Popped = Handed /\ Popped + Len(frameQueue) = captured
      BY <3>1, Counts
    <3> HIDE DEF Popped
    <3> QED
      BY <3>2 DEF InQueue
  <2>4. ASSUME NEW f \in 1..captured
        PROVE  InOneOf(f, FramesOf(codec), FramesOf(file), dropped, InQueue)
    <3>1. f \in InQueue <=> f > Handed
      BY <1>n, <2>3
    <3>2. CASE f <= Handed
      <4>1. ~(f > Handed)
        BY <1>n, <3>2
      <4>2. InOneOf(f, FramesOf(codec), FramesOf(file), dropped, {})
        BY <2>2, <3>2 DEF Placed
      <4> QED
        BY <3>1, <4>1, <4>2 DEF InOneOf
    <3>3. CASE f > Handed
      <4>1. InNoneOf(f, FramesOf(codec), FramesOf(file), dropped, {})
        BY <2>2, <3>3 DEF Placed
      <4> QED
        BY <3>1, <3>3, <4>1 DEF InOneOf, InNoneOf
    <3> QED
      BY <1>n, <3>2, <3>3
  <2>5. \A f \in dropped' : f <= Handed'
    <3>1. \A f \in dropped : f <= Handed /\ f \in Nat
      BY DEF Placed, TInv, DataOK, Frames
    <3>2. Handed <= captured
      BY Counts
    <3> QED
      BY <1>2, <1>n, <2>1, <3>1, <3>2
  <2>6. \A f \in 1..captured : ~(f > captured)
    BY <1>n
  <2> HIDE DEF Handed, InQueue, FramesInv
  <2> QED
    BY <1>2, <2>1, <2>2, <2>4, <2>5, <2>6 DEF Placed, Active
<1>3. CASE /\ WriteFrame /\ Write(data)
           /\ UNCHANGED <<vpc, mIsOpen, container, session>>
           /\ Handed' = Handed + 1 /\ data = Handed + 1
  BY <1>3, PlacedWrite
<1>4. CASE Handed' = Handed /\ (OpenEncoder \/ OpenFails)
  <2>1. /\ captured = 0 /\ captured' = captured /\ dropped' = dropped
        /\ vpc' \in {"camera", "returned"}
    BY <1>4 DEF OpenEncoder, OpenFails, captureVars, frames, Placed, Active,
                Started
  <2> QED
    BY <1>4, <2>1 DEF Placed
<1>5. CASE Handed' = Handed /\ mIsOpen = TRUE /\ (Abandon \/ CloseEncoder)
  <2>1. /\ Close /\ UNCHANGED <<captured, abandoned>>
        /\ vpc # "returned" /\ (vpc' \in Started \/ vpc' = "returned")
    BY <1>5 DEF Abandon, CloseEncoder, captureVars, frames, session, Started
  <2> QED
    BY <1>5, <2>1, PlacedClose
<1>6. CASE Handed' = Handed /\ Rests
  <2>1. UNCHANGED <<codec, file, dropped, abandoned>>
    BY <1>6 DEF Rests
  <2>2. Active' /\ vpc' \notin Started => captured' = 0
    BY <1>6 DEF Rests, Placed, Active
  <2>3. CASE captured' = captured
    BY <1>6, <2>1, <2>2, <2>3 DEF Placed
  <2>4. CASE captured' = captured + 1 /\ vpc \in Started /\ vpc' = vpc
    <3>1. Range(abandoned) = {}
      BY <2>4, HandsAreNumbers DEF Active, Started
    <3>2. \A p \in codec \cup file : p.frame <= Handed /\ p.frame \in Nat
      <4>1. vpc \in {"cleanup", "return"} => captured' = captured
        <5>1. vpc \in {"cleanup", "return"} => rpc = "done"
          BY DEF TInv, Phases, Started
        <5> QED
          BY <5>1, StepCases
          DEF Begin, SetRecording, OpenEncoder, OpenFails, InitializeCamera,
              CameraFails, Abandon, SpawnThreads, JoinKeyListener, JoinReader,
              JoinEncoder, CloseEncoder, CleanupCamera, Return, KeyThread,
              KeyStep, KeyCheck, KeyOther, KeyQ, ReaderThread, ReaderStep,
              ReaderMoves, ReaderCheck, ReaderLoop, ReadNothing, ReadFrame,
              NotifyObserver, PushFrame, EncoderLoopStep, EncoderMoves,
              EncoderCheck, EncoderEmpty, PopFrame, FreeFrame, WriteFrame,
              captureVars, frames, vars
      <4>2. vpc \notin {"cleanup", "return"}
        BY <1>n, <2>4, <4>1
      <4>3. mIsOpen = TRUE
        BY <2>4, <4>2 DEF TInv, Phases, Started
      <4> QED
        BY <4>3, PacketsAreNumbers DEF Packed
    <3>3. \A f \in dropped : f <= Handed
      BY DEF Placed
    <3>4. Handed <= captured
      BY Counts
    <3>5. InNoneOf(captured + 1, FramesOf(codec), FramesOf(file), dropped,
                   Range(abandoned))
      <4>1. \A f \in FramesOf(codec) \cup FramesOf(file) :
              f <= Handed /\ f \in Nat
        BY <3>2 DEF FramesOf
      <4>2. captured + 1 \notin FramesOf(codec) \cup FramesOf(file)
        BY <1>n, <3>4, <4>1
      <4>3. captured + 1 \notin dropped
        BY <1>n, <3>3, <3>4
      <4> QED
        BY <3>1, <4>2, <4>3 DEF InNoneOf
    <3>6. ~(captured + 1 <= Handed)
      BY <1>n, <3>4
    <3>7. \A f \in 1..captured' : f \in 1..captured \/ f = captured + 1
      BY <1>n, <2>4
    <3> HIDE DEF Handed, FramesInv
    <3> QED
      BY <1>6, <2>1, <2>2, <2>4, <3>5, <3>6, <3>7 DEF Placed
  <2> QED
    BY <1>6, <2>3, <2>4 DEF Rests
<1> QED
  BY HandedSteps, <1>1, <1>2, <1>3, <1>4, <1>5, <1>6

(* A thing that is in exactly one of seven places. *)
LEMMA OneOfSeven ==
  ASSUME NEW f, NEW a, NEW b, NEW c, NEW d, NEW e, NEW g, NEW h,
         \/ /\ f \in a \/ f \in b \/ f \in c
            /\ InNoneOf(f, d, e, g, h)
            /\ ~(f \in a /\ f \in b) /\ ~(f \in a /\ f \in c)
            /\ ~(f \in b /\ f \in c)
         \/ /\ f \notin a /\ f \notin b /\ f \notin c
            /\ InOneOf(f, d, e, g, h)
  PROVE  Cardinality({i \in 1..7 : f \in <<a, b, c, d, e, g, h>>[i]}) = 1
<1> DEFINE s == <<a, b, c, d, e, g, h>>
           T == {i \in 1..7 : f \in s[i]}
<1>1. /\ s[1] = a /\ s[2] = b /\ s[3] = c /\ s[4] = d /\ s[5] = e
      /\ s[6] = g /\ s[7] = h
  OBVIOUS
<1> HIDE DEF s
<1>2. \A i \in 1..7 : \/ i = 1 \/ i = 2 \/ i = 3 \/ i = 4
                     \/ i = 5 \/ i = 6 \/ i = 7
  OBVIOUS
<1>3. PICK k \in 1..7 : f \in s[k] /\ \A i \in 1..7 : f \in s[i] => i = k
  <2> DEFINE Only(k) == f \in s[k] /\ \A i \in 1..7 : f \in s[i] => i = k
  <2>1. CASE f \in a
    <3>1. Only(1)
      BY <1>1, <1>2, <2>1 DEF InNoneOf
    <3> QED
      BY <3>1
  <2>2. CASE f \in b
    <3>1. Only(2)
      BY <1>1, <1>2, <2>2 DEF InNoneOf
    <3> QED
      BY <3>1
  <2>3. CASE f \in c
    <3>1. Only(3)
      BY <1>1, <1>2, <2>3 DEF InNoneOf
    <3> QED
      BY <3>1
  <2>4. CASE f \in d
    <3>1. Only(4)
      BY <1>1, <1>2, <2>4 DEF InNoneOf, InOneOf
    <3> QED
      BY <3>1
  <2>5. CASE f \in e
    <3>1. Only(5)
      BY <1>1, <1>2, <2>5 DEF InNoneOf, InOneOf
    <3> QED
      BY <3>1
  <2>6. CASE f \in g
    <3>1. Only(6)
      BY <1>1, <1>2, <2>6 DEF InNoneOf, InOneOf
    <3> QED
      BY <3>1
  <2>7. CASE f \in h
    <3>1. Only(7)
      BY <1>1, <1>2, <2>7 DEF InNoneOf, InOneOf
    <3> QED
      BY <3>1
  <2> QED
    BY <2>1, <2>2, <2>3, <2>4, <2>5, <2>6, <2>7 DEF InOneOf
<1>4. T = {k}
  BY <1>3
<1>5. Cardinality(T) = 1
  BY <1>4, FS_Singleton
<1> QED
  BY <1>5 DEF s

(* No frame of a session vanishes and none is there twice: each is with the
   reader, in the queue, with the encoder, in the codec, in the file, refused
   or lost by Write or Close, or left over in the queue. *)
THEOREM FramesAreConserved == Spec => []FrameConservation
<1>1. Init => Placed
  <2>1. Init => captured = 0 /\ dropped = {} /\ ~Active
    BY DEF Init, CaptureInit, Active
  <2> QED
    BY <2>1 DEF Placed
<1>2. FramesInv /\ Placed /\ [Next]_vars => Placed'
  BY PlacedStep
<1>3. FramesInv /\ Placed => FrameConservation
  <2> DEFINE writing == IF epc = "write" THEN {data} ELSE {}
  <2> SUFFICES ASSUME FramesInv, Placed, NEW f \in 1..captured
               PROVE  Cardinality(
                        {i \in 1..7 :
                           f \in <<ReadersFrame, Range(frameQueue), writing,
                                   FramesOf(codec), FramesOf(file), dropped,
                                   Range(abandoned)>>[i]}) = 1
    BY DEF FrameConservation
  <2>1. /\ Popped \in Nat /\ Handed \in Nat /\ Len(frameQueue) \in Nat
        /\ captured \in Nat /\ Reading \in 0..1 /\ Writing \in 0..1
        /\ Popped + Len(frameQueue) + Reading = captured
        /\ Handed + Writing = Popped
    BY Counts DEF FramesInv
  <2>2. /\ Range(frameQueue) = InQueue
        /\ ReadersFrame = IF Reading = 1 THEN {captured} ELSE {}
    BY HandsAreNumbers DEF FramesInv
  <2>3. writing = IF Writing = 1 THEN {Popped} ELSE {}
    <3>1. epc = "write" => data = Popped
      BY DEF FramesInv, Line
    <3>2. CASE epc = "write"
      <4>1. Writing = 1 /\ writing = {data} /\ data = Popped
        BY <3>1, <3>2 DEF Writing
      <4> QED
        BY <4>1
    <3>3. CASE epc # "write"
      <4>1. Writing = 0 /\ writing = {}
        BY <3>3 DEF Writing
      <4> QED
        BY <4>1
    <3> QED
      BY <3>2, <3>3
  <2> HIDE DEF writing, Popped, Handed, FramesInv
  <2>4. CASE f <= Handed
    <3>1. InOneOf(f, FramesOf(codec), FramesOf(file), dropped,
                  Range(abandoned))
      BY <2>4 DEF Placed
    <3>2. /\ f \notin ReadersFrame /\ f \notin Range(frameQueue)
          /\ f \notin writing
      BY <2>1, <2>2, <2>3, <2>4 DEF InQueue
    <3> QED
      BY <3>1, <3>2, OneOfSeven
  <2>5. CASE f > Handed
    <3>1. InNoneOf(f, FramesOf(codec), FramesOf(file), dropped,
                   Range(abandoned))
      BY <2>5 DEF Placed
    <3>2. f \in ReadersFrame \/ f \in Range(frameQueue) \/ f \in writing
      BY <2>1, <2>2, <2>3, <2>5 DEF InQueue
    <3>3. /\ ~(f \in ReadersFrame /\ f \in Range(frameQueue))
          /\ ~(f \in ReadersFrame /\ f \in writing)
          /\ ~(f \in Range(frameQueue) /\ f \in writing)
      BY <2>1, <2>2, <2>3 DEF InQueue
    <3> QED
      BY <3>1, <3>2, <3>3, OneOfSeven
  <2> QED
    BY <2>1, <2>4, <2>5
<1> QED
  BY <1>1, <1>2, <1>3, FramesInvariant, PTL DEF Spec
==============================================================================
