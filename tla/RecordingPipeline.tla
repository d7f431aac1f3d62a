-------------------------- MODULE RecordingPipeline --------------------------
(***************************************************************************)
(* A recording session: the call of videoCaptureAndEncoding                *)
(* (src/CStreamVideo.cpp) around the threads of CaptureThreads.tla, the    *)
(* camera, and the FFmpegEncoder that writes the file                      *)
(* (src/CFFmpegEncoder.cpp).  Whoever owns the videoStream object stores   *)
(* m_recording and calls the function: the environment here, the GUI       *)
(* thread in CaptureApp.tla.                                               *)
(*                                                                         *)
(* A packet pairs a frame with the pts it was encoded with.                *)
(***************************************************************************)
EXTENDS CaptureThreads

VARIABLES
  vpc,          \* the call of videoCaptureAndEncoding
  camera,       \* m_formatContext and m_decoderContext are open
  mIsOpen,      \* the encoder is open
  frame_index,  \* the encoder's next pts
  codec,        \* packets inside codec_context
  file,         \* packets in the output file
  container,    \* the state of the output file
  dropped,      \* frames handed to Write that will never reach the file
  abandoned,    \* what the frame queue held when the session returned
  rearmed       \* m_recording was set again while the session was active

encoder == <<mIsOpen, frame_index, codec, file, container, dropped>>
session == <<camera, abandoned, rearmed>>
vars == <<captureVars, vpc, encoder, session>>

Packets == [frame : Frames, pts : 0..MaxFrames - 1]
FramesOf(packets) == {p.frame : p \in packets}

(* Where the call is; "returned" is before the first call as well. *)
VideoSteps ==
  {"returned", "open", "camera", "abandon", "spawn", "joinKey", "joinReader",
   "joinEncoder", "close", "cleanup", "return"}
Containers == {"none", "broken", "recording", "final"}

Active == vpc # "returned"

Init ==
  /\ CaptureInit
  /\ vpc = "returned"
  /\ camera = FALSE /\ abandoned = <<>> /\ rearmed = FALSE
  /\ mIsOpen = FALSE /\ frame_index = 0 /\ codec = {} /\ file = {}
  /\ container = "none" /\ dropped = {}

-----------------------------------------------------------------------------
(* The owner of the object. *)

SetRecording(on) ==
  /\ m_recording' = on
  /\ rearmed' = (rearmed \/ (on /\ ~m_recording /\ Active))
  /\ UNCHANGED <<threads, frames, vpc, encoder, camera, abandoned>>

(* The call: a fresh encoder and frame queue, both local to it. *)
Begin ==
  /\ vpc = "returned"
  /\ vpc' = "open"
  /\ frameQueue' = <<>> /\ captured' = 0 /\ live' = {} /\ abandoned' = <<>>
  /\ frame_index' = 0 /\ dropped' = {}
  /\ rearmed' = FALSE
  /\ UNCHANGED <<m_recording, threads, data, camera, mIsOpen, codec, file,
                 container>>

-----------------------------------------------------------------------------
(* FFmpegEncoder. *)

(* Open succeeds: avio_open has truncated the file and its header is out. *)
OpenEncoder ==
  /\ vpc = "open"
  /\ vpc' = "camera"
  /\ mIsOpen' = TRUE
  /\ frame_index' = 0
  /\ container' = "recording"
  /\ file' = {}
  /\ UNCHANGED <<captureVars, codec, dropped, session>>

(* Open fails: before avio_open, or when the header cannot be written. *)
OpenFails ==
  /\ vpc = "open"
  /\ vpc' = "returned"
  /\ \/ UNCHANGED <<container, file>>
     \/ container' = "broken" /\ file' = {}
  /\ UNCHANGED <<captureVars, mIsOpen, frame_index, codec, dropped, session>>

(* FlushPackets on the packets in: those in out reach the file; a packet
   whose write fails is unreferenced and lost, and ends the loop. *)
FlushPackets(in, out, lost) ==
  /\ Cardinality(lost) <= 1
  /\ file' = file \cup out
  /\ codec' = in \ (out \cup lost)
  /\ dropped' = dropped \cup FramesOf(lost)

(* Mutant: frame_index moves on twice for a frame. *)
TakeTwoPts == mIsOpen /\ frame_index' = frame_index + 2

(* Write past its checks: the pts is used up whatever happens next. *)
TakePts == mIsOpen /\ frame_index' = frame_index + 1

(* Write: not open or not writable; the codec refuses the frame; or the
   frame goes in and what the codec has ready comes out. *)
Write(f) ==
  \/ /\ dropped' = dropped \cup {f}
     /\ UNCHANGED <<frame_index, codec, file>>
  \/ /\ TakePts
     /\ dropped' = dropped \cup {f}
     /\ UNCHANGED <<codec, file>>
  \/ /\ TakePts
     /\ LET in == codec \cup {[frame |-> f, pts |-> frame_index]}
        IN  \E out \in SUBSET in : \E lost \in SUBSET (in \ out) :
              FlushPackets(in, out, lost)

(* Mutant: Close without the trailer. *)
CloseWithoutTrailer ==
  /\ file' = file \cup codec
  /\ codec' = {}
  /\ mIsOpen' = FALSE
  /\ UNCHANGED <<frame_index, container, dropped>>

(* Close: drain the codec as far as writing succeeds, write the trailer,
   free everything; what did not come out is gone with the codec. *)
Close ==
  /\ \E out \in SUBSET codec :
       /\ file' = file \cup out
       /\ dropped' = dropped \cup FramesOf(codec \ out)
  /\ codec' = {}
  /\ container' = IF mIsOpen THEN "final" ELSE container
  /\ mIsOpen' = FALSE
  /\ UNCHANGED frame_index

-----------------------------------------------------------------------------
(* videoCaptureAndEncoding after the encoder is open. *)

InitializeCamera ==
  /\ vpc = "camera"
  /\ vpc' = "spawn"
  /\ camera' = TRUE
  /\ UNCHANGED <<captureVars, encoder, abandoned, rearmed>>

(* Every failure of initializeCamera closes what it had opened; the early
   return then destroys the local encoder. *)
CameraFails ==
  /\ vpc = "camera"
  /\ vpc' = "abandon"
  /\ UNCHANGED <<captureVars, encoder, session>>

Abandon ==
  /\ vpc = "abandon"
  /\ vpc' = "returned"
  /\ Close
  /\ UNCHANGED <<captureVars, session>>

SpawnThreads ==
  /\ vpc = "spawn"
  /\ vpc' = "joinKey"
  /\ StartThreads
  /\ UNCHANGED <<m_recording, frames, encoder, session>>

JoinKeyListener ==
  /\ vpc = "joinKey" /\ kpc = "done"
  /\ vpc' = "joinReader"
  /\ UNCHANGED <<captureVars, encoder, session>>

(* Mutant: the reader is not waited for. *)
SkipReader ==
  /\ vpc = "joinReader"
  /\ vpc' = "joinEncoder"
  /\ UNCHANGED <<captureVars, encoder, session>>

JoinReader ==
  /\ vpc = "joinReader" /\ rpc = "done"
  /\ vpc' = "joinEncoder"
  /\ UNCHANGED <<captureVars, encoder, session>>

JoinEncoder ==
  /\ vpc = "joinEncoder" /\ epc = "done"
  /\ vpc' = "close"
  /\ UNCHANGED <<captureVars, encoder, session>>

CloseEncoder ==
  /\ vpc = "close"
  /\ vpc' = "cleanup"
  /\ Close
  /\ UNCHANGED <<captureVars, session>>

CleanupCamera ==
  /\ vpc = "cleanup"
  /\ vpc' = "return"
  /\ camera' = FALSE
  /\ UNCHANGED <<captureVars, encoder, abandoned, rearmed>>

(* The end of the call destroys the thread objects and the frame queue;
   nobody frees the buffers still in it. *)
Return ==
  /\ vpc = "return"
  /\ vpc' = "returned" /\ kpc' = "none" /\ rpc' = "none" /\ epc' = "none"
  /\ abandoned' = frameQueue
  /\ frameQueue' = <<>>
  /\ UNCHANGED <<m_recording, captured, data, live, encoder, camera, rearmed>>

-----------------------------------------------------------------------------
VideoStep ==
  \/ OpenEncoder \/ OpenFails \/ InitializeCamera \/ CameraFails \/ Abandon
  \/ SpawnThreads \/ JoinKeyListener \/ JoinReader \/ JoinEncoder
  \/ CloseEncoder \/ CleanupCamera \/ Return

KeyThread == KeyStep /\ UNCHANGED <<vpc, encoder, session>>

ReaderThread == ReaderStep /\ UNCHANGED <<vpc, encoder, session>>

EncoderThread ==
  \/ EncoderLoopStep /\ UNCHANGED <<vpc, encoder, session>>
  \/ WriteFrame /\ Write(data) /\ UNCHANGED <<vpc, mIsOpen, container, session>>

SessionStep == VideoStep \/ KeyThread \/ ReaderThread \/ EncoderThread

OwnerStep == Begin \/ \E on \in BOOLEAN : SetRecording(on)

Next == SessionStep \/ OwnerStep

Spec == Init /\ [][Next]_vars

(***************************************************************************)
(* Every thread of the session is scheduled again and again, and a camera  *)
(* read comes back (with a frame or not).  Nobody is obliged to store      *)
(* m_recording, to call the function or to press q, and the camera is not  *)
(* obliged to deliver frames.                                              *)
(***************************************************************************)
SessionFairness ==
  /\ WF_vars(VideoStep)
  /\ WF_vars(KeyThread)
  /\ WF_vars(ReaderThread)
  /\ WF_vars(EncoderThread)

FairSpec == Spec /\ SessionFairness

-----------------------------------------------------------------------------
(* The type invariant. *)
TypeOK ==
  /\ CaptureTypeOK
  /\ rpc \in ReaderSteps /\ epc \in EncoderSteps /\ vpc \in VideoSteps
  /\ camera \in BOOLEAN /\ mIsOpen \in BOOLEAN /\ rearmed \in BOOLEAN
  /\ abandoned \in Seq(Frames) /\ dropped \in SUBSET Frames
  /\ frame_index \in 0..MaxFrames
  /\ codec \in SUBSET Packets /\ file \in SUBSET Packets
  /\ container \in Containers

(* A frame's buffer belongs to one place at a time: the reader that rendered
   it, the queue, the encoder, or the queue that was destroyed with the
   session.  Whoever uses a buffer uses one that is allocated, nothing is
   freed twice, and every allocated buffer still has its place. *)
BufferOwnership ==
  LET places == <<ReadersFrame, Range(frameQueue), EncodersFrame,
                  Range(abandoned)>>
  IN  /\ live = UNION Range(places)
      /\ \A i, j \in 1..4 : i # j => places[i] \cap places[j] = {}
      /\ Cardinality(Range(frameQueue)) = Len(frameQueue)

(* Every frame captured in the session is in exactly one place: in the
   reader's hands, in the queue, in the encoder's hands, in the codec, in the
   file, refused or lost by Write or Close, or left in the queue at the end. *)
FrameConservation ==
  LET writing == IF epc = "write" THEN {data} ELSE {}
      places == <<ReadersFrame, Range(frameQueue), writing, FramesOf(codec),
                  FramesOf(file), dropped, Range(abandoned)>>
  IN  \A f \in 1..captured :
        Cardinality({i \in 1..7 : f \in places[i]}) = 1

(* The reader captures and the encoder writes at the same time, yet frames
   get increasing pts in the order of their capture, and what the encoder has
   still to write is later than anything it has written. *)
CaptureOrder ==
  LET done == codec \cup file
  IN  /\ \A p, q \in done : p.frame < q.frame <=> p.pts < q.pts
      /\ Ascending(OnTheWay)
      /\ mIsOpen => \A p \in done :
                      /\ \A i \in 1..Len(OnTheWay) : p.frame < OnTheWay[i]
                      /\ p.pts < frame_index

(* The camera is open whenever the reader may use it and the encoder whenever
   frameEncoder may write; both are closed once the function has returned. *)
ResourcesOutliveThreads ==
  /\ rpc \in {"loop", "read"} => camera
  /\ epc \in {"pop", "write"} => mIsOpen
  /\ ~Active => ~camera /\ ~mIsOpen

(* Between sessions the file is finished: it is never left without its
   trailer after frames went in, and no packet stays behind in the codec. *)
FileFinished ==
  ~Active => /\ codec = {}
             /\ container # "recording"
             /\ file # {} => container = "final"

(* Stopping loses at most the one frame the reader had in flight, unless
   m_recording was set again before the session had ended. *)
AtMostOneFrameLost ==
  ~Active /\ ~rearmed => Len(abandoned) <= 1

(* The encoder waits for a frame that no reader will ever push. *)
Starved == vpc = "joinEncoder" /\ epc = "pop" /\ frameQueue = <<>>

(* Once recording is off for good every session ends, or its encoder thread
   waits in pop for ever: nothing else can hold up the call. *)
StopEndsOrStarves ==
  <>[]~m_recording => []<>(~Active \/ Starved)
==============================================================================
