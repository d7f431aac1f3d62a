--------------------------- MODULE CaptureThreads ----------------------------
(***************************************************************************)
(* The three threads that videoCaptureAndEncoding and sendLiveVideoToClient*)
(* (src/CStreamVideo.cpp) both start on a videoStream object: the key      *)
(* listener, the frame reader (with getFrameData) and the frame encoder,   *)
(* up to the end of their loops.  They share the atomic m_recording, each  *)
(* load of which is a step of its own, and a queue of frame buffers, the   *)
(* FIFO queue that ThreadSafeQueue.tla implements.                         *)
(*                                                                         *)
(* A frame is the number of its capture in the session.  What the encoder  *)
(* does with a frame, and what happens around the threads, is left to the  *)
(* modules that extend this one.                                           *)
(***************************************************************************)
EXTENDS Naturals, Sequences, FiniteSets, Functions

CONSTANT MaxFrames  \* bound on the frames captured in one session

ASSUME MaxFramesAssumption == MaxFrames \in Nat

VARIABLES
  m_recording,  \* std::atomic<bool>, shared by every thread
  kpc,          \* keyListener: listenForKeyPress
  rpc,          \* frameReaderAndRenderer, inside getFrameData included
  epc,          \* frameEncoder
  frameQueue,   \* the session's ThreadSafeQueue<unsigned char*>
  captured,     \* frames captured so far; the reader holds the last one
  data,         \* the frame in frameEncoder's hands, 0 if none
  live          \* frames whose RGB buffer is allocated

threads == <<kpc, rpc, epc>>
frames == <<frameQueue, captured, data, live>>
captureVars == <<m_recording, threads, frames>>

Frames == 1..MaxFrames

(* "none": not started.  "done": out of its loop. *)
KeySteps == {"none", "check", "kbhit", "done"}
ReaderSteps == {"none", "check", "loop", "read", "notify", "push", "done"}
EncoderSteps == {"none", "check", "empty", "pop", "write", "free", "done"}

CaptureInit ==
  /\ m_recording = FALSE
  /\ kpc = "none" /\ rpc = "none" /\ epc = "none"
  /\ frameQueue = <<>> /\ captured = 0 /\ data = 0 /\ live = {}

(* The std::thread constructors. *)
StartThreads == kpc' = "check" /\ rpc' = "check" /\ epc' = "check"

-----------------------------------------------------------------------------
(* listenForKeyPress. *)

KeyCheck ==
  /\ kpc = "check"
  /\ kpc' = IF m_recording THEN "kbhit" ELSE "done"
  /\ UNCHANGED <<m_recording, rpc, epc, frames>>

(* No key, or another key. *)
KeyOther ==
  /\ kpc = "kbhit"
  /\ kpc' = "check"
  /\ UNCHANGED <<m_recording, rpc, epc, frames>>

KeyQ ==
  /\ kpc = "kbhit"
  /\ kpc' = "done"
  /\ m_recording' = FALSE
  /\ UNCHANGED <<rpc, epc, frames>>

-----------------------------------------------------------------------------
(* frameReaderAndRenderer and getFrameData. *)

ReaderMoves(from, to) ==
  /\ rpc = from
  /\ rpc' = to
  /\ UNCHANGED <<m_recording, kpc, epc>>

ReaderCheck ==
  /\ ReaderMoves("check", IF m_recording THEN "loop" ELSE "done")
  /\ UNCHANGED frames

(* Mutant: getFrameData does not look at the stop flag. *)
LoopForever ==
  /\ ReaderMoves("loop", "read")
  /\ UNCHANGED frames

(* getFrameData: the allocation of the frame may fail before the loop. *)
ReaderLoop ==
  /\ \/ ReaderMoves("loop", IF m_recording THEN "read" ELSE "check")
     \/ ReaderMoves("loop", "check")
  /\ UNCHANGED frames

(* Nothing read, another stream's packet, or a corrupted frame: loop again.
   An allocation that fails makes getFrameData return nullptr. *)
ReadNothing ==
  /\ ReaderMoves("read", "loop") \/ ReaderMoves("read", "check")
  /\ UNCHANGED frames

ReadFrame ==
  /\ captured < MaxFrames
  /\ ReaderMoves("read", "notify")
  /\ captured' = captured + 1
  /\ live' = live \cup {captured + 1}
  /\ UNCHANGED <<frameQueue, data>>

(* notifyObserver renders the frame, still the reader's own. *)
NotifyObserver ==
  /\ ReaderMoves("notify", "push")
  /\ UNCHANGED frames

(* Mutant: the newest frame goes to the front. *)
PushFront ==
  /\ ReaderMoves("push", "check")
  /\ frameQueue' = <<captured>> \o frameQueue
  /\ UNCHANGED <<captured, data, live>>

(* Mutant: the reader frees the frame it has pushed. *)
PushAndFree ==
  /\ ReaderMoves("push", "check")
  /\ frameQueue' = Append(frameQueue, captured)
  /\ live' = live \ {captured}
  /\ UNCHANGED <<captured, data>>

PushFrame ==
  /\ ReaderMoves("push", "check")
  /\ frameQueue' = Append(frameQueue, captured)
  /\ UNCHANGED <<captured, data, live>>

-----------------------------------------------------------------------------
(* frameEncoder. *)

EncoderMoves(from, to) ==
  /\ epc = from
  /\ epc' = to
  /\ UNCHANGED <<m_recording, kpc, rpc, captured>>

(* Mutant: the stop flag alone ends the loop. *)
EncoderCheckFlag ==
  /\ EncoderMoves("check", IF m_recording THEN "pop" ELSE "done")
  /\ UNCHANGED <<frameQueue, data, live>>

(* m_recording.load(); only when it is false is the queue looked at. *)
EncoderCheck ==
  /\ EncoderMoves("check", IF m_recording THEN "pop" ELSE "empty")
  /\ UNCHANGED <<frameQueue, data, live>>

EncoderEmpty ==
  /\ EncoderMoves("empty", IF frameQueue = <<>> THEN "done" ELSE "pop")
  /\ UNCHANGED <<frameQueue, data, live>>

(* Mutant: the frame is read but stays in the queue. *)
PeekFrame ==
  /\ EncoderMoves("pop", "write")
  /\ frameQueue # <<>>
  /\ data' = Head(frameQueue)
  /\ UNCHANGED <<frameQueue, live>>

(* pop waits without a timeout until the queue holds a frame, and always
   returns true: the branch that sleeps is dead. *)
PopFrame ==
  /\ EncoderMoves("pop", "write")
  /\ frameQueue # <<>>
  /\ data' = Head(frameQueue)
  /\ frameQueue' = Tail(frameQueue)
  /\ UNCHANGED live

(* encoder.Write(data): a failure is only logged.  What Write does to the
   encoder is the extending module's part of this step. *)
WriteFrame ==
  /\ EncoderMoves("write", "free")
  /\ UNCHANGED <<frameQueue, data, live>>

FreeFrame ==
  /\ EncoderMoves("free", "check")
  /\ live' = live \ {data}
  /\ data' = 0
  /\ UNCHANGED frameQueue

-----------------------------------------------------------------------------
KeyStep == KeyCheck \/ KeyOther \/ KeyQ

ReaderStep ==
  \/ ReaderCheck \/ ReaderLoop \/ ReadNothing \/ ReadFrame \/ NotifyObserver
  \/ PushFrame

(* Every step of frameEncoder's loop but the call of Write. *)
EncoderLoopStep == EncoderCheck \/ EncoderEmpty \/ PopFrame \/ FreeFrame

-----------------------------------------------------------------------------
(* The type invariant of the shared part. *)
CaptureTypeOK ==
  /\ m_recording \in BOOLEAN
  /\ kpc \in KeySteps
  /\ frameQueue \in Seq(Frames)
  /\ captured \in 0..MaxFrames /\ data \in 0..MaxFrames
  /\ live \in SUBSET Frames

(* The frame in each thread's own hands. *)
ReadersFrame == IF rpc \in {"notify", "push"} THEN {captured} ELSE {}
EncodersFrame == IF epc \in {"write", "free"} THEN {data} ELSE {}

(* The frames on their way from the camera to Write, oldest first. *)
OnTheWay ==
  (IF epc = "write" THEN <<data>> ELSE <<>>) \o frameQueue \o
  (IF rpc \in {"notify", "push"} THEN <<captured>> ELSE <<>>)

Ascending(s) == \A i, j \in 1..Len(s) : i < j => s[i] < s[j]
==============================================================================
