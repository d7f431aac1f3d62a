-------------------------- MODULE EncoderResources ---------------------------
(***************************************************************************)
(* What the two encoders have allocated at each step of Open and Close,    *)
(* with every failure: FFmpegEncoder (src/CFFmpegEncoder.cpp), which writes*)
(* a file, and VideoStreamEncoder (src/CVideoStreamEncoder.cpp), which     *)
(* writes into dynamic buffers, one more for every packet it remuxes.      *)
(*                                                                         *)
(* A capture function makes an encoder, opens it once, and destroys it     *)
(* after a failed Open or a Close.  The objects of a failed Open that the  *)
(* models of the capture functions leave out are counted here.             *)
(***************************************************************************)
EXTENDS Integers, Sequences

CONSTANT MaxFailures  \* bound: failed calls of the stream encoder

ASSUME FailuresAssumption == MaxFailures \in Nat

VARIABLES
  file,    \* FFmpegEncoder: the calls of Open that have succeeded, or Closed
  fileContext, fileHeap,
  coder,   \* VideoStreamEncoder, likewise
  coderContext, coderHeap,
  remux,   \* remuxVideo, of VideoStreamEncoder: where it is
  failed,  \* number of calls of VideoStreamEncoder that have failed
  lost     \* what no pointer leads to any more, and has not been freed

fileVars == <<file, fileContext, fileHeap>>
coderVars == <<coder, coderContext, coderHeap, remux, failed, lost>>
resourceVars == <<fileVars, coderVars>>

(* The allocations of Open, in order; mContext holds a pointer to each, to pb
   by way of the format context.  The header is written after the last. *)
Allocations == <<"format", "codec", "frame", "sws", "pb">>
Closed == -1
Opened == Len(Allocations) + 1

ResourcesInit ==
  /\ file = Closed /\ fileContext = {} /\ fileHeap = {}
  /\ coder = Closed /\ coderContext = {} /\ coderHeap = {}
  /\ remux = "none" /\ failed = 0 /\ lost = 0

-----------------------------------------------------------------------------
(* FFmpegEncoder. *)

FileOpen ==
  /\ file = Closed
  /\ file' = 0
  /\ UNCHANGED <<fileContext, fileHeap, coderVars>>

FileAllocates ==
  /\ file \in 0..(Len(Allocations) - 1)
  /\ file' = file + 1
  /\ fileContext' = fileContext \cup {Allocations[file + 1]}
  /\ fileHeap' = fileHeap \cup {Allocations[file + 1]}
  /\ UNCHANGED coderVars

FileOpened ==
  /\ file = Len(Allocations)
  /\ file' = Opened
  /\ UNCHANGED <<fileContext, fileHeap, coderVars>>

(* Close: pb only if the encoder is open, everything else there is a pointer
   to; the pointers are cleared. *)
FileClose(heap, isOpen) ==
  /\ file' = Closed
  /\ fileHeap' = heap \ (IF isOpen THEN fileContext ELSE fileContext \ {"pb"})
  /\ fileContext' = {}
  /\ UNCHANGED coderVars

(* An allocation or a setting fails; or the header, which closes pb first. *)
FileOpenFails ==
  /\ file \in 0..Len(Allocations)
  /\ FileClose(IF file = Len(Allocations) THEN fileHeap \ {"pb"} ELSE fileHeap,
               FALSE)

FileCloses ==
  /\ file = Opened
  /\ FileClose(fileHeap, TRUE)

-----------------------------------------------------------------------------
(* VideoStreamEncoder. *)

CoderOpen ==
  /\ coder = Closed
  /\ coder' = 0
  /\ UNCHANGED <<fileVars, coderContext, coderHeap, remux, failed, lost>>

CoderAllocates ==
  /\ coder \in 0..(Len(Allocations) - 1)
  /\ coder' = coder + 1
  /\ coderContext' = coderContext \cup {Allocations[coder + 1]}
  /\ coderHeap' = coderHeap \cup {Allocations[coder + 1]}
  /\ UNCHANGED <<fileVars, remux, failed, lost>>

CoderOpened ==
  /\ coder = Len(Allocations)
  /\ coder' = Opened
  /\ UNCHANGED <<fileVars, coderContext, coderHeap, remux, failed, lost>>

(* Close does nothing unless the encoder is open, so that what a failed Open
   has allocated is lost with the object. *)
CoderOpenFails ==
  /\ failed < MaxFailures
  /\ coder \in 0..Len(Allocations)
  /\ coder' = Closed
  /\ failed' = failed + 1
  /\ lost' = lost + (IF coderHeap = {} THEN 0 ELSE 1)
  /\ coderContext' = {} /\ coderHeap' = {}
  /\ UNCHANGED <<fileVars, remux>>

CoderCloses ==
  /\ coder = Opened /\ remux = "none"
  /\ coder' = Closed
  /\ coderHeap' = coderHeap \ coderContext
  /\ coderContext' = {}
  /\ UNCHANGED <<fileVars, remux, failed, lost>>

Remuxes(from, to) ==
  /\ coder = Opened /\ remux = from
  /\ remux' = to
  /\ UNCHANGED <<fileVars, coder, coderContext>>

(* remuxVideo: a format context, then a dynamic buffer. *)
RemuxAllocates ==
  /\ \/ /\ Remuxes("none", "format")
        /\ coderHeap' = coderHeap \cup {"remux_format"}
     \/ /\ Remuxes("format", "buffer")
        /\ coderHeap' = coderHeap \cup {"remux_buffer"}
  /\ UNCHANGED <<failed, lost>>

(* The format context cannot be had; or the stream, the header or the packet
   fails: then the format context is freed, and the buffer lost. *)
RemuxFails ==
  /\ failed < MaxFailures
  /\ \/ /\ Remuxes("none", "none")
        /\ UNCHANGED <<coderHeap, lost>>
     \/ /\ Remuxes("buffer", "none")
        /\ coderHeap' = coderHeap \ {"remux_format", "remux_buffer"}
        /\ lost' = lost + 1
  /\ failed' = failed + 1

(* Mutant: the buffer is copied and not closed. *)
RemuxKeepsBuffer ==
  /\ Remuxes("buffer", "none")
  /\ coderHeap' = coderHeap \ {"remux_format"}
  /\ UNCHANGED <<failed, lost>>

RemuxSucceeds ==
  /\ Remuxes("buffer", "none")
  /\ coderHeap' = coderHeap \ {"remux_format", "remux_buffer"}
  /\ UNCHANGED <<failed, lost>>

ResourcesNext ==
  \/ FileOpen \/ FileAllocates \/ FileOpened \/ FileOpenFails \/ FileCloses
  \/ CoderOpen \/ CoderAllocates \/ CoderOpened \/ CoderOpenFails
  \/ CoderCloses \/ RemuxAllocates \/ RemuxFails \/ RemuxSucceeds

ResourcesSpec == ResourcesInit /\ [][ResourcesNext]_resourceVars

-----------------------------------------------------------------------------
(* An encoder that is gone holds nothing, whatever failed on the way; no pointer
   leads to what has been freed; and the stream encoder loses at most one
   context or buffer for every call that failed, none for those that did not. *)
LeaksAreFailures ==
  /\ file = Closed => fileHeap = {}
  /\ fileContext \subseteq fileHeap
  /\ coder = Closed => coderHeap = {}
  /\ coderContext \subseteq coderHeap
  /\ lost <= failed
==============================================================================
