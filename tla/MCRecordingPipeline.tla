------------------------- MODULE MCRecordingPipeline -------------------------
(***************************************************************************)
(* Sessions of up to MaxFrames frames, one after the other, and what the   *)
(* header says of videoCaptureAndEncoding.                                 *)
(***************************************************************************)
EXTENDS RecordingPipeline

(* inc/CStreamVideo.hpp: the function captures frame data and encodes the
   captured data to an mp4 container, so no captured frame is left in the
   queue when it returns (m_recording not being set again meanwhile). *)
CapturedIsEncoded == ~Active /\ ~rearmed => abandoned = <<>>
==============================================================================
