------------------------------ MODULE VideoFiles -----------------------------
(***************************************************************************)
(* The two video files and who uses them: recording sessions, which write  *)
(* FILE_PATH on a thread of their own, and the Play and Remux buttons,     *)
(* whose handlers (WindowProc of src/CVideoCaptureGUI.cpp, remuxVideo of   *)
(* src/CStreamVideo.cpp) run on the GUI thread, one at a time.             *)
(*                                                                         *)
(* A session is started by the GUI thread too, but opens its file whenever *)
(* its thread gets there: while Play holds its handles, or in the middle of*)
(* a remuxing.  FFmpeg opens files so that others may read and write them; *)
(* a handle of Play denies writing.                                        *)
(***************************************************************************)
EXTENDS Integers

CONSTANTS
  MaxPackets,  \* bound: packets in a recording
  MaxTime      \* bound: times at which a file is written

ASSUME VideoFilesAssumption == MaxPackets \in Nat /\ MaxTime \in Nat

VARIABLES
  clock,
  recording,  \* the file at FILE_PATH
  muxed,      \* the file at MUXED_FILE_PATH
  recorder,   \* the thread of a session
  gui,        \* where the GUI thread is
  played,     \* the file given to playVideo
  input,      \* the recording as remuxVideo has opened it
  unread,     \* packets of it not yet read
  incident,   \* what has kept the loop of remuxVideo from its end
  report      \* what the last click on Remux has shown

storageVars == <<clock, recording, muxed>>
guiVars == <<gui, played>>
remuxVars == <<input, unread, incident, report>>
videoVars == <<storageVars, recorder, guiVars, remuxVars>>

(* time: of the last write, 0 if there is no such file; whole: it has its
   trailer; of: the recording it was made from. *)
NoFile == [time |-> 0, packets |-> 0, whole |-> FALSE, of |-> 0]

VideoInit ==
  /\ clock = 0 /\ recording = NoFile /\ muxed = NoFile
  /\ recorder = "none"
  /\ gui = "idle" /\ played = "none"
  /\ input = NoFile /\ unread = 0 /\ incident = "none" /\ report = "none"

Tick == clock < MaxTime /\ clock' = clock + 1

-----------------------------------------------------------------------------
(* The session's thread. *)

StartSession ==
  /\ gui = "idle" /\ recorder = "none"
  /\ recorder' = "starting"
  /\ UNCHANGED <<storageVars, guiVars, remuxVars>>

(* avio_open of FFmpegEncoder::Open, which empties the file; it is refused
   while Play has its handles open, and can fail in any case, like everything
   before it. *)
SessionOpens ==
  /\ recorder = "starting" /\ gui # "playing"
  /\ Tick
  /\ recording' = [NoFile EXCEPT !.time = clock']
  /\ recorder' = "writing"
  /\ UNCHANGED <<muxed, guiVars, remuxVars>>

SessionOpenFails ==
  /\ recorder = "starting"
  /\ recorder' = "none"
  /\ UNCHANGED <<storageVars, guiVars, remuxVars>>

SessionWrites ==
  /\ recorder = "writing" /\ recording.packets < MaxPackets
  /\ recording' = [recording EXCEPT !.packets = @ + 1]
  /\ UNCHANGED <<clock, muxed, recorder, guiVars, remuxVars>>

(* FFmpegEncoder::Close writes the trailer; when the header could not be
   written the file stays as it is. *)
SessionEnds ==
  /\ recorder = "writing"
  /\ \/ /\ Tick
        /\ recording' = [recording EXCEPT !.time = clock', !.whole = TRUE]
     \/ /\ recording.packets = 0
        /\ UNCHANGED <<clock, recording>>
  /\ recorder' = "none"
  /\ UNCHANGED <<muxed, guiVars, remuxVars>>

-----------------------------------------------------------------------------
(* The Play button. *)

(* CreateFileW with FILE_SHARE_READ fails on a file that is being written. *)
file1Exists == recording.time > 0 /\ recorder # "writing"

(* wideStr_env_muxed_filepath is converted from env_filepath: the second handle
   is one more of the recording. *)
file2Exists == file1Exists

(* CompareFileTime of the two handles, which have the same time. *)
FirstIsNewer == recording.time > recording.time

Play ==
  /\ gui = "idle"
  /\ \/ /\ file1Exists \/ file2Exists
        /\ gui' = "playing"
        /\ played' = IF file1Exists /\ (file2Exists => FirstIsNewer)
                       THEN "recording" ELSE "muxed"
     \/ /\ ~(file1Exists \/ file2Exists)
        /\ UNCHANGED guiVars
  /\ UNCHANGED <<storageVars, recorder, remuxVars>>

(* playVideo returns, or could not open its file; the handles are closed. *)
PlayEnds ==
  /\ gui = "playing"
  /\ gui' = "idle" /\ played' = "none"
  /\ UNCHANGED <<storageVars, recorder, remuxVars>>

-----------------------------------------------------------------------------
(* The Remux button: remuxVideo. *)

Remux(from, to) ==
  /\ gui = from
  /\ gui' = to
  /\ UNCHANGED <<recorder, played>>

(* avformat_open_input: an mp4 file without its trailer has no index. *)
RemuxOpens ==
  /\ Remux("idle", "opened")
  /\ recording.whole
  /\ input' = recording /\ unread' = recording.packets
  /\ UNCHANGED <<storageVars, incident, report>>

(* Whatever fails before the output file has been opened. *)
RemuxRefused ==
  /\ \/ Remux("idle", "idle") \/ Remux("opened", "idle")
  /\ report' = "failed"
  /\ UNCHANGED <<storageVars, input, unread, incident>>

(* avio_open empties the output file. *)
RemuxCreates ==
  /\ Remux("opened", "created")
  /\ Tick
  /\ muxed' = [NoFile EXCEPT !.time = clock', !.of = input.time]
  /\ UNCHANGED <<recording, remuxVars>>

RemuxHeaderFails ==
  /\ Remux("created", "idle")
  /\ report' = "failed"
  /\ UNCHANGED <<storageVars, input, unread, incident>>

RemuxHeader ==
  /\ Remux("created", "copying")
  /\ UNCHANGED <<storageVars, remuxVars>>

(* Mutant: a packet is read and not written. *)
RemuxSkips ==
  /\ Remux("copying", "copying")
  /\ unread > 0
  /\ unread' = unread - 1
  /\ UNCHANGED <<storageVars, input, incident, report>>

(* A packet is read and written.  After a session has emptied the recording it
   is one that was read ahead, or what the session has put in its place. *)
RemuxCopies ==
  /\ Remux("copying", "copying")
  /\ unread > 0
  /\ unread' = unread - 1
  /\ muxed' = [muxed EXCEPT !.packets = @ + 1]
  /\ UNCHANGED <<clock, recording, input, incident, report>>

RemuxTrailer(why) ==
  /\ Remux("copying", "idle")
  /\ Tick
  /\ muxed' = [muxed EXCEPT !.time = clock', !.whole = TRUE]
  /\ incident' = why /\ report' = "success"
  /\ UNCHANGED <<recording, input, unread>>

(* The loop ends when nothing can be read any more: at the end of the file, or
   because a session has emptied it; or when a packet cannot be written.  The
   result is the same. *)
RemuxEnds ==
  \/ recording.time = input.time /\ unread = 0 /\ RemuxTrailer("none")
  \/ recording.time # input.time /\ RemuxTrailer("overwritten")
  \/ recording.time = input.time /\ unread > 0 /\ RemuxTrailer("write_error")

VideoNext ==
  \/ StartSession \/ SessionOpens \/ SessionOpenFails \/ SessionWrites
  \/ SessionEnds \/ Play \/ PlayEnds
  \/ RemuxOpens \/ RemuxRefused \/ RemuxCreates \/ RemuxHeaderFails
  \/ RemuxHeader \/ RemuxCopies \/ RemuxEnds

VideoSpec == VideoInit /\ [][VideoNext]_videoVars

-----------------------------------------------------------------------------
(* A reported success means a file with its trailer that has every packet of
   the recording it was made from, unless a packet could not be written or a
   session has overwritten the recording meanwhile: these two the code does not
   tell.  And what remuxVideo makes of a file stays what it was, whatever
   sessions and Play do, until it opens it again. *)
SuccessIsWhole ==
  report = "success" /\ gui \in {"idle", "playing"} =>
    /\ muxed.whole
    /\ incident = "none" =>
         muxed.of = input.time /\ muxed.packets = input.packets

(* What the header says of playVideo. *)
PlaysLatest ==
  gui = "playing" =>
    /\ played = "recording" => recording.time >= muxed.time
    /\ played = "muxed" => muxed.time >= recording.time
==============================================================================
