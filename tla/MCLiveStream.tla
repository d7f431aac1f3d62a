---------------------------- MODULE MCLiveStream -----------------------------
(***************************************************************************)
(* Live streaming to two clients, and what the README says of it.          *)
(***************************************************************************)
EXTENDS LiveStream, TLC

(* The clients are interchangeable: only safety is checked with two. *)
ClientSymmetry == Permutations(Clients)

(* README: video data is sent to all connected clients, so send_video_data
   does not leave its loop before every connection still open has been
   served. *)
SentToAllConnected ==
  [][spc = "sending" /\ spc' # "sending"
       => \A c \in toSend : conn[c] # "open"]_liveVars
==============================================================================
