----------------------------- MODULE MediaBuffer -----------------------------
(***************************************************************************)
(* The browser's side of live streaming: the script of src/client.html,    *)
(* which hands the messages of the websocket to a SourceBuffer, one at a   *)
(* time, and queues what comes while it is busy.  The browser runs one     *)
(* event at a time.  A SourceBuffer is external: an append is under way    *)
(* until its data has been parsed, updating turns false, and only then is  *)
(* the updateend event queued behind the events that wait already.         *)
(***************************************************************************)
EXTENDS Integers, Sequences

CONSTANT MaxMessages  \* bound: messages the server sends

ASSUME MessagesAssumption == MaxMessages \in Nat

VARIABLES
  readyState,    \* of mediaSource
  sourceBuffer,  \* it has been created
  updating,      \* sourceBuffer.updating
  updateends,    \* number of updateend events that wait
  queue,
  messages,      \* number of messages that have come
  appended,      \* the messages appended, in order
  refused,       \* the messages appendBuffer has thrown on
  overtaken      \* history: a message was appended while others waited

mediaVars == <<readyState, sourceBuffer, updating, updateends, queue,
               messages, appended, refused, overtaken>>

MediaInit ==
  /\ readyState = "closed" /\ sourceBuffer = FALSE /\ updating = FALSE
  /\ updateends = 0
  /\ queue = <<>> /\ messages = 0 /\ appended = <<>> /\ refused = {}
  /\ overtaken = FALSE

(* The handler of sourceopen; a browser may not support the codecs. *)
SourceOpen ==
  /\ readyState = "closed"
  /\ readyState' = "open"
  /\ sourceBuffer' \in BOOLEAN
  /\ UNCHANGED <<updating, updateends, queue, messages, appended, refused,
                 overtaken>>

BufferReady == sourceBuffer /\ ~updating /\ readyState = "open"

(* appendBuffer throws when the buffer is full.  onmessage catches that, the
   other caller does not: the message is gone in both. *)
AppendBuffer(m) ==
  \/ /\ updating' = TRUE
     /\ appended' = Append(appended, m)
     /\ UNCHANGED refused
  \/ /\ refused' = refused \cup {m}
     /\ UNCHANGED <<updating, appended>>

(* Mutant: a message is pushed to the wrong end of the queue. *)
OnMessageFirst ==
  /\ messages < MaxMessages
  /\ messages' = messages + 1
  /\ overtaken' = (overtaken \/ (BufferReady /\ queue # <<>>))
  /\ \/ BufferReady /\ AppendBuffer(messages') /\ UNCHANGED queue
     \/ /\ ~BufferReady
        /\ queue' = <<messages'>> \o queue
        /\ UNCHANGED <<updating, appended, refused>>
  /\ UNCHANGED <<readyState, sourceBuffer, updateends>>

OnMessage ==
  /\ messages < MaxMessages
  /\ messages' = messages + 1
  /\ overtaken' = (overtaken \/ (BufferReady /\ queue # <<>>))
  /\ \/ BufferReady /\ AppendBuffer(messages') /\ UNCHANGED queue
     \/ /\ ~BufferReady
        /\ queue' = Append(queue, messages')
        /\ UNCHANGED <<updating, appended, refused>>
  /\ UNCHANGED <<readyState, sourceBuffer, updateends>>

(* The data has been parsed, or could not be: that ends the stream. *)
Appended ==
  /\ updating
  /\ updating' = FALSE
  /\ updateends' = updateends + 1
  /\ readyState' \in {readyState, "ended"}
  /\ UNCHANGED <<sourceBuffer, queue, messages, appended, refused, overtaken>>

(* Mutant: an off-by-one in queue.length > 0. *)
OnUpdateEndOfTwo ==
  /\ updateends > 0
  /\ updateends' = updateends - 1
  /\ \/ /\ Len(queue) > 1 /\ BufferReady
        /\ AppendBuffer(Head(queue))
        /\ queue' = Tail(queue)
     \/ /\ ~(Len(queue) > 1 /\ BufferReady)
        /\ UNCHANGED <<updating, queue, appended, refused>>
  /\ UNCHANGED <<readyState, sourceBuffer, messages, overtaken>>

(* The handler of updateend. *)
OnUpdateEnd ==
  /\ updateends > 0
  /\ updateends' = updateends - 1
  /\ \/ /\ queue # <<>> /\ BufferReady
        /\ AppendBuffer(Head(queue))
        /\ queue' = Tail(queue)
     \/ /\ ~(queue # <<>> /\ BufferReady)
        /\ UNCHANGED <<updating, queue, appended, refused>>
  /\ UNCHANGED <<readyState, sourceBuffer, messages, overtaken>>

MediaNext == SourceOpen \/ OnMessage \/ Appended \/ OnUpdateEnd

MediaSpec == MediaInit /\ [][MediaNext]_mediaVars

-----------------------------------------------------------------------------
(* The type invariant. *)
MediaTypeOK ==
  /\ readyState \in {"closed", "open", "ended"}
  /\ sourceBuffer \in BOOLEAN /\ updating \in BOOLEAN
  /\ updateends \in Nat
  /\ messages \in 0..MaxMessages
  /\ queue \in Seq(1..MaxMessages) /\ appended \in Seq(1..MaxMessages)
  /\ refused \in SUBSET (1..MaxMessages)
  /\ overtaken \in BOOLEAN

(* Playback does not stall on a queue nobody looks at: once something has been
   appended, what waits is looked at after the append under way, unless the
   stream has ended or the buffer has refused a message.  (What came before the
   SourceBuffer was created waits for an append that a later message makes.) *)
QueueMoves ==
  queue # <<>> /\ readyState = "open" /\ appended # <<>> /\ refused = {} =>
    updating \/ updateends > 0

(* Segments are played in the order of arrival, and what waits is younger than
   what has been played, as long as no message has found the SourceBuffer idle
   while others waited: between the end of an append and its updateend, or after
   some had waited for the SourceBuffer itself. *)
PlayedInOrder ==
  ~overtaken =>
    LET played == appended \o queue
    IN  \A i, j \in 1..Len(played) : i < j => played[i] < played[j]
==============================================================================
