------------------------ MODULE WebSocketConnection --------------------------
(***************************************************************************)
(* One server-side connection of websocketpp as VideoStreamSocket uses it  *)
(* (src/websocketpp/websocket/impl/connection_impl.hpp over                *)
(* transport/asio/connection.hpp), with the handlers of VideoStreamSocket  *)
(* and the calls of send that dataSender makes from its own thread.        *)
(*                                                                         *)
(* One thread runs the io_service, so a handler of the library is one step *)
(* of that thread; a handler that calls back into VideoStreamSocket, or    *)
(* walks through several frames, is split at those points, where dataSender*)
(* can get in between.  The peer, the network and the clock are free:      *)
(* reads bring any frames, reads and writes fail at any time, timers expire*)
(* at any time.                                                            *)
(***************************************************************************)
EXTENDS Integers, Sequences

CONSTANTS
  MaxFrames,  \* bound: frames the peer sends
  MaxRead,    \* bound: frames that one read brings
  MaxSends    \* bound: messages dataSender sends on this connection

ASSUME BoundsAssumption ==
  MaxFrames \in Nat /\ MaxRead \in Nat /\ MaxSends \in Nat

VARIABLES
  m_state,            \* session::state
  m_internal_state,   \* istate
  response,           \* the HTTP response: none yet, switching or refused
  timers,             \* every handshake timer ever set, in order
  m_handshake_timer,  \* the one the connection can cancel; 0: none
  reading,            \* the outstanding async_read, by its handler
  writing,            \* the outstanding async_writes
  posted,             \* how often write_frame is posted on the strand
  m_send_queue,       \* messages waiting, by number
  m_current_msgs,     \* messages handed to the transport, by number
  m_write_flag,
  shutdown,           \* terminate status that waits for the shutdown timer
  asio,               \* where the io_service thread is
  buffer,             \* frames of m_buf not yet consumed
  frames,             \* number of frames the peer has sent
  calls,              \* the handlers of VideoStreamSocket called so far
  sender,             \* dataSender, in its call of send
  needs_writing,      \* what that call found under m_write_lock
  sends,              \* number of messages dataSender has sent
  pushed,             \* kinds of all messages, in the order of write_push
  wire                \* numbers of the messages that reached the network

handshakeVars == <<m_internal_state, response>>
timerVars == <<timers, m_handshake_timer>>
queueVars == <<m_send_queue, pushed, posted>>
writeVars == <<writing, m_current_msgs, m_write_flag, wire>>
readVars == <<reading, buffer, frames>>
senderVars == <<sender, needs_writing, sends>>
wsVars == <<m_state, handshakeVars, timerVars, queueVars, writeVars, readVars,
            shutdown, asio, calls, senderVars>>

FrameKinds == {"get_epoch", "ping", "close", "bad_close", "garbage"}
MessageKinds == {"data", "reply", "pong", "close"}
Numbers == DOMAIN pushed

(* What one read brings: frames of the peer, as far as its bound goes. *)
Batches == UNION {[1..n -> FrameKinds] : n \in 0..MaxRead}
Arrives(batch) ==
  /\ frames + Len(batch) <= MaxFrames
  /\ frames' = frames + Len(batch)
  /\ buffer' = batch

Init ==
  /\ m_state = "connecting" /\ m_internal_state = "USER_INIT"
  /\ response = "none"
  /\ timers = <<>> /\ m_handshake_timer = 0
  /\ reading = "none" /\ buffer = <<>> /\ frames = 0
  /\ writing = <<>> /\ m_current_msgs = <<>> /\ m_write_flag = FALSE
  /\ m_send_queue = <<>> /\ pushed = <<>> /\ posted = 0 /\ wire = <<>>
  /\ shutdown = "none" /\ asio = "idle"
  /\ calls = <<>>
  /\ sender = "idle" /\ needs_writing = FALSE /\ sends = 0

(* on_open inserts the handle into m_connections, on_close erases it. *)
Registered == calls # <<>> /\ calls[Len(calls)] = "on_open"

(* send_video_data holds m_mutex for the whole of its loop. *)
MutexFree == sender \in {"idle", "thrown"}

-----------------------------------------------------------------------------
(* Timers.  Cancelling a timer whose wait has already completed, and is
   queued as a handler, has no effect. *)

Cancelled(set, i) ==
  IF i # 0 /\ set[i].status = "armed"
    THEN [set EXCEPT ![i].status = "over"]
    ELSE set

(* Mutant: the handle is one ahead of the timer. *)
SetTimerAhead(kind) ==
  /\ timers' = Append(timers, [kind |-> kind, status |-> "armed"])
  /\ m_handshake_timer' = Len(timers) + 2

SetTimer(kind) ==
  /\ timers' = Append(timers, [kind |-> kind, status |-> "armed"])
  /\ m_handshake_timer' = Len(timers) + 1

CancelTimer(set) ==
  /\ timers' = Cancelled(set, m_handshake_timer)
  /\ m_handshake_timer' = 0

-----------------------------------------------------------------------------
(* Mutant: a terminated connection is terminated once more. *)
TerminateAgain(set) ==
  /\ CancelTimer(set)
  /\ m_state' = "closed"
  /\ asio' = IF m_state = "connecting" THEN "idle" ELSE "onClose"
  /\ UNCHANGED shutdown

(* terminate, from a handler of the io_service thread; set is what timers has
   become by then.  The socket is shut down at once; handle_terminate, and
   with it the close handler, runs in the same handler, or from the shutdown
   timer when that has run out meanwhile.  VideoStreamSocket sets no fail
   handler. *)
Terminate(set) ==
  /\ CancelTimer(set)
  /\ \/ /\ m_state = "closed"
        /\ asio' = "idle"
        /\ UNCHANGED <<m_state, shutdown>>
     \/ /\ m_state # "closed"
        /\ m_state' = "closed"
        /\ LET tstat == IF m_state = "connecting" THEN "failed" ELSE "closed"
           IN  \/ /\ asio' = IF tstat = "closed" THEN "onClose" ELSE "idle"
                  /\ UNCHANGED shutdown
               \/ asio' = "idle" /\ shutdown' = tstat

-----------------------------------------------------------------------------
(* The queue of outgoing messages. *)

(* write_push under m_write_lock, and the post of write_frame, by a handler
   of the io_service thread. *)
Push(kind) ==
  /\ pushed' = Append(pushed, kind)
  /\ m_send_queue' = Append(m_send_queue, Len(pushed) + 1)
  /\ posted' = IF m_write_flag THEN posted ELSE posted + 1

(* Mutant: no timer for the answer of the peer. *)
CloseWithoutTimer ==
  /\ m_state' = "closing"
  /\ UNCHANGED timerVars
  /\ Push("close")

(* send_close_frame.  Every close frame this server sends is terminal: the
   acknowledgement of a server is, and so are the codes to_ws makes of a
   protocol error. *)
SendCloseFrame ==
  /\ m_state' = "closing"
  /\ SetTimer("close")
  /\ Push("close")

Terminal(number) == pushed[number] = "close"

(* Mutant: a terminal message does not end the batch. *)
EverythingReady == m_send_queue

(* The messages write_frame takes: up to the first terminal one, which goes
   along. *)
Ready ==
  LET ends == {i \in DOMAIN m_send_queue : Terminal(m_send_queue[i])}
      n == IF ends = {} THEN Len(m_send_queue)
                        ELSE CHOOSE i \in ends : \A j \in ends : i <= j
  IN  SubSeq(m_send_queue, 1, n)

(* A write on a socket that has been shut down cannot succeed. *)
StartWrite(what) ==
  writing' =
    Append(writing, IF m_state = "closed" THEN "doomed" ELSE what)

(* Mutant: the write flag is not looked at. *)
WriteAnyway ==
  /\ asio = "idle" /\ posted > 0
  /\ posted' = posted - 1
  /\ m_send_queue # <<>>
  /\ m_current_msgs' = m_current_msgs \o Ready
  /\ m_send_queue' = SubSeq(m_send_queue, Len(Ready) + 1, Len(m_send_queue))
  /\ m_write_flag' = TRUE
  /\ StartWrite("frames")
  /\ UNCHANGED <<m_state, handshakeVars, timerVars, pushed, wire, readVars,
                 shutdown, asio, calls, senderVars>>

(* write_frame, posted to the strand. *)
WriteFrame ==
  /\ asio = "idle" /\ posted > 0
  /\ posted' = posted - 1
  /\ \/ /\ m_write_flag \/ m_send_queue = <<>>
        /\ UNCHANGED <<m_send_queue, m_current_msgs, m_write_flag, writing>>
     \/ /\ ~m_write_flag /\ m_send_queue # <<>>
        /\ m_current_msgs' = m_current_msgs \o Ready
        /\ m_send_queue' =
             SubSeq(m_send_queue, Len(Ready) + 1, Len(m_send_queue))
        /\ m_write_flag' = TRUE
        /\ StartWrite("frames")
  /\ UNCHANGED <<m_state, handshakeVars, timerVars, pushed, wire, readVars,
                 shutdown, asio, calls, senderVars>>

(* handle_write_frame after an error: some of the messages may have got out.
   m_write_flag stays set. *)
WriteFrameFails ==
  /\ asio = "idle" /\ writing # <<>> /\ Head(writing) # "response"
  /\ writing' = Tail(writing)
  /\ \E n \in 0..Len(m_current_msgs) :
       /\ n = 0 \/ Head(writing) = "frames"
       /\ wire' = wire \o SubSeq(m_current_msgs, 1, n)
  /\ m_current_msgs' = <<>>
  /\ Terminate(timers)
  /\ UNCHANGED <<handshakeVars, queueVars, m_write_flag, readVars, calls,
                 senderVars>>

FrameWritten(next) ==
  /\ asio = "idle" /\ writing # <<>> /\ Head(writing) = "frames"
  /\ writing' = Tail(writing)
  /\ wire' = wire \o m_current_msgs
  /\ m_current_msgs' = <<>>
  /\ next
  /\ UNCHANGED <<handshakeVars, m_send_queue, pushed, readVars, calls,
                 senderVars>>

(* handle_write_frame after the terminal message: the connection ends. *)
TerminalWritten ==
  /\ m_current_msgs # <<>> /\ Terminal(m_current_msgs[Len(m_current_msgs)])
  /\ FrameWritten(Terminate(timers) /\ UNCHANGED <<m_write_flag, posted>>)

(* Mutant: nobody goes on after a batch. *)
BatchForgotten ==
  /\ m_current_msgs # <<>> /\ ~Terminal(m_current_msgs[Len(m_current_msgs)])
  /\ FrameWritten(
       /\ m_write_flag' = FALSE
       /\ UNCHANGED <<m_state, posted, timerVars, shutdown, asio>>)

(* handle_write_frame otherwise: the next batch, if anything waits. *)
BatchWritten ==
  /\ m_current_msgs # <<>> /\ ~Terminal(m_current_msgs[Len(m_current_msgs)])
  /\ FrameWritten(
       /\ m_write_flag' = FALSE
       /\ posted' = IF m_send_queue = <<>> THEN posted ELSE posted + 1
       /\ UNCHANGED <<m_state, timerVars, shutdown, asio>>)

HandleWriteFrame == WriteFrameFails \/ TerminalWritten \/ BatchWritten

-----------------------------------------------------------------------------
(* Accepting and the opening handshake. *)

(* Mutant: no handshake timer. *)
AcceptWithoutTimer ==
  /\ asio = "idle" /\ m_internal_state = "USER_INIT" /\ m_state = "connecting"
  /\ m_internal_state' = "READ_HTTP_REQUEST"
  /\ reading' = "handshake"
  /\ UNCHANGED <<m_state, response, timerVars, queueVars, writeVars, buffer,
                 frames, shutdown, asio, calls, senderVars>>

(* handle_accept and start: the transport of a plain socket is initialised
   within the call, so the first read is already out when start returns. *)
Accept ==
  /\ asio = "idle" /\ m_internal_state = "USER_INIT" /\ m_state = "connecting"
  /\ m_internal_state' = "READ_HTTP_REQUEST"
  /\ SetTimer("open")
  /\ reading' = "handshake"
  /\ UNCHANGED <<m_state, response, queueVars, writeVars, buffer, frames,
                 shutdown, asio, calls, senderVars>>

AcceptFails ==
  /\ asio = "idle" /\ m_internal_state = "USER_INIT" /\ m_state = "connecting"
  /\ Terminate(timers)
  /\ UNCHANGED <<handshakeVars, queueVars, writeVars, readVars, calls,
                 senderVars>>

HandshakeRead(next) ==
  /\ asio = "idle" /\ reading = "handshake"
  /\ next
  /\ UNCHANGED <<queueVars, m_current_msgs, m_write_flag, wire, calls,
                 senderVars>>

(* handle_read_handshake after an error: a closed connection expects it. *)
HandshakeReadFails ==
  HandshakeRead(
    /\ reading' = "none"
    /\ Terminate(timers)
    /\ UNCHANGED <<handshakeVars, writing, buffer, frames>>)

(* It runs although the timer has closed the connection. *)
HandshakeReadLate ==
  /\ m_state = "closed"
  /\ HandshakeRead(
       /\ reading' = "none"
       /\ UNCHANGED <<m_state, handshakeVars, timerVars, writing, buffer, frames,
                      shutdown, asio>>)

(* The request is complete: it is processed and the response is written.
   Frames that came with it wait in m_buf.  A plain HTTP request, which the
   http handler answers, ends like one that is refused.  Reading on when the
   request is not complete yet changes nothing here. *)
RequestComplete ==
  /\ m_state = "connecting"
  /\ HandshakeRead(
       /\ reading' = "none"
       /\ m_internal_state' = "PROCESS_HTTP_REQUEST"
       /\ \/ response' = "refused" /\ UNCHANGED <<buffer, frames>>
          \/ response' = "switching" /\ \E batch \in Batches : Arrives(batch)
       /\ StartWrite("response")
       /\ UNCHANGED <<m_state, timerVars, shutdown, asio>>)

ResponseWritten(next) ==
  /\ asio = "idle" /\ writing # <<>> /\ Head(writing) = "response"
  /\ writing' = Tail(writing)
  /\ next
  /\ UNCHANGED <<response, queueVars, m_current_msgs, m_write_flag, wire,
                 readVars, calls, senderVars>>

(* handle_write_http_response: an error, or a response that refused. *)
ResponseEnds ==
  ResponseWritten(Terminate(timers) /\ UNCHANGED m_internal_state)

(* It runs although the timer has closed the connection. *)
ResponseLate ==
  /\ m_state = "closed"
  /\ ResponseWritten(UNCHANGED <<m_state, m_internal_state, timerVars, shutdown,
                                 asio>>)

(* The response switched protocols: the connection is open, and the open
   handler is called next. *)
OpenConnection ==
  /\ m_state = "connecting" /\ response = "switching"
  /\ ResponseWritten(
       /\ CancelTimer(timers)
       /\ m_internal_state' = "PROCESS_CONNECTION"
       /\ m_state' = "open"
       /\ asio' = "onOpen"
       /\ UNCHANGED shutdown)

Handshake ==
  \/ Accept \/ AcceptFails
  \/ HandshakeReadFails \/ HandshakeReadLate \/ RequestComplete
  \/ ResponseEnds \/ ResponseLate \/ OpenConnection

-----------------------------------------------------------------------------
(* The handlers of VideoStreamSocket, under m_mutex. *)

(* on_open; back in the library, the frames that came with the request are
   handled next. *)
OnOpen ==
  /\ asio = "onOpen" /\ MutexFree
  /\ calls' = Append(calls, "on_open")
  /\ asio' = "frames"
  /\ UNCHANGED <<m_state, handshakeVars, timerVars, queueVars, writeVars,
                 readVars, shutdown, senderVars>>

OnClose ==
  /\ asio = "onClose" /\ MutexFree
  /\ calls' = Append(calls, "on_close")
  /\ asio' = "idle"
  /\ UNCHANGED <<m_state, handshakeVars, timerVars, queueVars, writeVars,
                 readVars, shutdown, senderVars>>

-----------------------------------------------------------------------------
(* handle_read_frame and its loop over the frames of m_buf.  A connection is
   read and its frames are consumed even when it is closed. *)

FrameRead ==
  /\ asio = "idle" /\ reading = "frame"
  /\ reading' = "none"
  /\ \E batch \in Batches \ {<<>>} : Arrives(batch)
  /\ asio' = "frames"
  /\ UNCHANGED <<m_state, handshakeVars, timerVars, queueVars, writeVars,
                 shutdown, calls, senderVars>>

FrameReadFails ==
  /\ asio = "idle" /\ reading = "frame"
  /\ reading' = "none"
  /\ Terminate(timers)
  /\ UNCHANGED <<handshakeVars, queueVars, writeVars, buffer, frames, calls,
                 senderVars>>

Consume(kind, next) ==
  /\ asio = "frames" /\ buffer # <<>> /\ Head(buffer) = kind
  /\ next
  /\ UNCHANGED <<handshakeVars, writeVars, reading, frames, calls,
                 senderVars>>

GoOn == buffer' = Tail(buffer) /\ UNCHANGED <<shutdown, asio>>

Ignored == GoOn /\ UNCHANGED <<m_state, timerVars, queueVars>>

(* The message handler and the reply to a ping push a message, but only as
   long as the connection is open: on_message, whose send would throw
   otherwise, is not called. *)
Answered(kind, answer) ==
  Consume(kind,
    \/ m_state # "open" /\ Ignored
    \/ m_state = "open" /\ GoOn /\ Push(answer)
         /\ UNCHANGED <<m_state, timerVars>>)

(* A close frame is acknowledged once.  The branch for the acknowledgement of
   a close of ours is out of reach: this server only closes after a protocol
   error, and then reads no more. *)
CloseReceived ==
  Consume("close",
    \/ m_state # "open" /\ Ignored
    \/ m_state = "open" /\ GoOn /\ SendCloseFrame)

(* A close frame with an invalid code or reason is acknowledged each time. *)
BadCloseReceived ==
  Consume("bad_close",
    \/ m_state = "closed" /\ Ignored
    \/ m_state # "closed" /\ GoOn /\ SendCloseFrame)

(* A protocol error drops the rest of m_buf and starts no further read.  Only
   an open connection can be closed; any other is terminated. *)
ProtocolError ==
  Consume("garbage",
    /\ buffer' = <<>>
    /\ \/ /\ m_state = "open"
          /\ SendCloseFrame
          /\ asio' = "idle"
          /\ UNCHANGED shutdown
       \/ /\ m_state # "open"
          /\ Terminate(timers)
          /\ UNCHANGED queueVars)

(* Mutant: no read is started while messages wait to be written. *)
ReadWhenWritten ==
  /\ asio = "frames" /\ buffer = <<>>
  /\ reading' = IF m_send_queue = <<>> THEN "frame" ELSE "none"
  /\ asio' = "idle"
  /\ UNCHANGED <<m_state, handshakeVars, timerVars, queueVars, writeVars,
                 buffer, frames, shutdown, calls, senderVars>>

(* read_frame, when the buffer is used up. *)
ReadFrame ==
  /\ asio = "frames" /\ buffer = <<>>
  /\ reading' = "frame"
  /\ asio' = "idle"
  /\ UNCHANGED <<m_state, handshakeVars, timerVars, queueVars, writeVars,
                 buffer, frames, shutdown, calls, senderVars>>

Consumption ==
  \/ Answered("get_epoch", "reply") \/ Answered("ping", "pong")
  \/ CloseReceived \/ BadCloseReceived \/ ProtocolError \/ ReadFrame

HandleReadFrame == FrameRead \/ FrameReadFails \/ Consumption

-----------------------------------------------------------------------------
(* The clock.  Expired timers are noticed between handlers. *)

Expire(i) ==
  /\ asio = "idle" /\ timers[i].status = "armed"
  /\ timers' = [timers EXCEPT ![i].status = "expired"]
  /\ UNCHANGED <<m_state, handshakeVars, m_handshake_timer, queueVars,
                 writeVars, readVars, shutdown, asio, calls, senderVars>>

(* handle_open_handshake_timeout and handle_close_handshake_timeout. *)
HandshakeTimeout(i) ==
  /\ asio = "idle" /\ timers[i].status = "expired"
  /\ Terminate([timers EXCEPT ![i].status = "over"])
  /\ UNCHANGED <<handshakeVars, queueVars, writeVars, readVars, calls,
                 senderVars>>

(* handle_async_shutdown_timeout. *)
ShutdownTimeout ==
  /\ asio = "idle" /\ shutdown # "none"
  /\ asio' = IF shutdown = "closed" THEN "onClose" ELSE "idle"
  /\ shutdown' = "none"
  /\ UNCHANGED <<m_state, handshakeVars, timerVars, queueVars, writeVars,
                 readVars, calls, senderVars>>

-----------------------------------------------------------------------------
(* dataSender: send_video_data calls send for the handles in the set. *)

SenderMoves(from, to) ==
  /\ sender = from
  /\ sender' = to
  /\ UNCHANGED <<m_state, handshakeVars, timerVars, writeVars, readVars,
                 shutdown, asio, calls>>

(* The state is tested under m_connection_state_lock, which is released.  A
   refusal is thrown: dataSender ends. *)
SendChecks ==
  /\ Registered /\ sends < MaxSends
  /\ SenderMoves("idle", IF m_state = "open" THEN "checked" ELSE "thrown")
  /\ UNCHANGED <<needs_writing, sends, queueVars>>

(* The message is pushed under m_write_lock, whatever the state is by now. *)
SendPushes ==
  /\ SenderMoves("checked", "pushed")
  /\ sends' = sends + 1
  /\ pushed' = Append(pushed, "data")
  /\ m_send_queue' = Append(m_send_queue, Len(pushed) + 1)
  /\ needs_writing' = ~m_write_flag
  /\ UNCHANGED posted

SendDispatches ==
  /\ SenderMoves("pushed", "idle")
  /\ posted' = IF needs_writing THEN posted + 1 ELSE posted
  /\ UNCHANGED <<needs_writing, sends, m_send_queue, pushed>>

SenderStep == SendChecks \/ SendPushes \/ SendDispatches

-----------------------------------------------------------------------------
Timeout ==
  (\E i \in DOMAIN timers : Expire(i) \/ HandshakeTimeout(i))
    \/ ShutdownTimeout

Next ==
  \/ Handshake \/ WriteFrame \/ HandleWriteFrame
  \/ OnOpen \/ OnClose \/ HandleReadFrame
  \/ Timeout \/ SenderStep

Spec == Init /\ [][Next]_wsVars

(***************************************************************************)
(* The io_service thread runs what is posted and goes on with a handler it *)
(* is in, time passes, and dataSender returns from a call it has begun.    *)
(* The peer owes nothing: reads and writes may stay outstanding for ever.  *)
(***************************************************************************)
Fairness ==
  /\ WF_wsVars(WriteFrame \/ OnOpen \/ OnClose)
  /\ WF_wsVars(Consumption)
  /\ WF_wsVars(Timeout)
  /\ WF_wsVars(SendPushes \/ SendDispatches)

FairSpec == Spec /\ Fairness

-----------------------------------------------------------------------------
(* The type invariant. *)
WSTypeOK ==
  /\ m_state \in {"connecting", "open", "closing", "closed"}
  /\ m_internal_state \in {"USER_INIT", "READ_HTTP_REQUEST",
                           "PROCESS_HTTP_REQUEST", "PROCESS_CONNECTION"}
  /\ response \in {"none", "refused", "switching"}
  /\ timers \in Seq([kind : {"open", "close"},
                     status : {"armed", "expired", "over"}])
  /\ m_handshake_timer \in 0..Len(timers)
  /\ reading \in {"none", "handshake", "frame"}
  /\ writing \in Seq({"response", "frames", "doomed"})
  /\ posted \in Nat
  /\ pushed \in Seq(MessageKinds)
  /\ m_send_queue \in Seq(Numbers) /\ m_current_msgs \in Seq(Numbers)
  /\ wire \in Seq(Numbers)
  /\ m_write_flag \in BOOLEAN
  /\ shutdown \in {"none", "failed", "closed"}
  /\ asio \in {"idle", "onOpen", "frames", "onClose"}
  /\ buffer \in Seq(FrameKinds) /\ frames \in 0..MaxFrames
  /\ calls \in Seq({"on_open", "on_close"})
  /\ sender \in {"idle", "checked", "pushed", "thrown"}
  /\ needs_writing \in BOOLEAN /\ sends \in 0..MaxSends

(* The transport is never given a second write while one is outstanding,
   which would mix the bytes of two messages; m_current_msgs, whose last
   element handle_write_frame looks at, is not empty when a write of frames
   completes; and m_write_flag covers it. *)
OneWriteAtATime ==
  /\ Len(writing) <= 1
  /\ (m_current_msgs # <<>>) <=> (writing # <<>> /\ Head(writing) # "response")
  /\ m_current_msgs # <<>> => m_write_flag

(* What reaches the network is a prefix of what was pushed, in that order,
   whichever thread pushed it and whatever failed; and it ends with the first
   close frame, although dataSender may push a message behind one: its test of
   the state and its push are two critical sections. *)
WireInOrder ==
  \A i \in DOMAIN wire : wire[i] = i /\ (i < Len(wire) => ~Terminal(i))

(* No wake-up of the writer is lost: while messages wait on a connection that
   is not closed, a write is outstanding, write_frame is posted, or dataSender
   is about to post it. *)
QueuedIsOwed ==
  m_state # "closed" /\ m_send_queue # <<>> =>
    \/ writing # <<>>
    \/ posted > 0
    \/ sender = "pushed" /\ needs_writing

(* An open connection stays open until the peer or the program ends it, and
   learns of that: it listens, so that its handle does not stay in m_connections
   for ever, and no handshake timer runs that could end it for being late (one
   that had expired before, and waits as a handler, still can). *)
OpenIsServed ==
  m_state = "open" =>
    /\ asio = "idle" => reading = "frame"
    /\ \A i \in DOMAIN timers :
         timers[i].kind = "open" => timers[i].status # "armed"

(* The handlers are called as ConnectionLife.tla promises. *)
Life ==
  INSTANCE ConnectionLife
    WITH state <- IF m_state = "connecting" THEN "none" ELSE m_state

ImplementsLife == Life!LifeSpec

(* A connection that starts to close gets through on_close, whatever the peer
   does: the handle leaves m_connections. *)
ClosingEnds == Life!LeavesTheSet

(* A peer cannot hold a connection in the handshake. *)
HandshakeEnds ==
  m_internal_state \in {"READ_HTTP_REQUEST", "PROCESS_HTTP_REQUEST"}
    ~> m_state # "connecting"
==============================================================================
