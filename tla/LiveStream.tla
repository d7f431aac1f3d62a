----------------------------- MODULE LiveStream ------------------------------
(***************************************************************************)
(* Live streaming: the call of sendLiveVideoToClient (src/CStreamVideo.cpp)*)
(* around the threads of CaptureThreads.tla, the VideoStreamEncoder that   *)
(* turns frames into segments (src/CVideoStreamEncoder.cpp), the           *)
(* dataSender thread, and the VideoStreamSocket whose server thread runs   *)
(* the websocketpp handlers (src/CVideoStreamSocket.cpp).  Nothing in the  *)
(* repository calls the function: the environment does, and stores         *)
(* m_recording.                                                            *)
(*                                                                         *)
(* A segment is what one push on encodedFramesQueue holds: a self-contained*)
(* fragmented mp4 of one packet, numbered in the order of the pushes, or   *)
(* the dynamic buffer that Close pushes last (Final).  A message is a      *)
(* segment as sent: with its ftyp and moov boxes (init) or without, when   *)
(* filterAtoms has removed them.                                           *)
(***************************************************************************)
EXTENDS CaptureThreads

CONSTANT Clients  \* websocket connections, each living once

VARIABLES
  vpc,                    \* the call of sendLiveVideoToClient
  spc,                    \* dataSender
  camera,                 \* m_formatContext and m_decoderContext are open
  mIsOpen,                \* the encoder is open
  pending,                \* number of packets inside the codec
  made,                   \* number of segments pushed, Final excluded
  encodedFramesQueue,     \* the encoder's queue of segments
  m_initialization_sent,  \* an unfiltered segment has been sent
  message,                \* the message in dataSender's hands
  toSend,                 \* the connections its loop has still to visit
  server,                 \* the thread in VideoStreamSocket::run
  peer,                   \* the connection whose handler that thread is in
  conn,                   \* the websocketpp state of each connection
  m_connections,          \* the connections of the handlers' set
  m_client_connected,     \* what dataSender waits for on m_cv
  received,               \* received[c]: the messages queued for c, in order
  rearmed                 \* m_recording was set again during the call

encoderVars == <<mIsOpen, pending, made>>
senderVars == <<spc, m_initialization_sent, message, toSend>>
socketVars ==
  <<server, peer, conn, m_connections, m_client_connected>>
liveVars == <<captureVars, vpc, camera, encoderVars, encodedFramesQueue,
              senderVars, socketVars, received, rearmed>>

Final == 0
Segments == Frames \cup {Final}
Messages == [segment : Segments, init : BOOLEAN]

VideoSteps ==
  {"idle", "open", "camera", "spawn", "joinKey", "joinReader",
   "joinEncoder", "joinSender", "joinServer"}
SenderSteps ==
  {"none", "lock", "waiting", "check", "empty", "pop", "send", "sending",
   "done"}
ServerSteps ==
  {"none", "starting", "asio", "onOpen", "notify", "onClose", "terminated"}

NoMessage == [segment |-> Final, init |-> FALSE]

Init ==
  /\ CaptureInit
  /\ vpc = "idle" /\ spc = "none" /\ server = "none"
  /\ camera = FALSE
  /\ mIsOpen = FALSE /\ pending = 0 /\ made = 0
  /\ encodedFramesQueue = <<>>
  /\ m_initialization_sent = FALSE /\ message = NoMessage /\ toSend = {}
  /\ conn = [c \in Clients |-> "none"]
  /\ peer \in Clients
  /\ m_connections = {} /\ m_client_connected = FALSE
  /\ received = [c \in Clients |-> <<>>]
  /\ rearmed = FALSE

(* m_mutex is held across steps only by dataSender's loop over the
   connections; every other critical section is within one step. *)
MutexFree == spc # "sending"

-----------------------------------------------------------------------------
(* The owner of the object, and the function up to its threads. *)

SetRecording(on) ==
  /\ m_recording' = on
  /\ rearmed' = (rearmed \/ (on /\ ~m_recording /\ vpc # "idle"))
  /\ UNCHANGED <<threads, frames, vpc, camera, encoderVars,
                 encodedFramesQueue, senderVars, socketVars, received>>

VideoMoves(from, to) ==
  /\ vpc = from
  /\ vpc' = to
  /\ UNCHANGED <<m_recording, frames, encodedFramesQueue,
                 m_initialization_sent, message, toSend, peer, conn,
                 m_connections, m_client_connected, received>>

Call ==
  /\ VideoMoves("idle", "open")
  /\ rearmed' = FALSE
  /\ UNCHANGED <<threads, camera, encoderVars, spc, server>>

OpenEncoder ==
  /\ VideoMoves("open", "camera")
  /\ mIsOpen' = TRUE
  /\ UNCHANGED <<threads, camera, pending, made, spc, server, rearmed>>

OpenFails ==
  /\ VideoMoves("open", "idle")
  /\ UNCHANGED <<threads, camera, encoderVars, spc, server, rearmed>>

InitializeCamera ==
  /\ VideoMoves("camera", "spawn")
  /\ camera' = TRUE
  /\ UNCHANGED <<threads, encoderVars, spc, server, rearmed>>

(* Mutant: the failure of initializeCamera is not looked at. *)
CameraIgnored ==
  /\ VideoMoves("camera", "spawn")
  /\ UNCHANGED <<threads, camera, encoderVars, spc, server, rearmed>>

(* The early return destroys the local encoder, and with it the queue. *)
CameraFails ==
  /\ VideoMoves("camera", "idle")
  /\ mIsOpen' = FALSE
  /\ UNCHANGED <<threads, camera, pending, made, spc, server, rearmed>>

SpawnThreads ==
  /\ VideoMoves("spawn", "joinKey")
  /\ StartThreads
  /\ spc' = "lock" /\ server' = "starting"
  /\ UNCHANGED <<camera, encoderVars, rearmed>>

Join(from, to, over) ==
  /\ over
  /\ VideoMoves(from, to)
  /\ UNCHANGED <<threads, camera, encoderVars, spc, server, rearmed>>

(* The last join waits for run(), which nobody ever stops. *)
JoinThreads ==
  \/ Join("joinKey", "joinReader", kpc = "done")
  \/ Join("joinReader", "joinEncoder", rpc = "exit")
  \/ Join("joinEncoder", "joinSender", epc = "exit")
  \/ Join("joinSender", "joinServer", spc = "done")

VideoStep ==
  \/ OpenEncoder \/ OpenFails \/ InitializeCamera \/ CameraFails
  \/ SpawnThreads \/ JoinThreads

-----------------------------------------------------------------------------
(* VideoStreamEncoder. *)

(* Mutant: the segments of one flush are pushed in the wrong order. *)
PushReversed(n) ==
  /\ encodedFramesQueue' =
       encodedFramesQueue \o [i \in 1..n |-> made + n + 1 - i]
  /\ made' = made + n

(* remuxVideo for each of n packets: a segment of its own, pushed at once. *)
PushSegments(n) ==
  /\ encodedFramesQueue' = encodedFramesQueue \o [i \in 1..n |-> made + i]
  /\ made' = made + n

(* Mutant: a packet that went out stays in the codec. *)
FlushAgain(inside) ==
  \E n \in 0..inside : PushSegments(n) /\ pending' = inside

(* FlushPackets: n of the packets inside the codec become segments; one
   more may be lost, when remuxing it fails and ends the loop. *)
FlushPackets(inside) ==
  \E n \in 0..inside :
    /\ PushSegments(n)
    /\ \/ pending' = inside - n
       \/ n < inside /\ pending' = inside - n - 1

(* Write: refused, or the frame goes in and what is ready comes out. *)
Write ==
  \/ UNCHANGED <<pending, made, encodedFramesQueue>>
  \/ mIsOpen /\ FlushPackets(pending + 1)

(* Mutant: Close throws the dynamic buffer away. *)
CloseQuietly ==
  /\ \E n \in 0..pending : PushSegments(n)
  /\ pending' = 0
  /\ mIsOpen' = FALSE

(* Close: the codec is drained as far as remuxing succeeds; what the dynamic
   buffer holds is pushed after everything else. *)
Close ==
  /\ \E n \in 0..pending :
       /\ encodedFramesQueue' =
            encodedFramesQueue \o [i \in 1..n |-> made + i] \o <<Final>>
       /\ made' = made + n
  /\ pending' = 0
  /\ mIsOpen' = FALSE

-----------------------------------------------------------------------------
(* The capture threads, each with the last act this function gives it. *)

KeyThread ==
  /\ KeyStep
  /\ UNCHANGED <<vpc, camera, encoderVars, encodedFramesQueue, senderVars,
                 socketVars, received, rearmed>>

(* Here the reader itself releases the camera. *)
ReaderCleanup ==
  /\ ReaderMoves("done", "exit")
  /\ camera' = FALSE
  /\ UNCHANGED frames

ReaderThread ==
  /\ \/ ReaderStep /\ UNCHANGED camera
     \/ ReaderCleanup
  /\ UNCHANGED <<vpc, encoderVars, encodedFramesQueue, senderVars, socketVars,
                 received, rearmed>>

(* And frameEncoder itself closes the encoder. *)
EncoderClose ==
  /\ EncoderMoves("done", "exit")
  /\ Close
  /\ UNCHANGED <<frameQueue, data, live>>

EncoderThread ==
  /\ \/ EncoderLoopStep /\ UNCHANGED <<encoderVars, encodedFramesQueue>>
     \/ WriteFrame /\ Write /\ UNCHANGED mIsOpen
     \/ EncoderClose
  /\ UNCHANGED <<vpc, camera, senderVars, socketVars, received, rearmed>>

-----------------------------------------------------------------------------
(* dataSender. *)

SenderMoves(from, to) ==
  /\ spc = from
  /\ spc' = to
  /\ UNCHANGED <<captureVars, vpc, camera, encoderVars, socketVars, rearmed>>

(* m_cv.wait: test the flag under m_mutex; wait if it is false. *)
SenderTest ==
  /\ SenderMoves("lock", IF m_client_connected THEN "check" ELSE "waiting")
  /\ UNCHANGED <<encodedFramesQueue, m_initialization_sent, message, toSend,
                 received>>

SenderSpuriousWake ==
  /\ SenderMoves("waiting", "lock")
  /\ UNCHANGED <<encodedFramesQueue, m_initialization_sent, message, toSend,
                 received>>

SenderCheck ==
  /\ SenderMoves("check", IF m_recording THEN "pop" ELSE "empty")
  /\ UNCHANGED <<encodedFramesQueue, m_initialization_sent, message, toSend,
                 received>>

SenderEmpty ==
  /\ SenderMoves("empty", IF encodedFramesQueue = <<>> THEN "done" ELSE "pop")
  /\ UNCHANGED <<encodedFramesQueue, m_initialization_sent, message, toSend,
                 received>>

(* The first segment goes out whole, later ones through filterAtoms. *)
MakeMessage ==
  /\ message' = [segment |-> Head(encodedFramesQueue),
                 init |-> ~m_initialization_sent]
  /\ m_initialization_sent' = TRUE

(* getEncodedFrame: a pop without a timeout. *)
SenderPop ==
  /\ encodedFramesQueue # <<>>
  /\ SenderMoves("pop", "send")
  /\ MakeMessage
  /\ encodedFramesQueue' = Tail(encodedFramesQueue)
  /\ UNCHANGED <<toSend, received>>

(* send_video_data takes m_mutex and walks through m_connections. *)
SendBegin ==
  /\ SenderMoves("send", "sending")
  /\ toSend' = m_connections
  /\ UNCHANGED <<encodedFramesQueue, m_initialization_sent, message, received>>

SendTo(c) ==
  /\ c \in toSend /\ conn[c] = "open"
  /\ SenderMoves("sending", "sending")
  /\ received' = [received EXCEPT ![c] = Append(@, message)]
  /\ toSend' = toSend \ {c}
  /\ UNCHANGED <<encodedFramesQueue, m_initialization_sent, message>>

(* m_server.send throws for a connection that is no longer open: the lock is
   released and the catch block ends the thread. *)
SendThrows(c) ==
  /\ c \in toSend /\ conn[c] # "open"
  /\ SenderMoves("sending", "done")
  /\ toSend' = {}
  /\ UNCHANGED <<encodedFramesQueue, m_initialization_sent, message, received>>

SendEnd ==
  /\ toSend = {}
  /\ SenderMoves("sending", "check")
  /\ UNCHANGED <<encodedFramesQueue, m_initialization_sent, message, toSend,
                 received>>

(* What scheduling owes the thread: everything but spurious wake-ups. *)
SenderStep ==
  \/ SenderTest \/ SenderCheck \/ SenderEmpty \/ SenderPop \/ SendBegin
  \/ (\E c \in Clients : SendTo(c) \/ SendThrows(c)) \/ SendEnd

-----------------------------------------------------------------------------
(* VideoStreamSocket, run by serverThread. *)

ServerMoves(from, to) ==
  /\ server = from
  /\ server' = to
  /\ UNCHANGED <<captureVars, vpc, camera, encoderVars, encodedFramesQueue,
                 m_initialization_sent, message, toSend, received, rearmed>>

Listen ==
  /\ ServerMoves("starting", "asio")
  /\ UNCHANGED <<spc, peer, conn, m_connections, m_client_connected>>

(* listen throws in a thread that catches nothing: std::terminate. *)
ListenFails ==
  /\ ServerMoves("starting", "terminated")
  /\ UNCHANGED <<spc, peer, conn, m_connections, m_client_connected>>

(* websocketpp changes the state of a connection, then calls the handler. *)
ConnectionOpens(c) ==
  /\ conn[c] = "none"
  /\ ServerMoves("asio", "onOpen")
  /\ conn' = [conn EXCEPT ![c] = "open"]
  /\ peer' = c
  /\ UNCHANGED <<spc, m_connections, m_client_connected>>

(* A close frame has been queued or a protocol error found: send refuses from
   now on, and no handler is called yet. *)
ConnectionCloses(c) ==
  /\ conn[c] = "open"
  /\ ServerMoves("asio", "asio")
  /\ conn' = [conn EXCEPT ![c] = "closing"]
  /\ UNCHANGED <<spc, peer, m_connections, m_client_connected>>

ConnectionEnds(c) ==
  /\ conn[c] \in {"open", "closing"}
  /\ ServerMoves("asio", "onClose")
  /\ conn' = [conn EXCEPT ![c] = "closed"]
  /\ peer' = c
  /\ UNCHANGED <<spc, m_connections, m_client_connected>>

(* Mutant: on_open does not notify. *)
OpenQuietly ==
  /\ MutexFree
  /\ ServerMoves("onOpen", "asio")
  /\ m_connections' = m_connections \cup {peer}
  /\ m_client_connected' = TRUE
  /\ UNCHANGED <<spc, peer, conn>>

OnOpen ==
  /\ MutexFree
  /\ ServerMoves("onOpen", "notify")
  /\ m_connections' = m_connections \cup {peer}
  /\ m_client_connected' = TRUE
  /\ UNCHANGED <<spc, peer, conn>>

(* m_cv.notify_all, after m_mutex has been released. *)
NotifyAll ==
  /\ ServerMoves("notify", "asio")
  /\ spc' = IF spc = "waiting" THEN "lock" ELSE spc
  /\ UNCHANGED <<peer, conn, m_connections, m_client_connected>>

(* Mutant: on_close does not take m_mutex. *)
CloseUnlocked ==
  /\ ServerMoves("onClose", "asio")
  /\ m_connections' = m_connections \ {peer}
  /\ m_client_connected' = (m_client_connected /\ m_connections' # {})
  /\ UNCHANGED <<spc, peer, conn>>

(* Mutant: on_close clears the set. *)
CloseAll ==
  /\ MutexFree
  /\ ServerMoves("onClose", "asio")
  /\ m_connections' = {}
  /\ m_client_connected' = FALSE
  /\ UNCHANGED <<spc, peer, conn>>

OnClose ==
  /\ MutexFree
  /\ ServerMoves("onClose", "asio")
  /\ m_connections' = m_connections \ {peer}
  /\ m_client_connected' = (m_client_connected /\ m_connections' # {})
  /\ UNCHANGED <<spc, peer, conn>>

ServerStep == Listen \/ ListenFails \/ OnOpen \/ NotifyAll \/ OnClose

NetworkStep ==
  \E c \in Clients :
    ConnectionOpens(c) \/ ConnectionCloses(c) \/ ConnectionEnds(c)

-----------------------------------------------------------------------------
Alive == server # "terminated"

Runs(step) == step /\ Alive

Next ==
  \/ Runs(\E on \in BOOLEAN : SetRecording(on))
  \/ Runs(Call)
  \/ Runs(VideoStep)
  \/ Runs(KeyThread)
  \/ Runs(ReaderThread)
  \/ Runs(EncoderThread)
  \/ Runs(SenderStep)
  \/ Runs(SenderSpuriousWake)
  \/ Runs(ServerStep)
  \/ Runs(NetworkStep)

Spec == Init /\ [][Next]_liveVars

(***************************************************************************)
(* Each thread is scheduled again and again.  Nobody is obliged to store   *)
(* m_recording, to press q, to connect or to disconnect, the camera need   *)
(* not deliver frames, and spurious wake-ups need not happen.              *)
(***************************************************************************)
Fairness ==
  /\ WF_liveVars(Runs(VideoStep))
  /\ WF_liveVars(Runs(KeyThread))
  /\ WF_liveVars(Runs(ReaderThread))
  /\ WF_liveVars(Runs(EncoderThread))
  /\ WF_liveVars(Runs(SenderStep))
  /\ WF_liveVars(Runs(ServerStep))

FairSpec == Spec /\ Fairness

-----------------------------------------------------------------------------
(* The type invariant. *)
LiveTypeOK ==
  /\ CaptureTypeOK
  /\ rpc \in ReaderSteps \cup {"exit"} /\ epc \in EncoderSteps \cup {"exit"}
  /\ vpc \in VideoSteps /\ spc \in SenderSteps /\ server \in ServerSteps
  /\ camera \in BOOLEAN /\ mIsOpen \in BOOLEAN
  /\ pending \in 0..MaxFrames /\ made \in 0..MaxFrames
  /\ encodedFramesQueue \in Seq(Segments)
  /\ m_initialization_sent \in BOOLEAN /\ message \in Messages
  /\ toSend \in SUBSET Clients /\ m_connections \in SUBSET Clients
  /\ peer \in Clients
  /\ conn \in [Clients -> {"none", "open", "closing", "closed"}]
  /\ m_client_connected \in BOOLEAN
  /\ received \in [Clients -> Seq(Messages)]
  /\ rearmed \in BOOLEAN

(* What the handlers have been told of a connection. *)
HandlersCalled(c) ==
  IF c \in m_connections THEN <<"on_open">>
  ELSE IF conn[c] = "closed" THEN <<"on_open", "on_close">> ELSE <<>>

Life(c) ==
  INSTANCE ConnectionLife WITH state <- conn[c], calls <- HandlersCalled(c)

(* The connections live as ConnectionLife.tla says, which WebSocketConnection
   implements; membership in m_connections is what the handlers make of it. *)
ConnectionsLive ==
  /\ \A c \in Clients : Life(c)!LifeInit
  /\ [][\A c \in Clients : [Life(c)!LifeNext]_(Life(c)!lifeVars)]_liveVars

(* The set that send_video_data iterates over does not change under its
   loop, although handlers run on another thread: what the loop has still to
   visit is still a member, and the handler's flag agrees with the set. *)
LoopOverStableSet ==
  /\ toSend \subseteq m_connections
  /\ m_client_connected <=> m_connections # {}

(* dataSender does not sleep through a connection: while it waits on m_cv
   and a client is connected, the notification is still to come. *)
NoMissedClient == spc = "waiting" /\ m_client_connected => server = "notify"

(* From the segment a client joined at onwards, none missing, none twice, none out
   of order, Final at the end. *)
Gapless ==
  \A c \in Clients : \A i \in 1..(Len(received[c]) - 1) :
    LET now == received[c][i].segment
        next == received[c][i + 1].segment
    IN  /\ now # Final
        /\ next = now + 1 \/ (next = Final /\ made = now)

(* One message carries the ftyp and moov boxes, the first that is sent to
   anybody: it is the first a client gets, and the same one for all. *)
InitSegmentOnce ==
  /\ \A c \in Clients : \A i \in 1..Len(received[c]) :
       received[c][i].init => i = 1
  /\ \A c, d \in Clients :
       received[c] # <<>> /\ received[d] # <<>>
         /\ Head(received[c]).init /\ Head(received[d]).init
         => Head(received[c]) = Head(received[d])

(* Every client sees the stream as it was made, whichever segment it joined at,
   and initialized by one message at most. *)
StreamInOrder == Gapless /\ InitSegmentOnce

(* No thread uses what another has released: the camera is open while the
   reader may read from it, the encoder while frameEncoder may write to it,
   and once the encoder is closed no segment follows Final. *)
UseBeforeRelease ==
  /\ rpc \in {"loop", "read"} => camera
  /\ epc \in {"pop", "write"} => mIsOpen
  /\ epc # "exit" => \A i \in 1..Len(encodedFramesQueue) :
                        encodedFramesQueue[i] # Final

(* frameEncoder waits in pop for a frame that no reader will push. *)
EncoderStarved == rpc = "exit" /\ epc = "pop" /\ frameQueue = <<>>

(* Once recording is off for good, never having been set again during the
   call, the call gets as far as joining the server thread, unless the encoder
   waits for ever for a frame or dataSender for a client.  dataSender is not
   left in a pop: Close pushes Final, so whoever saw the stop flag too late
   still finds a segment. *)
StopReachesServer ==
  <>[]~m_recording =>
    []<>(vpc \in {"idle", "joinServer"} \/ EncoderStarved \/ spc = "waiting"
         \/ rearmed \/ ~Alive)
==============================================================================
