-------------------------- MODULE LiveStreamProofs ---------------------------
(***************************************************************************)
(* Proofs about LiveStream, for any set of clients and any bound on the    *)
(* frames of a session.                                                    *)
(***************************************************************************)
EXTENDS LiveStream, SequenceTheorems, TLAPS

Joining ==
  {"joinKey", "joinReader", "joinEncoder", "joinSender", "joinServer"}

(* How far the threads can be, and what is open, at each point of the call. *)
Phases ==
  /\ vpc \in VideoSteps
  /\ kpc \in KeySteps
  /\ rpc \in ReaderSteps \cup {"exit"} /\ epc \in EncoderSteps \cup {"exit"}
  /\ spc \in SenderSteps /\ server \in ServerSteps
  /\ camera \in BOOLEAN /\ mIsOpen \in BOOLEAN
  /\ vpc \notin Joining =>
       /\ kpc = "none" /\ rpc = "none" /\ epc = "none"
       /\ spc = "none" /\ server = "none"
  /\ vpc \in Joining =>
       /\ rpc # "exit" => camera = TRUE
       /\ epc # "exit" => mIsOpen = TRUE
  /\ vpc = "camera" => mIsOpen = TRUE
  /\ vpc = "spawn" => camera = TRUE /\ mIsOpen = TRUE

(* What each part of a step leaves alone, beyond its own thread. *)
LEMMA StepCases ==
  ASSUME [Next]_liveVars
  PROVE  \/ \E on \in BOOLEAN : SetRecording(on)
         \/ Call
         \/ OpenEncoder \/ OpenFails \/ InitializeCamera \/ CameraFails
         \/ SpawnThreads
         \/ JoinThreads
         \/ KeyThread \/ ReaderThread
         \/ EncoderThread
         \/ SenderStep \/ SenderSpuriousWake
         \/ ServerStep \/ NetworkStep
         \/ UNCHANGED liveVars
BY DEF Next, Runs, VideoStep

LEMMA PhasesStep ==
  ASSUME Phases, [Next]_liveVars
  PROVE  Phases'
<1> USE DEF Phases, Joining, VideoSteps, KeySteps, ReaderSteps, EncoderSteps,
            SenderSteps, ServerSteps
<1>1. CASE Call \/ (\E on \in BOOLEAN : SetRecording(on))
  BY <1>1 DEF Call, SetRecording, VideoMoves, threads, encoderVars,
              senderVars, socketVars
<1>2. CASE OpenEncoder \/ OpenFails \/ InitializeCamera \/ CameraFails
  BY <1>2 DEF OpenEncoder, OpenFails, InitializeCamera, CameraFails,
              VideoMoves, threads, encoderVars
<1>3. CASE SpawnThreads
  BY <1>3 DEF SpawnThreads, StartThreads, VideoMoves, encoderVars
<1>4. CASE JoinThreads
  BY <1>4 DEF JoinThreads, Join, VideoMoves, threads, encoderVars
<1>5. CASE KeyThread
  BY <1>5 DEF KeyThread, KeyStep, KeyCheck, KeyOther, KeyQ, encoderVars,
              senderVars, socketVars
<1>6. CASE ReaderThread
  <2>1. UNCHANGED <<vpc, kpc, epc, spc, server, mIsOpen>>
    BY <1>6 DEF ReaderThread, ReaderStep, ReaderCleanup, ReaderMoves,
                ReaderCheck, ReaderLoop, ReadNothing, ReadFrame,
                NotifyObserver, PushFrame, encoderVars, senderVars, socketVars
  <2>2. CASE ReaderCleanup
    BY <2>1, <2>2 DEF ReaderCleanup, ReaderMoves
  <2>3. CASE ReaderStep /\ UNCHANGED camera
    <3>1. rpc \notin {"none", "exit"} /\ rpc' \in ReaderSteps
      BY <2>3 DEF ReaderStep, ReaderMoves, ReaderCheck, ReaderLoop,
                  ReadNothing, ReadFrame, NotifyObserver, PushFrame
    <3> QED
      BY <2>1, <2>3, <3>1
  <2> QED
    BY <1>6, <2>2, <2>3 DEF ReaderThread
<1>7. CASE EncoderThread
  <2>1. UNCHANGED <<vpc, kpc, rpc, spc, server, camera>>
    BY <1>7 DEF EncoderThread, EncoderLoopStep, EncoderMoves, EncoderCheck,
                EncoderEmpty, PopFrame, FreeFrame, WriteFrame, EncoderClose,
                senderVars, socketVars
  <2>2. CASE EncoderClose
    BY <2>1, <2>2 DEF EncoderClose, EncoderMoves, Close
  <2>3. CASE EncoderLoopStep /\ UNCHANGED <<encoderVars, encodedFramesQueue>>
    BY <2>1, <2>3 DEF EncoderLoopStep, EncoderMoves, EncoderCheck,
                EncoderEmpty, PopFrame, FreeFrame, encoderVars
  <2>4. CASE WriteFrame /\ Write /\ UNCHANGED mIsOpen
    <3>1. epc = "write" /\ epc' = "free" /\ mIsOpen' = mIsOpen
      BY <2>4 DEF WriteFrame, EncoderMoves
    <3> QED
      BY <2>1, <3>1
  <2> QED
    BY <1>7, <2>2, <2>3, <2>4 DEF EncoderThread
<1>8. CASE SenderStep \/ SenderSpuriousWake
  BY <1>8 DEF SenderStep, SenderSpuriousWake, SenderTest, SenderCheck,
              SenderEmpty, SenderPop, SendBegin, SendTo, SendThrows, SendEnd,
              SenderMoves, captureVars, threads, encoderVars, socketVars
<1>9. CASE ServerStep \/ NetworkStep
  BY <1>9 DEF ServerStep, NetworkStep, Listen, ListenFails, OnOpen,
              NotifyAll, OnClose, ConnectionOpens, ConnectionCloses,
              ConnectionEnds, ServerMoves, captureVars, threads, encoderVars
<1>10. CASE UNCHANGED liveVars
  BY <1>10 DEF liveVars, captureVars, threads, encoderVars, senderVars,
               socketVars
<1> QED
  BY StepCases, <1>1, <1>2, <1>3, <1>4, <1>5, <1>6, <1>7, <1>8, <1>9, <1>10

LEMMA PhasesInvariant == Spec => []Phases
<1>1. Init => Phases
  BY DEF Init, CaptureInit, Phases, Joining, VideoSteps, KeySteps,
         ReaderSteps, EncoderSteps, SenderSteps, ServerSteps
<1>2. Phases /\ [Next]_liveVars => Phases'
  BY PhasesStep
<1> QED
  BY <1>1, <1>2, PTL DEF Spec

-----------------------------------------------------------------------------
(* The set of the handlers and the connections of the library: a member has
   opened, a connection that has opened is a member but while on_open is on
   its way, and one that has ended is not but while on_close is.  The loop of
   send_video_data, which keeps the handlers out, visits members only. *)
Sockets ==
  /\ conn \in [Clients -> {"none", "open", "closing", "closed"}]
  /\ m_connections \in SUBSET Clients /\ toSend \in SUBSET m_connections
  /\ peer \in Clients
  /\ m_client_connected \in BOOLEAN
  /\ m_client_connected = TRUE <=> m_connections # {}
  /\ toSend # {} => spc = "sending"
  /\ server = "onOpen" => conn[peer] = "open" /\ peer \notin m_connections
  /\ server = "onClose" => conn[peer] = "closed" /\ peer \in m_connections
  /\ \A c \in Clients :
       /\ conn[c] = "none" => c \notin m_connections
       /\ conn[c] \in {"open", "closing"} =>
            c \in m_connections \/ (server = "onOpen" /\ c = peer)
       /\ conn[c] = "closed" /\ c \in m_connections =>
            server = "onClose" /\ c = peer
  /\ spc = "waiting" /\ m_client_connected = TRUE => server = "notify"

Lives == \A c \in Clients : [Life(c)!LifeNext]_(Life(c)!lifeVars)

(* Threads that neither send nor serve leave the sockets alone. *)
LEMMA SocketsRest ==
  ASSUME Sockets, UNCHANGED <<socketVars, spc, toSend>>
  PROVE  Sockets' /\ Lives
BY DEF Sockets, Lives, socketVars, HandlersCalled, Life!lifeVars

LEMMA SocketsSpawn ==
  ASSUME Phases, Sockets, SpawnThreads
  PROVE  Sockets' /\ Lives
<1>1. /\ server = "none" /\ spc = "none"
      /\ server' = "starting" /\ spc' = "lock"
      /\ UNCHANGED <<toSend, peer, conn, m_connections, m_client_connected>>
  BY DEF SpawnThreads, VideoMoves, Phases, Joining
<1> QED
  BY <1>1 DEF Sockets, Lives, HandlersCalled, Life!lifeVars

(* What dataSender may do to them: nothing but its loop and its wait. *)
LEMMA SocketsSent ==
  ASSUME Sockets, UNCHANGED socketVars, toSend' \in SUBSET m_connections,
         toSend' = {} \/ spc' = "sending",
         spc' # "waiting" \/ m_client_connected = FALSE
  PROVE  Sockets'
<1>1. UNCHANGED <<server, peer, conn, m_connections, m_client_connected>>
  BY DEF socketVars
<1>2. /\ spc' = "waiting" /\ m_client_connected' = TRUE => server' = "notify"
      /\ toSend' # {} => spc' = "sending"
      /\ toSend' \in SUBSET m_connections'
  BY <1>1
<1> QED
  BY <1>1, <1>2 DEF Sockets

LEMMA SocketsSender ==
  ASSUME Sockets, SenderStep \/ SenderSpuriousWake
  PROVE  Sockets' /\ Lives
<1>1. UNCHANGED socketVars
  BY DEF SenderStep, SenderSpuriousWake, SenderTest, SenderCheck,
         SenderEmpty, SenderPop, SendBegin, SendTo, SendThrows, SendEnd,
         SenderMoves
<1>2. Lives
  BY <1>1 DEF socketVars, Lives, HandlersCalled, Life!lifeVars
<1>3. /\ m_client_connected \in BOOLEAN
      /\ toSend \in SUBSET m_connections
      /\ toSend # {} => spc = "sending"
  BY DEF Sockets
<1>4. CASE SenderTest
  <2>1. spc = "lock" /\ toSend' = toSend
    BY <1>4 DEF SenderTest, SenderMoves
  <2>2. spc' # "waiting" \/ m_client_connected = FALSE
    BY <1>3, <1>4 DEF SenderTest, SenderMoves
  <2> QED
    BY <1>1, <1>2, <1>3, <2>1, <2>2, SocketsSent
<1>5. CASE SenderSpuriousWake \/ SenderCheck \/ SenderEmpty \/ SenderPop
  <2>1. /\ spc \in {"waiting", "check", "empty", "pop"}
        /\ spc' \in {"lock", "pop", "empty", "done", "send"}
        /\ toSend' = toSend
    BY <1>5 DEF SenderSpuriousWake, SenderCheck, SenderEmpty, SenderPop,
                SenderMoves
  <2> QED
    BY <1>1, <1>2, <1>3, <2>1, SocketsSent
<1>6. CASE SendBegin
  BY <1>1, <1>2, <1>6, SocketsSent DEF SendBegin, SenderMoves
<1>7. CASE SendEnd
  BY <1>1, <1>2, <1>7, SocketsSent DEF SendEnd, SenderMoves
<1>8. CASE \E c \in Clients : SendTo(c) \/ SendThrows(c)
  <2>1. toSend' \in SUBSET toSend
    BY <1>8 DEF SendTo, SendThrows, SenderMoves
  <2>2. spc' = "sending" \/ (spc' = "done" /\ toSend' = {})
    BY <1>8 DEF SendTo, SendThrows, SenderMoves
  <2> QED
    BY <1>1, <1>2, <1>3, <2>1, <2>2, SocketsSent
<1> QED
  BY <1>4, <1>5, <1>6, <1>7, <1>8 DEF SenderStep

LEMMA SocketsServer ==
  ASSUME Sockets, ServerStep
  PROVE  Sockets' /\ Lives
<1>0. toSend' = toSend
  BY DEF ServerStep, Listen, ListenFails, OnOpen, NotifyAll, OnClose,
         ServerMoves
<1>1. CASE Listen \/ ListenFails \/ NotifyAll
  <2>1. UNCHANGED <<peer, conn, m_connections, m_client_connected>>
    BY <1>1 DEF Listen, ListenFails, NotifyAll, ServerMoves
  <2>2. Lives
    BY <2>1 DEF Lives, HandlersCalled, Life!lifeVars
  <2>3. /\ server \in {"starting", "notify"}
        /\ server' \in {"asio", "terminated"}
        /\ spc' # "waiting" \/ (spc' = spc /\ server = "starting")
        /\ spc' = spc \/ (spc = "waiting" /\ spc' = "lock")
    BY <1>1 DEF Listen, ListenFails, NotifyAll, ServerMoves
  <2> QED
    BY <1>0, <2>1, <2>2, <2>3 DEF Sockets
<1>2. CASE OnOpen
  <2>1. /\ server = "onOpen" /\ server' = "notify" /\ spc # "sending"
        /\ m_connections' = m_connections \cup {peer}
        /\ m_client_connected' = TRUE
        /\ UNCHANGED <<spc, peer, conn>>
    BY <1>2 DEF OnOpen, ServerMoves, MutexFree
  <2>2. Sockets'
    BY <1>0, <2>1 DEF Sockets
  <2>3. Lives
    BY <2>1 DEF Sockets, Lives, HandlersCalled, Life!lifeVars,
                Life!LifeNext, Life!OpenHandler
  <2> QED
    BY <2>2, <2>3
<1>3. CASE OnClose
  <2>1. /\ server = "onClose" /\ server' = "asio" /\ spc # "sending"
        /\ m_connections' = m_connections \ {peer}
        /\ m_client_connected' = (m_client_connected /\ m_connections' # {})
        /\ UNCHANGED <<spc, peer, conn>>
    BY <1>3 DEF OnClose, ServerMoves, MutexFree
  <2>2. /\ m_client_connected' \in BOOLEAN
        /\ m_client_connected' = TRUE <=> m_connections' # {}
        /\ m_client_connected = TRUE
    BY <2>1 DEF Sockets
  <2>3. Sockets'
    BY <1>0, <2>1, <2>2 DEF Sockets
  <2>4. Lives
    BY <2>1 DEF Sockets, Lives, HandlersCalled, Life!lifeVars,
                Life!LifeNext, Life!CloseHandler, Life!Registered
  <2> QED
    BY <2>3, <2>4
<1> QED
  BY <1>1, <1>2, <1>3 DEF ServerStep

LEMMA SocketsNetwork ==
  ASSUME Sockets, NetworkStep
  PROVE  Sockets' /\ Lives
<1>1. PICK c \in Clients :
        ConnectionOpens(c) \/ ConnectionCloses(c) \/ ConnectionEnds(c)
  BY DEF NetworkStep
<1>2. UNCHANGED <<spc, toSend, m_connections, m_client_connected>>
  BY <1>1 DEF ConnectionOpens, ConnectionCloses, ConnectionEnds, ServerMoves
<1>3. server = "asio"
  BY <1>1 DEF ConnectionOpens, ConnectionCloses, ConnectionEnds, ServerMoves
<1>4. CASE ConnectionOpens(c)
  <2>1. /\ conn[c] = "none" /\ conn' = [conn EXCEPT ![c] = "open"]
        /\ peer' = c /\ server' = "onOpen"
    BY <1>4 DEF ConnectionOpens, ServerMoves
  <2>2. Sockets'
    BY <1>2, <1>3, <2>1 DEF Sockets
  <2>3. Lives
    BY <1>2, <2>1 DEF Sockets, Lives, HandlersCalled, Life!lifeVars,
                      Life!LifeNext, Life!Opens
  <2> QED
    BY <2>2, <2>3
<1>5. CASE ConnectionCloses(c)
  <2>1. /\ conn[c] = "open" /\ conn' = [conn EXCEPT ![c] = "closing"]
        /\ peer' = peer /\ server' = "asio"
    BY <1>5 DEF ConnectionCloses, ServerMoves
  <2>2. Sockets'
    BY <1>2, <1>3, <2>1 DEF Sockets
  <2>3. Lives
    BY <1>2, <1>3, <2>1 DEF Sockets, Lives, HandlersCalled, Life!lifeVars,
                      Life!LifeNext, Life!Closes, Life!Registered
  <2> QED
    BY <2>2, <2>3
<1>6. CASE ConnectionEnds(c)
  <2>1. /\ conn[c] \in {"open", "closing"}
        /\ conn' = [conn EXCEPT ![c] = "closed"]
        /\ peer' = c /\ server' = "onClose"
    BY <1>6 DEF ConnectionEnds, ServerMoves
  <2>2. Sockets'
    BY <1>2, <1>3, <2>1 DEF Sockets
  <2>3. Lives
    BY <1>2, <1>3, <2>1 DEF Sockets, Lives, HandlersCalled, Life!lifeVars,
                      Life!LifeNext, Life!Ends, Life!Registered
  <2> QED
    BY <2>2, <2>3
<1> QED
  BY <1>1, <1>4, <1>5, <1>6

LEMMA SocketsStep ==
  ASSUME Phases, Sockets, [Next]_liveVars
  PROVE  Sockets' /\ Lives
<1>1. CASE \/ \E on \in BOOLEAN : SetRecording(on)
           \/ Call
           \/ OpenEncoder \/ OpenFails \/ InitializeCamera \/ CameraFails
           \/ JoinThreads
           \/ KeyThread \/ ReaderThread \/ EncoderThread
           \/ UNCHANGED liveVars
  <2>1. UNCHANGED <<socketVars, spc, toSend>>
    BY <1>1
    DEF SetRecording, Call, OpenEncoder, OpenFails, InitializeCamera,
        CameraFails, JoinThreads, Join, VideoMoves, KeyThread, ReaderThread,
        EncoderThread, liveVars, senderVars, socketVars
  <2> QED
    BY <2>1, SocketsRest
<1> QED
  BY <1>1, StepCases, SocketsSpawn, SocketsSender, SocketsServer,
     SocketsNetwork

LEMMA SocketsInvariant == Spec => [](Phases /\ Sockets)
<1>1. Init => Sockets
  BY DEF Init, Sockets
<1>2. Phases /\ Sockets /\ [Next]_liveVars => Sockets'
  BY SocketsStep
<1> QED
  BY <1>1, <1>2, PhasesInvariant, PTL DEF Spec

(* send_video_data walks through a set that no handler changes meanwhile, and
   the flag dataSender waits for says whether the set is empty. *)
THEOREM LoopIsSafe == Spec => []LoopOverStableSet
<1>1. Sockets => LoopOverStableSet
  BY DEF Sockets, LoopOverStableSet
<1> QED
  BY <1>1, SocketsInvariant, PTL

(* dataSender never waits on m_cv with a client connected and the
   notification already gone. *)
THEOREM NoClientMissed == Spec => []NoMissedClient
<1>1. Sockets => NoMissedClient
  BY DEF Sockets, NoMissedClient
<1> QED
  BY <1>1, SocketsInvariant, PTL

(* Each connection lives as the abstract one: the handlers of the server are
   called for it in order, once each, and the set says which were. *)
THEOREM ConnectionsImplementLife == Spec => ConnectionsLive
<1>1. Init => \A c \in Clients : Life(c)!LifeInit
  BY DEF Init, HandlersCalled, Life!LifeInit
<1>2. Phases /\ Sockets /\ [Next]_liveVars => [Lives]_liveVars
  BY SocketsStep
<1>3. [Lives]_liveVars =>
        [\A c \in Clients : [Life(c)!LifeNext]_(Life(c)!lifeVars)]_liveVars
  BY DEF Lives
<1> QED
  BY <1>1, <1>2, <1>3, SocketsInvariant, PTL DEF Spec, ConnectionsLive
-----------------------------------------------------------------------------
(* Every segment made, every packet in the codec, every frame in the queue or
   in a thread's hands is a frame captured in this session; so none of them
   outgrows MaxFrames. *)
Writing == IF epc = "write" THEN 1 ELSE 0
Reading == IF rpc \in {"notify", "push"} THEN 1 ELSE 0

Counted ==
  /\ made \in Nat /\ pending \in Nat
  /\ made + pending + Len(frameQueue) + Writing + Reading <= captured

CapturedOK ==
  /\ m_recording \in BOOLEAN /\ rearmed \in BOOLEAN
  /\ frameQueue \in Seq(Frames)
  /\ captured \in 0..MaxFrames /\ data \in 0..MaxFrames
  /\ live \in SUBSET Frames

(* Final is pushed by Close, and not before. *)
Queued ==
  /\ encodedFramesQueue \in Seq(Segments)
  /\ epc # "exit" => encodedFramesQueue \in Seq(Frames)
  /\ m_initialization_sent \in BOOLEAN /\ message \in Messages
  /\ received \in [Clients -> Seq(Messages)]

TInv == Phases /\ Sockets /\ Counted /\ CapturedOK /\ Queued

(* The segments that n packets become, when made were before them. *)
Run(n) == [i \in 1..n |-> made + i]

LEMMA RunIsFrames ==
  ASSUME made \in Nat, NEW n \in Nat, made + n <= MaxFrames
  PROVE  /\ Run(n) \in Seq(Frames) /\ Len(Run(n)) = n
         /\ \A i \in 1..n : Run(n)[i] = made + i
<1>1. \A i \in 1..n : made + i \in Frames
  BY MaxFramesAssumption DEF Frames
<1>2. Run(n) \in [1..n -> Frames]
  BY <1>1 DEF Run
<1>3. Run(n) \in Seq(Frames) /\ Len(Run(n)) = n
  BY <1>2, SeqDef, LenProperties
<1> QED
  BY <1>3 DEF Run

(* What Write and Close push, and what they leave in the codec. *)
LEMMA WritePushes ==
  ASSUME made \in Nat, pending \in Nat, Write
  PROVE  \/ UNCHANGED <<pending, made, encodedFramesQueue>>
         \/ \E n \in Nat : /\ made' = made + n
                           /\ pending' \in Nat /\ n + pending' <= pending + 1
                           /\ encodedFramesQueue' = encodedFramesQueue \o Run(n)
<1>1. CASE FlushPackets(pending + 1)
  <2>1. PICK n \in 0..(pending + 1) :
          /\ PushSegments(n)
          /\ \/ pending' = (pending + 1) - n
             \/ n < pending + 1 /\ pending' = ((pending + 1) - n) - 1
    BY <1>1 DEF FlushPackets
  <2>2. n \in Nat /\ pending' \in Nat /\ n + pending' <= pending + 1
    BY <2>1
  <2>3. made' = made + n /\ encodedFramesQueue' = encodedFramesQueue \o Run(n)
    BY <2>1 DEF PushSegments, Run
  <2> QED
    BY <2>2, <2>3
<1> QED
  BY <1>1 DEF Write

LEMMA ClosePushes ==
  ASSUME made \in Nat, pending \in Nat, Close
  PROVE  \E n \in Nat :
           /\ n <= pending /\ made' = made + n /\ pending' = 0
           /\ encodedFramesQueue' = (encodedFramesQueue \o Run(n)) \o <<Final>>
BY DEF Close, Run

LEMMA WriteCounts ==
  ASSUME NEW a \in Nat, NEW b \in Nat, NEW c \in Nat, NEW d \in Nat,
         NEW e \in Nat, NEW f \in Nat, NEW n \in Nat,
         a + b + c + 1 + d <= e, n + f <= b + 1
  PROVE  (a + n) + f + c + d <= e /\ a + n <= e
OBVIOUS

(* The shared queues and counters under each thread. *)
LEMMA CountsReader ==
  ASSUME TInv, ReaderThread
  PROVE  Counted' /\ CapturedOK'
<1> USE DEF TInv, Counted, CapturedOK, Writing, Reading, frames, threads,
            captureVars, encoderVars
<1>0. Len(frameQueue) \in Nat
  BY LenProperties
<1>1. UNCHANGED <<made, pending, m_recording, rearmed, epc, data>>
  BY DEF ReaderThread, ReaderStep, ReaderCleanup, ReaderMoves, ReaderCheck,
         ReaderLoop, ReadNothing, ReadFrame, NotifyObserver, PushFrame
<1>2. CASE \/ ReaderCheck \/ ReaderLoop \/ ReadNothing \/ NotifyObserver
           \/ ReaderCleanup
  <2>1. /\ UNCHANGED frames
        /\ \/ rpc \notin {"notify", "push"} /\ rpc' \notin {"notify", "push"}
           \/ rpc = "notify" /\ rpc' = "push"
    BY <1>2 DEF ReaderMoves, ReaderCheck, ReaderLoop, ReadNothing,
                NotifyObserver, ReaderCleanup
  <2>2. Reading' = Reading /\ Writing' = Writing
    BY <1>1, <2>1
  <2> HIDE DEF Writing, Reading
  <2> QED
    BY <1>0, <1>1, <2>1, <2>2
<1>3. CASE ReadFrame
  <2>1. /\ captured < MaxFrames /\ rpc = "read" /\ rpc' = "notify"
        /\ captured' = captured + 1 /\ live' = live \cup {captured + 1}
        /\ frameQueue' = frameQueue
    BY <1>3 DEF ReaderMoves, ReadFrame
  <2>2. captured + 1 \in Frames /\ captured + 1 \in 0..MaxFrames
    BY <2>1, MaxFramesAssumption DEF Frames
  <2>3. CapturedOK'
    BY <1>1, <2>1, <2>2
  <2>4. Reading = 0 /\ Reading' = 1 /\ Writing' = Writing
    BY <1>1, <2>1
  <2>5. captured \in Nat /\ Writing \in Nat
    BY MaxFramesAssumption
  <2> HIDE DEF Writing, Reading
  <2>6. Counted'
    BY <1>0, <1>1, <2>1, <2>4, <2>5
  <2> QED
    BY <2>3, <2>6
<1>4. CASE PushFrame
  <2>1. /\ rpc = "push" /\ rpc' = "check"
        /\ frameQueue' = Append(frameQueue, captured)
        /\ UNCHANGED <<captured, live>>
    BY <1>4 DEF ReaderMoves, PushFrame
  <2>2. Reading = 1 /\ Reading' = 0 /\ Writing' = Writing
    BY <1>1, <2>1
  <2>3. captured \in Nat /\ Writing \in Nat
    BY MaxFramesAssumption
  <2>4. captured \in Frames
    <3> HIDE DEF Writing, Reading
    <3> QED
      BY <1>0, <2>2, <2>3, MaxFramesAssumption DEF Frames
  <2>5. /\ frameQueue' \in Seq(Frames)
        /\ Len(frameQueue') = Len(frameQueue) + 1
    BY <2>1, <2>4, AppendProperties
  <2>6. CapturedOK'
    BY <1>1, <2>1, <2>5
  <2> HIDE DEF Writing, Reading
  <2>7. Counted'
    BY <1>0, <1>1, <2>1, <2>2, <2>3, <2>5
  <2> QED
    BY <2>6, <2>7
<1> QED
  BY <1>2, <1>3, <1>4 DEF ReaderThread, ReaderStep

LEMMA CountsEncoder ==
  ASSUME TInv, EncoderThread
  PROVE  /\ Counted' /\ CapturedOK'
         /\ encodedFramesQueue' \in Seq(Segments)
         /\ epc' # "exit" => encodedFramesQueue' \in Seq(Frames)
<1> USE DEF TInv, Counted, CapturedOK, Queued, Writing, Reading, frames,
            threads, captureVars, encoderVars
<1>0. Len(frameQueue) \in Nat /\ captured \in Nat /\ Reading \in Nat
  BY LenProperties, MaxFramesAssumption
<1>1. UNCHANGED <<m_recording, rearmed, rpc, captured>>
  BY DEF EncoderThread, EncoderLoopStep, EncoderMoves, EncoderCheck,
         EncoderEmpty, PopFrame, FreeFrame, WriteFrame, EncoderClose
<1>2. Reading' = Reading
  BY <1>1
<1>a. Frames \subseteq Segments /\ Seq(Frames) \subseteq Seq(Segments)
  BY DEF Segments
<1>3. CASE EncoderCheck \/ EncoderEmpty \/ FreeFrame
  <2>1. /\ epc \in {"check", "empty", "free"}
        /\ epc' \in {"pop", "empty", "done", "check"}
        /\ data' \in {data, 0} /\ live' \in SUBSET live
        /\ frameQueue' = frameQueue
    BY <1>3 DEF EncoderMoves, EncoderCheck, EncoderEmpty, FreeFrame
  <2>2. UNCHANGED <<made, pending, encodedFramesQueue>>
    BY <1>3 DEF EncoderThread, EncoderMoves, EncoderCheck, EncoderEmpty,
                FreeFrame, EncoderLoopStep, WriteFrame, EncoderClose
  <2>3. Writing = 0 /\ Writing' = 0
    BY <2>1
  <2>4. CapturedOK'
    BY <1>1, <2>1, MaxFramesAssumption
  <2>5. Counted'
    <3> HIDE DEF Writing, Reading
    <3> QED
      BY <1>0, <1>1, <1>2, <2>1, <2>2, <2>3
  <2> QED
    BY <2>1, <2>2, <2>4, <2>5
<1>4. CASE PopFrame
  <2>1. /\ epc = "pop" /\ epc' = "write" /\ frameQueue # <<>>
        /\ data' = Head(frameQueue) /\ frameQueue' = Tail(frameQueue)
        /\ live' = live
    BY <1>4 DEF EncoderMoves, PopFrame
  <2>2. UNCHANGED <<made, pending, encodedFramesQueue>>
    BY <2>1 DEF EncoderThread, EncoderMoves, EncoderCheck, EncoderEmpty,
                FreeFrame, EncoderLoopStep, WriteFrame, EncoderClose
  <2>3. Writing = 0 /\ Writing' = 1
    BY <2>1
  <2>4. /\ Head(frameQueue) \in Frames /\ Tail(frameQueue) \in Seq(Frames)
        /\ Len(Tail(frameQueue)) = Len(frameQueue) - 1
    BY <2>1, HeadTailProperties
  <2>5. Frames \subseteq 0..MaxFrames
    BY MaxFramesAssumption DEF Frames
  <2>6. CapturedOK'
    BY <1>1, <2>1, <2>4, <2>5
  <2>7. Counted'
    <3> HIDE DEF Writing, Reading
    <3> QED
      BY <1>0, <1>1, <1>2, <2>1, <2>2, <2>3, <2>4
  <2> QED
    BY <2>1, <2>2, <2>6, <2>7
<1>5. CASE WriteFrame /\ Write /\ UNCHANGED mIsOpen
  <2>1. /\ epc = "write" /\ epc' = "free"
        /\ UNCHANGED <<frameQueue, data, live>>
    BY <1>5 DEF EncoderMoves, WriteFrame
  <2>2. Writing = 1 /\ Writing' = 0
    BY <2>1
  <2>3. CapturedOK'
    BY <1>1, <2>1
  <2>4. CASE UNCHANGED <<pending, made, encodedFramesQueue>>
    <3>1. Counted'
      <4> HIDE DEF Writing, Reading
      <4> QED
        BY <1>0, <1>1, <1>2, <2>1, <2>2, <2>4
    <3> QED
      BY <2>1, <2>3, <2>4, <3>1
  <2>5. ASSUME NEW n \in Nat, made' = made + n, pending' \in Nat,
               n + pending' <= pending + 1,
               encodedFramesQueue' = encodedFramesQueue \o Run(n)
        PROVE  /\ Counted' /\ CapturedOK'
               /\ encodedFramesQueue' \in Seq(Frames)
    <3>1. /\ made' + pending' + Len(frameQueue) + Reading <= captured
          /\ made + n <= captured
      <4>1. made + pending + Len(frameQueue) + 1 + Reading <= captured
        BY <2>2
      <4>2. /\ made \in Nat /\ pending \in Nat
            /\ made' = made + n /\ pending' \in Nat
            /\ n + pending' <= pending + 1
        BY <2>5
      <4> HIDE DEF Writing, Reading, TInv
      <4> QED
        BY <4>1, <4>2, <1>0, WriteCounts
    <3>2. Counted'
      <4> HIDE DEF Writing, Reading
      <4> QED
        BY <1>0, <1>1, <1>2, <2>1, <2>2, <2>5, <3>1
    <3>3. Run(n) \in Seq(Frames)
      BY <1>0, <3>1, RunIsFrames, MaxFramesAssumption
    <3>4. encodedFramesQueue' \in Seq(Frames)
      BY <2>1, <2>5, <3>3, ConcatProperties
    <3> QED
      BY <2>3, <3>2, <3>4
  <2> QED
    BY <1>5, <1>a, <2>4, <2>5, WritePushes
<1>6. CASE EncoderClose
  <2>1. /\ epc = "done" /\ epc' = "exit" /\ Close
        /\ UNCHANGED <<frameQueue, data, live>>
    BY <1>6 DEF EncoderMoves, EncoderClose
  <2>2. Writing = 0 /\ Writing' = 0
    BY <2>1
  <2>3. PICK n \in Nat :
          /\ n <= pending /\ made' = made + n /\ pending' = 0
          /\ encodedFramesQueue' = (encodedFramesQueue \o Run(n)) \o <<Final>>
    BY <2>1, ClosePushes
  <2>4. /\ made' + pending' + Len(frameQueue) + Reading <= captured
        /\ made + n <= captured
    <3>1. made + pending + Len(frameQueue) + 0 + Reading <= captured
      BY <2>2
    <3> HIDE DEF Writing, Reading
    <3> QED
      BY <3>1, <1>0, <2>3
  <2>5. Counted'
    <3> HIDE DEF Writing, Reading
    <3> QED
      BY <1>0, <1>1, <1>2, <2>1, <2>2, <2>3, <2>4
  <2>6. CapturedOK'
    BY <1>1, <2>1
  <2>7. Run(n) \in Seq(Frames)
    BY <1>0, <2>4, RunIsFrames, MaxFramesAssumption
  <2>8. encodedFramesQueue \o Run(n) \in Seq(Segments)
    BY <1>a, <2>7, ConcatProperties
  <2>9. encodedFramesQueue' \in Seq(Segments)
    <3>1. <<Final>> \in Seq(Segments)
      BY DEF Segments
    <3> QED
      BY <2>3, <2>8, <3>1, ConcatProperties
  <2> QED
    BY <2>1, <2>5, <2>6, <2>9
<1> QED
  BY <1>3, <1>4, <1>5, <1>6 DEF EncoderThread, EncoderLoopStep

(* The steps of dataSender that touch the queue, a message or a client. *)
LEMMA SenderCases ==
  ASSUME SenderStep \/ SenderSpuriousWake
  PROVE  \/ UNCHANGED <<encodedFramesQueue, m_initialization_sent, message,
                        received>>
         \/ SenderPop
         \/ \E c \in Clients : SendTo(c)
BY DEF SenderStep, SenderSpuriousWake, SenderTest, SenderCheck, SenderEmpty,
       SendBegin, SendThrows, SendEnd

LEMMA QueuedSender ==
  ASSUME Queued, SenderStep \/ SenderSpuriousWake
  PROVE  Queued'
<1>1. epc' = epc
  BY DEF SenderStep, SenderSpuriousWake, SenderTest, SenderCheck,
         SenderEmpty, SenderPop, SendBegin, SendTo, SendThrows, SendEnd,
         SenderMoves, captureVars, threads
<1>2. CASE UNCHANGED <<encodedFramesQueue, m_initialization_sent, message,
                       received>>
  BY <1>1, <1>2 DEF Queued
<1>3. CASE SenderPop
  <2>1. /\ encodedFramesQueue # <<>>
        /\ encodedFramesQueue' = Tail(encodedFramesQueue)
        /\ message' = [segment |-> Head(encodedFramesQueue),
                       init |-> ~m_initialization_sent]
        /\ m_initialization_sent' = TRUE /\ received' = received
    BY <1>3 DEF SenderPop, MakeMessage
  <2>2. /\ Head(encodedFramesQueue) \in Segments
        /\ Tail(encodedFramesQueue) \in Seq(Segments)
    BY <2>1, HeadTailProperties DEF Queued
  <2>3. epc # "exit" => Tail(encodedFramesQueue) \in Seq(Frames)
    BY <2>1, HeadTailProperties DEF Queued
  <2>4. message' \in Messages
    BY <2>1, <2>2 DEF Messages
  <2> QED
    BY <1>1, <2>1, <2>2, <2>3, <2>4 DEF Queued
<1>4. CASE \E c \in Clients : SendTo(c)
  <2>1. PICK c \in Clients : SendTo(c)
    BY <1>4
  <2>2. /\ received' = [received EXCEPT ![c] = Append(@, message)]
        /\ UNCHANGED <<encodedFramesQueue, m_initialization_sent, message>>
    BY <2>1 DEF SendTo
  <2>3. Append(received[c], message) \in Seq(Messages)
    BY AppendProperties DEF Queued
  <2> QED
    BY <1>1, <2>2, <2>3 DEF Queued
<1> QED
  BY <1>2, <1>3, <1>4, SenderCases

LEMMA TypesStep ==
  ASSUME TInv, [Next]_liveVars
  PROVE  Counted' /\ CapturedOK' /\ Queued'
<1> USE DEF TInv, Writing, Reading, frames, threads, captureVars,
            encoderVars, senderVars, socketVars
<1>1. CASE Call \/ (\E on \in BOOLEAN : SetRecording(on))
  BY <1>1 DEF Call, SetRecording, VideoMoves, Counted, CapturedOK, Queued
<1>2. CASE OpenEncoder \/ OpenFails \/ InitializeCamera \/ CameraFails
  BY <1>2 DEF OpenEncoder, OpenFails, InitializeCamera, CameraFails,
              VideoMoves, Counted, CapturedOK, Queued
<1>3. CASE SpawnThreads
  <2>1. /\ epc = "none" /\ rpc = "none" /\ epc' = "check" /\ rpc' = "check"
        /\ UNCHANGED <<made, pending, frames, m_recording, rearmed,
                       encodedFramesQueue, m_initialization_sent, message,
                       received>>
    BY <1>3 DEF SpawnThreads, StartThreads, VideoMoves, Phases, Joining
  <2> QED
    BY <2>1 DEF Counted, CapturedOK, Queued
<1>4. CASE JoinThreads
  BY <1>4 DEF JoinThreads, Join, VideoMoves, Counted, CapturedOK, Queued
<1>5. CASE KeyThread
  BY <1>5 DEF KeyThread, KeyStep, KeyCheck, KeyOther, KeyQ, Counted,
              CapturedOK, Queued
<1>6. CASE ReaderThread
  <2>1. Queued'
    BY <1>6 DEF ReaderThread, ReaderStep, ReaderCleanup, ReaderMoves,
                ReaderCheck, ReaderLoop, ReadNothing, ReadFrame,
                NotifyObserver, PushFrame, Queued
  <2> QED
    BY <1>6, <2>1, CountsReader
<1>7. CASE EncoderThread
  <2>1. UNCHANGED <<m_initialization_sent, message, received>>
    BY <1>7 DEF EncoderThread
  <2> QED
    BY <1>7, <2>1, CountsEncoder DEF Queued
<1>8. CASE SenderStep \/ SenderSpuriousWake
  <2>1. UNCHANGED <<captureVars, encoderVars, rearmed>>
    BY <1>8 DEF SenderStep, SenderSpuriousWake, SenderTest, SenderCheck,
         SenderEmpty, SenderPop, SendBegin, SendTo, SendThrows, SendEnd,
         SenderMoves
  <2> QED
    BY <1>8, <2>1, QueuedSender DEF Counted, CapturedOK
<1>9. CASE ServerStep \/ NetworkStep
  <2>1. UNCHANGED <<captureVars, encoderVars, rearmed, encodedFramesQueue,
                    m_initialization_sent, message, received>>
    BY <1>9 DEF ServerStep, NetworkStep, Listen, ListenFails, OnOpen,
                NotifyAll, OnClose, ConnectionOpens, ConnectionCloses,
                ConnectionEnds, ServerMoves
  <2> QED
    BY <2>1 DEF Counted, CapturedOK, Queued
<1>10. CASE UNCHANGED liveVars
  BY <1>10 DEF liveVars, Counted, CapturedOK, Queued
<1> QED
  BY StepCases, <1>1, <1>2, <1>3, <1>4, <1>5, <1>6, <1>7, <1>8, <1>9, <1>10

LEMMA TypesInvariant == Spec => []TInv
<1>1. Init => Counted /\ CapturedOK /\ Queued
  <2> SUFFICES ASSUME Init
               PROVE  Counted /\ CapturedOK /\ Queued
    OBVIOUS
  <2> USE DEF Init, CaptureInit
  <2>1. Len(frameQueue) = 0 /\ frameQueue \in Seq(Frames)
    BY EmptySeq
  <2>2. Counted
    BY <2>1 DEF Counted, Writing, Reading
  <2>3. CapturedOK
    <3>1. captured \in 0..MaxFrames /\ data \in 0..MaxFrames
      BY MaxFramesAssumption
    <3>2. m_recording \in BOOLEAN /\ rearmed \in BOOLEAN
      OBVIOUS
    <3>3. live \in SUBSET Frames
      OBVIOUS
    <3> HIDE DEF Init, CaptureInit
    <3> QED
      BY <2>1, <3>1, <3>2, <3>3 DEF CapturedOK
  <2>4. Queued
    <3>1. /\ <<>> \in Seq(Segments) /\ <<>> \in Seq(Frames)
          /\ <<>> \in Seq(Messages)
      BY EmptySeq
    <3> QED
      BY <3>1 DEF Queued, NoMessage, Messages, Segments
  <2> QED
    BY <2>2, <2>3, <2>4
<1>2. TInv /\ [Next]_liveVars => TInv'
  BY TypesStep, SocketsStep, PhasesStep DEF TInv
<1>3. Init => TInv
  <2>1. Init => Phases
    BY DEF Init, CaptureInit, Phases, Joining, VideoSteps, KeySteps,
           ReaderSteps, EncoderSteps, SenderSteps, ServerSteps
  <2>2. Init => Sockets
    BY DEF Init, Sockets
  <2> QED
    BY <1>1, <2>1, <2>2 DEF TInv
<1> QED
  BY <1>2, <1>3, PTL DEF Spec

(* Every variable keeps its type, whatever the threads, the handlers and the
   network do; no counter outgrows the frames captured. *)
THEOREM LiveTypes == Spec => []LiveTypeOK
<1>1. TInv => LiveTypeOK
  <2> SUFFICES ASSUME TInv
               PROVE  LiveTypeOK
    OBVIOUS
  <2>1. pending \in 0..MaxFrames /\ made \in 0..MaxFrames
    <3>1. /\ Len(frameQueue) \in Nat /\ captured \in Nat
          /\ captured <= MaxFrames
      BY LenProperties, MaxFramesAssumption DEF TInv, CapturedOK
    <3>2. Writing \in Nat /\ Reading \in Nat
      BY DEF Writing, Reading
    <3>3. /\ made \in Nat /\ pending \in Nat
          /\ made + pending + Len(frameQueue) + Writing + Reading <= captured
      BY DEF TInv, Counted
    <3> HIDE DEF TInv
    <3> QED
      BY <3>1, <3>2, <3>3, MaxFramesAssumption
  <2>2. CaptureTypeOK
    BY DEF TInv, CaptureTypeOK, CapturedOK, Phases
  <2> QED
    BY <2>1, <2>2 DEF LiveTypeOK, TInv, Phases, Sockets, Queued, CapturedOK
<1> QED
  BY <1>1, TypesInvariant, PTL

(* The camera outlives the reader's last read, the encoder frameEncoder's
   last Write, and Final is pushed only when the encoder is closed. *)
THEOREM UseIsBeforeRelease == Spec => []UseBeforeRelease
<1>1. TInv => UseBeforeRelease
  <2> SUFFICES ASSUME TInv
               PROVE  UseBeforeRelease
    OBVIOUS
  <2>1. /\ rpc \in {"loop", "read"} => camera
        /\ epc \in {"pop", "write"} => mIsOpen
    BY DEF TInv, Phases
  <2>2. ASSUME epc # "exit", NEW i \in 1..Len(encodedFramesQueue)
        PROVE  encodedFramesQueue[i] # Final
    <3>1. encodedFramesQueue[i] \in Frames
      BY <2>2, ElementOfSeq DEF TInv, Queued
    <3> QED
      BY <3>1 DEF Frames, Final
  <2> QED
    BY <2>1, <2>2 DEF UseBeforeRelease
<1> QED
  BY <1>1, TypesInvariant, PTL

-----------------------------------------------------------------------------
(* The stream by number: m segments have been made, and Final, once the
   encoder is closed, counts as the one after them. *)
NumberIn(s, m) == IF s = Final THEN m + 1 ELSE s

(* q continues the stream after its first k segments. *)
Continues(q, m, k) == \A i \in 1..Len(q) : NumberIn(q[i], m) = k + i

(* r is a piece of the stream without a gap, within its first k segments. *)
Consecutive(r, m, k) ==
  \A i \in 1..Len(r) :
    /\ NumberIn(r[i].segment, m) <= k
    /\ i < Len(r) =>
         NumberIn(r[i + 1].segment, m) = NumberIn(r[i].segment, m) + 1

EndsAt(r, m, k) == r # <<>> => NumberIn(r[Len(r)].segment, m) = k

LEMMA TailContinues ==
  ASSUME NEW q \in Seq(Segments), NEW m \in Nat, NEW k \in Int, q # <<>>,
         Continues(q, m, k)
  PROVE  NumberIn(Head(q), m) = k + 1 /\ Continues(Tail(q), m, k + 1)
<1>1. Len(q) \in Nat \ {0}
  BY EmptySeq
<1>2. Head(q) = q[1] /\ Len(Tail(q)) = Len(q) - 1
  BY HeadTailProperties
<1>3. NumberIn(Head(q), m) = k + 1
  BY <1>1, <1>2 DEF Continues
<1>4. ASSUME NEW i \in 1..Len(Tail(q))
      PROVE  NumberIn(Tail(q)[i], m) = (k + 1) + i
  <2>1. i \in 1..(Len(q) - 1) /\ i + 1 \in 1..Len(q)
    BY <1>1, <1>2
  <2>2. Tail(q)[i] = q[i + 1]
    BY <2>1, <1>2, HeadTailProperties
  <2>3. NumberIn(q[i + 1], m) = k + (i + 1)
    BY <2>1 DEF Continues
  <2>4. k + (i + 1) = (k + 1) + i
    BY <1>1, <2>1
  <2> QED
    BY <2>2, <2>3, <2>4
<1> QED
  BY <1>3, <1>4 DEF Continues

(* What was taken before stays numbered as it was when more is made. *)
LEMMA MoreMade ==
  ASSUME NEW r \in Seq(Messages), NEW m \in Nat, NEW n \in Nat,
         NEW k \in Int, k <= m, Consecutive(r, m, k), NEW e \in Int
  PROVE  /\ Consecutive(r, m + n, k)
         /\ EndsAt(r, m, e) => EndsAt(r, m + n, e)
<1>1. ASSUME NEW i \in 1..Len(r)
      PROVE  NumberIn(r[i].segment, m + n) = NumberIn(r[i].segment, m)
  <2>1. NumberIn(r[i].segment, m) <= k
    BY DEF Consecutive
  <2>2. r[i].segment # Final
    BY <2>1 DEF NumberIn
  <2> QED
    BY <2>2 DEF NumberIn
<1>2. Len(r) \in Nat /\ (r # <<>> => Len(r) \in 1..Len(r))
  BY EmptySeq, LenProperties
<1>3. EndsAt(r, m, e) => EndsAt(r, m + n, e)
  BY <1>1, <1>2 DEF EndsAt
<1>4. ASSUME NEW i \in 1..Len(r)
      PROVE  /\ NumberIn(r[i].segment, m + n) <= k
             /\ i < Len(r) => NumberIn(r[i + 1].segment, m + n)
                                = NumberIn(r[i].segment, m + n) + 1
  <2>1. i < Len(r) => i + 1 \in 1..Len(r)
    BY <1>2
  <2> QED
    BY <1>1, <2>1 DEF Consecutive
<1> QED
  BY <1>3, <1>4 DEF Consecutive

LEMMA AppendStream ==
  ASSUME NEW r \in Seq(Messages), NEW x \in Messages, NEW m \in Nat,
         NEW k \in Int, Consecutive(r, m, k), EndsAt(r, m, k - 1),
         NumberIn(x.segment, m) = k
  PROVE  Consecutive(Append(r, x), m, k) /\ EndsAt(Append(r, x), m, k)
<1> DEFINE a == Append(r, x)
<1>1. /\ Len(r) \in Nat /\ Len(a) = Len(r) + 1 /\ a # <<>>
      /\ \A i \in 1..Len(r) : a[i] = r[i]
      /\ a[Len(r) + 1] = x
  BY AppendProperties, LenProperties
<1> HIDE DEF a
<1>2. EndsAt(a, m, k)
  BY <1>1 DEF EndsAt
<1>3. ASSUME NEW i \in 1..Len(a)
      PROVE  /\ NumberIn(a[i].segment, m) <= k
             /\ i < Len(a) => NumberIn(a[i + 1].segment, m)
                                = NumberIn(a[i].segment, m) + 1
  <2>1. CASE i = Len(r) + 1
    BY <1>1, <2>1
  <2>2. CASE i = Len(r)
    <3>1. i \in 1..Len(r) /\ r # <<>>
      BY <1>1, <2>2, EmptySeq
    <3>2. NumberIn(r[i].segment, m) = k - 1
      BY <2>2, <3>1 DEF EndsAt
    <3>3. a[i] = r[i] /\ a[i + 1] = x
      BY <1>1, <2>2, <3>1
    <3> QED
      BY <3>2, <3>3
  <2>3. CASE i \in 1..(Len(r) - 1)
    <3>1. /\ i \in 1..Len(r) /\ i + 1 \in 1..Len(r) /\ i < Len(r)
      BY <1>1, <2>3
    <3>2. a[i] = r[i] /\ a[i + 1] = r[i + 1]
      BY <1>1, <3>1
    <3> QED
      BY <3>1, <3>2 DEF Consecutive
  <2>4. i = Len(r) + 1 \/ i = Len(r) \/ i \in 1..(Len(r) - 1)
    BY <1>1
  <2> QED
    BY <2>1, <2>2, <2>3, <2>4
<1>4. Consecutive(a, m, k)
  BY <1>3 DEF Consecutive
<1> QED
  BY <1>2, <1>4 DEF a

(* The segments of one flush continue the stream, and so does Final. *)
LEMMA RunContinues ==
  ASSUME NEW q \in Seq(Frames), NEW n \in Nat, NEW k \in Int,
         made \in Nat, made + n <= MaxFrames, k + Len(q) = made,
         Continues(q, made, k)
  PROVE  LET p == q \o Run(n)
         IN  /\ p \in Seq(Frames) /\ Len(p) = Len(q) + n
             /\ Continues(p, made + n, k)
             /\ p \o <<Final>> \in Seq(Segments)
             /\ Len(p \o <<Final>>) = (Len(q) + n) + 1
             /\ Continues(p \o <<Final>>, made + n, k)
<1> DEFINE p == q \o Run(n)
           z == <<Final>>
<1>1. /\ Run(n) \in Seq(Frames) /\ Len(Run(n)) = n /\ Len(q) \in Nat
      /\ \A i \in 1..n : Run(n)[i] = made + i
  BY RunIsFrames, LenProperties
<1>2. /\ p \in Seq(Frames) /\ Len(p) = Len(q) + n
      /\ \A i \in 1..(Len(q) + n) :
           p[i] = IF i <= Len(q) THEN q[i] ELSE Run(n)[i - Len(q)]
  <2> DEFINE t == Run(n)
  <2>1. t \in Seq(Frames) /\ Len(t) = n
    BY <1>1
  <2> HIDE DEF t
  <2>2. /\ q \o t \in Seq(Frames) /\ Len(q \o t) = Len(q) + Len(t)
        /\ \A i \in 1..(Len(q) + Len(t)) :
             (q \o t)[i] = IF i <= Len(q) THEN q[i] ELSE t[i - Len(q)]
    BY <2>1, ConcatProperties
  <2> QED
    BY <2>1, <2>2 DEF t
<1>3. ASSUME NEW i \in 1..(Len(q) + n)
      PROVE  p[i] \in Frames /\ p[i] = k + i
  <2>1. p[i] \in Frames
    BY <1>2, ElementOfSeq
  <2>2. CASE i <= Len(q)
    <3>1. i \in 1..Len(q) /\ p[i] = q[i]
      BY <1>1, <1>2, <2>2
    <3>2. q[i] # Final
      BY <2>1, <3>1 DEF Frames, Final
    <3> QED
      BY <2>1, <3>1, <3>2 DEF Continues, NumberIn
  <2>3. CASE ~(i <= Len(q))
    <3>1. i - Len(q) \in 1..n
      BY <1>1, <2>3
    <3>2. p[i] = made + (i - Len(q))
      BY <1>1, <1>2, <2>3, <3>1
    <3> QED
      BY <1>1, <2>1, <3>2
  <2> QED
    BY <2>2, <2>3
<1>4. Continues(p, made + n, k)
  BY <1>2, <1>3 DEF Continues, NumberIn, Frames, Final
<1>5. p \in Seq(Segments) /\ z \in Seq(Segments) /\ Len(z) = 1 /\ z[1] = Final
  BY <1>2 DEF Segments
<1> HIDE DEF p, z
<1>6. /\ p \o z \in Seq(Segments) /\ Len(p \o z) = (Len(q) + n) + 1
      /\ \A i \in 1..(Len(p) + Len(z)) :
           (p \o z)[i] = IF i <= Len(p) THEN p[i] ELSE z[i - Len(p)]
  <2>1. /\ p \o z \in Seq(Segments) /\ Len(p \o z) = Len(p) + Len(z)
        /\ \A i \in 1..(Len(p) + Len(z)) :
             (p \o z)[i] = IF i <= Len(p) THEN p[i] ELSE z[i - Len(p)]
    BY <1>5, ConcatProperties
  <2> QED
    BY <1>2, <1>5, <2>1
<1>7. ASSUME NEW i \in 1..((Len(q) + n) + 1)
      PROVE  NumberIn((p \o z)[i], made + n) = k + i
  <2>1. CASE i <= Len(q) + n
    <3>1. i \in 1..(Len(q) + n)
      BY <1>1, <2>1
    <3>2. (p \o z)[i] = p[i]
      BY <1>1, <1>2, <1>5, <1>6, <2>1
    <3>3. p[i] \in Frames /\ p[i] = k + i
      BY <1>3, <3>1
    <3> QED
      BY <3>2, <3>3 DEF NumberIn, Frames, Final
  <2>2. CASE ~(i <= Len(q) + n)
    <3>1. i = (Len(q) + n) + 1 /\ i - Len(p) = 1
      <4>1. Len(p) = Len(q) + n /\ Len(q) \in Nat
        BY <1>1, <1>2
      <4> QED
        BY <2>2, <4>1
    <3>2. (p \o z)[i] = Final
      <4>1. i \in 1..(Len(p) + Len(z)) /\ ~(i <= Len(p))
        <5>1. Len(p) = Len(q) + n /\ Len(z) = 1 /\ Len(q) \in Nat
          BY <1>1, <1>2, <1>5
        <5> QED
          BY <2>2, <5>1
      <4>2. (p \o z)[i] = z[i - Len(p)]
        BY <1>6, <4>1
      <4> QED
        BY <1>5, <3>1, <4>2
    <3>3. (made + n) + 1 = k + i
      BY <1>1, <3>1
    <3> QED
      BY <3>2, <3>3 DEF NumberIn
  <2> QED
    BY <2>1, <2>2
<1>8. Continues(p \o z, made + n, k)
  BY <1>6, <1>7 DEF Continues
<1> QED
  BY <1>2, <1>4, <1>6, <1>8 DEF p, z

-----------------------------------------------------------------------------
(* The number of segments, Final among them, that left the encoder's queue. *)
Total == IF epc = "exit" THEN made + 1 ELSE made
Taken == Total - Len(encodedFramesQueue)

(* Where in the stream a client is: nowhere before it has joined or anything
   was sent; up to the last segment taken, or the one before while that is on
   its way, as long as it is a member of the set. *)
Served(c) ==
  /\ Consecutive(received[c], made, Taken)
  /\ spc \in {"none", "lock", "waiting"} => received[c] = <<>>
  /\ c \notin m_connections /\ conn[c] # "closed" => received[c] = <<>>
  /\ c \in m_connections =>
       /\ spc \in {"check", "empty", "pop"} =>
            EndsAt(received[c], made, Taken)
       /\ spc = "send" \/ c \in toSend => EndsAt(received[c], made, Taken - 1)
       /\ spc = "sending" /\ c \notin toSend =>
            EndsAt(received[c], made, Taken)

Ordered ==
  /\ Continues(encodedFramesQueue, made, Taken)
  /\ spc \in {"send", "sending"} => NumberIn(message.segment, made) = Taken
  /\ \A c \in Clients : Served(c)

OInv == TInv /\ Ordered

LEMMA TakenInt ==
  ASSUME TInv
  PROVE  /\ Len(encodedFramesQueue) \in Nat /\ made \in Nat
         /\ Total \in Nat /\ Taken \in Int /\ Taken <= made + 1
         /\ epc # "exit" => Taken <= made
<1>1. Len(encodedFramesQueue) \in Nat /\ made \in Nat
  BY LenProperties DEF TInv, Queued, Counted
<1> QED
  BY <1>1 DEF Total, Taken

(* Steps that neither push, pop nor send, and leave the set alone. *)
LEMMA OrderRests ==
  ASSUME Ordered,
         UNCHANGED <<encodedFramesQueue, made, message, received, toSend,
                     m_connections, conn>>,
         epc' = "exit" <=> epc = "exit",
         \/ spc' = spc
         \/ spc' \in {"lock", "waiting"} /\ spc \in {"none", "lock", "waiting"}
         \/ /\ spc' \in {"check", "empty", "pop"}
            /\ spc \in {"lock", "check", "empty"}
         \/ spc' = "done" /\ toSend = {}
  PROVE  Ordered'
<1>1. Total' = Total /\ Taken' = Taken
  BY DEF Total, Taken
<1>2. ASSUME NEW c \in Clients
      PROVE  Served(c)'
  <2>1. Served(c)
    BY DEF Ordered
  <2>2. spc = "lock" => EndsAt(received[c], made, Taken)
    BY <2>1 DEF Served, EndsAt
  <2>3. UNCHANGED <<made, Taken, received, toSend, m_connections, conn>>
    BY <1>1
  <2> HIDE DEF Taken, Total
  <2> QED
    BY <2>1, <2>2, <2>3 DEF Served
<1>3. Continues(encodedFramesQueue', made', Taken')
  BY <1>1 DEF Ordered
<1>4. spc' \in {"send", "sending"} => NumberIn(message'.segment, made') = Taken'
  BY <1>1 DEF Ordered
<1> QED
  BY <1>2, <1>3, <1>4 DEF Ordered

(* Handlers and connections: a connection joins with nothing received. *)
LEMMA OrderServer ==
  ASSUME OInv, ServerStep \/ NetworkStep
  PROVE  Ordered'
<1>1. UNCHANGED <<encodedFramesQueue, made, message, received, toSend, epc>>
  BY DEF ServerStep, NetworkStep, Listen, ListenFails, OnOpen, NotifyAll,
         OnClose, ConnectionOpens, ConnectionCloses, ConnectionEnds,
         ServerMoves, captureVars, threads, encoderVars
<1>2. CASE Listen \/ ListenFails \/ NotifyAll
  <2>1. UNCHANGED <<conn, m_connections>>
    BY <1>2 DEF Listen, ListenFails, NotifyAll
  <2>2. spc' = spc \/ (spc = "waiting" /\ spc' = "lock")
    BY <1>2 DEF Listen, ListenFails, NotifyAll
  <2> QED
    BY <1>1, <2>1, <2>2, OrderRests DEF OInv
<1>3. Total' = Total /\ Taken' = Taken
  BY <1>1 DEF Total, Taken
<1>4. ASSUME spc' = spc, \A c \in Clients : Served(c)'
      PROVE  Ordered'
  <2>1. /\ Continues(encodedFramesQueue', made', Taken')
        /\ spc' \in {"send", "sending"} =>
             NumberIn(message'.segment, made') = Taken'
    BY <1>1, <1>3, <1>4 DEF OInv, Ordered
  <2> QED
    BY <1>4, <2>1 DEF Ordered
<1> HIDE DEF Taken, Total
<1>5. CASE OnOpen
  <2>1. /\ server = "onOpen" /\ spc # "sending"
        /\ m_connections' = m_connections \cup {peer}
        /\ UNCHANGED <<spc, conn>>
    BY <1>5 DEF OnOpen, ServerMoves, MutexFree
  <2>2. conn[peer] = "open" /\ peer \notin m_connections /\ peer \in Clients
    BY <2>1 DEF OInv, TInv, Sockets
  <2>3. received[peer] = <<>>
    BY <2>2 DEF OInv, Ordered, Served
  <2>4. toSend = {}
    BY <2>1 DEF OInv, TInv, Sockets
  <2>5. ASSUME NEW c \in Clients
        PROVE  Served(c)'
    <3>1. Served(c)
      BY DEF OInv, Ordered
    <3> QED
      BY <1>1, <1>3, <2>1, <2>3, <2>4, <3>1 DEF Served, EndsAt
  <2> QED
    BY <1>4, <2>1, <2>5
<1>6. CASE OnClose
  <2>1. /\ server = "onClose" /\ m_connections' = m_connections \ {peer}
        /\ UNCHANGED <<spc, conn>>
    BY <1>6 DEF OnClose, ServerMoves
  <2>2. conn[peer] = "closed" /\ peer \in Clients
    BY <2>1 DEF OInv, TInv, Sockets
  <2>3. ASSUME NEW c \in Clients
        PROVE  Served(c)'
    <3>1. Served(c)
      BY DEF OInv, Ordered
    <3> QED
      BY <1>1, <1>3, <2>1, <2>2, <3>1 DEF Served
  <2> QED
    BY <1>4, <2>1, <2>3
<1>7. CASE NetworkStep
  <2>1. PICK c \in Clients :
          ConnectionOpens(c) \/ ConnectionCloses(c) \/ ConnectionEnds(c)
    BY <1>7 DEF NetworkStep
  <2>2. UNCHANGED <<spc, m_connections>>
    BY <2>1 DEF ConnectionOpens, ConnectionCloses, ConnectionEnds, ServerMoves
  <2>3. /\ conn[c] # "closed"
        /\ \A d \in Clients \ {c} : conn'[d] = conn[d]
    BY <2>1 DEF ConnectionOpens, ConnectionCloses, ConnectionEnds, OInv, TInv,
                Sockets
  <2>4. ASSUME NEW d \in Clients
        PROVE  Served(d)'
    <3>1. Served(d)
      BY DEF OInv, Ordered
    <3>2. conn'[d] # "closed" => conn[d] # "closed"
      BY <2>3
    <3> QED
      BY <1>1, <1>3, <2>2, <3>1, <3>2 DEF Served
  <2> QED
    BY <1>4, <2>2, <2>4
<1> QED
  BY <1>2, <1>5, <1>6, <1>7 DEF ServerStep

(* frameEncoder pushes: what was taken is numbered as before. *)
LEMMA OrderPushed ==
  ASSUME OInv, NEW n \in Nat, made' = made + n, Taken' = Taken,
         epc # "exit", Continues(encodedFramesQueue', made + n, Taken),
         UNCHANGED <<message, received, spc, toSend, m_connections, conn>>
  PROVE  Ordered'
<1>1. made \in Nat /\ Taken \in Int /\ Taken <= made
  BY TakenInt DEF OInv
<1> HIDE DEF Taken
<1>2. ASSUME NEW c \in Clients
      PROVE  Served(c)'
  <2>1. Served(c) /\ received[c] \in Seq(Messages)
    BY DEF OInv, TInv, Queued, Ordered
  <2>2. /\ Consecutive(received[c], made + n, Taken)
        /\ EndsAt(received[c], made, Taken) =>
             EndsAt(received[c], made + n, Taken)
        /\ EndsAt(received[c], made, Taken - 1) =>
             EndsAt(received[c], made + n, Taken - 1)
    <3>1. Taken - 1 \in Int /\ Consecutive(received[c], made, Taken)
      BY <1>1, <2>1 DEF Served
    <3> QED
      BY <1>1, <2>1, <3>1, MoreMade
  <2> QED
    BY <2>1, <2>2 DEF Served
<1>3. spc' \in {"send", "sending"} => NumberIn(message'.segment, made') = Taken'
  <2>1. ASSUME spc \in {"send", "sending"}
        PROVE  NumberIn(message.segment, made + n) = Taken
    <3>1. NumberIn(message.segment, made) = Taken
      BY <2>1 DEF OInv, Ordered
    <3>2. message.segment # Final
      BY <1>1, <3>1 DEF NumberIn
    <3> QED
      BY <3>1, <3>2 DEF NumberIn
  <2> QED
    BY <2>1
<1> QED
  BY <1>2, <1>3 DEF Ordered

LEMMA PartsOfAll ==
  ASSUME NEW a \in Nat, NEW b \in Nat, NEW max \in Nat
  PROVE  /\ a + b <= max => a <= max
         /\ \A c, d, e, all \in Nat :
              a + b + c + d + e <= all /\ all <= max => a + b <= max
OBVIOUS

LEMMA OrderEncoder ==
  ASSUME OInv, EncoderThread
  PROVE  Ordered'
<1>1. UNCHANGED <<message, received, spc, toSend, m_connections, conn>>
  BY DEF EncoderThread, senderVars, socketVars
<1>2. Counted'
  BY CountsEncoder DEF OInv
<1>3. made' + pending' <= MaxFrames
  <2>1. /\ Len(frameQueue') \in Nat /\ captured' \in Nat
        /\ captured' <= MaxFrames
    BY CountsEncoder, LenProperties, MaxFramesAssumption DEF OInv, CapturedOK
  <2>2. Writing' \in Nat /\ Reading' \in Nat
    BY DEF Writing, Reading
  <2>3. /\ made' \in Nat /\ pending' \in Nat
        /\ made' + pending' + Len(frameQueue') + Writing' + Reading'
             <= captured'
    BY <1>2 DEF Counted
  <2> HIDE DEF OInv
  <2> QED
    BY <2>1, <2>2, <2>3, MaxFramesAssumption, PartsOfAll
<1>4. /\ Len(encodedFramesQueue) \in Nat /\ made \in Nat /\ pending \in Nat
      /\ made' \in Nat /\ pending' \in Nat
  BY <1>2, TakenInt DEF OInv, TInv, Counted
<1>5. Continues(encodedFramesQueue, made, Taken)
  BY DEF OInv, Ordered
<1>6. CASE /\ UNCHANGED <<made, encodedFramesQueue>>
           /\ epc # "exit" /\ epc' # "exit"
  BY <1>1, <1>6, OrderRests DEF OInv
<1>7. CASE EncoderLoopStep /\ UNCHANGED <<encoderVars, encodedFramesQueue>>
  BY <1>6, <1>7 DEF EncoderLoopStep, EncoderMoves, EncoderCheck, EncoderEmpty,
                    PopFrame, FreeFrame, encoderVars
<1>8. ASSUME NEW n \in Nat, epc # "exit", made' = made + n
      PROVE  LET p == encodedFramesQueue \o Run(n)
             IN  /\ Taken + Len(encodedFramesQueue) = made
                 /\ Len(p) = Len(encodedFramesQueue) + n
                 /\ Continues(p, made + n, Taken)
                 /\ Len(p \o <<Final>>) = (Len(encodedFramesQueue) + n) + 1
                 /\ Continues(p \o <<Final>>, made + n, Taken)
  <2>1. Taken + Len(encodedFramesQueue) = made /\ Taken \in Int
    BY <1>4, <1>8 DEF Taken, Total
  <2>2. encodedFramesQueue \in Seq(Frames)
    BY <1>8 DEF OInv, TInv, Queued
  <2>3. made + n <= MaxFrames
    BY <1>3, <1>4, <1>8, MaxFramesAssumption, PartsOfAll
  <2> HIDE DEF Taken
  <2> QED
    BY <1>4, <1>5, <2>1, <2>2, <2>3, RunContinues
<1>9. CASE WriteFrame /\ Write /\ UNCHANGED mIsOpen
  <2>1. epc # "exit" /\ epc' # "exit"
    BY <1>9 DEF WriteFrame, EncoderMoves
  <2>2. ASSUME NEW n \in Nat, made' = made + n,
               encodedFramesQueue' = encodedFramesQueue \o Run(n)
        PROVE  Ordered'
    <3>1. /\ Taken + Len(encodedFramesQueue) = made
          /\ Len(encodedFramesQueue') = Len(encodedFramesQueue) + n
          /\ Continues(encodedFramesQueue', made + n, Taken)
      BY <1>8, <2>1, <2>2
    <3>2. Taken' = Taken
      <4>1. /\ Taken = made - Len(encodedFramesQueue)
            /\ Taken' = made' - Len(encodedFramesQueue')
        BY <2>1 DEF Taken, Total
      <4> QED
        BY <1>4, <2>2, <3>1, <4>1
    <3> QED
      BY <1>1, <2>1, <2>2, <3>1, <3>2, OrderPushed
  <2>3. CASE UNCHANGED <<pending, made, encodedFramesQueue>>
    BY <1>6, <2>1, <2>3
  <2> QED
    BY <1>4, <1>9, <2>2, <2>3, WritePushes
<1>10. CASE EncoderClose
  <2>1. epc # "exit" /\ epc' = "exit" /\ Close
    BY <1>10 DEF EncoderClose, EncoderMoves
  <2>2. PICK n \in Nat :
          /\ made' = made + n
          /\ encodedFramesQueue' = (encodedFramesQueue \o Run(n)) \o <<Final>>
    BY <1>4, <2>1, ClosePushes
  <2>3. /\ Len(encodedFramesQueue') = (Len(encodedFramesQueue) + n) + 1
        /\ Continues(encodedFramesQueue', made + n, Taken)
    BY <1>8, <2>1, <2>2
  <2>4. Taken' = Taken
    <3>1. /\ Taken = made - Len(encodedFramesQueue)
          /\ Taken' = (made' + 1) - Len(encodedFramesQueue')
      BY <2>1 DEF Taken, Total
    <3> QED
      BY <1>4, <2>2, <2>3, <3>1
  <2> QED
    BY <1>1, <2>1, <2>2, <2>3, <2>4, OrderPushed
<1> QED
  BY <1>7, <1>9, <1>10 DEF EncoderThread

(* dataSender takes the next segment and sends it to each member once. *)
LEMMA OrderSender ==
  ASSUME OInv, SenderStep \/ SenderSpuriousWake
  PROVE  Ordered'
<1>1. UNCHANGED <<epc, made, m_connections, conn>>
  BY DEF SenderStep, SenderSpuriousWake, SenderTest, SenderCheck, SenderEmpty,
         SenderPop, SendBegin, SendTo, SendThrows, SendEnd, SenderMoves,
         captureVars, threads, encoderVars, socketVars
<1>2. /\ toSend \in SUBSET m_connections
      /\ toSend # {} => spc = "sending"
      /\ \A c \in Clients : Served(c)
      /\ Continues(encodedFramesQueue, made, Taken)
  BY DEF OInv, TInv, Sockets, Ordered
<1>3. CASE \/ SenderTest \/ SenderSpuriousWake \/ SenderCheck \/ SenderEmpty
  <2>1. /\ UNCHANGED <<encodedFramesQueue, message, received, toSend>>
        /\ \/ spc' \in {"lock", "waiting"} /\ spc \in {"lock", "waiting"}
           \/ /\ spc' \in {"check", "empty", "pop"}
              /\ spc \in {"lock", "check", "empty"}
           \/ spc' = "done" /\ spc = "empty"
    BY <1>3 DEF SenderTest, SenderSpuriousWake, SenderCheck, SenderEmpty,
                SenderMoves
  <2> QED
    BY <1>1, <1>2, <2>1, OrderRests DEF OInv
<1>4. CASE SenderPop
  <2>1. /\ spc = "pop" /\ spc' = "send" /\ encodedFramesQueue # <<>>
        /\ encodedFramesQueue' = Tail(encodedFramesQueue)
        /\ message'.segment = Head(encodedFramesQueue)
        /\ UNCHANGED <<toSend, received>>
    BY <1>4 DEF SenderPop, SenderMoves, MakeMessage
  <2>2. /\ encodedFramesQueue \in Seq(Segments)
        /\ made \in Nat /\ Taken \in Int
    BY TakenInt DEF OInv, TInv, Queued
  <2>3. Taken' = Taken + 1
    <3>1. Len(encodedFramesQueue') = Len(encodedFramesQueue) - 1
      BY <2>1, <2>2, HeadTailProperties
    <3> QED
      BY <1>1, <2>2, <3>1, TakenInt DEF Taken, Total, OInv
  <2> HIDE DEF Taken, Total
  <2>4. /\ NumberIn(message'.segment, made) = Taken + 1
        /\ Continues(encodedFramesQueue', made, Taken + 1)
    BY <1>2, <2>1, <2>2, TailContinues
  <2>5. ASSUME NEW c \in Clients
        PROVE  Served(c)'
    <3>1. Consecutive(received[c], made, Taken + 1)
      <4>1. ASSUME NEW i \in 1..Len(received[c])
            PROVE  NumberIn(received[c][i].segment, made) <= Taken + 1
        <5>1. NumberIn(received[c][i].segment, made) <= Taken
          BY <1>2, <4>1 DEF Served, Consecutive
        <5>2. received[c][i] \in Messages
          BY ElementOfSeq DEF OInv, TInv, Queued
        <5>3. NumberIn(received[c][i].segment, made) \in Int
          BY <2>2, <5>2 DEF Messages, Segments, Frames, Final, NumberIn
        <5> QED
          BY <2>2, <5>1, <5>3
      <4> QED
        BY <1>2, <4>1 DEF Served, Consecutive
    <3>2. (Taken + 1) - 1 = Taken
      BY <2>2
    <3>3. c \in m_connections => EndsAt(received[c], made, (Taken + 1) - 1)
      BY <1>2, <2>1, <3>2 DEF Served
    <3>4. toSend = {}
      BY <1>2, <2>1
    <3> QED
      BY <1>1, <1>2, <2>1, <2>3, <3>1, <3>3, <3>4 DEF Served
  <2> QED
    BY <1>1, <2>1, <2>3, <2>4, <2>5 DEF Ordered
<1>5. ASSUME UNCHANGED <<encodedFramesQueue, message>>,
             spc \in {"send", "sending"},
             \A c \in Clients : Served(c)'
      PROVE  Ordered'
  <2>1. Taken' = Taken
    BY <1>1, <1>5 DEF Taken, Total
  <2>2. NumberIn(message.segment, made) = Taken
    BY <1>5 DEF OInv, Ordered
  <2> QED
    BY <1>1, <1>2, <1>5, <2>1, <2>2 DEF Ordered
<1>6. CASE SendBegin
  <2>1. /\ spc = "send" /\ spc' = "sending" /\ toSend' = m_connections
        /\ UNCHANGED <<encodedFramesQueue, message, received>>
    BY <1>6 DEF SendBegin, SenderMoves
  <2>2. Taken' = Taken
    BY <1>1, <2>1 DEF Taken, Total
  <2> HIDE DEF Taken, Total
  <2>3. ASSUME NEW c \in Clients
        PROVE  Served(c)'
    BY <1>1, <1>2, <2>1, <2>2 DEF Served
  <2> QED
    BY <1>5, <2>1, <2>3
<1>7. CASE SendEnd
  <2>1. /\ spc = "sending" /\ spc' = "check" /\ toSend = {} /\ toSend' = {}
        /\ UNCHANGED <<encodedFramesQueue, message, received>>
    BY <1>7 DEF SendEnd, SenderMoves
  <2>2. Taken' = Taken
    BY <1>1, <2>1 DEF Taken, Total
  <2> HIDE DEF Taken, Total
  <2>3. ASSUME NEW c \in Clients
        PROVE  Served(c)'
    BY <1>1, <1>2, <2>1, <2>2 DEF Served
  <2> QED
    BY <1>5, <2>1, <2>3
<1>8. ASSUME NEW d \in Clients, SendThrows(d)
      PROVE  Ordered'
  <2>1. /\ spc = "sending" /\ spc' = "done" /\ toSend' = {}
        /\ UNCHANGED <<encodedFramesQueue, message, received>>
    BY <1>8 DEF SendThrows, SenderMoves
  <2>2. Taken' = Taken
    BY <1>1, <2>1 DEF Taken, Total
  <2> HIDE DEF Taken, Total
  <2>3. ASSUME NEW c \in Clients
        PROVE  Served(c)'
    BY <1>1, <1>2, <2>1, <2>2 DEF Served
  <2> QED
    BY <1>5, <2>1, <2>3
<1>9. ASSUME NEW d \in Clients, SendTo(d)
      PROVE  Ordered'
  <2>1. /\ spc = "sending" /\ spc' = "sending" /\ d \in toSend
        /\ toSend' = toSend \ {d}
        /\ received' = [received EXCEPT ![d] = Append(@, message)]
        /\ UNCHANGED <<encodedFramesQueue, message>>
    BY <1>9 DEF SendTo, SenderMoves
  <2>2. Taken' = Taken
    BY <1>1, <2>1 DEF Taken, Total
  <2>3. /\ received \in [Clients -> Seq(Messages)] /\ message \in Messages
        /\ made \in Nat /\ Taken \in Int
    BY TakenInt DEF OInv, TInv, Queued
  <2> HIDE DEF Taken, Total
  <2>4. /\ received'[d] = Append(received[d], message)
        /\ \A c \in Clients \ {d} : received'[c] = received[c]
    BY <2>1, <2>3
  <2>5. d \in m_connections
    BY <1>2, <2>1
  <2>6. /\ Consecutive(Append(received[d], message), made, Taken)
        /\ EndsAt(Append(received[d], message), made, Taken)
    <3>1. /\ Consecutive(received[d], made, Taken)
          /\ EndsAt(received[d], made, Taken - 1)
      BY <1>2, <2>1, <2>5 DEF Served
    <3>2. NumberIn(message.segment, made) = Taken
      BY <2>1 DEF OInv, Ordered
    <3> QED
      BY <2>3, <3>1, <3>2, AppendStream
  <2>7. Served(d)'
    BY <1>1, <2>1, <2>2, <2>4, <2>5, <2>6 DEF Served
  <2>8. ASSUME NEW c \in Clients \ {d}
        PROVE  Served(c)'
    BY <1>1, <1>2, <2>1, <2>2, <2>4 DEF Served
  <2> QED
    BY <1>5, <2>1, <2>7, <2>8
<1> QED
  BY <1>3, <1>4, <1>6, <1>7, <1>8, <1>9 DEF SenderStep

LEMMA OrderStep ==
  ASSUME OInv, [Next]_liveVars
  PROVE  Ordered'
<1>1. CASE \/ \E on \in BOOLEAN : SetRecording(on)
           \/ Call
           \/ OpenEncoder \/ OpenFails \/ InitializeCamera \/ CameraFails
           \/ JoinThreads
           \/ KeyThread \/ ReaderThread
           \/ UNCHANGED liveVars
  <2>1. UNCHANGED <<encodedFramesQueue, made, message, received, toSend,
                    m_connections, conn, epc, spc>>
    BY <1>1
    DEF SetRecording, Call, OpenEncoder, OpenFails, InitializeCamera,
        CameraFails, JoinThreads, Join, VideoMoves, KeyThread, KeyStep,
        KeyCheck, KeyOther, KeyQ, ReaderThread, ReaderStep, ReaderCleanup,
        ReaderMoves, ReaderCheck, ReaderLoop, ReadNothing, ReadFrame,
        NotifyObserver, PushFrame, liveVars, captureVars, threads,
        encoderVars, senderVars, socketVars
  <2>2. spc' = spc /\ (epc' = "exit" <=> epc = "exit")
    BY <2>1
  <2> QED
    BY <2>1, <2>2, OrderRests DEF OInv
<1>2. CASE SpawnThreads
  <2>1. /\ UNCHANGED <<encodedFramesQueue, made, message, received, toSend,
                       m_connections, conn>>
        /\ spc = "none" /\ spc' = "lock" /\ epc = "none" /\ epc' = "check"
    BY <1>2 DEF SpawnThreads, StartThreads, VideoMoves, OInv, TInv, Phases,
                Joining, encoderVars
  <2> QED
    BY <2>1, OrderRests DEF OInv
<1> QED
  BY <1>1, <1>2, StepCases, OrderEncoder, OrderSender, OrderServer

LEMMA OrderInvariant == Spec => []OInv
<1>1. Init => Ordered
  <2> SUFFICES ASSUME Init
               PROVE  Ordered
    OBVIOUS
  <2>1. Len(encodedFramesQueue) = 0
    BY EmptySeq DEF Init
  <2>2. ASSUME NEW c \in Clients
        PROVE  received[c] = <<>> /\ Len(received[c]) = 0
    BY EmptySeq DEF Init
  <2>3. Continues(encodedFramesQueue, made, Taken)
    BY <2>1 DEF Continues
  <2>4. spc = "none"
    BY DEF Init
  <2> QED
    BY <2>2, <2>3, <2>4 DEF Ordered, Served, Consecutive, EndsAt
<1>2. TInv /\ Ordered /\ [Next]_liveVars => Ordered'
  BY OrderStep DEF OInv
<1> QED
  BY <1>1, <1>2, TypesInvariant, PTL DEF Spec, OInv

(* What a client has is a run of the stream. *)
LEMMA StreamsAreGapless == Spec => []Gapless
<1>1. OInv => Gapless
  <2> SUFFICES ASSUME OInv, NEW c \in Clients,
                      NEW i \in 1..(Len(received[c]) - 1)
               PROVE  LET now == received[c][i].segment
                          next == received[c][i + 1].segment
                      IN  /\ now # Final
                          /\ next = now + 1 \/ (next = Final /\ made = now)
    BY DEF Gapless
  <2> DEFINE now == received[c][i].segment
             next == received[c][i + 1].segment
  <2>1. received[c] \in Seq(Messages) /\ Len(received[c]) \in Nat
    BY LenProperties DEF OInv, TInv, Queued
  <2>2. /\ i \in 1..Len(received[c]) /\ i + 1 \in 1..Len(received[c])
        /\ i < Len(received[c])
    BY <2>1
  <2>3. now \in Nat /\ next \in Nat
    <3>1. received[c][i] \in Messages /\ received[c][i + 1] \in Messages
      BY <2>1, <2>2, ElementOfSeq
    <3> QED
      BY <3>1 DEF Messages, Segments, Frames, Final
  <2>4. Consecutive(received[c], made, Taken)
    BY DEF OInv, Ordered, Served
  <2>5. /\ NumberIn(next, made) = NumberIn(now, made) + 1
        /\ NumberIn(next, made) <= Taken
    BY <2>2, <2>4 DEF Consecutive
  <2>6. made \in Nat /\ Taken \in Int /\ Taken <= made + 1
    BY TakenInt DEF OInv
  <2> HIDE DEF now, next, Taken
  <2>7. now # Final
    BY <2>3, <2>5, <2>6 DEF NumberIn
  <2>8. next = now + 1 \/ (next = Final /\ made = now)
    BY <2>3, <2>5, <2>6, <2>7 DEF NumberIn
  <2> QED
    BY <2>7, <2>8 DEF now, next
<1> QED
  BY <1>1, OrderInvariant, PTL

-----------------------------------------------------------------------------
(* The one message with its ftyp and moov boxes: before it is made nothing was
   sent, and while it is being sent a client has it alone or nothing. *)
InitOnce ==
  /\ m_initialization_sent = FALSE =>
       spc \notin {"send", "sending"} /\ \A c \in Clients : received[c] = <<>>
  /\ spc \in {"send", "sending"} /\ message.init = TRUE =>
       \A c \in Clients :
         \/ received[c] = <<>>
         \/ spc = "sending" /\ c \notin toSend /\ received[c] = <<message>>
  /\ \A c \in Clients : \A i \in 1..Len(received[c]) :
       received[c][i].init = TRUE => i = 1
  /\ \A c, d \in Clients :
       received[c] # <<>> /\ received[d] # <<>>
         /\ received[c][1].init = TRUE /\ received[d][1].init = TRUE
         => received[c][1] = received[d][1]

LEMMA InitRests ==
  ASSUME InitOnce, UNCHANGED <<m_initialization_sent, message, received>>,
         \/ spc' \notin {"send", "sending"}
         \/ spc' = spc /\ toSend' = toSend
         \/ spc = "send" /\ spc' = "sending"
  PROVE  InitOnce'
BY DEF InitOnce

LEMMA SingleMessage ==
  ASSUME NEW x \in Messages
  PROVE  /\ Append(<<>>, x) = <<x>>
         /\ Len(<<x>>) = 1 /\ <<x>>[1] = x /\ <<x>> # <<>>
OBVIOUS

LEMMA InitSender ==
  ASSUME TInv, InitOnce, SenderStep \/ SenderSpuriousWake
  PROVE  InitOnce'
<1>1. CASE \/ SenderTest \/ SenderSpuriousWake \/ SenderCheck \/ SenderEmpty
           \/ SendBegin \/ SendEnd \/ \E c \in Clients : SendThrows(c)
  <2>1. /\ UNCHANGED <<m_initialization_sent, message, received>>
        /\ \/ spc' \in {"lock", "waiting", "check", "empty", "pop", "done"}
           \/ spc = "send" /\ spc' = "sending"
    BY <1>1 DEF SenderTest, SenderSpuriousWake, SenderCheck, SenderEmpty,
                SendBegin, SendEnd, SendThrows, SenderMoves
  <2> QED
    BY <2>1, InitRests
<1>2. CASE SenderPop
  <2>1. /\ spc' = "send" /\ received' = received
        /\ message' = [segment |-> Head(encodedFramesQueue),
                       init |-> ~m_initialization_sent]
        /\ m_initialization_sent' = TRUE
    BY <1>2 DEF SenderPop, SenderMoves, MakeMessage
  <2>2. message'.init = TRUE => m_initialization_sent = FALSE
    BY <2>1 DEF TInv, Queued
  <2>3. /\ m_initialization_sent' # FALSE
        /\ message'.init = TRUE => \A c \in Clients : received'[c] = <<>>
    BY <2>1, <2>2 DEF InitOnce
  <2> HIDE DEF TInv
  <2> QED
    BY <2>1, <2>3 DEF InitOnce
<1>3. ASSUME NEW d \in Clients, SendTo(d)
      PROVE  InitOnce'
  <2>1. /\ spc = "sending" /\ spc' = "sending" /\ d \in toSend
        /\ toSend' = toSend \ {d}
        /\ received' = [received EXCEPT ![d] = Append(@, message)]
        /\ UNCHANGED <<m_initialization_sent, message>>
    BY <1>3 DEF SendTo, SenderMoves
  <2>2. /\ received \in [Clients -> Seq(Messages)] /\ message \in Messages
        /\ m_initialization_sent \in BOOLEAN
    BY DEF TInv, Queued
  <2>3. /\ received'[d] = Append(received[d], message)
        /\ \A c \in Clients \ {d} : received'[c] = received[c]
    BY <2>1, <2>2
  <2>4. m_initialization_sent = TRUE
    BY <2>1, <2>2 DEF InitOnce
  <2>5. CASE message.init = TRUE
    <3>1. /\ received[d] = <<>>
          /\ \A c \in Clients \ {d} :
               \/ received[c] = <<>>
               \/ c \notin toSend /\ received[c] = <<message>>
      BY <2>1, <2>5 DEF InitOnce
    <3>2. received'[d] = <<message>>
      BY <2>2, <2>3, <3>1, SingleMessage
    <3>3. \A c \in Clients :
            \/ received'[c] = <<>>
            \/ c \notin toSend' /\ received'[c] = <<message>>
      BY <2>1, <2>3, <3>1, <3>2
    <3>4. ASSUME NEW c \in Clients, received'[c] # <<>>
          PROVE  Len(received'[c]) = 1 /\ received'[c][1] = message
      <4>1. received'[c] = <<message>>
        BY <3>3, <3>4
      <4>2. Len(<<message>>) = 1 /\ <<message>>[1] = message
        OBVIOUS
      <4> QED
        BY <4>1, <4>2, Zenon
    <3>5. Len(<<>>) = 0
      BY EmptySeq
    <3>6. ASSUME NEW c \in Clients, NEW i \in 1..Len(received'[c])
          PROVE  i = 1
      <4>1. CASE received'[c] = <<>>
        <5>1. Len(received'[c]) = 0
          BY <3>5, <4>1, Zenon
        <5> QED
          BY <5>1
      <4>2. CASE received'[c] # <<>>
        <5>1. Len(received'[c]) = 1
          BY <3>4, <4>2, Zenon
        <5> QED
          BY <5>1
      <4> QED
        BY <4>1, <4>2
    <3>7. \A c, e \in Clients :
            received'[c] # <<>> /\ received'[e] # <<>>
              => received'[c][1] = received'[e][1]
      BY <3>4
    <3>8. m_initialization_sent' = TRUE /\ message' = message
      BY <2>1, <2>4
    <3> HIDE DEF TInv
    <3> QED
      BY <2>1, <3>3, <3>6, <3>7, <3>8 DEF InitOnce
  <2>6. CASE message.init # TRUE
    <3>1. /\ Len(received[d]) \in Nat
          /\ Len(received'[d]) = Len(received[d]) + 1
          /\ \A i \in 1..Len(received[d]) : received'[d][i] = received[d][i]
          /\ received'[d][Len(received[d]) + 1] = message
      BY <2>2, <2>3, AppendProperties, LenProperties
    <3>2. ASSUME NEW i \in 1..Len(received'[d]), received'[d][i].init = TRUE
          PROVE  i \in 1..Len(received[d]) /\ received'[d][i] = received[d][i]
      <4>1. i # Len(received[d]) + 1
        BY <2>6, <3>1, <3>2
      <4>2. i \in 1..Len(received[d])
        BY <3>1, <4>1
      <4> QED
        BY <3>1, <4>2
    <3>3. \A c \in Clients : \A i \in 1..Len(received'[c]) :
            received'[c][i].init = TRUE => i = 1
      BY <2>3, <3>2 DEF InitOnce
    <3>4. ASSUME NEW c \in Clients, received'[c] # <<>>,
                 received'[c][1].init = TRUE
          PROVE  received[c] # <<>> /\ received'[c][1] = received[c][1]
      <4>1. CASE c = d
        <5>1. 1 \in 1..Len(received'[d])
          BY <3>1
        <5>2. 1 \in 1..Len(received[d]) /\ received'[d][1] = received[d][1]
          BY <3>2, <3>4, <4>1, <5>1
        <5> QED
          BY <4>1, <5>2, EmptySeq
      <4>2. CASE c # d
        BY <2>3, <3>4, <4>2
      <4> QED
        BY <4>1, <4>2
    <3>5. ASSUME NEW c \in Clients, NEW e \in Clients,
                 received'[c] # <<>>, received'[c][1].init = TRUE,
                 received'[e] # <<>>, received'[e][1].init = TRUE
          PROVE  received'[c][1] = received'[e][1]
      <4>1. /\ received[c] # <<>> /\ received'[c][1] = received[c][1]
            /\ received[e] # <<>> /\ received'[e][1] = received[e][1]
        BY <3>4, <3>5
      <4>2. received[c][1].init = TRUE /\ received[e][1].init = TRUE
        BY <3>5, <4>1
      <4> QED
        BY <4>1, <4>2 DEF InitOnce
    <3>6. m_initialization_sent' = TRUE /\ message'.init # TRUE
      BY <2>1, <2>4, <2>6
    <3> QED
      BY <3>3, <3>5, <3>6 DEF InitOnce
  <2> QED
    BY <2>5, <2>6
<1> QED
  BY <1>1, <1>2, <1>3 DEF SenderStep

LEMMA InitStep ==
  ASSUME TInv, InitOnce, [Next]_liveVars
  PROVE  InitOnce'
<1>1. CASE \/ \E on \in BOOLEAN : SetRecording(on)
           \/ Call
           \/ OpenEncoder \/ OpenFails \/ InitializeCamera \/ CameraFails
           \/ JoinThreads \/ SpawnThreads
           \/ KeyThread \/ ReaderThread \/ EncoderThread
           \/ UNCHANGED liveVars
  <2>1. /\ UNCHANGED <<m_initialization_sent, message, received, toSend>>
        /\ spc' = spc \/ spc' = "lock"
    BY <1>1
    DEF SetRecording, Call, OpenEncoder, OpenFails, InitializeCamera,
        CameraFails, JoinThreads, Join, SpawnThreads, VideoMoves, KeyThread,
        ReaderThread, EncoderThread, liveVars, senderVars
  <2> QED
    BY <2>1, InitRests
<1>2. CASE ServerStep \/ NetworkStep
  <2>1. /\ UNCHANGED <<m_initialization_sent, message, received, toSend>>
        /\ spc' = spc \/ spc' = "lock"
    BY <1>2 DEF ServerStep, NetworkStep, Listen, ListenFails, OnOpen,
                NotifyAll, OnClose, ConnectionOpens, ConnectionCloses,
                ConnectionEnds, ServerMoves
  <2> QED
    BY <2>1, InitRests
<1> QED
  BY <1>1, <1>2, StepCases, InitSender

(* The ftyp and moov boxes go out in one message of the whole call: whoever
   gets them gets them first, and in the same message. *)
THEOREM InitSegmentGoesOnce == Spec => []InitSegmentOnce
<1>1. Init => InitOnce
  <2> SUFFICES ASSUME Init
               PROVE  InitOnce
    OBVIOUS
  <2>1. ASSUME NEW c \in Clients
        PROVE  received[c] = <<>> /\ Len(received[c]) = 0
    BY EmptySeq DEF Init
  <2>2. spc = "none"
    BY DEF Init
  <2> QED
    BY <2>1, <2>2 DEF InitOnce
<1>2. TInv /\ InitOnce /\ [Next]_liveVars => InitOnce'
  BY InitStep
<1>3. TInv /\ InitOnce => InitSegmentOnce
  <2> SUFFICES ASSUME TInv, InitOnce
               PROVE  InitSegmentOnce
    OBVIOUS
  <2>1. ASSUME NEW c \in Clients, NEW i \in 1..Len(received[c])
        PROVE  received[c][i].init \in BOOLEAN
    <3>1. received[c][i] \in Messages
      BY ElementOfSeq DEF TInv, Queued
    <3> QED
      BY <3>1 DEF Messages
  <2>2. ASSUME NEW c \in Clients, received[c] # <<>>
        PROVE  1 \in 1..Len(received[c]) /\ Head(received[c]) = received[c][1]
    <3>1. received[c] \in Seq(Messages)
      BY DEF TInv, Queued
    <3>2. Len(received[c]) \in Nat \ {0}
      BY <2>2, <3>1, EmptySeq
    <3> QED
      BY <2>2, <3>1, <3>2, HeadTailProperties
  <2>3. ASSUME NEW c \in Clients, NEW i \in 1..Len(received[c]),
               received[c][i].init
        PROVE  i = 1
    <3>1. received[c][i].init = TRUE
      BY <2>1, <2>3
    <3> QED
      BY <3>1 DEF InitOnce
  <2>4. ASSUME NEW c \in Clients, NEW d \in Clients, received[c] # <<>>,
               received[d] # <<>>, Head(received[c]).init,
               Head(received[d]).init
        PROVE  Head(received[c]) = Head(received[d])
    <3>1. /\ Head(received[c]) = received[c][1]
          /\ Head(received[d]) = received[d][1]
      BY <2>2, <2>4
    <3>2. received[c][1].init = TRUE /\ received[d][1].init = TRUE
      BY <2>1, <2>2, <2>4, <3>1
    <3> QED
      BY <2>4, <3>1, <3>2 DEF InitOnce
  <2> QED
    BY <2>3, <2>4 DEF InitSegmentOnce
<1> QED
  BY <1>1, <1>2, <1>3, TypesInvariant, PTL DEF Spec

(* Every client sees the stream as it was made from the segment it joined at:
   nothing missing, nothing twice, nothing out of order, Final last, and the
   initialization boxes in front if they came to it. *)
THEOREM ClientsSeeTheStream == Spec => []StreamInOrder
BY StreamsAreGapless, InitSegmentGoesOnce, PTL DEF StreamInOrder
==============================================================================
