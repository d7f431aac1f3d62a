---------------------- MODULE WebSocketConnectionProofs ----------------------
(***************************************************************************)
(* Proofs about WebSocketConnection, for any number of frames of the peer, *)
(* any number of them in a read, and any number of messages of dataSender. *)
(***************************************************************************)
EXTENDS WebSocketConnection, SequenceTheorems, WellFoundedInduction, TLAPS

(* Which handlers have been called at each point of the connection's life,
   and which one is still to come. *)
Phase ==
  /\ m_state \in {"connecting", "open", "closing", "closed"}
  /\ asio \in {"idle", "onOpen", "frames", "onClose"}
  /\ shutdown \in {"none", "failed", "closed"}
  /\ calls \in {<<>>, <<"on_open">>, <<"on_open", "on_close">>}
  /\ m_state = "connecting" =>
       calls = <<>> /\ asio = "idle" /\ reading # "frame"
  /\ asio = "onOpen" => m_state = "open" /\ calls = <<>>
  /\ m_state = "open" /\ asio # "onOpen" => calls = <<"on_open">>
  /\ m_state = "closing" => calls = <<"on_open">> /\ asio # "onOpen"
  /\ asio = "onClose" =>
       m_state = "closed" /\ calls = <<"on_open">> /\ shutdown = "none"
  /\ shutdown = "closed" => calls = <<"on_open">>
  /\ shutdown # "none" => m_state = "closed"

LEMMA PhaseInit == Init => Phase
BY DEF Init, Phase

LEMMA AppendToOne ==
  ASSUME NEW S, NEW a \in S, NEW b \in S
  PROVE  Append(<<a>>, b) = <<a, b>>
<1> DEFINE s == <<a>>
           p == <<a, b>>
<1>1. s \in Seq(S) /\ Len(s) = 1 /\ s[1] = a
  OBVIOUS
<1>2. p \in Seq(S) /\ Len(p) = 2 /\ p[1] = a /\ p[2] = b
  OBVIOUS
<1>3. Append(s, b) = p
  <2> HIDE DEF s, p
  <2>1. /\ Append(s, b) \in Seq(S) /\ Len(Append(s, b)) = Len(s) + 1
        /\ \A i \in 1..Len(s) : Append(s, b)[i] = s[i]
        /\ Append(s, b)[Len(s) + 1] = b
    BY <1>1, AppendProperties
  <2>2. Len(s) = 1 /\ Len(s) + 1 = 2 /\ 1 \in 1..Len(s)
    BY <1>1
  <2>3. Append(s, b)[1] = a /\ Append(s, b)[2] = b
    <3>1. Append(s, b)[1] = s[1]
      BY <2>1, <2>2
    <3>2. Append(s, b)[Len(s) + 1] = Append(s, b)[2]
      BY <2>2
    <3> QED
      BY <1>1, <2>1, <3>1, <3>2
  <2>4. \A i \in 1..Len(p) : Append(s, b)[i] = p[i]
    <3>1. \A i \in 1..Len(p) : i = 1 \/ i = 2
      BY <1>2
    <3> QED
      BY <1>2, <2>3, <3>1
  <2> QED
    BY <1>2, <2>1, <2>2, <2>4, SeqEqual
<1> QED
  BY <1>3 DEF s, p

(* What terminate does to a phase and to the abstract connection. *)
LEMMA TerminatePhase ==
  ASSUME NEW set, Phase, asio \in {"idle", "frames"}, Terminate(set),
         UNCHANGED calls, reading' # "frame" \/ UNCHANGED reading
  PROVE  Phase' /\ [Life!LifeNext]_(Life!lifeVars)
<1>1. CASE m_state = "closed"
  BY <1>1 DEF Terminate, Phase, Life!lifeVars
<1>2. CASE m_state = "connecting"
  BY <1>2 DEF Terminate, Phase, Life!LifeNext, Life!Fails, Life!lifeVars
<1>3. CASE m_state \in {"open", "closing"}
  BY <1>3 DEF Terminate, Phase, Life!LifeNext, Life!Ends, Life!Registered,
              Life!lifeVars
<1> QED
  BY <1>1, <1>2, <1>3 DEF Phase

(* What send_close_frame does to them. *)
LEMMA CloseFramePhase ==
  ASSUME Phase, asio = "frames", m_state \in {"open", "closing"},
         SendCloseFrame, UNCHANGED <<calls, reading, shutdown>>,
         asio' \in {"idle", "frames"}
  PROVE  Phase' /\ [Life!LifeNext]_(Life!lifeVars)
<1>1. CASE m_state = "closing"
  BY <1>1 DEF SendCloseFrame, Phase, Life!lifeVars
<1>2. CASE m_state = "open"
  BY <1>2 DEF SendCloseFrame, Phase, Life!LifeNext, Life!Closes,
              Life!Registered, Life!lifeVars
<1> QED
  BY <1>1, <1>2

(* What leaves the state and the handlers alone leaves a phase alone. *)
LEMMA PhaseRests ==
  ASSUME Phase, UNCHANGED <<m_state, asio, shutdown, calls>>,
         reading' = reading \/ (m_state # "connecting" \/ reading' # "frame")
  PROVE  Phase' /\ [Life!LifeNext]_(Life!lifeVars)
BY DEF Phase, Life!lifeVars

LEMMA PhaseHandshake ==
  ASSUME Phase, Handshake
  PROVE  Phase' /\ [Life!LifeNext]_(Life!lifeVars)
<1>1. CASE Accept \/ RequestComplete
  BY <1>1, PhaseRests DEF Accept, RequestComplete, HandshakeRead
<1>2. CASE HandshakeReadLate \/ ResponseLate
  BY <1>2, PhaseRests DEF HandshakeReadLate, HandshakeRead, ResponseLate,
                          ResponseWritten, readVars
<1>3. CASE AcceptFails
  BY <1>3, TerminatePhase DEF AcceptFails, readVars
<1>4. CASE HandshakeReadFails
  BY <1>4, TerminatePhase DEF HandshakeReadFails, HandshakeRead
<1>5. CASE ResponseEnds
  BY <1>5, TerminatePhase DEF ResponseEnds, ResponseWritten, readVars
<1>6. CASE OpenConnection
  BY <1>6 DEF OpenConnection, ResponseWritten, readVars, Phase, Life!LifeNext,
              Life!Opens, Life!lifeVars
<1> QED
  BY <1>1, <1>2, <1>3, <1>4, <1>5, <1>6 DEF Handshake

LEMMA PhaseWrites ==
  ASSUME Phase, WriteFrame \/ HandleWriteFrame
  PROVE  Phase' /\ [Life!LifeNext]_(Life!lifeVars)
<1>1. CASE WriteFrame
  BY <1>1, PhaseRests DEF WriteFrame, readVars
<1>2. CASE WriteFrameFails
  BY <1>2, TerminatePhase DEF WriteFrameFails, readVars
<1>3. CASE TerminalWritten
  BY <1>3, TerminatePhase DEF TerminalWritten, FrameWritten, readVars
<1>4. CASE BatchWritten
  BY <1>4, PhaseRests DEF BatchWritten, FrameWritten, readVars
<1> QED
  BY <1>1, <1>2, <1>3, <1>4 DEF HandleWriteFrame

LEMMA PhaseCallbacks ==
  ASSUME Phase, OnOpen \/ OnClose
  PROVE  Phase' /\ [Life!LifeNext]_(Life!lifeVars)
<1>1. CASE OnOpen
  <2>1. calls' = <<"on_open">>
    BY <1>1 DEF OnOpen, Phase
  <2> QED
    BY <1>1, <2>1 DEF OnOpen, readVars, Phase, Life!LifeNext,
                      Life!OpenHandler, Life!lifeVars
<1>2. CASE OnClose
  <2>1. calls' = <<"on_open", "on_close">>
    <3>1. calls' = Append(<<"on_open">>, "on_close")
      BY <1>2 DEF OnClose, Phase
    <3>2. Append(<<"on_open">>, "on_close") = <<"on_open", "on_close">>
      <4> DEFINE Handlers == {"on_open", "on_close"}
      <4>1. "on_open" \in Handlers /\ "on_close" \in Handlers
        OBVIOUS
      <4> HIDE DEF Handlers
      <4> QED
        BY <4>1, AppendToOne
    <3> QED
      BY <3>1, <3>2
  <2> QED
    BY <1>2, <2>1 DEF OnClose, readVars, Phase, Life!LifeNext,
                      Life!CloseHandler, Life!Registered, Life!lifeVars
<1> QED
  BY <1>1, <1>2

LEMMA PhaseReads ==
  ASSUME Phase, HandleReadFrame
  PROVE  Phase' /\ [Life!LifeNext]_(Life!lifeVars)
<1>1. CASE FrameRead
  BY <1>1 DEF FrameRead, Phase, Life!lifeVars
<1>2. CASE FrameReadFails
  BY <1>2, TerminatePhase DEF FrameReadFails
<1>3. CASE Answered("get_epoch", "reply") \/ Answered("ping", "pong")
  BY <1>3, PhaseRests DEF Answered, Consume, Ignored, GoOn
<1>4. CASE CloseReceived
  <2>1. CASE Ignored
    BY <1>4, <2>1, PhaseRests DEF CloseReceived, Consume, Ignored, GoOn
  <2>2. CASE m_state = "open" /\ GoOn /\ SendCloseFrame
    BY <1>4, <2>2, CloseFramePhase DEF CloseReceived, Consume, GoOn
  <2> QED
    BY <1>4, <2>1, <2>2 DEF CloseReceived, Consume
<1>5. CASE BadCloseReceived
  <2>1. CASE Ignored
    BY <1>5, <2>1, PhaseRests DEF BadCloseReceived, Consume, Ignored, GoOn
  <2>2. CASE m_state # "closed" /\ GoOn /\ SendCloseFrame
    <3>1. m_state \in {"open", "closing"} /\ asio = "frames"
      BY <1>5, <2>2 DEF BadCloseReceived, Consume, Phase
    <3> QED
      BY <1>5, <2>2, <3>1, CloseFramePhase DEF BadCloseReceived, Consume, GoOn
  <2> QED
    BY <1>5, <2>1, <2>2 DEF BadCloseReceived, Consume
<1>6. CASE ProtocolError
  <2>1. CASE m_state = "open" /\ SendCloseFrame /\ asio' = "idle"
               /\ UNCHANGED shutdown
    BY <1>6, <2>1, CloseFramePhase DEF ProtocolError, Consume
  <2>2. CASE Terminate(timers)
    BY <1>6, <2>2, TerminatePhase DEF ProtocolError, Consume
  <2> QED
    BY <1>6, <2>1, <2>2 DEF ProtocolError, Consume
<1>7. CASE ReadFrame
  BY <1>7 DEF ReadFrame, Phase, Life!lifeVars
<1> QED
  BY <1>1, <1>2, <1>3, <1>4, <1>5, <1>6, <1>7 DEF HandleReadFrame, Consumption

LEMMA PhaseTimeouts ==
  ASSUME Phase, Timeout
  PROVE  Phase' /\ [Life!LifeNext]_(Life!lifeVars)
<1>1. ASSUME NEW i \in DOMAIN timers, Expire(i)
      PROVE  Phase' /\ [Life!LifeNext]_(Life!lifeVars)
  BY <1>1, PhaseRests DEF Expire, readVars
<1>2. ASSUME NEW i \in DOMAIN timers, HandshakeTimeout(i)
      PROVE  Phase' /\ [Life!LifeNext]_(Life!lifeVars)
  BY <1>2, TerminatePhase DEF HandshakeTimeout, readVars
<1>3. CASE ShutdownTimeout
  BY <1>3 DEF ShutdownTimeout, readVars, Phase, Life!lifeVars
<1> QED
  BY <1>1, <1>2, <1>3 DEF Timeout

LEMMA PhaseStep ==
  ASSUME Phase, [Next]_wsVars
  PROVE  Phase' /\ [Life!LifeNext]_(Life!lifeVars)
<1>1. CASE SenderStep
  BY <1>1, PhaseRests DEF SenderStep, SendChecks, SendPushes, SendDispatches,
                          SenderMoves, readVars
<1>2. CASE UNCHANGED wsVars
  BY <1>2, PhaseRests DEF wsVars, readVars
<1> QED
  BY <1>1, <1>2, PhaseHandshake, PhaseWrites, PhaseCallbacks, PhaseReads,
     PhaseTimeouts DEF Next

LEMMA PhaseInvariant == Spec => []Phase
<1>1. Phase /\ [Next]_wsVars => Phase'
  BY PhaseStep
<1> QED
  BY PhaseInit, <1>1, PTL DEF Spec

(* The connection implements ConnectionLife: whatever order its reads, writes,
   timers and failures come in, it opens and ends at most once, and on_open and
   on_close are called once each, in this order, and only for a connection that
   was open. *)
THEOREM KeepsItsLife == Spec => ImplementsLife
<1>1. Init => Life!LifeInit
  BY DEF Init, Life!LifeInit
<1>2. Phase /\ [Next]_wsVars => [Life!LifeNext]_(Life!lifeVars)
  BY PhaseStep
<1> QED
  BY <1>1, <1>2, PhaseInvariant, PTL DEF Spec, ImplementsLife, Life!LifeSpec

-----------------------------------------------------------------------------
(* The queue and the outstanding write. *)

LEMMA HasSmallest ==
  ASSUME NEW T, T \subseteq Nat, T # {}
  PROVE  \E i \in T : \A j \in T : i <= j
<1> DEFINE R == OpToRel(<, Nat)
<1>1. \A x, y \in Nat : x < y => <<x, y>> \in R
  BY DEF OpToRel
<1>2. IsWellFoundedOn(R, Nat)
  BY NatLessThanWellFounded
<1> HIDE DEF R
<1>3. PICK x \in T : \A y \in T : ~(<<y, x>> \in R)
  BY <1>2, WFMin
<1>4. \A y \in T : ~(y < x)
  BY <1>1, <1>3
<1> QED
  BY <1>4

LEMMA HeadOfOne ==
  /\ \A x : Head(<<x>>) = x /\ Tail(<<x>>) = <<>> /\ Len(<<x>>) = 1
  /\ Len(<<>>) = 0
OBVIOUS

(* The end of a batch: a message of the queue, with no terminal one before. *)
LEMMA ReadyPrefix ==
  ASSUME m_send_queue \in Seq(Nat), m_send_queue # <<>>
  PROVE  \E n \in 1..Len(m_send_queue) :
           /\ Ready = SubSeq(m_send_queue, 1, n)
           /\ \A i \in 1..(n - 1) : ~Terminal(m_send_queue[i])
           /\ n < Len(m_send_queue) => Terminal(m_send_queue[n])
<1> DEFINE ends == {i \in DOMAIN m_send_queue : Terminal(m_send_queue[i])}
           n == IF ends = {} THEN Len(m_send_queue)
                             ELSE CHOOSE i \in ends : \A j \in ends : i <= j
<1>1. DOMAIN m_send_queue = 1..Len(m_send_queue) /\ Len(m_send_queue) \in Nat
         /\ Len(m_send_queue) > 0
  OBVIOUS
<1>2. ends \subseteq 1..Len(m_send_queue)
  BY <1>1
<1>3. Ready = SubSeq(m_send_queue, 1, n)
  BY DEF Ready
<1>4. CASE ends = {}
  <2>1. n = Len(m_send_queue)
    BY <1>4
  <2>2. \A i \in 1..Len(m_send_queue) : ~Terminal(m_send_queue[i])
    BY <1>1, <1>4
  <2> HIDE DEF n, ends
  <2>3. n \in 1..Len(m_send_queue) /\ ~(n < Len(m_send_queue))
    BY <1>1, <2>1
  <2>4. \A i \in 1..(n - 1) : i \in 1..Len(m_send_queue)
    BY <1>1, <2>1
  <2>5. \A i \in 1..(n - 1) : ~Terminal(m_send_queue[i])
    BY <2>2, <2>4
  <2> QED
    BY <1>3, <2>3, <2>5
<1>5. CASE ends # {}
  <2>1. \E i \in ends : \A j \in ends : i <= j
    <3>1. ends \subseteq Nat
      BY <1>1
    <3> HIDE DEF ends
    <3> QED
      BY <1>5, <3>1, HasSmallest
  <2>2. n \in ends /\ \A j \in ends : n <= j
    <3>1. n = CHOOSE i \in ends : \A j \in ends : i <= j
      BY <1>5
    <3> HIDE DEF n, ends
    <3> QED
      BY <2>1, <3>1
  <2>3. \A i \in 1..Len(m_send_queue) :
          i \notin ends => ~Terminal(m_send_queue[i])
    BY <1>1
  <2>4. Terminal(m_send_queue[n])
    BY <2>2
  <2> HIDE DEF n, ends
  <2>5. n \in 1..Len(m_send_queue)
    BY <1>2, <2>2
  <2>6. \A i \in 1..(n - 1) : i \in 1..Len(m_send_queue) /\ i \notin ends
    BY <1>1, <2>2, <2>5
  <2>7. \A i \in 1..(n - 1) : ~Terminal(m_send_queue[i])
    BY <2>3, <2>6
  <2> QED
    BY <1>3, <2>4, <2>5, <2>7
<1> QED
  BY <1>4, <1>5

(* The response is not written yet, or refused the connection. *)
Early == m_internal_state # "PROCESS_CONNECTION"

(* Before the connection is open nothing but the response is written, and
   dataSender does not know of the connection. *)
Quiet ==
  /\ m_internal_state \in {"USER_INIT", "READ_HTTP_REQUEST",
                           "PROCESS_HTTP_REQUEST", "PROCESS_CONNECTION"}
  /\ reading \in {"none", "handshake", "frame"}
  /\ m_state = "connecting" => Early
  /\ Early =>
       /\ m_state \in {"connecting", "closed"}
       /\ asio = "idle" /\ calls = <<>> /\ shutdown # "closed"
       /\ sender = "idle" /\ reading # "frame"
       /\ m_send_queue = <<>> /\ m_current_msgs = <<>> /\ m_write_flag = FALSE
       /\ posted = 0
  /\ m_internal_state = "USER_INIT" => reading = "none"
  /\ m_internal_state \in {"USER_INIT", "READ_HTTP_REQUEST"} => writing = <<>>
  /\ m_internal_state = "PROCESS_HTTP_REQUEST" =>
       reading = "none" /\ writing \in {<<>>, <<"response">>}
  /\ ~Early =>
       /\ reading # "handshake"
       /\ writing \in {<<>>, <<"frames">>, <<"doomed">>}

(* The flag says whether a batch is being written, except after a write that
   was the last. *)
Batch ==
  /\ m_write_flag \in BOOLEAN /\ needs_writing \in BOOLEAN
  /\ posted \in Nat /\ pushed \in Seq(MessageKinds)
  /\ m_send_queue \in Seq(Nat) /\ m_current_msgs \in Seq(Nat)
  /\ ~Early => (m_current_msgs # <<>> <=> writing # <<>>)
  /\ m_current_msgs # <<>> => m_write_flag = TRUE
  /\ m_write_flag = TRUE /\ m_state # "closed" => writing # <<>>
  /\ QueuedIsOwed

Writes == Phase /\ Quiet /\ Batch

LEMMA WritesInit == Init => Writes
<1> SUFFICES ASSUME Init PROVE Quiet /\ Batch
  BY PhaseInit DEF Writes
<1>1. Quiet
  BY DEF Init, Quiet, Early
<1>2. <<>> \in Seq(Nat) /\ <<>> \in Seq(MessageKinds)
  OBVIOUS
<1>3. Batch
  BY <1>2 DEF Init, Batch, Early, QueuedIsOwed
<1> QED
  BY <1>1, <1>3

(* What terminate leaves behind. *)
LEMMA TerminateCloses ==
  ASSUME NEW set, Phase, Terminate(set)
  PROVE  /\ m_state' = "closed"
         /\ m_state \in {"connecting", "closed"} => asio' = "idle"
         /\ m_state = "closed" => shutdown' = shutdown
         /\ m_state = "connecting" => shutdown' # "closed"
BY DEF Terminate, Phase

(* A handler that ends the connection without a write. *)
LEMMA EndedWithoutWrite ==
  ASSUME NEW set, Quiet, Batch, Phase, Terminate(set),
         reading' \in {reading, "none"},
         UNCHANGED <<m_internal_state, calls, sender, needs_writing,
                     m_send_queue, pushed, posted, m_current_msgs, m_write_flag,
                     writing>>
  PROVE  Quiet' /\ Batch'
<1>1. Quiet'
  BY TerminateCloses DEF Quiet, Early, Phase
<1>2. Batch'
  BY TerminateCloses DEF Batch, Early, QueuedIsOwed
<1> QED
  BY <1>1, <1>2

LEMMA WritesHandshake ==
  ASSUME Phase, Quiet, Batch, Handshake
  PROVE  Quiet' /\ Batch'
<1> USE DEF readVars, queueVars, writeVars, senderVars, handshakeVars
<1>1. CASE Accept
  <2>1. Quiet'
    BY <1>1 DEF Accept, Quiet, Early
  <2>2. Batch'
    BY <1>1 DEF Accept, Quiet, Batch, Early, QueuedIsOwed
  <2> QED
    BY <2>1, <2>2
<1>2. CASE AcceptFails
  BY <1>2, EndedWithoutWrite DEF AcceptFails
<1>3. CASE HandshakeReadFails
  BY <1>3, EndedWithoutWrite DEF HandshakeReadFails, HandshakeRead
<1>4. CASE HandshakeReadLate
  <2>1. Quiet'
    BY <1>4 DEF HandshakeReadLate, HandshakeRead, Quiet, Early
  <2>2. Batch'
    BY <1>4 DEF HandshakeReadLate, HandshakeRead, Batch, Early, QueuedIsOwed
  <2> QED
    BY <2>1, <2>2
<1>5. CASE RequestComplete
  <2>1. /\ writing = <<>> /\ m_state = "connecting"
        /\ m_internal_state = "READ_HTTP_REQUEST"
    BY <1>5 DEF RequestComplete, HandshakeRead, Quiet, Early
  <2>2. writing' = <<"response">> /\ reading' = "none"
           /\ m_internal_state' = "PROCESS_HTTP_REQUEST"
    BY <1>5, <2>1 DEF RequestComplete, HandshakeRead, StartWrite
  <2>3. UNCHANGED <<m_state, m_send_queue, pushed, posted, m_current_msgs,
                    m_write_flag, calls, sender, needs_writing, shutdown, asio>>
    BY <1>5 DEF RequestComplete, HandshakeRead
  <2>4. Quiet'
    BY <2>1, <2>2, <2>3 DEF Quiet, Early
  <2>5. Batch'
    BY <2>1, <2>2, <2>3 DEF Batch, Quiet, Early, QueuedIsOwed
  <2> QED
    BY <2>4, <2>5
<1>6. CASE ResponseEnds \/ ResponseLate \/ OpenConnection
  <2>1. writing = <<"response">> /\ m_internal_state = "PROCESS_HTTP_REQUEST"
           /\ Early /\ writing' = <<>>
    BY <1>6, HeadOfOne DEF ResponseEnds, ResponseLate, OpenConnection,
                           ResponseWritten, Quiet, Early
  <2>2. UNCHANGED <<m_send_queue, pushed, posted, m_current_msgs, m_write_flag,
                    calls, sender, needs_writing, reading>>
    BY <1>6 DEF ResponseEnds, ResponseLate, OpenConnection, ResponseWritten
  <2>3. CASE m_internal_state' = m_internal_state
    <3>1. m_state' = "closed" /\ asio' = "idle" /\ shutdown' # "closed"
      BY <1>6, <2>1, <2>3, TerminateCloses
         DEF ResponseEnds, ResponseLate, OpenConnection, ResponseWritten, Quiet,
             Phase
    <3>2. Quiet'
      BY <2>1, <2>2, <2>3, <3>1 DEF Quiet, Early
    <3>3. Batch'
      BY <2>1, <2>2, <2>3, <3>1 DEF Quiet, Batch, Early, QueuedIsOwed
    <3> QED
      BY <3>2, <3>3
  <2>4. CASE OpenConnection
    <3>1. m_internal_state' = "PROCESS_CONNECTION" /\ m_state' = "open"
      BY <2>4 DEF OpenConnection, ResponseWritten
    <3>2. Quiet'
      BY <2>1, <2>2, <3>1 DEF Quiet, Early
    <3>3. Batch'
      BY <2>1, <2>2, <3>1 DEF Quiet, Batch, Early, QueuedIsOwed
    <3> QED
      BY <3>2, <3>3
  <2> QED
    BY <1>6, <2>3, <2>4 DEF ResponseEnds, ResponseLate, ResponseWritten
<1> QED
  BY <1>1, <1>2, <1>3, <1>4, <1>5, <1>6 DEF Handshake

LEMMA WritesFrames ==
  ASSUME Phase, Quiet, Batch, WriteFrame \/ HandleWriteFrame
  PROVE  Quiet' /\ Batch'
<1> USE DEF readVars, queueVars, writeVars, senderVars, handshakeVars
<1>1. ASSUME WriteFrame, m_write_flag = TRUE \/ m_send_queue = <<>>,
             UNCHANGED <<m_send_queue, m_current_msgs, m_write_flag, writing>>
      PROVE  Quiet' /\ Batch'
  <2>1. posted' = posted - 1 /\ posted > 0 /\ ~Early
    BY <1>1 DEF WriteFrame, Quiet
  <2>2. Quiet'
    BY <1>1, <2>1 DEF WriteFrame, Quiet, Early
  <2>3. posted' \in Nat
    BY <2>1 DEF Batch
  <2>4. Batch'
    BY <1>1, <2>1, <2>3 DEF WriteFrame, Quiet, Batch, Early, QueuedIsOwed
  <2> QED
    BY <2>2, <2>4
<1>2. ASSUME WriteFrame, m_write_flag = FALSE, m_send_queue # <<>>,
             m_current_msgs' = m_current_msgs \o Ready,
             m_send_queue' =
               SubSeq(m_send_queue, Len(Ready) + 1, Len(m_send_queue)),
             m_write_flag' = TRUE, StartWrite("frames")
      PROVE  Quiet' /\ Batch'
  <2>1. posted' = posted - 1 /\ posted > 0 /\ ~Early
    BY <1>2 DEF WriteFrame, Quiet
  <2>2. m_current_msgs = <<>> /\ writing = <<>>
    BY <1>2, <2>1 DEF Batch
  <2>3. writing' \in {<<"frames">>, <<"doomed">>}
    BY <1>2, <2>2 DEF StartWrite
  <2>4. PICK n \in 1..Len(m_send_queue) : Ready = SubSeq(m_send_queue, 1, n)
    BY <1>2, ReadyPrefix DEF Batch
  <2>5. m_send_queue \in Seq(Nat) /\ Len(m_send_queue) \in Nat
    BY DEF Batch
  <2>6. Ready \in Seq(Nat) /\ Len(Ready) = n /\ Ready # <<>>
    BY <2>4, <2>5
  <2>7. m_current_msgs' \in Seq(Nat) /\ m_current_msgs' # <<>>
    <3>1. m_current_msgs' = <<>> \o Ready
      BY <1>2, <2>2
    <3> QED
      BY <2>6, <3>1
  <2>8. m_send_queue' \in Seq(Nat)
    BY <1>2, <2>5, <2>6
  <2>9. Quiet'
    BY <1>2, <2>1, <2>3 DEF WriteFrame, Quiet, Early
  <2>10. posted' \in Nat
    BY <2>1 DEF Batch
  <2>11. writing' # <<>>
    BY <2>3
  <2>12. Batch'
    BY <1>2, <2>1, <2>7, <2>8, <2>10, <2>11
       DEF WriteFrame, Batch, Early, QueuedIsOwed
  <2> QED
    BY <2>9, <2>12
<1>3. CASE HandleWriteFrame
  <2>1. /\ ~Early /\ writing \in {<<"frames">>, <<"doomed">>}
        /\ writing' = <<>> /\ m_current_msgs' = <<>>
    BY <1>3, HeadOfOne DEF HandleWriteFrame, WriteFrameFails, TerminalWritten,
                           BatchWritten, FrameWritten, Quiet, Early
  <2>2. UNCHANGED <<m_internal_state, reading, calls, sender, needs_writing,
                    m_send_queue, pushed>>
    BY <1>3 DEF HandleWriteFrame, WriteFrameFails, TerminalWritten,
                BatchWritten, FrameWritten
  <2>3. Quiet'
    <3>1. m_state' = m_state \/ m_state' = "closed"
      BY <1>3, TerminateCloses
         DEF HandleWriteFrame, WriteFrameFails, TerminalWritten, BatchWritten,
             FrameWritten
    <3> QED
      BY <2>1, <2>2, <3>1 DEF Quiet, Early
  <2>4. <<>> \in Seq(Nat)
    OBVIOUS
  <2>5. CASE WriteFrameFails \/ TerminalWritten
    <3>1. m_state' = "closed" /\ UNCHANGED <<m_write_flag, posted>>
      BY <2>5, TerminateCloses
         DEF WriteFrameFails, TerminalWritten, FrameWritten
    <3> QED
      BY <2>1, <2>2, <2>3, <2>4, <3>1 DEF Batch, Early, QueuedIsOwed
  <2>6. CASE BatchWritten
    <3>1. /\ m_write_flag' = FALSE
          /\ posted' = IF m_send_queue = <<>> THEN posted ELSE posted + 1
      BY <2>6 DEF BatchWritten, FrameWritten
    <3>2. posted' \in Nat /\ (m_send_queue # <<>> => posted' > 0)
      BY <3>1 DEF Batch
    <3> QED
      BY <2>1, <2>2, <2>3, <2>4, <3>1, <3>2 DEF Batch, Early, QueuedIsOwed
  <2> QED
    BY <1>3, <2>5, <2>6 DEF HandleWriteFrame
<1> QED
  <2>1. CASE WriteFrame
    BY <1>1, <1>2, <2>1 DEF WriteFrame, Batch
  <2> QED
    BY <1>3, <2>1

(* A message pushed by the io_service thread. *)
LEMMA PushKeepsBatch ==
  ASSUME Batch, ~Early, NEW kind \in MessageKinds, Push(kind),
         UNCHANGED <<m_internal_state, sender, needs_writing, m_current_msgs,
                     m_write_flag, writing>>,
         m_state' # "closed" => m_state # "closed"
  PROVE  Batch'
<1>1. /\ pushed' \in Seq(MessageKinds)
      /\ m_send_queue' \in Seq(Nat) /\ m_send_queue' # <<>>
  BY DEF Batch, Push
<1>2. posted' \in Nat /\ (m_write_flag = FALSE => posted' > 0)
  BY DEF Batch, Push
<1> QED
  BY <1>1, <1>2 DEF Batch, Early, QueuedIsOwed

(* A step that neither writes nor changes what waits. *)
LEMMA BatchRests ==
  ASSUME Batch, m_state' # "closed" => m_state # "closed",
         (m_internal_state' = m_internal_state),
         UNCHANGED <<sender, needs_writing, m_send_queue, pushed, posted,
                     m_current_msgs, m_write_flag, writing>>
  PROVE  Batch'
BY DEF Batch, Early, QueuedIsOwed

(* Once the connection has been open, Quiet says little. *)
LEMMA QuietWhenOpen ==
  ASSUME Quiet, ~Early, UNCHANGED <<m_internal_state, writing>>,
         m_state' # "connecting", reading' \in {reading, "none", "frame"}
  PROVE  Quiet'
BY DEF Quiet, Early

LEMMA WritesCallbacks ==
  ASSUME Phase, Quiet, Batch, OnOpen \/ OnClose
  PROVE  Quiet' /\ Batch'
<1> USE DEF readVars, queueVars, writeVars, senderVars, handshakeVars
<1>1. ~Early /\ m_state # "connecting"
  BY DEF OnOpen, OnClose, Quiet, Phase
<1>2. Quiet'
  BY <1>1, QuietWhenOpen DEF OnOpen, OnClose
<1>3. Batch'
  BY BatchRests DEF OnOpen, OnClose
<1> QED
  BY <1>2, <1>3

LEMMA WritesReads ==
  ASSUME Phase, Quiet, Batch, HandleReadFrame
  PROVE  Quiet' /\ Batch'
<1> USE DEF readVars, queueVars, writeVars, senderVars, handshakeVars
<1>1. ~Early /\ m_state # "connecting"
  BY DEF HandleReadFrame, FrameRead, FrameReadFails, Consumption, Answered,
         CloseReceived, BadCloseReceived, ProtocolError, Consume, ReadFrame,
         Quiet
<1>2. CASE FrameRead \/ ReadFrame
  <2>1. Quiet'
    BY <1>1, <1>2, QuietWhenOpen DEF FrameRead, ReadFrame
  <2>2. Batch'
    BY <1>2, BatchRests DEF FrameRead, ReadFrame
  <2> QED
    BY <2>1, <2>2
<1>3. CASE FrameReadFails
  BY <1>3, EndedWithoutWrite DEF FrameReadFails
<1>4. CASE Answered("get_epoch", "reply") \/ Answered("ping", "pong")
  <2>1. Quiet'
    BY <1>1, <1>4, QuietWhenOpen DEF Answered, Consume, Ignored, GoOn
  <2>2. UNCHANGED <<m_internal_state, sender, needs_writing, m_current_msgs,
                    m_write_flag, writing>>
    BY <1>4 DEF Answered, Consume
  <2>3. CASE Ignored
    BY <2>1, <2>2, <2>3, BatchRests DEF Ignored
  <2>4. "reply" \in MessageKinds /\ "pong" \in MessageKinds
    BY DEF MessageKinds
  <2>5. CASE Push("reply") /\ UNCHANGED m_state
    BY <1>1, <2>1, <2>2, <2>4, <2>5, PushKeepsBatch
  <2>6. CASE Push("pong") /\ UNCHANGED m_state
    BY <1>1, <2>1, <2>2, <2>4, <2>6, PushKeepsBatch
  <2> QED
    BY <1>4, <2>1, <2>3, <2>5, <2>6 DEF Answered, Consume
<1>5. CASE CloseReceived \/ BadCloseReceived
  <2>1. CASE Ignored
    <3>1. Quiet'
      BY <1>1, <1>5, <2>1, QuietWhenOpen
         DEF CloseReceived, BadCloseReceived, Consume, Ignored, GoOn
    <3>2. Batch'
      BY <1>5, <2>1, BatchRests
         DEF CloseReceived, BadCloseReceived, Consume, Ignored, GoOn
    <3> QED
      BY <3>1, <3>2
  <2>2. CASE SendCloseFrame /\ m_state # "closed"
    <3>1. Quiet'
      BY <1>1, <1>5, <2>2, QuietWhenOpen
         DEF CloseReceived, BadCloseReceived, Consume, SendCloseFrame
    <3>2. "close" \in MessageKinds /\ Push("close")
      BY <2>2 DEF MessageKinds, SendCloseFrame
    <3>3. Batch'
      BY <1>1, <1>5, <2>2, <3>2, PushKeepsBatch
         DEF CloseReceived, BadCloseReceived, Consume
    <3> QED
      BY <3>1, <3>3
  <2> QED
    BY <1>5, <2>1, <2>2 DEF CloseReceived, BadCloseReceived, Consume
<1>6. CASE ProtocolError
  <2>1. CASE m_state = "open" /\ SendCloseFrame
    <3>1. Quiet'
      BY <1>1, <1>6, <2>1, QuietWhenOpen
         DEF ProtocolError, Consume, SendCloseFrame
    <3>2. "close" \in MessageKinds /\ Push("close")
      BY <2>1 DEF MessageKinds, SendCloseFrame
    <3>3. Batch'
      BY <1>1, <1>6, <2>1, <3>2, PushKeepsBatch DEF ProtocolError, Consume
    <3> QED
      BY <3>1, <3>3
  <2>2. CASE Terminate(timers) /\ UNCHANGED queueVars
    BY <1>6, <2>2, EndedWithoutWrite DEF ProtocolError, Consume
  <2> QED
    BY <1>6, <2>1, <2>2 DEF ProtocolError, Consume
<1> QED
  BY <1>2, <1>3, <1>4, <1>5, <1>6 DEF HandleReadFrame, Consumption

LEMMA WritesTimeouts ==
  ASSUME Phase, Quiet, Batch, Timeout
  PROVE  Quiet' /\ Batch'
<1> USE DEF readVars, queueVars, writeVars, senderVars, handshakeVars
<1>1. ASSUME NEW i \in DOMAIN timers, Expire(i)
      PROVE  Quiet' /\ Batch'
  <2>1. Batch'
    BY <1>1, BatchRests DEF Expire
  <2>2. Quiet'
    BY <1>1 DEF Expire, Quiet, Early
  <2> QED
    BY <2>1, <2>2
<1>2. ASSUME NEW i \in DOMAIN timers, HandshakeTimeout(i)
      PROVE  Quiet' /\ Batch'
  BY <1>2, EndedWithoutWrite DEF HandshakeTimeout
<1>3. CASE ShutdownTimeout
  <2>1. Batch'
    BY <1>3, BatchRests DEF ShutdownTimeout
  <2>2. Quiet'
    BY <1>3 DEF ShutdownTimeout, Quiet, Early
  <2> QED
    BY <2>1, <2>2
<1> QED
  BY <1>1, <1>2, <1>3 DEF Timeout

LEMMA WritesSender ==
  ASSUME Phase, Quiet, Batch, SenderStep
  PROVE  Quiet' /\ Batch'
<1> USE DEF readVars, queueVars, writeVars, handshakeVars
<1>1. ~Early /\ m_state # "connecting"
  BY DEF SenderStep, SendChecks, SendPushes, SendDispatches, SenderMoves,
         Registered, Quiet
<1>2. Quiet'
  BY <1>1, QuietWhenOpen
     DEF SenderStep, SendChecks, SendPushes, SendDispatches, SenderMoves
<1>3. CASE SendChecks
  BY <1>2, <1>3 DEF SendChecks, SenderMoves, Batch, Early, QueuedIsOwed
<1>4. CASE SendPushes
  <2>1. /\ pushed' \in Seq(MessageKinds)
        /\ m_send_queue' \in Seq(Nat)
    <3>1. "data" \in MessageKinds
      BY DEF MessageKinds
    <3> QED
      BY <1>4, <3>1 DEF SendPushes, Batch
  <2>2. /\ sender' = "pushed" /\ needs_writing' \in BOOLEAN
        /\ m_write_flag = FALSE => needs_writing' = TRUE
    BY <1>4 DEF SendPushes, SenderMoves, Batch
  <2> QED
    BY <1>2, <1>4, <2>1, <2>2
       DEF SendPushes, SenderMoves, Batch, Early, QueuedIsOwed
<1>5. CASE SendDispatches
  <2>1. posted' \in Nat /\ posted' >= posted
           /\ (needs_writing = TRUE => posted' > 0)
    BY <1>5 DEF SendDispatches, Batch
  <2> QED
    BY <1>2, <1>5, <2>1
       DEF SendDispatches, SenderMoves, Batch, Early, QueuedIsOwed
<1> QED
  BY <1>2, <1>3, <1>4, <1>5 DEF SenderStep

LEMMA WritesStep ==
  ASSUME Writes, [Next]_wsVars
  PROVE  Writes'
<1>1. Phase'
  BY PhaseStep DEF Writes
<1>2. Quiet' /\ Batch'
  <2>1. CASE UNCHANGED wsVars
    <3> USE DEF wsVars, readVars, queueVars, writeVars, senderVars,
                handshakeVars, Writes
    <3>1. Batch'
      BY <2>1, BatchRests
    <3>2. Quiet'
      BY <2>1 DEF Quiet, Early
    <3> QED
      BY <3>1, <3>2
  <2> QED
    BY <2>1, WritesHandshake, WritesFrames, WritesCallbacks, WritesReads,
       WritesTimeouts, WritesSender DEF Next, Writes
<1> QED
  BY <1>1, <1>2 DEF Writes

LEMMA WritesInvariant == Spec => []Writes
<1>1. Writes /\ [Next]_wsVars => Writes'
  BY WritesStep
<1> QED
  BY WritesInit, <1>1, PTL DEF Spec

(* The transport gets one write at a time, however the io_service thread and
   dataSender share m_write_flag, and the write of a batch has messages. *)
THEOREM WritesOneByOne == Spec => []OneWriteAtATime
<1>1. Writes => OneWriteAtATime
  <2> SUFFICES ASSUME Writes PROVE OneWriteAtATime
    OBVIOUS
  <2>1. writing \in {<<>>, <<"response">>, <<"frames">>, <<"doomed">>}
    BY DEF Writes, Quiet, Early
  <2>2. Len(writing) \in {0, 1}
    BY <2>1, HeadOfOne
  <2>3. writing # <<>> /\ Head(writing) # "response" <=>
          writing \in {<<"frames">>, <<"doomed">>}
    BY <2>1, HeadOfOne
  <2>4. (m_current_msgs # <<>>) <=> writing \in {<<"frames">>, <<"doomed">>}
    <3> DEFINE batches == {<<"frames">>, <<"doomed">>}
    <3>1. <<>> \notin batches /\ <<"response">> \notin batches
      BY HeadOfOne
    <3>2. \A w \in batches : w # <<>>
      BY HeadOfOne
    <3>3. CASE Early
      <4>1. writing \in {<<>>, <<"response">>} /\ m_current_msgs = <<>>
        <5>1. \/ m_internal_state \in {"USER_INIT", "READ_HTTP_REQUEST"}
              \/ m_internal_state = "PROCESS_HTTP_REQUEST"
          BY <3>3 DEF Writes, Quiet, Early
        <5> HIDE DEF batches
        <5> QED
          BY <3>3, <5>1 DEF Writes, Quiet
      <4> HIDE DEF batches
      <4>2. writing \notin batches
        BY <3>1, <4>1
      <4> QED
        BY <4>1, <4>2 DEF batches
    <3>4. CASE ~Early
      <4>1. /\ writing = <<>> \/ writing \in batches
            /\ (m_current_msgs # <<>>) <=> (writing # <<>>)
        BY <3>4 DEF Writes, Quiet, Batch
      <4> HIDE DEF batches
      <4>2. (m_current_msgs # <<>>) <=> writing \in batches
        BY <3>1, <3>2, <4>1
      <4> QED
        BY <4>2 DEF batches
    <3> QED
      BY <3>3, <3>4
  <2>5. m_current_msgs # <<>> => m_write_flag
    BY DEF Writes, Batch
  <2> QED
    BY <2>2, <2>3, <2>4, <2>5 DEF OneWriteAtATime
<1> QED
  BY <1>1, WritesInvariant, PTL

(* Whatever the interleaving of dataSender's push with the writer's end, what
   waits on a connection that is not closed will be written. *)
THEOREM WaitingIsOwed == Spec => []QueuedIsOwed
<1>1. Writes => QueuedIsOwed
  BY DEF Writes, Batch
<1> QED
  BY <1>1, WritesInvariant, PTL

-----------------------------------------------------------------------------
(* The timers, and the reads of an open connection. *)

Timer == [kind : {"open", "close"}, status : {"armed", "expired", "over"}]

Armed(set, i) == set[i].kind = "open" /\ set[i].status = "armed"

(* Only the timer the connection holds can end a handshake. *)
Clock(set, handle) ==
  /\ set \in Seq(Timer) /\ handle \in 0..Len(set)
  /\ \A i \in 1..Len(set) : Armed(set, i) => i = handle

Unarmed(set) == \A i \in 1..Len(set) : ~Armed(set, i)

Clocks ==
  /\ Clock(timers, m_handshake_timer)
  /\ m_internal_state = "USER_INIT" => timers = <<>>
  /\ ~Early => Unarmed(timers)

Listens == m_state = "open" /\ asio = "idle" => reading = "frame"

(* Setting the status of a timer, by the clock or by cancelling. *)
LEMMA StatusSet ==
  ASSUME NEW set \in Seq(Timer), NEW i \in 1..Len(set),
         NEW status \in {"expired", "over"}
  PROVE  LET new == [set EXCEPT ![i].status = status]
         IN  /\ new \in Seq(Timer) /\ Len(new) = Len(set)
             /\ \A j \in 1..Len(set) : Armed(new, j) => Armed(set, j) /\ j # i
<1> DEFINE new == [set EXCEPT ![i].status = status]
           changed == [set[i] EXCEPT !.status = status]
<1>1. set[i] \in Timer /\ changed \in Timer /\ changed.status = status
  <2>1. set[i] \in Timer
    <3> HIDE DEF Timer
    <3> QED
      OBVIOUS
  <2>2. ASSUME NEW t \in Timer
        PROVE  /\ [t EXCEPT !.status = status] \in Timer
               /\ [t EXCEPT !.status = status].status = status
    BY DEF Timer
  <2> QED
    BY <2>1, <2>2
<1>2. new = [set EXCEPT ![i] = changed]
  OBVIOUS
<1>3. /\ new \in Seq(Timer) /\ Len(new) = Len(set)
      /\ \A j \in 1..Len(set) : new[j] = IF j = i THEN changed ELSE set[j]
  <2> HIDE DEF new, changed
  <2> QED
    BY <1>1, <1>2, ExceptSeq
<1> HIDE DEF new, changed
<1>4. \A j \in 1..Len(set) : Armed(new, j) => Armed(set, j) /\ j # i
  BY <1>1, <1>3 DEF Armed
<1> QED
  BY <1>3, <1>4 DEF new

LEMMA CancelUnarms ==
  ASSUME NEW set, NEW handle, Clock(set, handle)
  PROVE  /\ Cancelled(set, handle) \in Seq(Timer)
         /\ Unarmed(Cancelled(set, handle))
         /\ set = <<>> => Cancelled(set, handle) = <<>>
<1>1. CASE handle # 0 /\ set[handle].status = "armed"
  <2>1. handle \in 1..Len(set) /\ set \in Seq(Timer)
    BY <1>1 DEF Clock
  <2> DEFINE new == [set EXCEPT ![handle].status = "over"]
  <2>2. Cancelled(set, handle) = new
    BY <1>1 DEF Cancelled
  <2>3. /\ new \in Seq(Timer) /\ Len(new) = Len(set)
        /\ \A j \in 1..Len(set) : Armed(new, j) => Armed(set, j) /\ j # handle
    BY <2>1, StatusSet
  <2>4. set # <<>>
    BY <2>1
  <2> HIDE DEF new
  <2>5. Unarmed(new)
    BY <2>3 DEF Unarmed, Clock
  <2> QED
    BY <2>2, <2>3, <2>4, <2>5
<1>2. CASE ~(handle # 0 /\ set[handle].status = "armed")
  <2>1. Cancelled(set, handle) = set /\ set \in Seq(Timer)
    BY <1>2 DEF Cancelled, Clock
  <2>2. \A i \in 1..Len(set) : Armed(set, i) => i = handle /\ i # 0
    BY <2>1 DEF Clock
  <2>3. Unarmed(set)
    BY <1>2, <2>2 DEF Unarmed, Armed
  <2> QED
    BY <2>1, <2>3
<1> QED
  BY <1>1, <1>2

LEMMA CancelledClocks ==
  ASSUME NEW set, Clock(set, m_handshake_timer), CancelTimer(set),
         m_internal_state' = "USER_INIT" => set = <<>>
  PROVE  Clocks'
<1>1. /\ timers' \in Seq(Timer) /\ Unarmed(timers') /\ m_handshake_timer' = 0
      /\ set = <<>> => timers' = <<>>
  BY CancelUnarms DEF CancelTimer
<1>2. Clock(timers', 0)
  <2>1. 0 \in 0..Len(timers')
    BY <1>1
  <2> QED
    BY <1>1, <2>1 DEF Clock, Unarmed
<1> QED
  BY <1>1, <1>2 DEF Clocks

LEMMA SetClocks ==
  ASSUME Clocks, NEW kind \in {"open", "close"}, SetTimer(kind),
         m_internal_state' # "USER_INIT",
         \/ timers = <<>> /\ (Early)'
         \/ ~Early /\ kind = "close"
  PROVE  Clocks'
<1> DEFINE t == [kind |-> kind, status |-> "armed"]
<1>1. t \in Timer /\ timers \in Seq(Timer) /\ t.kind = kind
  BY DEF Timer, Clocks, Clock
<1>2. timers' = Append(timers, t) /\ m_handshake_timer' = Len(timers) + 1
  BY DEF SetTimer
<1> HIDE DEF t
<1>3. /\ timers' \in Seq(Timer) /\ Len(timers') = Len(timers) + 1
      /\ \A i \in 1..Len(timers) : timers'[i] = timers[i]
      /\ timers'[Len(timers) + 1] = t /\ Len(timers) \in Nat
  BY <1>1, <1>2, AppendProperties
<1>4. \A i \in 1..Len(timers') : i \in 1..Len(timers) \/ i = Len(timers) + 1
  BY <1>3
<1>5. \A i \in 1..Len(timers) : ~Armed(timers, i)
  <2>1. CASE timers = <<>>
    BY <2>1, HeadOfOne
  <2>2. CASE ~Early
    BY <2>2 DEF Clocks, Unarmed
  <2> QED
    BY <2>1, <2>2
<1>6. \A i \in 1..Len(timers) : ~Armed(timers', i)
  BY <1>3, <1>5 DEF Armed
<1>7. Clock(timers', m_handshake_timer')
  <2>1. m_handshake_timer' \in 0..Len(timers')
    BY <1>2, <1>3
  <2> QED
    BY <1>2, <1>3, <1>4, <1>6, <2>1 DEF Clock
<1>8. ~(Early)' => Unarmed(timers')
  <2> SUFFICES ASSUME ~(Early)' PROVE Unarmed(timers')
    OBVIOUS
  <2>1. ~Armed(timers', Len(timers) + 1)
    BY <1>1, <1>3 DEF Armed
  <2> QED
    BY <1>4, <1>6, <2>1 DEF Unarmed
<1> QED
  BY <1>7, <1>8 DEF Clocks

Served == Clocks /\ Listens

LEMMA ServedInit == Init => Served
<1> SUFFICES ASSUME Init PROVE Served
  OBVIOUS
<1>1. <<>> \in Seq(Timer) /\ Len(<<>>) = 0
  OBVIOUS
<1>2. timers = <<>> /\ m_handshake_timer = 0 /\ Early /\ m_state = "connecting"
  BY DEF Init, Early
<1>3. Clocks /\ Listens
  BY <1>1, <1>2 DEF Clocks, Clock, Listens
<1> QED
  BY <1>3 DEF Served

LEMMA TerminateServed ==
  ASSUME NEW set, Phase, Clock(set, m_handshake_timer), Terminate(set),
         m_internal_state' = "USER_INIT" => set = <<>>
  PROVE  Served'
<1>1. Clocks'
  BY CancelledClocks DEF Terminate
<1>2. Listens'
  BY TerminateCloses DEF Listens
<1> QED
  BY <1>1, <1>2 DEF Served

(* A step that leaves the timers alone, and the reader or the state. *)
LEMMA ServedRests ==
  ASSUME Served, UNCHANGED <<timers, m_handshake_timer>>,
         \/ UNCHANGED m_internal_state
         \/ (Early)' /\ m_internal_state' # "USER_INIT",
         \/ (Listens)'
         \/ UNCHANGED <<m_state, asio, reading>>
  PROVE  Served'
<1>1. Clocks'
  BY DEF Served, Clocks, Early
<1>2. Listens'
  BY DEF Served, Listens
<1> QED
  BY <1>1, <1>2 DEF Served

LEMMA ServedHandshake ==
  ASSUME Phase, Quiet, Served, Handshake
  PROVE  Served'
<1> USE DEF timerVars, handshakeVars
<1>1. Clock(timers, m_handshake_timer)
         /\ (m_internal_state = "USER_INIT" => timers = <<>>)
  BY DEF Served, Clocks
<1>2. CASE Accept
  <2>1. /\ m_internal_state' = "READ_HTTP_REQUEST" /\ (Early)' /\ timers = <<>>
        /\ SetTimer("open") /\ m_state' = "connecting"
    BY <1>1, <1>2 DEF Accept, Early
  <2>2. Clocks'
    <3>1. "open" \in {"open", "close"} /\ m_internal_state' # "USER_INIT"
      BY <2>1
    <3> QED
      BY <2>1, <3>1, SetClocks DEF Served
  <2> QED
    BY <2>1, <2>2 DEF Served, Listens
<1>3. CASE AcceptFails
  BY <1>1, <1>3, TerminateServed DEF AcceptFails
<1>4. CASE HandshakeReadFails
  BY <1>1, <1>4, TerminateServed DEF HandshakeReadFails, HandshakeRead
<1>5. CASE HandshakeReadLate \/ ResponseLate
  <2>1. Listens'
    BY <1>5 DEF HandshakeReadLate, HandshakeRead, ResponseLate,
                ResponseWritten, Listens
  <2> QED
    BY <1>5, <2>1, ServedRests
       DEF HandshakeReadLate, HandshakeRead, ResponseLate, ResponseWritten
<1>6. CASE RequestComplete
  <2>1. Listens' /\ (Early)' /\ m_internal_state' # "USER_INIT"
    BY <1>6 DEF RequestComplete, HandshakeRead, Listens, Early
  <2> QED
    BY <1>6, <2>1, ServedRests DEF RequestComplete, HandshakeRead
<1>7. CASE ResponseEnds
  BY <1>1, <1>7, TerminateServed DEF ResponseEnds, ResponseWritten
<1>8. CASE OpenConnection
  <2>1. /\ CancelTimer(timers) /\ asio' = "onOpen"
        /\ m_internal_state' # "USER_INIT"
    BY <1>8 DEF OpenConnection, ResponseWritten
  <2>2. Clocks'
    BY <1>1, <2>1, CancelledClocks
  <2> QED
    BY <2>1, <2>2 DEF Served, Listens
<1> QED
  BY <1>2, <1>3, <1>4, <1>5, <1>6, <1>7, <1>8 DEF Handshake

LEMMA ServedWrites ==
  ASSUME Phase, Quiet, Served, WriteFrame \/ HandleWriteFrame
  PROVE  Served'
<1> USE DEF timerVars, handshakeVars, readVars
<1>1. Clock(timers, m_handshake_timer)
         /\ (m_internal_state = "USER_INIT" => timers = <<>>)
  BY DEF Served, Clocks
<1>2. CASE WriteFrame
  BY <1>2, ServedRests DEF WriteFrame
<1>3. CASE WriteFrameFails
  BY <1>1, <1>3, TerminateServed DEF WriteFrameFails
<1>4. CASE TerminalWritten
  BY <1>1, <1>4, TerminateServed DEF TerminalWritten, FrameWritten
<1>5. CASE BatchWritten
  BY <1>5, ServedRests DEF BatchWritten, FrameWritten
<1> QED
  BY <1>2, <1>3, <1>4, <1>5 DEF HandleWriteFrame

(* send_close_frame, in the loop over the frames. *)
LEMMA CloseFrameServed ==
  ASSUME Served, ~Early, SendCloseFrame, UNCHANGED m_internal_state
  PROVE  Served'
<1>1. Clocks'
  <2>1. "close" \in {"open", "close"} /\ m_internal_state' # "USER_INIT"
    BY DEF Early
  <2> QED
    BY <2>1, SetClocks DEF SendCloseFrame, Served
<1> QED
  BY <1>1 DEF SendCloseFrame, Served, Listens

LEMMA ServedReads ==
  ASSUME Phase, Quiet, Served, HandleReadFrame
  PROVE  Served'
<1> USE DEF timerVars, handshakeVars
<1>1. Clock(timers, m_handshake_timer)
         /\ (m_internal_state = "USER_INIT" => timers = <<>>)
  BY DEF Served, Clocks
<1>2. ~Early
  BY DEF HandleReadFrame, FrameRead, FrameReadFails, Consumption, Answered,
         CloseReceived, BadCloseReceived, ProtocolError, Consume, ReadFrame,
         Quiet
<1>3. CASE FrameRead \/ ReadFrame
  <2>1. Listens'
    BY <1>3 DEF FrameRead, ReadFrame, Listens
  <2> QED
    BY <1>3, <2>1, ServedRests DEF FrameRead, ReadFrame
<1>4. CASE FrameReadFails
  BY <1>1, <1>4, TerminateServed DEF FrameReadFails
<1>5. CASE Answered("get_epoch", "reply") \/ Answered("ping", "pong")
  <2>1. UNCHANGED <<m_state, m_internal_state, asio, reading, timers,
                    m_handshake_timer>>
    BY <1>5 DEF Answered, Consume, Ignored, GoOn
  <2> QED
    BY <2>1, ServedRests
<1>6. CASE CloseReceived \/ BadCloseReceived \/ ProtocolError
  <2>1. UNCHANGED <<m_internal_state, reading>>
    BY <1>6 DEF CloseReceived, BadCloseReceived, ProtocolError, Consume
  <2>2. CASE Ignored
    BY <2>1, <2>2, ServedRests DEF Ignored, GoOn
  <2>3. CASE SendCloseFrame
    BY <1>2, <2>1, <2>3, CloseFrameServed
  <2>4. CASE Terminate(timers)
    BY <1>1, <2>1, <2>4, TerminateServed
  <2> QED
    BY <1>6, <2>2, <2>3, <2>4
       DEF CloseReceived, BadCloseReceived, ProtocolError, Consume
<1> QED
  BY <1>3, <1>4, <1>5, <1>6 DEF HandleReadFrame, Consumption

LEMMA ServedTimeouts ==
  ASSUME Phase, Quiet, Served, Timeout
  PROVE  Served'
<1> USE DEF timerVars, handshakeVars, readVars
<1>1. Clock(timers, m_handshake_timer) /\ timers \in Seq(Timer)
         /\ (m_internal_state = "USER_INIT" => timers = <<>>)
  BY DEF Served, Clocks, Clock
<1>2. DOMAIN timers = 1..Len(timers)
  BY <1>1
<1>3. ASSUME NEW i \in 1..Len(timers), NEW status \in {"expired", "over"}
      PROVE  LET new == [timers EXCEPT ![i].status = status]
             IN  /\ Clock(new, m_handshake_timer)
                 /\ Unarmed(timers) => Unarmed(new)
                 /\ m_internal_state # "USER_INIT"
  <2> DEFINE new == [timers EXCEPT ![i].status = status]
  <2>1. /\ new \in Seq(Timer) /\ Len(new) = Len(timers)
        /\ \A j \in 1..Len(timers) : Armed(new, j) => Armed(timers, j) /\ j # i
    BY <1>1, StatusSet
  <2>2. timers # <<>>
    BY HeadOfOne
  <2> HIDE DEF new
  <2>3. Clock(new, m_handshake_timer)
    BY <1>1, <2>1 DEF Clock
  <2>4. Unarmed(timers) => Unarmed(new)
    BY <2>1 DEF Unarmed
  <2> QED
    BY <1>1, <2>2, <2>3, <2>4 DEF new
<1>4. ASSUME NEW i \in 1..Len(timers), Expire(i)
      PROVE  Served'
  <2> DEFINE new == [timers EXCEPT ![i].status = "expired"]
  <2>1. timers' = new
    BY <1>4 DEF Expire
  <2>2. Clock(new, m_handshake_timer) /\ (Unarmed(timers) => Unarmed(new))
           /\ m_internal_state # "USER_INIT"
    BY <1>3
  <2> HIDE DEF new
  <2>3. UNCHANGED <<m_handshake_timer, m_internal_state, m_state, asio,
                    reading>>
    BY <1>4 DEF Expire
  <2>4. Clocks'
    BY <2>1, <2>2, <2>3 DEF Served, Clocks, Early
  <2>5. Listens'
    BY <2>3 DEF Served, Listens
  <2> QED
    BY <2>4, <2>5 DEF Served
<1>5. ASSUME NEW i \in 1..Len(timers), HandshakeTimeout(i)
      PROVE  Served'
  <2> DEFINE new == [timers EXCEPT ![i].status = "over"]
  <2>1. Terminate(new) /\ UNCHANGED m_internal_state
    BY <1>5 DEF HandshakeTimeout
  <2>2. Clock(new, m_handshake_timer) /\ m_internal_state # "USER_INIT"
    BY <1>3
  <2> HIDE DEF new
  <2> QED
    BY <2>1, <2>2, TerminateServed
<1>6. CASE ShutdownTimeout
  <2>1. Listens'
    BY <1>6 DEF ShutdownTimeout, Listens, Phase
  <2> QED
    BY <1>6, <2>1, ServedRests DEF ShutdownTimeout
<1> QED
  BY <1>2, <1>4, <1>5, <1>6 DEF Timeout

LEMMA ServedStep ==
  ASSUME Writes, Served, [Next]_wsVars
  PROVE  Served'
<1> USE DEF timerVars, handshakeVars, readVars, Writes
<1>1. CASE OnOpen \/ OnClose
  <2>1. Listens'
    BY <1>1 DEF OnOpen, OnClose, Phase, Listens
  <2> QED
    BY <1>1, <2>1, ServedRests DEF OnOpen, OnClose
<1>2. CASE SenderStep
  BY <1>2, ServedRests DEF SenderStep, SendChecks, SendPushes, SendDispatches,
                           SenderMoves
<1>3. CASE UNCHANGED wsVars
  BY <1>3, ServedRests DEF wsVars
<1> QED
  BY <1>1, <1>2, <1>3, ServedHandshake, ServedWrites, ServedReads,
     ServedTimeouts DEF Next

LEMMA ServedInvariant == Spec => []Served
<1>1. Writes /\ Served /\ [Next]_wsVars => Served'
  BY ServedStep
<1> QED
  BY ServedInit, <1>1, WritesInvariant, PTL DEF Spec

(* An open connection listens, and no timer of its handshake can still run
   out, whatever timers were set, cancelled or overtaken before. *)
THEOREM OpenStaysServed == Spec => []OpenIsServed
<1>1. Writes /\ Served => OpenIsServed
  <2> SUFFICES ASSUME Writes, Served, m_state = "open" PROVE OpenIsServed
    BY DEF OpenIsServed
  <2>1. ~Early
    BY DEF Writes, Quiet
  <2>2. Unarmed(timers) /\ timers \in Seq(Timer)
    BY <2>1 DEF Served, Clocks, Clock
  <2>3. DOMAIN timers = 1..Len(timers)
    BY <2>2
  <2>4. \A i \in DOMAIN timers :
          timers[i].kind = "open" => timers[i].status # "armed"
    BY <2>2, <2>3 DEF Unarmed, Armed
  <2> QED
    BY <2>4 DEF OpenIsServed, Served, Listens
<1> QED
  BY <1>1, WritesInvariant, ServedInvariant, PTL

-----------------------------------------------------------------------------
(* The order in which messages reach the network. *)

(* The last write ended without another being allowed. *)
Dead == m_write_flag = TRUE /\ m_current_msgs = <<>>

(* What has left the queue, or is leaving it. *)
Taken == Len(wire) + Len(m_current_msgs)

(* The messages on the network, in the batch and in the queue are numbered
   without a gap until nothing is written any more; and a terminal one is the
   last of those that have left the queue, and written last of all. *)
Numbered ==
  /\ wire \in Seq(Nat) /\ Taken <= Len(pushed)
  /\ \A i \in 1..Len(m_send_queue) : m_send_queue[i] \in 1..Len(pushed)
  /\ \A i \in 1..Len(wire) : wire[i] = i
  /\ \A i \in 1..Len(m_current_msgs) : m_current_msgs[i] = Len(wire) + i
  /\ \A i \in 1..(Taken - 1) : ~Terminal(i)
  /\ ~Dead =>
       /\ Taken + Len(m_send_queue) = Len(pushed)
       /\ \A i \in 1..Len(m_send_queue) : m_send_queue[i] = Taken + i
       /\ m_current_msgs = <<>> => \A i \in 1..Taken : ~Terminal(i)

LEMMA Lengths ==
  ASSUME Batch, wire \in Seq(Nat)
  PROVE  /\ Len(pushed) \in Nat /\ Len(m_send_queue) \in Nat
         /\ Len(m_current_msgs) \in Nat /\ Len(wire) \in Nat /\ Taken \in Nat
<1>1. /\ Len(pushed) \in Nat /\ Len(m_send_queue) \in Nat
      /\ Len(m_current_msgs) \in Nat /\ Len(wire) \in Nat
  BY DEF Batch
<1> QED
  BY <1>1 DEF Taken

LEMMA NumberedInit == Init => Numbered
<1> SUFFICES ASSUME Init PROVE Numbered
  OBVIOUS
<1>1. <<>> \in Seq(Nat) /\ Len(<<>>) = 0
  OBVIOUS
<1>2. wire = <<>> /\ m_send_queue = <<>> /\ m_current_msgs = <<>>
         /\ pushed = <<>>
  BY DEF Init
<1>3. Len(wire) = 0 /\ Len(m_send_queue) = 0 /\ Len(m_current_msgs) = 0
         /\ Len(pushed) = 0 /\ Taken = 0
  BY <1>1, <1>2 DEF Taken
<1> QED
  BY <1>1, <1>2, <1>3 DEF Numbered

LEMMA NumberedRests ==
  ASSUME Numbered, UNCHANGED <<pushed, m_send_queue, m_current_msgs,
                               m_write_flag, wire>>
  PROVE  Numbered'
BY DEF Numbered, Dead, Taken, Terminal

(* A message pushed by either thread goes to the end. *)
LEMMA NumberedPush ==
  ASSUME Numbered, Batch, NEW kind \in MessageKinds,
         pushed' = Append(pushed, kind),
         m_send_queue' = Append(m_send_queue, Len(pushed) + 1),
         UNCHANGED <<m_current_msgs, m_write_flag, wire>>
  PROVE  Numbered'
<1>1. /\ Len(pushed) \in Nat /\ Len(m_send_queue) \in Nat
      /\ Taken \in Nat /\ Taken' = Taken /\ wire' \in Seq(Nat)
      /\ Len(m_current_msgs) \in Nat /\ Len(wire) \in Nat
  BY Lengths DEF Numbered, Taken
<1>2. /\ Len(pushed') = Len(pushed) + 1
      /\ \A i \in 1..Len(pushed) : pushed'[i] = pushed[i]
  BY AppendProperties DEF Batch
<1>3. /\ Len(m_send_queue') = Len(m_send_queue) + 1
      /\ \A i \in 1..Len(m_send_queue) : m_send_queue'[i] = m_send_queue[i]
      /\ m_send_queue'[Len(m_send_queue) + 1] = Len(pushed) + 1
  <2>1. Len(pushed) + 1 \in Nat /\ m_send_queue \in Seq(Nat)
    BY <1>1 DEF Batch
  <2> QED
    BY <2>1, AppendProperties
<1>4. \A i \in 1..Len(pushed) : Terminal(i)' <=> Terminal(i)
  BY <1>2 DEF Terminal
<1>5. Taken' <= Len(pushed')
  BY <1>1, <1>2 DEF Numbered
<1>6. \A i \in 1..Len(m_send_queue') : m_send_queue'[i] \in 1..Len(pushed')
  <2> SUFFICES ASSUME NEW i \in 1..Len(m_send_queue')
               PROVE  m_send_queue'[i] \in 1..Len(pushed')
    OBVIOUS
  <2>1. CASE i = Len(m_send_queue) + 1
    BY <1>1, <1>2, <1>3, <2>1
  <2>2. CASE i \in 1..Len(m_send_queue)
    BY <1>1, <1>2, <1>3, <2>2 DEF Numbered
  <2> QED
    BY <1>1, <1>3, <2>1, <2>2
<1>7. \A i \in 1..Len(wire') : wire'[i] = i
  BY DEF Numbered
<1>8. \A i \in 1..Len(m_current_msgs') :
        m_current_msgs'[i] = Len(wire') + i
  BY DEF Numbered
<1>9. \A i \in 1..(Taken' - 1) : ~Terminal(i)'
  <2>1. \A i \in 1..(Taken - 1) : i \in 1..Len(pushed) /\ ~Terminal(i)
    BY <1>1 DEF Numbered
  <2> QED
    BY <1>1, <1>4, <2>1
<1>10. ASSUME ~Dead'
       PROVE  /\ Taken' + Len(m_send_queue') = Len(pushed')
              /\ \A i \in 1..Len(m_send_queue') : m_send_queue'[i] = Taken' + i
              /\ m_current_msgs' = <<>> => \A i \in 1..Taken' : ~Terminal(i)'
  <2>1. ~Dead
    BY <1>10 DEF Dead
  <2>2. /\ Taken + Len(m_send_queue) = Len(pushed)
        /\ \A i \in 1..Len(m_send_queue) : m_send_queue[i] = Taken + i
        /\ m_current_msgs = <<>> => \A i \in 1..Taken : ~Terminal(i)
    BY <2>1 DEF Numbered
  <2>3. Taken' + Len(m_send_queue') = Len(pushed')
    BY <1>1, <1>2, <1>3, <2>2
  <2>4. ASSUME NEW i \in 1..Len(m_send_queue')
        PROVE  m_send_queue'[i] = Taken' + i
    <3>1. CASE i = Len(m_send_queue) + 1
      <4>1. m_send_queue'[i] = Len(pushed) + 1
        BY <1>3, <3>1
      <4>2. Taken' + i = Len(pushed) + 1
        <5>1. /\ Taken' = Taken /\ Taken \in Nat /\ Len(m_send_queue) \in Nat
              /\ Taken + Len(m_send_queue) = Len(pushed)
          BY <1>1, <2>2
        <5> QED
          BY <5>1, <3>1
      <4> QED
        BY <4>1, <4>2
    <3>2. CASE i \in 1..Len(m_send_queue)
      BY <1>1, <1>3, <2>2, <3>2
    <3> QED
      BY <1>1, <1>3, <2>4, <3>1, <3>2
  <2>5. ASSUME m_current_msgs' = <<>>
        PROVE  \A i \in 1..Taken' : ~Terminal(i)'
    <3>1. \A i \in 1..Taken : i \in 1..Len(pushed) /\ ~Terminal(i)
      BY <1>1, <2>2, <2>5
    <3> QED
      BY <1>1, <1>4, <3>1
  <2> QED
    BY <2>3, <2>4, <2>5
<1> QED
  BY <1>1, <1>5, <1>6, <1>7, <1>8, <1>9, <1>10 DEF Numbered

(* write_frame takes the front of the queue. *)
LEMMA NumberedTake ==
  ASSUME Numbered, Batch, m_write_flag = FALSE, m_send_queue # <<>>,
         m_current_msgs = <<>>, m_current_msgs' = m_current_msgs \o Ready,
         m_send_queue' =
           SubSeq(m_send_queue, Len(Ready) + 1, Len(m_send_queue)),
         m_write_flag' = TRUE, UNCHANGED <<pushed, wire>>
  PROVE  Numbered'
<1> DEFINE q == m_send_queue
           L == Len(m_send_queue)
<1>1. /\ Len(pushed) \in Nat /\ L \in Nat /\ L > 0
      /\ Len(wire) \in Nat /\ Taken = Len(wire) /\ q \in Seq(Nat)
      /\ wire' \in Seq(Nat)
  <2>1. Len(m_current_msgs) = 0
    BY HeadOfOne
  <2>2. q \in Seq(Nat) /\ wire \in Seq(Nat)
    BY DEF Batch, Numbered
  <2> QED
    BY <2>1, <2>2, Lengths DEF Taken
<1>2. /\ Len(wire) + L = Len(pushed)
      /\ \A i \in 1..L : q[i] = Len(wire) + i
      /\ \A i \in 1..Len(wire) : ~Terminal(i)
  BY <1>1 DEF Numbered, Dead
<1>3. PICK n \in 1..L :
        /\ Ready = SubSeq(q, 1, n)
        /\ \A i \in 1..(n - 1) : ~Terminal(q[i])
  BY <1>1, ReadyPrefix
<1> HIDE DEF q, L
<1>4. /\ Ready \in Seq(Nat) /\ Len(Ready) = n
      /\ \A i \in 1..n : Ready[i] = q[i]
  <2>1. 1 \in Int /\ n \in Int /\ \A i \in 1..n : q[i] \in Nat
    BY <1>1, <1>2
  <2>2. /\ SubSeq(q, 1, n) \in Seq(Nat)
        /\ Len(SubSeq(q, 1, n)) = IF 1 <= n THEN n - 1 + 1 ELSE 0
        /\ \A i \in 1..(n - 1 + 1) : SubSeq(q, 1, n)[i] = q[1 + i - 1]
    BY <2>1, SubSeqProperties
  <2>3. n - 1 + 1 = n /\ 1 <= n /\ \A i \in 1..n : 1 + i - 1 = i
    BY <1>1
  <2> QED
    BY <1>3, <2>2, <2>3
<1>5. m_current_msgs' = Ready
  <2>1. m_current_msgs' = <<>> \o Ready
    OBVIOUS
  <2> QED
    BY <1>4, <2>1, ConcatEmptySeq
<1>6. /\ m_send_queue' \in Seq(Nat) /\ Len(m_send_queue') = L - n
      /\ \A i \in 1..(L - n) : m_send_queue'[i] = q[n + i]
  <2>1. n + 1 \in Int /\ L \in Int /\ \A i \in (n + 1)..L : q[i] \in Nat
    BY <1>1, <1>2
  <2>2. m_send_queue' = SubSeq(q, n + 1, L)
    BY <1>4 DEF q, L
  <2>3. /\ SubSeq(q, n + 1, L) \in Seq(Nat)
        /\ Len(SubSeq(q, n + 1, L)) =
             IF n + 1 <= L THEN L - (n + 1) + 1 ELSE 0
        /\ \A i \in 1..(L - (n + 1) + 1) :
             SubSeq(q, n + 1, L)[i] = q[(n + 1) + i - 1]
    BY <2>1, SubSeqProperties
  <2>4. /\ L - (n + 1) + 1 = L - n
        /\ \A i \in 1..(L - n) : (n + 1) + i - 1 = n + i
        /\ IF n + 1 <= L THEN L - n = L - n ELSE L - n = 0
    BY <1>1
  <2> QED
    BY <2>2, <2>3, <2>4
<1>7. Taken' = Len(wire) + n /\ Len(m_current_msgs') = n /\ Taken' \in Nat
  <2>1. Len(m_current_msgs') = n /\ n \in Nat
    BY <1>1, <1>4, <1>5
  <2>2. Len(wire') = Len(wire)
    OBVIOUS
  <2>3. Taken' = Len(wire') + Len(m_current_msgs')
    BY DEF Taken
  <2> QED
    BY <1>1, <2>1, <2>2, <2>3
<1>8. Taken' + Len(m_send_queue') = Len(pushed') /\ Taken' <= Len(pushed')
  <2>1. Len(pushed') = Len(pushed)
    OBVIOUS
  <2>2. /\ n \in Nat /\ n <= L /\ L \in Nat /\ Len(wire) \in Nat
        /\ Len(wire) + L = Len(pushed)
    BY <1>1, <1>2
  <2>3. Taken' = Len(wire) + n /\ Len(m_send_queue') = L - n
    BY <1>6, <1>7
  <2>4. (Len(wire) + n) + (L - n) = Len(pushed) /\ Len(wire) + n <= Len(pushed)
    BY <2>2
  <2> QED
    BY <2>1, <2>3, <2>4
<1>9. \A i \in 1..Len(m_send_queue') :
        m_send_queue'[i] = Taken' + i /\ m_send_queue'[i] \in 1..Len(pushed')
  <2> SUFFICES ASSUME NEW i \in 1..(L - n)
               PROVE  /\ m_send_queue'[i] = Taken' + i
                      /\ m_send_queue'[i] \in 1..Len(pushed')
    BY <1>6
  <2>1. n + i \in 1..L
    BY <1>1
  <2>2. m_send_queue'[i] = Len(wire) + (n + i)
    BY <1>2, <1>6, <2>1
  <2>3. Len(pushed') = Len(pushed) /\ i \in Nat /\ n \in Nat
    BY <1>1
  <2>4. m_send_queue'[i] = Taken' + i
    <3>1. Taken' = Len(wire) + n /\ Len(wire) \in Nat
      BY <1>1, <1>7
    <3>2. Len(wire) + (n + i) = (Len(wire) + n) + i
      BY <2>3, <3>1
    <3> QED
      BY <2>2, <3>1, <3>2
  <2>5. Len(wire) + (n + i) \in 1..Len(pushed)
    BY <1>1, <1>2, <2>1, <2>3
  <2> QED
    BY <2>2, <2>3, <2>4, <2>5
<1>10. \A i \in 1..Len(m_current_msgs') :
         m_current_msgs'[i] = Len(wire') + i
  <2>1. \A i \in 1..n : Ready[i] = Len(wire) + i
    <3>1. \A i \in 1..n : i \in 1..L
      BY <1>1
    <3> QED
      BY <1>2, <1>4, <3>1
  <2>2. Len(wire') = Len(wire)
    OBVIOUS
  <2> QED
    BY <1>5, <1>7, <2>1, <2>2
<1>11. \A i \in 1..(Taken' - 1) : ~Terminal(i)'
  <2> SUFFICES ASSUME NEW i \in 1..(Taken' - 1) PROVE ~Terminal(i)
    BY DEF Terminal
  <2>1. CASE i \in 1..Len(wire)
    BY <1>2, <2>1
  <2>2. CASE i \notin 1..Len(wire)
    <3>1. i - Len(wire) \in 1..(n - 1) /\ i - Len(wire) \in 1..L
      BY <1>1, <1>7, <2>2
    <3>2. q[i - Len(wire)] = i
      <4>1. q[i - Len(wire)] = Len(wire) + (i - Len(wire))
        BY <1>2, <3>1
      <4> QED
        BY <1>1, <1>7, <4>1
    <3> QED
      BY <1>3, <3>1, <3>2
  <2> QED
    BY <2>1, <2>2
<1>12. \A i \in 1..Len(wire') : wire'[i] = i
  BY DEF Numbered
<1>13. m_current_msgs' # <<>>
  BY <1>4, <1>5, <1>1
<1> QED
  BY <1>1, <1>8, <1>9, <1>10, <1>11, <1>12, <1>13 DEF Numbered

(* A write that ends: the first n messages of the batch got out, all of them
   unless it failed, and only after a whole batch without a terminal message
   another write is allowed. *)
LEMMA NumberedWritten ==
  ASSUME Numbered, Batch, m_current_msgs # <<>>,
         NEW n \in 0..Len(m_current_msgs),
         wire' = wire \o SubSeq(m_current_msgs, 1, n),
         m_current_msgs' = <<>>, UNCHANGED <<pushed, m_send_queue>>,
         \/ UNCHANGED m_write_flag
         \/ n = Len(m_current_msgs)
              /\ ~Terminal(m_current_msgs[Len(m_current_msgs)])
  PROVE  Numbered'
<1> DEFINE c == m_current_msgs
           C == Len(m_current_msgs)
           W == Len(wire)
<1>1. /\ Len(pushed) \in Nat /\ C \in Nat /\ C > 0 /\ W \in Nat
      /\ Taken = W + C /\ c \in Seq(Nat) /\ wire \in Seq(Nat)
      /\ m_write_flag = TRUE /\ ~Dead
  <2>1. c \in Seq(Nat) /\ wire \in Seq(Nat)
    BY DEF Batch, Numbered
  <2>2. m_write_flag = TRUE /\ ~Dead
    BY DEF Batch, Dead
  <2> QED
    BY <2>1, <2>2, Lengths DEF Taken
<1>2. /\ W + C <= Len(pushed)
      /\ \A i \in 1..W : wire[i] = i
      /\ \A i \in 1..C : c[i] = W + i
      /\ \A i \in 1..(W + C - 1) : ~Terminal(i)
      /\ W + C + Len(m_send_queue) = Len(pushed)
      /\ \A i \in 1..Len(m_send_queue) : m_send_queue[i] = W + C + i
      /\ \A i \in 1..Len(m_send_queue) : m_send_queue[i] \in 1..Len(pushed)
  BY <1>1 DEF Numbered
<1> HIDE DEF c, C, W
<1>3. n \in 0..C
  BY DEF C
<1>4. /\ SubSeq(c, 1, n) \in Seq(Nat) /\ Len(SubSeq(c, 1, n)) = n
      /\ \A i \in 1..n : SubSeq(c, 1, n)[i] = W + i
  <2>1. 1 \in Int /\ n \in Int /\ \A i \in 1..n : c[i] \in Nat
    <3>1. \A i \in 1..n : i \in 1..C
      BY <1>1, <1>3
    <3>2. \A i \in 1..n : c[i] = W + i
      BY <1>2, <3>1
    <3> QED
      BY <1>1, <1>3, <3>2
  <2>2. /\ SubSeq(c, 1, n) \in Seq(Nat)
        /\ Len(SubSeq(c, 1, n)) = IF 1 <= n THEN n - 1 + 1 ELSE 0
        /\ \A i \in 1..(n - 1 + 1) : SubSeq(c, 1, n)[i] = c[1 + i - 1]
    BY <2>1, SubSeqProperties
  <2>3. /\ n - 1 + 1 = n /\ \A i \in 1..n : 1 + i - 1 = i /\ i \in 1..C
        /\ IF 1 <= n THEN TRUE ELSE n = 0
    BY <1>1, <1>3
  <2> QED
    BY <1>2, <2>2, <2>3
<1>5. /\ wire' \in Seq(Nat) /\ Len(wire') = W + n
      /\ \A i \in 1..(W + n) : wire'[i] = i
  <2> DEFINE s == SubSeq(c, 1, n)
  <2>1. wire' = wire \o s /\ W = Len(wire)
    BY DEF c, W
  <2>2. s \in Seq(Nat) /\ Len(s) = n /\ \A i \in 1..n : s[i] = W + i
    BY <1>4
  <2> HIDE DEF s
  <2>3. /\ wire \o s \in Seq(Nat) /\ Len(wire \o s) = W + n
        /\ \A i \in 1..(W + n) :
             (wire \o s)[i] = IF i <= W THEN wire[i] ELSE s[i - W]
    <3>1. /\ wire \o s \in Seq(Nat) /\ Len(wire \o s) = Len(wire) + Len(s)
          /\ \A i \in 1..(Len(wire) + Len(s)) : (wire \o s)[i] =
               IF i <= Len(wire) THEN wire[i] ELSE s[i - Len(wire)]
      BY <1>1, <2>2, ConcatProperties
    <3>2. Len(wire) = W /\ Len(s) = n
      BY <2>1, <2>2
    <3> QED
      BY <3>1, <3>2
  <2>4. ASSUME NEW i \in 1..(W + n)
        PROVE  (wire \o s)[i] = i
    <3>1. CASE i <= W
      BY <1>1, <1>2, <2>3, <3>1
    <3>2. CASE ~(i <= W)
      <4>1. i - W \in 1..n
        BY <1>1, <1>3, <3>2
      <4>2. s[i - W] = W + (i - W)
        BY <2>2, <4>1
      <4>3. (wire \o s)[i] = s[i - W]
        BY <2>3, <3>2
      <4>4. W + (i - W) = i
        BY <1>1, <1>3
      <4> QED
        BY <4>2, <4>3, <4>4
    <3> QED
      BY <3>1, <3>2
  <2> QED
    BY <2>1, <2>3, <2>4
<1>6. Taken' = W + n /\ Len(m_current_msgs') = 0
  <2>1. Len(m_current_msgs') = 0
    BY HeadOfOne
  <2> QED
    BY <1>1, <1>3, <1>5, <2>1 DEF Taken
<1>7. Taken' <= Len(pushed')
  BY <1>1, <1>2, <1>3, <1>6
<1>8. \A i \in 1..(Taken' - 1) : ~Terminal(i)'
  <2>1. \A i \in 1..(Taken' - 1) : i \in 1..(W + C - 1)
    BY <1>1, <1>3, <1>6
  <2> QED
    BY <1>2, <2>1 DEF Terminal
<1>9. ASSUME ~Dead'
      PROVE  /\ Taken' = Taken
             /\ \A i \in 1..Taken' : ~Terminal(i)'
  <2>1. n = C /\ ~Terminal(c[C])
    BY <1>1, <1>9 DEF Dead, c, C
  <2>2. c[C] = W + C
    BY <1>1, <1>2
  <2>3. \A i \in 1..(W + C) : ~Terminal(i)
    <3> SUFFICES ASSUME NEW i \in 1..(W + C) PROVE ~Terminal(i)
      OBVIOUS
    <3>1. i \in 1..(W + C - 1) \/ i = W + C
      BY <1>1
    <3> QED
      BY <1>2, <2>1, <2>2, <3>1
  <2> QED
    BY <1>1, <1>6, <2>1, <2>3 DEF Terminal
<1>10. /\ \A i \in 1..Len(m_send_queue') :
              m_send_queue'[i] \in 1..Len(pushed')
       /\ \A i \in 1..Len(wire') : wire'[i] = i
       /\ \A i \in 1..Len(m_current_msgs') :
            m_current_msgs'[i] = Len(wire') + i
  BY <1>2, <1>5, <1>6
<1>11. ~Dead' =>
         /\ Taken' + Len(m_send_queue') = Len(pushed')
         /\ \A i \in 1..Len(m_send_queue') : m_send_queue'[i] = Taken' + i
         /\ \A i \in 1..Taken' : ~Terminal(i)'
  BY <1>1, <1>2, <1>9
<1> QED
  BY <1>5, <1>7, <1>8, <1>10, <1>11 DEF Numbered

(* A completed write leaves numbers behind. *)
LEMMA NumberedHandled ==
  ASSUME Quiet, Batch, Numbered, HandleWriteFrame
  PROVE  Numbered'
<1> USE DEF queueVars
<1>1. m_current_msgs # <<>> /\ m_current_msgs \in Seq(Nat)
  <2>1. ~Early /\ writing # <<>>
    BY HeadOfOne DEF HandleWriteFrame, WriteFrameFails, TerminalWritten,
                     BatchWritten, FrameWritten, Quiet, Early
  <2> QED
    BY <2>1 DEF Batch
<1>2. CASE WriteFrameFails
  <2>1. PICK n \in 0..Len(m_current_msgs) :
          wire' = wire \o SubSeq(m_current_msgs, 1, n)
    BY <1>2 DEF WriteFrameFails
  <2>2. /\ m_current_msgs' = <<>>
        /\ UNCHANGED <<pushed, m_send_queue, m_write_flag>>
    BY <1>2 DEF WriteFrameFails
  <2> QED
    BY <1>1, <2>1, <2>2, NumberedWritten
<1>3. CASE TerminalWritten \/ BatchWritten
  <2> DEFINE n == Len(m_current_msgs)
  <2>1. n \in 0..Len(m_current_msgs)
    BY <1>1
  <2>2. SubSeq(m_current_msgs, 1, n) = m_current_msgs
    BY <1>1
  <2>3. /\ wire' = wire \o m_current_msgs /\ m_current_msgs' = <<>>
        /\ UNCHANGED <<pushed, m_send_queue>>
        /\ \/ UNCHANGED m_write_flag
           \/ ~Terminal(m_current_msgs[Len(m_current_msgs)])
    BY <1>3 DEF TerminalWritten, BatchWritten, FrameWritten
  <2>4. wire' = wire \o SubSeq(m_current_msgs, 1, n)
    BY <2>2, <2>3
  <2> QED
    BY <1>1, <2>1, <2>3, <2>4, NumberedWritten
<1> QED
  BY <1>2, <1>3 DEF HandleWriteFrame

LEMMA NumberedStep ==
  ASSUME Writes, Numbered, [Next]_wsVars
  PROVE  Numbered'
<1> USE DEF Writes, queueVars, writeVars, senderVars
<1>1. CASE Handshake
  BY <1>1, NumberedRests
     DEF Handshake, Accept, AcceptFails, HandshakeReadFails,
         HandshakeReadLate, RequestComplete, HandshakeRead, ResponseEnds,
         ResponseLate, OpenConnection, ResponseWritten
<1>2. CASE WriteFrame
  <2>1. CASE UNCHANGED <<m_send_queue, m_current_msgs, m_write_flag, writing>>
    BY <1>2, <2>1, NumberedRests DEF WriteFrame
  <2>2. ASSUME m_write_flag = FALSE, m_send_queue # <<>>,
               m_current_msgs' = m_current_msgs \o Ready,
               m_send_queue' =
                 SubSeq(m_send_queue, Len(Ready) + 1, Len(m_send_queue)),
               m_write_flag' = TRUE
        PROVE  Numbered'
    <3>1. m_current_msgs = <<>> /\ UNCHANGED <<pushed, wire>>
      BY <1>2, <2>2 DEF WriteFrame, Batch
    <3> QED
      BY <2>2, <3>1, NumberedTake
  <2> QED
    BY <1>2, <2>1, <2>2 DEF WriteFrame, Batch
<1>3. CASE HandleWriteFrame
  BY <1>3, NumberedHandled
<1>4. CASE OnOpen \/ OnClose \/ FrameRead \/ FrameReadFails \/ ReadFrame
  BY <1>4, NumberedRests
     DEF OnOpen, OnClose, FrameRead, FrameReadFails, ReadFrame
<1>5. CASE \/ Answered("get_epoch", "reply") \/ Answered("ping", "pong")
           \/ CloseReceived \/ BadCloseReceived \/ ProtocolError
  <2>1. UNCHANGED <<m_current_msgs, m_write_flag, wire>>
    BY <1>5 DEF Answered, CloseReceived, BadCloseReceived, ProtocolError,
                Consume
  <2>2. CASE UNCHANGED queueVars
    BY <2>1, <2>2, NumberedRests
  <2>3. ASSUME NEW kind \in MessageKinds, Push(kind)
        PROVE  Numbered'
    BY <2>1, <2>3, NumberedPush DEF Push
  <2>4. /\ "reply" \in MessageKinds /\ "pong" \in MessageKinds
        /\ "close" \in MessageKinds
    BY DEF MessageKinds
  <2>5. UNCHANGED queueVars \/ Push("reply") \/ Push("pong") \/ Push("close")
    BY <1>5 DEF Answered, CloseReceived, BadCloseReceived, ProtocolError,
                Consume, Ignored, SendCloseFrame
  <2> QED
    BY <2>2, <2>3, <2>4, <2>5
<1>6. CASE Timeout
  BY <1>6, NumberedRests DEF Timeout, Expire, HandshakeTimeout, ShutdownTimeout
<1>7. CASE SenderStep
  <2>1. CASE SendPushes
    <3>1. "data" \in MessageKinds
      BY DEF MessageKinds
    <3>2. /\ pushed' = Append(pushed, "data")
          /\ m_send_queue' = Append(m_send_queue, Len(pushed) + 1)
          /\ UNCHANGED <<m_current_msgs, m_write_flag, wire>>
      BY <2>1 DEF SendPushes, SenderMoves
    <3> QED
      BY <3>1, <3>2, NumberedPush
  <2>2. CASE SendChecks \/ SendDispatches
    BY <2>2, NumberedRests DEF SendChecks, SendDispatches, SenderMoves
  <2> QED
    BY <1>7, <2>1, <2>2 DEF SenderStep
<1>8. CASE UNCHANGED wsVars
  BY <1>8, NumberedRests DEF wsVars
<1> QED
  BY <1>1, <1>2, <1>3, <1>4, <1>5, <1>6, <1>7, <1>8
     DEF Next, HandleReadFrame, Consumption

LEMMA NumberedInvariant == Spec => []Numbered
<1>1. Writes /\ Numbered /\ [Next]_wsVars => Numbered'
  BY NumberedStep
<1> QED
  BY NumberedInit, <1>1, WritesInvariant, PTL DEF Spec

(* The peer gets a prefix of what was pushed, in that order, and nothing after
   a close frame, whatever fails and whichever thread pushed it. *)
THEOREM WireKeepsOrder == Spec => []WireInOrder
<1>1. Writes /\ Numbered => WireInOrder
  <2> SUFFICES ASSUME Writes, Numbered PROVE WireInOrder
    OBVIOUS
  <2>1. /\ wire \in Seq(Nat) /\ DOMAIN wire = 1..Len(wire)
        /\ Len(wire) \in Nat /\ Len(m_current_msgs) \in Nat
        /\ Taken = Len(wire) + Len(m_current_msgs)
    BY Lengths DEF Writes, Numbered, Taken
  <2>2. \A i \in 1..Len(wire) : i < Len(wire) => i \in 1..(Taken - 1)
    BY <2>1
  <2> QED
    BY <2>1, <2>2 DEF WireInOrder, Numbered
<1> QED
  BY <1>1, WritesInvariant, NumberedInvariant, PTL

-----------------------------------------------------------------------------
(* The remaining types, and the bounds that the guards keep. *)
Bounds ==
  /\ response \in {"none", "refused", "switching"}
  /\ buffer \in Seq(FrameKinds) /\ frames \in 0..MaxFrames
  /\ sender \in {"idle", "checked", "pushed", "thrown"}
  /\ sends \in 0..MaxSends
  /\ sender = "checked" => sends < MaxSends

LEMMA BoundsInit == Init => Bounds
<1>1. <<>> \in Seq(FrameKinds)
  OBVIOUS
<1> QED
  BY <1>1, BoundsAssumption DEF Init, Bounds

LEMMA ArrivesBounds ==
  ASSUME NEW batch \in Batches, frames \in 0..MaxFrames, Arrives(batch)
  PROVE  buffer' \in Seq(FrameKinds) /\ frames' \in 0..MaxFrames
<1>1. PICK n \in 0..MaxRead : batch \in [1..n -> FrameKinds]
  BY DEF Batches
<1>2. batch \in Seq(FrameKinds) /\ Len(batch) \in Nat
  <2>1. n \in Nat
    BY BoundsAssumption
  <2> QED
    BY <1>1, <2>1, SeqDef
<1> QED
  BY <1>2, BoundsAssumption DEF Arrives

LEMMA BoundsStep ==
  ASSUME Bounds, [Next]_wsVars
  PROVE  Bounds'
<1> USE DEF handshakeVars, readVars, senderVars
<1>1. CASE RequestComplete
  <2>1. response' \in {"refused", "switching"} /\ UNCHANGED <<sender, sends>>
    BY <1>1 DEF RequestComplete, HandshakeRead
  <2>2. buffer' \in Seq(FrameKinds) /\ frames' \in 0..MaxFrames
    BY <1>1, ArrivesBounds DEF RequestComplete, HandshakeRead, Bounds
  <2> QED
    BY <2>1, <2>2 DEF Bounds
<1>2. CASE FrameRead
  <2>1. buffer' \in Seq(FrameKinds) /\ frames' \in 0..MaxFrames
    BY <1>2, ArrivesBounds DEF FrameRead, Bounds
  <2> QED
    BY <1>2, <2>1 DEF FrameRead, Bounds
<1>3. CASE Consumption
  <2>1. UNCHANGED <<response, frames, sender, sends>>
    BY <1>3 DEF Consumption, Answered, CloseReceived, BadCloseReceived,
                ProtocolError, Consume, ReadFrame
  <2>2. \/ buffer' = buffer
        \/ buffer' = <<>>
        \/ buffer # <<>> /\ buffer' = Tail(buffer)
    <3>1. CASE ReadFrame \/ ProtocolError
      BY <3>1 DEF ReadFrame, ProtocolError, Consume
    <3>2. CASE CloseReceived \/ BadCloseReceived
      BY <3>2 DEF CloseReceived, BadCloseReceived, Consume, Ignored, GoOn
    <3>3. CASE Answered("get_epoch", "reply") \/ Answered("ping", "pong")
      BY <3>3 DEF Answered, Consume, Ignored, GoOn
    <3> QED
      BY <1>3, <3>1, <3>2, <3>3 DEF Consumption
  <2>3. buffer' \in Seq(FrameKinds)
    <3>1. buffer \in Seq(FrameKinds)
      BY DEF Bounds
    <3> QED
      BY <2>2, <3>1, HeadTailProperties, EmptySeq
  <2> QED
    BY <2>1, <2>3 DEF Bounds
<1>4. CASE SenderStep
  <2>1. CASE SendChecks
    BY <2>1 DEF SendChecks, SenderMoves, Bounds
  <2>2. CASE SendPushes
    <3>1. sends' \in 0..MaxSends
      BY <2>2, BoundsAssumption DEF SendPushes, SenderMoves, Bounds
    <3> QED
      BY <2>2, <3>1 DEF SendPushes, SenderMoves, Bounds
  <2>3. CASE SendDispatches
    BY <2>3 DEF SendDispatches, SenderMoves, Bounds
  <2> QED
    BY <1>4, <2>1, <2>2, <2>3 DEF SenderStep
<1>5. ASSUME UNCHANGED <<response, buffer, frames, sender, sends>>
      PROVE  Bounds'
  BY <1>5 DEF Bounds
<1>6. CASE Handshake /\ ~RequestComplete
  BY <1>5, <1>6
     DEF Handshake, Accept, AcceptFails, HandshakeReadFails,
         HandshakeReadLate, HandshakeRead, ResponseEnds, ResponseLate,
         OpenConnection, ResponseWritten
<1>7. CASE WriteFrame \/ HandleWriteFrame
  BY <1>5, <1>7
     DEF WriteFrame, HandleWriteFrame, WriteFrameFails, TerminalWritten,
         BatchWritten, FrameWritten
<1>8. CASE OnOpen \/ OnClose \/ FrameReadFails
  BY <1>5, <1>8 DEF OnOpen, OnClose, FrameReadFails
<1>9. CASE Timeout
  BY <1>5, <1>9 DEF Timeout, Expire, HandshakeTimeout, ShutdownTimeout
<1>10. CASE UNCHANGED wsVars
  BY <1>5, <1>10 DEF wsVars
<1> QED
  BY <1>1, <1>2, <1>3, <1>4, <1>6, <1>7, <1>8, <1>9, <1>10
     DEF Next, HandleReadFrame

LEMMA BoundsInvariant == Spec => []Bounds
<1>1. Bounds /\ [Next]_wsVars => Bounds'
  BY BoundsStep
<1> QED
  BY BoundsInit, <1>1, PTL DEF Spec

LEMMA SeqOfNumbers ==
  ASSUME NEW s \in Seq(Nat), NEW S, \A i \in 1..Len(s) : s[i] \in S
  PROVE  s \in Seq(S)
<1>1. Len(s) \in Nat /\ s \in [1..Len(s) -> Nat]
  OBVIOUS
<1>2. s \in [1..Len(s) -> S]
  BY <1>1
<1> QED
  BY <1>1, <1>2, SeqDef

LEMMA ShortSeq ==
  \A S : /\ <<>> \in Seq(S)
         /\ \A x \in S : <<x>> \in Seq(S)
         /\ \A x, y \in S : <<x, y>> \in Seq(S)
OBVIOUS

(* The variables of a connection keep their types; in particular no number in
   a queue or on the network is one that was not pushed. *)
THEOREM ConnectionTypes == Spec => []WSTypeOK
<1>1. Writes /\ Served /\ Numbered /\ Bounds => WSTypeOK
  <2> SUFFICES ASSUME Writes, Served, Numbered, Bounds PROVE WSTypeOK
    OBVIOUS
  <2>1. /\ Len(pushed) \in Nat /\ Len(m_current_msgs) \in Nat
        /\ Len(wire) \in Nat /\ Taken = Len(wire) + Len(m_current_msgs)
        /\ Numbers = 1..Len(pushed)
        /\ m_send_queue \in Seq(Nat) /\ m_current_msgs \in Seq(Nat)
        /\ wire \in Seq(Nat)
    BY Lengths DEF Writes, Numbered, Taken, Numbers, Batch
  <2>2. m_send_queue \in Seq(Numbers)
    BY <2>1, SeqOfNumbers DEF Numbered
  <2>3. m_current_msgs \in Seq(Numbers)
    <3>1. \A i \in 1..Len(m_current_msgs) : m_current_msgs[i] \in Numbers
      BY <2>1 DEF Numbered
    <3> QED
      BY <2>1, <3>1, SeqOfNumbers
  <2>4. wire \in Seq(Numbers)
    <3>1. \A i \in 1..Len(wire) : wire[i] \in Numbers
      BY <2>1 DEF Numbered
    <3> QED
      BY <2>1, <3>1, SeqOfNumbers
  <2>5. writing \in Seq({"response", "frames", "doomed"})
    <3>1. writing \in {<<>>, <<"response">>, <<"frames">>, <<"doomed">>}
      BY DEF Writes, Quiet, Early
    <3> DEFINE Kinds == {"response", "frames", "doomed"}
    <3>2. "response" \in Kinds /\ "frames" \in Kinds /\ "doomed" \in Kinds
      OBVIOUS
    <3> HIDE DEF Kinds
    <3>3. writing \in Seq(Kinds)
      BY <3>1, <3>2, ShortSeq
    <3> QED
      BY <3>3 DEF Kinds
  <2>6. calls \in Seq({"on_open", "on_close"})
    <3>1. calls \in {<<>>, <<"on_open">>, <<"on_open", "on_close">>}
      BY DEF Writes, Phase
    <3> DEFINE Handlers == {"on_open", "on_close"}
    <3>2. "on_open" \in Handlers /\ "on_close" \in Handlers
      OBVIOUS
    <3> HIDE DEF Handlers
    <3>3. calls \in Seq(Handlers)
      BY <3>1, <3>2, ShortSeq
    <3> QED
      BY <3>3 DEF Handlers
  <2>7. timers \in Seq(Timer) /\ m_handshake_timer \in 0..Len(timers)
    BY DEF Served, Clocks, Clock
  <2>8. /\ m_write_flag \in BOOLEAN /\ needs_writing \in BOOLEAN
        /\ posted \in Nat /\ pushed \in Seq(MessageKinds)
    BY DEF Writes, Batch
  <2>9. /\ m_state \in {"connecting", "open", "closing", "closed"}
        /\ shutdown \in {"none", "failed", "closed"}
        /\ asio \in {"idle", "onOpen", "frames", "onClose"}
    BY DEF Writes, Phase
  <2>10. /\ m_internal_state \in {"USER_INIT", "READ_HTTP_REQUEST",
                             "PROCESS_HTTP_REQUEST", "PROCESS_CONNECTION"}
         /\ reading \in {"none", "handshake", "frame"}
    BY DEF Writes, Quiet
  <2> QED
    BY <2>2, <2>3, <2>4, <2>5, <2>6, <2>7, <2>8, <2>9, <2>10
       DEF WSTypeOK, Bounds, Timer
<1> QED
  BY <1>1, WritesInvariant, ServedInvariant, NumberedInvariant,
     BoundsInvariant, PTL
==============================================================================
