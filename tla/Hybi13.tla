------------------------------- MODULE Hybi13 --------------------------------
(***************************************************************************)
(* How websocketpp turns the bytes of a client into messages: consume of   *)
(* the hybi13 processor (src/websocketpp/websocket/processors/hybi13.hpp)  *)
(* and the loop of handle_read_frame around it (impl/connection_impl.hpp). *)
(* One step is one iteration of consume's loop.                            *)
(*                                                                         *)
(* Reads end anywhere, also within a header, a masking key or a code point.*)
(* A byte is known by the frame it belongs to and its place in it, so that *)
(* the parser, which only counts, can be seen to take a byte for what it   *)
(* is.  An octet of payload is one of "A" (a code point of its own), "L"   *)
(* (the first of two) and "C" (the second).                                *)
(***************************************************************************)
EXTENDS Integers, Sequences, SequencesExt, FiniteSetsExt

CONSTANTS
  Streams,           \* bound: the sequences of frames a client may send
  payload_size_basic,    \* the longest payload without an extended length
  payload_size_extended, \* the longest with one of 16 bits
  max_message_size

VARIABLES
  stream,            \* the frames the client sends, in order
  arrived,           \* number of bytes read from the socket
  p,                 \* number of bytes processed
  hybi_state,        \* m_state of the processor
  m_bytes_needed,
  m_basic_header,    \* the bytes in it
  m_extended_header, \* the bytes in it; its length is m_cursor
  m_data_msg, m_control_msg,
  m_current_msg,     \* which of the two: "data" or "control"
  delivered,         \* the messages handed out, in order
  ec                 \* consume has reported an error

readerVars == <<stream, arrived, p, hybi_state, m_bytes_needed, m_basic_header,
                m_extended_header, m_data_msg, m_control_msg, m_current_msg,
                delivered, ec>>

BASIC_HEADER_LENGTH == 2

Opcodes ==
  {"CONTINUATION", "TEXT", "BINARY", "CLOSE", "PING", "PONG", "RESERVED"}

(* The code of a length has room for it; the others are legal up to a limit. *)
ASSUME StreamAssumption ==
  /\ max_message_size \in Nat
  /\ payload_size_basic \in Nat /\ payload_size_extended \in Nat
  /\ payload_size_basic <= payload_size_extended
  /\ \A s \in Streams :
       /\ s \in Seq([opcode : Opcodes, fin : BOOLEAN, rsv : BOOLEAN,
                     masked : BOOLEAN, code : {"basic", "16bit", "64bit"},
                     payload : Seq({"A", "L", "C"})])
       /\ \A k \in 1..Len(s) :
            /\ s[k].code = "basic" => Len(s[k].payload) <= payload_size_basic
            /\ s[k].code = "16bit" => Len(s[k].payload) <= payload_size_extended

IsControl(opcode) == opcode \in {"CLOSE", "PING", "PONG"}

(* The bytes after the basic header: an extended length and a masking key. *)
ExtendedLength(f) ==
  (CASE f.code = "basic" -> 0 [] f.code = "16bit" -> 2 [] f.code = "64bit" -> 8)
    + (IF f.masked THEN 4 ELSE 0)

FrameLength(f) == BASIC_HEADER_LENGTH + ExtendedLength(f) + Len(f.payload)

(* The bytes of the first n frames. *)
Frames(n) ==
  FlattenSeq([k \in 1..n |->
    [i \in 1..FrameLength(stream[k]) |-> [frame |-> k, at |-> i]]])

(* The last byte of frame n of the stream, counted from the beginning. *)
End(n) == Len(Frames(n))

Bytes(first, last) == SubSeq(Frames(Len(stream)), first, last)

NoMessage == [opcode |-> "none", payload |-> <<>>, key |-> 0, rotation |-> 0,
              utf8 |-> "accept"]

ReaderInit ==
  /\ stream \in Streams
  /\ arrived = 0 /\ p = 0
  /\ hybi_state = "HEADER_BASIC" /\ m_bytes_needed = BASIC_HEADER_LENGTH
  /\ m_basic_header = <<>> /\ m_extended_header = <<>>
  /\ m_data_msg = NoMessage /\ m_control_msg = NoMessage
  /\ m_current_msg = "data"
  /\ delivered = <<>> /\ ec = FALSE

-----------------------------------------------------------------------------
(* What the parser makes of the bytes it has put into the headers: fin, rsv and
   opcode are in the first, mask and size code in the second, an extended length
   and the masking key behind them. *)

SentIn(header, i) == stream[header[i].frame]

(* get_header_len, without the basic header. *)
HeaderLen(basic) == ExtendedLength(SentIn(basic, 2))

(* validate_incoming_basic_header. *)
BasicHeaderOK(basic, new_msg) ==
  LET op == SentIn(basic, 1).opcode
  IN  /\ IsControl(op) =>
           SentIn(basic, 2).code = "basic" /\ SentIn(basic, 1).fin
      /\ ~SentIn(basic, 1).rsv /\ op # "RESERVED"
      /\ IF new_msg THEN op # "CONTINUATION"
                    ELSE IsControl(op) \/ op = "CONTINUATION"
      /\ SentIn(basic, 2).masked

(* get_payload_size. *)
PayloadSize(basic, extended) ==
  IF SentIn(basic, 2).code = "basic"
    THEN Len(SentIn(basic, 2).payload) ELSE Len(SentIn(extended, 1).payload)

(* validate_incoming_extended_header: a length is in its shortest form. *)
ExtendedHeaderOK(basic, extended) ==
  LET code == SentIn(basic, 2).code
      size == PayloadSize(basic, extended)
  IN  /\ code = "16bit" => size > payload_size_basic
      /\ code = "64bit" => size > payload_size_extended

(* byte_mask_circ: an octet comes out right if it meets the key of its own
   frame, turned by its place in the payload. *)
Unmasked(bytes, msg) ==
  [i \in 1..Len(bytes) |->
    [byte |-> bytes[i], key |-> msg.key,
     rotation |-> (msg.rotation + i - 1) % 4]]

Octet(b) ==
  LET f == stream[b.frame] IN f.payload[b.at - FrameLength(f) + Len(f.payload)]

(* The validator, octet by octet. *)
Decode(state, bytes) ==
  LET after[n \in 0..Len(bytes)] ==
        IF n = 0 THEN state
        ELSE CASE after[n - 1] = "accept" /\ Octet(bytes[n]) = "A" -> "accept"
               [] after[n - 1] = "accept" /\ Octet(bytes[n]) = "L" -> "middle"
               [] after[n - 1] = "middle" /\ Octet(bytes[n]) = "C" -> "accept"
               [] OTHER -> "reject"
  IN  after[Len(bytes)]

-----------------------------------------------------------------------------
(* Mutant: the loop wants a byte even when it needs none. *)
MoreBytes == ~ec /\ hybi_state # "READY" /\ p < arrived

(* The condition of consume's loop. *)
Consuming == ~ec /\ hybi_state # "READY" /\ (p < arrived \/ m_bytes_needed = 0)

(* A read, started when the bytes of the last are used up. *)
Arrive ==
  /\ ~Consuming /\ ~ec /\ hybi_state # "READY"
  /\ arrived' \in (arrived + 1)..End(Len(stream))
  /\ UNCHANGED <<stream, p, hybi_state, m_bytes_needed, m_basic_header,
                 m_extended_header, m_data_msg, m_control_msg, m_current_msg,
                 delivered, ec>>

(* As many bytes as are needed and there. *)
Taken == Min({m_bytes_needed, arrived - p})
TakenBytes == Bytes(p + 1, p + Taken)

Iteration(state) ==
  /\ Consuming /\ hybi_state = state
  /\ p' = p + Taken
  /\ UNCHANGED <<stream, arrived, delivered>>

ReadBasicHeader ==
  /\ Iteration("HEADER_BASIC")
  /\ m_basic_header' = m_basic_header \o TakenBytes
  /\ \/ /\ m_bytes_needed > Taken
        /\ m_bytes_needed' = m_bytes_needed - Taken
        /\ UNCHANGED <<hybi_state, ec>>
     \/ /\ m_bytes_needed = Taken
        /\ BasicHeaderOK(m_basic_header', m_data_msg = NoMessage)
        /\ hybi_state' = "HEADER_EXTENDED"
        /\ m_bytes_needed' = HeaderLen(m_basic_header')
        /\ UNCHANGED ec
     \/ /\ m_bytes_needed = Taken
        /\ ~BasicHeaderOK(m_basic_header', m_data_msg = NoMessage)
        /\ m_bytes_needed' = 0 /\ ec' = TRUE
        /\ UNCHANGED hybi_state
  /\ UNCHANGED <<m_extended_header, m_data_msg, m_control_msg, m_current_msg>>

NewMessage(extended) ==
  [opcode |-> SentIn(m_basic_header, 1).opcode, payload |-> <<>>,
   key |-> extended[1].frame, rotation |-> 0, utf8 |-> "accept"]

(* The message the payload goes to: a control message of its own, a new data
   message, or the one under way, which gets the key of this frame. *)
ChooseMessage(extended) ==
  \/ /\ IsControl(SentIn(m_basic_header, 1).opcode)
     /\ m_control_msg' = NewMessage(extended)
     /\ m_current_msg' = "control"
     /\ UNCHANGED m_data_msg
  \/ /\ ~IsControl(SentIn(m_basic_header, 1).opcode)
     /\ m_data_msg' = IF m_data_msg = NoMessage THEN NewMessage(extended)
                      ELSE [m_data_msg EXCEPT !.key = extended[1].frame,
                                              !.rotation = 0]
     /\ m_current_msg' = "data"
     /\ UNCHANGED m_control_msg

TooBig(size) ==
  /\ ~IsControl(SentIn(m_basic_header, 1).opcode)
  /\ Len(m_data_msg.payload) + size > max_message_size

(* An error leaves the rest as it is: nothing is consumed after it. *)
ReadExtendedHeader ==
  /\ Iteration("HEADER_EXTENDED")
  /\ m_extended_header' = m_extended_header \o TakenBytes
  /\ LET size == PayloadSize(m_basic_header, m_extended_header')
         OK == ExtendedHeaderOK(m_basic_header, m_extended_header')
                 /\ ~TooBig(size)
     IN  \/ /\ m_bytes_needed > Taken
            /\ m_bytes_needed' = m_bytes_needed - Taken
            /\ UNCHANGED <<hybi_state, m_data_msg, m_control_msg, m_current_msg,
                           ec>>
         \/ /\ m_bytes_needed = Taken /\ OK
            /\ ChooseMessage(m_extended_header')
            /\ hybi_state' = "APPLICATION" /\ m_bytes_needed' = size
            /\ UNCHANGED ec
         \/ /\ m_bytes_needed = Taken /\ ~OK
            /\ m_bytes_needed' = 0 /\ ec' = TRUE
            /\ UNCHANGED <<hybi_state, m_data_msg, m_control_msg,
                           m_current_msg>>
  /\ UNCHANGED m_basic_header

CurrentMsg == IF m_current_msg = "data" THEN m_data_msg ELSE m_control_msg

(* process_payload_bytes; what p is after an error is of no interest. *)
Process ==
  [CurrentMsg EXCEPT
    !.payload = @ \o Unmasked(TakenBytes, CurrentMsg),
    !.rotation = (@ + Taken) % 4,
    !.utf8 = IF CurrentMsg.opcode = "TEXT" THEN Decode(@, TakenBytes) ELSE @]

reset_headers ==
  /\ hybi_state' = "HEADER_BASIC" /\ m_bytes_needed' = BASIC_HEADER_LENGTH
  /\ m_basic_header' = <<>> /\ m_extended_header' = <<>>

(* finalize_message asks the opcode of the last frame whether it is text. *)
FinalizeOK(msg) ==
  SentIn(m_basic_header, 1).opcode = "TEXT" => msg.utf8 = "accept"

ReadPayload ==
  /\ Iteration("APPLICATION")
  /\ \/ m_current_msg = "data" /\ m_data_msg' = Process
          /\ UNCHANGED m_control_msg
     \/ m_current_msg = "control" /\ m_control_msg' = Process
          /\ UNCHANGED m_data_msg
  /\ LET fin == SentIn(m_basic_header, 1).fin
         unchanged == UNCHANGED <<m_basic_header, m_extended_header>>
     IN  \/ /\ Process.utf8 = "reject"
            /\ ec' = TRUE /\ UNCHANGED <<hybi_state, m_bytes_needed>> /\ unchanged
         \/ /\ Process.utf8 # "reject" /\ m_bytes_needed > Taken
            /\ m_bytes_needed' = m_bytes_needed - Taken
            /\ UNCHANGED <<hybi_state, ec>> /\ unchanged
         \/ /\ Process.utf8 # "reject" /\ m_bytes_needed = Taken /\ ~fin
            /\ reset_headers
            /\ UNCHANGED ec
         \/ /\ Process.utf8 # "reject" /\ m_bytes_needed = Taken /\ fin
            /\ m_bytes_needed' = 0 /\ unchanged
            /\ \/ FinalizeOK(Process) /\ hybi_state' = "READY" /\ UNCHANGED ec
               \/ ~FinalizeOK(Process) /\ ec' = TRUE /\ UNCHANGED hybi_state
  /\ UNCHANGED m_current_msg

(* get_message, by handle_read_frame, which passes it on. *)
GetMessage ==
  /\ ~ec /\ hybi_state = "READY"
  /\ delivered' = Append(delivered, [opcode |-> CurrentMsg.opcode,
                                     payload |-> CurrentMsg.payload])
  /\ reset_headers
  /\ \/ m_current_msg = "data" /\ m_data_msg' = NoMessage
          /\ UNCHANGED m_control_msg
     \/ m_current_msg = "control" /\ m_control_msg' = NoMessage
          /\ UNCHANGED m_data_msg
  /\ UNCHANGED <<stream, arrived, p, m_current_msg, ec>>

ReaderNext ==
  \/ Arrive \/ ReadBasicHeader \/ ReadExtendedHeader \/ ReadPayload
  \/ GetMessage

ReaderSpec == ReaderInit /\ [][ReaderNext]_readerVars

-----------------------------------------------------------------------------
(* What RFC 6455 makes of whole frames, with no regard to bytes and reads. *)

PayloadOf(n) ==
  LET f == stream[n]
  IN  [i \in 1..Len(f.payload) |->
        [byte |-> [frame |-> n, at |-> FrameLength(f) - Len(f.payload) + i],
         key |-> n, rotation |-> (i - 1) % 4]]

Octets(payload) == [i \in DOMAIN payload |-> Octet(payload[i].byte)]

(* Every second octet of a pair has its first; a first may lack its second at
   the end only, if anywhere. *)
ValidText(octets, whole) ==
  \A i \in DOMAIN octets :
    /\ octets[i] = "C" <=> i > 1 /\ octets[i - 1] = "L"
    /\ octets[i] = "L" /\ i = Len(octets) => ~whole

Shortest(length) ==
  IF length <= payload_size_basic THEN "basic"
  ELSE IF length <= payload_size_extended THEN "16bit" ELSE "64bit"

Nobody == [opcode |-> "none", payload |-> <<>>]

(* What a frame k adds to, behind those that mean m: a message of its own, or the
   one that is open. *)
MessageWith(m, k) ==
  IF IsControl(stream[k].opcode)
    THEN [opcode |-> stream[k].opcode, payload |-> PayloadOf(k)]
    ELSE [opcode |-> IF m.open = Nobody THEN stream[k].opcode ELSE m.open.opcode,
          payload |-> m.open.payload \o PayloadOf(k)]

(* Only a text message of a single frame has to end with a whole code point: that
   much the code asks. *)
LegalAfter(m, k) ==
  LET f == stream[k]
      msg == MessageWith(m, k)
  IN  /\ f.masked /\ ~f.rsv /\ f.opcode # "RESERVED"
      /\ f.code = Shortest(Len(f.payload))
      /\ IF IsControl(f.opcode) THEN f.fin /\ f.code = "basic"
         ELSE /\ (f.opcode = "CONTINUATION") = (m.open # Nobody)
              /\ Len(msg.payload) <= max_message_size
      /\ msg.opcode = "TEXT" =>
           ValidText(Octets(msg.payload), f.opcode = "TEXT" /\ f.fin)

(* The frames up to the n-th: the messages they complete, the message they leave
   open, and whether one of them is an error. *)
Meaning[n \in 0..Len(stream)] ==
  IF n = 0 THEN [out |-> <<>>, open |-> Nobody, error |-> FALSE]
  ELSE LET m == Meaning[n - 1]
       IN  IF m.error THEN m
           ELSE IF ~LegalAfter(m, n) THEN [m EXCEPT !.error = TRUE]
           ELSE IF ~stream[n].fin THEN [m EXCEPT !.open = MessageWith(m, n)]
           ELSE [m EXCEPT !.out = Append(@, MessageWith(m, n)),
                          !.open = IF IsControl(stream[n].opcode) THEN @
                                   ELSE Nobody]

(* However the bytes are cut into reads, the messages handed out are those of
   the frames, each as soon as its last byte is there, each octet unmasked with
   the right part of the right key, and the first illegal frame is refused, at
   the latest when it is complete and with everything before it handed out. *)
ReadsAsSent ==
  /\ ~ec /\ hybi_state # "READY" /\ ~Consuming =>
       LET n == CHOOSE k \in 0..Len(stream) :
                  /\ End(k) <= p
                  /\ k < Len(stream) => p < End(k + 1)
       IN  delivered = Meaning[n].out /\ ~Meaning[n].error
  /\ ec => \E n \in 1..Len(stream) :
             /\ ~Meaning[n - 1].error /\ Meaning[n].error
             /\ delivered = Meaning[n - 1].out
             /\ p <= End(n)
==============================================================================
