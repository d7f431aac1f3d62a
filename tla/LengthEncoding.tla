---------------------------- MODULE LengthEncoding ---------------------------
(***************************************************************************)
(* The length of a websocket frame, which this program encodes twice:      *)
(* send_websocket_frame of src/CWebSocketServer.cpp writes it out by hand, *)
(* for the file server; websocketpp (src/websocketpp/websocket/frame.hpp)  *)
(* does it for live streaming, and decodes it.  A length is a number, its  *)
(* encoding the octets after the first of the frame.                       *)
(***************************************************************************)
EXTENDS Integers, Sequences

payload_size_basic_limit == 125
payload_size_extended_limit == 65535
payload_size_code_16bit == 126
payload_size_code_64bit == 127

(* n shifted right by i octets. *)
Shift1(n) == n \div 256
Shift2(n) == Shift1(Shift1(n))
Shift3(n) == Shift1(Shift2(n))
Shift4(n) == Shift1(Shift3(n))
Shift5(n) == Shift1(Shift4(n))
Shift6(n) == Shift1(Shift5(n))
Shift7(n) == Shift1(Shift6(n))

(* The 64 bits of n in network order. *)
Octets64(n) ==
  <<Shift7(n) % 256, Shift6(n) % 256, Shift5(n) % 256, Shift4(n) % 256,
    Shift3(n) % 256, Shift2(n) % 256, Shift1(n) % 256, n % 256>>

(* send_websocket_frame.  (size() has 64 bits: with 32 the shifts of the last
   case are undefined.) *)
ServerEncodes(size) ==
  IF size <= 125 THEN <<size % 256>>
  ELSE IF size <= 65535 THEN <<126, Shift1(size) % 256, size % 256>>
  ELSE [i \in 1..9 |-> IF i = 1 THEN 127 ELSE Octets64(size)[i - 1]]

(* basic_header without a mask, and copy_payload of extended_header: the last
   octets of the 64 bits. *)
BasicValue(size) ==
  IF size <= payload_size_basic_limit THEN size
  ELSE IF size <= payload_size_extended_limit THEN payload_size_code_16bit
  ELSE payload_size_code_64bit

PayloadOffset(size) ==
  IF size <= payload_size_basic_limit THEN 8
  ELSE IF size <= payload_size_extended_limit THEN 6 ELSE 0

LibraryEncodes(size) ==
  [i \in 1..(9 - PayloadOffset(size)) |->
     IF i = 1 THEN BasicValue(size)
     ELSE Octets64(size)[PayloadOffset(size) + i - 1]]

(* get_payload_size: get_basic_size, get_extended_size, get_jumbo_size. *)
Number64(o) ==
  ((((((o[1] * 256 + o[2]) * 256 + o[3]) * 256 + o[4]) * 256 + o[5]) * 256
      + o[6]) * 256 + o[7]) * 256 + o[8]

Decoded(header) ==
  IF header[1] <= payload_size_basic_limit THEN header[1]
  ELSE IF header[1] = payload_size_code_16bit THEN header[2] * 256 + header[3]
  ELSE Number64([i \in 1..8 |-> header[i + 1]])

(* validate_incoming_extended_header. *)
Minimal(header) ==
  /\ header[1] = payload_size_code_16bit =>
       Decoded(header) > payload_size_basic_limit
  /\ header[1] = payload_size_code_64bit =>
       Decoded(header) > payload_size_extended_limit

(* The two encodings are the same, and what the decoder makes of them is the
   length again, in a form it accepts. *)
LengthGetsThrough(size) ==
  /\ ServerEncodes(size) = LibraryEncodes(size)
  /\ Decoded(LibraryEncodes(size)) = size
  /\ Minimal(LibraryEncodes(size))
==============================================================================
