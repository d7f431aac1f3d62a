----------------------------- MODULE AtomFilter ------------------------------
(***************************************************************************)
(* readBox and filterAtoms of src/CStreamVideo.cpp: the ftyp and moov boxes*)
(* of a packet are dropped and everything else is copied, until the packet *)
(* ends or what is left of it is not a whole box.  One step is one round of*)
(* the loop.  A byte of the packet is known by the box it belongs to and   *)
(* its place in it.                                                        *)
(*                                                                         *)
(* The packets are those of a muxer: sequences of boxes with a 32-bit size *)
(* of 8 or more, complete or cut off.                                      *)
(***************************************************************************)
EXTENDS Integers, Sequences, SequencesExt

CONSTANTS
  BoxKinds,  \* the boxes, [type, size]
  MaxBoxes   \* bound: boxes in a packet

ASSUME BoxAssumption ==
  MaxBoxes \in Nat /\ \A b \in BoxKinds : b.size \in Nat /\ b.size >= 8

VARIABLES
  boxes,      \* the boxes the packet was made of
  packet,     \* its bytes
  offset,
  filtered_packet,
  filtering   \* the loop goes on

filterVars == <<boxes, packet, offset, filtered_packet, filtering>>

BoxBytes(b, n) == [i \in 1..b.size |-> [box |-> n, at |-> i, of |-> b]]

AllBytes(bs) == FlattenSeq([n \in 1..Len(bs) |-> BoxBytes(bs[n], n)])

FilterInit ==
  /\ boxes \in UNION {[1..n -> BoxKinds] : n \in 0..MaxBoxes}
  /\ \E n \in 0..Len(AllBytes(boxes)) : packet = SubSeq(AllBytes(boxes), 1, n)
  /\ offset = 0 /\ filtered_packet = <<>> /\ filtering = TRUE

HeaderThere == offset + 8 <= Len(packet)

(* The size and the type, read where the parser believes them to be. *)
size == packet[offset + 1].of.size
type == packet[offset + 5].of.type

(* Mutant: the header is counted twice. *)
WholeBoxThere == HeaderThere /\ offset + 8 + size <= Len(packet)

(* The second test of readBox, when offset is behind the header. *)
BoxThere == HeaderThere /\ offset + 8 + size - 8 <= Len(packet)

(* readBox returns a box, which is copied or dropped. *)
ReadBox ==
  /\ filtering /\ offset < Len(packet) /\ BoxThere
  /\ offset' = offset + size
  /\ filtered_packet' =
       IF type \in {"ftyp", "moov"} THEN filtered_packet
       ELSE filtered_packet \o SubSeq(packet, offset + 1, offset + size)
  /\ UNCHANGED <<boxes, packet, filtering>>

(* readBox throws, behind the header or before it; the loop is left. *)
ReadThrows ==
  /\ filtering /\ offset < Len(packet) /\ ~BoxThere
  /\ offset' = IF HeaderThere THEN offset + 8 ELSE offset
  /\ filtering' = FALSE
  /\ UNCHANGED <<boxes, packet, filtered_packet>>

PacketEnds ==
  /\ filtering /\ offset >= Len(packet)
  /\ filtering' = FALSE
  /\ UNCHANGED <<boxes, packet, offset, filtered_packet>>

FilterNext == ReadBox \/ ReadThrows \/ PacketEnds

FilterSpec == FilterInit /\ [][FilterNext]_filterVars

-----------------------------------------------------------------------------
(* The filtered packet is made of the media boxes that are whole in the packet,
   all of them, unchanged and in order: a client that has had the first segment
   can append it as it is. *)
FilterKeepsMedia ==
  ~filtering =>
    \E n \in 0..Len(boxes) :
      /\ Len(AllBytes(SubSeq(boxes, 1, n))) <= Len(packet)
      /\ n < Len(boxes) => Len(AllBytes(SubSeq(boxes, 1, n + 1))) > Len(packet)
      /\ filtered_packet =
           FlattenSeq([k \in 1..n |-> IF boxes[k].type \in {"ftyp", "moov"}
                                        THEN <<>> ELSE BoxBytes(boxes[k], k)])
==============================================================================
