--------------------------- MODULE ComponentProofs ---------------------------
(***************************************************************************)
(* Theorems about the components that share no step with another one:      *)
(* LengthEncoding, EncoderResources, MediaBuffer and VideoFiles, each with *)
(* its own specification.  Those about the parsers are in ParserProofs.    *)
(***************************************************************************)
EXTENDS LengthEncoding, EncoderResources, MediaBuffer, VideoFiles,
        SequenceTheorems, TLAPS

-----------------------------------------------------------------------------
(* LengthEncoding. *)

Octet == 0..255

(* The numbers of 64 bits. *)
Lengths64 == {n \in Nat : n < 18446744073709551616}

LEMMA Shifting ==
  ASSUME NEW n \in Nat
  PROVE  /\ Shift1(n) \in Nat /\ n % 256 \in 0..255
         /\ n = Shift1(n) * 256 + (n % 256)
BY DEF Shift1

(* What one more shift takes away, for each of the seven. *)
LEMMA Shifts ==
  ASSUME NEW n \in Nat
  PROVE  /\ Shift1(n) \in Nat /\ n % 256 \in 0..255
         /\ n = Shift1(n) * 256 + (n % 256)
         /\ Shift2(n) \in Nat /\ Shift1(n) % 256 \in 0..255
         /\ Shift1(n) = Shift2(n) * 256 + (Shift1(n) % 256)
         /\ Shift3(n) \in Nat /\ Shift2(n) % 256 \in 0..255
         /\ Shift2(n) = Shift3(n) * 256 + (Shift2(n) % 256)
         /\ Shift4(n) \in Nat /\ Shift3(n) % 256 \in 0..255
         /\ Shift3(n) = Shift4(n) * 256 + (Shift3(n) % 256)
         /\ Shift5(n) \in Nat /\ Shift4(n) % 256 \in 0..255
         /\ Shift4(n) = Shift5(n) * 256 + (Shift4(n) % 256)
         /\ Shift6(n) \in Nat /\ Shift5(n) % 256 \in 0..255
         /\ Shift5(n) = Shift6(n) * 256 + (Shift5(n) % 256)
         /\ Shift7(n) \in Nat /\ Shift6(n) % 256 \in 0..255
         /\ Shift6(n) = Shift7(n) * 256 + (Shift6(n) % 256)
<1>1. /\ Shift1(n) \in Nat /\ n % 256 \in 0..255
      /\ n = Shift1(n) * 256 + (n % 256)
  BY Shifting
<1>2. /\ Shift2(n) \in Nat /\ Shift1(n) % 256 \in 0..255
      /\ Shift1(n) = Shift2(n) * 256 + (Shift1(n) % 256)
  BY <1>1, Shifting DEF Shift2
<1>3. /\ Shift3(n) \in Nat /\ Shift2(n) % 256 \in 0..255
      /\ Shift2(n) = Shift3(n) * 256 + (Shift2(n) % 256)
  BY <1>2, Shifting DEF Shift3
<1>4. /\ Shift4(n) \in Nat /\ Shift3(n) % 256 \in 0..255
      /\ Shift3(n) = Shift4(n) * 256 + (Shift3(n) % 256)
  BY <1>3, Shifting DEF Shift4
<1>5. /\ Shift5(n) \in Nat /\ Shift4(n) % 256 \in 0..255
      /\ Shift4(n) = Shift5(n) * 256 + (Shift4(n) % 256)
  BY <1>4, Shifting DEF Shift5
<1>6. /\ Shift6(n) \in Nat /\ Shift5(n) % 256 \in 0..255
      /\ Shift5(n) = Shift6(n) * 256 + (Shift5(n) % 256)
  BY <1>5, Shifting DEF Shift6
<1>7. /\ Shift7(n) \in Nat /\ Shift6(n) % 256 \in 0..255
      /\ Shift6(n) = Shift7(n) * 256 + (Shift6(n) % 256)
  BY <1>6, Shifting DEF Shift7
<1> QED
  BY <1>1, <1>2, <1>3, <1>4, <1>5, <1>6, <1>7

LEMMA LastShift ==
  ASSUME NEW n \in Lengths64
  PROVE  Shift7(n) % 256 = Shift7(n)
<1>1. n \in Nat /\ n < 18446744073709551616
  BY DEF Lengths64
<1>2. Shift7(n) \in Nat /\ Shift7(n) < 256
  BY <1>1, Shifts
<1> QED
  BY <1>2

(* The eight octets of a length make the length again. *)
LEMMA OctetsGetThrough ==
  ASSUME NEW n \in Lengths64
  PROVE  Number64(Octets64(n)) = n
<1>1. n \in Nat /\ Shift7(n) % 256 = Shift7(n)
  BY LastShift DEF Lengths64
<1>2. Number64(Octets64(n)) =
        ((((((Shift7(n) * 256 + (Shift6(n) % 256)) * 256 + (Shift5(n) % 256))
            * 256 + (Shift4(n) % 256)) * 256 + (Shift3(n) % 256)) * 256
            + (Shift2(n) % 256)) * 256 + (Shift1(n) % 256)) * 256 + (n % 256)
  BY <1>1 DEF Number64, Octets64
<1>3. /\ Shift7(n) * 256 + (Shift6(n) % 256) = Shift6(n)
      /\ Shift6(n) * 256 + (Shift5(n) % 256) = Shift5(n)
      /\ Shift5(n) * 256 + (Shift4(n) % 256) = Shift4(n)
      /\ Shift4(n) * 256 + (Shift3(n) % 256) = Shift3(n)
      /\ Shift3(n) * 256 + (Shift2(n) % 256) = Shift2(n)
      /\ Shift2(n) * 256 + (Shift1(n) % 256) = Shift1(n)
      /\ Shift1(n) * 256 + (n % 256) = n
  BY <1>1, Shifts
<1> QED
  BY <1>2, <1>3

LEMMA EightOctets ==
  ASSUME NEW n \in Nat
  PROVE  /\ Octets64(n) \in Seq(Octet) /\ Len(Octets64(n)) = 8
         /\ Octets64(n)[7] = Shift1(n) % 256 /\ Octets64(n)[8] = n % 256
<1>1. /\ Shift1(n) \in Nat /\ Shift2(n) \in Nat /\ Shift3(n) \in Nat
      /\ Shift4(n) \in Nat /\ Shift5(n) \in Nat /\ Shift6(n) \in Nat
      /\ Shift7(n) \in Nat
  BY Shifts
<1>2. \A m \in Nat : m % 256 \in 0..255
  OBVIOUS
<1>3. /\ Shift7(n) % 256 \in 0..255 /\ Shift6(n) % 256 \in 0..255
      /\ Shift5(n) % 256 \in 0..255 /\ Shift4(n) % 256 \in 0..255
      /\ Shift3(n) % 256 \in 0..255 /\ Shift2(n) % 256 \in 0..255
      /\ Shift1(n) % 256 \in 0..255 /\ n % 256 \in 0..255
  BY <1>1, <1>2, Zenon
<1> QED
  BY <1>3 DEF Octets64, Octet

(* Lengths of less than 64 bits get through as they are: both encodings are the
   same, and the decoder accepts them and finds the length (websocketpp's
   frame.hpp and send_websocket_frame). *)
THEOREM LengthsGetThrough64 ==
  \A n \in Lengths64 : LengthGetsThrough(n)
<1> SUFFICES ASSUME NEW n \in Lengths64
             PROVE  LengthGetsThrough(n)
  OBVIOUS
<1> USE DEF payload_size_basic_limit, payload_size_extended_limit,
            payload_size_code_16bit, payload_size_code_64bit
<1>0. n \in Nat
  BY DEF Lengths64
<1>1. CASE n <= 125
  <2>1. BasicValue(n) = n /\ PayloadOffset(n) = 8
    BY <1>0, <1>1 DEF BasicValue, PayloadOffset
  <2>2. LibraryEncodes(n) = [i \in 1..1 |-> n]
    BY <2>1 DEF LibraryEncodes
  <2>3. ServerEncodes(n) = <<n>>
    <3>1. n % 256 = n
      BY <1>0, <1>1
    <3> QED
      BY <1>1, <3>1 DEF ServerEncodes
  <2>4. LibraryEncodes(n) = <<n>>
    BY <2>2
  <2> QED
    BY <1>0, <1>1, <2>3, <2>4 DEF LengthGetsThrough, Decoded, Minimal
<1>2. CASE n > 125 /\ n <= 65535
  <2>1. BasicValue(n) = 126 /\ PayloadOffset(n) = 6
    BY <1>0, <1>2 DEF BasicValue, PayloadOffset
  <2>2. ServerEncodes(n) = <<126, Shift1(n) % 256, n % 256>>
    BY <1>0, <1>2 DEF ServerEncodes
  <2>3. LibraryEncodes(n) =
          [i \in 1..3 |-> IF i = 1 THEN 126 ELSE Octets64(n)[5 + i]]
    BY <2>1 DEF LibraryEncodes
  <2>4. LibraryEncodes(n) = <<126, Shift1(n) % 256, n % 256>>
    <3>1. LibraryEncodes(n) =
            [i \in 1..3 |-> IF i = 1 THEN 126
                            ELSE IF i = 2 THEN Shift1(n) % 256 ELSE n % 256]
      <4>1. \A i \in 1..3 : i # 1 =>
              Octets64(n)[5 + i] = IF i = 2 THEN Shift1(n) % 256 ELSE n % 256
        BY <1>0, EightOctets
      <4> QED
        BY <2>3, <4>1
    <3> QED
      BY <3>1
  <2>5. Shift1(n) * 256 + (n % 256) = n
    BY <1>0, Shifting
  <2>6. Shift1(n) % 256 = Shift1(n)
    <3>1. Shift1(n) \in Nat /\ Shift1(n) < 256
      BY <1>0, <1>2, Shifting
    <3> QED
      BY <3>1
  <2>7. Decoded(LibraryEncodes(n)) = n
    BY <2>4, <2>5, <2>6 DEF Decoded
  <2> QED
    BY <1>0, <1>2, <2>2, <2>4, <2>7 DEF LengthGetsThrough, Minimal
<1>3. CASE n > 65535
  <2> DEFINE o == Octets64(n)
  <2>1. o \in Seq(Octet) /\ Len(o) = 8
    BY <1>0, EightOctets
  <2>2. BasicValue(n) = 127 /\ PayloadOffset(n) = 0
    BY <1>0, <1>3 DEF BasicValue, PayloadOffset
  <2>3. LibraryEncodes(n) = [i \in 1..9 |-> IF i = 1 THEN 127 ELSE o[i - 1]]
    BY <2>2 DEF LibraryEncodes
  <2>4. ServerEncodes(n) = [i \in 1..9 |-> IF i = 1 THEN 127 ELSE o[i - 1]]
    BY <1>0, <1>3 DEF ServerEncodes
  <2>5. Number64(o) = n
    BY OctetsGetThrough
  <2> HIDE DEF o
  <2>6. LibraryEncodes(n) = ServerEncodes(n)
    BY <2>3, <2>4
  <2>7. [i \in 1..8 |-> LibraryEncodes(n)[i + 1]] = o
    <3>1. \A i \in 1..8 : LibraryEncodes(n)[i + 1] = o[i]
      BY <2>3
    <3>2. o = [i \in 1..8 |-> o[i]]
      BY <2>1, LenProperties
    <3> QED
      BY <3>1, <3>2
  <2>8. LibraryEncodes(n)[1] = 127
    BY <2>3
  <2>9. Decoded(LibraryEncodes(n)) = n
    BY <2>5, <2>7, <2>8 DEF Decoded
  <2> QED
    BY <1>0, <1>3, <2>6, <2>8, <2>9 DEF LengthGetsThrough, Minimal
<1> QED
  BY <1>0, <1>1, <1>2, <1>3

-----------------------------------------------------------------------------
(* EncoderResources. *)

(* A pointer leads to all there is, but for what remuxVideo holds. *)
Packets == {"remux_format", "remux_buffer"}

Held ==
  /\ file \in (-1)..6 /\ coder \in (-1)..6
  /\ fileHeap = fileContext
  /\ file = -1 => fileContext = {}
  /\ file < 5 => "pb" \notin fileContext
  /\ remux \in {"none", "format", "buffer"}
  /\ remux # "none" => coder = 6
  /\ remux = "none" => coderHeap = coderContext
  /\ remux = "format" => coderHeap = coderContext \cup {"remux_format"}
  /\ remux = "buffer" => coderHeap = coderContext \cup Packets
  /\ "remux_format" \notin coderContext /\ "remux_buffer" \notin coderContext
  /\ coder = -1 => coderContext = {}
  /\ failed \in Nat /\ lost \in Nat /\ lost <= failed

LEMMA FiveAllocations ==
  Len(Allocations) = 5 /\ Closed = -1 /\ Opened = 6
BY DEF Allocations, Closed, Opened

LEMMA AllocationNames ==
  ASSUME NEW i \in 0..4
  PROVE  /\ Allocations[i + 1] \notin Packets
         /\ i < 4 => Allocations[i + 1] # "pb"
<1>1. /\ Allocations[1] = "format" /\ Allocations[2] = "codec"
      /\ Allocations[3] = "frame" /\ Allocations[4] = "sws"
      /\ Allocations[5] = "pb"
  BY DEF Allocations
<1>2. i + 1 = 1 \/ i + 1 = 2 \/ i + 1 = 3 \/ i + 1 = 4 \/ i + 1 = 5
  OBVIOUS
<1>3. i < 4 => i + 1 # 5
  OBVIOUS
<1> QED
  BY <1>1, <1>2, <1>3 DEF Packets

LEMMA HeldInductive ==
  ASSUME Held, [ResourcesNext]_resourceVars
  PROVE  Held'
<1> USE FiveAllocations DEF Packets
<1>1. CASE FileOpen
  BY <1>1 DEF Held, FileOpen, coderVars
<1>2. CASE FileAllocates
  BY <1>2, AllocationNames DEF Held, FileAllocates, coderVars
<1>3. CASE FileOpened
  BY <1>3 DEF Held, FileOpened, coderVars
<1>4. CASE FileOpenFails
  BY <1>4 DEF Held, FileOpenFails, FileClose, coderVars
<1>5. CASE FileCloses
  BY <1>5 DEF Held, FileCloses, FileClose, coderVars
<1>6. CASE CoderOpen
  BY <1>6 DEF Held, CoderOpen, fileVars
<1>7. CASE CoderAllocates
  BY <1>7, AllocationNames DEF Held, CoderAllocates, fileVars
<1>8. CASE CoderOpened
  BY <1>8 DEF Held, CoderOpened, fileVars
<1>9. CASE CoderOpenFails
  BY <1>9 DEF Held, CoderOpenFails, fileVars
<1>10. CASE CoderCloses
  BY <1>10 DEF Held, CoderCloses, fileVars
<1>11. CASE RemuxAllocates
  BY <1>11 DEF Held, RemuxAllocates, Remuxes, fileVars
<1>12. CASE RemuxFails
  BY <1>12 DEF Held, RemuxFails, Remuxes, fileVars
<1>13. CASE RemuxSucceeds
  BY <1>13 DEF Held, RemuxSucceeds, Remuxes, fileVars
<1>14. CASE UNCHANGED resourceVars
  BY <1>14 DEF Held, resourceVars, fileVars, coderVars
<1> QED
  BY <1>1, <1>2, <1>3, <1>4, <1>5, <1>6, <1>7, <1>8, <1>9, <1>10, <1>11, <1>12,
     <1>13, <1>14 DEF ResourcesNext

(* Whatever fails in whatever order, a closed FFmpegEncoder or
   VideoStreamEncoder holds nothing, and the latter has lost no more than one
   context or buffer for each failed call. *)
THEOREM ResourcesAccounted == ResourcesSpec => []LeaksAreFailures
<1>1. ResourcesInit => Held
  BY FiveAllocations DEF ResourcesInit, Held
<1>2. Held => LeaksAreFailures
  BY FiveAllocations DEF Held, LeaksAreFailures
<1> QED
  BY <1>1, <1>2, HeldInductive, PTL DEF ResourcesSpec

-----------------------------------------------------------------------------
(* VideoFiles. *)

File == [time : Nat, packets : Nat, whole : BOOLEAN, of : Nat]

(* What remuxVideo has done so far: what it has read it has written. *)
Remuxing ==
  /\ clock \in Nat /\ recording \in File /\ muxed \in File /\ input \in File
  /\ unread \in Nat
  /\ gui \in {"idle", "playing", "opened", "created", "copying"}
  /\ gui \in {"opened", "created", "copying"} => input.packets >= unread
  /\ gui \in {"opened", "created"} => unread = input.packets
  /\ gui \in {"created", "copying"} => muxed.of = input.time
  /\ gui = "created" => muxed.packets = 0
  /\ gui = "copying" => muxed.packets + unread = input.packets
  /\ SuccessIsWhole

LEMMA RemuxingInductive ==
  ASSUME Remuxing, [VideoNext]_videoVars
  PROVE  Remuxing'
<1> USE DEF Remuxing, SuccessIsWhole, storageVars, guiVars, remuxVars, Tick
<1>1. CASE StartSession
  BY <1>1 DEF StartSession
<1>2. CASE SessionOpens
  <2>1. clock' \in Nat
    BY <1>2 DEF SessionOpens
  <2>2. recording' = [time |-> clock', packets |-> 0, whole |-> FALSE, of |-> 0]
    BY <1>2 DEF SessionOpens, NoFile
  <2>3. recording' \in File
    BY <2>1, <2>2 DEF File
  <2> QED
    BY <1>2, <2>1, <2>3 DEF SessionOpens
<1>3. CASE SessionOpenFails
  BY <1>3 DEF SessionOpenFails
<1>4. CASE SessionWrites
  <2>1. recording' \in File
    BY <1>4 DEF SessionWrites, File
  <2> QED
    BY <1>4, <2>1 DEF SessionWrites
<1>5. CASE SessionEnds
  <2>1. clock' \in Nat
    BY <1>5 DEF SessionEnds
  <2>2. \/ recording' = [recording EXCEPT !.time = clock', !.whole = TRUE]
        \/ recording' = recording
    BY <1>5 DEF SessionEnds
  <2>3. recording' \in File
    BY <2>1, <2>2 DEF File
  <2> QED
    BY <1>5, <2>1, <2>3 DEF SessionEnds
<1>6. CASE Play
  BY <1>6 DEF Play
<1>7. CASE PlayEnds
  BY <1>7 DEF PlayEnds
<1>8. CASE RemuxOpens
  BY <1>8 DEF RemuxOpens, Remux, File
<1>9. CASE RemuxRefused
  BY <1>9 DEF RemuxRefused, Remux
<1>10. CASE RemuxCreates
  <2>1. /\ clock' \in Nat /\ muxed' \in File
        /\ muxed'.of = input.time /\ muxed'.packets = 0
    <3>1. clock' \in Nat /\ input.time \in Nat
      BY <1>10 DEF RemuxCreates, File
    <3>2. muxed' =
            [time |-> clock', packets |-> 0, whole |-> FALSE, of |-> input.time]
      BY <1>10 DEF RemuxCreates, NoFile
    <3> QED
      BY <3>1, <3>2 DEF File
  <2> QED
    BY <1>10, <2>1 DEF RemuxCreates, Remux
<1>11. CASE RemuxHeaderFails
  BY <1>11 DEF RemuxHeaderFails, Remux
<1>12. CASE RemuxHeader
  BY <1>12 DEF RemuxHeader, Remux
<1>13. CASE RemuxCopies
  <2>1. /\ muxed' \in File /\ unread' \in Nat
        /\ muxed'.of = muxed.of /\ muxed'.packets = muxed.packets + 1
    BY <1>13 DEF RemuxCopies, File
  <2>2. muxed.packets \in Nat /\ input.packets \in Nat
    BY DEF File
  <2> QED
    BY <1>13, <2>1, <2>2 DEF RemuxCopies, Remux
<1>14. CASE RemuxEnds
  <2>1. PICK why \in {"none", "overwritten", "write_error"} :
          /\ RemuxTrailer(why)
          /\ why = "none" => unread = 0
    BY <1>14 DEF RemuxEnds
  <2>2. /\ clock' \in Nat /\ muxed' \in File
        /\ muxed'.of = muxed.of /\ muxed'.packets = muxed.packets
        /\ muxed'.whole = TRUE
    <3>1. clock' \in Nat
      BY <2>1 DEF RemuxTrailer
    <3>2. muxed' = [muxed EXCEPT !.time = clock', !.whole = TRUE]
      BY <2>1 DEF RemuxTrailer
    <3> QED
      BY <3>1, <3>2 DEF File
  <2>3. muxed.packets \in Nat /\ input.packets \in Nat
    BY DEF File
  <2> QED
    BY <2>1, <2>2, <2>3 DEF RemuxTrailer, Remux
<1>15. CASE UNCHANGED videoVars
  BY <1>15 DEF videoVars
<1> QED
  BY <1>1, <1>2, <1>3, <1>4, <1>5, <1>6, <1>7, <1>8, <1>9, <1>10, <1>11, <1>12,
     <1>13, <1>14, <1>15 DEF VideoNext

(* For recordings of any length, any number of sessions and clicks: success of
   the Remux button means a whole copy, but for the two incidents. *)
THEOREM RemuxIsWhole == VideoSpec => []SuccessIsWhole
<1>1. VideoInit => Remuxing
  BY DEF VideoInit, Remuxing, SuccessIsWhole, NoFile, File
<1>2. Remuxing => SuccessIsWhole
  BY DEF Remuxing
<1> QED
  BY <1>1, <1>2, RemuxingInductive, PTL DEF VideoSpec

-----------------------------------------------------------------------------
(* MediaBuffer. *)

(* Nothing is appended before there is a SourceBuffer, and none is made before
   the source is open. *)
Served ==
  /\ MediaTypeOK
  /\ readyState = "closed" => ~sourceBuffer
  /\ ~sourceBuffer => ~updating /\ appended = <<>>
  /\ QueueMoves

LEMMA MessagesAreNumbers ==
  ASSUME NEW s \in Seq(1..MaxMessages)
  PROVE  /\ Len(s) \in Nat /\ DOMAIN s = 1..Len(s) /\ DOMAIN s \subseteq Nat
         /\ \A i \in DOMAIN s : s[i] \in Int
<1>1. Len(s) \in Nat /\ DOMAIN s = 1..Len(s)
  BY LenProperties
<1>2. \A i \in 1..Len(s) : s[i] \in 1..MaxMessages
  BY ElementOfSeq
<1> QED
  BY <1>1, <1>2, MessagesAssumption

LEMMA AppendTypes ==
  ASSUME MediaTypeOK, NEW m \in 1..MaxMessages, AppendBuffer(m)
  PROVE  /\ updating' \in BOOLEAN /\ appended' \in Seq(1..MaxMessages)
         /\ refused' \in SUBSET (1..MaxMessages)
         /\ updating' = TRUE \/ refused' # {}
<1>1. CASE /\ updating' = TRUE
           /\ appended' = Append(appended, m)
           /\ UNCHANGED refused
  BY <1>1 DEF MediaTypeOK
<1>2. CASE /\ refused' = refused \cup {m}
           /\ UNCHANGED <<updating, appended>>
  BY <1>2 DEF MediaTypeOK
<1> QED
  BY <1>1, <1>2 DEF AppendBuffer

LEMMA ServedInductive ==
  ASSUME Served, [MediaNext]_mediaVars
  PROVE  Served'
<1> USE MessagesAssumption DEF Served, QueueMoves
<1>1. CASE SourceOpen
  BY <1>1 DEF SourceOpen, MediaTypeOK
<1>2. CASE OnMessage
  <2>1. /\ messages' \in 1..MaxMessages
        /\ overtaken' \in BOOLEAN
        /\ UNCHANGED <<readyState, sourceBuffer, updateends>>
    BY <1>2 DEF OnMessage, MediaTypeOK
  <2>2. CASE BufferReady /\ AppendBuffer(messages') /\ UNCHANGED queue
    <3>1. /\ updating' \in BOOLEAN /\ appended' \in Seq(1..MaxMessages)
          /\ refused' \in SUBSET (1..MaxMessages)
          /\ updating' = TRUE \/ refused' # {}
      BY <2>1, <2>2, AppendTypes
    <3> QED
      <4>1. MediaTypeOK'
        BY <2>1, <2>2, <3>1 DEF MediaTypeOK
      <4>2. readyState' = "open" /\ sourceBuffer'
        BY <2>1, <2>2 DEF BufferReady
      <4> QED
        BY <3>1, <4>1, <4>2
  <2>3. CASE /\ ~BufferReady
             /\ queue' = Append(queue, messages')
             /\ UNCHANGED <<updating, appended, refused>>
    <3>1. queue' \in Seq(1..MaxMessages)
      BY <2>1, <2>3 DEF MediaTypeOK
    <3> QED
      BY <2>1, <2>3, <3>1 DEF BufferReady, MediaTypeOK
  <2> QED
    BY <1>2, <2>2, <2>3 DEF OnMessage
<1>3. CASE Appended
  <2>1. updateends' \in Nat /\ updateends' > 0
    BY <1>3 DEF Appended, MediaTypeOK
  <2>2. updating' = FALSE /\ readyState' \in {readyState, "ended"}
        /\ UNCHANGED <<sourceBuffer, queue, messages, appended, refused,
                       overtaken>>
    BY <1>3 DEF Appended
  <2>3. MediaTypeOK'
    BY <2>1, <2>2 DEF MediaTypeOK
  <2> QED
    BY <2>1, <2>2, <2>3
<1>4. CASE OnUpdateEnd
  <2>1. /\ updateends' \in Nat
        /\ UNCHANGED <<readyState, sourceBuffer, messages, overtaken>>
    BY <1>4 DEF OnUpdateEnd, MediaTypeOK
  <2>2. CASE /\ queue # <<>> /\ BufferReady
             /\ AppendBuffer(Head(queue))
             /\ queue' = Tail(queue)
    <3>1. Head(queue) \in 1..MaxMessages /\ queue' \in Seq(1..MaxMessages)
      BY <2>2 DEF MediaTypeOK
    <3>2. /\ updating' \in BOOLEAN /\ appended' \in Seq(1..MaxMessages)
          /\ refused' \in SUBSET (1..MaxMessages)
          /\ updating' = TRUE \/ refused' # {}
      BY <2>2, <3>1, AppendTypes
    <3> QED
      BY <2>1, <2>2, <3>1, <3>2 DEF BufferReady, MediaTypeOK
  <2>3. CASE /\ ~(queue # <<>> /\ BufferReady)
             /\ UNCHANGED <<updating, queue, appended, refused>>
    BY <2>1, <2>3 DEF BufferReady, MediaTypeOK
  <2> QED
    BY <1>4, <2>2, <2>3 DEF OnUpdateEnd
<1>5. CASE UNCHANGED mediaVars
  BY <1>5 DEF mediaVars, MediaTypeOK
<1> QED
  BY <1>1, <1>2, <1>3, <1>4, <1>5 DEF MediaNext

(* Whatever the number of messages, an updateend or an append is under way
   while messages wait behind one that was appended. *)
THEOREM QueueIsServed == MediaSpec => [](MediaTypeOK /\ QueueMoves)
<1>1. MediaInit => Served
  <2> SUFFICES ASSUME MediaInit
               PROVE  Served
    OBVIOUS
  <2>1. MediaTypeOK
    <3>1. <<>> \in Seq(1..MaxMessages) /\ 0 \in 0..MaxMessages
      BY MessagesAssumption
    <3> QED
      BY <3>1 DEF MediaInit, MediaTypeOK
  <2>2. QueueMoves
    BY DEF MediaInit, QueueMoves
  <2> QED
    BY <2>1, <2>2 DEF MediaInit, Served
<1>2. Served => MediaTypeOK /\ QueueMoves
  BY DEF Served
<1> QED
  BY <1>1, <1>2, ServedInductive, PTL DEF MediaSpec

(* What has been played and what waits, as two sequences. *)
Increasing(s) == \A i, j \in DOMAIN s : i < j => s[i] < s[j]

Ordered ==
  ~overtaken =>
    /\ Increasing(appended) /\ Increasing(queue)
    /\ \A i \in DOMAIN appended : \A j \in DOMAIN queue : appended[i] < queue[j]
    /\ \A i \in DOMAIN appended : appended[i] <= messages
    /\ \A j \in DOMAIN queue : queue[j] <= messages

LEMMA OrderedInductive ==
  ASSUME MediaTypeOK, Ordered, [MediaNext]_mediaVars
  PROVE  Ordered'
<1> USE DEF MediaTypeOK
<1>1. CASE SourceOpen
  BY <1>1 DEF SourceOpen, Ordered, Increasing
<1>2. CASE OnMessage
  <2> SUFFICES ASSUME ~overtaken'
               PROVE  Ordered'
    BY DEF Ordered
  <2>1. ~overtaken /\ messages' = messages + 1 /\ messages \in Nat
        /\ (BufferReady => queue = <<>>)
    <3>1. overtaken' = (overtaken \/ (BufferReady /\ queue # <<>>))
          /\ messages' = messages + 1 /\ messages \in Nat
      BY <1>2 DEF OnMessage
    <3> QED
      BY <3>1, Zenon
  <2>2. CASE BufferReady /\ AppendBuffer(messages') /\ UNCHANGED queue
    <3>0. /\ Increasing(appended) /\ queue = <<>> /\ queue' = <<>>
          /\ \A i \in DOMAIN appended : appended[i] <= messages
          /\ \A i \in DOMAIN appended : appended[i] \in Int
          /\ DOMAIN queue' = {}
      BY <2>1, <2>2, MessagesAreNumbers DEF Ordered
    <3>1. CASE appended' = Append(appended, messages')
      <4>1. /\ DOMAIN appended' = DOMAIN appended \cup {Len(appended) + 1}
            /\ appended'[Len(appended) + 1] = messages'
            /\ \A i \in DOMAIN appended : appended'[i] = appended[i]
                                          /\ i < Len(appended) + 1
            /\ DOMAIN appended \subseteq Nat /\ Len(appended) \in Nat
        BY <3>1
      <4> HIDE DEF MediaTypeOK
      <4> QED
        BY <2>1, <3>0, <4>1 DEF Ordered, Increasing
    <3>2. CASE UNCHANGED appended
      <4> HIDE DEF MediaTypeOK
      <4> QED
        BY <2>1, <3>0, <3>2 DEF Ordered, Increasing
    <3> QED
      BY <2>2, <3>1, <3>2 DEF AppendBuffer
  <2>3. CASE /\ ~BufferReady
             /\ queue' = Append(queue, messages')
             /\ UNCHANGED <<updating, appended, refused>>
    <3>1. /\ DOMAIN queue' = DOMAIN queue \cup {Len(queue) + 1}
          /\ queue'[Len(queue) + 1] = messages'
          /\ \A i \in DOMAIN queue : queue'[i] = queue[i]
                                     /\ i < Len(queue) + 1
                                     /\ queue[i] \in Int
          /\ DOMAIN queue \subseteq Nat /\ Len(queue) \in Nat
      BY <2>3, MessagesAreNumbers
    <3>2. \A i \in DOMAIN appended : appended[i] \in Int
      BY MessagesAreNumbers
    <3> HIDE DEF MediaTypeOK
    <3>3. /\ Increasing(appended) /\ Increasing(queue)
          /\ \A i \in DOMAIN appended :
                \A j \in DOMAIN queue : appended[i] < queue[j]
          /\ \A i \in DOMAIN appended : appended[i] <= messages
          /\ \A j \in DOMAIN queue : queue[j] <= messages
      BY <2>1 DEF Ordered
    <3>4. Increasing(queue')
      BY <2>1, <3>1, <3>3 DEF Increasing
    <3>5. Increasing(appended') /\ appended' = appended
      BY <2>3, <3>3 DEF Increasing
    <3> QED
      BY <2>1, <3>1, <3>2, <3>3, <3>4, <3>5 DEF Ordered
  <2> QED
    BY <1>2, <2>2, <2>3 DEF OnMessage
<1>3. CASE Appended
  BY <1>3 DEF Appended, Ordered, Increasing
<1>4. CASE OnUpdateEnd
  <2>1. UNCHANGED <<messages, overtaken>>
    BY <1>4 DEF OnUpdateEnd
  <2>2. CASE /\ queue # <<>> /\ BufferReady
             /\ AppendBuffer(Head(queue))
             /\ queue' = Tail(queue)
    <3>1. /\ Head(queue) = queue[1] /\ 1 \in DOMAIN queue
          /\ \A j \in DOMAIN queue' : j + 1 \in DOMAIN queue
                                      /\ queue'[j] = queue[j + 1] /\ j + 1 > 1
          /\ DOMAIN queue' \subseteq Nat
      BY <2>2
    <3>2. CASE appended' = Append(appended, Head(queue))
      <4>1. /\ DOMAIN appended' = DOMAIN appended \cup {Len(appended) + 1}
            /\ appended'[Len(appended) + 1] = queue[1]
            /\ \A i \in DOMAIN appended : appended'[i] = appended[i]
                                          /\ i < Len(appended) + 1
            /\ DOMAIN appended \subseteq Nat /\ Len(appended) \in Nat
        BY <3>1, <3>2
      <4> HIDE DEF MediaTypeOK
      <4> QED
        BY <2>1, <3>1, <4>1 DEF Ordered, Increasing
    <3>3. CASE UNCHANGED appended
      BY <2>1, <3>1, <3>3 DEF Ordered, Increasing
    <3> QED
      BY <2>2, <3>2, <3>3 DEF AppendBuffer
  <2>3. CASE UNCHANGED <<updating, queue, appended, refused>>
    BY <2>1, <2>3 DEF Ordered, Increasing
  <2> QED
    BY <1>4, <2>2, <2>3 DEF OnUpdateEnd
<1>5. CASE UNCHANGED mediaVars
  BY <1>5 DEF mediaVars, Ordered, Increasing
<1> QED
  BY <1>1, <1>2, <1>3, <1>4, <1>5 DEF MediaNext

(* Whatever the number of messages, none is played out of the order of arrival
   unless one has found the SourceBuffer idle while others waited. *)
THEOREM ArrivalOrder == MediaSpec => []PlayedInOrder
<1>1. MediaInit => Ordered
  BY DEF MediaInit, Ordered, Increasing
<1>2. MediaTypeOK /\ Ordered => PlayedInOrder
  <2> SUFFICES ASSUME MediaTypeOK, Ordered, ~overtaken,
                      NEW i \in 1..Len(appended \o queue),
                      NEW j \in 1..Len(appended \o queue), i < j
               PROVE  (appended \o queue)[i] < (appended \o queue)[j]
    BY DEF PlayedInOrder
  <2>1. /\ appended \in Seq(1..MaxMessages) /\ queue \in Seq(1..MaxMessages)
        /\ Len(appended) \in Nat /\ Len(queue) \in Nat
        /\ DOMAIN appended = 1..Len(appended) /\ DOMAIN queue = 1..Len(queue)
    BY DEF MediaTypeOK
  <2>2. /\ Len(appended \o queue) = Len(appended) + Len(queue)
        /\ \A k \in 1..Len(appended) : (appended \o queue)[k] = appended[k]
        /\ \A k \in 1..(Len(appended) + Len(queue)) : k > Len(appended) =>
             (appended \o queue)[k] = queue[k - Len(appended)]
    BY <2>1
  <2>3. CASE j <= Len(appended)
    BY <2>1, <2>2, <2>3 DEF Ordered, Increasing
  <2>4. CASE i <= Len(appended) /\ j > Len(appended)
    <3>1. j - Len(appended) \in DOMAIN queue
      BY <2>1, <2>2, <2>4
    <3> QED
      BY <2>1, <2>2, <2>4, <3>1 DEF Ordered
  <2>5. CASE i > Len(appended)
    <3>1. /\ i - Len(appended) \in DOMAIN queue
          /\ j - Len(appended) \in DOMAIN queue
          /\ i - Len(appended) < j - Len(appended)
          /\ j > Len(appended)
      BY <2>1, <2>2, <2>5
    <3> QED
      BY <2>1, <2>2, <2>5, <3>1 DEF Ordered, Increasing
  <2> QED
    BY <2>1, <2>2, <2>3, <2>4, <2>5
<1> QED
  BY <1>1, <1>2, QueueIsServed, OrderedInductive, PTL DEF MediaSpec

==============================================================================
