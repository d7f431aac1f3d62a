----------------------------- MODULE HttpRequest -----------------------------
(***************************************************************************)
(* How websocketpp reads the request that opens a connection: consume of   *)
(* http::parser::request (src/websocketpp/websocket/http/impl/request.hpp),*)
(* called by handle_read_handshake with the bytes of one read after the    *)
(* other.  One step is one round of its loop.                              *)
(*                                                                         *)
(* Reads end anywhere, also between the two bytes of a line's end.  A byte *)
(* is known by its place in what the client sends; of its value matters    *)
(* whether it is a CR, an LF or neither.  Of a line matters what it says:  *)
(* the method, a Host, a Content-Length, something else, or nothing legal. *)
(***************************************************************************)
EXTENDS Integers, Sequences, SequencesExt

CONSTANTS
  Requests,         \* bound: what a client may send, [lines, behind]: lines
                    \* of [text, means, length], then so many more bytes
  max_header_size,
  max_body_size

(* A line has no end within it; and what is behind the lines is no line. *)
ASSUME RequestAssumption ==
  /\ max_header_size \in Nat /\ max_body_size \in Nat
  /\ \A r \in Requests :
       /\ r.behind \in Nat
       /\ r.lines \in Seq([text : Seq({"CR", "LF", "x"}), means : STRING,
                           length : Nat])
       /\ \A n \in 1..Len(r.lines) : \A i \in 1..(Len(r.lines[n].text) - 1) :
            r.lines[n].text[i] = "CR" => r.lines[n].text[i + 1] # "LF"

VARIABLES
  request,          \* what the client sends
  read,             \* number of bytes read from the socket
  consuming,        \* consume is in its loop
  begin,            \* where the next line begins in m_buf, from 0
  m_buf,            \* the bytes kept, by their places
  m_header_bytes,   \* what is counted against max_header_size
  said,             \* what the lines processed so far say, in order
  m_body_bytes_needed,
  m_body,
  m_ready,
  processed,        \* number of bytes consume says it has taken
  thrown            \* the exception it has thrown

requestVars == <<request, read, consuming, begin, m_buf, m_header_bytes, said,
                 m_body_bytes_needed, m_body, m_ready, processed, thrown>>

(* The first n lines, with their ends. *)
Lines(n) ==
  FlattenSeq([k \in 1..n |-> request.lines[k].text \o <<"CR", "LF">>])

Text == Lines(Len(request.lines)) \o [i \in 1..request.behind |-> "x"]

Places(first, last) == [i \in 1..(last - first + 1) |-> first + i - 1]

(* The last byte of line n, with its end. *)
LineEnd(n) == Len(Lines(n))

RequestInit ==
  /\ request \in Requests
  /\ read = 0 /\ consuming = FALSE /\ begin = 0
  /\ m_buf = <<>> /\ m_header_bytes = 0 /\ said = <<>>
  /\ m_body_bytes_needed = 0 /\ m_body = <<>>
  /\ m_ready = FALSE /\ processed = 0 /\ thrown = "no"

-----------------------------------------------------------------------------
(* A read, asked for while the request is not complete: its bytes are taken
   for the body, or appended to what is left of the header. *)
Read ==
  /\ ~consuming /\ ~m_ready /\ thrown = "no"
  /\ read' \in (read + 1)..Len(Text)

ReadHeader ==
  /\ Read /\ m_body_bytes_needed = 0
  /\ m_buf' = m_buf \o Places(read + 1, read')
  /\ begin' = 0 /\ consuming' = TRUE
  /\ UNCHANGED <<request, m_header_bytes, said, m_body_bytes_needed, m_body,
                 m_ready, processed, thrown>>

(* process_body, with as many bytes as are needed and there. *)
ProcessBody(needed, first, last) ==
  LET taken == IF needed < last - first + 1 THEN needed ELSE last - first + 1
  IN  /\ m_body' = m_body \o Places(first, first + taken - 1)
      /\ m_body_bytes_needed' = needed - taken
      /\ processed' = first + taken - 1
      /\ m_ready' = (needed = taken)

ReadBody ==
  /\ Read /\ m_body_bytes_needed > 0
  /\ ProcessBody(m_body_bytes_needed, read + 1, read')
  /\ UNCHANGED <<request, consuming, begin, m_buf, m_header_bytes, said,
                 thrown>>

(* Where a line ends: the search for the delimiter. *)
Delimiters ==
  {e \in begin..(Len(m_buf) - 2) :
     Text[m_buf[e + 1]] = "CR" /\ Text[m_buf[e + 2]] = "LF"}

end ==
  IF Delimiters = {} THEN Len(m_buf)
  ELSE CHOOSE e \in Delimiters : \A d \in Delimiters : e <= d

(* sizeof(header_delimiter) counts the zero that ends it, too. *)
Counted == m_header_bytes + (end - begin + 3)

Round ==
  /\ consuming
  /\ UNCHANGED <<request, read>>

(* No more is read; what the exception leaves in the parser is not used. *)
Throw(why) ==
  /\ Round
  /\ thrown' = why /\ consuming' = FALSE
  /\ UNCHANGED <<begin, m_buf, m_header_bytes, said, m_body_bytes_needed,
                 m_body, m_ready, processed>>

HeaderTooLarge == Counted > max_header_size /\ Throw("header too large")

(* Mutant: the bytes of the line under way are dropped with the others. *)
DropsBytes ==
  /\ Round /\ Counted <= max_header_size /\ Delimiters = {}
  /\ m_buf' = <<>>
  /\ m_header_bytes' = Counted - Len(m_buf')
  /\ consuming' = FALSE /\ processed' = read
  /\ UNCHANGED <<begin, said, m_body_bytes_needed, m_body, m_ready, thrown>>

(* Mutant: what is kept stays counted, and is counted again. *)
CountsTwice ==
  /\ Round /\ Counted <= max_header_size /\ Delimiters = {}
  /\ m_buf' = SubSeq(m_buf, begin + 1, Len(m_buf))
  /\ m_header_bytes' = Counted
  /\ consuming' = FALSE /\ processed' = read
  /\ UNCHANGED <<begin, said, m_body_bytes_needed, m_body, m_ready, thrown>>

(* The rest of the bytes is kept for the next read. *)
OutOfBytes ==
  /\ Round /\ Counted <= max_header_size /\ Delimiters = {}
  /\ m_buf' = SubSeq(m_buf, begin + 1, Len(m_buf))
  /\ m_header_bytes' = Counted - Len(m_buf')
  /\ consuming' = FALSE /\ processed' = read
  /\ UNCHANGED <<begin, said, m_body_bytes_needed, m_body, m_ready, thrown>>

(* What the bytes between two delimiters say. *)
TheLine ==
  LET places == SubSeq(m_buf, begin + 1, end)
      here == {n \in 1..Len(request.lines) :
                 places = Places(LineEnd(n - 1) + 1, LineEnd(n) - 2)}
  IN  IF here = {} THEN [text |-> <<>>, means |-> "bad", length |-> 0]
      ELSE request.lines[CHOOSE n \in here : TRUE]

Headers == {"host", "length", "other"}

(* process, of the first line, and process_header, of the others. *)
LineThere == Delimiters # {} /\ end > begin /\ Counted <= max_header_size
LineLegal == IF said = <<>> THEN TheLine.means = "method"
                            ELSE TheLine.means \in Headers

ProcessLine ==
  /\ Round /\ LineThere /\ LineLegal
  /\ said' = Append(said, TheLine)
  /\ m_header_bytes' = Counted
  /\ begin' = end + 2
  /\ UNCHANGED <<consuming, m_buf, m_body_bytes_needed, m_body, m_ready,
                 processed, thrown>>

BadLine == LineThere /\ ~LineLegal /\ Throw("bad")

(* The blank line. *)
HeaderEnds == Delimiters # {} /\ end = begin /\ Counted <= max_header_size
Says(what) == {n \in DOMAIN said : said[n].means = what}
Complete == Says("host") # {}

(* Content-Length; of several the first one counts. *)
Length ==
  LET given == Says("length")
  IN  IF given = {} THEN 0
      ELSE said[CHOOSE n \in given : \A k \in given : n <= k].length

Incomplete == HeaderEnds /\ ~Complete /\ Throw("bad")
BodyTooLarge ==
  HeaderEnds /\ Complete /\ Length > max_body_size /\ Throw("body too large")

(* What is left of this read is the body, as far as it goes, and frames. *)
EndHeader ==
  /\ Round /\ HeaderEnds /\ Complete /\ Length <= max_body_size
  /\ ProcessBody(Length, read - (Len(m_buf) - end) + 3, read)
  /\ m_buf' = <<>> /\ m_header_bytes' = Counted /\ consuming' = FALSE
  /\ UNCHANGED <<begin, said, thrown>>

RequestNext ==
  \/ ReadHeader \/ ReadBody
  \/ HeaderTooLarge \/ OutOfBytes \/ ProcessLine \/ BadLine
  \/ Incomplete \/ BodyTooLarge \/ EndHeader

RequestSpec == RequestInit /\ [][RequestNext]_requestVars

-----------------------------------------------------------------------------
(* What a client sends, line by line, with no regard to bytes and reads. *)

Blank == {n \in 1..Len(request.lines) : request.lines[n].text = <<>>}
LastLine == IF Blank = {} THEN Len(request.lines)
            ELSE CHOOSE n \in Blank : \A k \in Blank : n <= k

SentLines ==
  SubSeq(request.lines, 1, IF Blank = {} THEN LastLine ELSE LastLine - 1)

(* The first line that is not legal where it is, or the end of a header without
   a Host; 0 if there is none. *)
Wrong ==
  LET wrong == {n \in 1..Len(SentLines) :
                  SentLines[n].means
                    \notin (IF n = 1 THEN {"method"} ELSE Headers)}
  IN  IF wrong # {} THEN CHOOSE n \in wrong : \A k \in wrong : n <= k
      ELSE IF /\ Blank # {}
              /\ \A n \in 1..Len(SentLines) : SentLines[n].means # "host"
             THEN LastLine ELSE 0

SentLength ==
  LET given == {n \in 1..Len(SentLines) : SentLines[n].means = "length"}
  IN  IF given = {} THEN 0
      ELSE SentLines[CHOOSE n \in given : \A k \in given : n <= k].length

(* However the bytes are cut into reads, the request is ready with its last byte
   and not before, with the lines and the body that were sent; the bytes behind
   it, which are frames, are left over; and it is refused as bad only for its
   first illegal line.  What is still incomplete is read on, and nothing of it
   has been lost. *)
RequestAsSent ==
  /\ m_ready =>
       /\ Blank # {} /\ Wrong = 0
       /\ said = SentLines
       /\ LineEnd(LastLine) <= max_header_size /\ SentLength <= max_body_size
       /\ m_body = Places(LineEnd(LastLine) + 1,
                          LineEnd(LastLine) + SentLength)
       /\ processed = LineEnd(LastLine) + SentLength /\ processed <= read
  /\ thrown = "bad" => Wrong # 0 /\ LineEnd(Wrong) <= read
  /\ thrown = "body too large" => Wrong = 0 /\ SentLength > max_body_size
  /\ ~consuming /\ ~m_ready /\ thrown = "no" =>
       /\ processed = read
       /\ Wrong # 0 => read < LineEnd(Wrong)
       /\ Blank # {} => read < LineEnd(LastLine) + SentLength

(* The count against max_header_size grows with the number of lines and of reads
   besides the bytes, so that max_header_size is not the "maximum size in bytes"
   (constants.hpp:64), and the same header may pass or not by its cut.  But no
   cut makes the count more than four and a half times the bytes: a header that
   short is never refused for its size. *)
ShortHeadersPass ==
  thrown = "header too large" => 2 * max_header_size < 9 * read
=============================================================================
