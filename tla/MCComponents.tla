----------------------------- MODULE MCComponents ----------------------------
(***************************************************************************)
(* The components that share no step with another one, each on a small     *)
(* instance of its own.  The initial state chooses one of them, part, and  *)
(* only its steps are taken; the variables of the others rest.             *)
(*                                                                         *)
(*   connection  dataSender sends two messages while the peer sends two    *)
(*               frames, in one read or in two                             *)
(*   reader      up to three frames of a client, the last of any kind      *)
(*   request     requests of up to six lines, and bytes behind them     *)
(*   media       four messages for the browser                             *)
(*   filter      packets of up to three boxes, cut off anywhere            *)
(*   resources   the encoders' allocations, with two failed calls          *)
(*   files       recordings of two packets, six writes of a file           *)
(***************************************************************************)
EXTENDS WebSocketConnection, Hybi13, HttpRequest, MediaBuffer, AtomFilter,
        EncoderResources, VideoFiles, LengthEncoding

VARIABLE part

vars == <<part, wsVars, readerVars, requestVars, mediaVars, filterVars,
          resourceVars, videoVars>>

-----------------------------------------------------------------------------
(* The frames of a client: legal ones, and ones with something wrong. *)
Sent(opcode, fin, code, payload) ==
  [opcode |-> opcode, fin |-> fin, rsv |-> FALSE, masked |-> TRUE,
   code |-> code, payload |-> payload]

LegalFrames ==
  {Sent("TEXT", TRUE, "16bit", <<"L", "C">>),
   Sent("TEXT", FALSE, "basic", <<"L">>),
   Sent("CONTINUATION", FALSE, "basic", <<>>),
   Sent("CONTINUATION", TRUE, "basic", <<"C">>),
   Sent("BINARY", TRUE, "64bit", <<"C", "A", "C">>),
   Sent("BINARY", TRUE, "basic", <<>>), Sent("PING", TRUE, "basic", <<"A">>)}

WrongFrames ==
  {Sent("TEXT", TRUE, "basic", <<"L">>), Sent("TEXT", TRUE, "basic", <<"C">>),
   Sent("TEXT", TRUE, "16bit", <<"A">>),
   Sent("BINARY", TRUE, "64bit", <<"A", "A">>),
   Sent("CONTINUATION", TRUE, "64bit", <<"C", "A", "A">>),
   Sent("CLOSE", FALSE, "basic", <<>>),
   Sent("PONG", TRUE, "16bit", <<"A", "A">>),
   Sent("RESERVED", TRUE, "basic", <<>>),
   [Sent("PING", TRUE, "basic", <<>>) EXCEPT !.rsv = TRUE],
   [Sent("BINARY", TRUE, "basic", <<"A">>) EXCEPT !.masked = FALSE]}

MCStreams ==
  {<<f>> : f \in LegalFrames \cup WrongFrames}
    \cup {<<f, g>> : f \in LegalFrames, g \in LegalFrames \cup WrongFrames}
    \cup {<<Sent("TEXT", FALSE, "basic", <<"L">>), f, g>> :
            f \in LegalFrames, g \in LegalFrames}

(* The lines of a request, and what follows them; a CR within a line is one more
   byte of it. *)
Line(text, means, length) == [text |-> text, means |-> means, length |-> length]
Method == Line(<<"x", "x">>, "method", 0)
Host == Line(<<"x", "CR">>, "host", 0)
EmptyLine == Line(<<>>, "blank", 0)

MCRequests ==
  LET more == {Host, Line(<<"x">>, "other", 0), Line(<<"CR">>, "bad", 0),
               Line(<<"x">>, "length", 2), Line(<<"x">>, "length", 3)}
      lines == {<<Method, EmptyLine>>, <<Host, EmptyLine>>, <<EmptyLine>>,
                <<Method, Host>>}
                 \cup {<<Method, l, EmptyLine>> : l \in more}
                 \cup {<<Method, l, k, EmptyLine>> : l \in more, k \in more}
                 \cup {<<Method, Host, Host, Line(<<"x">>, "length", 2),
                         Line(<<"x">>, "length", 1), EmptyLine>>}
  IN  [lines : lines, behind : {0, 3}]

MCBoxKinds ==
  [type : {"ftyp", "moov", "moof"}, size : {8, 10}]

(* Lengths at and around the boundaries of the encoding. *)
Lengths ==
  (0..300) \cup (65000..66100)
    \cup {65536 * k + d : k \in {2, 255, 256, 257, 32767}, d \in {0, 1, 65535}}

ASSUME LengthsGetThrough == \A n \in Lengths : LengthGetsThrough(n)

-----------------------------------------------------------------------------
ComponentsInit ==
  /\ part \in {"connection", "reader", "request", "media", "filter",
               "resources", "files"}
  /\ FilterInit
  /\ part # "filter" => boxes = <<>>
  /\ Init
  /\ ReaderInit
  /\ part # "reader" => stream = <<Sent("CLOSE", FALSE, "basic", <<>>)>>
  /\ RequestInit
  /\ part # "request" => request = [lines |-> <<EmptyLine>>, behind |-> 0]
  /\ MediaInit
  /\ ResourcesInit
  /\ VideoInit

Rests(name, variables) == part # name => UNCHANGED variables

ComponentsNext ==
  /\ UNCHANGED part
  /\ Rests("connection", wsVars) /\ Rests("reader", readerVars)
  /\ Rests("request", requestVars)
  /\ Rests("media", mediaVars) /\ Rests("filter", filterVars)
  /\ Rests("resources", resourceVars) /\ Rests("files", videoVars)
  /\ \/ part = "connection" /\ Next
     \/ part = "reader" /\ ReaderNext
     \/ part = "request" /\ RequestNext
     \/ part = "media" /\ MediaNext
     \/ part = "filter" /\ FilterNext
     \/ part = "resources" /\ ResourcesNext
     \/ part = "files" /\ VideoNext

ComponentsSpec == ComponentsInit /\ [][ComponentsNext]_vars /\ Fairness
==============================================================================
