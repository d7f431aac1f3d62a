--------------------------- MODULE ConnectionLife ----------------------------
(***************************************************************************)
(* What websocketpp promises VideoStreamSocket about one connection: it    *)
(* opens at most once, it ends at most once, and the handlers, which keep  *)
(* the connection's handle in m_connections, are called once each, on_open *)
(* before on_close, and neither for a connection that never opened.        *)
(*                                                                         *)
(* WebSocketConnection.tla implements this with the library's state        *)
(* machine; LiveStream.tla relies on no more than this.                    *)
(***************************************************************************)
EXTENDS Sequences

VARIABLES
  state,  \* "none", "open", "closing" (send refuses) or "closed"
  calls   \* the handlers called so far

lifeVars == <<state, calls>>

(* The handle is in m_connections. *)
Registered == calls = <<"on_open">>

LifeInit == state = "none" /\ calls = <<>>

(* The handshake succeeded; on_open is about to be called. *)
Opens ==
  /\ state = "none"
  /\ state' = "open"
  /\ UNCHANGED calls

(* Nobody is told of a connection that never opened. *)
Fails ==
  /\ state = "none"
  /\ state' = "closed"
  /\ UNCHANGED calls

OpenHandler ==
  /\ state = "open" /\ calls = <<>>
  /\ calls' = <<"on_open">>
  /\ UNCHANGED state

Closes ==
  /\ state = "open" /\ Registered
  /\ state' = "closing"
  /\ UNCHANGED calls

Ends ==
  /\ state \in {"open", "closing"} /\ Registered
  /\ state' = "closed"
  /\ UNCHANGED calls

CloseHandler ==
  /\ state = "closed" /\ Registered
  /\ calls' = <<"on_open", "on_close">>
  /\ UNCHANGED state

LifeNext ==
  Opens \/ Fails \/ OpenHandler \/ Closes \/ Ends \/ CloseHandler

LifeSpec == LifeInit /\ [][LifeNext]_lifeVars

(* A connection that leaves the open state is taken out of m_connections. *)
LeavesTheSet == state \in {"closing", "closed"} ~> ~Registered
==============================================================================
