------------------------------- MODULE RpcPeer -------------------------------
(***************************************************************************)
(* One Electrum connection of src/electrs/src/rpc.rs as the server sees    *)
(* it: the reader thread (Connection::handle_requests), the dispatcher     *)
(* (handle_replies) and its bounded inbox, and the client's socket.        *)
(* RpcServer composes one instance of these actions per peer thread;       *)
(* RpcConnection, which keeps what each message means, refines them.       *)
(*                                                                         *)
(* A message is its kind: a Request line, a PeriodicUpdate or Done.  A     *)
(* handler's result is the dispatcher's next phase: it keeps running,      *)
(* it is in the middle of a broadcast (about to try_send to its own        *)
(* inbox), or handle_replies returned.                                     *)
(***************************************************************************)
EXTENDS Naturals, Sequences

CONSTANTS
  InboxCap,         \* SyncChannel::new(10): capacity of an inbox
  DispatcherCanFail \* whether handle_replies may return Err (bad request, write or query error)

VARIABLES
  phase,   \* [peer -> phase]: "running" | "broadcast" while handle_replies runs,
           \*   "exited" once it returned, "ended" once the peer thread finished
  reader,  \* [peer -> "read" | "request" | "done" | "exited"]: handle_requests,
           \*   blocked sending a Request or Done in the two middle states
  closed,  \* [peer -> BOOLEAN]: the client closed and every line it sent was read
  inbox    \* [peer -> Seq(Kinds)]

peerVars == <<phase, reader, closed, inbox>>

Kinds == {"request", "periodic", "done"}
HasRoom(p) == Len(inbox[p]) < InboxCap
(* handle_replies has not returned. *)
Serving(p) == phase[p] \in {"running", "broadcast"}
(* The peer thread still owns its Connection, so its inbox receiver lives. *)
Connected(p) == Serving(p) \/ phase[p] = "exited"
Failing == IF DispatcherCanFail THEN {"exited"} ELSE {}

(* Environment: a client that connected closes its socket. *)
ClientClose(p) ==
  /\ phase[p] # "idle"
  /\ ~closed[p]
  /\ closed' = [closed EXCEPT ![p] = TRUE]
  /\ UNCHANGED <<phase, reader, inbox>>

(* handle_requests reads a line: a request is to be sent as Request; a    *)
(* TLS hello or invalid UTF-8 is to be answered with Done and ends the     *)
(* thread.  The line read may be the last the client sent before closing. *)
ReaderLine(p) ==
  /\ reader[p] = "read"
  /\ Serving(p)
  /\ ~closed[p]
  /\ \E next \in {"request", "done"} : reader' = [reader EXCEPT ![p] = next]
  /\ closed' \in {closed, [closed EXCEPT ![p] = TRUE]}
  /\ UNCHANGED <<phase, inbox>>

(* An empty read, when the client closed or run() shut the socket down:  *)
(* Done is to be sent and the thread ends.                               *)
ReaderEof(p) ==
  /\ reader[p] = "read"
  /\ Connected(p)
  /\ closed[p] \/ phase[p] = "exited"
  /\ reader' = [reader EXCEPT ![p] = "done"]
  /\ UNCHANGED <<phase, closed, inbox>>

(* read_until fails (the client reset the connection): the error ends    *)
(* handle_requests through `?` without sending Done.                      *)
ReaderFails(p) ==
  /\ reader[p] = "read"
  /\ Serving(p)
  /\ closed[p]
  /\ reader' = [reader EXCEPT ![p] = "exited"]
  /\ UNCHANGED <<phase, closed, inbox>>

(* tx.send blocks until the inbox has room. *)
ReaderSend(p) ==
  /\ reader[p] \in {"request", "done"}
  /\ HasRoom(p)
  /\ inbox' = [inbox EXCEPT ![p] = Append(@, reader[p])]
  /\ reader' = [reader EXCEPT ![p] = IF reader[p] = "request" THEN "read" ELSE "exited"]
  /\ UNCHANGED <<phase, closed>>

(* What handle_replies does next after handling a message: Done returns; *)
(* a request is answered (a broadcast goes on to notify itself) and a    *)
(* PeriodicUpdate runs update_subscriptions, either of which may fail.   *)
Outcomes(m) ==
  CASE m = "done"     -> {"exited"}
    [] m = "periodic" -> {"running"} \cup Failing
    [] m = "request"  -> {"running", "broadcast"} \cup Failing

Dispatch(p) ==
  /\ phase[p] = "running"
  /\ inbox[p] # <<>>
  /\ inbox' = [inbox EXCEPT ![p] = Tail(@)]
  /\ \E next \in Outcomes(Head(inbox[p])) : phase' = [phase EXCEPT ![p] = next]
  /\ UNCHANGED <<reader, closed>>

(* blockchain_transaction_broadcast: try_send(PeriodicUpdate) to the own *)
(* inbox, dropped when it is full, then the reply.                       *)
SelfNotify(p) ==
  /\ phase[p] = "broadcast"
  /\ inbox' = [inbox EXCEPT ![p] = IF HasRoom(p) THEN Append(@, "periodic") ELSE @]
  /\ \E next \in {"running"} \cup Failing : phase' = [phase EXCEPT ![p] = next]
  /\ UNCHANGED <<reader, closed>>

(* Connection::run joins the reader; the peer thread ends and drops the   *)
(* Connection with its inbox.                                             *)
PeerEnd(p) ==
  /\ phase[p] = "exited"
  /\ reader[p] = "exited"
  /\ phase' = [phase EXCEPT ![p] = "ended"]
  /\ inbox' = [inbox EXCEPT ![p] = <<>>]
  /\ UNCHANGED <<reader, closed>>

(* The notifier's try_send(PeriodicUpdate) to this peer: it lands when   *)
(* the receiver lives and the inbox has room, and is dropped otherwise.  *)
TrySend(p) ==
  IF Connected(p) /\ HasRoom(p) THEN Append(inbox[p], "periodic") ELSE inbox[p]

Deliver(p) ==
  /\ inbox' = [inbox EXCEPT ![p] = TrySend(p)]
  /\ UNCHANGED <<phase, reader, closed>>

(* A registered connection that has just started run(). *)
PeerInit(p) ==
  /\ phase[p] = "running"
  /\ reader[p] = "read"
  /\ ~closed[p]
  /\ inbox[p] = <<>>

PeerNext(p) ==
  \/ ClientClose(p) \/ ReaderLine(p) \/ ReaderEof(p) \/ ReaderFails(p) \/ ReaderSend(p)
  \/ Dispatch(p) \/ SelfNotify(p) \/ PeerEnd(p) \/ Deliver(p)
=============================================================================
