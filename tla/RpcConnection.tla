---------------------------- MODULE RpcConnection ----------------------------
(***************************************************************************)
(* One Electrum connection of src/electrs/src/rpc.rs: the reader thread    *)
(* (Connection::handle_requests), the dispatcher (handle_replies,          *)
(* handle_command, update_subscriptions, send_values), the end of          *)
(* Connection::run (shutdown and join of the reader), and the notifier's   *)
(* try_send of PeriodicUpdate to this peer's bounded inbox.  The client    *)
(* and the chain (script-hash statuses and best header, read through       *)
(* Query) are the environment.                                             *)
(*                                                                         *)
(* Data abstraction: a request line is its method kind (and script hash);  *)
(* JSON, hex and ids are left out.  Methods whose only effect is one reply *)
(* are one kind, "call"; a handler error is a reply too.                   *)
(***************************************************************************)
EXTENDS Naturals, Sequences, FiniteSets, TLC

CONSTANTS
  ScriptHashes,    \* script hashes a client may subscribe to
  Statuses,        \* status hashes, including the null one of an empty history
  BestHeaders,     \* header entries the best header can be
  Unsubscribed,    \* no entry in status_hashes / no header subscription
  InboxCap,        \* SyncChannel::new(10): capacity of the inbox
  MaxLines,        \* bound on the lines a client sends
  MaxChainChanges, \* bound on the status and best-header changes
  QueryCanFail     \* whether Query calls may return Err

ASSUME /\ InboxCap \in Nat \ {0}
       /\ Unsubscribed \notin Statuses \cup BestHeaders

(* Request lines that parse as UTF-8 and are not a TLS hello. *)
Requests ==
  {[kind |-> "subscribe", sh |-> s] : s \in ScriptHashes}
  \cup {[kind |-> k, sh |-> Unsubscribed] : k \in {"headers", "broadcast", "call", "malformed"}}
(* Everything the client can put on the wire as one line: "reject" is a  *)
(* line starting with a TLS hello or one that is not UTF-8.              *)
Lines == Requests \cup {[kind |-> "reject", sh |-> Unsubscribed]}

Msgs == {[type |-> "request", line |-> r] : r \in Requests}
        \cup {[type |-> "periodic"], [type |-> "done"]}
Periodic == [type |-> "periodic"]
Done == [type |-> "done"]

VARIABLES
  wire,          \* lines the client sent that the reader has not read yet
  client,        \* [lines: lines sent, closed: client closed its socket]
  reader,        \* [pc: "read" | "send" | "exited", msg, then]: handle_requests
  inbox,         \* the connection's SyncChannel<Message>
  disp,          \* "run" | "exited" | "joined": handle_replies, then run()'s teardown
  registered,    \* the inbox sender is in the notifier's list
  lastHeader,    \* Connection.last_header_entry
  statusHashes,  \* Connection.status_hashes: [ScriptHashes -> Statuses \cup {Unsubscribed}]
  status,        \* Query: current status hash of each script hash
  best,          \* Query: current best header
  changes,       \* chain changes so far
  view,          \* what the client was last told of each script hash
  viewHeader,    \* what the client was last told of the best header
  notes,         \* the script-hash notifications written by the last step
  forwarded,     \* Request messages the reader put in the inbox
  answered       \* replies written

vars == <<wire, client, reader, inbox, disp, registered, lastHeader, statusHashes,
          status, best, changes, view, viewHeader, notes, forwarded, answered>>
chain == <<status, best, changes>>
subs == <<lastHeader, statusHashes>>

Subscribed == {s \in ScriptHashes : statusHashes[s] # Unsubscribed}
HasRoom == Len(inbox) < InboxCap
Running == disp = "run"
(* handle_replies has not returned: the socket is not shut down. *)
Live == disp \in {"run", "broadcast"}

Init ==
  /\ wire = <<>>
  /\ client = [lines |-> 0, closed |-> FALSE]
  /\ reader = [pc |-> "read", msg |-> Done, then |-> "read"]
  /\ inbox = <<>>
  /\ disp = "run"
  /\ registered = TRUE
  /\ lastHeader = Unsubscribed
  /\ statusHashes = [s \in ScriptHashes |-> Unsubscribed]
  /\ status \in [ScriptHashes -> Statuses]
  /\ best \in BestHeaders
  /\ changes = 0
  /\ view = [s \in ScriptHashes |-> Unsubscribed]
  /\ viewHeader = Unsubscribed
  /\ notes = {}
  /\ forwarded = 0
  /\ answered = 0
-----------------------------------------------------------------------------
(* Environment: the client writes a line or closes its socket. *)
ClientSend ==
  /\ ~client.closed
  /\ client.lines < MaxLines
  /\ \E l \in Lines : wire' = Append(wire, l)
  /\ client' = [client EXCEPT !.lines = @ + 1]
  /\ notes' = {}
  /\ UNCHANGED <<reader, inbox, disp, registered, subs, chain, view, viewHeader, forwarded, answered>>

ClientClose ==
  /\ ~client.closed
  /\ client' = [client EXCEPT !.closed = TRUE]
  /\ notes' = {}
  /\ UNCHANGED <<wire, reader, inbox, disp, registered, subs, chain, view, viewHeader, forwarded, answered>>

(* Environment: a block or a mempool transaction changes a status hash,   *)
(* or the best header moves.                                              *)
ChainChange ==
  /\ changes < MaxChainChanges
  /\ \/ \E s \in ScriptHashes : \E h \in Statuses \ {status[s]} :
          status' = [status EXCEPT ![s] = h] /\ UNCHANGED best
     \/ \E h \in BestHeaders \ {best} : best' = h /\ UNCHANGED status
  /\ changes' = changes + 1
  /\ notes' = {}
  /\ UNCHANGED <<wire, client, reader, inbox, disp, registered, subs, view, viewHeader, forwarded, answered>>

-----------------------------------------------------------------------------
(* Outcomes of a Query call and of a write_all to the client socket: a    *)
(* write to a socket the client closed may still succeed (kernel buffer). *)
QueryOutcomes == IF QueryCanFail THEN BOOLEAN ELSE {TRUE}
WriteOutcomes == IF client.closed THEN BOOLEAN ELSE {TRUE}

(* handle_requests: read_until(b'\n').  An empty read (the client closed, *)
(* or run() shut the socket down) sends Done and ends the thread; a TLS   *)
(* hello or invalid UTF-8 sends Done and ends it with an error; any other *)
(* line is sent as a Request.  Every send is a blocking send.             *)
ReaderRead ==
  /\ reader.pc = "read"
  /\ \/ /\ Live
        /\ wire # <<>>
        /\ wire' = Tail(wire)
        /\ reader' = IF Head(wire).kind = "reject"
                     THEN [pc |-> "send", msg |-> Done, then |-> "exited"]
                     ELSE [pc |-> "send", msg |-> [type |-> "request", line |-> Head(wire)],
                           then |-> "read"]
     \/ /\ (wire = <<>> /\ client.closed) \/ ~Live
        /\ reader' = [pc |-> "send", msg |-> Done, then |-> "exited"]
        /\ UNCHANGED wire
  /\ notes' = {}
  /\ UNCHANGED <<client, inbox, disp, registered, subs, chain, view, viewHeader, forwarded, answered>>

(* tx.send blocks until the inbox has room (the receiver lives as long as *)
(* run(), which joins this thread).                                       *)
ReaderSend ==
  /\ reader.pc = "send"
  /\ HasRoom
  /\ inbox' = Append(inbox, reader.msg)
  /\ forwarded' = IF reader.msg.type = "request" THEN forwarded + 1 ELSE forwarded
  /\ reader' = [reader EXCEPT !.pc = reader.then]
  /\ notes' = {}
  /\ UNCHANGED <<wire, client, disp, registered, subs, chain, view, viewHeader, answered>>
-----------------------------------------------------------------------------
(* handle_replies takes the next message; the cases below are the arms of *)
(* its match and of handle_command.                                       *)
Recv(type) == Running /\ inbox # <<>> /\ Head(inbox).type = type
RecvLine(kind) == Recv("request") /\ Head(inbox).line.kind = kind

(* send_values of one reply: a failed write ends handle_replies with Err. *)
Reply(wok) ==
  /\ disp' = IF wok THEN "run" ELSE "exited"
  /\ answered' = IF wok THEN answered + 1 ELSE answered

(* blockchain.scripthash.subscribe: query.status, record the status hash  *)
(* in status_hashes, reply with it; a failed query is an error reply.     *)
HandleScripthashSubscribe ==
  LET sh == Head(inbox).line.sh IN
  /\ RecvLine("subscribe")
  /\ inbox' = Tail(inbox)
  /\ \E qok \in QueryOutcomes, wok \in WriteOutcomes :
       /\ statusHashes' = IF qok THEN [statusHashes EXCEPT ![sh] = status[sh]] ELSE statusHashes
       /\ view' = IF qok /\ wok THEN [view EXCEPT ![sh] = status[sh]] ELSE view
       /\ Reply(wok)
  /\ notes' = {}
  /\ UNCHANGED <<wire, client, reader, registered, lastHeader, chain, viewHeader, forwarded>>

(* blockchain.headers.subscribe: get_best_header, reply, record it. *)
HandleHeadersSubscribe ==
  /\ RecvLine("headers")
  /\ inbox' = Tail(inbox)
  /\ \E qok \in QueryOutcomes, wok \in WriteOutcomes :
       /\ lastHeader' = IF qok THEN best ELSE lastHeader
       /\ viewHeader' = IF qok /\ wok THEN best ELSE viewHeader
       /\ Reply(wok)
  /\ notes' = {}
  /\ UNCHANGED <<wire, client, reader, registered, statusHashes, chain, view, forwarded>>

(* blockchain.transaction.broadcast: broadcast and update_mempool (a     *)
(* failure is an error reply) ...                                          *)
HandleBroadcast ==
  /\ RecvLine("broadcast")
  /\ inbox' = Tail(inbox)
  /\ \E qok \in QueryOutcomes :
       IF qok THEN disp' = "broadcast" /\ UNCHANGED answered
              ELSE \E wok \in WriteOutcomes : Reply(wok)
  /\ notes' = {}
  /\ UNCHANGED <<wire, client, reader, registered, subs, chain, view, viewHeader, forwarded>>

(* Variant: a blocking send to the own inbox instead of try_send. *)
BroadcastNotifyBlocking ==
  /\ disp = "broadcast"
  /\ HasRoom
  /\ inbox' = Append(inbox, Periodic)
  /\ \E wok \in WriteOutcomes : Reply(wok)
  /\ notes' = {}
  /\ UNCHANGED <<wire, client, reader, registered, subs, chain, view, viewHeader, forwarded>>

(* ... then try_send of PeriodicUpdate to the connection's own inbox,     *)
(* dropped with a warning when the reader or the notifier filled it in    *)
(* the meantime, and the reply.                                           *)
BroadcastNotify ==
  /\ disp = "broadcast"
  /\ inbox' = IF HasRoom THEN Append(inbox, Periodic) ELSE inbox
  /\ \E wok \in WriteOutcomes : Reply(wok)
  /\ notes' = {}
  /\ UNCHANGED <<wire, client, reader, registered, subs, chain, view, viewHeader, forwarded>>

(* Every other known method: one result or error reply (a handler error *)
(* becomes an error reply, rpc.rs:320-331), no state.                     *)
HandleCall ==
  /\ RecvLine("call")
  /\ inbox' = Tail(inbox)
  /\ \E wok \in WriteOutcomes : Reply(wok)
  /\ notes' = {}
  /\ UNCHANGED <<wire, client, reader, registered, subs, chain, view, viewHeader, forwarded>>

(* Invalid JSON, an invalid command shape, or an unknown method (the     *)
(* bail! at rpc.rs:316 returns Err from handle_command, and `?` at 400    *)
(* passes it on) ends handle_replies with Err.                            *)
HandleMalformed ==
  /\ RecvLine("malformed")
  /\ inbox' = Tail(inbox)
  /\ disp' = "exited"
  /\ notes' = {}
  /\ UNCHANGED <<wire, client, reader, registered, subs, chain, view, viewHeader, forwarded, answered>>

(* Message::Done ends handle_replies. *)
HandleDone ==
  /\ Recv("done")
  /\ inbox' = Tail(inbox)
  /\ disp' = "exited"
  /\ notes' = {}
  /\ UNCHANGED <<wire, client, reader, registered, subs, chain, view, viewHeader, forwarded, answered>>

(* Message::PeriodicUpdate: update_subscriptions then send_values.  With  *)
(* a header subscription, a best header that differs from the recorded    *)
(* one is recorded and notified; each subscribed script hash whose status *)
(* hash differs from the recorded one is recorded and notified.  A failed *)
(* query returns Err midway, after the entries iterated before it were    *)
(* updated (HashMap order), and ends handle_replies; so does a failed     *)
(* write.                                                                 *)
(* Variant: the comparison of update_subscriptions inverted. *)
StatusChangedInverted == {s \in Subscribed : status[s] = statusHashes[s]}

HeaderChanged == lastHeader # Unsubscribed /\ lastHeader # best
StatusChanged == {s \in Subscribed : status[s] # statusHashes[s]}
Refreshed(done) == [s \in ScriptHashes |->
                     IF s \in done \cap StatusChanged THEN status[s] ELSE statusHashes[s]]

(* Variant: a failed query is logged and the connection carries on. *)
HandlePeriodicSwallowingErrors ==
  /\ Recv("periodic")
  /\ inbox' = Tail(inbox)
  /\ \E qok \in QueryOutcomes, wok \in WriteOutcomes :
       IF qok
       THEN /\ lastHeader' = IF HeaderChanged THEN best ELSE lastHeader
            /\ statusHashes' = Refreshed(ScriptHashes)
            /\ view' = IF wok THEN [s \in ScriptHashes |->
                                     IF s \in StatusChanged THEN status[s] ELSE view[s]]
                              ELSE view
            /\ viewHeader' = IF wok /\ HeaderChanged THEN best ELSE viewHeader
            /\ notes' = IF wok THEN {[sh |-> s, val |-> status[s]] : s \in StatusChanged}
                               ELSE {}
            /\ disp' = IF wok THEN "run" ELSE "exited"
       ELSE /\ \E done \in SUBSET Subscribed :
                 /\ lastHeader' = IF HeaderChanged THEN best ELSE lastHeader
                 /\ statusHashes' = Refreshed(done)
            /\ notes' = {}
            /\ UNCHANGED <<view, viewHeader, disp>>
  /\ UNCHANGED <<wire, client, reader, registered, chain, forwarded, answered>>

HandlePeriodic ==
  /\ Recv("periodic")
  /\ inbox' = Tail(inbox)
  /\ \E qok \in QueryOutcomes, wok \in WriteOutcomes :
       IF qok
       THEN /\ lastHeader' = IF HeaderChanged THEN best ELSE lastHeader
            /\ statusHashes' = Refreshed(ScriptHashes)
            /\ view' = IF wok THEN [s \in ScriptHashes |->
                                     IF s \in StatusChanged THEN status[s] ELSE view[s]]
                              ELSE view
            /\ viewHeader' = IF wok /\ HeaderChanged THEN best ELSE viewHeader
            /\ notes' = IF wok THEN {[sh |-> s, val |-> status[s]] : s \in StatusChanged}
                               ELSE {}
            /\ disp' = IF wok THEN "run" ELSE "exited"
       ELSE /\ \/ /\ lastHeader # Unsubscribed
                  /\ UNCHANGED subs
               \/ \E done \in SUBSET Subscribed :
                    /\ lastHeader' = IF HeaderChanged THEN best ELSE lastHeader
                    /\ statusHashes' = Refreshed(done)
            /\ disp' = "exited"
            /\ notes' = {}
            /\ UNCHANGED <<view, viewHeader>>
  /\ UNCHANGED <<wire, client, reader, registered, chain, forwarded, answered>>

(* Variant: run() detaches the reader instead of joining it. *)
JoinDetached ==
  /\ disp = "exited"
  /\ disp' = "joined"
  /\ notes' = {}
  /\ UNCHANGED <<wire, client, reader, inbox, registered, subs, chain, view, viewHeader,
                 forwarded, answered>>

(* Connection::run after handle_replies returned: shutdown(Both), then    *)
(* join the reader; the peer thread ends and drops the connection.        *)
Join ==
  /\ disp = "exited"
  /\ reader.pc = "exited"
  /\ disp' = "joined"
  /\ notes' = {}
  /\ UNCHANGED <<wire, client, reader, inbox, registered, subs, chain, view, viewHeader,
                 forwarded, answered>>

(* Variants of the notifier: a send that ignores the capacity, and one   *)
(* that removes a peer whose inbox is full.                              *)
NotifyIgnoringCapacity ==
  /\ registered
  /\ \/ /\ disp # "joined"
        /\ inbox' = Append(inbox, Periodic)
        /\ UNCHANGED registered
     \/ /\ disp = "joined"
        /\ registered' = FALSE
        /\ UNCHANGED inbox
  /\ notes' = {}
  /\ UNCHANGED <<wire, client, reader, disp, subs, chain, view, viewHeader, forwarded, answered>>

NotifyDroppingFullPeer ==
  /\ registered
  /\ \/ /\ disp # "joined"
        /\ HasRoom
        /\ inbox' = Append(inbox, Periodic)
        /\ UNCHANGED registered
     \/ /\ disp = "joined" \/ ~HasRoom
        /\ registered' = FALSE
        /\ UNCHANGED inbox
  /\ notes' = {}
  /\ UNCHANGED <<wire, client, reader, disp, subs, chain, view, viewHeader, forwarded, answered>>

(* The notifier's loop body for this peer on Notification::Periodic:      *)
(* try_send(PeriodicUpdate); a full inbox drops the update (no step), a   *)
(* dropped receiver removes the sender from the list.                     *)
Notify ==
  /\ registered
  /\ \/ /\ disp # "joined"
        /\ HasRoom
        /\ inbox' = Append(inbox, Periodic)
        /\ UNCHANGED registered
     \/ /\ disp = "joined"
        /\ registered' = FALSE
        /\ UNCHANGED inbox
  /\ notes' = {}
  /\ UNCHANGED <<wire, client, reader, disp, subs, chain, view, viewHeader, forwarded, answered>>

Next ==
  \/ ClientSend \/ ClientClose \/ ChainChange
  \/ ReaderRead \/ ReaderSend
  \/ HandleScripthashSubscribe \/ HandleHeadersSubscribe \/ HandleBroadcast
  \/ BroadcastNotify \/ HandleCall \/ HandleMalformed \/ HandleDone \/ HandlePeriodic
  \/ Join \/ Notify

(* The threads of the connection run; the notifier is driven by notify(),  *)
(* which the server's caller invokes at a fixed cadence.  The client and  *)
(* the chain owe nothing.                                                 *)
Fairness ==
  /\ WF_vars(ReaderRead) /\ WF_vars(ReaderSend)
  /\ WF_vars(HandleScripthashSubscribe) /\ WF_vars(HandleHeadersSubscribe)
  /\ WF_vars(HandleBroadcast) /\ WF_vars(BroadcastNotify) /\ WF_vars(HandleCall)
  /\ WF_vars(HandleMalformed) /\ WF_vars(HandleDone) /\ WF_vars(HandlePeriodic)
  /\ WF_vars(Join) /\ WF_vars(Notify)

Spec == Init /\ [][Next]_vars /\ Fairness
-----------------------------------------------------------------------------
(* The type of each variable; the inbox never holds more than its         *)
(* capacity (every producer blocks or drops when it is full).             *)
TypeOK ==
  /\ wire \in Seq(Lines) /\ Len(wire) <= MaxLines
  /\ client \in [lines : 0..MaxLines, closed : BOOLEAN]
  /\ reader \in [pc : {"read", "send", "exited"}, msg : Msgs, then : {"read", "exited"}]
  /\ inbox \in Seq(Msgs) /\ Len(inbox) <= InboxCap
  /\ disp \in {"run", "broadcast", "exited", "joined"}
  /\ registered \in BOOLEAN
  /\ lastHeader \in BestHeaders \cup {Unsubscribed}
  /\ statusHashes \in [ScriptHashes -> Statuses \cup {Unsubscribed}]
  /\ view \in [ScriptHashes -> Statuses \cup {Unsubscribed}]
  /\ forwarded \in 0..MaxLines /\ answered \in 0..forwarded

(* While handle_replies runs, the client knows exactly what the           *)
(* connection recorded: status_hashes and last_header_entry are only      *)
(* changed by a step that writes the same values to the client, and a     *)
(* step that fails halfway ends the connection.                           *)
ViewMatchesRecord ==
  Live => /\ view = statusHashes
          /\ viewHeader = lastHeader

(* Once the chain stops changing and the client stops talking, a live     *)
(* connection's client eventually knows the current status of every       *)
(* script hash it subscribed to and the current best header, although    *)
(* the notifier drops PeriodicUpdates on a full inbox.                    *)
Fresh ==
  /\ \A s \in Subscribed : view[s] = status[s]
  /\ lastHeader # Unsubscribed => viewHeader = best
EventuallyFresh == <>[](~Live \/ Fresh)

(* The connection implements SubscriptionProtocol, reading "open" as      *)
(* handle_replies not having returned: a subscribe reply carries the      *)
(* current status (rpc.rs:178-180) or header (101-104); update_subscriptions *)
(* notifies only the entries whose status hash changed (357), with the    *)
(* new one, and the header only when it moved (344); after a failed query *)
(* or write the client is told nothing more.                              *)
SP == INSTANCE SubscriptionProtocol WITH open <- Live
SubscriptionsRefined == SP!Spec

(* The connection seen as one peer of RpcServer: message kinds only, the *)
(* dispatcher's phase, the reader's pending send, and "closed" once every *)
(* line the client sent before closing has been read.                     *)
Self == "peer"
PeerPhase == CASE disp = "run"       -> "running"
               [] disp = "broadcast" -> "broadcast"
               [] disp = "exited"    -> "exited"
               [] disp = "joined"    -> "ended"
PeerReader == IF reader.pc = "send" THEN reader.msg.type ELSE reader.pc
PR == INSTANCE RpcPeer WITH
        phase <- (Self :> PeerPhase),
        reader <- (Self :> PeerReader),
        closed <- (Self :> (client.closed /\ wire = <<>>)),
        inbox <- (Self :> IF disp = "joined" THEN <<>> ELSE [k \in DOMAIN inbox |-> inbox[k].type]),
        DispatcherCanFail <- TRUE

(* The connection implements the per-peer actions the server is checked *)
(* with (RpcServer composes RpcPeer): every step of handle_requests,     *)
(* handle_replies, the broadcast self-notify, the notifier's try_send    *)
(* and run()'s join of the reader (rpc.rs:457) is one of RpcPeer's, so   *)
(* the server's properties rest on what this connection really does.     *)
PeerRefined == PR!PeerInit(Self) /\ [][PR!PeerNext(Self)]_PR!peerVars

(* Every request the reader forwarded is eventually answered, unless the  *)
(* connection ends: the dispatcher never blocks on its own inbox.         *)
RequestsAnswered ==
  \A n \in 1..MaxLines : (forwarded >= n) ~> (answered >= n \/ ~Live)

=============================================================================
