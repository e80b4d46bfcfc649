------------------------------ MODULE RpcServer ------------------------------
(***************************************************************************)
(* The server threads of src/electrs/src/rpc.rs: the acceptor             *)
(* (start_acceptor), the spawn loop of the "rpc" thread (RPC::start), the  *)
(* per-peer threads it spawns, the notifier (start_notifier) with the      *)
(* shared list of peer senders, RPC::notify and RPC::drop.                 *)
(*                                                                         *)
(* Each peer thread runs the actions of RpcPeer (reader, dispatcher and  *)
(* inbox, composed here per peer); what a request or a subscription means *)
(* is RpcConnection's business, which refines RpcPeer.                    *)
(***************************************************************************)
EXTENDS Naturals, Sequences, FiniteSets, SequencesExt, RpcPeer

CONSTANTS
  Peers,       \* TCP clients that may connect
  None,        \* the None that ends the spawn loop
  MaxPending   \* bound on notifications waiting in the notifier channel

ASSUME /\ None \notin Peers
       /\ InboxCap \in Nat \ {0}
       /\ MaxPending \in Nat \ {0}
       /\ DispatcherCanFail \in BOOLEAN

VARIABLES
  senders,    \* Arc<Mutex<Vec<SyncSender<Message>>>>, as the peers they reach
  lock,       \* holder of the senders mutex across a blocking section
  chan,       \* the acceptor channel: Some(peer) or None
  server,     \* "loop" | "closing" | "joining" | "stopped": the rpc thread
  toSignal,   \* senders still to be sent Done by the closing loop
  signalled,  \* peers the closing loop sent Done to
  children,   \* peer threads spawned
  notif,      \* the notification channel
  dropped     \* RPC::drop has sent Exit

vars == <<phase, reader, closed, inbox, senders, lock, chan, server, toSignal,
          signalled, children, notif, dropped>>

Phases == {"idle", "queued", "spawned", "running", "broadcast", "exited", "ended"}
(* The server's own variables, left alone by a step of one peer thread. *)
srvVars == <<senders, lock, chan, server, toSignal, signalled, children, notif, dropped>>
Local(A) == A /\ UNCHANGED srvVars

Init ==
  /\ phase = [p \in Peers |-> "idle"]
  /\ reader = [p \in Peers |-> "read"]
  /\ closed = [p \in Peers |-> FALSE]
  /\ inbox = [p \in Peers |-> <<>>]
  /\ senders = <<>>
  /\ lock = "free"
  /\ chan = <<>>
  /\ server = "loop"
  /\ toSignal = <<>>
  /\ signalled = {}
  /\ children = {}
  /\ notif = <<>>
  /\ dropped = FALSE
-----------------------------------------------------------------------------
(* start_acceptor: accept a connection and send Some((stream, addr)) to    *)
(* the spawn loop (the acceptor panics on "send failed" once the rpc      *)
(* thread is gone).                                                        *)
Accept(p) ==
  /\ phase[p] = "idle"
  /\ server # "stopped"
  /\ phase' = [phase EXCEPT ![p] = "queued"]
  /\ chan' = Append(chan, p)
  /\ UNCHANGED <<reader, closed, inbox, senders, lock, server, toSignal, signalled,
                 children, notif, dropped>>

(* The spawn loop: Some(peer) spawns a peer thread ... *)
Spawn ==
  LET p == Head(chan) IN
  /\ server = "loop"
  /\ chan # <<>>
  /\ p # None
  /\ chan' = Tail(chan)
  /\ phase' = [phase EXCEPT ![p] = "spawned"]
  /\ children' = children \cup {p}
  /\ UNCHANGED <<reader, closed, inbox, senders, lock, server, toSignal, signalled,
                 notif, dropped>>

(* ... None ends it: the rpc thread locks the senders and, holding the     *)
(* lock, sends Done to each in turn.                                       *)
SpawnLoopEnd ==
  /\ server = "loop"
  /\ chan # <<>>
  /\ Head(chan) = None
  /\ lock = "free"
  /\ chan' = Tail(chan)
  /\ server' = "closing"
  /\ lock' = "server"
  /\ toSignal' = senders
  /\ UNCHANGED <<phase, reader, closed, inbox, senders, signalled, children, notif, dropped>>

(* Variant: the closing loop uses try_send and skips a full inbox. *)
SignalDoneTrySend ==
  LET p == Head(toSignal) IN
  /\ server = "closing"
  /\ toSignal # <<>>
  /\ \/ /\ Connected(p)
        /\ IF HasRoom(p)
           THEN /\ inbox' = [inbox EXCEPT ![p] = Append(@, "done")]
                /\ signalled' = signalled \cup {p}
           ELSE UNCHANGED <<inbox, signalled>>
     \/ /\ phase[p] = "ended"
        /\ UNCHANGED <<inbox, signalled>>
  /\ toSignal' = Tail(toSignal)
  /\ UNCHANGED <<phase, reader, closed, senders, lock, chan, server, children, notif, dropped>>

(* Variant: a send to a peer that already ended is retried, not skipped. *)
SignalDoneRetryingEnded ==
  LET p == Head(toSignal) IN
  /\ server = "closing"
  /\ toSignal # <<>>
  /\ Connected(p)
  /\ HasRoom(p)
  /\ inbox' = [inbox EXCEPT ![p] = Append(@, "done")]
  /\ signalled' = signalled \cup {p}
  /\ toSignal' = Tail(toSignal)
  /\ UNCHANGED <<phase, reader, closed, senders, lock, chan, server, children, notif, dropped>>

(* sender.send(Message::Done) blocks while the inbox is full; it fails,   *)
(* and is ignored, once the peer thread has dropped the connection.       *)
SignalDone ==
  LET p == Head(toSignal) IN
  /\ server = "closing"
  /\ toSignal # <<>>
  /\ \/ /\ Connected(p)
        /\ HasRoom(p)
        /\ inbox' = [inbox EXCEPT ![p] = Append(@, "done")]
        /\ signalled' = signalled \cup {p}
     \/ /\ phase[p] = "ended"
        /\ UNCHANGED <<inbox, signalled>>
  /\ toSignal' = Tail(toSignal)
  /\ UNCHANGED <<phase, reader, closed, senders, lock, chan, server, children, notif, dropped>>

(* Variant: the senders guard is bound to a name and lives across the    *)
(* joins, so the mutex is held until the rpc thread ends.                 *)
ClosingDoneHoldingLock ==
  /\ server = "closing"
  /\ toSignal = <<>>
  /\ server' = "joining"
  /\ UNCHANGED <<phase, reader, closed, inbox, senders, lock, chan, toSignal, signalled,
                 children, notif, dropped>>

(* After the last Done the lock is released and the children are joined. *)
ClosingDone ==
  /\ server = "closing"
  /\ toSignal = <<>>
  /\ server' = "joining"
  /\ lock' = "free"
  /\ UNCHANGED <<phase, reader, closed, inbox, senders, chan, toSignal, signalled,
                 children, notif, dropped>>

JoinChildren ==
  /\ server = "joining"
  /\ \A p \in children : phase[p] = "ended"
  /\ server' = "stopped"
  /\ UNCHANGED <<phase, reader, closed, inbox, senders, lock, chan, toSignal, signalled,
                 children, notif, dropped>>
-----------------------------------------------------------------------------
(* Connection::run starts with stream.try_clone().expect(..), which       *)
(* panics when the process is out of file descriptors: the peer thread    *)
(* unwinds before the reader is spawned and drops the Connection, inbox   *)
(* receiver included.                                                     *)
RunPanics(p) ==
  /\ phase' = [phase EXCEPT ![p] = "ended"]
  /\ reader' = [reader EXCEPT ![p] = "exited"]

(* The peer thread: Connection::new, then the inbox sender is pushed onto *)
(* the list under the mutex, then run().                                  *)
Register(p) ==
  /\ phase[p] = "spawned"
  /\ lock = "free"
  /\ senders' = Append(senders, p)
  /\ \/ /\ phase' = [phase EXCEPT ![p] = "running"]
        /\ UNCHANGED reader
     \/ RunPanics(p)
  /\ UNCHANGED <<closed, inbox, lock, chan, server, toSignal, signalled,
                 children, notif, dropped>>

-----------------------------------------------------------------------------
(* RPC::notify sends Periodic to the notifier; RPC::drop sends Exit.      *)
Notify ==
  /\ ~dropped
  /\ Len(notif) < MaxPending
  /\ notif' = Append(notif, "periodic")
  /\ UNCHANGED <<phase, reader, closed, inbox, senders, lock, chan, server, toSignal,
                 signalled, children, dropped>>

Drop ==
  /\ ~dropped
  /\ notif' = Append(notif, "exit")
  /\ dropped' = TRUE
  /\ UNCHANGED <<phase, reader, closed, inbox, senders, lock, chan, server, toSignal,
                 signalled, children>>

(* Variants of the notifier's loop: a send that ignores the capacity, a  *)
(* full inbox taken for a gone receiver, and no pruning at all.           *)
NotifierPeriodicIgnoringCapacity ==
  /\ notif # <<>>
  /\ Head(notif) = "periodic"
  /\ lock = "free"
  /\ notif' = Tail(notif)
  /\ senders' = SelectSeq(senders, LAMBDA p : phase[p] # "ended")
  /\ inbox' = [p \in Peers |->
                IF p \in Range(senders) /\ Connected(p)
                THEN Append(inbox[p], "periodic") ELSE inbox[p]]
  /\ UNCHANGED <<phase, reader, closed, lock, chan, server, toSignal, signalled,
                 children, dropped>>

NotifierPeriodicDroppingFull ==
  /\ notif # <<>>
  /\ Head(notif) = "periodic"
  /\ lock = "free"
  /\ notif' = Tail(notif)
  /\ senders' = SelectSeq(senders, LAMBDA p : phase[p] # "ended" /\ HasRoom(p))
  /\ inbox' = [p \in Peers |->
                IF p \in Range(senders) /\ Connected(p) /\ HasRoom(p)
                THEN Append(inbox[p], "periodic") ELSE inbox[p]]
  /\ UNCHANGED <<phase, reader, closed, lock, chan, server, toSignal, signalled,
                 children, dropped>>

NotifierPeriodicKeepingAll ==
  /\ notif # <<>>
  /\ Head(notif) = "periodic"
  /\ lock = "free"
  /\ notif' = Tail(notif)
  /\ UNCHANGED senders
  /\ inbox' = [p \in Peers |->
                IF p \in Range(senders) /\ Connected(p) /\ HasRoom(p)
                THEN Append(inbox[p], "periodic") ELSE inbox[p]]
  /\ UNCHANGED <<phase, reader, closed, lock, chan, server, toSignal, signalled,
                 children, dropped>>

(* The notifier, holding the senders mutex: on Periodic, try_send to each *)
(* sender, keeping it unless the receiver is gone; a full inbox drops the *)
(* update.                                                                *)
NotifierPeriodic ==
  /\ notif # <<>>
  /\ Head(notif) = "periodic"
  /\ lock = "free"
  /\ notif' = Tail(notif)
  /\ senders' = SelectSeq(senders, LAMBDA p : phase[p] # "ended")
  /\ inbox' = [p \in Peers |-> IF p \in Range(senders) THEN TrySend(p) ELSE inbox[p]]
  /\ UNCHANGED <<phase, reader, closed, lock, chan, server, toSignal, signalled,
                 children, dropped>>

(* On Exit, acceptor.send(None) ends the spawn loop. *)
NotifierExit ==
  /\ notif # <<>>
  /\ Head(notif) = "exit"
  /\ lock = "free"
  /\ notif' = Tail(notif)
  /\ chan' = Append(chan, None)
  /\ UNCHANGED <<phase, reader, closed, inbox, senders, lock, server, toSignal, signalled,
                 children, dropped>>

Next ==
  \/ \E p \in Peers : Accept(p) \/ Register(p)
  \/ Spawn \/ SpawnLoopEnd \/ SignalDone \/ ClosingDone \/ JoinChildren
  \/ \E p \in Peers : \/ Local(ClientClose(p)) \/ Local(ReaderLine(p))
                      \/ Local(ReaderEof(p)) \/ Local(ReaderFails(p)) \/ Local(ReaderSend(p))
                      \/ Local(Dispatch(p)) \/ Local(SelfNotify(p)) \/ Local(PeerEnd(p))
  \/ Notify \/ Drop \/ NotifierPeriodic \/ NotifierExit

(* Every thread runs when it can; notify() is called at a fixed cadence  *)
(* until the handle is dropped.  Clients and the drop owe nothing, and a  *)
(* reader waiting for a line waits on its client.                         *)
Fairness ==
  /\ WF_vars(Spawn) /\ WF_vars(SpawnLoopEnd) /\ SF_vars(SignalDone)
  /\ WF_vars(ClosingDone) /\ WF_vars(JoinChildren)
  /\ \A p \in Peers : /\ WF_vars(Register(p)) /\ WF_vars(Local(ReaderEof(p)))
                      /\ SF_vars(Local(ReaderSend(p))) /\ WF_vars(Local(Dispatch(p)))
                      /\ WF_vars(Local(SelfNotify(p))) /\ WF_vars(Local(PeerEnd(p)))
  /\ WF_vars(Notify) /\ WF_vars(NotifierPeriodic) /\ WF_vars(NotifierExit)

Spec == Init /\ [][Next]_vars /\ Fairness
-----------------------------------------------------------------------------
(* The type of each variable; no inbox holds more than its capacity. *)
TypeOK ==
  /\ phase \in [Peers -> Phases]
  /\ reader \in [Peers -> {"read", "request", "done", "exited"}]
  /\ closed \in [Peers -> BOOLEAN]
  /\ \A p \in Peers : inbox[p] \in Seq(Kinds) /\ Len(inbox[p]) <= InboxCap
  /\ senders \in Seq(Peers) /\ lock \in {"free", "server"}
  /\ chan \in Seq(Peers \cup {None})
  /\ server \in {"loop", "closing", "joining", "stopped"}
  /\ toSignal \in Seq(Peers) /\ signalled \subseteq Peers /\ children \subseteq Peers
  /\ notif \in Seq({"periodic", "exit"}) /\ dropped \in BOOLEAN

(* A peer whose thread still runs is in the senders list once and only   *)
(* once: the notifier's split_off/push never loses a live peer (so it     *)
(* keeps receiving PeriodicUpdates) nor duplicates one.                   *)
LivePeersRegistered ==
  \A p \in Peers :
    Connected(p) => Cardinality({k \in DOMAIN senders : senders[k] = p}) = 1

(* A peer whose thread ended is eventually pruned from the list by the    *)
(* notifier's next Periodic (unless the handle is dropped first).         *)
DeadPeersPruned ==
  \A p \in Peers : (phase[p] = "ended" /\ ~dropped)
                    ~> (p \notin Range(senders) \/ dropped)

(* Every peer registered when the spawn loop ended eventually gets Done   *)
(* from the closing loop or has ended by itself.                          *)
RegisteredPeersSignalled ==
  \A p \in Peers : (server = "closing" /\ p \in Range(toSignal))
                    ~> (p \in signalled \/ phase[p] = "ended")

(* When the rpc thread starts joining its children, every child has been  *)
(* sent Done or has ended: otherwise the join waits on a peer nobody told *)
(* to stop, and RPC::drop hangs until that client disconnects.            *)
ShutdownReachesEveryPeer ==
  server \in {"joining", "stopped"} =>
    \A p \in children : p \in signalled \/ phase[p] = "ended"

(* The closing loop of RPC::start, which holds the senders mutex while it *)
(* sends Done to each registered peer, always gets through the list and   *)
(* releases the mutex (so the notifier, and RPC::drop, can go on).        *)
ClosingEnds == (server = "closing") ~> (server = "joining")

(* Clients that are connected eventually close their sockets.             *)
ClientsLeave == \A p \in Peers : WF_vars(Local(ClientClose(p)))

(* RPC::drop returns once every client leaves: after Exit, the spawn loop *)
(* ends, the closing loop releases the mutex, a peer that registers late  *)
(* runs until its client closes, and every child thread is joined.  This  *)
(* separates the two shutdown hangs: a peer missed by the closing loop    *)
(* (rpc.rs:549) only waits for its client, a reader blocked on a full     *)
(* inbox (rpc.rs:423) waits for ever.                                      *)
DropReturns == ClientsLeave => (dropped ~> (server = "stopped"))

=============================================================================
