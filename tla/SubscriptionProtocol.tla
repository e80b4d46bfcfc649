------------------------- MODULE SubscriptionProtocol -------------------------
(***************************************************************************)
(* What an Electrum connection promises its client about subscriptions,   *)
(* stated over what the client has been told (view, viewHeader) and the    *)
(* chain it is told about (status, best):                                  *)
(*   - a subscribe reply carries the current status hash / best header;    *)
(*   - a notification is sent only for a subscription whose told value    *)
(*     differs from the current one, and carries the current one;         *)
(*   - once the connection is closed the client is told nothing more.     *)
(* Several subscriptions may be notified in one step (one PeriodicUpdate). *)
(* RpcConnection refines this module.                                      *)
(***************************************************************************)
CONSTANTS ScriptHashes, Statuses, BestHeaders, Unsubscribed

VARIABLES status, best, view, viewHeader, open,
  notes   \* the script-hash notifications of the last step, [sh, val] records

vars == <<status, best, view, viewHeader, open, notes>>

Init ==
  /\ status \in [ScriptHashes -> Statuses]
  /\ best \in BestHeaders
  /\ view = [s \in ScriptHashes |-> Unsubscribed]
  /\ viewHeader = Unsubscribed
  /\ open = TRUE
  /\ notes = {}

(* The chain moves, or the client talks, and nothing is notified. *)
ChainMoves ==
  /\ status' \in [ScriptHashes -> Statuses]
  /\ best' \in BestHeaders
  /\ notes' = {}
  /\ UNCHANGED <<view, viewHeader, open>>

AnswerSubscribe(s) ==
  /\ open
  /\ view' = [view EXCEPT ![s] = status[s]]
  /\ notes' = {}
  /\ UNCHANGED <<status, best, viewHeader, open>>

AnswerHeadersSubscribe ==
  /\ open
  /\ viewHeader' = best
  /\ notes' = {}
  /\ UNCHANGED <<status, best, view, open>>

(* Subscriptions whose told value is no longer current. *)
Stale == {s \in ScriptHashes : view[s] \notin {Unsubscribed, status[s]}}
HeaderStale == viewHeader \notin {Unsubscribed, best}

NotifyChanges ==
  /\ open
  /\ \E changed \in SUBSET Stale, header \in BOOLEAN :
       /\ header => HeaderStale
       /\ view' = [s \in ScriptHashes |-> IF s \in changed THEN status[s] ELSE view[s]]
       /\ viewHeader' = IF header THEN best ELSE viewHeader
       /\ notes' = {[sh |-> s, val |-> status[s]] : s \in changed}
  /\ UNCHANGED <<status, best, open>>

Close ==
  /\ open
  /\ open' = FALSE
  /\ notes' = {}
  /\ UNCHANGED <<status, best, view, viewHeader>>

Next ==
  \/ ChainMoves
  \/ \E s \in ScriptHashes : AnswerSubscribe(s)
  \/ AnswerHeadersSubscribe \/ NotifyChanges \/ Close

Spec == Init /\ [][Next]_vars
=============================================================================
