---------------------------- MODULE MCRpcServer ----------------------------
(* Two clients, inboxes of capacity 1, at most one notification waiting. *)
EXTENDS RpcServer
=============================================================================
