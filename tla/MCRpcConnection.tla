-------------------------- MODULE MCRpcConnection --------------------------
(* One connection, two script hashes, two status hashes (one the null     *)
(* status of an empty history) and two header entries.                    *)
EXTENDS RpcConnection
=============================================================================
