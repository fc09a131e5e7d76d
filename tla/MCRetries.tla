------------------------------- MODULE MCRetries -------------------------------
(* Two clients with one token, few requests allowed, a short window. *)
EXTENDS Retries

ProxyValues == {0, 8}
=============================================================================
