-------------------------- MODULE MCConnectionPool --------------------------
(* ConnectionPool on a small instance. *)
EXTENDS ConnectionPool
=============================================================================
