----------------------------- MODULE MCTcpManager -----------------------------
(***************************************************************************)
(* TcpManager for TLC; the configurations bound the adapters, sockets,     *)
(* send requests and crashes.                                              *)
(***************************************************************************)
EXTENDS TcpManager
=============================================================================
