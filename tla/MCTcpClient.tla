---------------------------- MODULE MCTcpClient ----------------------------
(* TLC instances of TcpClient. *)
EXTENDS TcpClient
=============================================================================
