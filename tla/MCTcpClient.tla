----------------------------- MODULE MCTcpClient ------------------------------
(* UpdateWorker and another thread, two buffers, messages of one segment and   *)
(* of more than there are buffers.                                             *)
EXTENDS TcpClient, TLC

CONSTANTS other

MCThreads == {Worker, other}
MCSizes == {1, 3}
MCMaxMessages == Worker :> 1 @@ other :> 2
===============================================================================
