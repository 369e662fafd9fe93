----------------------------- MODULE MCTcpClient -----------------------------
(***************************************************************************)
(* TcpClient with a send buffer that holds one long or two short buffers   *)
(* but not two long ones, and two connections, the second of which may     *)
(* find what the first left in the queues.                                 *)
(***************************************************************************)
EXTENDS TcpClient

MCLengths  == {1, 2}
MCSegments == {1, 2}
MCReads    == {1, 3}
=============================================================================
