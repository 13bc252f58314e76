----------------------------- MODULE MCTcpServer -----------------------------
(* Instances of TcpServer for TLC: with the listener and two connections there *)
(* are more registered descriptors than events on linux and bsd, and with one  *)
(* more connection than win32 has room for. Callbacks fail where the kernel    *)
(* forgets a closed descriptor, and where the array of win32 keeps it.         *)
EXTENDS TcpServer

FourFds == 3 .. 6
SmallBatches ==
  {[platform |-> "linux", evt_sz |-> 2, fd_setsize |-> 1, on_recv_fails |-> FALSE],
   [platform |-> "bsd",   evt_sz |-> 2, fd_setsize |-> 1, on_recv_fails |-> FALSE],
   [platform |-> "win32", evt_sz |-> 2, fd_setsize |-> 2, on_recv_fails |-> FALSE],
   [platform |-> "win32", evt_sz |-> 3, fd_setsize |-> 3, on_recv_fails |-> FALSE],
   [platform |-> "linux", evt_sz |-> 2, fd_setsize |-> 1, on_recv_fails |-> TRUE],
   [platform |-> "win32", evt_sz |-> 2, fd_setsize |-> 2, on_recv_fails |-> TRUE]}
=============================================================================
