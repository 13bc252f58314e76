----------------------------- MODULE MCDataPath -----------------------------
(* DataPath and the communication buffer for TLC, side by side: DataPath has   *)
(* the units of one answer after another, CommBuf the bytes of the buffer they *)
(* go through. They share no variable, so that an interleaving of the two      *)
(* shows nothing that each does not show alone: one of them moves only where   *)
(* the other has not begun. On Linux there are bursts that one recv takes, or  *)
(* that it does not; separators overlap themselves or do not.                  *)
EXTENDS DataPath, CommBuf

DataInit == Init /\ CommBufInit

DataNext ==
  \/ CommBufInit /\ Next /\ UNCHANGED commBufVars
  \/ Init /\ CommBufNext /\ UNCHANGED vars

DataSpec == DataInit /\ [][DataNext]_<<vars, commBufVars>> /\ Fairness

OneRecvPerEdge == {<<TRUE, RecvBufSz>>, <<FALSE, MaxUnits>>}
LargeBursts    == {<<TRUE, MaxUnits>>}

CR == 13
LF == 10

TwoBytes == {CR, LF}
LineEnds == {<<CR, LF>>, <<LF, LF>>}
=============================================================================
