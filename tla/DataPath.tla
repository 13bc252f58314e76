------------------------------ MODULE DataPath ------------------------------
(***************************************************************************)
(* The way of the data of one connection: from the client through the      *)
(* socket, the poller, the pool, recv, the communication buffer and        *)
(* on_recv to a session that answers every unit it gets, and back through  *)
(* the send buffer and send. Both ends are nonblocking and the             *)
(* kernel's buffers are finite. A unit is any fixed number of bytes; units *)
(* are numbered in the order the client sends them.                        *)
(***************************************************************************)
EXTENDS Naturals, Sequences, SequencesExt, FiniteSetsExt

CONSTANTS
  Bursts,         \* the platforms a server may run on, each with a bound on
                  \* the units sent and not received: see edge_triggered
  RecvBufSz,      \* RECV_BUF_SZ, in units
  SendRoom,       \* units the kernel takes before the client reads some
  MaxUnits        \* bound on the units sent

ASSUME DataAssumption ==
  /\ RecvBufSz \in Nat \ {0} /\ SendRoom \in Nat \ {0} /\ MaxUnits \in Nat \ {0}
  /\ Bursts \subseteq BOOLEAN \X (Nat \ {0})

VARIABLES
  edge_triggered, \* EPOLLET, as in os/linux; FALSE as in os/bsd and os/win32
  window,     \* bound on the units sent and not received
  sent,       \* units the client has sent
  received,   \* units recv has returned and on_recv has been given
  edge,       \* an event epoll has not reported yet
  client,     \* "open", or "done" when the client sends no more
  mpc,        \* the main thread: "poll", "flush" or "closed"
  pending,    \* the session is ready in the pool
  wpc,        \* where server_process_session is
  recv_buf,   \* the units recv returned last
  send_buf,   \* the send side of the communication buffer
  delivered,  \* the units the kernel has taken from send, in order
  unread,     \* how many of those the client has not read
  cut         \* history: the units a partial send has thrown away

serverVars ==
  <<received, mpc, pending, wpc, recv_buf, send_buf, delivered, cut>>
environment == <<edge_triggered, window>>
vars == <<environment, sent, edge, client, unread, serverVars>>

Init ==
  /\ \E b \in Bursts : edge_triggered = b[1] /\ window = b[2]
  /\ sent = 0 /\ received = 0
  /\ edge = FALSE
  /\ client = "open"
  /\ mpc = "poll"
  /\ pending = FALSE
  /\ wpc = "none"
  /\ recv_buf = <<>> /\ send_buf = <<>> /\ delivered = <<>>
  /\ unread = 0
  /\ cut = {}

Units(m, n) == [k \in 1 .. n |-> m + k]

-----------------------------------------------------------------------------
(* The client *)

ClientSends ==
  /\ client = "open"
  /\ mpc # "closed"
  /\ sent < MaxUnits
  /\ sent - received < window
  /\ sent' = sent + 1
  /\ edge' = TRUE
  /\ UNCHANGED <<client, unread, serverVars>>

ClientReads ==
  /\ unread > 0
  /\ unread' = unread - 1
  /\ UNCHANGED <<sent, edge, client, serverVars>>

\* shutdown(SHUT_WR) or close: EPOLLRDHUP.
ClientHalfCloses ==
  /\ client = "open"
  /\ client' = "done"
  /\ edge' = TRUE
  /\ UNCHANGED <<sent, unread, serverVars>>

-----------------------------------------------------------------------------
(* The main thread *)

\* poller_wait reports new data: at the edge, or as long as there is some.
PollNewData ==
  /\ mpc = "poll"
  /\ client = "open"
  /\ IF edge_triggered THEN edge ELSE sent > received
  /\ edge' = FALSE
  /\ mpc' = "flush"
  /\ UNCHANGED <<sent, client, unread, received, pending, wpc, recv_buf,
                 send_buf, delivered, cut>>

\* poller_wait reports the closed peer, whatever data came before it, and
\* handle_disconnect closes the connection when the pool mutex is free.
PollDisconnected ==
  /\ mpc = "poll"
  /\ client = "done"
  /\ wpc = "none"
  /\ mpc' = "closed"
  /\ pending' = FALSE
  /\ edge' = FALSE
  /\ UNCHANGED <<sent, client, unread, received, wpc, recv_buf, send_buf,
                 delivered, cut>>

\* Mutant of MarkReady: the session is not marked.
MarkReadyForgets == UNCHANGED pending

MarkReady == pending' = TRUE

\* spool_flush_session waits for the pool mutex.
Flush ==
  /\ mpc = "flush"
  /\ wpc = "none"
  /\ MarkReady
  /\ mpc' = "poll"
  /\ UNCHANGED <<sent, edge, client, unread, received, wpc, recv_buf,
                 send_buf, delivered, cut>>

-----------------------------------------------------------------------------
(* server_process_session on the worker *)

StartSession ==
  /\ pending
  /\ wpc = "none"
  /\ pending' = FALSE
  /\ wpc' = "recv"
  /\ UNCHANGED <<sent, edge, client, unread, received, mpc, recv_buf,
                 send_buf, delivered, cut>>

\* One recv of at most RECV_BUF_SZ, into the communication buffer.
Recv ==
  /\ wpc = "recv"
  /\ sent > received
  /\ LET n == Min({RecvBufSz, sent - received})
     IN  /\ recv_buf' = Units(received, n)
         /\ received' = received + n
  /\ wpc' = "on_recv"
  /\ UNCHANGED <<sent, edge, client, unread, mpc, pending, send_buf,
                 delivered, cut>>

\* r < 0: EAGAIN. The session returns before it sends anything.
RecvFails ==
  /\ wpc = "recv"
  /\ sent = received
  /\ client = "open"
  /\ wpc' = "none"
  /\ UNCHANGED <<sent, edge, client, unread, received, mpc, pending,
                 recv_buf, send_buf, delivered, cut>>

\* r = 0: the client has closed its side.
RecvEnd ==
  /\ wpc = "recv"
  /\ sent = received
  /\ client = "done"
  /\ wpc' = "send"
  /\ UNCHANGED <<sent, edge, client, unread, received, mpc, pending,
                 recv_buf, send_buf, delivered, cut>>

\* Mutant of ExtractRecvBuffer: the data stays in the buffer.
ExtractRecvBufferKeeps == UNCHANGED recv_buf

ExtractRecvBuffer == recv_buf' = <<>>

\* The session extracts what was received and answers it.
OnRecv ==
  /\ wpc = "on_recv"
  /\ send_buf' = send_buf \o recv_buf
  /\ ExtractRecvBuffer
  /\ wpc' = "send"
  /\ UNCHANGED <<sent, edge, client, unread, received, mpc, pending,
                 delivered, cut>>

EmptySendBuffer == send_buf' = <<>>

\* The kernel takes what it has room for and send returns how much that was,
\* which server_process_session does not look at: it clears the whole buffer.
Send ==
  /\ wpc = "send"
  /\ send_buf = <<>> \/ unread < SendRoom
  /\ LET n == Min({Len(send_buf), SendRoom - unread})
     IN  /\ delivered' = delivered \o SubSeq(send_buf, 1, n)
         /\ unread' = unread + n
         /\ cut' = cut \cup {send_buf[k] : k \in n + 1 .. Len(send_buf)}
  /\ EmptySendBuffer
  /\ wpc' = "none"
  /\ UNCHANGED <<sent, edge, client, received, mpc, pending, recv_buf>>

\* r < 0: EAGAIN. What is to be sent stays in the buffer.
SendFails ==
  /\ wpc = "send"
  /\ send_buf # <<>>
  /\ unread = SendRoom
  /\ wpc' = "none"
  /\ UNCHANGED <<sent, edge, client, unread, received, mpc, pending,
                 recv_buf, send_buf, delivered, cut>>

-----------------------------------------------------------------------------
Client     == ClientSends \/ ClientReads \/ ClientHalfCloses
MainThread == PollNewData \/ PollDisconnected \/ Flush
Worker     == StartSession \/ Recv \/ RecvFails \/ RecvEnd \/ OnRecv \/ Send
              \/ SendFails

\* poller_wait times out again and again on a connection at rest, or gone.
AtRest == mpc \in {"poll", "closed"} /\ UNCHANGED vars

Next ==
  /\ UNCHANGED environment
  /\ Client \/ MainThread \/ Worker \/ AtRest

Spec == Init /\ [][Next]_vars

Goes(A) == A /\ UNCHANGED environment

\* The server's threads go on, the pool runs what is pending although flushes
\* take the same mutex, and the client reads what it is sent.
Fairness ==
  /\ WF_vars(Goes(PollNewData \/ PollDisconnected))
  /\ SF_vars(Goes(Flush))
  /\ SF_vars(Goes(StartSession))
  /\ WF_vars(Goes(Worker))
  /\ WF_vars(Goes(ClientReads))

FairSpec == Spec /\ Fairness

-----------------------------------------------------------------------------
(* Properties *)

TypeOK ==
  /\ environment \in Bursts
  /\ sent \in 0 .. MaxUnits
  /\ received \in 0 .. sent
  /\ {edge, pending} \subseteq BOOLEAN
  /\ client \in {"open", "done"}
  /\ mpc \in {"poll", "flush", "closed"}
  /\ wpc \in {"none", "recv", "on_recv", "send"}
  /\ {recv_buf, send_buf, delivered} \subseteq BoundedSeq(1 .. sent, MaxUnits)
  /\ unread \in 0 .. SendRoom
  /\ cut \in SUBSET (1 .. received)

\* Every unit received has exactly one answer, in order: sent, to be sent, to
\* be given, or thrown away by a send that took a part of the buffer (lines
\* 57-65). A send that fails loses and repeats none, whatever comes before the
\* next one, and recv may cut the input anywhere.
SentOnceInOrder ==
  LET out == delivered \o send_buf \o recv_buf
  IN  /\ \A j, k \in 1 .. Len(out) : j < k => out[j] < out[k]
      /\ {out[k] : k \in 1 .. Len(out)} = (1 .. received) \ cut

\* New data from the client "is sent to the Session" (HACKING.md:29-30), as
\* long as the client does not close its side.
InputIsReceived ==
  \A n \in 1 .. MaxUnits : sent >= n ~> received >= n \/ client = "done"
=============================================================================
