------------------------------ MODULE CommBuf ------------------------------
(***************************************************************************)
(* The communication buffer of src/server/commbuf.c: the receive side,     *)
(* which TCP fills in chunks of any size and a session empties by lines or *)
(* altogether, and the send side, which a session fills and the server     *)
(* clears. A buffer has a size and a block of memory, which it keeps when  *)
(* it is cleared.                                                          *)
(***************************************************************************)
EXTENDS Naturals, Sequences, SequencesExt, FiniteSetsExt

CONSTANTS
  Bytes,         \* the values of a byte
  Separators,    \* the separators a session may ask for
  MaxChunk,      \* bound on the bytes of one call
  MaxInput       \* bound on the bytes received

ASSUME CommBufAssumption ==
  /\ Separators \subseteq Seq(Bytes) \ {<<>>}
  /\ MaxChunk \in Nat \ {0} /\ MaxInput \in Nat

VARIABLES
  separator,    \* the one this session asks for
  recv_bytes,   \* the bytes of recv_buf, recv_buf_sz of them
  send_buf_sz,  \* the bytes in the send buffer
  send_block,   \* does the send buffer have a block of memory?
  returned,     \* what the last call of extract_line returned, or Other
  exited,       \* the process said "Memory exhausted."
  input,        \* history: the bytes received since the last extraction of all
  lines         \* history: the lines extracted from them

sendVars == <<send_buf_sz, send_block, exited>>
recvVars == <<recv_bytes, returned, input, lines>>
commBufVars == <<separator, sendVars, recvVars>>

Other == MaxInput + 1

CommBufInit ==
  /\ separator \in Separators
  /\ recv_bytes = <<>>
  /\ send_buf_sz = 0 /\ send_block = FALSE
  /\ returned = Other
  /\ exited = FALSE
  /\ input = <<>> /\ lines = <<>>

-----------------------------------------------------------------------------
(* The receive buffer *)

Chunks == BoundedSeq(Bytes, MaxChunk) \ {<<>>}

AddToRecvBuffer(data) ==
  /\ Len(input) + Len(data) <= MaxInput
  /\ recv_bytes' = recv_bytes \o data
  /\ input' = input \o data
  /\ returned' = Other
  /\ UNCHANGED <<lines, sendVars>>

\* commbuf_extract_from_recv_buffer and commbuf_clear_recv_buffer.
ExtractFromRecvBuffer ==
  /\ recv_bytes' = <<>>
  /\ returned' = Other
  /\ input' = <<>> /\ lines' = <<>>
  /\ UNCHANGED sendVars

\* memcmp with the separator, of bytes that are in the buffer.
IsAt(s, k) ==
  /\ k + Len(separator) <= Len(s)
  /\ SubSeq(s, k + 1, k + Len(separator)) = separator

\* Mutant of SearchRange: the last place is not looked at.
SearchRangeShort(s) == {k \in 0 .. Len(s) : k + Len(separator) < Len(s)}

\* The indices the loop goes through.
SearchRange(s) == {k \in 0 .. Len(s) : k + Len(separator) <= Len(s)}

Matches(s) == {k \in SearchRange(s) : IsAt(s, k)}

LineLength(s) == Min(Matches(s)) + Len(separator)

ExtractLine ==
  /\ IF Matches(recv_bytes) = {}
       THEN /\ returned' = 0
            /\ UNCHANGED <<recv_bytes, lines>>
       ELSE LET n == LineLength(recv_bytes)
            IN  /\ returned' = n
                /\ lines' = Append(lines, SubSeq(recv_bytes, 1, n))
                /\ recv_bytes' = SubSeq(recv_bytes, n + 1, Len(recv_bytes))
  /\ UNCHANGED <<input, sendVars>>

-----------------------------------------------------------------------------
(* The send buffer *)

\* realloc frees a block that is to have no bytes and returns NULL, which
\* check takes for a lack of memory; without a block it allocates one.
ReallocFails(block, size) == block /\ size = 0

AddToSendBuffer(n) ==
  /\ send_buf_sz + n <= MaxChunk
  /\ send_block' = TRUE
  /\ send_buf_sz' = send_buf_sz + n
  /\ exited' = ReallocFails(send_block, send_buf_sz + n)
  /\ UNCHANGED recvVars

\* Mutant of ClearSendBuffer: the block is freed and the size is kept.
ClearSendBufferFrees ==
  /\ send_block' = FALSE
  /\ UNCHANGED <<send_buf_sz, exited, recvVars>>

ClearSendBuffer ==
  /\ send_buf_sz' = 0
  /\ UNCHANGED <<send_block, exited, recvVars>>

-----------------------------------------------------------------------------
CommBufNext ==
  \/ /\ ~exited
     /\ UNCHANGED separator
     /\ \/ \E data \in Chunks : AddToRecvBuffer(data)
        \/ ExtractFromRecvBuffer
        \/ ExtractLine
        \/ \E n \in 0 .. MaxChunk : AddToSendBuffer(n)
        \/ ClearSendBuffer
  \/ exited /\ UNCHANGED commBufVars

CommBufSpec == CommBufInit /\ [][CommBufNext]_commBufVars

-----------------------------------------------------------------------------
(* Properties *)

CommBufTypeOK ==
  /\ separator \in Separators
  /\ {recv_bytes, input} \subseteq BoundedSeq(Bytes, MaxInput)
  /\ send_buf_sz \in 0 .. MaxChunk
  /\ send_buf_sz > 0 => send_block
  /\ {send_block, exited} \subseteq BOOLEAN
  /\ returned \in 0 .. Other
  /\ \A k \in DOMAIN lines : lines[k] \in BoundedSeq(Bytes, MaxInput)

\* However TCP cuts the input into chunks and whenever the session asks, the
\* lines it gets (lines 86-111) are the input cut behind every separator, in
\* order, with nothing lost or doubled; and it is told that there is no line
\* only when the rest has none.
LinesAreInput ==
  /\ FlattenSeq(lines) \o recv_bytes = input
  /\ \A k \in DOMAIN lines :
       {j \in 0 .. Len(lines[k]) : IsAt(lines[k], j)}
         = {Len(lines[k]) - Len(separator)}
  /\ returned = 0 => \A j \in 0 .. Len(recv_bytes) : ~IsAt(recv_bytes, j)
=============================================================================
