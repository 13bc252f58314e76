--------------------------- MODULE DataPathProofs ---------------------------
(***************************************************************************)
(* Proofs about the data of a connection, for any sizes of the buffers and *)
(* of the kernel's room and any number of units, on every platform; and    *)
(* about the communication buffer it goes through, for any bytes,          *)
(* separators and lengths.                                                 *)
(***************************************************************************)
EXTENDS DataPath, CommBuf, SequenceTheorems, WellFoundedInduction, TLAPS

\* The answers on their way, of the units received and not thrown away.
Out == (delivered \o send_buf) \o recv_buf

Ascending(s) == \A j, k \in 1 .. Len(s) : j < k => s[j] < s[k]

Answers(s, n, lost) ==
  /\ Ascending(s)
  /\ {s[k] : k \in 1 .. Len(s)} = (1 .. n) \ lost

Types ==
  /\ sent \in Nat /\ received \in Nat /\ received <= sent
  /\ unread \in Nat /\ unread <= SendRoom
  /\ delivered \in Seq(Nat) /\ send_buf \in Seq(Nat) /\ recv_buf \in Seq(Nat)
  /\ cut \subseteq 1 .. received

Inv ==
  /\ Types
  /\ wpc # "on_recv" => recv_buf = <<>>
  /\ Answers(Out, received, cut)

-----------------------------------------------------------------------------
(* Operators *)

LEMMA MinOfTwo ==
  ASSUME NEW a \in Nat, NEW b \in Nat
  PROVE  Min({a, b}) \in Nat /\ Min({a, b}) <= a /\ Min({a, b}) <= b
<1> DEFINE Smallest(x) == x \in {a, b} /\ \A y \in {a, b} : x <= y
<1>1. \E x : Smallest(x)
  <2>1. CASE a <= b
    BY <2>1
  <2>2. CASE b <= a
    BY <2>2
  <2>3. QED
    BY <2>1, <2>2
<1>2. Min({a, b}) = CHOOSE x : Smallest(x)
  BY DEF Min
<1>3. Smallest(CHOOSE x : Smallest(x))
  BY <1>1, Zenon
<1>4. QED
  BY <1>2, <1>3

\* What recv returns is answered after everything that was received before.
LEMMA Extended ==
  ASSUME NEW s \in Seq(Nat), NEW m \in Nat, NEW n \in Nat, NEW lost \in SUBSET (1 .. m),
         Answers(s, m, lost)
  PROVE  Answers(s \o Units(m, n), m + n, lost)
<1> DEFINE u == Units(m, n)
           t == s \o u
<1>1. u \in Seq(Nat) /\ Len(u) = n /\ \A k \in 1 .. n : u[k] = m + k
  BY DEF Units
<1> HIDE DEF u
<1>2. /\ t \in Seq(Nat) /\ Len(t) = Len(s) + n
      /\ \A k \in 1 .. Len(s) : t[k] = s[k]
      /\ \A k \in 1 .. n : t[Len(s) + k] = m + k
  <2>1. t \in Seq(Nat) /\ Len(t) = Len(s) + Len(u)
    BY <1>1, ConcatProperties
  <2>2. \A k \in 1 .. Len(s) + Len(u) : t[k] = IF k <= Len(s) THEN s[k] ELSE u[k - Len(s)]
    BY <1>1, ConcatProperties
  <2>3. Len(s) \in Nat
    OBVIOUS
  <2> HIDE DEF t
  <2>4. ASSUME NEW k \in 1 .. n PROVE t[Len(s) + k] = m + k
    <3>1. /\ Len(s) + k \in 1 .. Len(s) + Len(u)
          /\ ~(Len(s) + k <= Len(s)) /\ (Len(s) + k) - Len(s) = k
      BY <1>1, <2>3
    <3>2. t[Len(s) + k] = u[(Len(s) + k) - Len(s)]
      BY <2>2, <3>1, Zenon
    <3>3. QED
      BY <1>1, <3>1, <3>2
  <2>5. ASSUME NEW k \in 1 .. Len(s) PROVE t[k] = s[k]
    <3>1. k \in 1 .. Len(s) + Len(u) /\ k <= Len(s)
      BY <1>1, <2>3
    <3>2. QED
      BY <2>2, <3>1, Zenon
  <2>6. QED
    BY <1>1, <2>1, <2>4, <2>5
<1>3. \A k \in 1 .. Len(s) : s[k] \in (1 .. m) \ lost
  BY DEF Answers
<1> HIDE DEF t
<1>4. ASSUME NEW k \in 1 .. Len(t)
      PROVE  \/ k \in 1 .. Len(s) /\ t[k] = s[k] /\ t[k] \in (1 .. m) \ lost
             \/ k - Len(s) \in 1 .. n /\ t[k] = m + (k - Len(s))
  <2>1. CASE k <= Len(s)
    BY <1>2, <1>3, <2>1
  <2>2. CASE k > Len(s)
    <3>1. k - Len(s) \in 1 .. n /\ Len(s) + (k - Len(s)) = k
      BY <1>2, <2>2
    <3>2. QED
      BY <1>2, <3>1
  <2>3. QED
    BY <1>2, <2>1, <2>2
<1>5. Ascending(t)
  <2> SUFFICES ASSUME NEW j \in 1 .. Len(t), NEW k \in 1 .. Len(t), j < k PROVE t[j] < t[k]
    BY DEF Ascending
  <2>1. CASE k \in 1 .. Len(s)
    <3>1. j \in 1 .. Len(s) /\ s[j] < s[k]
      BY <2>1, SMTT(30) DEF Answers, Ascending
    <3>2. QED
      BY <1>2, <2>1, <3>1
  <2>2. CASE k - Len(s) \in 1 .. n /\ t[k] = m + (k - Len(s))
    BY <1>4, <2>2
  <2>3. QED
    BY <1>4, <2>1, <2>2
<1>6. ASSUME NEW k \in 1 .. Len(t) PROVE t[k] \in (1 .. m + n) \ lost
  BY <1>4
<1>7. ASSUME NEW x \in (1 .. m + n) \ lost PROVE \E k \in 1 .. Len(t) : t[k] = x
  <2>1. CASE x <= m
    <3>1. PICK k \in 1 .. Len(s) : s[k] = x
      BY <2>1 DEF Answers
    <3>2. QED
      BY <1>2, <3>1
  <2>2. CASE x > m
    <3>1. PICK k \in 1 .. n : x = m + k
      <4>1. x - m \in 1 .. n /\ x = m + (x - m)
        BY <2>2
      <4>2. QED
        BY <4>1
    <3>2. t[Len(s) + k] = x
      BY <1>2, <3>1
    <3>3. Len(s) + k \in 1 .. Len(t)
      BY <1>2, <3>1
    <3>4. QED
      BY <3>2, <3>3
  <2>3. QED
    BY <2>1, <2>2
<1>8. {t[k] : k \in 1 .. Len(t)} = (1 .. m + n) \ lost
  BY <1>6, <1>7
<1>9. QED
  BY <1>5, <1>8 DEF Answers, t, u

\* A send that takes a part leaves the answers of the others, in their order.
LEMMA CutOff ==
  ASSUME NEW d \in Seq(Nat), NEW s \in Seq(Nat), NEW n \in 0 .. Len(s), NEW m \in Nat,
         NEW lost, Answers(d \o s, m, lost)
  PROVE  Answers(d \o SubSeq(s, 1, n), m, lost \cup {s[k] : k \in n + 1 .. Len(s)})
<1> DEFINE o == d \o s
           t == d \o SubSeq(s, 1, n)
           rest == {s[k] : k \in n + 1 .. Len(s)}
<1>1. /\ o \in Seq(Nat) /\ Len(o) = Len(d) + Len(s)
      /\ \A k \in 1 .. Len(o) : o[k] = IF k <= Len(d) THEN d[k] ELSE s[k - Len(d)]
  OBVIOUS
<1>2. /\ SubSeq(s, 1, n) \in Seq(Nat) /\ Len(SubSeq(s, 1, n)) = n
      /\ \A k \in 1 .. n : SubSeq(s, 1, n)[k] = s[k]
  BY SubSeqProperties
<1>3. /\ t \in Seq(Nat) /\ Len(t) = Len(d) + n
      /\ \A k \in 1 .. Len(t) : t[k] = o[k]
  BY <1>1, <1>2
<1>4. \A k \in n + 1 .. Len(s) : Len(d) + k \in 1 .. Len(o) /\ o[Len(d) + k] = s[k]
  BY <1>1
<1>5. Ascending(o) /\ {o[k] : k \in 1 .. Len(o)} = (1 .. m) \ lost
  BY DEF Answers
<1> HIDE DEF o, t
<1>6. Ascending(t)
  BY <1>1, <1>3, <1>5 DEF Ascending
<1>7. ASSUME NEW k \in 1 .. Len(t) PROVE t[k] \in ((1 .. m) \ lost) \ rest
  <2>1. t[k] = o[k] /\ k \in 1 .. Len(o) /\ k <= Len(d) + n
    BY <1>1, <1>3
  <2>2. ASSUME NEW j \in n + 1 .. Len(s), s[j] = o[k] PROVE FALSE
    <3>0. o[Len(d) + j] = o[k] /\ Len(d) + j \in 1 .. Len(o)
      BY <1>4, <2>2
    <3>1. k < Len(d) + j
      BY <2>1
    <3>2. o[k] \in Nat
      BY <1>1, <2>1
    <3>3. QED
      BY <1>5, <2>1, <3>0, <3>1, <3>2 DEF Ascending
  <2>3. QED
    BY <1>5, <2>1, <2>2
<1>8. ASSUME NEW x \in ((1 .. m) \ lost) \ rest PROVE \E k \in 1 .. Len(t) : t[k] = x
  <2>1. PICK k \in 1 .. Len(o) : o[k] = x
    BY <1>5
  <2>2. CASE k <= Len(d) + n
    BY <1>1, <1>3, <2>1, <2>2
  <2>3. CASE k > Len(d) + n
    <3>1. Len(d) \in Nat /\ Len(s) \in Nat /\ Len(o) = Len(d) + Len(s)
      BY <1>1
    <3>2. k - Len(d) \in n + 1 .. Len(s)
      BY <2>3, <3>1
    <3>3. s[k - Len(d)] = x
      BY <1>1, <2>1, <2>3
    <3>4. QED
      BY <3>2, <3>3
  <2>4. QED
    BY <1>1, <2>2, <2>3
<1>9. {t[k] : k \in 1 .. Len(t)} = (1 .. m) \ (lost \cup rest)
  BY <1>7, <1>8
<1>10. QED
  BY <1>6, <1>9 DEF Answers, t

LEMMA Regrouped ==
  ASSUME NEW X, NEW s \in Seq(X), NEW t \in Seq(X), NEW u \in Seq(X)
  PROVE  s \o (t \o u) = (s \o t) \o u
  BY ConcatAssociative, SMTT(60)

LEMMA RegroupedUnits ==
  ASSUME NEW s, NEW t, NEW u, s \in Seq(Nat) /\ t \in Seq(Nat) /\ u \in Seq(Nat)
  PROVE  s \o (t \o u) = (s \o t) \o u
  BY Regrouped

-----------------------------------------------------------------------------
(* The invariant *)

LEMMA InitInv == Init => Inv
<1> SUFFICES ASSUME Init PROVE Inv
  OBVIOUS
<1>1. Types /\ recv_buf = <<>>
  BY DataAssumption DEF Init, Types
<1>2. Out = <<>>
  BY DEF Init, Out
<1>3. Answers(Out, received, cut)
  BY <1>2 DEF Init, Answers, Ascending
<1>4. QED
  BY <1>1, <1>3 DEF Inv

LEMMA StepInv == Inv /\ [Next]_vars => Inv'
<1> SUFFICES ASSUME Inv, [Next]_vars PROVE Inv'
  OBVIOUS
<1> USE DataAssumption DEF Inv, Types
\* Most steps touch none of the data.
<1>1. ASSUME UNCHANGED <<received, delivered, send_buf, recv_buf, cut>>,
             sent' \in Nat, received <= sent', unread' \in Nat, unread' <= SendRoom,
             wpc' = "on_recv" => wpc = "on_recv" \/ recv_buf = <<>>,
             wpc = "on_recv" => wpc' = "on_recv"
      PROVE  Inv'
  BY <1>1 DEF Out
<1>2. CASE Client
  BY <1>1, <1>2 DEF Client, ClientSends, ClientReads, ClientHalfCloses, serverVars
<1>3. CASE MainThread
  BY <1>1, <1>3 DEF MainThread, PollNewData, PollDisconnected, Flush
<1>4. CASE StartSession \/ RecvFails \/ RecvEnd \/ SendFails
  BY <1>1, <1>4 DEF StartSession, RecvFails, RecvEnd, SendFails
<1>5. CASE Recv
  <2> DEFINE n == Min({RecvBufSz, sent - received})
  <2>1. n \in Nat /\ n <= sent - received
    BY <1>5, MinOfTwo DEF Recv
  <2>2. /\ recv_buf' = Units(received, n) /\ received' = received + n /\ wpc' = "on_recv"
        /\ recv_buf = <<>> /\ UNCHANGED <<sent, unread, delivered, send_buf, cut>>
    BY <1>5 DEF Recv
  <2> HIDE DEF n
  <2>3. Units(received, n) \in Seq(Nat)
    BY <2>1 DEF Units
  <2>4. Out = delivered \o send_buf /\ Out' = Out \o Units(received, n) /\ Out \in Seq(Nat)
    BY <2>2, ConcatEmptySeq DEF Out
  <2>5. Answers(Out', received', cut')
    BY <2>1, <2>2, <2>4, Extended
  <2>6. QED
    BY <2>1, <2>2, <2>3, <2>5
<1>6. CASE OnRecv
  <2>1. /\ send_buf' = send_buf \o recv_buf /\ recv_buf' = <<>>
        /\ UNCHANGED <<sent, unread, received, delivered, cut>>
    BY <1>6 DEF OnRecv, ExtractRecvBuffer
  <2>2. Out' = delivered \o (send_buf \o recv_buf)
    BY <2>1, ConcatEmptySeq DEF Out
  <2>3. delivered \o (send_buf \o recv_buf) = (delivered \o send_buf) \o recv_buf
    <3>1. delivered \in Seq(Nat) /\ send_buf \in Seq(Nat) /\ recv_buf \in Seq(Nat)
      OBVIOUS
    <3>2. QED
      BY ONLY <3>1, RegroupedUnits
  <2>4. Out' = Out
    BY <2>2, <2>3 DEF Out
  <2>5. QED
    BY <2>1, <2>4
<1>7. CASE Send
  <2> DEFINE n == Min({Len(send_buf), SendRoom - unread})
  <2>1. n \in 0 .. Len(send_buf) /\ n <= SendRoom - unread
    <3>1. Len(send_buf) \in Nat /\ SendRoom - unread \in Nat
      OBVIOUS
    <3> HIDE DEF Inv, Types
    <3>2. QED
      BY <3>1, MinOfTwo
  <2>2. /\ delivered' = delivered \o SubSeq(send_buf, 1, n)
        /\ unread' = unread + n
        /\ cut' = cut \cup {send_buf[k] : k \in n + 1 .. Len(send_buf)}
        /\ send_buf' = <<>> /\ wpc' = "none" /\ recv_buf = <<>>
        /\ UNCHANGED <<sent, received, recv_buf>>
    BY <1>7 DEF Send, EmptySendBuffer
  <2> HIDE DEF n
  <2>3. SubSeq(send_buf, 1, n) \in Seq(Nat)
    BY <2>1, SubSeqProperties
  <2>4. Out = delivered \o send_buf /\ Out' = delivered \o SubSeq(send_buf, 1, n)
    BY <2>2, <2>3, ConcatEmptySeq DEF Out
  <2>5. Answers(Out', received', cut')
    BY <2>1, <2>2, <2>4, CutOff
  <2>6. cut' \subseteq 1 .. received
    <3>1. ASSUME NEW k \in 1 .. Len(send_buf) PROVE send_buf[k] \in 1 .. received
      <4>1. /\ Len(Out) = Len(delivered) + Len(send_buf)
            /\ Out[Len(delivered) + k] = send_buf[k]
        BY <2>4
      <4>2. Len(delivered) + k \in 1 .. Len(Out)
        BY <4>1
      <4>3. QED
        BY <4>1, <4>2 DEF Answers
    <3>2. \A k \in n + 1 .. Len(send_buf) : k \in 1 .. Len(send_buf)
      BY <2>1
    <3>3. {send_buf[k] : k \in n + 1 .. Len(send_buf)} \subseteq 1 .. received
      BY <3>1, <3>2
    <3>4. QED
      BY <2>2, <3>3
  <2>7. QED
    BY <2>1, <2>2, <2>3, <2>5, <2>6
<1>8. CASE AtRest \/ UNCHANGED vars
  BY <1>1, <1>8 DEF AtRest, vars, serverVars
<1>9. QED
  BY <1>2, <1>3, <1>4, <1>5, <1>6, <1>7, <1>8 DEF Next, Worker

\* What was received is on its way or was thrown away, whatever recv and send
\* return (server.c:38-68).
THEOREM InvHolds == Spec => []Inv
  BY InitInv, StepInv, PTL DEF Spec

\* However recv cuts the input and send fails, no unit is answered twice or out
\* of order, and none is lost but what a partial send throws away
\* (server.c:43-65, commbuf.c:36-59, 107-121).
THEOREM OneAnswerEach == Spec => []SentOnceInOrder
<1>1. Inv => SentOnceInOrder
  BY DEF Inv, Out, Answers, Ascending, SentOnceInOrder
<1>2. QED
  BY <1>1, InvHolds, PTL

-----------------------------------------------------------------------------
(* Lines, one after the other: FlattenSeq and Min *)

\* A set of numbers that is not empty has a smallest.
LEMMA Smallest ==
  ASSUME NEW S \in SUBSET Nat, S # {}
  PROVE  Min(S) \in S /\ \A y \in S : Min(S) <= y
<1>1. PICK x \in S : \A y \in S : ~(<<y, x>> \in OpToRel(<, Nat))
  BY NatLessThanWellFounded, WFMin
<1>2. \A y \in S : x <= y
  <2>1. \A y \in Nat : y < x => <<y, x>> \in OpToRel(<, Nat)
    BY DEF OpToRel
  <2>2. \A y \in S : ~(y < x)
    BY <1>1, <2>1
  <2>3. QED
    BY <2>2
<1> DEFINE IsLeast(z) == z \in S /\ \A y \in S : z <= y
<1>3. IsLeast(x)
  BY <1>2
<1>4. Min(S) = CHOOSE z : IsLeast(z)
  BY DEF Min
<1>5. IsLeast(CHOOSE z : IsLeast(z))
  BY <1>3, Zenon
<1>6. QED
  BY <1>4, <1>5

\* A set that holds zero and with every number the next holds them all.
LEMMA Induction ==
  ASSUME NEW S, 0 \in S, \A n \in S : n + 1 \in S
  PROVE  Nat \subseteq S
<1> SUFFICES ASSUME Nat \ S # {} PROVE FALSE
  OBVIOUS
<1>1. PICK x \in Nat \ S : \A y \in Nat \ S : ~(<<y, x>> \in OpToRel(<, Nat))
  BY NatLessThanWellFounded, WFMin
<1>2. \A y \in Nat : y < x => <<y, x>> \in OpToRel(<, Nat)
  BY DEF OpToRel
<1>3. \A y \in Nat : y < x => y \in S
  BY <1>1, <1>2
<1>4. x # 0 /\ x - 1 \in Nat /\ x - 1 < x /\ (x - 1) + 1 = x
  OBVIOUS
<1>5. QED
  BY <1>3, <1>4

\* f[i] is the first i sequences of s in a row, for every i up to n.
Joins(f, s, n) ==
  /\ f = [i \in 1 .. n |-> f[i]]
  /\ n > 0 => f[1] = s[1]
  /\ \A i \in 2 .. n : f[i] = f[i - 1] \o s[i]

\* All that such a function adds up are sequences.
LEMMA JoinsAre ==
  ASSUME NEW X, NEW s \in Seq(Seq(X)), NEW n \in Nat, n <= Len(s), NEW f, Joins(f, s, n)
  PROVE  \A i \in 1 .. n : f[i] \in Seq(X)
<1> DEFINE S == {i \in Nat : i \in 1 .. n => f[i] \in Seq(X)}
<1>1. 0 \in S
  OBVIOUS
<1>2. ASSUME NEW i \in S PROVE i + 1 \in S
  <2> SUFFICES ASSUME i + 1 \in 1 .. n PROVE f[i + 1] \in Seq(X)
    OBVIOUS
  <2>0. s[i + 1] \in Seq(X)
    OBVIOUS
  <2>1. CASE i = 0
    BY <2>0, <2>1 DEF Joins
  <2>2. CASE i # 0
    <3>1. f[i + 1] = f[i] \o s[i + 1] /\ f[i] \in Seq(X)
      <4>1. i + 1 \in 2 .. n /\ (i + 1) - 1 = i /\ i \in 1 .. n
        BY <2>2
      <4>2. f[i] \in Seq(X)
        BY <4>1
      <4>3. QED
        BY <4>1, <4>2 DEF Joins
    <3>2. QED
      BY <2>0, <3>1, ConcatProperties
  <2>3. QED
    BY <2>1, <2>2
<1> HIDE DEF S
<1>3. Nat \subseteq S
  BY <1>1, <1>2, Induction
<1>4. QED
  BY <1>3 DEF S

\* The first m elements are the same.
Begins(s, t, m) == \A i \in 1 .. m : s[i] = t[i]

\* What comes later changes no earlier value.
LEMMA JoinsAgree ==
  ASSUME NEW s, NEW t, NEW m \in Nat, NEW n \in Nat, m <= n, Begins(s, t, m),
         NEW f, NEW g, Joins(f, s, m), Joins(g, t, n)
  PROVE  \A i \in 1 .. m : f[i] = g[i]
<1> DEFINE S == {i \in Nat : i \in 1 .. m => f[i] = g[i]}
<1>1. 0 \in S
  OBVIOUS
<1>2. ASSUME NEW i \in S PROVE i + 1 \in S
  <2> SUFFICES ASSUME i + 1 \in 1 .. m PROVE f[i + 1] = g[i + 1]
    OBVIOUS
  <2>1. CASE i = 0
    BY <2>1 DEF Joins, Begins
  <2>2. CASE i # 0
    <3>1. i + 1 \in 2 .. m /\ i + 1 \in 2 .. n /\ (i + 1) - 1 = i /\ i \in 1 .. m
      BY <2>2
    <3>2. f[i + 1] = f[i] \o s[i + 1] /\ g[i + 1] = g[i] \o t[i + 1]
      BY <3>1 DEF Joins
    <3>3. f[i] = g[i] /\ s[i + 1] = t[i + 1]
      BY <3>1 DEF Begins
    <3>4. QED
      BY <3>2, <3>3
  <2>3. QED
    BY <2>1, <2>2
<1> HIDE DEF S
<1>3. Nat \subseteq S
  BY <1>1, <1>2, Induction
<1>4. QED
  BY <1>3 DEF S

\* There is such a function for every length.
LEMMA JoinsExist ==
  ASSUME NEW s, NEW n \in Nat
  PROVE  \E f : Joins(f, s, n)
<1> DEFINE S == {i \in Nat : \E f : Joins(f, s, i)}
<1>1. 0 \in S
  <2>1. Joins([i \in 1 .. 0 |-> 0], s, 0)
    BY DEF Joins
  <2>2. QED
    BY <2>1
<1>2. ASSUME NEW m \in S PROVE m + 1 \in S
  <2>1. PICK f : Joins(f, s, m)
    OBVIOUS
  <2> DEFINE g == [i \in 1 .. m + 1 |->
                     IF i <= m THEN f[i] ELSE IF m = 0 THEN s[1] ELSE f[m] \o s[m + 1]]
  <2>2. m \in Nat
    OBVIOUS
  <2>3. /\ g = [i \in 1 .. m + 1 |-> g[i]]
        /\ \A i \in 1 .. m : g[i] = f[i]
        /\ m = 0 => g[m + 1] = s[1]
        /\ m # 0 => g[m + 1] = f[m] \o s[m + 1]
    <3>1. /\ \A i \in 1 .. m : i \in 1 .. m + 1 /\ i <= m
          /\ m + 1 \in 1 .. m + 1 /\ ~(m + 1 <= m)
      BY <2>2
    <3>2. g = [i \in 1 .. m + 1 |-> g[i]]
      OBVIOUS
    <3>3. \A i \in 1 .. m + 1 :
            g[i] = IF i <= m THEN f[i] ELSE IF m = 0 THEN s[1] ELSE f[m] \o s[m + 1]
      OBVIOUS
    <3> HIDE DEF g, S
    <3>4. QED
      BY <3>1, <3>2, <3>3
  <2> HIDE DEF g, S
  <2>4. g[1] = s[1]
    <3>1. CASE m = 0
      <4>1. m + 1 = 1
        BY <3>1
      <4>2. QED
        BY <2>3, <3>1, <4>1
    <3>2. CASE m # 0
      <4>1. 1 \in 1 .. m
        BY <2>2, <3>2
      <4>2. QED
        BY <2>1, <2>2, <2>3, <4>1 DEF Joins
    <3>3. QED
      BY <3>1, <3>2
  <2>5. ASSUME NEW i \in 2 .. m + 1 PROVE g[i] = g[i - 1] \o s[i]
    <3>1. i - 1 \in 1 .. m /\ m # 0
      BY <2>2
    <3>2. g[i - 1] = f[i - 1]
      BY <2>3, <3>1
    <3>3. CASE i = m + 1
      <4>1. i - 1 = m
        BY <2>2, <3>3
      <4>2. QED
        BY <2>3, <3>1, <3>2, <3>3, <4>1
    <3>4. CASE i # m + 1
      <4>1. i \in 2 .. m /\ i \in 1 .. m
        BY <2>2, <3>4
      <4>2. f[i] = f[i - 1] \o s[i]
        BY <2>1, <4>1 DEF Joins
      <4>3. QED
        BY <2>3, <3>2, <4>1, <4>2
    <3>5. QED
      BY <3>3, <3>4
  <2>6. Joins(g, s, m + 1)
    BY <2>3, <2>4, <2>5 DEF Joins
  <2>7. m + 1 \in Nat
    BY <2>2
  <2>8. QED
    BY <2>6, <2>7 DEF S
<1> HIDE DEF S
<1>3. n \in S
  BY <1>1, <1>2, Induction
<1>4. QED
  BY <1>3 DEF S

\* What FlattenSeq returns is the last value of such a function.
LEMMA Flattened ==
  ASSUME NEW X, NEW s \in Seq(Seq(X)), s # <<>>
  PROVE  \E f : Joins(f, s, Len(s)) /\ FlattenSeq(s) = f[Len(s)]
<1> DEFINE L == Len(s)
           F(f) == [i \in 1 .. L |-> IF i = 1 THEN s[i] ELSE f[i - 1] \o s[i]]
           flatten == CHOOSE f : f = F(f)
<1>1. L \in Nat /\ L > 0
  OBVIOUS
<1>2. FlattenSeq(s) = flatten[L]
  BY <1>1 DEF FlattenSeq
<1> HIDE DEF L
<1>3. ASSUME NEW f PROVE f = F(f) <=> Joins(f, s, L)
  <2>1. ASSUME f = F(f) PROVE Joins(f, s, L)
    <3>1. \A i \in 1 .. L : f[i] = IF i = 1 THEN s[i] ELSE f[i - 1] \o s[i]
      BY <2>1
    <3>2. f = [i \in 1 .. L |-> f[i]]
      BY <2>1
    <3> HIDE DEF F
    <3>3. 1 \in 1 .. L /\ \A i \in 2 .. L : i \in 1 .. L /\ i # 1
      BY <1>1
    <3>4. QED
      BY <3>1, <3>2, <3>3 DEF Joins
  <2>2. ASSUME Joins(f, s, L) PROVE f = F(f)
    <3>1. \A i \in 1 .. L : f[i] = IF i = 1 THEN s[i] ELSE f[i - 1] \o s[i]
      <4>1. \A i \in 1 .. L : i = 1 \/ i \in 2 .. L
        BY <1>1
      <4>2. QED
        BY <1>1, <2>2, <4>1 DEF Joins
    <3>2. f = [i \in 1 .. L |-> f[i]]
      BY <2>2 DEF Joins
    <3>3. [i \in 1 .. L |-> f[i]] = F(f)
      BY <3>1
    <3>4. QED
      BY <3>2, <3>3
  <2>3. QED
    BY <2>1, <2>2
<1> HIDE DEF F
<1>4. \E f : f = F(f)
  BY <1>1, <1>3, JoinsExist
<1>5. flatten = F(flatten)
  BY <1>4
<1> HIDE DEF flatten
<1>6. QED
  BY <1>2, <1>3, <1>5 DEF L

\* One more line.
LEMMA FlattensNext ==
  ASSUME NEW X, NEW s \in Seq(Seq(X)), NEW line \in Seq(X)
  PROVE  FlattenSeq(Append(s, line)) = FlattenSeq(s) \o line /\ FlattenSeq(s) \in Seq(X)
<1> DEFINE t == Append(s, line)
           m == Len(s)
           n == Len(s) + 1
<1>1. /\ t \in Seq(Seq(X)) /\ t # <<>> /\ Len(t) = n
      /\ Begins(s, t, m)
      /\ t[n] = line
      /\ m \in Nat /\ n \in Nat /\ m <= n /\ n > 0 /\ n - 1 = m
  <2>1. t \in Seq(Seq(X)) /\ Len(t) = n /\ t[n] = line
    OBVIOUS
  <2>2. t # <<>>
    BY <2>1
  <2>3. Begins(s, t, m)
    BY DEF Begins
  <2>4. m \in Nat /\ n \in Nat /\ m <= n /\ n > 0 /\ n - 1 = m
    OBVIOUS
  <2>5. QED
    BY <2>1, <2>2, <2>3, <2>4
<1>2. m = 0 <=> s = <<>>
  OBVIOUS
<1> HIDE DEF t, n
<1>3. PICK g : Joins(g, t, n) /\ FlattenSeq(t) = g[n]
  BY <1>1, Flattened
<1>4. CASE s = <<>>
  <2>1. FlattenSeq(s) = <<>>
    BY <1>4 DEF FlattenSeq
  <2>2. n = 1
    BY <1>2, <1>4 DEF n
  <2>3. FlattenSeq(t) = line
    BY <1>1, <1>3, <2>2 DEF Joins
  <2>4. QED
    BY <2>1, <2>3, ConcatEmptySeq DEF t
<1>5. CASE s # <<>>
  <2> HIDE DEF m
  <2>1. PICK f : Joins(f, s, m) /\ FlattenSeq(s) = f[m]
    BY <1>5, Flattened DEF m
  <2>2. m \in 1 .. m /\ n \in 2 .. n
    BY <1>1, <1>2, <1>5
  <2>3. f[m] = g[m]
    BY <1>1, <1>3, <2>1, <2>2, JoinsAgree
  <2>4. g[n] = g[m] \o line
    BY <1>1, <1>3, <2>2 DEF Joins
  <2>5. m <= Len(s)
    BY DEF m
  <2>6. f[m] \in Seq(X)
    BY <1>1, <2>1, <2>2, <2>5, JoinsAre
  <2>7. QED
    BY <1>3, <2>1, <2>3, <2>4, <2>6 DEF t
<1>6. QED
  BY <1>4, <1>5

-----------------------------------------------------------------------------
(* The communication buffer: the invariant *)

BufferTypes ==
  /\ separator \in Separators
  /\ recv_bytes \in Seq(Bytes) /\ input \in Seq(Bytes) /\ Len(input) <= MaxInput
  /\ lines \in Seq(Seq(Bytes)) /\ \A k \in DOMAIN lines : Len(lines[k]) <= MaxInput
  /\ send_buf_sz \in 0 .. MaxChunk /\ (send_buf_sz > 0 => send_block)
  /\ send_block \in BOOLEAN /\ exited \in BOOLEAN
  /\ returned \in 0 .. Other

\* LinesAreInput is inductive with them.
BufferInv == BufferTypes /\ LinesAreInput

\* The separator is at the end of a line and nowhere before.
EndsOnce(line) == {j \in 0 .. Len(line) : IsAt(line, j)} = {Len(line) - Len(separator)}

LEMMA SeparatorIs ==
  ASSUME separator \in Separators
  PROVE  separator \in Seq(Bytes) /\ Len(separator) \in Nat /\ Len(separator) > 0
<1>1. separator \in Seq(Bytes) /\ separator # <<>>
  BY CommBufAssumption
<1>2. QED
  BY <1>1, EmptySeq

\* What the loop of commbuf_extract_line_from_recv_buffer finds and cuts off.
LEMMA FirstLine ==
  ASSUME separator \in Separators, NEW r \in Seq(Bytes), Matches(r) # {}
  PROVE  LET n == LineLength(r)
         IN  /\ n \in 1 .. Len(r)
             /\ SubSeq(r, 1, n) \in Seq(Bytes) /\ Len(SubSeq(r, 1, n)) = n
             /\ SubSeq(r, n + 1, Len(r)) \in Seq(Bytes)
             /\ SubSeq(r, 1, n) \o SubSeq(r, n + 1, Len(r)) = r
             /\ EndsOnce(SubSeq(r, 1, n))
<1> DEFINE c == Len(separator)
           p == Min(Matches(r))
           n == p + c
           line == SubSeq(r, 1, n)
<1>1. c \in Nat /\ c > 0 /\ Len(r) \in Nat
  BY SeparatorIs
<1>2. Matches(r) \in SUBSET Nat
  BY DEF Matches, SearchRange
<1>3. p \in Matches(r) /\ \A y \in Matches(r) : p <= y
  BY <1>2, Smallest
<1>4. p \in Nat /\ n \in 1 .. Len(r) /\ IsAt(r, p)
  BY <1>1, <1>3 DEF Matches, SearchRange
<1>5. ASSUME NEW j \in 0 .. Len(r), IsAt(r, j) PROVE p <= j
  <2>1. j \in SearchRange(r)
    BY <1>1, <1>5 DEF SearchRange, IsAt
  <2>2. QED
    BY <1>3, <1>5, <2>1 DEF Matches
<1> HIDE DEF c, p
<1>6. \A i \in 1 .. n : r[i] \in Bytes
  BY <1>1, <1>4
<1>7. n + 1 \in Int /\ \A i \in n + 1 .. Len(r) : r[i] \in Bytes
  BY <1>1, <1>4
<1> HIDE DEF n
<1>8. /\ line \in Seq(Bytes) /\ Len(line) = n
      /\ SubSeq(r, n + 1, Len(r)) \in Seq(Bytes)
  BY <1>1, <1>4, <1>6, <1>7, SubSeqProperties
<1>9. line \o SubSeq(r, n + 1, Len(r)) = r
  <2>1. /\ 1 \in 1 .. Len(r) + 1 /\ n \in 1 - 1 .. Len(r) /\ Len(r) \in n .. Len(r)
    BY <1>1, <1>4
  <2>2. line \o SubSeq(r, n + 1, Len(r)) = SubSeq(r, 1, Len(r))
    BY <2>1, ConcatAdjacentSubSeq
  <2>3. QED
    BY <2>2, SubSeqFull
\* A place of the line is that place of the buffer.
<1>10. ASSUME NEW j \in Nat, j + c <= n PROVE IsAt(line, j) <=> IsAt(r, j)
  <2>1. /\ 1 \in 1 .. Len(r) /\ n \in 1 .. Len(r)
        /\ j + 1 \in 1 .. n - 1 + 1 /\ j + c \in 1 .. n - 1 + 1
        /\ 1 + (j + 1) - 1 = j + 1 /\ 1 + (j + c) - 1 = j + c
    BY <1>1, <1>4, <1>10
  <2>2. SubSeq(line, j + 1, j + c) = SubSeq(r, j + 1, j + c)
    <3>1. SubSeq(line, j + 1, j + c) = SubSeq(r, 1 + (j + 1) - 1, 1 + (j + c) - 1)
      BY <2>1, SubSeqOfSubSeq
    <3>2. QED
      BY <2>1, <3>1
  <2>3. j + c <= Len(line) /\ j + c <= Len(r)
    BY <1>1, <1>4, <1>8, <1>10
  <2>4. QED
    BY <2>2, <2>3 DEF IsAt, c
<1>11. n = p + c /\ n - c = p
  BY <1>1, <1>4 DEF n
<1>12. ASSUME NEW j \in 0 .. n PROVE IsAt(line, j) <=> j = p
  <2>1. ASSUME IsAt(line, j) PROVE j = p
    <3>1. j + c <= n
      BY <1>8, <2>1 DEF IsAt, c
    <3>2. j \in 0 .. Len(r) /\ j \in Nat /\ j <= p
      BY <1>1, <1>4, <1>11, <3>1
    <3>3. IsAt(r, j)
      BY <1>10, <2>1, <3>1, <3>2
    <3>4. p <= j
      BY <1>5, <3>2, <3>3
    <3>5. QED
      BY <1>4, <3>2, <3>4
  <2>2. ASSUME j = p PROVE IsAt(line, j)
    <3>1. p + c <= n
      BY <1>1, <1>4, <1>11
    <3>2. QED
      BY <1>4, <1>10, <2>2, <3>1
  <2>3. QED
    BY <2>1, <2>2
<1>13. p \in 0 .. n
  BY <1>1, <1>4, <1>11
<1>14. EndsOnce(line)
  BY <1>8, <1>11, <1>12, <1>13 DEF EndsOnce, c
<1>15. n = LineLength(r)
  BY DEF n, p, c, LineLength
<1>16. QED
  BY <1>4, <1>8, <1>9, <1>14, <1>15

LEMMA BoundedSeqIs ==
  ASSUME NEW X, NEW n \in Nat
  PROVE  BoundedSeq(X, n) = {s \in Seq(X) : Len(s) <= n}
<1>1. ASSUME NEW m \in 0 .. n, NEW s \in [1 .. m -> X] PROVE s \in Seq(X) /\ Len(s) <= n
  <2>1. s \in Seq(X) /\ Len(s) = m
    OBVIOUS
  <2>2. QED
    BY <2>1
<1>2. ASSUME NEW s \in Seq(X), Len(s) <= n PROVE \E m \in 0 .. n : s \in [1 .. m -> X]
  <2>1. Len(s) \in 0 .. n /\ s \in [1 .. Len(s) -> X]
    BY <1>2, LenProperties
  <2>2. QED
    BY <2>1
<1>3. BoundedSeq(X, n) = UNION {[1 .. m -> X] : m \in 0 .. n}
  BY DEF BoundedSeq, SeqOf
<1>4. QED
  BY <1>1, <1>2, <1>3

LEMMA BufferInit == CommBufInit => BufferInv
<1> SUFFICES ASSUME CommBufInit PROVE BufferInv
  OBVIOUS
<1>1. BufferTypes
  <2>1. send_block \in BOOLEAN /\ exited \in BOOLEAN
    BY Zenon DEF CommBufInit
  <2>2. recv_bytes = <<>> /\ input = <<>> /\ lines = <<>>
    BY DEF CommBufInit
  <2>3. returned \in 0 .. Other /\ send_buf_sz = 0 /\ separator \in Separators
    BY CommBufAssumption DEF CommBufInit, Other
  <2>4. QED
    BY <2>1, <2>2, <2>3, CommBufAssumption DEF BufferTypes
<1>2. LinesAreInput
  <2>1. FlattenSeq(lines) \o recv_bytes = input
    <3>1. FlattenSeq(lines) = <<>>
      BY DEF CommBufInit, FlattenSeq
    <3>2. QED
      BY <3>1, ConcatEmptySeq, EmptySeq DEF CommBufInit
  <2>2. DOMAIN lines = {}
    BY DEF CommBufInit
  <2>3. returned # 0
    BY CommBufAssumption DEF CommBufInit, Other
  <2>4. QED
    BY <2>1, <2>2, <2>3 DEF LinesAreInput
<1>3. QED
  BY <1>1, <1>2 DEF BufferInv

\* A chunk goes behind what is there.
LEMMA AddKeeps ==
  ASSUME BufferInv, UNCHANGED separator, NEW data \in Chunks, AddToRecvBuffer(data)
  PROVE  BufferInv'
<1>1. data \in Seq(Bytes)
  BY BoundedSeqIs, CommBufAssumption DEF Chunks
<1>2. FlattenSeq(lines) \in Seq(Bytes)
  BY FlattensNext DEF BufferInv, BufferTypes
<1>3. /\ recv_bytes' = recv_bytes \o data /\ input' = input \o data
      /\ returned' = Other /\ UNCHANGED <<lines, send_buf_sz, send_block, exited>>
      /\ Len(input) + Len(data) <= MaxInput
  BY DEF AddToRecvBuffer, sendVars
<1>4. /\ input' \in Seq(Bytes) /\ Len(input') <= MaxInput /\ recv_bytes' \in Seq(Bytes)
  BY <1>1, <1>3, ConcatProperties DEF BufferInv, BufferTypes
<1>5. BufferTypes'
  BY <1>3, <1>4, CommBufAssumption DEF BufferInv, BufferTypes, Other
<1>6. FlattenSeq(lines') \o recv_bytes' = input'
  <2>1. FlattenSeq(lines) \o (recv_bytes \o data) = (FlattenSeq(lines) \o recv_bytes) \o data
    <3>1. recv_bytes \in Seq(Bytes)
      BY DEF BufferInv, BufferTypes
    <3>2. QED
      BY <1>1, <1>2, <3>1, Regrouped
  <2>2. QED
    BY <1>3, <2>1 DEF BufferInv, LinesAreInput
<1>7. returned' # 0
  BY <1>3, CommBufAssumption DEF Other
<1>8. LinesAreInput'
  BY <1>3, <1>6, <1>7 DEF BufferInv, LinesAreInput, IsAt
<1>9. QED
  BY <1>5, <1>8 DEF BufferInv

\* A line leaves it and is the next of the lines.
LEMMA ExtractKeeps ==
  ASSUME BufferInv, UNCHANGED separator, ExtractLine
  PROVE  BufferInv'
<1>1. /\ separator \in Separators /\ recv_bytes \in Seq(Bytes) /\ input \in Seq(Bytes)
      /\ lines \in Seq(Seq(Bytes)) /\ Len(input) <= MaxInput
      /\ FlattenSeq(lines) \in Seq(Bytes)
      /\ FlattenSeq(lines) \o recv_bytes = input
  BY FlattensNext DEF BufferInv, BufferTypes, LinesAreInput
<1>2. UNCHANGED <<separator, input, send_buf_sz, send_block, exited>>
  BY DEF ExtractLine, sendVars
<1>3. CASE Matches(recv_bytes) = {}
  <2>1. returned' = 0 /\ UNCHANGED <<recv_bytes, lines>>
    BY <1>3 DEF ExtractLine
  <2>2. BufferTypes'
    BY <1>2, <2>1, CommBufAssumption DEF BufferInv, BufferTypes, Other
  <2>3. ASSUME NEW j \in 0 .. Len(recv_bytes) PROVE ~IsAt(recv_bytes, j)
    <3>1. SUFFICES ASSUME IsAt(recv_bytes, j) PROVE j \in Matches(recv_bytes)
      BY <1>3
    <3>2. j \in SearchRange(recv_bytes)
      BY <3>1 DEF SearchRange, IsAt
    <3>3. QED
      BY <3>1, <3>2 DEF Matches
  <2>4. LinesAreInput'
    <3>1. FlattenSeq(lines') \o recv_bytes' = input'
      BY <1>1, <1>2, <2>1
    <3>2. \A k \in DOMAIN lines' : EndsOnce(lines[k])'
      BY <1>2, <2>1 DEF BufferInv, LinesAreInput, EndsOnce, IsAt
    <3>3. \A j \in 0 .. Len(recv_bytes') : ~IsAt(recv_bytes, j)'
      BY <1>2, <2>1, <2>3 DEF IsAt
    <3>4. QED
      BY <3>1, <3>2, <3>3 DEF LinesAreInput, EndsOnce
  <2>5. QED
    BY <2>2, <2>4 DEF BufferInv
<1>4. CASE Matches(recv_bytes) # {}
  <2> DEFINE n == LineLength(recv_bytes)
             line == SubSeq(recv_bytes, 1, n)
             rest == SubSeq(recv_bytes, n + 1, Len(recv_bytes))
  <2>1. returned' = n /\ lines' = Append(lines, line) /\ recv_bytes' = rest
    BY <1>4 DEF ExtractLine
  <2>2. /\ n \in 1 .. Len(recv_bytes)
        /\ line \in Seq(Bytes) /\ Len(line) = n /\ rest \in Seq(Bytes)
        /\ line \o rest = recv_bytes /\ EndsOnce(line)
    BY <1>1, <1>4, FirstLine
  <2> HIDE DEF n, line, rest
  <2>3. Len(recv_bytes) <= MaxInput
    <3>1. Len(input) = Len(FlattenSeq(lines)) + Len(recv_bytes)
      BY <1>1, ConcatProperties
    <3>2. Len(FlattenSeq(lines)) \in Nat /\ Len(recv_bytes) \in Nat
      BY <1>1
    <3>3. QED
      BY <1>1, <3>1, <3>2, CommBufAssumption
  <2>4. n \in 1 .. MaxInput
    BY <2>2, <2>3, <1>1, CommBufAssumption
  <2>5. /\ lines' \in Seq(Seq(Bytes))
        /\ DOMAIN lines' = DOMAIN lines \cup {Len(lines) + 1}
        /\ \A k \in DOMAIN lines : lines'[k] = lines[k]
        /\ lines'[Len(lines) + 1] = line
    BY <1>1, <2>1, <2>2
  <2>6. \A k \in DOMAIN lines' : Len(lines'[k]) <= MaxInput
    BY <2>2, <2>4, <2>5 DEF BufferInv, BufferTypes
  <2>7. returned' \in 0 .. Other /\ returned' # 0
    BY <2>1, <2>4, CommBufAssumption DEF Other
  <2>8. BufferTypes'
    <3>1. recv_bytes' \in Seq(Bytes) /\ input' \in Seq(Bytes) /\ Len(input') <= MaxInput
      BY <1>1, <1>2, <2>1, <2>2
    <3>2. QED
      BY <1>2, <2>5, <2>6, <2>7, <3>1 DEF BufferInv, BufferTypes
  <2>9. FlattenSeq(lines') \o recv_bytes' = input'
    <3>1. FlattenSeq(lines') = FlattenSeq(lines) \o line
      BY <1>1, <2>1, <2>2, FlattensNext
    <3>2. FlattenSeq(lines) \o (line \o rest) = (FlattenSeq(lines) \o line) \o rest
      <4>1. FlattenSeq(lines) \in Seq(Bytes) /\ line \in Seq(Bytes) /\ rest \in Seq(Bytes)
        BY <1>1, <2>2
      <4>2. QED
        BY <4>1, Regrouped
    <3>3. QED
      BY <1>1, <1>2, <2>1, <2>2, <3>1, <3>2
  <2>10. \A k \in DOMAIN lines' : EndsOnce(lines'[k])
    BY <2>2, <2>5 DEF BufferInv, LinesAreInput, EndsOnce
  <2>11. LinesAreInput'
    BY <1>2, <2>7, <2>9, <2>10 DEF LinesAreInput, EndsOnce, IsAt
  <2>12. QED
    BY <2>8, <2>11 DEF BufferInv
<1>5. QED
  BY <1>3, <1>4

LEMMA BufferStep == BufferInv /\ [CommBufNext]_commBufVars => BufferInv'
<1> SUFFICES ASSUME BufferInv, [CommBufNext]_commBufVars PROVE BufferInv'
  OBVIOUS
<1>1. separator' = separator
  BY DEF CommBufNext, commBufVars
<1>2. ASSUME NEW data \in Chunks, AddToRecvBuffer(data) PROVE BufferInv'
  BY <1>1, <1>2, AddKeeps
<1>3. CASE ExtractFromRecvBuffer
  <2>1. /\ recv_bytes' = <<>> /\ input' = <<>> /\ lines' = <<>> /\ returned' = Other
        /\ UNCHANGED <<send_buf_sz, send_block, exited>>
    BY <1>3 DEF ExtractFromRecvBuffer, sendVars
  <2>2. BufferTypes'
    BY <1>1, <2>1, CommBufAssumption DEF BufferInv, BufferTypes, Other
  <2>3. FlattenSeq(<<>>) = <<>> /\ <<>> \o <<>> = <<>>
    BY ConcatEmptySeq, EmptySeq DEF FlattenSeq
  <2>4. returned' # 0
    BY <2>1, CommBufAssumption DEF Other
  <2>5. LinesAreInput'
    BY <2>1, <2>3, <2>4 DEF LinesAreInput
  <2>6. QED
    BY <2>2, <2>5 DEF BufferInv
<1>4. CASE ExtractLine
  BY <1>1, <1>4, ExtractKeeps
<1>5. ASSUME UNCHANGED recvVars, send_buf_sz' \in 0 .. MaxChunk,
             send_buf_sz' > 0 => send_block', send_block' \in BOOLEAN, exited' \in BOOLEAN
      PROVE  BufferInv'
  <2>1. UNCHANGED <<separator, recv_bytes, returned, input, lines>>
    BY <1>1, <1>5 DEF recvVars
  <2>2. BufferTypes'
    BY <1>5, <2>1 DEF BufferInv, BufferTypes
  <2>3. LinesAreInput'
    BY <2>1 DEF BufferInv, LinesAreInput, IsAt
  <2>4. QED
    BY <2>2, <2>3 DEF BufferInv
<1>6. ASSUME NEW n \in 0 .. MaxChunk, AddToSendBuffer(n) PROVE BufferInv'
  <2>1. UNCHANGED recvVars /\ send_block' = TRUE /\ exited' \in BOOLEAN
    BY <1>6, Zenon DEF AddToSendBuffer, ReallocFails
  <2>2. send_buf_sz' \in 0 .. MaxChunk
    BY <1>6, CommBufAssumption DEF AddToSendBuffer, BufferInv, BufferTypes
  <2>3. QED
    BY <1>5, <2>1, <2>2
<1>7. CASE ClearSendBuffer
  <2>1. UNCHANGED <<recvVars, send_block, exited>> /\ send_buf_sz' = 0
    BY <1>7 DEF ClearSendBuffer
  <2>2. send_block' \in BOOLEAN /\ exited' \in BOOLEAN
    BY <2>1, Zenon DEF BufferInv, BufferTypes
  <2>3. QED
    BY <1>5, <2>1, <2>2, CommBufAssumption
<1>8. CASE UNCHANGED commBufVars
  <2>1. UNCHANGED <<recvVars, send_buf_sz, send_block, exited>>
    BY <1>8 DEF commBufVars, sendVars
  <2>2. send_block' \in BOOLEAN /\ exited' \in BOOLEAN
    BY <2>1, Zenon DEF BufferInv, BufferTypes
  <2>3. QED
    BY <1>5, <2>1, <2>2 DEF BufferInv, BufferTypes
<1>9. QED
  BY <1>2, <1>3, <1>4, <1>6, <1>7, <1>8 DEF CommBufNext

-----------------------------------------------------------------------------
(* The theorems about the buffer *)

\* Lines and what is left of the input stay together, whatever is added, cut off
\* or taken in between, for any bytes, separators and lengths (commbuf.c:30-111).
THEOREM BufferInvHolds == CommBufSpec => []BufferInv
  BY BufferInit, BufferStep, PTL DEF CommBufSpec

\* The buffers keep to their sizes, no line is longer than the input, and bytes to
\* send have a block (commbuf.c:30-56, 86-111).
THEOREM BufferIsTyped == CommBufSpec => []CommBufTypeOK
<1>1. BufferInv => CommBufTypeOK
  <2> SUFFICES ASSUME BufferInv PROVE CommBufTypeOK
    OBVIOUS
  <2>1. {send_block, exited} \subseteq BOOLEAN
    BY Zenon DEF BufferInv, BufferTypes
  <2>2. BoundedSeq(Bytes, MaxInput) = {s \in Seq(Bytes) : Len(s) <= MaxInput}
    BY BoundedSeqIs, CommBufAssumption
  <2>3. recv_bytes \in BoundedSeq(Bytes, MaxInput)
    <3>1. FlattenSeq(lines) \in Seq(Bytes) /\ FlattenSeq(lines) \o recv_bytes = input
      BY FlattensNext DEF BufferInv, BufferTypes, LinesAreInput
    <3>2. Len(input) = Len(FlattenSeq(lines)) + Len(recv_bytes)
      BY <3>1, ConcatProperties DEF BufferInv, BufferTypes
    <3>3. Len(FlattenSeq(lines)) \in Nat /\ Len(recv_bytes) \in Nat
      BY <3>1 DEF BufferInv, BufferTypes
    <3>4. QED
      BY <2>2, <3>2, <3>3, CommBufAssumption DEF BufferInv, BufferTypes
  <2>4. {recv_bytes, input} \subseteq BoundedSeq(Bytes, MaxInput)
    BY <2>2, <2>3 DEF BufferInv, BufferTypes
  <2>5. \A k \in DOMAIN lines : lines[k] \in BoundedSeq(Bytes, MaxInput)
    BY <2>2 DEF BufferInv, BufferTypes
  <2>6. QED
    BY <2>1, <2>4, <2>5 DEF BufferInv, BufferTypes, CommBufTypeOK
<1>2. QED
  BY <1>1, BufferInvHolds, PTL

\* However the input was cut into chunks, the lines are the input cut behind every
\* separator, and no line is withheld that is there (commbuf.c:86-111).
THEOREM LinesAreCut == CommBufSpec => []LinesAreInput
<1>1. BufferInv => LinesAreInput
  BY DEF BufferInv
<1>2. QED
  BY <1>1, BufferInvHolds, PTL
=============================================================================
