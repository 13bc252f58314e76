-------------------------- MODULE SessionHashProofs --------------------------
(***************************************************************************)
(* That the hash table of SessionHash stays sound and that a worker misses *)
(* its session only while the table expands, for every number of entries,  *)
(* descriptors, initial buckets and every threshold.                       *)
(*                                                                         *)
(* The argument is about the sequences that the links spell out: the whole *)
(* table in insertion order, and every bucket. A line is such a sequence,  *)
(* a chain one whose links back agree. Each operation puts an entry before *)
(* or behind a chain or takes one out of it; an expansion has two arrays,  *)
(* with lines of what is left in the old one and chains in the new one.    *)
(***************************************************************************)
EXTENDS SessionHash, FiniteSetTheorems, WellFoundedInduction, TLAPS

\* An array of n buckets.
Bucket == [hh_head : Refs, count : Nat, expand_mult : Nat]

IsArray(a, n) == n \in Nat \ {0} /\ a \in [0 .. n - 1 -> Bucket]

\* The bucket of n that a key belongs into, and the entries of S that belong
\* into bucket b.
Number(k, n) == HashValue[k] % n

Of(S, b, n, key) == {e \in S : Number(key[e], n) = b}

\* The sequence c goes along a link from first to NULL and meets all of S once.
Line(c, n, first, link, S) ==
  /\ n \in Nat /\ c \in [1 .. n -> S]
  /\ \A i, j \in 1 .. n : c[i] = c[j] => i = j
  /\ \A e \in S : \E i \in 1 .. n : c[i] = e
  /\ first = IF n = 0 THEN NULL ELSE c[1]
  /\ \A i \in 1 .. n : link[c[i]] = IF i = n THEN NULL ELSE c[i + 1]

\* And the links back agree.
Chain(c, n, first, link, back, S) ==
  /\ Line(c, n, first, link, S)
  /\ \A i \in 1 .. n : back[c[i]] = IF i = 1 THEN NULL ELSE c[i - 1]

\* Two fields that are the same in the entries of S.
Same(field, field2, S) == \A e \in S : field2[e] = field[e]

\* A bucket has the entries of S.
Has(bucket, S, link, back) ==
  \E c \in [1 .. bucket.count -> S] : Chain(c, bucket.count, bucket.hh_head, link, back, S)

\* Every bucket of an array has the entries of S that belong into it.
Chained(a, n, S, key, link, back) ==
  \A b \in 0 .. n - 1 : Has(a[b], Of(S, b, n, key), link, back)

\* A bucket has the entries of S, of which e is h or comes after h.
Leads(bucket, S, link, back, h, e) ==
  \E c \in [1 .. bucket.count -> S] :
    /\ Chain(c, bucket.count, bucket.hh_head, link, back, S)
    /\ \E i, j \in 1 .. bucket.count : i <= j /\ c[i] = h /\ c[j] = e

\* All of S is on a line.
HasLine(S, first, link) ==
  \E n \in Nat : \E c \in [1 .. n -> S] : Line(c, n, first, link, S)

\* What the expansion x has not moved yet of bucket b of the old array a, and
\* all that it has not moved of S.
FirstLeft(x, a, b) ==
  IF x.item = NULL \/ b < x.from THEN NULL
  ELSE IF b = x.from THEN x.item ELSE a[b].hh_head

Unmoved(S, x, a, n, key, link) ==
  \A b \in 0 .. n - 1 : HasLine(Of(S, b, n, key), FirstLeft(x, a, b), link)

\* The entries in the buckets: the one that is added or deleted is not.
InTable == allocated \ (IF mpc \in {"to_bucket", "free"} THEN {cur} ELSE {})

Expanding == mpc \in {"move", "swap"}

Places == {"idle", "to_bucket", "expand", "move", "swap", "pool_add", "delete", "free",
           "body", "iterate", "ended", "undefined"}

Types ==
  /\ head \in Refs /\ cur \in Refs /\ el \in Refs /\ tmp \in Refs
  /\ session \in Refs /\ hand \in Refs
  /\ allocated \subseteq Entries
  /\ fd \in [Entries -> Keys]
  /\ next \in [Entries -> Refs] /\ prev \in [Entries -> Refs]
  /\ hh_next \in [Entries -> Refs] /\ hh_prev \in [Entries -> Refs]
  /\ DOMAIN tbl = {"num_items", "tail", "buckets", "ineff_expands", "noexpand"}
  /\ IsArray(tbl.buckets, NumBuckets)
  /\ expansion.item \in Refs /\ expansion.from \in Nat
  /\ Expanding => IsArray(expansion.buckets, 2 * NumBuckets)
  /\ mpc \in Places

\* Who is where: the entry in hand of the main thread, and the session pool.
MainAgrees ==
  /\ IF mpc \in {"idle", "body", "iterate", "ended", "undefined"} THEN cur = NULL
                                                              ELSE cur \in allocated
  /\ pooled = allocated \ {cur}
  /\ \A e \in Entries \ allocated : next[e] = NULL /\ prev[e] = NULL

\* The entries in the order in which they were added.
ListAgrees ==
  \E n \in Nat : \E c \in [1 .. n -> Linked] :
    /\ Chain(c, n, head, next, prev, Linked)
    /\ n > 0 => /\ tbl.tail = c[n]
                /\ tbl.num_items = n - (IF mpc = "to_bucket" THEN 1 ELSE 0)

\* The entries by their buckets, during an expansion in two arrays.
BucketsAgree ==
  IF ~Expanding THEN head # NULL => Chained(tbl.buckets, NumBuckets, InTable, fd, hh_next, hh_prev)
  ELSE \E moved \in SUBSET allocated :
         /\ Chained(expansion.buckets, 2 * NumBuckets, moved, fd, hh_next, hh_prev)
         /\ Unmoved(allocated \ moved, expansion, tbl.buckets, NumBuckets, fd, hh_next)
         /\ expansion.item # NULL => expansion.from < NumBuckets
         /\ mpc = "swap" => expansion.item = NULL

\* No two entries have one key.
Distinct == \A e, f \in allocated : fd[e] = fd[f] => e = f

\* HASH_ITER is at the first entry that is left.
IterIsFirst ==
  /\ mpc = "iterate" => tmp = head
  /\ mpc = "ended" => head = NULL
  /\ el # NULL => /\ Distinct
                  /\ mpc \in {"body", "delete"} => el = head /\ tmp = next[head]
                  /\ mpc = "delete" => cur = el
                  /\ mpc = "free" => tmp = head

\* The cursor of HASH_ITER is an entry, at least when it is looked at.
IterAgrees ==
  /\ mpc \notin {"body", "delete", "free", "iterate", "undefined"} => el = NULL
  /\ mpc \in {"body", "iterate"} => el # NULL
  /\ mpc = "body" => el \in allocated
  /\ ~shared => IterIsFirst

\* The session is in the chain that a lookup goes along and not behind it, even
\* when the lookup has an entry in hand that was taken out of the chain.
Ahead ==
  LET b == ToBucket(session, NumBuckets)
      leads(h) == Leads(tbl.buckets[b], Of(InTable, b, NumBuckets, fd), hh_next, hh_prev, h, session)
  IN  leads(hand) \/ (mpc = "free" /\ hand = cur /\ leads(hh_next[cur]))

ReaderAgrees ==
  /\ rpc \in {"none", "table", "bucket", "walk", "found", "missed", "freed"}
  /\ rpc # "none" => session \in pooled
  /\ rpc # "none" /\ ~expanded => ~Expanding
  /\ rpc = "bucket" => /\ bkt \in 0 .. NumBuckets - 1
                       /\ ~expanded => bkt = ToBucket(session, NumBuckets)
  /\ rpc = "walk" => /\ hand # NULL
                     /\ ~expanded /\ ~dangling => Ahead
  /\ rpc = "missed" => expanded

HashInv ==
  /\ Types
  /\ MainAgrees
  /\ ListAgrees
  /\ BucketsAgree
  /\ IterAgrees
  /\ ReaderAgrees

\* A set that holds zero and with every number the next holds them all.
LEMMA Induction ==
  ASSUME NEW S, 0 \in S, \A n \in S : n + 1 \in S
  PROVE  Nat \subseteq S
<1> SUFFICES ASSUME Nat \ S # {} PROVE FALSE
  OBVIOUS
<1>1. PICK x \in Nat \ S : \A y \in Nat \ S : ~(<<y, x>> \in OpToRel(<, Nat))
  BY NatLessThanWellFounded, WFMin
<1>2. \A y \in Nat : y < x => <<y, x>> \in OpToRel(<, Nat)
  BY DEF OpToRel
<1>3. \A y \in Nat : y < x => y \in S
  BY <1>1, <1>2
<1>4. x # 0 /\ x - 1 \in Nat /\ x - 1 < x /\ (x - 1) + 1 = x
  OBVIOUS
<1>5. QED
  BY <1>3, <1>4

-----------------------------------------------------------------------------
(* Chains *)

\* Only the links of its own entries matter to a line and to a chain.
LEMMA LineFrame ==
  ASSUME NEW c, NEW n, NEW first, NEW link, NEW S, Line(c, n, first, link, S),
         NEW link2, \A e \in S : link2[e] = link[e]
  PROVE  Line(c, n, first, link2, S)
<1>1. \A i \in 1 .. n : c[i] \in S
  BY DEF Line
<1>2. QED
  BY <1>1 DEF Line

\* The same of a chain, whose links back matter too.
LEMMA ChainFrame ==
  ASSUME NEW c, NEW n, NEW first, NEW link, NEW back, NEW S, Chain(c, n, first, link, back, S),
         NEW link2, \A e \in S : link2[e] = link[e],
         NEW back2, \A e \in S : back2[e] = back[e]
  PROVE  Chain(c, n, first, link2, back2, S)
<1>1. \A i \in 1 .. n : c[i] \in S
  BY DEF Chain, Line
<1>2. Line(c, n, first, link2, S)
  BY LineFrame DEF Chain
<1>3. QED
  BY <1>1, <1>2 DEF Chain

\* What one more entry before a chain makes of it, and one more behind it.
Before(e, c, n) == [i \in 1 .. n + 1 |-> IF i = 1 THEN e ELSE c[i - 1]]

Behind(c, n, e) == [i \in 1 .. n + 1 |-> IF i = n + 1 THEN e ELSE c[i]]

\* And one entry less.
Without(c, n, k) == [i \in 1 .. n - 1 |-> IF i < k THEN c[i] ELSE c[i + 1]]

\* HASH_ADD_TO_BKT and the same in an expansion: LinkBefore.
LEMMA ChainBefore ==
  ASSUME NEW S \in SUBSET Entries, NEW link \in [Entries -> Refs], NEW back \in [Entries -> Refs],
         NEW c, NEW n, NEW first, Chain(c, n, first, link, back, S),
         NEW e \in Entries \ S
  PROVE  Chain(Before(e, c, n), n + 1, e, [link EXCEPT ![e] = first],
               Store([back EXCEPT ![e] = NULL], first, e), S \cup {e})
<1> DEFINE d == Before(e, c, n)
           link2 == [link EXCEPT ![e] = first]
           back1 == [back EXCEPT ![e] = NULL]
           back2 == Store(back1, first, e)
<1>1. /\ n \in Nat /\ c \in [1 .. n -> S] /\ \A i \in 1 .. n : c[i] \in S /\ c[i] # e /\ c[i] # NULL
      /\ \A i, j \in 1 .. n : c[i] = c[j] => i = j
      /\ \A f \in S : \E i \in 1 .. n : c[i] = f
      /\ first = IF n = 0 THEN NULL ELSE c[1]
      /\ \A i \in 1 .. n : link[c[i]] = IF i = n THEN NULL ELSE c[i + 1]
      /\ \A i \in 1 .. n : back[c[i]] = IF i = 1 THEN NULL ELSE c[i - 1]
  BY HashAssumption DEF Chain, Line
<1>2. /\ d \in [1 .. n + 1 -> S \cup {e}] /\ d[1] = e
      /\ \A i \in 1 .. n : d[i + 1] = c[i]
      /\ \A i \in 1 .. n + 1 : i # 1 => i - 1 \in 1 .. n /\ d[i] = c[i - 1]
  BY <1>1 DEF Before
<1>3. link2[e] = first /\ \A i \in 1 .. n : link2[c[i]] = link[c[i]]
  BY <1>1
<1>4. /\ back2[e] = NULL
      /\ \A i \in 1 .. n : back2[c[i]] = IF i = 1 THEN e ELSE back[c[i]]
  <2>1. back1[e] = NULL /\ \A i \in 1 .. n : back1[c[i]] = back[c[i]] /\ c[i] \in DOMAIN back1
    BY <1>1
  <2>2. CASE n = 0
    BY <1>1, <2>1, <2>2 DEF Store
  <2>3. CASE n # 0
    <3>1. 1 \in 1 .. n /\ first = c[1] /\ first # NULL
      BY <1>1, <2>3
    <3>2. back2 = [back1 EXCEPT ![c[1]] = e]
      BY <3>1 DEF Store
    <3>3. QED
      BY <1>1, <2>1, <3>1, <3>2
  <2>4. QED
    BY <2>2, <2>3
<1> HIDE DEF d, link2, back1, back2
<1>5. \A i, j \in 1 .. n + 1 : d[i] = d[j] => i = j
  <2> TAKE i, j \in 1 .. n + 1
  <2> HAVE d[i] = d[j]
  <2>1. CASE i = 1
    BY <1>1, <1>2, <2>1
  <2>2. CASE i # 1
    <3>1. i - 1 \in 1 .. n /\ d[i] = c[i - 1] /\ d[i] # e
      BY <1>1, <1>2, <2>2
    <3>2. j # 1
      BY <1>2, <3>1
    <3>3. j - 1 \in 1 .. n /\ d[j] = c[j - 1]
      BY <1>1, <1>2, <3>2
    <3>4. c[i - 1] = c[j - 1]
      BY <3>1, <3>3
    <3>5. i - 1 = j - 1
      BY <1>1, <3>1, <3>3, <3>4
    <3>6. i \in Int /\ j \in Int
      BY <1>1
    <3>7. QED
      BY <3>5, <3>6
  <2>3. QED
    BY <2>1, <2>2
<1>6. \A f \in S \cup {e} : \E i \in 1 .. n + 1 : d[i] = f
  <2> TAKE f \in S \cup {e}
  <2>1. CASE f = e
    BY <1>1, <1>2, <2>1
  <2>2. CASE f \in S
    <3>1. PICK i \in 1 .. n : c[i] = f
      BY <1>1, <2>2
    <3>2. i + 1 \in 1 .. n + 1 /\ d[i + 1] = f
      BY <1>1, <1>2, <3>1
    <3>3. QED
      BY <3>2
  <2>3. QED
    BY <2>1, <2>2
<1>7. \A i \in 1 .. n + 1 : link2[d[i]] = IF i = n + 1 THEN NULL ELSE d[i + 1]
  <2> TAKE i \in 1 .. n + 1
  <2>1. CASE i = 1
    BY <1>1, <1>2, <1>3, <2>1
  <2>2. CASE i # 1
    <3>1. i - 1 \in 1 .. n /\ d[i] = c[i - 1] /\ (i - 1 = n <=> i = n + 1)
      BY <1>1, <1>2, <2>2
    <3>2. i # n + 1 => (i - 1) + 1 = i /\ i \in 1 .. n /\ d[i + 1] = c[i]
      BY <1>1, <1>2, <2>2
    <3>3. QED
      BY <1>1, <1>3, <3>1, <3>2
  <2>3. QED
    BY <2>1, <2>2
<1>8. \A i \in 1 .. n + 1 : back2[d[i]] = IF i = 1 THEN NULL ELSE d[i - 1]
  <2> TAKE i \in 1 .. n + 1
  <2>1. CASE i = 1
    BY <1>1, <1>2, <1>4, <2>1
  <2>2. CASE i # 1
    <3>1. i - 1 \in 1 .. n /\ d[i] = c[i - 1]
      BY <1>1, <1>2, <2>2
    <3>2. CASE i = 2
      BY <1>1, <1>2, <1>4, <3>1, <3>2
    <3>3. CASE i # 2
      <4>1. i - 2 \in 1 .. n /\ d[i - 1] = c[i - 2] /\ (i - 1) - 1 = i - 2 /\ (i - 2) + 1 = i - 1
        BY <1>1, <1>2, <2>2, <3>3
      <4>2. QED
        BY <1>1, <1>4, <2>2, <3>1, <3>3, <4>1
    <3>4. QED
      BY <3>2, <3>3
  <2>3. QED
    BY <2>1, <2>2
<1>9. n + 1 \in Nat /\ n + 1 # 0 /\ d[1] = e
  BY <1>1, <1>2
<1>10. QED
  BY <1>2, <1>5, <1>6, <1>7, <1>8, <1>9 DEF Chain, Line, d, link2, back1, back2

\* HASH_APPEND_LIST.
LEMMA ChainBehind ==
  ASSUME NEW S \in SUBSET Entries, NEW link \in [Entries -> Refs], NEW back \in [Entries -> Refs],
         NEW c, NEW n, NEW first, Chain(c, n, first, link, back, S), n # 0,
         NEW e \in Entries \ S, link[e] = NULL
  PROVE  Chain(Behind(c, n, e), n + 1, first, [link EXCEPT ![c[n]] = e],
               [back EXCEPT ![e] = c[n]], S \cup {e})
<1> DEFINE d == Behind(c, n, e)
           link2 == [link EXCEPT ![c[n]] = e]
           back2 == [back EXCEPT ![e] = c[n]]
<1>1. /\ n \in Nat /\ c \in [1 .. n -> S] /\ \A i \in 1 .. n : c[i] \in S /\ c[i] # e /\ c[i] \in Entries
      /\ \A i, j \in 1 .. n : c[i] = c[j] => i = j
      /\ \A f \in S : \E i \in 1 .. n : c[i] = f
      /\ first = c[1] /\ n \in 1 .. n
      /\ \A i \in 1 .. n : link[c[i]] = IF i = n THEN NULL ELSE c[i + 1]
      /\ \A i \in 1 .. n : back[c[i]] = IF i = 1 THEN NULL ELSE c[i - 1]
  BY DEF Chain, Line
<1>2. /\ d \in [1 .. n + 1 -> S \cup {e}] /\ d[n + 1] = e
      /\ \A i \in 1 .. n : d[i] = c[i]
  BY <1>1 DEF Behind
<1>3. link2[e] = NULL /\ \A i \in 1 .. n : link2[c[i]] = IF i = n THEN e ELSE link[c[i]]
  BY <1>1
<1>4. back2[e] = c[n] /\ \A i \in 1 .. n : back2[c[i]] = back[c[i]]
  BY <1>1
<1> HIDE DEF d, link2, back2
<1>5. \A i, j \in 1 .. n + 1 : d[i] = d[j] => i = j
  <2> TAKE i, j \in 1 .. n + 1
  <2> HAVE d[i] = d[j]
  <2>1. CASE i = n + 1
    BY <1>1, <1>2, <2>1
  <2>2. CASE i # n + 1
    BY <1>1, <1>2, <2>2
  <2>3. QED
    BY <2>1, <2>2
<1>6. \A f \in S \cup {e} : \E i \in 1 .. n + 1 : d[i] = f
  <2> TAKE f \in S \cup {e}
  <2>1. CASE f = e
    BY <1>1, <1>2, <2>1
  <2>2. CASE f \in S
    <3>1. PICK i \in 1 .. n : c[i] = f
      BY <1>1, <2>2
    <3>2. i \in 1 .. n + 1 /\ d[i] = f
      BY <1>1, <1>2, <3>1
    <3>3. QED
      BY <3>2
  <2>3. QED
    BY <2>1, <2>2
<1>7. \A i \in 1 .. n + 1 : link2[d[i]] = IF i = n + 1 THEN NULL ELSE d[i + 1]
  <2> TAKE i \in 1 .. n + 1
  <2>1. CASE i = n + 1
    BY <1>1, <1>2, <1>3, <2>1
  <2>2. CASE i = n
    BY <1>1, <1>2, <1>3, <2>2
  <2>3. CASE i # n /\ i # n + 1
    BY <1>1, <1>2, <1>3, <2>3
  <2>4. QED
    BY <2>1, <2>2, <2>3
<1>8. \A i \in 1 .. n + 1 : back2[d[i]] = IF i = 1 THEN NULL ELSE d[i - 1]
  <2> TAKE i \in 1 .. n + 1
  <2>1. CASE i = n + 1
    BY <1>1, <1>2, <1>4, <2>1
  <2>2. CASE i # n + 1
    BY <1>1, <1>2, <1>4, <2>2
  <2>3. QED
    BY <2>1, <2>2
<1>9. n + 1 \in Nat /\ n + 1 # 0 /\ d[1] = first
  BY <1>1, <1>2
<1>10. QED
  BY <1>2, <1>5, <1>6, <1>7, <1>8, <1>9 DEF Chain, Line, d, link2, back2

\* The first entry of a table.
LEMMA ChainOfOne ==
  ASSUME NEW e \in Entries, NEW link, link[e] = NULL, NEW back, back[e] = NULL
  PROVE  Chain([i \in 1 .. 1 |-> e], 1, e, link, back, {e})
  BY DEF Chain, Line

\* No entry.
LEMMA EmptyChain ==
  ASSUME NEW link, NEW back
  PROVE  Chain([i \in 1 .. 0 |-> NULL], 0, NULL, link, back, {})
  BY DEF Chain, Line

\* HASH_DELETE_HH and HASH_DEL_IN_BKT.
LEMMA ChainWithout ==
  ASSUME NEW S \in SUBSET Entries, NEW link \in [Entries -> Refs], NEW back \in [Entries -> Refs],
         NEW c, NEW n, NEW first, Chain(c, n, first, link, back, S),
         NEW k \in 1 .. n, NEW e, e = c[k]
  PROVE  Chain(Without(c, n, k), n - 1, IF first = e THEN link[e] ELSE first,
               Store(link, back[e], link[e]), Store(back, link[e], back[e]), S \ {e})
<1> DEFINE d == Without(c, n, k)
           link2 == Store(link, back[e], link[e])
           back2 == Store(back, link[e], back[e])
<1>1. /\ n \in Nat /\ c \in [1 .. n -> S] /\ \A i \in 1 .. n : c[i] \in S /\ c[i] \in Entries /\ c[i] # NULL
      /\ \A i, j \in 1 .. n : c[i] = c[j] => i = j
      /\ \A f \in S : \E i \in 1 .. n : c[i] = f
      /\ first = c[1]
      /\ \A i \in 1 .. n : link[c[i]] = IF i = n THEN NULL ELSE c[i + 1]
      /\ \A i \in 1 .. n : back[c[i]] = IF i = 1 THEN NULL ELSE c[i - 1]
  BY HashAssumption DEF Chain, Line
<1>2. /\ DOMAIN d = 1 .. n - 1
      /\ \A i \in 1 .. n - 1 : i < k => i \in 1 .. n /\ d[i] = c[i]
      /\ \A i \in 1 .. n - 1 : i >= k => i + 1 \in 1 .. n /\ d[i] = c[i + 1]
  BY <1>1 DEF Without
<1>3. \A i \in 1 .. n : link2[c[i]] = IF i + 1 = k THEN link[e] ELSE link[c[i]]
  <2>1. CASE k = 1
    <3>1. back[e] = NULL
      BY <1>1, <2>1
    <3>2. QED
      BY <1>1, <2>1, <3>1 DEF Store
  <2>2. CASE k # 1
    <3>1. k - 1 \in 1 .. n /\ back[e] = c[k - 1] /\ back[e] # NULL
      BY <1>1, <2>2
    <3>2. link2 = [link EXCEPT ![c[k - 1]] = link[e]]
      BY <3>1 DEF Store
    <3>3. QED
      BY <1>1, <3>1, <3>2
  <2>3. QED
    BY <2>1, <2>2
<1>4. \A i \in 1 .. n : back2[c[i]] = IF i = k + 1 THEN back[e] ELSE back[c[i]]
  <2>1. CASE k = n
    <3>1. link[e] = NULL
      BY <1>1, <2>1
    <3>2. QED
      BY <1>1, <2>1, <3>1 DEF Store
  <2>2. CASE k # n
    <3>1. k + 1 \in 1 .. n /\ link[e] = c[k + 1] /\ link[e] # NULL
      BY <1>1, <2>2
    <3>2. back2 = [back EXCEPT ![c[k + 1]] = back[e]]
      BY <3>1 DEF Store
    <3>3. QED
      BY <1>1, <3>1, <3>2
  <2>3. QED
    BY <2>1, <2>2
<1>5. k \in Nat /\ k >= 1 /\ k <= n
  BY <1>1
<1> HIDE DEF d, link2, back2
<1>6. \A i, j \in 1 .. n - 1 : d[i] = d[j] => i = j
  <2> TAKE i, j \in 1 .. n - 1
  <2> HAVE d[i] = d[j]
  <2>1. CASE i < k /\ j < k
    BY <1>1, <1>2, <2>1
  <2>2. CASE i < k /\ j >= k
    BY <1>1, <1>2, <1>5, <2>2
  <2>3. CASE i >= k /\ j < k
    BY <1>1, <1>2, <1>5, <2>3
  <2>4. CASE i >= k /\ j >= k
    BY <1>1, <1>2, <1>5, <2>4
  <2>5. QED
    BY <1>5, <2>1, <2>2, <2>3, <2>4
<1>7. \A f \in S \ {e} : \E i \in 1 .. n - 1 : d[i] = f
  <2> TAKE f \in S \ {e}
  <2>1. PICK i \in 1 .. n : c[i] = f /\ i # k
    BY <1>1
  <2>2. CASE i < k
    <3>1. i \in 1 .. n - 1 /\ d[i] = f
      BY <1>1, <1>2, <1>5, <2>1, <2>2
    <3>2. QED
      BY <3>1
  <2>3. CASE i > k
    <3>1. i - 1 \in 1 .. n - 1 /\ i - 1 >= k /\ (i - 1) + 1 = i
      BY <1>1, <1>5, <2>1, <2>3
    <3>2. d[i - 1] = f
      BY <1>2, <2>1, <3>1
    <3>3. QED
      BY <3>1, <3>2
  <2>4. QED
    BY <1>5, <2>1, <2>2, <2>3
<1>8. \A i \in 1 .. n - 1 : d[i] \in S \ {e}
  <2> TAKE i \in 1 .. n - 1
  <2>1. CASE i < k
    BY <1>1, <1>2, <1>5, <2>1
  <2>2. CASE i >= k
    BY <1>1, <1>2, <1>5, <2>2
  <2>3. QED
    BY <1>5, <2>1, <2>2
<1>9. d \in [1 .. n - 1 -> S \ {e}]
  <2>1. d = [i \in 1 .. n - 1 |-> d[i]]
    BY DEF d, Without
  <2>2. QED
    BY <1>8, <2>1
<1>10. \A i \in 1 .. n - 1 : link2[d[i]] = IF i = n - 1 THEN NULL ELSE d[i + 1]
  <2> TAKE i \in 1 .. n - 1
  <2>1. CASE i + 1 < k
    <3>1. n \in Nat /\ i \in 1 .. n /\ i + 1 \in 1 .. n - 1 /\ i # n /\ i # n - 1 /\ i + 1 # k
      BY <1>1, <1>5, <2>1
    <3>2. d[i] = c[i] /\ d[i + 1] = c[i + 1]
      BY <1>2, <1>5, <2>1, <3>1
    <3>3. link2[c[i]] = link[c[i]] /\ link[c[i]] = c[i + 1]
      BY <1>1, <1>3, <3>1
    <3>4. QED
      BY <3>1, <3>2, <3>3
  <2>2. CASE i + 1 = k
    <3>1. i \in 1 .. n /\ d[i] = c[i] /\ link2[c[i]] = link[e]
      BY <1>1, <1>2, <1>3, <1>5, <2>2
    <3>2. i = n - 1 => link[e] = NULL
      BY <1>1, <1>5, <2>2
    <3>3. i # n - 1 => i + 1 \in 1 .. n - 1 /\ link[e] = c[k + 1] /\ d[i + 1] = c[k + 1]
      BY <1>1, <1>2, <1>5, <2>2
    <3>4. QED
      BY <3>1, <3>2, <3>3
  <2>3. CASE i + 1 > k
    <3>1. i + 1 \in 1 .. n /\ i >= k /\ d[i] = c[i + 1] /\ (i + 1 = n <=> i = n - 1) /\ (i + 1) + 1 # k
      BY <1>1, <1>2, <1>5, <2>3
    <3>2. i # n - 1 => i + 1 \in 1 .. n - 1 /\ d[i + 1] = c[(i + 1) + 1]
      BY <1>1, <1>2, <1>5, <3>1
    <3>3. QED
      BY <1>1, <1>3, <3>1, <3>2
  <2>4. QED
    BY <1>5, <2>1, <2>2, <2>3
<1>11. \A i \in 1 .. n - 1 : back2[d[i]] = IF i = 1 THEN NULL ELSE d[i - 1]
  <2> TAKE i \in 1 .. n - 1
  <2>1. CASE i < k
    <3>1. i \in 1 .. n /\ d[i] = c[i] /\ i # k + 1
      BY <1>1, <1>2, <1>5, <2>1
    <3>2. i # 1 => i - 1 \in 1 .. n - 1 /\ d[i - 1] = c[i - 1]
      BY <1>1, <1>2, <1>5, <2>1
    <3>3. QED
      BY <1>1, <1>4, <3>1, <3>2
  <2>2. CASE i = k
    <3>1. i + 1 \in 1 .. n /\ d[i] = c[i + 1] /\ back2[c[i + 1]] = back[e]
      BY <1>1, <1>2, <1>4, <1>5, <2>2
    <3>2. i # 1 => i - 1 \in 1 .. n - 1 /\ d[i - 1] = c[i - 1]
      BY <1>1, <1>2, <1>5, <2>2
    <3>3. QED
      BY <1>1, <1>5, <2>2, <3>1, <3>2
  <2>3. CASE i > k
    <3>0. /\ n \in Nat /\ i \in Nat /\ k \in Nat /\ k >= 1 /\ i > k /\ i <= n - 1
      BY <1>1, <2>3
    <3>7. i + 1 \in 1 .. n /\ i + 1 # k + 1 /\ i # 1 /\ i + 1 # 1 /\ (i + 1) - 1 = i /\ i >= k
      BY ONLY <3>0
    <3>8. d[i] = c[i + 1]
      BY <1>2, <3>7
    <3>1. i + 1 \in 1 .. n /\ d[i] = c[i + 1] /\ i + 1 # k + 1 /\ i # 1 /\ i + 1 # 1 /\ (i + 1) - 1 = i
      BY ONLY <3>7, <3>8
    <3>2. i - 1 \in 1 .. n - 1 /\ i - 1 >= k /\ (i - 1) + 1 = i
      BY <1>1, <1>5, <2>3
    <3>3. d[i - 1] = c[i]
      BY <1>2, <3>2
    <3>4. back2[c[i + 1]] = back[c[i + 1]]
      BY <1>4, <3>1
    <3>5. back[c[i + 1]] = c[i]
      BY <1>1, <3>1
    <3>6. QED
      BY <3>1, <3>3, <3>4, <3>5
  <2>4. QED
    BY <1>5, <2>1, <2>2, <2>3
<1>12. (IF first = e THEN link[e] ELSE first) = IF n - 1 = 0 THEN NULL ELSE d[1]
  <2>1. CASE k = 1
    <3>1. first = e /\ link[e] = IF n = 1 THEN NULL ELSE c[2]
      BY <1>1, <2>1
    <3>2. n # 1 => 1 \in 1 .. n - 1 /\ d[1] = c[2]
      BY <1>1, <1>2, <2>1
    <3>3. n = 1 <=> n - 1 = 0
      BY <1>1
    <3>4. QED
      BY <3>1, <3>2, <3>3
  <2>2. CASE k # 1
    <3>1. first # e /\ n - 1 # 0 /\ 1 \in 1 .. n - 1 /\ d[1] = c[1]
      BY <1>1, <1>2, <1>5, <2>2
    <3>2. QED
      BY <1>1, <3>1
  <2>3. QED
    BY <2>1, <2>2
<1>13. n - 1 \in Nat
  BY <1>1
<1>14. QED
  BY <1>6, <1>7, <1>9, <1>10, <1>11, <1>12, <1>13 DEF Chain, Line, d, link2, back2

-----------------------------------------------------------------------------
(* What Along and Find see *)

\* The values of a recursive function on 0 .. L, where each depends on the one
\* before by a function of the references.
Walks(at, L, e, link) ==
  /\ at \in [0 .. L -> Refs]
  /\ at[0] = e
  /\ \A n \in 1 .. L : at[n] = IF at[n - 1] = NULL THEN NULL ELSE link[at[n - 1]]

\* There is a walk along a link from anywhere.
LEMMA WalkExists ==
  ASSUME NEW L \in Nat, NEW e \in Refs, NEW link \in [Entries -> Refs]
  PROVE  \E at : Walks(at, L, e, link)
<1> DEFINE All == {m \in Nat : \E at : Walks(at, m, e, link)}
<1>1. 0 \in All
  <2>1. Walks([n \in 0 .. 0 |-> e], 0, e, link)
    BY DEF Walks
  <2>2. QED
    BY <2>1
<1>2. ASSUME NEW m \in All PROVE m + 1 \in All
  <2>1. m \in Nat
    OBVIOUS
  <2>2. PICK g : Walks(g, m, e, link)
    OBVIOUS
  <2> DEFINE last == IF g[m] = NULL THEN NULL ELSE link[g[m]]
             h == [n \in 0 .. m + 1 |-> IF n = m + 1 THEN last ELSE g[n]]
  <2>3. last \in Refs
    BY <2>1, <2>2 DEF Walks, Refs
  <2>4. h \in [0 .. m + 1 -> Refs] /\ h[m + 1] = last /\ \A n \in 0 .. m : h[n] = g[n]
    BY <2>1, <2>2, <2>3 DEF Walks
  <2> HIDE DEF h, All
  <2>5. h[0] = e
    BY <2>1, <2>2, <2>4 DEF Walks
  <2>6. ASSUME NEW n \in 1 .. m + 1
        PROVE  h[n] = IF h[n - 1] = NULL THEN NULL ELSE link[h[n - 1]]
    <3>1. n - 1 \in 0 .. m /\ h[n - 1] = g[n - 1]
      BY <2>1, <2>4
    <3>2. CASE n = m + 1
      BY <2>1, <2>4, <3>1, <3>2
    <3>3. CASE n # m + 1
      BY <2>1, <2>2, <2>4, <3>1, <3>3 DEF Walks
    <3>4. QED
      BY <3>2, <3>3
  <2>7. Walks(h, m + 1, e, link)
    BY <2>4, <2>5, <2>6 DEF Walks
  <2>8. QED
    BY <2>1, <2>7 DEF All
<1>3. L \in All
  <2> HIDE DEF All
  <2>1. QED
    BY <1>1, <1>2, Induction
<1>4. QED
  BY <1>3

\* Along goes through the whole of a chain and no further.
LEMMA AlongLine ==
  ASSUME NEW S \in SUBSET Entries, NEW link \in [Entries -> Refs],
         NEW c, NEW n, NEW first, Line(c, n, first, link, S)
  PROVE  Along(link, first) = c
<1> DEFINE K == Cardinality(Entries)
           Step(g, i) == IF i = 0 THEN first ELSE IF g[i - 1] = NULL THEN NULL ELSE link[g[i - 1]]
           Rec == CHOOSE g : g = [i \in 0 .. K |-> Step(g, i)]
           size(g) == Cardinality({i \in 0 .. K - 1 : g[i] # NULL})
<1>1. /\ n \in Nat /\ c \in [1 .. n -> S]
      /\ \A i \in 1 .. n : c[i] \in Entries /\ c[i] # NULL
      /\ \A i, j \in 1 .. n : c[i] = c[j] => i = j
      /\ first = IF n = 0 THEN NULL ELSE c[1]
      /\ \A i \in 1 .. n : link[c[i]] = IF i = n THEN NULL ELSE c[i + 1]
  BY HashAssumption DEF Line
<1>2. K \in Nat /\ n <= K
  <2>1. IsFiniteSet(Entries) /\ K \in Nat
    BY HashAssumption, FS_CardinalityType
  <2>2. c \in Injection(1 .. n, Entries)
    BY <1>1 DEF Injection, IsInjective
  <2>3. Cardinality(1 .. n) <= K
    BY <2>1, <2>2, FS_Injection
  <2>4. Cardinality(1 .. n) = n
    BY <1>1, FS_Interval
  <2>5. QED
    BY <2>1, <2>3, <2>4
<1>3. first \in Refs
  BY <1>1 DEF Refs
<1>4. PICK at : Walks(at, K, first, link)
  <2> HIDE DEF K
  <2>1. QED
    BY <1>2, <1>3, WalkExists
<1>5. at = [i \in 0 .. K |-> Step(at, i)]
  <2> HIDE DEF K
  <2>1. \A i \in 0 .. K : at[i] = Step(at, i)
    <3> TAKE i \in 0 .. K
    <3>1. CASE i = 0
      BY <1>4, <3>1 DEF Walks
    <3>2. CASE i # 0
      BY <1>2, <1>4, <3>2 DEF Walks
    <3>3. QED
      BY <3>1, <3>2
  <2>2. QED
    BY <1>4, <2>1 DEF Walks
<1>6. Rec = [i \in 0 .. K |-> Step(Rec, i)]
  <2> HIDE DEF K, Step
  <2>1. QED
    BY <1>5, Zenon
<1>7. \A i \in 0 .. K : Rec[i] = IF i < n THEN c[i + 1] ELSE NULL
  <2> DEFINE All == {i \in Nat : i <= K => Rec[i] = IF i < n THEN c[i + 1] ELSE NULL}
  <2> HIDE DEF K, Rec
  <2>1. 0 \in All
    BY <1>1, <1>2, <1>6
  <2>2. ASSUME NEW i \in All PROVE i + 1 \in All
    <3> SUFFICES ASSUME i + 1 <= K PROVE Rec[i + 1] = IF i + 1 < n THEN c[(i + 1) + 1] ELSE NULL
      BY <2>2
    <3>1. i \in Nat /\ Rec[i] = IF i < n THEN c[i + 1] ELSE NULL
      BY <1>2
    <3>2. Rec[i + 1] = IF Rec[i] = NULL THEN NULL ELSE link[Rec[i]]
      BY <1>2, <1>6, <3>1
    <3>3. CASE i < n
      <4>1. i + 1 \in 1 .. n /\ Rec[i] = c[i + 1] /\ (i + 1 = n <=> ~(i + 1 < n))
        BY <1>1, <3>1, <3>3
      <4>2. QED
        BY <1>1, <3>2, <4>1
    <3>4. CASE ~(i < n)
      BY <1>1, <3>1, <3>2, <3>4
    <3>5. QED
      BY <3>3, <3>4
  <2> HIDE DEF All
  <2>3. Nat \subseteq All
    BY <2>1, <2>2, Induction
  <2>4. QED
    BY <1>2, <2>3 DEF All
<1>8. {i \in 0 .. K - 1 : Rec[i] # NULL} = 0 .. n - 1
  <2> HIDE DEF K, Rec
  <2>1. QED
    BY <1>1, <1>2, <1>7
<1>9. size(Rec) = n
  <2>1. Cardinality(0 .. n - 1) = n
    <3>1. Cardinality(0 .. n - 1) = IF 0 > n - 1 THEN 0 ELSE (n - 1) - 0 + 1
      BY <1>1, FS_Interval
    <3>2. QED
      BY <1>1, <3>1
  <2> HIDE DEF K, Rec
  <2>2. QED
    BY <1>8, <2>1
<1>10. Along(link, first) = [i \in 1 .. size(Rec) |-> Rec[i - 1]]
  BY DEF Along
<1>11. QED
  <2> HIDE DEF K, Rec, size
  <2>1. \A i \in 1 .. n : Rec[i - 1] = c[i]
    BY <1>1, <1>2, <1>7
  <2>2. Along(link, first) = [i \in 1 .. n |-> Rec[i - 1]]
    BY <1>9, <1>10
  <2>3. [i \in 1 .. n |-> Rec[i - 1]] = [i \in 1 .. n |-> c[i]]
    BY <2>1
  <2>4. c = [i \in 1 .. n |-> c[i]]
    BY <1>1
  <2>5. QED
    BY <2>2, <2>3, <2>4

-----------------------------------------------------------------------------
(* Buckets *)

\* Only the links of its own entries matter to a bucket.
LEMMA HasFrame ==
  ASSUME NEW bucket, NEW S, NEW link, NEW back, Has(bucket, S, link, back),
         NEW link2, Same(link, link2, S), NEW back2, Same(back, back2, S)
  PROVE  Has(bucket, S, link2, back2)
  BY ChainFrame DEF Has, Same

\* The first entry of a bucket is one of its entries.
LEMMA HasFirst ==
  ASSUME NEW bucket \in Bucket, NEW S, NEW link, NEW back, Has(bucket, S, link, back)
  PROVE  bucket.hh_head # NULL => bucket.hh_head \in S
  BY DEF Has, Chain, Line, Bucket

\* HASH_ADD_TO_BKT: an entry becomes the first of a bucket.
LEMMA HasBefore ==
  ASSUME NEW S \in SUBSET Entries, NEW link \in [Entries -> Refs], NEW back \in [Entries -> Refs],
         NEW bucket \in Bucket, Has(bucket, S, link, back), NEW e \in Entries \ S,
         NEW bucket2, bucket2.hh_head = e, bucket2.count = bucket.count + 1,
         NEW link2, link2 = [link EXCEPT ![e] = bucket.hh_head],
         NEW back2, back2 = Store([back EXCEPT ![e] = NULL], bucket.hh_head, e),
         NEW S2, S2 = S \cup {e}
  PROVE  Has(bucket2, S2, link2, back2)
<1> DEFINE k == bucket.count
<1>1. PICK c \in [1 .. k -> S] : Chain(c, k, bucket.hh_head, link, back, S)
  BY DEF Has
<1>2. Chain(Before(e, c, k), k + 1, e, link2, back2, S2)
  BY <1>1, ChainBefore
<1>3. Before(e, c, k) \in [1 .. k + 1 -> S2]
  BY <1>2 DEF Chain, Line
<1>4. QED
  BY <1>2, <1>3 DEF Has

\* Nor does it matter to a lookup what happens to the links of other entries.
LEMMA LeadsFrame ==
  ASSUME NEW bucket, NEW S, NEW link, NEW back, NEW h, NEW f, Leads(bucket, S, link, back, h, f),
         NEW link2, Same(link, link2, S), NEW back2, Same(back, back2, S)
  PROVE  Leads(bucket, S, link2, back2, h, f)
  BY ChainFrame DEF Leads, Same

\* An entry that is put at the front is not in the way of a lookup.
LEMMA LeadsBefore ==
  ASSUME NEW S \in SUBSET Entries, NEW link \in [Entries -> Refs], NEW back \in [Entries -> Refs],
         NEW bucket \in Bucket, NEW h, NEW f, Leads(bucket, S, link, back, h, f), NEW e \in Entries \ S,
         NEW bucket2, bucket2.hh_head = e, bucket2.count = bucket.count + 1,
         NEW link2, link2 = [link EXCEPT ![e] = bucket.hh_head],
         NEW back2, back2 = Store([back EXCEPT ![e] = NULL], bucket.hh_head, e),
         NEW S2, S2 = S \cup {e}
  PROVE  Leads(bucket2, S2, link2, back2, h, f)
<1> DEFINE k == bucket.count
<1>1. PICK c \in [1 .. k -> S] :
        /\ Chain(c, k, bucket.hh_head, link, back, S)
        /\ \E i, j \in 1 .. k : i <= j /\ c[i] = h /\ c[j] = f
  BY DEF Leads
<1>2. Chain(Before(e, c, k), k + 1, e, link2, back2, S2)
  BY <1>1, ChainBefore
<1>3. Before(e, c, k) \in [1 .. k + 1 -> S2]
  BY <1>2 DEF Chain, Line
<1>4. k \in Nat
  BY DEF Bucket
<1>5. \A i \in 1 .. k : i + 1 \in 1 .. k + 1 /\ Before(e, c, k)[i + 1] = c[i]
  BY <1>4 DEF Before
<1>6. PICK i \in 1 .. k, j \in 1 .. k : i <= j /\ c[i] = h /\ c[j] = f
  BY <1>1
<1>7. i + 1 <= j + 1
  BY <1>4, <1>6
<1>8. QED
  BY <1>2, <1>3, <1>5, <1>6, <1>7 DEF Leads

\* A lookup that has not found its session goes on to the next entry.
LEMMA LeadsOn ==
  ASSUME NEW S, NEW link, NEW back, NEW bucket \in Bucket, NEW h, NEW f,
         Leads(bucket, S, link, back, h, f), h # f
  PROVE  link[h] \in S /\ Leads(bucket, S, link, back, link[h], f)
<1> DEFINE k == bucket.count
<1>1. PICK c \in [1 .. k -> S] :
        /\ Chain(c, k, bucket.hh_head, link, back, S)
        /\ \E i, j \in 1 .. k : i <= j /\ c[i] = h /\ c[j] = f
  BY DEF Leads
<1>2. PICK i \in 1 .. k, j \in 1 .. k : i <= j /\ c[i] = h /\ c[j] = f
  BY <1>1
<1>3. k \in Nat
  BY DEF Bucket
<1>4. i + 1 \in 1 .. k /\ i + 1 <= j /\ i # k
  BY <1>2, <1>3
<1>5. link[h] = c[i + 1]
  BY <1>1, <1>2, <1>4 DEF Chain, Line
<1>6. QED
  BY <1>1, <1>2, <1>4, <1>5 DEF Leads

\* A lookup that begins with the first entry of its bucket.
LEMMA LeadsFirst ==
  ASSUME NEW S, NEW link, NEW back, NEW bucket \in Bucket, Has(bucket, S, link, back), NEW f \in S
  PROVE  bucket.hh_head \in S /\ Leads(bucket, S, link, back, bucket.hh_head, f)
<1> DEFINE k == bucket.count
<1>1. PICK c \in [1 .. k -> S] : Chain(c, k, bucket.hh_head, link, back, S)
  BY DEF Has
<1>2. PICK j \in 1 .. k : c[j] = f
  BY <1>1 DEF Chain, Line
<1>3. k \in Nat
  BY DEF Bucket
<1>4. 1 \in 1 .. k /\ 1 <= j /\ c[1] = bucket.hh_head
  BY <1>1, <1>2, <1>3 DEF Chain, Line
<1>5. QED
  BY <1>1, <1>2, <1>4 DEF Leads

\* What HASH_DEL_IN_BKT makes of a bucket.
Removed(bucket, bucket2, link, e) ==
  /\ bucket2.hh_head = IF bucket.hh_head = e THEN link[e] ELSE bucket.hh_head
  /\ bucket2.count = bucket.count - 1

\* An entry is taken out of its bucket.
LEMMA HasWithout ==
  ASSUME NEW S \in SUBSET Entries, NEW link \in [Entries -> Refs], NEW back \in [Entries -> Refs],
         NEW bucket \in Bucket, Has(bucket, S, link, back), NEW e \in S,
         NEW bucket2, Removed(bucket, bucket2, link, e),
         NEW link2, link2 = Store(link, back[e], link[e]),
         NEW back2, back2 = Store(back, link[e], back[e]),
         NEW S2, S2 = S \ {e}
  PROVE  Has(bucket2, S2, link2, back2)
<1> DEFINE k == bucket.count
<1>1. PICK c \in [1 .. k -> S] : Chain(c, k, bucket.hh_head, link, back, S)
  BY DEF Has
<1>2. PICK i \in 1 .. k : e = c[i]
  BY <1>1 DEF Chain, Line
<1>3. Chain(Without(c, k, i), k - 1, bucket2.hh_head, link2, back2, S2)
  BY <1>1, <1>2, ChainWithout DEF Removed
<1>4. Without(c, k, i) \in [1 .. k - 1 -> S2] /\ k - 1 \in Nat
  BY <1>3 DEF Chain, Line
<1>5. QED
  BY <1>3, <1>4 DEF Has, Removed

\* A lookup that has a removed entry in hand is at the next one.
Passed(h, h2, link, e) == h2 = IF h = e THEN link[e] ELSE h

\* What comes before the session does so afterwards; an entry that is taken out
\* while a lookup has it in hand leads it to the next one.
LEMMA LeadsWithout ==
  ASSUME NEW S \in SUBSET Entries, NEW link \in [Entries -> Refs], NEW back \in [Entries -> Refs],
         NEW bucket \in Bucket, NEW h, NEW f, Leads(bucket, S, link, back, h, f), NEW e \in S,
         NEW bucket2, Removed(bucket, bucket2, link, e),
         NEW link2, link2 = Store(link, back[e], link[e]),
         NEW back2, back2 = Store(back, link[e], back[e]),
         NEW S2, S2 = S \ {e}, f \in S2, NEW h2, Passed(h, h2, link2, e)
  PROVE  Leads(bucket2, S2, link2, back2, h2, f)
<1> DEFINE k == bucket.count
<1>1. PICK c \in [1 .. k -> S] :
        /\ Chain(c, k, bucket.hh_head, link, back, S)
        /\ \E i, j \in 1 .. k : i <= j /\ c[i] = h /\ c[j] = f
  BY DEF Leads
<1>2. PICK x \in 1 .. k : e = c[x]
  BY <1>1 DEF Chain, Line
<1> DEFINE d == Without(c, k, x)
<1>3. Chain(d, k - 1, bucket2.hh_head, link2, back2, S2)
  BY <1>1, <1>2, ChainWithout DEF Removed
<1>4. d \in [1 .. k - 1 -> S2] /\ k - 1 \in Nat /\ k \in Nat
  BY <1>3 DEF Chain, Line, Bucket
<1>5. /\ \A y \in 1 .. k : y < x => y \in 1 .. k - 1 /\ d[y] = c[y]
      /\ \A y \in 1 .. k : y > x => y - 1 \in 1 .. k - 1 /\ d[y - 1] = c[y]
  BY <1>2, <1>4 DEF Without
<1>6. PICK i \in 1 .. k, j \in 1 .. k : i <= j /\ c[i] = h /\ c[j] = f
  BY <1>1
<1>7. \A y, z \in 1 .. k : c[y] = c[z] => y = z
  BY <1>1 DEF Chain, Line
<1>8. j # x
  BY <1>2, <1>6
<1> HIDE DEF d
<1>9. ASSUME h # e PROVE Leads(bucket2, S2, link2, back2, h, f)
  <2>1. i # x
    BY <1>2, <1>6, <1>9
  <2>2. \E y, z \in 1 .. k - 1 : y <= z /\ d[y] = h /\ d[z] = f
    <3>1. CASE j < x
      <4>1. i < x
        BY <1>4, <1>6, <3>1
      <4>2. QED
        BY <1>5, <1>6, <3>1, <4>1
    <3>2. CASE i > x
      <4>1. j > x /\ i - 1 <= j - 1
        BY <1>4, <1>6, <3>2
      <4>2. QED
        BY <1>5, <1>6, <3>2, <4>1
    <3>3. CASE i < x /\ j > x
      <4>1. i <= j - 1
        BY <1>4, <3>3
      <4>2. QED
        BY <1>5, <1>6, <3>3, <4>1
    <3>4. QED
      BY <1>4, <1>8, <2>1, <3>1, <3>2, <3>3
  <2>3. QED
    BY <1>3, <1>4, <2>2 DEF Leads, Removed
<1>10. ASSUME h = e PROVE link2[e] = link[e] /\ Leads(bucket2, S2, link2, back2, link[e], f)
  <2>1. i = x /\ j > x /\ x + 1 \in 1 .. k /\ x # k
    BY <1>2, <1>4, <1>6, <1>7, <1>8, <1>10
  <2>2. link[e] = c[x + 1] /\ back[e] = IF x = 1 THEN NULL ELSE c[x - 1]
    BY <1>1, <1>2, <2>1 DEF Chain, Line
  <2>3. x \in 1 .. k - 1 /\ d[x] = link[e] /\ j - 1 \in 1 .. k - 1 /\ d[j - 1] = f /\ x <= j - 1
    <3>1. x + 1 > x /\ (x + 1) - 1 = x
      BY <1>4
    <3>2. QED
      BY <1>4, <1>5, <1>6, <2>1, <2>2, <3>1
  <2>4. back[e] # e
    <3>1. x # 1 => x - 1 \in 1 .. k /\ x - 1 # x
      BY <1>4
    <3>2. e # NULL
      BY HashAssumption
    <3>3. QED
      BY <1>2, <1>7, <2>2, <3>1, <3>2
  <2>5. link2[e] = link[e]
    BY <2>4 DEF Store
  <2>6. QED
    BY <1>3, <1>4, <2>3, <2>5 DEF Leads, Removed
<1>11. QED
  BY <1>9, <1>10 DEF Passed

\* A set of numbers has a least one.
LEMMA Least ==
  ASSUME NEW S \in SUBSET Nat, S # {}
  PROVE  \E c \in S : \A d \in S : c <= d
<1>1. PICK x \in S : \A y \in S : ~(<<y, x>> \in OpToRel(<, Nat))
  BY NatLessThanWellFounded, WFMin
<1>2. \A y \in S : y < x => <<y, x>> \in OpToRel(<, Nat)
  BY DEF OpToRel
<1>3. \A y \in S : ~(y < x)
  BY <1>1, <1>2
<1>4. \A y \in S : x \in Nat /\ y \in Nat
  OBVIOUS
<1>5. \A y \in S : x <= y
  BY <1>3, <1>4
<1>6. QED
  BY <1>5

\* HASH_TO_BKT gives the number of a bucket.
LEMMA BucketInRange ==
  ASSUME NEW k \in Keys, NEW n \in Nat \ {0}
  PROVE  Number(k, n) \in 0 .. n - 1
<1>1. HashValue \in [Keys -> 0 .. Half - 1]
  BY HashAssumption, Zenon
<1>2. HashValue[k] \in 0 .. Half - 1
  BY <1>1
<1>3. \A h \in Nat : \A x \in 0 .. h - 1 : x \in Nat
  OBVIOUS
<1>4. HashValue[k] \in Nat
  <2>1. Half \in Nat
    BY DEF Half
  <2> HIDE DEF Half
  <2>2. QED
    BY <1>2, <1>3, <2>1
<1>5. QED
  BY <1>4 DEF Number

\* The number of buckets is what their array is long.
LEMMA ArraySize ==
  ASSUME NEW a, NEW n, IsArray(a, n)
  PROVE  Cardinality(DOMAIN a) = n
<1>1. n \in Nat \ {0} /\ DOMAIN a = 0 .. n - 1
  BY DEF IsArray
<1>2. Cardinality(0 .. n - 1) = IF 0 > n - 1 THEN 0 ELSE (n - 1) - 0 + 1
  BY <1>1, FS_Interval
<1>3. QED
  BY <1>1, <1>2

\* New buckets are an array of empty ones.
LEMMA EmptyArray ==
  ASSUME NEW n \in Nat \ {0}
  PROVE  /\ IsArray(EmptyBuckets(n), n)
         /\ \A b \in 0 .. n - 1 : EmptyBuckets(n)[b].hh_head = NULL /\ EmptyBuckets(n)[b].count = 0
  BY DEF IsArray, EmptyBuckets, Bucket, Refs

\* The buckets of a table without entries.
LEMMA NothingChained ==
  ASSUME NEW n \in Nat \ {0}, NEW key, NEW link, NEW back
  PROVE  Chained(EmptyBuckets(n), n, {}, key, link, back)
<1> SUFFICES ASSUME NEW b \in 0 .. n - 1
             PROVE  Has(EmptyBuckets(n)[b], Of({}, b, n, key), link, back)
  BY DEF Chained
<1>1. Of({}, b, n, key) = {}
  BY DEF Of
<1>2. [i \in 1 .. 0 |-> NULL] \in [1 .. 0 -> {}]
  OBVIOUS
<1>3. QED
  BY <1>1, <1>2, EmptyChain, EmptyArray DEF Has

\* The next bucket that is not empty.
LEMMA FirstItemProperties ==
  ASSUME IsArray(tbl.buckets, NumBuckets), NEW b \in Nat
  PROVE  /\ FirstItem(b).item \in Refs /\ FirstItem(b).from \in Nat
         /\ FirstItem(b).item # NULL =>
              /\ FirstItem(b).from \in b .. NumBuckets - 1
              /\ FirstItem(b).item = tbl.buckets[FirstItem(b).from].hh_head
              /\ \A d \in b .. FirstItem(b).from - 1 : tbl.buckets[d].hh_head = NULL
         /\ FirstItem(b).item = NULL =>
              \A d \in b .. NumBuckets - 1 : tbl.buckets[d].hh_head = NULL
<1> DEFINE nonempty == {c \in b .. NumBuckets - 1 : tbl.buckets[c].hh_head # NULL}
           IsFirst(c) == c \in nonempty /\ \A d \in nonempty : c <= d
           first == CHOOSE c \in nonempty : \A d \in nonempty : c <= d
<1>1. NumBuckets \in Nat /\ \A d \in b .. NumBuckets - 1 : tbl.buckets[d].hh_head \in Refs
  BY DEF IsArray, Bucket
<1>2. CASE nonempty = {}
  <2>1. FirstItem(b) = [item |-> NULL, from |-> 0]
    BY <1>2 DEF FirstItem
  <2>2. QED
    BY <1>2, <2>1 DEF Refs
<1>3. CASE nonempty # {}
  <2>1. FirstItem(b) = [item |-> tbl.buckets[first].hh_head, from |-> first]
    BY <1>3 DEF FirstItem
  <2>2. \E c \in nonempty : \A d \in nonempty : c <= d
    <3>1. nonempty \in SUBSET Nat
      BY <1>1
    <3> HIDE DEF nonempty
    <3>2. QED
      BY <1>3, <3>1, Least
  <2>3. first \in nonempty /\ \A d \in nonempty : first <= d
    <3> HIDE DEF nonempty
    <3>1. QED
      BY <2>2
  <2>4. first \in b .. NumBuckets - 1 /\ tbl.buckets[first].hh_head # NULL
    BY <2>3
  <2> HIDE DEF first
  <2>5. \A d \in b .. first - 1 : tbl.buckets[d].hh_head = NULL
    BY <1>1, <2>3, <2>4
  <2>6. QED
    BY <1>1, <2>1, <2>4, <2>5
<1>4. QED
  BY <1>2, <1>3

\* The insertion order begins with nothing where there is nothing.
LEMMA HeadIsNull ==
  ASSUME Types, ListAgrees
  PROVE  head = NULL <=> Linked = {}
<1>1. PICK n \in Nat : \E c \in [1 .. n -> Linked] : Chain(c, n, head, next, prev, Linked)
  BY DEF ListAgrees
<1>2. PICK c \in [1 .. n -> Linked] : Chain(c, n, head, next, prev, Linked)
  BY <1>1
<1>3. \A i \in 1 .. n : c[i] # NULL
  BY HashAssumption DEF Types, Linked
<1>4. QED
  BY <1>2, <1>3 DEF Chain, Line

\* HASH_FIND finds an entry that the table has for the key, where it has one.
LEMMA FindFinds ==
  ASSUME Types, ListAgrees, BucketsAgree, mpc \notin {"to_bucket", "move", "swap"},
         NEW k \in Keys
  PROVE  /\ Find(k) # NULL => Find(k) \in Linked /\ fd[Find(k)] = k
         /\ \A e \in Linked : fd[e] = k => Find(k) # NULL
<1> DEFINE b == Number(k, NumBuckets)
           bucket == tbl.buckets[b]
           chain == Along(hh_next, bucket.hh_head)
           matches == {n \in DOMAIN chain : fd[chain[n]] = k}
           first == CHOOSE n \in matches : \A m \in matches : n <= m
<1>0. Find(k) = IF head = NULL \/ matches = {} THEN NULL ELSE chain[first]
  BY Zenon DEF Find, Number
<1> HIDE DEF first
<1>1. CASE head = NULL
  <2>1. Find(k) = NULL
    BY <1>0, <1>1
  <2>2. QED
    BY <1>1, <2>1, HeadIsNull
<1>2. CASE head # NULL
  <2>1. NumBuckets \in Nat \ {0} /\ IsArray(tbl.buckets, NumBuckets)
    BY DEF Types, IsArray
  <2>2. b \in 0 .. NumBuckets - 1
    BY <2>1, BucketInRange
  <2>3. bucket.count \in Nat
    BY <2>1, <2>2 DEF IsArray, Bucket
  <2>4. InTable = Linked /\ Linked \subseteq Entries
    BY DEF InTable, Linked, Types
  <2>5. PICK c : Chain(c, bucket.count, bucket.hh_head, hh_next, hh_prev, Of(Linked, b, NumBuckets, fd))
    BY <1>2, <2>2, <2>4 DEF BucketsAgree, Chained, Has, Expanding
  <2>6. Line(c, bucket.count, bucket.hh_head, hh_next, Of(Linked, b, NumBuckets, fd))
    BY <2>5 DEF Chain
  <2>7. Of(Linked, b, NumBuckets, fd) \in SUBSET Entries
    BY <2>4 DEF Of
  <2>8. hh_next \in [Entries -> Refs]
    BY DEF Types
  <2> HIDE DEF b, bucket
  <2>9. chain = c
    BY <2>6, <2>7, <2>8, AlongLine
  <2>10. DOMAIN chain = 1 .. bucket.count /\ \A n \in DOMAIN chain : chain[n] \in Of(Linked, b, NumBuckets, fd)
    BY <2>6, <2>9 DEF Line
  <2>11. \A e \in Of(Linked, b, NumBuckets, fd) : \E n \in DOMAIN chain : chain[n] = e
    BY <2>6, <2>9 DEF Line
  <2>12. Find(k) = IF matches = {} THEN NULL ELSE chain[first]
    BY <1>0, <1>2
  <2> HIDE DEF chain
  <2>13. matches \in SUBSET Nat
    BY <2>3, <2>10
  <2>14. matches # {} => first \in matches
    <3> HIDE DEF matches
    <3>1. matches # {} => \E n \in matches : \A m \in matches : n <= m
      BY <2>13, Least
    <3>2. QED
      BY <3>1 DEF first
  <2>15. Find(k) # NULL => Find(k) \in Linked /\ fd[Find(k)] = k
    BY <2>10, <2>12, <2>14 DEF Of
  <2>16. ASSUME NEW e \in Linked, fd[e] = k PROVE Find(k) # NULL
    <3>1. e \in Of(Linked, b, NumBuckets, fd)
      BY <2>16 DEF Of, b
    <3>2. matches # {}
      BY <2>11, <2>16, <3>1
    <3>3. Find(k) \in Linked /\ fd[Find(k)] = k
      BY <2>10, <2>12, <2>14, <3>2 DEF Of
    <3>4. QED
      BY <2>4, <3>3, HashAssumption
  <2>17. QED
    BY <2>15, <2>16
<1>3. QED
  BY <1>1, <1>2

-----------------------------------------------------------------------------
(* What a step leaves alone *)

\* An entry that is in a bucket of the table, by its key.
LEMMA BucketOf ==
  ASSUME Types, NEW e \in Entries, NEW n \in Nat \ {0}
  PROVE  ToBucket(e, n) \in 0 .. n - 1
<1>1. fd[e] \in Keys
  BY DEF Types
<1>2. QED
  BY <1>1, BucketInRange DEF ToBucket, Number

\* A worker in the middle of a lookup stays right where it is if its session
\* stays in its bucket and ahead of it.
LEMMA ReaderStays ==
  ASSUME ReaderAgrees, UNCHANGED readVars,
         rpc # "none" => /\ session \in pooled'
                         /\ ~expanded => ~Expanding'
                         /\ NumBuckets' = NumBuckets /\ fd'[session] = fd[session],
         rpc = "walk" /\ ~expanded /\ ~dangling /\ Ahead => Ahead'
  PROVE  ReaderAgrees'
  BY DEF ReaderAgrees, readVars, ToBucket

\* Nothing moves in the table.
LEMMA AheadStays ==
  ASSUME Ahead, UNCHANGED <<hh_next, hh_prev, session, hand>>, tbl'.buckets = tbl.buckets,
         InTable' = InTable, \A e \in InTable \cup {session} : fd'[e] = fd[e],
         mpc = "free" => mpc' = "free" /\ cur' = cur
  PROVE  Ahead'
<1>1. NumBuckets' = NumBuckets /\ ToBucket(session, NumBuckets)' = ToBucket(session, NumBuckets)
  BY DEF NumBuckets, ToBucket
<1>2. \A b, n : Of(InTable, b, n, fd') = Of(InTable, b, n, fd)
  BY DEF Of
<1>3. QED
  BY <1>1, <1>2 DEF Ahead

\* Only the keys and the links of the entries in the buckets matter to them.
LEMMA ChainedStays ==
  ASSUME NEW a, NEW n, NEW S, NEW key, NEW link, NEW back, Chained(a, n, S, key, link, back),
         NEW key2, Same(key, key2, S), NEW link2, Same(link, link2, S), NEW back2, Same(back, back2, S)
  PROVE  Chained(a, n, S, key2, link2, back2)
<1> SUFFICES ASSUME NEW b \in 0 .. n - 1
             PROVE  Has(a[b], Of(S, b, n, key2), link2, back2)
  BY DEF Chained
<1>1. Of(S, b, n, key2) = Of(S, b, n, key)
  BY DEF Of, Same
<1>2. Has(a[b], Of(S, b, n, key), link, back)
  BY DEF Chained
<1>3. Same(link, link2, Of(S, b, n, key)) /\ Same(back, back2, Of(S, b, n, key))
  BY DEF Of, Same
<1>4. QED
  BY <1>1, <1>2, <1>3, HasFrame

-----------------------------------------------------------------------------
(* Adding *)

\* HASH_MAKE_TABLE and HASH_APPEND_LIST.
LEMMA AddEntryKeeps ==
  ASSUME HashInv, NEW e \in Entries, NEW k \in Keys, AddEntry(e, k)
  PROVE  HashInv'
<1>0. /\ mpc = "idle" /\ cur = NULL /\ el = NULL /\ e \notin allocated
      /\ pooled = allocated /\ Linked = allocated /\ InTable = allocated /\ NULL \notin Entries
      /\ ~Expanding
  BY HashAssumption DEF AddEntry, HashInv, Types, MainAgrees, IterAgrees, Linked, InTable, Expanding
<1>1. /\ mpc' = "to_bucket" /\ cur' = e /\ allocated' = allocated \cup {e}
      /\ fd' = [fd EXCEPT ![e] = k]
      /\ UNCHANGED <<hh_next, hh_prev, buckets_freed, expansion, el, tmp, shared, pooled>>
      /\ UNCHANGED readVars
  BY DEF AddEntry, iterVars
<1>2. Linked' = allocated \cup {e} /\ InTable' = allocated /\ ~Expanding'
  BY <1>0, <1>1 DEF Linked, InTable, Expanding
<1>3. PICK n \in Nat : \E c \in [1 .. n -> Linked] :
        /\ Chain(c, n, head, next, prev, Linked)
        /\ n > 0 => tbl.tail = c[n] /\ tbl.num_items = n
  BY <1>0 DEF HashInv, ListAgrees
<1>4. PICK c \in [1 .. n -> Linked] :
        /\ Chain(c, n, head, next, prev, Linked)
        /\ n > 0 => tbl.tail = c[n] /\ tbl.num_items = n
  BY <1>3
<1>5. /\ allocated \in SUBSET Entries /\ \A i \in 1 .. n : c[i] \in allocated
      /\ next \in [Entries -> Refs] /\ prev \in [Entries -> Refs]
      /\ next[e] = NULL /\ prev[e] = NULL
  BY <1>0, <1>4 DEF HashInv, Types, MainAgrees
<1>6. n = 0 <=> head = NULL
  BY <1>0, <1>4, <1>5 DEF Chain, Line
<1>7. n # 0 => n \in 1 .. n /\ tbl.tail = c[n] /\ tbl.tail \in allocated
  BY <1>4, <1>5
<1>8. MainAgrees'
  <2>1. \A f \in Entries \ (allocated \cup {e}) : next'[f] = NULL /\ prev'[f] = NULL
    BY <1>0, <1>5, <1>6, <1>7 DEF AddEntry, HashInv, MainAgrees
  <2>3. pooled' = allocated' \ {cur'}
    BY <1>0, <1>1
  <2>4. QED
    BY <1>0, <1>1, <2>1, <2>3 DEF MainAgrees
<1>9. IterAgrees'
  BY <1>0, <1>1 DEF IterAgrees, IterIsFirst
<1>10. CASE head = NULL
  <2>1. /\ head' = e /\ UNCHANGED <<next, prev>>
        /\ tbl' = [num_items |-> 0, tail |-> e, buckets |-> EmptyBuckets(InitialBuckets),
                   ineff_expands |-> 0, noexpand |-> FALSE]
    BY <1>10 DEF AddEntry, NewTable
  <2>2. allocated = {}
    BY <1>4, <1>6, <1>10, <1>0 DEF Chain, Line
  <2>3. /\ InitialBuckets \in Nat \ {0} /\ NumBuckets' = InitialBuckets
        /\ IsArray(tbl'.buckets, NumBuckets')
    BY <2>1, HashAssumption, EmptyArray, ArraySize DEF NumBuckets
  <2>4. Types'
    BY <1>0, <1>1, <1>2, <1>5, <2>1, <2>3 DEF HashInv, Types, Places, Refs, readVars
  <2>5. ListAgrees'
    <3> DEFINE d == [i \in 1 .. 1 |-> e]
    <3>1. Chain(d, 1, e, next', prev', {e})
      BY <1>5, <2>1, ChainOfOne
    <3>2. d \in [1 .. 1 -> {e}] /\ d[1] = e
      OBVIOUS
    <3>3. Linked' = {e} /\ tbl'.tail = e /\ tbl'.num_items = 1 - 1 /\ head' = e
      BY <1>2, <2>1, <2>2
    <3> HIDE DEF d
    <3>4. QED
      BY <1>1, <3>1, <3>2, <3>3 DEF ListAgrees
  <2>6. BucketsAgree'
    BY <1>2, <2>1, <2>2, <2>3, NothingChained DEF BucketsAgree
  <2>7. ReaderAgrees'
    <3>1. rpc = "none"
      BY <1>0, <2>2 DEF HashInv, ReaderAgrees
    <3>2. QED
      BY <1>1, <3>1, ReaderStays DEF HashInv
  <2>8. QED
    BY <1>8, <1>9, <2>4, <2>5, <2>6, <2>7 DEF HashInv
<1>11. CASE head # NULL
  <2>1. /\ prev' = [prev EXCEPT ![e] = tbl.tail] /\ next' = [next EXCEPT ![tbl.tail] = e]
        /\ tbl' = [tbl EXCEPT !.tail = e] /\ head' = head
    BY <1>11 DEF AddEntry
  <2>2. /\ tbl'.buckets = tbl.buckets /\ NumBuckets' = NumBuckets /\ tbl'.tail = e
        /\ tbl'.num_items = tbl.num_items /\ DOMAIN tbl' = DOMAIN tbl
    BY <2>1 DEF HashInv, Types, NumBuckets
  <2>3. Types'
    <3>1. next' \in [Entries -> Refs] /\ prev' \in [Entries -> Refs]
      BY <1>5, <1>6, <1>7, <1>11, <2>1 DEF Refs
    <3>2. QED
      BY <1>0, <1>1, <1>2, <1>5, <2>1, <2>2, <3>1 DEF HashInv, Types, Places, Refs, readVars
  <2>4. ListAgrees'
    <3> DEFINE d == Behind(c, n, e)
    <3>1. Chain(d, n + 1, head, next', prev', allocated \cup {e})
      BY <1>0, <1>4, <1>5, <1>6, <1>7, <1>11, <2>1, ChainBehind
    <3>2. d \in [1 .. n + 1 -> Linked'] /\ d[n + 1] = e
      BY <1>2, <3>1 DEF Chain, Line, Behind
    <3>3. n + 1 \in Nat /\ n > 0 /\ (n + 1) - 1 = n
      BY <1>6, <1>11
    <3> HIDE DEF d
    <3>4. QED
      BY <1>1, <1>2, <1>4, <2>1, <2>2, <3>1, <3>2, <3>3 DEF ListAgrees
  <2>5. \A f \in allocated : fd'[f] = fd[f]
    BY <1>0, <1>1 DEF HashInv, Types
  <2>6. BucketsAgree'
    <3>1. Chained(tbl.buckets, NumBuckets, allocated, fd, hh_next, hh_prev)
      BY <1>0, <1>11 DEF HashInv, BucketsAgree
    <3>2. /\ Same(fd, fd', allocated)
          /\ Same(hh_next, hh_next', allocated) /\ Same(hh_prev, hh_prev', allocated)
      BY <1>1, <2>5 DEF Same
    <3>3. Chained(tbl.buckets, NumBuckets, allocated, fd', hh_next', hh_prev')
      BY <3>1, <3>2, ChainedStays
    <3>4. QED
      BY <1>1, <1>2, <2>2, <3>3 DEF BucketsAgree
  <2>7. ReaderAgrees'
    <3>1. rpc # "none" => session \in allocated
      BY <1>0 DEF HashInv, ReaderAgrees
    <3>2. rpc = "walk" /\ Ahead => Ahead'
      BY <1>0, <1>1, <1>2, <2>2, <2>5, <3>1, AheadStays DEF readVars
    <3>3. QED
      BY <1>0, <1>1, <1>2, <2>2, <2>5, <3>1, <3>2, ReaderStays DEF HashInv
  <2>8. QED
    BY <1>8, <1>9, <2>3, <2>4, <2>6, <2>7 DEF HashInv
<1>12. QED
  BY <1>10, <1>11

\* Two arrays that differ in one bucket at most.
Elsewhere(a, a2, n, b) == \A d \in 0 .. n - 1 : d # b => a2[d] = a[d]

\* The links of S that a change in bucket b leaves alone.
SameElsewhere(S, n, b, key, link, back, link2, back2) ==
  \A d \in 0 .. n - 1 : d # b =>
    Same(link, link2, Of(S, d, n, key)) /\ Same(back, back2, Of(S, d, n, key))

\* An entry goes to the front of its bucket.
LEMMA ChainedBefore ==
  ASSUME NEW S \in SUBSET Entries, NEW link \in [Entries -> Refs], NEW back \in [Entries -> Refs],
         NEW key \in [Entries -> Keys], NEW n, NEW a, IsArray(a, n),
         Chained(a, n, S, key, link, back),
         NEW e \in Entries \ S, NEW b, e \in Of(Entries, b, n, key),
         NEW a2, a2[b].hh_head = e, a2[b].count = a[b].count + 1,
         Elsewhere(a, a2, n, b),
         NEW link2, link2 = [link EXCEPT ![e] = a[b].hh_head],
         NEW back2, back2 = Store([back EXCEPT ![e] = NULL], a[b].hh_head, e),
         NEW S2, S2 = S \cup {e}
  PROVE  /\ Chained(a2, n, S2, key, link2, back2)
         /\ SameElsewhere(S, n, b, key, link, back, link2, back2)
<1> DEFINE back1 == [back EXCEPT ![e] = NULL]
           first == a[b].hh_head
<1>1. n \in Nat \ {0} /\ b \in 0 .. n - 1
  <2>1. n \in Nat \ {0} /\ key[e] \in Keys /\ b = Number(key[e], n)
    BY DEF IsArray, Of
  <2>2. QED
    BY <2>1, BucketInRange
<1>2. a[b] \in Bucket /\ first \in Refs
  BY <1>1 DEF IsArray, Bucket
<1>3. Has(a[b], Of(S, b, n, key), link, back)
  BY <1>1 DEF Chained
<1>4. first # NULL => first \in Of(S, b, n, key)
  BY <1>2, <1>3, HasFirst
<1>5. /\ Of(S, b, n, key) \in SUBSET Entries /\ e \in Entries \ Of(S, b, n, key)
      /\ Of(S2, b, n, key) = Of(S, b, n, key) \cup {e}
  BY DEF Of
<1>6. Has(a2[b], Of(S2, b, n, key), link2, back2)
  BY <1>2, <1>3, <1>5, HasBefore
<1>7. \A f \in S : link2[f] = link[f] /\ (f # first => back2[f] = back[f])
  <2>1. \A f \in S : f # e /\ back1[f] = back[f]
    OBVIOUS
  <2>2. CASE first = NULL
    BY <2>1, <2>2 DEF Store
  <2>3. CASE first # NULL
    BY <1>2, <2>1, <2>3 DEF Store, Refs
  <2>4. QED
    BY <2>1, <2>2, <2>3
<1>8. ASSUME NEW d \in 0 .. n - 1, d # b
      PROVE  /\ Same(link, link2, Of(S, d, n, key)) /\ Same(back, back2, Of(S, d, n, key))
             /\ Has(a2[d], Of(S2, d, n, key), link2, back2)
  <2>1. Of(S2, d, n, key) = Of(S, d, n, key)
    BY <1>8 DEF Of
  <2>2. Has(a[d], Of(S, d, n, key), link, back)
    BY DEF Chained
  <2>3. \A f \in Of(S, d, n, key) : f \in S /\ f # first
    BY <1>4, <1>8, HashAssumption DEF Of
  <2>4. Same(link, link2, Of(S, d, n, key)) /\ Same(back, back2, Of(S, d, n, key))
    BY <1>7, <2>3 DEF Same
  <2>5. Has(a[d], Of(S, d, n, key), link2, back2)
    BY <2>2, <2>4, HasFrame
  <2>6. QED
    BY <1>8, <2>1, <2>4, <2>5 DEF Elsewhere
<1>9. QED
  BY <1>6, <1>8 DEF Chained, SameElsewhere

\* The links of the entry and of the first one are changed and stay references.
LEMMA LinkBeforeTypes ==
  ASSUME Types, NEW e \in Entries, NEW first \in Refs, LinkBefore(e, first)
  PROVE  hh_next' \in [Entries -> Refs] /\ hh_prev' \in [Entries -> Refs]
<1>1. hh_next' \in [Entries -> Refs]
  BY DEF LinkBefore, Types
<1>2. [hh_prev EXCEPT ![e] = NULL] \in [Entries -> Refs]
  BY DEF Types, Refs
<1>3. hh_prev' \in [Entries -> Refs]
  BY <1>2 DEF LinkBefore, Store, Refs
<1>4. QED
  BY <1>1, <1>3

\* HASH_ADD_TO_TABLE.
LEMMA AddToBucketKeeps ==
  ASSUME HashInv, AddToBucket
  PROVE  HashInv'
<1> DEFINE n == NumBuckets
           b == ToBucket(cur, n)
           first == tbl.buckets[b].hh_head
           S == allocated \ {cur}
<1>0. /\ mpc = "to_bucket" /\ cur \in allocated /\ el = NULL /\ cur \in Entries
      /\ Linked = allocated /\ InTable = S /\ NULL \notin Entries /\ ~Expanding
      /\ IsArray(tbl.buckets, n) /\ S \in SUBSET Entries
      /\ hh_next \in [Entries -> Refs] /\ hh_prev \in [Entries -> Refs] /\ fd \in [Entries -> Keys]
      /\ DOMAIN tbl = {"num_items", "tail", "buckets", "ineff_expands", "noexpand"}
  BY HashAssumption DEF AddToBucket, HashInv, Types, MainAgrees, IterAgrees, Linked, InTable, Expanding
<1>1. /\ LinkBefore(cur, first) /\ mpc' \in {"expand", "pool_add"}
      /\ tbl' = [tbl EXCEPT !.num_items = @ + 1,
                            !.buckets[b].hh_head = cur, !.buckets[b].count = @ + 1]
      /\ UNCHANGED <<head, next, prev, allocated, fd, buckets_freed, expansion, el, tmp, cur, pooled>>
      /\ UNCHANGED readVars
  BY DEF AddToBucket, listVars, iterVars
<1>2. Linked' = allocated /\ InTable' = allocated /\ ~Expanding' /\ S \cup {cur} = allocated
  BY <1>0, <1>1 DEF Linked, InTable, Expanding
<1>3. n \in Nat \ {0} /\ b \in 0 .. n - 1
  BY <1>0, BucketOf DEF HashInv, IsArray
<1> HIDE DEF n, b
<1>4. /\ DOMAIN tbl' = DOMAIN tbl /\ tbl'.num_items = tbl.num_items + 1 /\ tbl'.tail = tbl.tail
      /\ tbl'.buckets = [tbl.buckets EXCEPT ![b].hh_head = cur, ![b].count = @ + 1]
  BY <1>0, <1>1
<1>5. /\ tbl'.buckets \in [0 .. n - 1 -> Bucket]
      /\ tbl'.buckets[b].hh_head = cur /\ tbl'.buckets[b].count = tbl.buckets[b].count + 1
      /\ Elsewhere(tbl.buckets, tbl'.buckets, n, b)
  BY <1>0, <1>3, <1>4 DEF IsArray, Bucket, Refs, Elsewhere
<1>6. IsArray(tbl'.buckets, n) /\ NumBuckets' = n
  BY <1>3, <1>5, ArraySize DEF IsArray, NumBuckets
<1>7. head # NULL
  BY <1>0, HeadIsNull DEF HashInv
<1>8. Chained(tbl.buckets, n, S, fd, hh_next, hh_prev)
  BY <1>0, <1>7 DEF HashInv, BucketsAgree, n
<1>9. /\ first \in Refs /\ Chained(tbl'.buckets, n, allocated, fd', hh_next', hh_prev')
      /\ SameElsewhere(S, n, b, fd, hh_next, hh_prev, hh_next', hh_prev')
  <2>1. cur \in Of(Entries, b, n, fd) /\ cur \in Entries \ S
    BY <1>0 DEF b, ToBucket, Number, Of
  <2>2. hh_next' = [hh_next EXCEPT ![cur] = first]
    BY <1>1 DEF LinkBefore
  <2>3. hh_prev' = Store([hh_prev EXCEPT ![cur] = NULL], first, cur)
    BY <1>1 DEF LinkBefore
  <2>4. first \in Refs
    BY <1>0, <1>3 DEF IsArray, Bucket
  <2>5. /\ IsArray(tbl.buckets, n) /\ S \in SUBSET Entries /\ fd \in [Entries -> Keys]
        /\ hh_next \in [Entries -> Refs] /\ hh_prev \in [Entries -> Refs]
        /\ allocated = S \cup {cur}
    BY <1>0, <1>2
  <2>6. /\ tbl'.buckets[b].hh_head = cur /\ tbl'.buckets[b].count = tbl.buckets[b].count + 1
        /\ Elsewhere(tbl.buckets, tbl'.buckets, n, b)
    BY <1>5
  <2> HIDE DEF S
  <2>7. /\ Chained(tbl'.buckets, n, allocated, fd, hh_next', hh_prev')
        /\ SameElsewhere(S, n, b, fd, hh_next, hh_prev, hh_next', hh_prev')
    BY <1>8, <2>1, <2>2, <2>3, <2>5, <2>6, ChainedBefore
  <2>8. fd' = fd
    BY <1>1
  <2>9. QED
    BY <2>4, <2>7, <2>8
<1>10. Types'
  <2>1. hh_next' \in [Entries -> Refs] /\ hh_prev' \in [Entries -> Refs]
    BY <1>0, <1>1, <1>9, LinkBeforeTypes DEF HashInv
  <2>2. QED
    BY <1>1, <1>2, <1>4, <1>6, <2>1 DEF HashInv, Types, Places, readVars
<1>11. MainAgrees'
  BY <1>0, <1>1 DEF HashInv, MainAgrees
<1>12. ListAgrees'
  <2>1. PICK m \in Nat : \E c \in [1 .. m -> Linked] :
          /\ Chain(c, m, head, next, prev, Linked)
          /\ m > 0 => tbl.tail = c[m] /\ tbl.num_items = m - 1
    BY <1>0 DEF HashInv, ListAgrees
  <2>2. PICK c \in [1 .. m -> Linked] :
          /\ Chain(c, m, head, next, prev, Linked)
          /\ m > 0 => tbl.tail = c[m] /\ tbl.num_items = m - 1
    BY <2>1
  <2>3. m > 0 => tbl'.tail = c[m] /\ tbl'.num_items = m - 0
    BY <1>4, <2>1, <2>2
  <2>4. QED
    BY <1>0, <1>1, <1>2, <2>2, <2>3 DEF ListAgrees
<1>13. BucketsAgree'
  BY <1>2, <1>6, <1>9 DEF BucketsAgree
<1>14. IterAgrees'
  BY <1>0, <1>1 DEF HashInv, IterAgrees, IterIsFirst, Distinct
<1>15. ReaderAgrees'
  <2>1. ASSUME rpc = "walk", Ahead PROVE Ahead'
    <3> DEFINE s == ToBucket(session, n)
               T == Of(S, s, n, fd)
               T2 == Of(allocated, s, n, fd)
    <3>1. session \in S /\ session \in Entries
      BY <1>0, <2>1 DEF HashInv, ReaderAgrees, MainAgrees
    <3>2. s \in 0 .. n - 1
      BY <1>3, <3>1, BucketOf DEF HashInv
    <3>3. Leads(tbl.buckets[s], T, hh_next, hh_prev, hand, session)
      BY <1>0, <2>1 DEF Ahead, n
    <3>4. /\ UNCHANGED <<session, hand>>
          /\ ToBucket(session, NumBuckets)' = s /\ Of(InTable', s, n, fd') = T2
      BY <1>1, <1>2, <1>6 DEF ToBucket, readVars
    <3> SUFFICES Leads(tbl'.buckets[s], T2, hh_next', hh_prev', hand, session)
      BY <1>6, <3>4 DEF Ahead
    <3>5. CASE s = b
      <4>1. T2 = T \cup {cur} /\ cur \in Entries \ T /\ T \in SUBSET Entries /\ tbl.buckets[s] \in Bucket
        BY <1>0, <3>2, <3>5 DEF Of, b, ToBucket, Number, IsArray
      <4>2. /\ hh_next' = [hh_next EXCEPT ![cur] = first]
            /\ hh_prev' = Store([hh_prev EXCEPT ![cur] = NULL], first, cur)
            /\ hh_next \in [Entries -> Refs] /\ hh_prev \in [Entries -> Refs]
        BY <1>0, <1>1 DEF LinkBefore
      <4> HIDE DEF s, T, T2
      <4>3. QED
        BY <1>5, <3>3, <3>5, <4>1, <4>2, LeadsBefore
    <3>6. CASE s # b
      <4>1. tbl'.buckets[s] = tbl.buckets[s] /\ T2 = T
        BY <1>0, <1>5, <3>2, <3>6 DEF Of, b, ToBucket, Number, Elsewhere
      <4>2. Same(hh_next, hh_next', T) /\ Same(hh_prev, hh_prev', T)
        BY <1>9, <3>2, <3>6 DEF SameElsewhere
      <4> HIDE DEF s, T, T2
      <4>3. QED
        BY <3>3, <4>1, <4>2, LeadsFrame
    <3>7. QED
      BY <3>5, <3>6
  <2>2. rpc # "none" => session \in pooled'
    BY <1>1 DEF HashInv, ReaderAgrees
  <2>3. QED
    BY <1>1, <1>2, <1>6, <2>1, <2>2, ReaderStays DEF HashInv, n
<1>16. QED
  BY <1>10, <1>11, <1>12, <1>13, <1>14, <1>15 DEF HashInv

-----------------------------------------------------------------------------
(* Expanding *)

\* What a bucket has is on a line.
LEMMA LineOfChain ==
  ASSUME NEW bucket \in Bucket, NEW S, NEW link, NEW back, Has(bucket, S, link, back)
  PROVE  HasLine(S, bucket.hh_head, link)
  BY DEF Has, Chain, HasLine, Bucket

\* Only the links of its own entries matter to a line.
LEMMA HasLineFrame ==
  ASSUME NEW S, NEW first, NEW link, HasLine(S, first, link), NEW link2, Same(link, link2, S)
  PROVE  HasLine(S, first, link2)
  BY LineFrame DEF HasLine, Same

\* Nothing is on a line to nowhere.
LEMMA NoLine ==
  ASSUME NEW S \in SUBSET Entries, NEW link
  PROVE  HasLine(S, NULL, link) <=> S = {}
<1>1. ASSUME HasLine(S, NULL, link) PROVE S = {}
  <2>1. PICK n \in Nat : \E c \in [1 .. n -> S] : Line(c, n, NULL, link, S)
    BY <1>1 DEF HasLine
  <2>2. PICK c \in [1 .. n -> S] : Line(c, n, NULL, link, S)
    BY <2>1
  <2>3. \A i \in 1 .. n : c[i] # NULL
    BY HashAssumption
  <2>4. n = 0
    BY <2>2, <2>3 DEF Line
  <2>5. QED
    BY <2>2, <2>4 DEF Line
<1>2. ASSUME S = {} PROVE HasLine(S, NULL, link)
  <2>1. Line([i \in 1 .. 0 |-> NULL], 0, NULL, link, {})
    BY EmptyChain DEF Chain
  <2>2. [i \in 1 .. 0 |-> NULL] \in [1 .. 0 -> S] /\ 0 \in Nat
    OBVIOUS
  <2>3. QED
    BY <1>2, <2>1, <2>2 DEF HasLine
<1>3. QED
  BY <1>1, <1>2

\* A line without its first entry.
After(c, n) == [i \in 1 .. n - 1 |-> c[i + 1]]

\* A line goes on behind its first entry with all the others.
LEMMA LineOn ==
  ASSUME NEW S \in SUBSET Entries, NEW e, e # NULL, NEW link, HasLine(S, e, link)
  PROVE  e \in S /\ HasLine(S \ {e}, link[e], link)
<1>1. PICK n \in Nat : \E c \in [1 .. n -> S] : Line(c, n, e, link, S)
  BY DEF HasLine
<1>2. PICK c \in [1 .. n -> S] : Line(c, n, e, link, S)
  BY <1>1
<1>3. /\ n # 0 /\ e = c[1] /\ n - 1 \in Nat /\ 1 \in 1 .. n
      /\ \A i, j \in 1 .. n : c[i] = c[j] => i = j
      /\ \A f \in S : \E i \in 1 .. n : c[i] = f
      /\ \A i \in 1 .. n : link[c[i]] = IF i = n THEN NULL ELSE c[i + 1]
  BY <1>2 DEF Line
<1> DEFINE d == After(c, n)
<1>4. \A i \in 1 .. n - 1 : i + 1 \in 1 .. n /\ i + 1 # 1 /\ d[i] = c[i + 1] /\ c[i + 1] \in S
  BY DEF After
<1>5. d \in [1 .. n - 1 -> S \ {e}]
  BY <1>3, <1>4 DEF After
<1>6. \A i, j \in 1 .. n - 1 : d[i] = d[j] => i = j
  BY <1>3, <1>4
<1>7. \A f \in S \ {e} : \E i \in 1 .. n - 1 : d[i] = f
  <2> SUFFICES ASSUME NEW f \in S \ {e} PROVE \E i \in 1 .. n - 1 : d[i] = f
    OBVIOUS
  <2>1. PICK i \in 1 .. n : c[i] = f
    BY <1>3
  <2>2. i - 1 \in 1 .. n - 1 /\ (i - 1) + 1 = i
    BY <1>3, <2>1
  <2>3. QED
    BY <1>4, <2>1, <2>2
<1>8. link[e] = IF n - 1 = 0 THEN NULL ELSE d[1]
  <2>1. CASE n = 1
    BY <1>3, <2>1
  <2>2. CASE n # 1
    BY <1>3, <1>4, <2>2
  <2>3. QED
    BY <2>1, <2>2
<1>9. \A i \in 1 .. n - 1 : link[d[i]] = IF i = n - 1 THEN NULL ELSE d[i + 1]
  <2> SUFFICES ASSUME NEW i \in 1 .. n - 1
               PROVE  link[d[i]] = IF i = n - 1 THEN NULL ELSE d[i + 1]
    OBVIOUS
  <2>1. link[d[i]] = IF i + 1 = n THEN NULL ELSE c[(i + 1) + 1]
    BY <1>3, <1>4
  <2>2. CASE i = n - 1
    BY <2>1, <2>2
  <2>3. CASE i # n - 1
    <3>1. i + 1 \in 1 .. n - 1 /\ i + 1 # n
      BY <2>3
    <3>2. QED
      BY <1>4, <2>1, <2>3, <3>1
  <2>4. QED
    BY <2>2, <2>3
<1> HIDE DEF d
<1>10. Line(d, n - 1, link[e], link, S \ {e})
  BY <1>3, <1>5, <1>6, <1>7, <1>8, <1>9 DEF Line
<1>11. QED
  BY <1>3, <1>5, <1>10 DEF HasLine

\* HASH_EXPAND_BUCKETS begins.
LEMMA ExpandBeginsKeeps ==
  ASSUME HashInv, ExpandBegins
  PROVE  HashInv'
<1> DEFINE n == NumBuckets
           x == expansion'
<1>0. /\ mpc = "expand" /\ cur \in allocated /\ el = NULL /\ ~Expanding
      /\ Linked = allocated /\ InTable = allocated /\ IsArray(tbl.buckets, n) /\ n \in Nat \ {0}
      /\ allocated \in SUBSET Entries
  BY DEF ExpandBegins, HashInv, Types, MainAgrees, IterAgrees, Linked, InTable, Expanding, IsArray
<1>1. /\ x.item = FirstItem(0).item /\ x.from = FirstItem(0).from
      /\ x.buckets = EmptyBuckets(2 * n)
      /\ mpc' = "move" /\ expanded' = (rpc # "none")
      /\ UNCHANGED <<head, next, prev, hh_next, hh_prev, tbl, allocated, fd, el, tmp, cur, pooled>>
      /\ UNCHANGED <<rpc, session, hand, bkt, dangling>>
  BY DEF ExpandBegins, listVars, iterVars
<1>2. Linked' = allocated /\ Expanding' /\ NumBuckets' = n
  BY <1>0, <1>1 DEF Linked, Expanding, NumBuckets
<1> HIDE DEF n, x
<1>3. 2 * n \in Nat \ {0}
  BY <1>0
<1>4. IsArray(x.buckets, 2 * n)
  BY <1>1, <1>3, EmptyArray
<1>5. /\ x.item \in Refs /\ x.from \in Nat
      /\ x.item # NULL => /\ x.from \in 0 .. n - 1
                          /\ x.item = tbl.buckets[x.from].hh_head
                          /\ \A d \in 0 .. x.from - 1 : tbl.buckets[d].hh_head = NULL
      /\ x.item = NULL => \A d \in 0 .. n - 1 : tbl.buckets[d].hh_head = NULL
  BY <1>0, <1>1, FirstItemProperties DEF n
<1>6. Types'
  BY <1>0, <1>1, <1>2, <1>4, <1>5 DEF HashInv, Types, Places, Refs, x
<1>7. MainAgrees'
  BY <1>0, <1>1 DEF HashInv, MainAgrees
<1>8. ListAgrees'
  BY <1>0, <1>1, <1>2 DEF HashInv, ListAgrees
<1>9. IterAgrees'
  BY <1>0, <1>1 DEF HashInv, IterAgrees, IterIsFirst, Distinct
<1>10. ReaderAgrees'
  <2>1. NumBuckets' = NumBuckets /\ ReaderAgrees /\ (rpc # "none" => expanded') /\ pooled' = pooled
    BY <1>1, <1>2 DEF HashInv, n
  <2>2. rpc' = rpc /\ session' = session /\ hand' = hand /\ bkt' = bkt
    BY <1>1
  <2>3. QED
    BY <2>1, <2>2 DEF ReaderAgrees
<1>11. BucketsAgree'
  <2>1. head # NULL
    BY <1>0, HeadIsNull DEF HashInv
  <2>2. Chained(tbl.buckets, n, allocated, fd, hh_next, hh_prev)
    BY <1>0, <2>1 DEF HashInv, BucketsAgree, n
  <2>3. ASSUME NEW b \in 0 .. n - 1
        PROVE  HasLine(Of(allocated, b, n, fd), FirstLeft(x, tbl.buckets, b), hh_next)
    <3>1. Has(tbl.buckets[b], Of(allocated, b, n, fd), hh_next, hh_prev)
      BY <2>2 DEF Chained
    <3>2. tbl.buckets[b] \in Bucket
      BY <1>0 DEF IsArray
    <3>3. FirstLeft(x, tbl.buckets, b) = tbl.buckets[b].hh_head
      BY <1>0, <1>5 DEF FirstLeft
    <3>4. QED
      BY <3>1, <3>2, <3>3, LineOfChain
  <2>4. Unmoved(allocated \ {}, x, tbl.buckets, n, fd, hh_next)
    BY <2>3 DEF Unmoved
  <2>5. Chained(x.buckets, 2 * n, {}, fd, hh_next, hh_prev)
    BY <1>1, <1>3, NothingChained
  <2>6. x.item # NULL => x.from < n
    BY <1>0, <1>5
  <2>7. {} \in SUBSET allocated' /\ mpc' # "swap"
    BY <1>1
  <2>8. /\ Unmoved(allocated' \ {}, expansion', tbl'.buckets, NumBuckets', fd', hh_next')
        /\ Chained(expansion'.buckets, 2 * NumBuckets', {}, fd', hh_next', hh_prev')
        /\ expansion'.item # NULL => expansion'.from < NumBuckets'
    BY <1>1, <1>2, <2>4, <2>5, <2>6 DEF x
  <2>9. QED
    BY <1>2, <2>7, <2>8 DEF BucketsAgree
<1>12. QED
  BY <1>6, <1>7, <1>8, <1>9, <1>10, <1>11 DEF HashInv

\* Where the expansion goes on after it has moved its item.
LEMMA NextItem ==
  ASSUME NEW n, NEW a, n = NumBuckets, a = tbl.buckets, IsArray(a, n),
         NEW x, x.item # NULL, x.from \in 0 .. n - 1, NEW second \in Refs,
         NEW x2, x2.item = (IF second = NULL THEN FirstItem(x.from + 1).item ELSE second),
         x2.from = IF second = NULL THEN FirstItem(x.from + 1).from ELSE x.from
  PROVE  /\ x2.item \in Refs /\ x2.from \in Nat
         /\ x2.item # NULL => x2.from < n
         /\ \A d \in 0 .. n - 1 :
              FirstLeft(x2, a, d) = IF d = x.from THEN second ELSE FirstLeft(x, a, d)
<1>1. n \in Nat /\ x.from \in Nat /\ x.from < n /\ x.from + 1 \in Nat
  BY DEF IsArray
<1>2. CASE second # NULL
  BY <1>1, <1>2 DEF FirstLeft
<1>3. CASE second = NULL
  <2>1. /\ x2.item \in Refs /\ x2.from \in Nat
        /\ x2.item # NULL => /\ x2.from \in x.from + 1 .. n - 1
                             /\ x2.item = a[x2.from].hh_head
                             /\ \A d \in x.from + 1 .. x2.from - 1 : a[d].hh_head = NULL
        /\ x2.item = NULL => \A d \in x.from + 1 .. n - 1 : a[d].hh_head = NULL
    BY <1>1, <1>3, FirstItemProperties
  <2>2. ASSUME NEW d \in 0 .. n - 1
        PROVE  FirstLeft(x2, a, d) = IF d = x.from THEN second ELSE FirstLeft(x, a, d)
    <3>1. CASE d <= x.from
      BY <1>1, <1>3, <2>1, <3>1 DEF FirstLeft
    <3>2. CASE d > x.from
      <4>1. FirstLeft(x, a, d) = a[d].hh_head
        BY <1>1, <3>2 DEF FirstLeft
      <4>2. CASE x2.item = NULL
        BY <1>1, <2>1, <3>2, <4>1, <4>2 DEF FirstLeft
      <4>3. CASE x2.item # NULL
        BY <1>1, <2>1, <3>2, <4>1, <4>3 DEF FirstLeft
      <4>4. QED
        BY <4>2, <4>3
    <3>3. QED
      BY <1>1, <3>1, <3>2
  <2>3. QED
    BY <1>1, <2>1, <2>2
<1>4. QED
  BY <1>2, <1>3

\* Less is left to move.
LEMMA UnmovedOn ==
  ASSUME NEW U \in SUBSET Entries, NEW n, NEW a, IsArray(a, n), NEW key, NEW link,
         NEW x, Unmoved(U, x, a, n, key, link), x.item # NULL, x.from \in 0 .. n - 1,
         NEW x2, \A d \in 0 .. n - 1 :
           FirstLeft(x2, a, d) = IF d = x.from THEN link[x.item] ELSE FirstLeft(x, a, d),
         NEW link2, Same(link, link2, U \ {x.item}),
         NEW U2, U2 = U \ {x.item}
  PROVE  x.item \in U /\ Unmoved(U2, x2, a, n, key, link2)
<1> DEFINE e == x.item
<1>1. FirstLeft(x, a, x.from) = e /\ n \in Nat
  BY DEF FirstLeft, IsArray
<1>2. /\ e \in Of(U, x.from, n, key)
      /\ HasLine(Of(U, x.from, n, key) \ {e}, link[e], link)
  <2>1. HasLine(Of(U, x.from, n, key), e, link) /\ Of(U, x.from, n, key) \in SUBSET Entries
    BY <1>1 DEF Unmoved, Of
  <2>2. QED
    BY <2>1, LineOn
<1>3. e \in U /\ Number(key[e], n) = x.from
  BY <1>2 DEF Of
<1>4. ASSUME NEW d \in 0 .. n - 1
      PROVE  HasLine(Of(U2, d, n, key), FirstLeft(x2, a, d), link2)
  <2>1. Same(link, link2, Of(U2, d, n, key))
    BY DEF Same, Of
  <2>2. HasLine(Of(U2, d, n, key), FirstLeft(x2, a, d), link)
    <3>1. CASE d = x.from
      <4>1. Of(U2, d, n, key) = Of(U, x.from, n, key) \ {e}
        BY <3>1 DEF Of
      <4>2. QED
        BY <1>2, <3>1, <4>1
    <3>2. CASE d # x.from
      <4>1. Of(U2, d, n, key) = Of(U, d, n, key)
        BY <1>3, <3>2 DEF Of
      <4>2. HasLine(Of(U, d, n, key), FirstLeft(x, a, d), link)
        BY DEF Unmoved
      <4>3. QED
        BY <3>2, <4>1, <4>2
    <3>3. QED
      BY <3>1, <3>2
  <2>3. QED
    BY <2>1, <2>2, HasLineFrame
<1>5. QED
  BY <1>3, <1>4 DEF Unmoved

\* One round of HASH_EXPAND_BUCKETS.
LEMMA MoveItemKeeps ==
  ASSUME HashInv, MoveItem
  PROVE  HashInv'
<1> DEFINE n == NumBuckets
           a == tbl.buckets
           x == expansion
           x2 == expansion'
           e == x.item
           b == ToBucket(e, 2 * n)
           first == x.buckets[b].hh_head
<1>0. /\ mpc = "move" /\ cur \in allocated /\ el = NULL /\ Expanding /\ e # NULL
      /\ Linked = allocated /\ IsArray(a, n) /\ n \in Nat \ {0} /\ allocated \in SUBSET Entries
      /\ IsArray(x.buckets, 2 * n) /\ e \in Entries
      /\ hh_next \in [Entries -> Refs] /\ hh_prev \in [Entries -> Refs] /\ fd \in [Entries -> Keys]
  BY DEF MoveItem, HashInv, Types, MainAgrees, IterAgrees, Linked, Expanding, IsArray, Refs
<1>1. PICK moved \in SUBSET allocated :
        /\ Chained(x.buckets, 2 * n, moved, fd, hh_next, hh_prev)
        /\ Unmoved(allocated \ moved, x, a, n, fd, hh_next)
        /\ x.item # NULL => x.from < n
  BY <1>0 DEF HashInv, BucketsAgree
<1>2. /\ LinkBefore(e, first) /\ mpc' = "move"
      /\ UNCHANGED <<head, next, prev, tbl, allocated, fd, el, tmp, cur, pooled>>
      /\ UNCHANGED readVars
  BY <1>0 DEF MoveItem, listVars, iterVars
<1>3. /\ x2.item = IF hh_next[e] = NULL THEN FirstItem(x.from + 1).item ELSE hh_next[e]
      /\ x2.from = IF hh_next[e] = NULL THEN FirstItem(x.from + 1).from ELSE x.from
      /\ \E late \in Nat : x2.buckets =
           [x.buckets EXCEPT ![b] = [hh_head |-> e, count |-> x.buckets[b].count + 1,
                                     expand_mult |-> x.buckets[b].expand_mult + late]]
  BY <1>0 DEF MoveItem
<1>4. Linked' = allocated /\ Expanding' /\ NumBuckets' = n
  BY <1>0, <1>2 DEF Linked, Expanding, NumBuckets
<1> DEFINE m == 2 * n
<1>5. m \in Nat \ {0} /\ b \in 0 .. m - 1 /\ x.from \in 0 .. n - 1 /\ hh_next[e] \in Refs
  <2>1. m \in Nat \ {0}
    BY <1>0
  <2>2. x.from \in Nat
    BY DEF HashInv, Types
  <2>3. QED
    BY <1>0, <1>1, <2>1, <2>2, BucketOf DEF HashInv
<1> HIDE DEF n, a, x, x2, e, b, m
<1>6. /\ IsArray(x2.buckets, m)
      /\ x2.buckets[b].hh_head = e /\ x2.buckets[b].count = x.buckets[b].count + 1
      /\ Elsewhere(x.buckets, x2.buckets, m, b)
  <2>1. PICK late \in Nat : x2.buckets =
          [x.buckets EXCEPT ![b] = [hh_head |-> e, count |-> x.buckets[b].count + 1,
                                    expand_mult |-> x.buckets[b].expand_mult + late]]
    BY <1>3
  <2>2. x.buckets \in [0 .. m - 1 -> Bucket] /\ x.buckets[b] \in Bucket
    BY <1>0, <1>5 DEF IsArray, m
  <2> DEFINE new == [hh_head |-> e, count |-> x.buckets[b].count + 1,
                     expand_mult |-> x.buckets[b].expand_mult + late]
  <2>3. new \in Bucket /\ new.hh_head = e /\ new.count = x.buckets[b].count + 1
    BY <1>0, <2>2 DEF Bucket, Refs
  <2> HIDE DEF new
  <2>4. x2.buckets = [x.buckets EXCEPT ![b] = new]
    BY <2>1 DEF new
  <2>5. QED
    BY <1>5, <2>2, <2>3, <2>4 DEF IsArray, Elsewhere
<1> DEFINE moved2 == moved \cup {e}
<1>7. /\ e \in allocated \ moved
      /\ \A d \in 0 .. n - 1 :
           FirstLeft(x2, a, d) = IF d = x.from THEN hh_next[e] ELSE FirstLeft(x, a, d)
      /\ x2.item \in Refs /\ x2.from \in Nat /\ (x2.item # NULL => x2.from < n)
  <2>1. /\ x2.item \in Refs /\ x2.from \in Nat /\ (x2.item # NULL => x2.from < n)
        /\ \A d \in 0 .. n - 1 :
             FirstLeft(x2, a, d) = IF d = x.from THEN hh_next[e] ELSE FirstLeft(x, a, d)
    <3>1. n = NumBuckets /\ a = tbl.buckets
      BY DEF n, a
    <3>2. x.item # NULL
      BY <1>0 DEF e
    <3>3. QED
      BY <1>0, <1>3, <1>5, <3>1, <3>2, NextItem
  <2>2. FirstLeft(x, a, x.from) = e
    BY <1>0, <1>5 DEF FirstLeft, e
  <2>3. HasLine(Of(allocated \ moved, x.from, n, fd), e, hh_next)
    BY <1>1, <1>5, <2>2 DEF Unmoved
  <2>4. Of(allocated \ moved, x.from, n, fd) \in SUBSET Entries
    BY <1>0 DEF Of
  <2>5. e \in Of(allocated \ moved, x.from, n, fd)
    BY <1>0, <2>3, <2>4, LineOn
  <2>6. QED
    BY <2>1, <2>5 DEF Of
<1>8. first \in Refs /\ Chained(x2.buckets, m, moved2, fd, hh_next', hh_prev')
  <2>1. e \in Of(Entries, b, m, fd) /\ e \in Entries \ moved /\ moved \in SUBSET Entries
    BY <1>0, <1>7 DEF b, m, ToBucket, Number, Of
  <2>2. hh_next' = [hh_next EXCEPT ![e] = first]
    BY <1>2 DEF LinkBefore
  <2>3. hh_prev' = Store([hh_prev EXCEPT ![e] = NULL], first, e)
    BY <1>2 DEF LinkBefore
  <2>4. IsArray(x.buckets, m) /\ first \in Refs
    BY <1>0, <1>5 DEF IsArray, Bucket, m
  <2>5. /\ hh_next \in [Entries -> Refs] /\ hh_prev \in [Entries -> Refs]
        /\ fd \in [Entries -> Keys]
    BY <1>0
  <2>6. /\ x2.buckets[b].hh_head = e /\ x2.buckets[b].count = x.buckets[b].count + 1
        /\ Elsewhere(x.buckets, x2.buckets, m, b)
    BY <1>6
  <2>7. Chained(x.buckets, m, moved, fd, hh_next, hh_prev)
    BY <1>1 DEF m
  <2>8. Chained(x2.buckets, m, moved2, fd, hh_next', hh_prev')
    BY <2>1, <2>2, <2>3, <2>4, <2>5, <2>6, <2>7, ChainedBefore
  <2>9. QED
    BY <2>4, <2>8
<1>9. Unmoved(allocated \ moved2, x2, a, n, fd, hh_next')
  <2> DEFINE U == allocated \ moved
  <2>1. /\ U \in SUBSET Entries /\ x.item # NULL /\ Unmoved(U, x, a, n, fd, hh_next)
        /\ allocated \ moved2 = U \ {x.item}
    BY <1>0, <1>1 DEF e
  <2>2. Same(hh_next, hh_next', U \ {x.item})
    BY <1>0, <1>2 DEF Same, LinkBefore, e
  <2>3. \A d \in 0 .. n - 1 :
          FirstLeft(x2, a, d) = IF d = x.from THEN hh_next[x.item] ELSE FirstLeft(x, a, d)
    BY <1>7 DEF e
  <2> HIDE DEF U, moved2
  <2>4. QED
    BY <1>0, <1>5, <2>1, <2>2, <2>3, UnmovedOn
<1>10. Types'
  <2>1. hh_next' \in [Entries -> Refs] /\ hh_prev' \in [Entries -> Refs]
    BY <1>0, <1>2, <1>8, LinkBeforeTypes DEF HashInv
  <2>2. /\ expansion'.item \in Refs /\ expansion'.from \in Nat
        /\ IsArray(expansion'.buckets, 2 * NumBuckets')
    BY <1>4, <1>6, <1>7 DEF x2, m
  <2>3. QED
    BY <1>2, <1>4, <2>1, <2>2 DEF HashInv, Types, Places, readVars, n
<1>11. MainAgrees'
  BY <1>0, <1>2 DEF HashInv, MainAgrees
<1>12. ListAgrees'
  BY <1>0, <1>2, <1>4 DEF HashInv, ListAgrees
<1>13. IterAgrees'
  BY <1>0, <1>2 DEF HashInv, IterAgrees, IterIsFirst, Distinct
<1>14. BucketsAgree'
  <2>1. moved2 \in SUBSET allocated' /\ mpc' # "swap"
    BY <1>2, <1>7
  <2>2. Chained(expansion'.buckets, 2 * NumBuckets', moved2, fd', hh_next', hh_prev')
    BY <1>2, <1>4, <1>8 DEF x2, m
  <2>3. Unmoved(allocated' \ moved2, expansion', tbl'.buckets, NumBuckets', fd', hh_next')
    BY <1>2, <1>4, <1>9 DEF x2, a
  <2>4. expansion'.item # NULL => expansion'.from < NumBuckets'
    BY <1>4, <1>7 DEF x2
  <2> HIDE DEF moved2
  <2>5. QED
    BY <1>4, <2>1, <2>2, <2>3, <2>4 DEF BucketsAgree
<1>15. ReaderAgrees'
  <2>1. rpc # "none" => session \in pooled' /\ expanded
    BY <1>0, <1>2 DEF HashInv, ReaderAgrees
  <2>2. QED
    BY <1>2, <1>4, <2>1, ReaderStays DEF HashInv, n
<1>16. QED
  BY <1>10, <1>11, <1>12, <1>13, <1>14, <1>15 DEF HashInv

\* The old buckets are freed.
LEMMA FreeOldBucketsKeeps ==
  ASSUME HashInv, FreeOldBuckets
  PROVE  HashInv'
<1>1. /\ mpc = "move" /\ mpc' = "swap" /\ expansion.item = NULL
      /\ UNCHANGED <<head, next, prev, hh_next, hh_prev, tbl, expansion, allocated, fd, el, tmp,
                     cur, pooled>>
      /\ UNCHANGED readVars
  BY DEF FreeOldBuckets, listVars, iterVars
<1>2. Linked' = Linked /\ Expanding /\ Expanding' /\ NumBuckets' = NumBuckets
  BY <1>1 DEF Linked, Expanding, NumBuckets
<1>3. Types'
  BY <1>1, <1>2 DEF HashInv, Types, Places, readVars
<1>4. MainAgrees'
  BY <1>1 DEF HashInv, MainAgrees
<1>5. ListAgrees'
  BY <1>1, <1>2 DEF HashInv, ListAgrees
<1>6. IterAgrees'
  BY <1>1 DEF HashInv, IterAgrees, IterIsFirst, Distinct
<1>7. BucketsAgree'
  <2>1. BucketsAgree
    BY DEF HashInv
  <2>2. QED
    BY <1>1, <1>2, <2>1 DEF BucketsAgree
<1>8. ReaderAgrees'
  <2>1. rpc # "none" => session \in pooled' /\ expanded
    BY <1>1, <1>2 DEF HashInv, ReaderAgrees
  <2>2. QED
    BY <1>1, <1>2, <2>1, ReaderStays DEF HashInv
<1>9. QED
  BY <1>3, <1>4, <1>5, <1>6, <1>7, <1>8 DEF HashInv

\* The table gets its new buckets: every entry has been moved.
LEMMA SwapBucketsKeeps ==
  ASSUME HashInv, SwapBuckets
  PROVE  HashInv'
<1> DEFINE n == NumBuckets
<1>0. /\ mpc = "swap" /\ Expanding /\ IsArray(expansion.buckets, 2 * n) /\ n \in Nat \ {0}
      /\ allocated \in SUBSET Entries /\ fd \in [Entries -> Keys]
      /\ DOMAIN tbl = {"num_items", "tail", "buckets", "ineff_expands", "noexpand"}
  BY DEF SwapBuckets, HashInv, Types, Expanding, IsArray
<1>1. /\ mpc' = "pool_add"
      /\ expansion' = [item |-> NULL, from |-> 0, buckets |-> <<>>, nonideal |-> 0]
      /\ UNCHANGED <<head, next, prev, hh_next, hh_prev, allocated, fd, el, tmp, cur, pooled>>
      /\ UNCHANGED readVars
  BY DEF SwapBuckets, listVars, iterVars
<1>2. /\ DOMAIN tbl' = DOMAIN tbl /\ tbl'.buckets = expansion.buckets
      /\ tbl'.num_items = tbl.num_items /\ tbl'.tail = tbl.tail
  <2>1. \E i, x : tbl' = [tbl EXCEPT !.buckets = expansion.buckets, !.ineff_expands = i, !.noexpand = x]
    BY DEF SwapBuckets
  <2>2. QED
    BY <1>0, <2>1
<1>3. NumBuckets' = 2 * n
  BY <1>0, <1>2, ArraySize DEF NumBuckets
<1>4. Linked' = allocated /\ Linked = allocated /\ InTable' = allocated /\ ~Expanding'
  BY <1>0, <1>1 DEF Linked, InTable, Expanding
<1> HIDE DEF n
<1>5. PICK moved \in SUBSET allocated :
        /\ Chained(expansion.buckets, 2 * n, moved, fd, hh_next, hh_prev)
        /\ Unmoved(allocated \ moved, expansion, tbl.buckets, n, fd, hh_next)
        /\ expansion.item = NULL
  BY <1>0 DEF HashInv, BucketsAgree, n
<1>6. moved = allocated
  <2> SUFFICES ASSUME NEW e \in allocated \ moved PROVE FALSE
    OBVIOUS
  <2> DEFINE b == Number(fd[e], n)
  <2>1. b \in 0 .. n - 1
    BY <1>0, BucketInRange
  <2>2. FirstLeft(expansion, tbl.buckets, b) = NULL
    BY <1>5 DEF FirstLeft
  <2>3. HasLine(Of(allocated \ moved, b, n, fd), NULL, hh_next)
    BY <1>5, <2>1, <2>2 DEF Unmoved
  <2>4. Of(allocated \ moved, b, n, fd) \in SUBSET Entries /\ e \in Of(allocated \ moved, b, n, fd)
    BY <1>0 DEF Of
  <2>5. QED
    BY <2>3, <2>4, NoLine
<1>7. Types'
  BY <1>0, <1>1, <1>2, <1>3, <1>4 DEF HashInv, Types, Places, readVars, Refs
<1>8. MainAgrees'
  BY <1>0, <1>1 DEF HashInv, MainAgrees
<1>9. ListAgrees'
  BY <1>0, <1>1, <1>2, <1>4 DEF HashInv, ListAgrees
<1>10. IterAgrees'
  BY <1>0, <1>1 DEF HashInv, IterAgrees, IterIsFirst, Distinct
<1>11. BucketsAgree'
  BY <1>1, <1>2, <1>3, <1>4, <1>5, <1>6 DEF BucketsAgree
<1>12. ReaderAgrees'
  <2>1. ReaderAgrees /\ (rpc # "none" => expanded)
    BY <1>0 DEF HashInv, ReaderAgrees
  <2>2. rpc = "bucket" => bkt \in 0 .. NumBuckets' - 1
    BY <1>0, <1>3, <2>1 DEF ReaderAgrees, n
  <2>3. QED
    BY <1>1, <2>1, <2>2 DEF ReaderAgrees, readVars
<1>13. QED
  BY <1>7, <1>8, <1>9, <1>10, <1>11, <1>12 DEF HashInv

\* spool_add_session: from here on a worker may look the session up.
LEMMA PoolAddKeeps ==
  ASSUME HashInv, PoolAdd
  PROVE  HashInv'
<1>1. /\ mpc = "pool_add" /\ mpc' = "idle" /\ rpc = "none" /\ cur \in allocated /\ cur' = NULL
      /\ pooled' = pooled \cup {cur}
      /\ UNCHANGED <<head, next, prev, hh_next, hh_prev, tbl, expansion, allocated, fd, el, tmp, shared>>
      /\ UNCHANGED readVars
  BY DEF PoolAdd, listVars, chainVars, iterVars, HashInv, MainAgrees
<1>2. Linked' = Linked /\ InTable' = InTable /\ ~Expanding /\ ~Expanding' /\ NumBuckets' = NumBuckets
  BY <1>1 DEF Linked, InTable, Expanding, NumBuckets
<1>3. Types'
  BY <1>1, <1>2 DEF HashInv, Types, Places, Refs, readVars
<1>4. MainAgrees'
  <2>1. NULL \notin allocated
    BY HashAssumption DEF HashInv, Types
  <2>2. QED
    BY <1>1, <2>1 DEF HashInv, MainAgrees
<1>5. ListAgrees'
  BY <1>1, <1>2 DEF HashInv, ListAgrees
<1>6. IterAgrees'
  BY <1>1 DEF HashInv, IterAgrees, IterIsFirst, Distinct
<1>7. BucketsAgree'
  BY <1>1, <1>2 DEF HashInv, BucketsAgree
<1>8. ReaderAgrees'
  BY <1>1, ReaderStays DEF HashInv
<1>9. QED
  BY <1>3, <1>4, <1>5, <1>6, <1>7, <1>8 DEF HashInv

-----------------------------------------------------------------------------
(* Deleting *)

\* The first entry is an entry, and so is the one that a step takes in hand.
LEMMA HeadLinked ==
  ASSUME ListAgrees
  PROVE  head # NULL => head \in Linked
<1>1. PICK n \in Nat : \E c \in [1 .. n -> Linked] : Chain(c, n, head, next, prev, Linked)
  BY DEF ListAgrees
<1>2. PICK c \in [1 .. n -> Linked] : Chain(c, n, head, next, prev, Linked)
  BY <1>1
<1>3. QED
  BY <1>2 DEF Chain, Line

\* spool_remove_session and the search before it.
LEMMA RemoveFromPoolKeeps ==
  ASSUME HashInv, mpc \in {"idle", "body"}, NEW e \in Linked, RemoveFromPool(e), mpc' = "delete",
         UNCHANGED iterVars, mpc = "body" /\ ~shared => e = el
  PROVE  HashInv'
<1>0. /\ cur = NULL /\ pooled = allocated /\ e \in allocated /\ allocated \in SUBSET Entries
      /\ Linked = allocated /\ InTable = allocated /\ ~Expanding
  <2>1. cur = NULL /\ allocated \in SUBSET Entries /\ NULL \notin Entries
    BY HashAssumption DEF HashInv, MainAgrees, Types
  <2>2. pooled = allocated \ {NULL}
    BY <2>1 DEF HashInv, MainAgrees
  <2>3. QED
    BY <2>1, <2>2 DEF Linked, InTable, Expanding
<1>1. /\ rpc = "none" /\ cur' = e /\ pooled' = allocated \ {e}
      /\ UNCHANGED <<head, next, prev, hh_next, hh_prev, tbl, expansion, allocated, fd, el, tmp,
                     shared>>
      /\ UNCHANGED readVars
  BY <1>0 DEF RemoveFromPool, listVars, chainVars, iterVars
<1>2. Linked' = allocated /\ InTable' = allocated /\ ~Expanding' /\ NumBuckets' = NumBuckets
  BY <1>1 DEF Linked, InTable, Expanding, NumBuckets
<1>3. Types'
  BY <1>0, <1>1, <1>2 DEF HashInv, Types, Places, Refs, readVars
<1>4. MainAgrees'
  BY <1>0, <1>1 DEF HashInv, MainAgrees
<1>5. ListAgrees'
  BY <1>0, <1>1, <1>2 DEF HashInv, ListAgrees
<1>6. IterAgrees'
  BY <1>1 DEF HashInv, IterAgrees, IterIsFirst, Distinct
<1>7. BucketsAgree'
  BY <1>0, <1>1, <1>2 DEF HashInv, BucketsAgree
<1>8. ReaderAgrees'
  BY <1>1, ReaderStays DEF HashInv
<1>9. QED
  BY <1>3, <1>4, <1>5, <1>6, <1>7, <1>8 DEF HashInv

\* handle_disconnect, up to HASH_DEL.
LEMMA DisconnectKeeps ==
  ASSUME HashInv, NEW k \in Keys, Disconnect(k)
  PROVE  HashInv'
<1>1. /\ mpc = "idle" /\ Find(k) # NULL /\ RemoveFromPool(Find(k)) /\ mpc' = "delete"
      /\ UNCHANGED iterVars
  BY DEF Disconnect
<1>2. Find(k) \in Linked
  BY <1>1, FindFinds DEF HashInv
<1>3. QED
  BY <1>1, <1>2, RemoveFromPoolKeeps

\* HASH_ITER finds an entry with the number that its cursor is at, and deletes
\* it: the very entry at the cursor, where no two have one number.
LEMMA FinalizeBodyKeeps ==
  ASSUME HashInv, FinalizeBody
  PROVE  HashInv'
<1>1. /\ mpc = "body" /\ RemoveFromPool(Find(fd[el])) /\ mpc' = "delete"
      /\ UNCHANGED iterVars
  BY DEF FinalizeBody
<1>2. el \in Linked /\ fd[el] \in Keys /\ Linked = allocated
  BY <1>1 DEF HashInv, IterAgrees, Types, Linked
<1>3. Find(fd[el]) \in Linked /\ fd[Find(fd[el])] = fd[el]
  BY <1>1, <1>2, FindFinds DEF HashInv
<1>5. ~shared => Find(fd[el]) = el
  BY <1>1, <1>2, <1>3 DEF HashInv, IterAgrees, IterIsFirst, Distinct
<1>4. QED
  BY <1>1, <1>3, <1>5, RemoveFromPoolKeeps

\* The cursors of HASH_ITER move and nothing else does.
LEMMA IterationKeeps ==
  ASSUME HashInv, mpc \in {"idle", "iterate"},
         mpc' \in {"ended", "body", "undefined"}, el' \in Refs, tmp' \in Refs, IterAgrees',
         UNCHANGED <<listVars, chainVars, readVars, allocated, fd, cur, pooled>>
  PROVE  HashInv'
<1>0. cur = NULL /\ Linked = allocated /\ InTable = allocated /\ ~Expanding
  BY DEF HashInv, MainAgrees, Linked, InTable, Expanding
<1>1. /\ mpc' \in {"ended", "body", "undefined"}
      /\ UNCHANGED <<head, next, prev, hh_next, hh_prev, tbl, expansion, allocated, fd, cur, pooled>>
      /\ UNCHANGED readVars
  BY DEF listVars, chainVars
<1>2. Linked' = allocated /\ InTable' = allocated /\ ~Expanding' /\ NumBuckets' = NumBuckets
  BY <1>1 DEF Linked, InTable, Expanding, NumBuckets
<1>3. Types'
  BY <1>0, <1>1, <1>2 DEF HashInv, Types, Places, readVars
<1>4. MainAgrees'
  BY <1>0, <1>1 DEF HashInv, MainAgrees
<1>5. ListAgrees'
  BY <1>0, <1>1, <1>2 DEF HashInv, ListAgrees
<1>7. BucketsAgree'
  BY <1>0, <1>1, <1>2 DEF HashInv, BucketsAgree
<1>8. ReaderAgrees'
  <2>1. rpc = "walk" /\ Ahead => Ahead'
    BY <1>0, <1>1, <1>2, AheadStays DEF readVars
  <2>2. rpc # "none" => session \in pooled'
    BY <1>1 DEF HashInv, ReaderAgrees
  <2>3. QED
    BY <1>1, <1>2, <2>1, <2>2, ReaderStays DEF HashInv
<1>9. QED
  BY <1>3, <1>4, <1>5, <1>7, <1>8 DEF HashInv

\* HASH_ITER begins, and goes on with the entry that it kept in tmp, unless
\* that one was freed.
LEMMA FinalizeKeeps ==
  ASSUME HashInv, FinalizeBegins \/ FinalizeNext \/ IterReadsFreed
  PROVE  HashInv'
<1> DEFINE first == IF head = NULL THEN NULL ELSE next[head]
<1>0. /\ head \in Refs /\ el \in Refs /\ tmp \in Refs /\ NULL \in Refs
      /\ \A e \in Entries : next[e] \in Refs
  BY DEF HashInv, Types, Refs
<1>1. first \in Refs
  BY <1>0 DEF Refs
<1>2. CASE FinalizeBegins
  <2>1. /\ mpc = "idle" /\ el' = head /\ tmp' = first
        /\ mpc' = IF head = NULL THEN "ended" ELSE "body"
        /\ UNCHANGED <<head, next, allocated, fd, cur>>
        /\ UNCHANGED <<listVars, chainVars, readVars, allocated, fd, cur, pooled>>
    BY <1>2 DEF FinalizeBegins, listVars
  <2>2. ~shared' => Distinct
    BY <1>2 DEF FinalizeBegins, Distinct
  <2>3. head # NULL => head \in allocated
    BY <2>1, HeadLinked DEF HashInv, Linked
  <2> HIDE DEF first
  <2>4. ~shared' => Distinct'
    BY <2>1, <2>2 DEF Distinct
  <2>5. ~shared' => IterIsFirst'
    BY <2>1, <2>4 DEF IterIsFirst, first
  <2>6. IterAgrees'
    BY <2>1, <2>3, <2>5 DEF IterAgrees
  <2>7. QED
    BY <1>0, <1>1, <2>1, <2>6, IterationKeeps
<1>3. CASE FinalizeNext
  <2>1. /\ mpc = "iterate" /\ tmp \in allocated \cup {NULL} /\ el' = tmp /\ el # NULL
        /\ tmp' = IF tmp = NULL THEN NULL ELSE next[tmp]
        /\ mpc' = IF tmp = NULL THEN "ended" ELSE "body"
        /\ UNCHANGED <<head, next, allocated, fd, cur, shared>>
        /\ UNCHANGED <<listVars, chainVars, readVars, allocated, fd, cur, pooled>>
    BY <1>3 DEF FinalizeNext, listVars, HashInv, IterAgrees
  <2>2. ~shared => tmp = head /\ Distinct
    BY <2>1 DEF HashInv, IterAgrees, IterIsFirst
  <2>3. ~shared' => Distinct'
    BY <2>1, <2>2 DEF Distinct
  <2>4. ~shared' => IterIsFirst'
    BY <2>1, <2>2, <2>3 DEF IterIsFirst
  <2>5. IterAgrees'
    BY <2>1, <2>4 DEF IterAgrees
  <2>6. tmp' \in Refs
    BY <1>0, <2>1 DEF Refs
  <2>7. QED
    BY <1>0, <2>1, <2>5, <2>6, IterationKeeps
<1>4. CASE IterReadsFreed
  <2>1. /\ mpc = "iterate" /\ mpc' = "undefined" /\ tmp \notin allocated \cup {NULL}
        /\ UNCHANGED <<el, tmp, shared, head, next, allocated, fd, cur>>
        /\ UNCHANGED <<listVars, chainVars, readVars, allocated, fd, cur, pooled>>
    BY <1>4 DEF IterReadsFreed, listVars, iterVars
  <2>2. IterAgrees'
    BY <2>1 DEF HashInv, IterAgrees, IterIsFirst, Distinct
  <2>3. QED
    BY <1>0, <2>1, <2>2, IterationKeeps
<1>5. QED
  BY <1>2, <1>3, <1>4

\* free(conn_hash).
LEMMA FreeEntryKeeps ==
  ASSUME HashInv, FreeEntry
  PROVE  HashInv'
<1> DEFINE S == allocated \ {cur}
<1>0. /\ mpc = "free" /\ cur \in allocated /\ allocated \in SUBSET Entries
      /\ pooled = S /\ Linked = S /\ InTable = S /\ ~Expanding
      /\ next \in [Entries -> Refs] /\ prev \in [Entries -> Refs]
      /\ hh_next \in [Entries -> Refs] /\ hh_prev \in [Entries -> Refs]
  BY DEF FreeEntry, HashInv, Types, MainAgrees, Linked, InTable, Expanding
<1>1. /\ mpc' = IF el = NULL THEN "idle" ELSE "iterate"
      /\ cur' = NULL /\ allocated' = S
      /\ next' = [next EXCEPT ![cur] = NULL] /\ prev' = [prev EXCEPT ![cur] = NULL]
      /\ hh_next' = [hh_next EXCEPT ![cur] = NULL] /\ hh_prev' = [hh_prev EXCEPT ![cur] = NULL]
      /\ fd' = [fd EXCEPT ![cur] = AnyKey]
      /\ UNCHANGED <<head, tbl, expansion, el, tmp, shared, pooled, rpc, session, hand, bkt, expanded>>
  BY DEF FreeEntry, iterVars
<1>11. fd \in [Entries -> Keys] /\ fd' \in [Entries -> Keys] /\ \A e \in S : fd'[e] = fd[e]
  <2>1. fd \in [Entries -> Keys] /\ AnyKey \in Keys
    BY HashAssumption DEF HashInv, Types, AnyKey
  <2>2. QED
    BY <1>0, <1>1, <2>1
<1>2. Linked' = S /\ InTable' = S /\ ~Expanding' /\ NumBuckets' = NumBuckets
  BY <1>1 DEF Linked, InTable, Expanding, NumBuckets
<1>3. /\ Same(next, next', S) /\ Same(prev, prev', S)
      /\ Same(hh_next, hh_next', S) /\ Same(hh_prev, hh_prev', S)
  BY <1>0, <1>1 DEF Same
<1>4. Types'
  <2>1. /\ next' \in [Entries -> Refs] /\ prev' \in [Entries -> Refs]
        /\ hh_next' \in [Entries -> Refs] /\ hh_prev' \in [Entries -> Refs]
    BY <1>0, <1>1 DEF Refs
  <2>2. QED
    BY <1>0, <1>1, <1>2, <1>11, <2>1 DEF HashInv, Types, Places, Refs
<1>5. MainAgrees'
  <2>1. NULL \notin S
    BY <1>0, HashAssumption
  <2>2. \A e \in Entries \ S : next'[e] = NULL /\ prev'[e] = NULL
    BY <1>0, <1>1 DEF HashInv, MainAgrees
  <2>3. QED
    BY <1>0, <1>1, <2>1, <2>2 DEF HashInv, MainAgrees
<1>6. ListAgrees'
  <2>1. PICK n \in Nat : \E c \in [1 .. n -> S] :
          /\ Chain(c, n, head, next, prev, S)
          /\ n > 0 => tbl.tail = c[n] /\ tbl.num_items = n
    BY <1>0 DEF HashInv, ListAgrees
  <2>2. PICK c \in [1 .. n -> S] :
          /\ Chain(c, n, head, next, prev, S)
          /\ n > 0 => tbl.tail = c[n] /\ tbl.num_items = n
    BY <2>1
  <2>3. Chain(c, n, head, next', prev', S)
    BY <1>3, <2>2, ChainFrame DEF Same
  <2>4. mpc' # "to_bucket" /\ n - 0 = n
    BY <1>1
  <2> HIDE DEF S
  <2>5. QED
    BY <1>1, <1>2, <2>1, <2>2, <2>3, <2>4 DEF ListAgrees
<1>7. IterAgrees'
  <2>1. el # NULL /\ ~shared => tmp = head /\ Distinct
    BY <1>0 DEF HashInv, IterAgrees, IterIsFirst
  <2>2. Distinct => Distinct'
    BY <1>0, <1>1, <1>11 DEF Distinct
  <2> HIDE DEF S
  <2>3. QED
    BY <1>0, <1>1, <2>1, <2>2 DEF HashInv, IterAgrees, IterIsFirst
<1>8. BucketsAgree'
  <2>1. ASSUME head # NULL
        PROVE  Chained(tbl.buckets, NumBuckets, S, fd', hh_next', hh_prev')
    <3>1. Chained(tbl.buckets, NumBuckets, S, fd, hh_next, hh_prev)
      BY <1>0, <2>1 DEF HashInv, BucketsAgree
    <3>2. Same(fd, fd', S)
      BY <1>11 DEF Same
    <3>3. QED
      BY <1>3, <3>1, <3>2, ChainedStays
  <2>2. QED
    BY <1>1, <1>2, <2>1 DEF BucketsAgree
<1>9. ReaderAgrees'
  <2>1. ASSUME rpc = "walk", ~expanded, ~dangling' PROVE Ahead'
    <3> DEFINE b == ToBucket(session, NumBuckets)
               T == Of(S, b, NumBuckets, fd)
    <3>1. hand # cur /\ ~dangling
      BY <2>1 DEF FreeEntry
    <3>2. Leads(tbl.buckets[b], T, hh_next, hh_prev, hand, session)
      BY <1>0, <2>1, <3>1 DEF HashInv, ReaderAgrees, Ahead
    <3>3. Same(hh_next, hh_next', T) /\ Same(hh_prev, hh_prev', T)
      BY <1>3 DEF Same, Of
    <3>4. Leads(tbl.buckets[b], T, hh_next', hh_prev', hand, session)
      BY <3>2, <3>3, LeadsFrame
    <3>5. ToBucket(session, NumBuckets)' = b /\ Of(InTable', b, NumBuckets', fd') = T
      <4>1. session \in S
        BY <1>0, <2>1 DEF HashInv, ReaderAgrees
      <4>2. QED
        BY <1>1, <1>2, <1>11, <4>1 DEF ToBucket, Of
    <3>6. tbl' = tbl /\ hand' = hand /\ session' = session
      BY <1>1
    <3> HIDE DEF b, T
    <3>7. QED
      BY <3>4, <3>5, <3>6 DEF Ahead
  <2>2. QED
    BY <1>0, <1>1, <1>2, <1>11, <2>1 DEF HashInv, ReaderAgrees, ToBucket
<1>10. QED
  BY <1>4, <1>5, <1>6, <1>7, <1>8, <1>9 DEF HashInv

\* The neighbours of an entry are in its bucket.
LEMMA Neighbours ==
  ASSUME NEW bucket, NEW S, NEW link, NEW back, Has(bucket, S, link, back), NEW e \in S
  PROVE  link[e] \in S \cup {NULL} /\ back[e] \in S \cup {NULL}
<1>1. PICK c \in [1 .. bucket.count -> S] : Chain(c, bucket.count, bucket.hh_head, link, back, S)
  BY DEF Has
<1> DEFINE n == bucket.count
<1>2. /\ n \in Nat /\ \A i \in 1 .. n : c[i] \in S
      /\ \A i \in 1 .. n : link[c[i]] = IF i = n THEN NULL ELSE c[i + 1]
      /\ \A i \in 1 .. n : back[c[i]] = IF i = 1 THEN NULL ELSE c[i - 1]
  BY <1>1 DEF Chain, Line
<1>3. PICK i \in 1 .. n : c[i] = e
  BY <1>1 DEF Chain, Line
<1> HIDE DEF n
<1>4. i # n => i + 1 \in 1 .. n
  BY <1>2
<1>5. i # 1 => i - 1 \in 1 .. n
  BY <1>2
<1>6. QED
  BY <1>2, <1>3, <1>4, <1>5

\* An entry leaves its bucket.
LEMMA ChainedWithout ==
  ASSUME NEW S \in SUBSET Entries, NEW link \in [Entries -> Refs], NEW back \in [Entries -> Refs],
         NEW key \in [Entries -> Keys], NEW n, NEW a, IsArray(a, n),
         Chained(a, n, S, key, link, back),
         NEW e \in S, NEW b, e \in Of(S, b, n, key),
         NEW a2, Removed(a[b], a2[b], link, e), Elsewhere(a, a2, n, b),
         NEW link2, link2 = Store(link, back[e], link[e]),
         NEW back2, back2 = Store(back, link[e], back[e]),
         NEW S2, S2 = S \ {e}
  PROVE  /\ a2[b].count \in Nat
         /\ Chained(a2, n, S2, key, link2, back2)
         /\ SameElsewhere(S2, n, b, key, link, back, link2, back2)
<1>1. n \in Nat \ {0} /\ b \in 0 .. n - 1 /\ b = Number(key[e], n)
  <2>1. n \in Nat \ {0} /\ key[e] \in Keys /\ b = Number(key[e], n)
    BY DEF IsArray, Of
  <2>2. QED
    BY <2>1, BucketInRange
<1>2. a[b] \in Bucket
  BY <1>1 DEF IsArray, Bucket
<1>3. Has(a[b], Of(S, b, n, key), link, back)
  BY <1>1 DEF Chained
<1>4. link[e] \in Of(S, b, n, key) \cup {NULL} /\ back[e] \in Of(S, b, n, key) \cup {NULL}
  BY <1>3, Neighbours
<1>5. /\ Of(S, b, n, key) \in SUBSET Entries
      /\ Of(S2, b, n, key) = Of(S, b, n, key) \ {e}
  BY DEF Of
<1>6. a2[b].count \in Nat /\ Has(a2[b], Of(S2, b, n, key), link2, back2)
  <2> DEFINE T == Of(S, b, n, key)
             T2 == Of(S2, b, n, key)
  <2>1. T \in SUBSET Entries /\ T2 = T \ {e} /\ e \in T /\ Has(a[b], T, link, back)
    BY <1>3, <1>5
  <2> HIDE DEF T, T2
  <2>2. Has(a2[b], T2, link2, back2)
    BY <1>2, <2>1, HasWithout
  <2>3. a2[b].count \in Nat
    BY <2>2 DEF Has, Chain, Line
  <2>4. QED
    BY <2>2, <2>3 DEF T2
<1>7. \A f \in S : (f # back[e] => link2[f] = link[f]) /\ (f # link[e] => back2[f] = back[f])
  <2>1. \A f \in S : f # back[e] => link2[f] = link[f]
    BY DEF Store, Refs
  <2>2. \A f \in S : f # link[e] => back2[f] = back[f]
    BY DEF Store, Refs
  <2>3. QED
    BY <2>1, <2>2
<1>8. ASSUME NEW d \in 0 .. n - 1, d # b
      PROVE  /\ Same(link, link2, Of(S2, d, n, key)) /\ Same(back, back2, Of(S2, d, n, key))
             /\ Has(a2[d], Of(S2, d, n, key), link2, back2)
  <2>1. Of(S2, d, n, key) = Of(S, d, n, key)
    BY <1>1, <1>8 DEF Of
  <2>2. Has(a[d], Of(S, d, n, key), link, back)
    BY DEF Chained
  <2>3. \A f \in Of(S, d, n, key) : f \in S /\ f # link[e] /\ f # back[e]
    BY <1>4, <1>8, HashAssumption DEF Of
  <2>4. Same(link, link2, Of(S, d, n, key)) /\ Same(back, back2, Of(S, d, n, key))
    BY <1>7, <2>3 DEF Same
  <2>5. Has(a[d], Of(S, d, n, key), link2, back2)
    BY <2>2, <2>4, HasFrame
  <2>6. QED
    BY <1>8, <2>1, <2>4, <2>5 DEF Elsewhere
<1>9. QED
  BY <1>6, <1>8 DEF Chained, SameElsewhere

\* The insertion order, as seen from the entry that is deleted.
LEMMA Position ==
  ASSUME Types, ListAgrees, Linked = allocated, mpc # "to_bucket", cur \in Linked
  PROVE  \E n \in Nat : \E c \in [1 .. n -> Linked] : \E i \in 1 .. n :
           /\ Chain(c, n, head, next, prev, Linked)
           /\ cur = c[i] /\ tbl.tail = c[n] /\ tbl.num_items = n
           /\ prev[cur] = NULL <=> i = 1
           /\ next[cur] = NULL <=> i = n
           /\ head = cur <=> i = 1
           /\ tbl.tail = cur <=> i = n
           /\ i # 1 => prev[cur] = c[i - 1]
           /\ prev[cur] \in Linked \cup {NULL} /\ next[cur] \in Linked \cup {NULL}
<1>1. PICK n \in Nat : \E c \in [1 .. n -> Linked] :
        /\ Chain(c, n, head, next, prev, Linked)
        /\ n > 0 => tbl.tail = c[n] /\ tbl.num_items = n - 0
  BY DEF ListAgrees
<1>2. PICK c \in [1 .. n -> Linked] :
        /\ Chain(c, n, head, next, prev, Linked)
        /\ n > 0 => tbl.tail = c[n] /\ tbl.num_items = n - 0
  BY <1>1
<1>3. /\ \A i, j \in 1 .. n : c[i] = c[j] => i = j
      /\ \A e \in Linked : \E i \in 1 .. n : c[i] = e
      /\ head = IF n = 0 THEN NULL ELSE c[1]
      /\ \A i \in 1 .. n : next[c[i]] = IF i = n THEN NULL ELSE c[i + 1]
      /\ \A i \in 1 .. n : prev[c[i]] = IF i = 1 THEN NULL ELSE c[i - 1]
      /\ \A i \in 1 .. n : c[i] \in Linked /\ c[i] # NULL
  BY <1>2, HashAssumption DEF Chain, Line, Types
<1>4. PICK i \in 1 .. n : cur = c[i]
  BY <1>3
<1>5. 1 \in 1 .. n /\ n \in 1 .. n /\ n > 0 /\ n - 0 = n
  BY <1>1, <1>4
<1>6. (i # n => i + 1 \in 1 .. n) /\ (i # 1 => i - 1 \in 1 .. n)
  BY <1>1, <1>4
<1>7. /\ prev[cur] = NULL <=> i = 1
      /\ i # 1 => prev[cur] = c[i - 1]
      /\ prev[cur] \in Linked \cup {NULL}
  BY <1>3, <1>4, <1>6
<1>8. /\ next[cur] = NULL <=> i = n
      /\ next[cur] \in Linked \cup {NULL}
  BY <1>3, <1>4, <1>6
<1>9. (head = cur <=> i = 1) /\ (tbl.tail = cur <=> i = n) /\ tbl.tail = c[n] /\ tbl.num_items = n
  BY <1>2, <1>3, <1>4, <1>5
<1>10. QED
  BY <1>1, <1>2, <1>4, <1>7, <1>8, <1>9

\* HASH_DELETE_HH.
LEMMA DeleteKeeps ==
  ASSUME HashInv, Delete
  PROVE  HashInv'
<1> DEFINE S == allocated \ {cur}
<1>0. /\ mpc = "delete" /\ cur \in allocated /\ allocated \in SUBSET Entries /\ cur \in Entries
      /\ pooled = S /\ Linked = allocated /\ InTable = allocated /\ ~Expanding
      /\ next \in [Entries -> Refs] /\ prev \in [Entries -> Refs]
      /\ hh_next \in [Entries -> Refs] /\ hh_prev \in [Entries -> Refs] /\ fd \in [Entries -> Keys]
      /\ DOMAIN tbl = {"num_items", "tail", "buckets", "ineff_expands", "noexpand"}
  BY DEF Delete, HashInv, Types, MainAgrees, Linked, InTable, Expanding
<1>1. /\ mpc' = "free"
      /\ UNCHANGED <<expansion, el, tmp, shared, allocated, fd, cur, pooled>>
      /\ UNCHANGED readVars
  BY DEF Delete, iterVars
<1>2. Linked' = S /\ InTable' = S /\ ~Expanding'
  BY <1>1 DEF Linked, InTable, Expanding
<1>3. PICK n \in Nat : \E c \in [1 .. n -> Linked] : \E i \in 1 .. n :
           /\ Chain(c, n, head, next, prev, Linked)
           /\ cur = c[i] /\ tbl.tail = c[n] /\ tbl.num_items = n
           /\ prev[cur] = NULL <=> i = 1
           /\ next[cur] = NULL <=> i = n
           /\ head = cur <=> i = 1
           /\ tbl.tail = cur <=> i = n
           /\ i # 1 => prev[cur] = c[i - 1]
           /\ prev[cur] \in Linked \cup {NULL} /\ next[cur] \in Linked \cup {NULL}
  BY <1>0, Position DEF HashInv
<1>4. PICK c \in [1 .. n -> Linked], i \in 1 .. n :
           /\ Chain(c, n, head, next, prev, Linked)
           /\ cur = c[i] /\ tbl.tail = c[n] /\ tbl.num_items = n
           /\ prev[cur] = NULL <=> i = 1
           /\ next[cur] = NULL <=> i = n
           /\ head = cur <=> i = 1
           /\ tbl.tail = cur <=> i = n
           /\ i # 1 => prev[cur] = c[i - 1]
           /\ prev[cur] \in Linked \cup {NULL} /\ next[cur] \in Linked \cup {NULL}
  BY <1>3
<1>5. cur # NULL /\ n > 0 /\ n \in 1 .. n /\ head # NULL
  BY <1>0, <1>3, <1>4, HashAssumption, HeadIsNull DEF HashInv
<1>6. /\ head' = IF prev[cur] = NULL THEN next[cur] ELSE head
      /\ el # NULL /\ ~shared => head = cur /\ tmp = next[head] /\ Distinct
  <2>1. head' = IF prev[cur] = NULL THEN next[cur] ELSE head
    BY DEF Delete
  <2>2. el # NULL /\ ~shared => head = cur /\ tmp = next[head] /\ Distinct
    BY <1>0 DEF HashInv, IterAgrees, IterIsFirst
  <2>3. QED
    BY <2>1, <2>2
<1>7. IterAgrees'
  <2>1. el # NULL /\ ~shared => tmp = head' /\ Distinct'
    BY <1>1, <1>4, <1>6 DEF Distinct
  <2>2. QED
    BY <1>1, <2>1 DEF IterAgrees, IterIsFirst
<1>8. CASE prev[cur] = NULL /\ next[cur] = NULL
  <2>1. head' = NULL /\ tbl' = NewTable(NULL) /\ UNCHANGED <<next, prev, hh_next, hh_prev>>
    BY <1>8 DEF Delete
  <2>2. n = 1 /\ allocated = {cur} /\ S = {}
    <3>1. i = 1 /\ n = 1
      BY <1>4, <1>8
    <3>2. \A e \in allocated : e = cur
      BY <1>0, <1>4, <3>1 DEF Chain, Line
    <3>3. QED
      BY <1>0, <3>1, <3>2
  <2>3. rpc = "none"
    BY <1>0, <2>2 DEF HashInv, ReaderAgrees
  <2>4. IsArray(tbl'.buckets, NumBuckets') /\ DOMAIN tbl' = DOMAIN tbl
    BY <1>0, <2>1, HashAssumption, EmptyArray, ArraySize DEF NumBuckets, NewTable
  <2>5. Types'
    BY <1>0, <1>1, <1>2, <2>1, <2>4 DEF HashInv, Types, Places, Refs, readVars
  <2>6. MainAgrees'
    BY <1>0, <1>1, <2>1 DEF HashInv, MainAgrees
  <2>7. ListAgrees'
    <3> DEFINE d == [j \in 1 .. 0 |-> NULL]
           z == 0
    <3>1. Chain(d, z, NULL, next', prev', {}) /\ d \in [1 .. z -> {}] /\ z \in Nat /\ ~(z > 0)
      BY EmptyChain
    <3>2. Linked' = {} /\ head' = NULL
      BY <1>2, <2>1, <2>2
    <3> HIDE DEF d, z
    <3>3. QED
      BY <3>1, <3>2 DEF ListAgrees
  <2>8. BucketsAgree'
    BY <1>2, <2>1 DEF BucketsAgree
  <2>9. ReaderAgrees'
    BY <1>1, <2>3 DEF HashInv, ReaderAgrees, readVars
  <2>10. QED
    BY <1>7, <2>5, <2>6, <2>7, <2>8, <2>9 DEF HashInv
<1>9. CASE ~(prev[cur] = NULL /\ next[cur] = NULL)
  <2> DEFINE a == tbl.buckets
             a2 == tbl'.buckets
             m == NumBuckets
             b == ToBucket(cur, m)
  <2>1. /\ next' = Store(next, prev[cur], next[cur]) /\ prev' = Store(prev, next[cur], prev[cur])
        /\ hh_next' = Store(hh_next, hh_prev[cur], hh_next[cur])
        /\ hh_prev' = Store(hh_prev, hh_next[cur], hh_prev[cur])
        /\ tbl' = [tbl EXCEPT !.tail = IF @ = cur THEN prev[cur] ELSE @,
                              !.num_items = @ - 1, !.buckets[b] = DelInBucket(b)]
    BY <1>9 DEF Delete
  <2>2. /\ next' \in [Entries -> Refs] /\ prev' \in [Entries -> Refs]
        /\ hh_next' \in [Entries -> Refs] /\ hh_prev' \in [Entries -> Refs]
    BY <1>0, <2>1 DEF Store, Refs
  <2>3. IsArray(a, m) /\ m \in Nat \ {0} /\ b \in 0 .. m - 1
    BY <1>0, BucketOf DEF HashInv, Types, IsArray
  <2> HIDE DEF m, b
  <2>4. /\ DOMAIN tbl' = DOMAIN tbl /\ tbl'.num_items = tbl.num_items - 1
        /\ tbl'.tail = IF tbl.tail = cur THEN prev[cur] ELSE tbl.tail
        /\ a2 = [a EXCEPT ![b] = DelInBucket(b)]
    BY <1>0, <2>1
  <2>5. /\ a \in [0 .. m - 1 -> Bucket] /\ a[b] \in Bucket
    BY <2>3 DEF IsArray
  <2>6. /\ Removed(a[b], a2[b], hh_next, cur) /\ Elsewhere(a, a2, m, b)
        /\ a2[b].expand_mult = a[b].expand_mult
        /\ DOMAIN a2 = 0 .. m - 1 /\ DOMAIN a2[b] = {"hh_head", "count", "expand_mult"}
    BY <2>3, <2>4, <2>5 DEF Removed, Elsewhere, DelInBucket, Bucket
  <2>7. Chained(a, m, allocated, fd, hh_next, hh_prev)
    BY <1>0, <1>5 DEF HashInv, BucketsAgree, m
  <2>8. /\ a2[b].count \in Nat
        /\ Chained(a2, m, S, fd, hh_next', hh_prev')
        /\ SameElsewhere(S, m, b, fd, hh_next, hh_prev, hh_next', hh_prev')
    <3>1. cur \in Of(allocated, b, m, fd)
      BY <1>0 DEF Of, b, m, ToBucket, Number
    <3>2. /\ allocated \in SUBSET Entries /\ cur \in allocated
          /\ hh_next \in [Entries -> Refs] /\ hh_prev \in [Entries -> Refs]
          /\ fd \in [Entries -> Keys]
      BY <1>0
    <3>3. /\ hh_next' = Store(hh_next, hh_prev[cur], hh_next[cur])
          /\ hh_prev' = Store(hh_prev, hh_next[cur], hh_prev[cur])
      BY <2>1
    <3>4. Removed(a[b], a2[b], hh_next, cur) /\ Elsewhere(a, a2, m, b)
      BY <2>6
    <3>5. S = allocated \ {cur} /\ IsArray(a, m)
      BY <2>3
    <3> HIDE DEF S, a, a2
    <3>6. Chained(a2, m, S, fd, hh_next', hh_prev')
      BY <2>7, <3>1, <3>2, <3>3, <3>4, <3>5, ChainedWithout
    <3>7. SameElsewhere(S, m, b, fd, hh_next, hh_prev, hh_next', hh_prev')
      BY <2>7, <3>1, <3>2, <3>3, <3>4, <3>5, ChainedWithout
    <3>8. Has(a2[b], Of(S, b, m, fd), hh_next', hh_prev')
      BY <2>3, <3>6 DEF Chained
    <3>9. a2[b].count \in Nat
      BY <3>8 DEF Has, Chain, Line
    <3>10. QED
      BY <3>6, <3>7, <3>9
  <2>9. IsArray(a2, m) /\ NumBuckets' = m
    <3>1. DelInBucket(b) = a2[b]
      BY <2>3, <2>4, <2>5
    <3>2. a2[b].hh_head \in Refs
      BY <1>0, <2>5, <2>6 DEF Removed, Bucket
    <3>3. DelInBucket(b) \in Bucket
      BY <2>5, <2>8, <3>1, <3>2 DEF DelInBucket, Bucket
    <3>4. a2 \in [0 .. m - 1 -> Bucket]
      BY <2>3, <2>4, <2>5, <3>3
    <3>5. IsArray(a2, m)
      BY <2>3, <3>4 DEF IsArray
    <3>6. QED
      BY <3>5, ArraySize DEF NumBuckets
  <2>10. Types'
    <3>1. head' \in Refs
      BY <1>0, <1>6 DEF HashInv, Types
    <3>2. QED
      BY <1>0, <1>1, <1>2, <2>2, <2>4, <2>9, <3>1 DEF HashInv, Types, Places, readVars
  <2>11. MainAgrees'
    <3>1. prev[cur] \in allocated \cup {NULL} /\ next[cur] \in allocated \cup {NULL}
      BY <1>0, <1>4
    <3>2. \A e \in Entries \ allocated : next'[e] = NULL /\ prev'[e] = NULL
      BY <1>0, <2>1, <3>1 DEF Store, HashInv, MainAgrees
    <3>3. QED
      BY <1>0, <1>1, <3>2 DEF HashInv, MainAgrees
  <2>12. ListAgrees'
    <3> DEFINE d == Without(c, n, i)
               k == n - 1
    <3>1. head' = IF head = cur THEN next[cur] ELSE head
      BY <1>4, <1>6
    <3>2. Chain(d, k, head', next', prev', S)
      BY <1>0, <1>4, <2>1, <3>1, ChainWithout
    <3>3. k \in Nat /\ d \in [1 .. k -> S]
      BY <3>2 DEF Chain, Line
    <3>4. k > 0 /\ n - 1 \in 1 .. n - 1
      BY <1>4, <1>9, <3>3
    <3>5. tbl'.num_items = k /\ tbl'.tail = d[k]
      <4>1. d[k] = IF k < i THEN c[k] ELSE c[k + 1]
        BY <3>4 DEF Without
      <4>2. CASE i = n
        <5>1. k < i /\ n # 1
          BY <1>4, <1>9, <3>4, <4>2
        <5>2. QED
          BY <1>4, <2>4, <4>1, <4>2, <5>1
      <4>3. CASE i # n
        <5>1. ~(k < i) /\ k + 1 = n
          BY <1>3, <1>4, <4>3
        <5>2. QED
          BY <1>4, <2>4, <4>1, <4>3, <5>1
      <4>4. QED
        BY <4>2, <4>3
    <3>6. mpc' # "to_bucket" /\ Linked' = S /\ tbl'.num_items = k - 0
      BY <1>1, <1>2, <3>3, <3>5
    <3> HIDE DEF d, k, S
    <3>7. QED
      BY <3>2, <3>3, <3>5, <3>6 DEF ListAgrees
  <2>13. BucketsAgree'
    BY <1>1, <1>2, <2>8, <2>9 DEF BucketsAgree
  <2>14. ReaderAgrees'
    <3>1. ASSUME rpc = "walk", Ahead PROVE Ahead'
      <4> DEFINE s == ToBucket(session, m)
                 T == Of(allocated, s, m, fd)
                 T2 == Of(S, s, m, fd)
      <4>1. session \in S /\ session \in Entries
        BY <1>0, <3>1 DEF HashInv, ReaderAgrees
      <4>2. s \in 0 .. m - 1
        BY <2>3, <4>1, BucketOf DEF HashInv
      <4>3. Leads(a[s], T, hh_next, hh_prev, hand, session)
        BY <1>0, <3>1 DEF Ahead, m
      <4>4. /\ UNCHANGED <<session, hand>> /\ cur' = cur /\ mpc' = "free"
            /\ ToBucket(session, NumBuckets)' = s /\ Of(InTable', s, m, fd') = T2
        BY <1>1, <1>2, <2>9 DEF ToBucket, readVars
      <4> SUFFICES \/ Leads(a2[s], T2, hh_next', hh_prev', hand, session)
                   \/ /\ hand = cur
                      /\ Leads(a2[s], T2, hh_next', hh_prev', hh_next'[cur], session)
        BY <2>9, <4>4 DEF Ahead
      <4>5. CASE s = b
        <5>1. /\ T \in SUBSET Entries /\ a[s] \in Bucket /\ cur \in T /\ T2 = T \ {cur}
          BY <1>0, <2>5, <4>1, <4>5 DEF Of, b, m, ToBucket, Number
        <5>2. /\ hh_next' = Store(hh_next, hh_prev[cur], hh_next[cur])
              /\ hh_prev' = Store(hh_prev, hh_next[cur], hh_prev[cur])
              /\ hh_next \in [Entries -> Refs] /\ hh_prev \in [Entries -> Refs]
          BY <1>0, <2>1
        <5>3. Removed(a[s], a2[s], hh_next, cur)
          BY <2>6, <4>5
        <5>0. session \in T2
          BY <4>1 DEF Of, ToBucket, Number
        <5> DEFINE hand2 == IF hand = cur THEN hh_next'[cur] ELSE hand
        <5>4. Passed(hand, hand2, hh_next', cur)
          BY DEF Passed
        <5> HIDE DEF s, T, T2, a, a2, hand2
        <5>5. Leads(a2[s], T2, hh_next', hh_prev', hand2, session)
          BY <4>3, <5>0, <5>1, <5>2, <5>3, <5>4, LeadsWithout
        <5>6. QED
          BY <5>5 DEF hand2
      <4>6. CASE s # b
        <5>1. a2[s] = a[s] /\ T2 = T
          BY <1>0, <2>6, <4>2, <4>6 DEF Of, b, m, ToBucket, Number, Elsewhere
        <5>2. Same(hh_next, hh_next', T) /\ Same(hh_prev, hh_prev', T)
          BY <2>8, <4>2, <4>6, <5>1 DEF SameElsewhere
        <5> HIDE DEF s, T, T2, a, a2
        <5>3. QED
          BY <4>3, <5>1, <5>2, LeadsFrame
      <4>7. QED
        BY <4>5, <4>6
    <3>2. rpc # "none" => session \in pooled'
      BY <1>1 DEF HashInv, ReaderAgrees
    <3>3. QED
      BY <1>1, <1>2, <2>9, <3>1, <3>2, ReaderStays DEF HashInv, m
  <2>15. QED
    BY <1>7, <2>10, <2>11, <2>12, <2>13, <2>14 DEF HashInv
<1>10. QED
  BY <1>8, <1>9

-----------------------------------------------------------------------------
(* Looking up *)

\* A worker changes nothing of the table.
LEMMA WorkerKeeps ==
  ASSUME HashInv, UNCHANGED <<listVars, chainVars, iterVars, allocated, fd, mpc, cur, pooled>>,
         session' \in Refs, hand' \in Refs, ReaderAgrees'
  PROVE  HashInv'
<1>1. /\ UNCHANGED <<head, next, prev, hh_next, hh_prev, tbl, expansion, el, tmp, shared>>
      /\ UNCHANGED <<allocated, fd, mpc, cur, pooled>>
  BY DEF listVars, chainVars, iterVars
<1>2. /\ Linked' = Linked /\ InTable' = InTable /\ NumBuckets' = NumBuckets
      /\ Expanding' = Expanding
  BY <1>1 DEF Linked, InTable, Expanding, NumBuckets
<1>3. Types'
  BY <1>1, <1>2 DEF HashInv, Types
<1>4. MainAgrees'
  BY <1>1 DEF HashInv, MainAgrees
<1>5. ListAgrees'
  BY <1>1, <1>2 DEF HashInv, ListAgrees
<1>6. IterAgrees'
  BY <1>1 DEF HashInv, IterAgrees, IterIsFirst, Distinct
<1>7. BucketsAgree'
  <2>1. BucketsAgree
    BY DEF HashInv
  <2>2. CASE Expanding
    BY <1>1, <1>2, <2>1, <2>2 DEF BucketsAgree
  <2>3. CASE ~Expanding
    BY <1>1, <1>2, <2>1, <2>3 DEF BucketsAgree
  <2>4. QED
    BY <2>2, <2>3
<1>8. QED
  BY <1>3, <1>4, <1>5, <1>6, <1>7 DEF HashInv

\* A session in the pool is in the table.
LEMMA PooledIsInTable ==
  ASSUME HashInv, NEW e \in pooled
  PROVE  e \in InTable /\ e \in Entries /\ e \in Linked /\ head # NULL /\ InTable \in SUBSET Entries
<1>1. e \in InTable /\ e \in Entries /\ e \in Linked /\ InTable \in SUBSET Entries
  BY DEF HashInv, Types, MainAgrees, InTable, Linked
<1>2. QED
  BY <1>1, HeadIsNull DEF HashInv

\* The bucket of a session in the pool has it, unless the table expands.
LEMMA InItsBucket ==
  ASSUME HashInv, NEW e \in pooled, ~Expanding, NEW n, n = NumBuckets, NEW b, b = ToBucket(e, n)
  PROVE  /\ n \in Nat \ {0} /\ b \in 0 .. n - 1 /\ tbl.buckets[b] \in Bucket
         /\ Has(tbl.buckets[b], Of(InTable, b, n, fd), hh_next, hh_prev)
         /\ e \in Of(InTable, b, n, fd) /\ NULL \notin Of(InTable, b, n, fd)
<1>1. e \in InTable /\ e \in Entries /\ head # NULL /\ InTable \in SUBSET Entries
  BY PooledIsInTable
<1>2. IsArray(tbl.buckets, n)
  BY DEF HashInv, Types
<1>3. n \in Nat \ {0}
  BY <1>2 DEF IsArray
<1>4. b \in 0 .. n - 1
  BY <1>1, <1>3, BucketOf DEF HashInv
<1>5. tbl.buckets[b] \in Bucket
  BY <1>2, <1>4 DEF IsArray
<1>6. Has(tbl.buckets[b], Of(InTable, b, n, fd), hh_next, hh_prev)
  BY <1>1, <1>4 DEF HashInv, BucketsAgree, Chained
<1>7. e \in Of(InTable, b, n, fd) /\ NULL \notin Of(InTable, b, n, fd)
  BY <1>1, HashAssumption DEF Of, ToBucket, Number
<1>8. QED
  BY <1>3, <1>4, <1>5, <1>6, <1>7

\* The table of a session in the pool is not empty.
LEMMA LookupBeginsKeeps ==
  ASSUME HashInv, NEW e \in Entries, LookupBegins(e)
  PROVE  HashInv'
<1>1. /\ e \in pooled /\ session' = e /\ hand' = head /\ expanded' = Expanding /\ rpc' = "table"
      /\ UNCHANGED <<listVars, chainVars, iterVars, allocated, fd, mpc, cur, pooled>>
  <2>1. e \in pooled
    BY DEF LookupBegins
  <2>2. QED
    BY <2>1, PooledIsInTable DEF LookupBegins, Reader, Expanding
<1>2. session' \in Refs /\ hand' \in Refs
  BY <1>1 DEF HashInv, Types, Refs
<1>3. Expanding' = Expanding
  BY <1>1 DEF Expanding
<1>4. ReaderAgrees'
  <2>1. ~expanded' => ~Expanding'
    BY <1>1, <1>3
  <2>2. QED
    BY <1>1, <2>1 DEF ReaderAgrees
<1>5. QED
  BY <1>1, <1>2, <1>4, WorkerKeeps

\* A lookup that reads what was freed finds nothing out.
LEMMA ReadsFreedKeeps ==
  ASSUME HashInv, ReadsFreed
  PROVE  HashInv'
<1>1. /\ rpc # "none" /\ rpc' = "freed" /\ hand' = NULL
      /\ UNCHANGED <<listVars, chainVars, iterVars, allocated, fd, mpc, cur, pooled>>
      /\ UNCHANGED <<session, expanded>>
  BY DEF ReadsFreed, Reader
<1>2. session' \in Refs /\ hand' \in Refs
  BY <1>1 DEF HashInv, Types, Refs
<1>3. Expanding' <=> Expanding
  BY <1>1 DEF Expanding
<1>4. ReaderAgrees'
  BY <1>1, <1>3 DEF HashInv, ReaderAgrees
<1>5. QED
  BY <1>1, <1>2, <1>4, WorkerKeeps

\* The number of the bucket is computed from the table as it is.
LEMMA LookupTableKeeps ==
  ASSUME HashInv, LookupTable
  PROVE  HashInv'
<1>1. /\ rpc = "table" /\ rpc' = "bucket" /\ hand' = hand /\ bkt' = ToBucket(session, NumBuckets)
      /\ UNCHANGED <<listVars, chainVars, iterVars, allocated, fd, mpc, cur, pooled>>
      /\ UNCHANGED <<session, expanded>>
  BY DEF LookupTable, Reader
<1>2. session' \in Refs /\ hand' \in Refs /\ session \in Entries /\ session \in pooled
  <2>1. session \in pooled
    BY <1>1 DEF HashInv, ReaderAgrees
  <2>2. QED
    BY <1>1, <2>1, PooledIsInTable DEF HashInv, Types
<1>3. (Expanding' <=> Expanding) /\ NumBuckets' = NumBuckets /\ fd' = fd
  BY <1>1 DEF Expanding, NumBuckets, chainVars
<1>4. ToBucket(session, NumBuckets) \in 0 .. NumBuckets - 1
  BY <1>2, BucketOf DEF HashInv, Types, IsArray
<1>5. ReaderAgrees'
  BY <1>1, <1>2, <1>3, <1>4 DEF HashInv, ReaderAgrees, ToBucket
<1>6. QED
  BY <1>1, <1>2, <1>5, WorkerKeeps

\* The bucket of the session is not empty, unless the table expanded.
LEMMA LookupBucketKeeps ==
  ASSUME HashInv, LookupBucket
  PROVE  HashInv'
<1> DEFINE n == NumBuckets
           first == tbl.buckets[bkt].hh_head
<1>1. /\ rpc = "bucket" /\ hand' = first /\ rpc' = IF first = NULL THEN "missed" ELSE "walk"
      /\ UNCHANGED <<listVars, chainVars, iterVars, allocated, fd, mpc, cur, pooled>>
      /\ UNCHANGED <<session, expanded, bkt>>
  BY DEF LookupBucket, Reader
<1>2. /\ session \in pooled /\ bkt \in 0 .. n - 1 /\ first \in Refs
      /\ ~expanded => ~Expanding /\ bkt = ToBucket(session, n)
  BY <1>1 DEF HashInv, ReaderAgrees, Types, IsArray, Bucket
<1>3. session' \in Refs /\ hand' \in Refs
  BY <1>1, <1>2 DEF HashInv, Types
<1>4. /\ Expanding' <=> Expanding
      /\ NumBuckets' = n /\ fd' = fd /\ InTable' = InTable
      /\ UNCHANGED <<tbl, hh_next, hh_prev>>
  BY <1>1 DEF Expanding, NumBuckets, chainVars, InTable
<1>5. ASSUME ~expanded PROVE first # NULL /\ Ahead'
  <2> DEFINE T == Of(InTable, bkt, n, fd)
  <2>1. first \in T /\ NULL \notin T /\ Leads(tbl.buckets[bkt], T, hh_next, hh_prev, first, session)
    <3>1. n = NumBuckets
      OBVIOUS
    <3> HIDE DEF n
    <3>2. /\ tbl.buckets[bkt] \in Bucket /\ Has(tbl.buckets[bkt], T, hh_next, hh_prev)
          /\ session \in T /\ NULL \notin T
      BY <1>2, <1>5, <3>1, InItsBucket
    <3> HIDE DEF T
    <3>3. QED
      BY <3>2, LeadsFirst
  <2>2. ToBucket(session, NumBuckets)' = bkt
    BY <1>1, <1>2, <1>4, <1>5 DEF ToBucket
  <2>3. Of(InTable', bkt, NumBuckets', fd') = T
    BY <1>4
  <2>4. hand' = first /\ session' = session
    BY <1>1
  <2> HIDE DEF T, first
  <2>5. QED
    BY <1>4, <2>1, <2>2, <2>3, <2>4 DEF Ahead
<1>6. ReaderAgrees'
  BY <1>1, <1>2, <1>4, <1>5 DEF ReaderAgrees
<1>7. QED
  BY <1>1, <1>3, <1>6, WorkerKeeps

\* The session is still ahead after an entry that is not it.
LEMMA LookupEntryKeeps ==
  ASSUME HashInv, LookupEntry
  PROVE  HashInv'
<1> DEFINE n == NumBuckets
           b == ToBucket(session, n)
           T == Of(InTable, b, n, fd)
           then == hh_next[hand]
<1>1. /\ rpc = "walk" /\ ~dangling
      /\ UNCHANGED <<listVars, chainVars, iterVars, allocated, fd, mpc, cur, pooled>>
      /\ UNCHANGED <<session, expanded, bkt>>
      /\ \/ rpc' = "found" /\ hand' = NULL
         \/ /\ fd[hand] # fd[session] /\ hand' = then
            /\ rpc' = IF then = NULL THEN "missed" ELSE "walk"
  BY DEF LookupEntry, Reader
<1>2. /\ session \in pooled /\ hand # NULL /\ then \in Refs
      /\ ~expanded => ~Expanding /\ Ahead
  BY <1>1 DEF HashInv, ReaderAgrees, Types, Refs
<1>3. session' \in Refs /\ hand' \in Refs
  BY <1>1, <1>2 DEF HashInv, Types, Refs
<1>4. /\ Expanding' <=> Expanding
      /\ NumBuckets' = n /\ fd' = fd /\ InTable' = InTable
      /\ UNCHANGED <<tbl, hh_next, hh_prev>>
  BY <1>1 DEF Expanding, NumBuckets, chainVars, InTable
<1>5. ASSUME ~expanded, fd[hand] # fd[session], hand' = then PROVE then # NULL /\ Ahead'
  <2>1. /\ tbl.buckets[b] \in Bucket /\ NULL \notin T
    BY <1>2, <1>5, InItsBucket
  <2>2. then \in T /\ Leads(tbl.buckets[b], T, hh_next, hh_prev, then, session)
    <3>1. CASE Leads(tbl.buckets[b], T, hh_next, hh_prev, hand, session)
      <4>1. hand # session
        BY <1>5
      <4> HIDE DEF T, b
      <4>2. QED
        BY <2>1, <3>1, <4>1, LeadsOn
    <3>2. CASE hand = cur /\ Leads(tbl.buckets[b], T, hh_next, hh_prev, hh_next[cur], session)
      <4>1. Leads(tbl.buckets[b], T, hh_next, hh_prev, then, session)
        BY <3>2
      <4>2. then \in T
        BY <4>1 DEF Leads
      <4>3. QED
        BY <4>1, <4>2
    <3>3. QED
      BY <1>2, <1>5, <3>1, <3>2 DEF Ahead
  <2>3. ToBucket(session, NumBuckets)' = b /\ session' = session
    BY <1>1, <1>4 DEF ToBucket
  <2>4. Of(InTable', b, NumBuckets', fd') = T
    BY <1>4
  <2> HIDE DEF T, b, then
  <2>5. QED
    BY <1>4, <1>5, <2>1, <2>2, <2>3, <2>4 DEF Ahead
<1>6. ReaderAgrees'
  BY <1>1, <1>2, <1>4, <1>5 DEF ReaderAgrees
<1>7. QED
  BY <1>1, <1>3, <1>6, WorkerKeeps

\* HASH_FIND_INT returns.
LEMMA LookupReturnsKeeps ==
  ASSUME HashInv, LookupReturns
  PROVE  HashInv'
<1>1. /\ rpc' = "none" /\ hand' = NULL /\ session' = NULL
      /\ UNCHANGED <<listVars, chainVars, iterVars, allocated, fd, mpc, cur, pooled>>
  BY DEF LookupReturns, Reader
<1>2. ReaderAgrees' /\ session' \in Refs /\ hand' \in Refs
  BY <1>1 DEF ReaderAgrees, Refs
<1>3. QED
  BY <1>1, <1>2, WorkerKeeps

-----------------------------------------------------------------------------
(* The inductive invariant *)

\* The table that was not made yet.
LEMMA InitInv ==
  ASSUME Init
  PROVE  HashInv
<1> USE DEF Init
<1>1. InitialBuckets \in Nat \ {0} /\ NULL \notin Entries
  BY HashAssumption
<1>2. IsArray(tbl.buckets, InitialBuckets)
  BY <1>1, EmptyArray DEF NewTable
<1>3. NumBuckets = InitialBuckets
  BY <1>2, ArraySize DEF NumBuckets
<1>4. Linked = {} /\ ~Expanding
  BY DEF Linked, Expanding
<1>5. fd \in [Entries -> Keys]
  <2>1. AnyKey \in Keys
    BY HashAssumption DEF AnyKey
  <2>2. QED
    BY <2>1
<1>6. Types
  <2>1. next \in [Entries -> Refs] /\ prev \in [Entries -> Refs]
        /\ hh_next \in [Entries -> Refs] /\ hh_prev \in [Entries -> Refs]
    BY DEF Refs
  <2>2. DOMAIN tbl = {"num_items", "tail", "buckets", "ineff_expands", "noexpand"}
    BY DEF NewTable
  <2>3. QED
    BY <1>2, <1>3, <1>4, <1>5, <2>1, <2>2 DEF Types, Refs, Places
<1>7. MainAgrees
  BY <1>1 DEF MainAgrees
<1>8. ListAgrees
  <2> DEFINE d == [j \in 1 .. 0 |-> NULL]
             z == 0
  <2>1. Chain(d, z, NULL, next, prev, {}) /\ d \in [1 .. z -> {}] /\ z \in Nat /\ ~(z > 0)
    BY EmptyChain
  <2>2. head = NULL
    OBVIOUS
  <2> HIDE DEF d, z, Init
  <2>3. QED
    BY <1>4, <2>1, <2>2 DEF ListAgrees
<1>9. BucketsAgree
  BY <1>4 DEF BucketsAgree
<1>10. IterAgrees
  BY DEF IterAgrees, IterIsFirst
<1>11. ReaderAgrees
  BY DEF ReaderAgrees
<1>12. QED
  BY <1>6, <1>7, <1>8, <1>9, <1>10, <1>11 DEF HashInv

\* A step of nobody.
LEMMA StutterKeeps ==
  ASSUME HashInv, UNCHANGED vars
  PROVE  HashInv'
<1>1. /\ UNCHANGED <<listVars, chainVars, iterVars, allocated, fd, mpc, cur, pooled>>
      /\ UNCHANGED readVars
  BY DEF vars
<1>2. /\ UNCHANGED <<hh_next, hh_prev, tbl, session, hand, fd, mpc, cur, pooled>>
      /\ InTable' = InTable /\ Expanding' = Expanding /\ NumBuckets' = NumBuckets
  BY <1>1 DEF chainVars, readVars, InTable, Expanding, NumBuckets
<1>3. Ahead => Ahead'
  BY <1>2, AheadStays
<1>4. rpc # "none" => session \in pooled' /\ (~expanded => ~Expanding')
  BY <1>2 DEF HashInv, ReaderAgrees
<1>5. ReaderAgrees'
  BY <1>1, <1>2, <1>3, <1>4, ReaderStays DEF HashInv
<1>6. session' \in Refs /\ hand' \in Refs
  BY <1>2 DEF HashInv, Types
<1>7. QED
  BY <1>1, <1>5, <1>6, WorkerKeeps

\* Every step keeps the invariant.
LEMMA StepInv ==
  ASSUME HashInv, [Next]_vars
  PROVE  HashInv'
<1>1. ASSUME NEW e \in Entries, NEW k \in Keys, AddEntry(e, k) PROVE HashInv'
  BY <1>1, AddEntryKeeps
<1>2. CASE AddToBucket
  BY <1>2, AddToBucketKeeps
<1>3. CASE ExpandBegins
  BY <1>3, ExpandBeginsKeeps
<1>4. CASE MoveItem
  BY <1>4, MoveItemKeeps
<1>5. CASE FreeOldBuckets
  BY <1>5, FreeOldBucketsKeeps
<1>6. CASE SwapBuckets
  BY <1>6, SwapBucketsKeeps
<1>7. CASE PoolAdd
  BY <1>7, PoolAddKeeps
<1>8. ASSUME NEW k \in Keys, Disconnect(k) PROVE HashInv'
  BY <1>8, DisconnectKeeps
<1>9. CASE Delete
  BY <1>9, DeleteKeeps
<1>10. CASE FreeEntry
  BY <1>10, FreeEntryKeeps
<1>11. CASE FinalizeBegins \/ FinalizeNext \/ IterReadsFreed
  BY <1>11, FinalizeKeeps
<1>12. CASE FinalizeBody
  BY <1>12, FinalizeBodyKeeps
<1>13. CASE ReadsFreed
  BY <1>13, ReadsFreedKeeps
<1>14. CASE LookupTable
  BY <1>14, LookupTableKeeps
<1>15. CASE LookupBucket
  BY <1>15, LookupBucketKeeps
<1>16. CASE LookupEntry
  BY <1>16, LookupEntryKeeps
<1>17. CASE LookupReturns
  BY <1>17, LookupReturnsKeeps
<1>18. ASSUME NEW e \in Entries, LookupBegins(e) PROVE HashInv'
  BY <1>18, LookupBeginsKeeps
<1>19. CASE UNCHANGED vars
  BY <1>19, StutterKeeps
<1>20. QED
  BY <1>1, <1>2, <1>3, <1>4, <1>5, <1>6, <1>7, <1>8, <1>9, <1>10, <1>11, <1>12, <1>13, <1>14,
     <1>15, <1>16, <1>17, <1>18, <1>19 DEF Next, MainThread, Worker

\* The inductive invariant. At every step of HASH_ADD_INT, HASH_DEL, HASH_ITER
\* and an expansion (server.c:87, 104, 116, 171; uthash.h:466-560, 752-763), the
\* links spell out chains that meet every entry once, and a lookup that no
\* expansion met has its session ahead of it.
THEOREM HashInvHolds == Spec => []HashInv
<1>1. Init => HashInv
  BY InitInv
<1>2. HashInv /\ [Next]_vars => HashInv'
  BY StepInv
<1>3. QED
  BY <1>1, <1>2, PTL DEF Spec

\* A worker that looks its session up without a lock while the main thread adds
\* and deletes others (server.c:31) finds it, for any number of sessions and any
\* interleaving, unless the table expands during that lookup.
THEOREM MissesOnlyInExpansion == Spec => []MissedOnlyInExpansion
<1>1. HashInv => MissedOnlyInExpansion
  BY DEF HashInv, ReaderAgrees, MissedOnlyInExpansion
<1>2. QED
  BY <1>1, HashInvHolds, PTL

-----------------------------------------------------------------------------
(* The table is sound *)

\* A line is as long as the set that it meets.
LEMMA LineSize ==
  ASSUME NEW c, NEW n, NEW first, NEW link, NEW S, Line(c, n, first, link, S)
  PROVE  Cardinality(S) = n /\ Cardinality(DOMAIN c) = n
<1>1. /\ n \in Nat /\ c \in [1 .. n -> S]
      /\ \A i, j \in 1 .. n : c[i] = c[j] => i = j
      /\ \A e \in S : \E i \in 1 .. n : c[i] = e
  BY DEF Line
<1>2. c \in Bijection(1 .. n, S)
  BY <1>1 DEF Bijection, Injection, Surjection, IsInjective
<1>3. ExistsBijection(1 .. n, S)
  BY <1>2 DEF ExistsBijection
<1>4. Cardinality(S) = n
  BY <1>1, <1>3, FS_CountingElements
<1>5. DOMAIN c = 1 .. n /\ Cardinality(1 .. n) = n
  BY <1>1, FS_Interval
<1>6. QED
  BY <1>4, <1>5

\* A chain passes the test of its links back.
LEMMA ChainLinksBack ==
  ASSUME NEW S \in SUBSET Entries, NEW link \in [Entries -> Refs], NEW back,
         NEW c, NEW n, NEW first, Chain(c, n, first, link, back, S)
  PROVE  LinksBack(link, back, first) /\ Along(link, first) = c
<1>1. Along(link, first) = c
  BY AlongLine DEF Chain
<1>2. DOMAIN c = 1 .. n
  BY DEF Chain, Line
<1>3. QED
  BY <1>1, <1>2 DEF LinksBack, Chain

\* What the invariant says of the table, in the words of uthash.
LEMMA TableSound ==
  ASSUME HashInv
  PROVE  TableIsSound
<1> DEFINE Still == {"idle", "pool_add", "delete", "free", "body", "iterate", "ended"}
<1>1. TypeOK
  <2>1. {head, cur, el, tmp, session, hand} \subseteq Refs
    BY DEF HashInv, Types
  <2>2. pooled \subseteq allocated /\ allocated \subseteq Entries /\ fd \in [Entries -> Keys]
    BY DEF HashInv, Types, MainAgrees
  <2>3. {next, prev, hh_next, hh_prev} \subseteq [Entries -> Refs]
    BY DEF HashInv, Types
  <2>4. QED
    BY <2>1, <2>2, <2>3 DEF TypeOK
<1>2. ASSUME mpc \in Still, head # NULL PROVE Fsck
  <2>1. /\ ~Expanding /\ InTable \subseteq allocated /\ Linked \in SUBSET Entries
        /\ allocated \in SUBSET Entries
        /\ next \in [Entries -> Refs] /\ hh_next \in [Entries -> Refs]
        /\ DOMAIN tbl.buckets = 0 .. NumBuckets - 1
    BY <1>2 DEF HashInv, Types, Expanding, InTable, Linked, IsArray
  <2>2. ASSUME NEW b \in DOMAIN tbl.buckets
        PROVE  /\ LinksBack(hh_next, hh_prev, tbl.buckets[b].hh_head)
               /\ tbl.buckets[b].count = Cardinality({e \in allocated : \E n \in
                    DOMAIN Along(hh_next, tbl.buckets[b].hh_head) :
                      Along(hh_next, tbl.buckets[b].hh_head)[n] = e})
    <3> DEFINE k == tbl.buckets[b].count
               first == tbl.buckets[b].hh_head
               S == Of(InTable, b, NumBuckets, fd)
    <3>1. Has(tbl.buckets[b], S, hh_next, hh_prev) /\ S \in SUBSET Entries /\ S \subseteq allocated
      BY <1>2, <2>1 DEF HashInv, BucketsAgree, Chained, Of
    <3> HIDE DEF S
    <3>2. PICK c \in [1 .. k -> S] : Chain(c, k, first, hh_next, hh_prev, S)
      BY <3>1 DEF Has
    <3>3. LinksBack(hh_next, hh_prev, first) /\ Along(hh_next, first) = c
      BY <2>1, <3>1, <3>2, ChainLinksBack
    <3>4. {e \in allocated : \E n \in DOMAIN c : c[n] = e} = S
      BY <3>1, <3>2 DEF Chain, Line
    <3>5. Cardinality(S) = k
      BY <3>2, LineSize DEF Chain
    <3>6. QED
      BY <3>3, <3>4, <3>5
  <2>3. LinksBack(next, prev, head) /\ tbl.num_items = Cardinality(DOMAIN Along(next, head))
    <3>1. PICK n \in Nat : \E c \in [1 .. n -> Linked] :
            /\ Chain(c, n, head, next, prev, Linked)
            /\ n > 0 => tbl.tail = c[n] /\ tbl.num_items = n - 0
      BY <1>2 DEF HashInv, ListAgrees
    <3>2. PICK c \in [1 .. n -> Linked] :
            /\ Chain(c, n, head, next, prev, Linked)
            /\ n > 0 => tbl.tail = c[n] /\ tbl.num_items = n - 0
      BY <3>1
    <3>3. n > 0
      BY <1>2, <3>2 DEF Chain, Line
    <3>4. tbl.num_items = n
      BY <3>1, <3>2, <3>3
    <3>5. LinksBack(next, prev, head) /\ Along(next, head) = c
      BY <2>1, <3>2, ChainLinksBack
    <3>6. Cardinality(DOMAIN c) = n
      BY <3>2, LineSize DEF Chain
    <3>7. QED
      BY <3>4, <3>5, <3>6
  <2>4. QED
    BY <2>2, <2>3 DEF Fsck
<1>3. ASSUME mpc \in Still, NEW k \in Keys
      PROVE  LET added == {e \in Linked : fd[e] = k}
             IN  IF added = {} THEN Find(k) = NULL ELSE Find(k) \in added
  <2>1. /\ Find(k) # NULL => Find(k) \in Linked /\ fd[Find(k)] = k
        /\ \A e \in Linked : fd[e] = k => Find(k) # NULL
    BY <1>3, FindFinds DEF HashInv
  <2>2. QED
    BY <2>1
<1>4. ASSUME mpc = "ended", ~shared PROVE head = NULL /\ allocated = {}
  <2>1. head = NULL /\ Linked = allocated
    BY <1>4 DEF HashInv, IterAgrees, IterIsFirst, Linked
  <2>2. QED
    BY <2>1, HeadIsNull DEF HashInv
<1>5. QED
  BY <1>1, <1>2, <1>3, <1>4 DEF TableIsSound, Fsck

\* Whatever was added, deleted and expanded before, the table passes HASH_FSCK
\* between two operations, HASH_FIND finds for every descriptor an entry that was
\* added for it, and server_finalize leaves no entry behind, unless two entries
\* have one number when it begins (server.c:53, 87, 104, 116, 171).
THEOREM TableStaysSound == Spec => []TableIsSound
<1>1. HashInv => TableIsSound
  BY TableSound
<1>2. QED
  BY <1>1, HashInvHolds, PTL
==============================================================================
