----------------------------- MODULE SessionHash -----------------------------
(***************************************************************************)
(* server->session_hash, the uthash table of src/server/server.c, as       *)
(* memory: entries with their links in insertion order (next, prev) and in *)
(* their bucket (hh_next, hh_prev), and the array of buckets, which grows. *)
(*                                                                         *)
(* The main thread adds, deletes and iterates (HASH_ADD_INT, HASH_DEL,     *)
(* HASH_ITER); meanwhile a worker of the pool may be inside HASH_FIND_INT  *)
(* for the session it processes, without any lock. The writer is cut into  *)
(* the steps a reader can tell apart.                                      *)
(***************************************************************************)
EXTENDS HashJen, Sequences, FiniteSets

CONSTANTS
  Entries,         \* the addresses a SessionHash may have
  NULL,
  HashValue,       \* what HASH_VALUE gives for every descriptor, in its low half
  InitialBuckets,  \* HASH_INITIAL_NUM_BUCKETS
  Threshold,       \* HASH_BKT_CAPACITY_THRESH
  MaxBuckets       \* bound on the buckets of a table that gets another entry

Keys == DOMAIN HashValue

ASSUME HashAssumption ==
  /\ NULL \notin Entries /\ IsFiniteSet(Entries)
  /\ Keys # {} /\ HashValue \in [Keys -> 0 .. Half - 1]
  /\ \A k \in Keys : HashValue[k] = HashOfDescriptor(k)
  /\ InitialBuckets \in Nat \ {0} /\ Threshold \in Nat \ {0} /\ MaxBuckets \in Nat

VARIABLES
  head,           \* server->session_hash
  allocated,      \* the entries that were allocated and not freed
  fd,             \* the key of every entry
  next, prev,     \* its neighbours in insertion order
  hh_next, hh_prev,  \* its neighbours in its bucket
  tbl,            \* the table: num_items, tail, buckets, ineff_expands, noexpand
  buckets_freed,  \* tbl->buckets points to the array that was freed
  expansion,      \* HASH_EXPAND_BUCKETS: the item to move and the new buckets
  mpc, cur,       \* where the main thread is, and with which entry
  el, tmp,        \* the cursors of HASH_ITER
  shared,         \* history: two entries had one key when HASH_ITER began
  pooled,         \* the entries whose session is in the session pool
  rpc, session,   \* where the worker is in HASH_FIND_INT, and for which entry
  hand, bkt,      \* the entry and the number of the bucket it has loaded
  dangling,       \* that entry was freed since
  expanded        \* the table was being expanded during this lookup

listVars  == <<head, next, prev>>
chainVars == <<hh_next, hh_prev, tbl, buckets_freed, expansion>>
readVars  == <<rpc, session, hand, bkt, dangling, expanded>>
iterVars  == <<el, tmp, shared>>
vars == <<listVars, chainVars, readVars, iterVars, allocated, fd, mpc, cur, pooled>>

Refs == Entries \cup {NULL}

EmptyBuckets(n) == [b \in 0 .. n - 1 |-> [hh_head |-> NULL, count |-> 0, expand_mult |-> 0]]

\* HASH_MAKE_TABLE, and what stands for the table when there is none.
NewTable(e) ==
  [num_items |-> 0, tail |-> e, buckets |-> EmptyBuckets(InitialBuckets),
   ineff_expands |-> 0, noexpand |-> FALSE]

AnyKey == CHOOSE k \in Keys : TRUE

NumBuckets == Cardinality(DOMAIN tbl.buckets)

Init ==
  /\ head = NULL
  /\ allocated = {} /\ pooled = {}
  /\ fd = [e \in Entries |-> AnyKey]
  /\ next = [e \in Entries |-> NULL] /\ prev = next
  /\ hh_next = next /\ hh_prev = next
  /\ tbl = NewTable(NULL)
  /\ buckets_freed = FALSE
  /\ expansion = [item |-> NULL, from |-> 0, buckets |-> <<>>, nonideal |-> 0]
  /\ mpc = "idle" /\ cur = NULL
  /\ el = NULL /\ tmp = NULL /\ shared = FALSE
  /\ rpc = "none" /\ session = NULL /\ hand = NULL /\ bkt = 0
  /\ dangling = FALSE /\ expanded = FALSE

\* p->field = v, where p may be NULL and is then not written through.
Store(field, p, v) == IF p = NULL THEN field ELSE [field EXCEPT ![p] = v]

\* HASH_TO_BKT: num_buckets is a power of two.
ToBucket(e, num_buckets) == HashValue[fd[e]] % num_buckets

-----------------------------------------------------------------------------
(* HASH_ADD_INT: handle_new_connection *)

\* HASH_MAKE_TABLE for the first entry, HASH_APPEND_LIST for any other. There
\* may be an entry with this key: server_process_session closes the socket of a
\* session whose callback fails and keeps the entry, and the kernel gives the
\* number to the next client.
AddEntry(e, k) ==
  /\ mpc = "idle"
  /\ e \notin allocated
  /\ NumBuckets <= MaxBuckets
  /\ allocated' = allocated \cup {e}
  /\ fd' = [fd EXCEPT ![e] = k]
  /\ IF head = NULL
       THEN /\ head' = e
            /\ tbl' = NewTable(e)
            /\ UNCHANGED <<next, prev>>
       ELSE /\ prev' = [prev EXCEPT ![e] = tbl.tail]
            /\ next' = [next EXCEPT ![tbl.tail] = e]
            /\ tbl' = [tbl EXCEPT !.tail = e]
            /\ UNCHANGED head
  /\ cur' = e
  /\ mpc' = "to_bucket"
  /\ UNCHANGED <<hh_next, hh_prev, buckets_freed, expansion, readVars, iterVars, pooled>>

\* Mutant of LinkBefore: the rest of the chain is not linked.
LinkBeforeNothing(e, first) ==
  /\ hh_next' = [hh_next EXCEPT ![e] = NULL]
  /\ hh_prev' = Store([hh_prev EXCEPT ![e] = NULL], first, e)

\* Mutant of LinkBefore: the bucket gets its new first entry too early.
LinkBeforeSelf(e, first) ==
  /\ hh_next' = [hh_next EXCEPT ![e] = e]
  /\ hh_prev' = Store([hh_prev EXCEPT ![e] = NULL], first, e)

\* An entry becomes the first of a chain that begins with first.
LinkBefore(e, first) ==
  /\ hh_next' = [hh_next EXCEPT ![e] = first]
  /\ hh_prev' = Store([hh_prev EXCEPT ![e] = NULL], first, e)

\* The first entry of the buckets from number b on, as HASH_EXPAND_BUCKETS
\* meets it.
FirstItem(b) ==
  LET nonempty == {c \in b .. NumBuckets - 1 : tbl.buckets[c].hh_head # NULL}
      first == CHOOSE c \in nonempty : \A d \in nonempty : c <= d
  IN  IF nonempty = {} THEN [item |-> NULL, from |-> 0]
                       ELSE [item |-> tbl.buckets[first].hh_head, from |-> first]

\* HASH_ADD_TO_TABLE and HASH_ADD_TO_BKT, up to the test for an expansion.
AddToBucket ==
  /\ mpc = "to_bucket"
  /\ LET b      == ToBucket(cur, NumBuckets)
         bucket == tbl.buckets[b]
         full   == bucket.count + 1 >= (bucket.expand_mult + 1) * Threshold
     IN  /\ LinkBefore(cur, bucket.hh_head)
         /\ tbl' = [tbl EXCEPT !.num_items = @ + 1,
                               !.buckets[b].hh_head = cur, !.buckets[b].count = @ + 1]
         /\ mpc' = IF full /\ ~tbl.noexpand THEN "expand" ELSE "pool_add"
  /\ UNCHANGED <<listVars, allocated, fd, buckets_freed, expansion, readVars, iterVars,
                 cur, pooled>>

\* HASH_EXPAND_BUCKETS begins: the new array.
ExpandBegins ==
  /\ mpc = "expand"
  /\ LET first == FirstItem(0)
     IN  expansion' = [item |-> first.item, from |-> first.from,
                       buckets |-> EmptyBuckets(2 * NumBuckets), nonideal |-> 0]
  /\ mpc' = "move"
  /\ expanded' = (rpc # "none")
  /\ UNCHANGED <<listVars, hh_next, hh_prev, tbl, buckets_freed, allocated, fd, iterVars,
                 cur, pooled, rpc, session, hand, bkt, dangling>>

\* ceil(num_items / (2 * num_buckets)).
IdealChainMaxlen == (tbl.num_items + 2 * NumBuckets - 1) \div (2 * NumBuckets)

\* One item moves to its new bucket; the old array still has its first items.
MoveItem ==
  LET e        == expansion.item
      b        == ToBucket(e, 2 * NumBuckets)
      bucket   == expansion.buckets[b]
      count    == bucket.count + 1
      nonideal == count > IdealChainMaxlen
      late     == nonideal /\ count > bucket.expand_mult * IdealChainMaxlen
      one(p)   == IF p THEN 1 ELSE 0
      then     == IF hh_next[e] = NULL THEN FirstItem(expansion.from + 1)
                  ELSE [item |-> hh_next[e], from |-> expansion.from]
  IN
  /\ mpc = "move"
  /\ e # NULL
  /\ LinkBefore(e, bucket.hh_head)
  /\ expansion' =
       [item     |-> then.item,
        from     |-> then.from,
        buckets  |-> [expansion.buckets EXCEPT ![b] =
                        [hh_head |-> e, count |-> count,
                         expand_mult |-> bucket.expand_mult + one(late)]],
        nonideal |-> expansion.nonideal + one(nonideal)]
  /\ UNCHANGED <<listVars, tbl, buckets_freed, allocated, fd, readVars, iterVars, mpc, cur,
                 pooled>>

\* The old array is freed before tbl->buckets leaves it.
FreeOldBuckets ==
  /\ mpc = "move"
  /\ expansion.item = NULL
  /\ buckets_freed' = TRUE
  /\ mpc' = "swap"
  /\ UNCHANGED <<listVars, hh_next, hh_prev, tbl, expansion, allocated, fd, readVars,
                 iterVars, cur, pooled>>

SwapBuckets ==
  /\ mpc = "swap"
  /\ LET ineff == IF expansion.nonideal > tbl.num_items \div 2
                  THEN tbl.ineff_expands + 1 ELSE 0
     IN  tbl' = [tbl EXCEPT !.buckets = expansion.buckets, !.ineff_expands = ineff,
                            !.noexpand = @ \/ ineff > 1]
  /\ buckets_freed' = FALSE
  /\ expansion' = [item |-> NULL, from |-> 0, buckets |-> <<>>, nonideal |-> 0]
  /\ mpc' = "pool_add"
  /\ UNCHANGED <<listVars, hh_next, hh_prev, allocated, fd, readVars, iterVars, cur, pooled>>

\* spool_add_session, which waits for a worker that holds the pool mutex.
PoolAdd ==
  /\ mpc = "pool_add"
  /\ rpc = "none"
  /\ pooled' = pooled \cup {cur}
  /\ mpc' = "idle"
  /\ cur' = NULL
  /\ UNCHANGED <<listVars, chainVars, readVars, iterVars, allocated, fd>>

-----------------------------------------------------------------------------
(* HASH_FIND_INT on the main thread, and HASH_DEL: handle_disconnect *)

\* The entries from e on along a link.
Along(link, e) ==
  LET at[n \in 0 .. Cardinality(Entries)] ==
        IF n = 0 THEN e ELSE IF at[n - 1] = NULL THEN NULL ELSE link[at[n - 1]]
      size == Cardinality({n \in 0 .. Cardinality(Entries) - 1 : at[n] # NULL})
  IN  [n \in 1 .. size |-> at[n - 1]]

\* HASH_FIND_IN_BKT: the first match in the bucket of the key.
Find(k) ==
  LET chain   == Along(hh_next, tbl.buckets[HashValue[k] % NumBuckets].hh_head)
      matches == {n \in DOMAIN chain : fd[chain[n]] = k}
  IN  IF head = NULL \/ matches = {} THEN NULL
      ELSE chain[CHOOSE n \in matches : \A m \in matches : n <= m]

\* spool_remove_session, which waits for a worker that holds the pool mutex:
\* it may be processing this very session.
RemoveFromPool(e) ==
  /\ rpc = "none"
  /\ pooled' = pooled \ {e}
  /\ cur' = e
  /\ UNCHANGED <<listVars, chainVars, readVars, allocated, fd>>

Disconnect(k) ==
  /\ mpc = "idle"
  /\ Find(k) # NULL
  /\ RemoveFromPool(Find(k))
  /\ mpc' = "delete"
  /\ UNCHANGED iterVars

\* Mutant of DelInBucket: a removed first entry stays the first.
DelInBucketKeepsFirst(b) == [tbl.buckets[b] EXCEPT !.count = @ - 1]

\* HASH_DEL_IN_BKT.
DelInBucket(b) ==
  [tbl.buckets[b] EXCEPT !.count = @ - 1,
                         !.hh_head = IF @ = cur THEN hh_next[cur] ELSE @]

\* HASH_DELETE_HH: the last entry takes the table with it.
Delete ==
  /\ mpc = "delete"
  /\ IF prev[cur] = NULL /\ next[cur] = NULL
       THEN /\ head' = NULL
            /\ tbl' = NewTable(NULL)
            /\ UNCHANGED <<next, prev, hh_next, hh_prev>>
       ELSE /\ head' = IF prev[cur] = NULL THEN next[cur] ELSE head
            /\ next' = Store(next, prev[cur], next[cur])
            /\ prev' = Store(prev, next[cur], prev[cur])
            /\ hh_next' = Store(hh_next, hh_prev[cur], hh_next[cur])
            /\ hh_prev' = Store(hh_prev, hh_next[cur], hh_prev[cur])
            /\ LET b == ToBucket(cur, NumBuckets)
               IN  tbl' = [tbl EXCEPT !.tail = IF @ = cur THEN prev[cur] ELSE @,
                                      !.num_items = @ - 1,
                                      !.buckets[b] = DelInBucket(b)]
  /\ mpc' = "free"
  /\ UNCHANGED <<buckets_freed, expansion, readVars, iterVars, allocated, fd, cur, pooled>>

\* free(conn_hash). What is read from it afterwards is anything.
FreeEntry ==
  /\ mpc = "free"
  /\ allocated' = allocated \ {cur}
  /\ fd' = [fd EXCEPT ![cur] = AnyKey]
  /\ next' = [next EXCEPT ![cur] = NULL] /\ prev' = [prev EXCEPT ![cur] = NULL]
  /\ hh_next' = [hh_next EXCEPT ![cur] = NULL] /\ hh_prev' = [hh_prev EXCEPT ![cur] = NULL]
  /\ dangling' = (dangling \/ (rpc # "none" /\ hand = cur))
  /\ mpc' = IF el = NULL THEN "idle" ELSE "iterate"
  /\ cur' = NULL
  /\ UNCHANGED <<head, tbl, buckets_freed, expansion, iterVars, pooled, rpc, session,
                 hand, bkt, expanded>>

-----------------------------------------------------------------------------
(* HASH_ITER with handle_disconnect as its body: server_finalize *)

FinalizeBegins ==
  /\ mpc = "idle"
  /\ el' = head
  /\ tmp' = IF head = NULL THEN NULL ELSE next[head]
  /\ shared' = (\E e, f \in allocated : e # f /\ fd[e] = fd[f])
  /\ mpc' = IF head = NULL THEN "ended" ELSE "body"
  /\ UNCHANGED <<listVars, chainVars, readVars, allocated, fd, cur, pooled>>

\* Of two entries with one key handle_disconnect deletes the one it finds.
FinalizeBody ==
  /\ mpc = "body"
  /\ RemoveFromPool(Find(fd[el]))
  /\ mpc' = "delete"
  /\ UNCHANGED iterVars

FinalizeNext ==
  /\ mpc = "iterate"
  /\ tmp \in allocated \cup {NULL}
  /\ el' = tmp
  /\ tmp' = IF tmp = NULL THEN NULL ELSE next[tmp]
  /\ mpc' = IF tmp = NULL THEN "ended" ELSE "body"
  /\ UNCHANGED <<listVars, chainVars, readVars, allocated, fd, cur, pooled, shared>>

\* The body has freed the entry that the loop saved: it reads freed memory.
IterReadsFreed ==
  /\ mpc = "iterate"
  /\ tmp \notin allocated \cup {NULL}
  /\ mpc' = "undefined"
  /\ UNCHANGED <<listVars, chainVars, readVars, iterVars, allocated, fd, cur, pooled>>

-----------------------------------------------------------------------------
(* HASH_FIND_INT on a worker: server_is_session_active *)

Reader(step, e) ==
  /\ rpc' = step
  /\ hand' = e
  /\ dangling' = FALSE
  /\ UNCHANGED <<listVars, chainVars, iterVars, allocated, fd, mpc, cur, pooled>>

\* It loads server->session_hash.
LookupBegins(e) ==
  /\ rpc = "none"
  /\ e \in pooled
  /\ Reader(IF head = NULL THEN "missed" ELSE "table", head)
  /\ session' = e
  /\ expanded' = (mpc \in {"move", "swap"})
  /\ UNCHANGED bkt

\* What it reads through a freed entry or array is a use after free.
ReadsFreed ==
  /\ \/ rpc \in {"table", "bucket", "walk"} /\ dangling
     \/ rpc = "bucket" /\ buckets_freed
  /\ Reader("freed", NULL)
  /\ UNCHANGED <<session, bkt, expanded>>

LookupTable ==
  /\ rpc = "table" /\ ~dangling
  /\ bkt' = ToBucket(session, NumBuckets)
  /\ Reader("bucket", hand)
  /\ UNCHANGED <<session, expanded>>

LookupBucket ==
  /\ rpc = "bucket" /\ ~dangling /\ ~buckets_freed
  /\ LET first == tbl.buckets[bkt].hh_head
     IN  Reader(IF first = NULL THEN "missed" ELSE "walk", first)
  /\ UNCHANGED <<session, bkt, expanded>>

LookupEntry ==
  /\ rpc = "walk" /\ ~dangling
  /\ IF fd[hand] = fd[session] THEN Reader("found", NULL)
     ELSE Reader(IF hh_next[hand] = NULL THEN "missed" ELSE "walk", hh_next[hand])
  /\ UNCHANGED <<session, bkt, expanded>>

LookupReturns ==
  /\ rpc \in {"found", "missed", "freed"}
  /\ Reader("none", NULL)
  /\ session' = NULL
  /\ bkt' = 0
  /\ expanded' = FALSE

-----------------------------------------------------------------------------
MainThread ==
  \/ \E e \in Entries, k \in Keys : AddEntry(e, k)
  \/ AddToBucket \/ ExpandBegins \/ MoveItem \/ FreeOldBuckets \/ SwapBuckets \/ PoolAdd
  \/ \E k \in Keys : Disconnect(k)
  \/ Delete \/ FreeEntry
  \/ FinalizeBegins \/ FinalizeBody \/ FinalizeNext \/ IterReadsFreed

Worker ==
  \/ ReadsFreed \/ LookupTable \/ LookupBucket \/ LookupEntry \/ LookupReturns

Next ==
  \/ MainThread
  \/ Worker
  \/ \E e \in Entries : LookupBegins(e)
  \/ mpc \in {"ended", "undefined"} /\ UNCHANGED vars

Spec == Init /\ [][Next]_vars

\* A worker inside the macro goes on, whatever the main thread does.
Fairness == WF_vars(Worker)

FairSpec == Spec /\ Fairness

-----------------------------------------------------------------------------
(* Properties *)

LinksBack(link, back, e) ==
  LET chain == Along(link, e)
  IN  \A n \in DOMAIN chain : back[chain[n]] = IF n = 1 THEN NULL ELSE chain[n - 1]

\* HASH_FSCK, which uthash runs after every change when it is being debugged.
Fsck ==
  head # NULL =>
    /\ \A b \in DOMAIN tbl.buckets :
         /\ LinksBack(hh_next, hh_prev, tbl.buckets[b].hh_head)
         /\ tbl.buckets[b].count = Cardinality({e \in allocated : \E n \in
              DOMAIN Along(hh_next, tbl.buckets[b].hh_head) :
                Along(hh_next, tbl.buckets[b].hh_head)[n] = e})
    /\ LinksBack(next, prev, head)
    /\ tbl.num_items = Cardinality(DOMAIN Along(next, head))

\* The entries in the table: between HASH_DEL and free one less than allocated.
Linked == allocated \ (IF mpc = "free" THEN {cur} ELSE {})

TypeOK ==
  /\ {head, cur, el, tmp, session, hand} \subseteq Refs
  /\ pooled \subseteq allocated /\ allocated \subseteq Entries
  /\ fd \in [Entries -> Keys]
  /\ {next, prev, hh_next, hh_prev} \subseteq [Entries -> Refs]

\* Whatever was added, deleted and expanded before: between two operations the
\* table is sound by uthash's own test, HASH_FIND finds for every descriptor an
\* entry that was added for it if there is one, and the HASH_ITER of
\* server_finalize leaves no entry behind (server.c:87, 104, 116, 171). The last
\* is not so where two entries have one number at that time, since a callback
\* has failed (server.c:53): the loop may then leave one behind, or read a freed
\* one, after which nothing is said.
TableIsSound ==
  /\ TypeOK
  /\ mpc \in {"idle", "pool_add", "delete", "free", "body", "iterate", "ended"} =>
       /\ Fsck
       /\ \A k \in Keys :
            LET added == {e \in Linked : fd[e] = k}
            IN  IF added = {} THEN Find(k) = NULL ELSE Find(k) \in added
  /\ mpc = "ended" /\ ~shared => head = NULL /\ allocated = {}

\* A worker looks its session up without a lock (server.c:31), and the session
\* stays in the table all the while. Entries added and deleted around it never
\* hide it, even when the lookup has one of them in hand: only an expansion of
\* the table during the lookup does.
MissedOnlyInExpansion == rpc = "missed" => expanded

\* A lookup ends, even one whose chain is moved under it (uthash.h:752-763).
LookupEnds == rpc # "none" ~> rpc = "none"
=============================================================================
