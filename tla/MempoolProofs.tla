---------------------------- MODULE MempoolProofs ----------------------------
(***************************************************************************)
(* Theorems about the mempool listener, for any hashes, pools, caps, any   *)
(* window and any number of overlapping block handlers.                    *)
(***************************************************************************)
EXTENDS Mempool, FiniteSetTheorems, TLAPS

Entries == [txCount : Nat, block : Int]

(* The transactions whose handler ended, per pool.                          *)
EndedFor(ended, p) == {h \in ended : PoolOf[h] = p}

(* The type invariant with what it leaves implicit: only finitely many      *)
(* events came, and the activity is a map.                                  *)
MInv ==
    /\ MempoolTypeOK
    /\ IsFiniteSet(announced)
    /\ activity \in [Pools -> Entries]
    /\ ActivityInWindow

(* An entry counts at most the ended transactions of its pool.              *)
GoodEntry(p) ==
    activity[p] = NoEntry \/
        /\ activity[p].block \in 0..lastBlock
        /\ activity[p].txCount \in 1..Cardinality(EndedFor(announced \ fetching, p))

(* Every entry of a well-typed map is good.                                 *)
LEMMA EntriesGood == MempoolTypeOK => \A p \in Pools : GoodEntry(p)
BY DEF MempoolTypeOK, GoodEntry, EndedFor

(* Steps that leave the listener's maps and the events alone.               *)
LEMMA MapsUntouched ==
    ASSUME MInv, UNCHANGED <<announced, fetching, pending, activity, lastBlock, snapshot, recorded>>,
           head' \in 0..MaxBlock, handler' \in [Handlers -> {Idle, Asked} \union 0..MaxBlock]
    PROVE  MInv'
BY DEF MInv, MempoolTypeOK, ActivityInWindow, Counted, NoEntry, Entries

(* One more transaction of a pool.                                          *)
LEMMA OneMoreEnded ==
    ASSUME NEW ended, IsFiniteSet(ended), NEW h, h \notin ended, NEW p \in Pools
    PROVE  /\ Cardinality(EndedFor(ended, p)) \in Nat
           /\ Cardinality(EndedFor(ended \union {h}, p)) \in Nat
           /\ Cardinality(EndedFor(ended \union {h}, p)) >= Cardinality(EndedFor(ended, p))
           /\ PoolOf[h] = p => Cardinality(EndedFor(ended \union {h}, p))
                                 = Cardinality(EndedFor(ended, p)) + 1
<1>1. IsFiniteSet(EndedFor(ended, p))
  BY FS_Subset DEF EndedFor
<1>2. Cardinality(EndedFor(ended, p)) \in Nat
  BY <1>1, FS_CardinalityType
<1>3. CASE PoolOf[h] = p
  <2>1. EndedFor(ended \union {h}, p) = EndedFor(ended, p) \union {h} /\ h \notin EndedFor(ended, p)
    BY <1>3 DEF EndedFor
  <2>2. Cardinality(EndedFor(ended, p) \union {h}) = Cardinality(EndedFor(ended, p)) + 1
    BY <2>1, <1>1, FS_AddElement
  <2>3. Cardinality(EndedFor(ended \union {h}, p)) = Cardinality(EndedFor(ended, p)) + 1
    BY <2>1, <2>2
  <2> QED BY <1>2, <2>3
<1>4. CASE PoolOf[h] # p
  <2>1. EndedFor(ended \union {h}, p) = EndedFor(ended, p)
    BY <1>4 DEF EndedFor
  <2> QED BY <2>1, <1>2, <1>4
<1> QED BY <1>3, <1>4

(* Announcing a pending transaction keeps the invariant.                    *)
LEMMA AnnounceKeeps ==
    ASSUME MInv, NEW h \in Hashes, Announce(h)
    PROVE  MInv'
<1> USE DEF MInv, Announce
<1>1. IsFiniteSet(announced')
  BY FS_AddElement
<1>2. announced' \ fetching' = announced \ fetching
  BY DEF MempoolTypeOK
<1>3. MempoolTypeOK'
  BY <1>2 DEF MempoolTypeOK
<1> QED BY <1>1, <1>3 DEF ActivityInWindow, Counted, NoEntry

(* A handler that ends without a swap leaves every entry in its bound.      *)
LEMMA FetchEnds ==
    ASSUME MInv, NEW h \in fetching, fetching' = fetching \ {h}, UNCHANGED announced,
           NEW p \in Pools
    PROVE  /\ Cardinality(EndedFor(announced \ fetching, p)) \in Nat
           /\ Cardinality(EndedFor((announced \ fetching)', p)) \in Nat
           /\ Cardinality(EndedFor((announced \ fetching)', p))
                >= Cardinality(EndedFor(announced \ fetching, p))
           /\ PoolOf[h] = p => Cardinality(EndedFor((announced \ fetching)', p))
                                 = Cardinality(EndedFor(announced \ fetching, p)) + 1
<1>1. h \in announced /\ h \notin announced \ fetching
  BY DEF MInv, MempoolTypeOK
<1>2. EndedFor((announced \ fetching)', p) = EndedFor((announced \ fetching) \union {h}, p)
  <2>1. (announced \ fetching)' = (announced \ fetching) \union {h}
    BY <1>1
  <2> QED BY <2>1 DEF EndedFor
<1>3. IsFiniteSet(announced \ fetching)
  BY FS_Subset DEF MInv
<1> DEFINE ended == announced \ fetching
<1>4. /\ Cardinality(EndedFor(ended, p)) \in Nat
      /\ Cardinality(EndedFor(ended \union {h}, p)) \in Nat
      /\ Cardinality(EndedFor(ended \union {h}, p)) >= Cardinality(EndedFor(ended, p))
      /\ PoolOf[h] = p => Cardinality(EndedFor(ended \union {h}, p))
                            = Cardinality(EndedFor(ended, p)) + 1
  <2> HIDE DEF ended
  <2>1. IsFiniteSet(ended) /\ h \notin ended
    BY <1>1, <1>3 DEF ended
  <2> QED BY <2>1, OneMoreEnded
<1> QED BY <1>2, <1>4

(* A failed fetch keeps it.                                                 *)
LEMMA FetchFailsKeeps ==
    ASSUME MInv, NEW h \in Hashes, FetchFails(h)
    PROVE  MInv'
<1> USE DEF FetchFails
<1>1. \A p \in Pools : GoodEntry(p)'
  <2> TAKE p \in Pools
  <2>1. GoodEntry(p)
    BY EntriesGood DEF MInv
  <2>2. Cardinality(EndedFor((announced \ fetching)', p))
          >= Cardinality(EndedFor(announced \ fetching, p))
        /\ Cardinality(EndedFor((announced \ fetching)', p)) \in Nat
        /\ Cardinality(EndedFor(announced \ fetching, p)) \in Nat
    BY FetchEnds
  <2> QED BY <2>1, <2>2 DEF GoodEntry, NoEntry
<1>2. recorded \subseteq (announced \ fetching)'
  BY DEF MInv, MempoolTypeOK
<1>3. MempoolTypeOK'
  BY <1>1, <1>2 DEF MInv, MempoolTypeOK, GoodEntry, EndedFor
<1> QED BY <1>3 DEF MInv, ActivityInWindow, Counted, NoEntry

(* Cutting the map keeps it below the cap.                                  *)
LEMMA CappedIsCapped ==
    ASSUME NEW swaps, NEW kept \in Capped(swaps)
    PROVE  kept \subseteq swaps /\ Cardinality(kept) <= PendingCap
BY MempoolAssumption DEF Capped

(* A fetched swap, with the cut to the cap, keeps it.                       *)
LEMMA FetchedKeeps ==
    ASSUME MInv, NEW h \in Hashes, Fetched(h)
    PROVE  MInv'
<1>1. lastBlock \in Nat /\ PoolOf[h] \in Pools /\ WINDOW_BLOCKS \in Nat
  BY MempoolAssumption DEF MInv, MempoolTypeOK
<1>2. pending' \subseteq pending \union {h} /\ Cardinality(pending') <= PendingCap
  BY CappedIsCapped DEF Fetched
<1>3. pending' \subseteq recorded' /\ recorded' \subseteq (announced \ fetching)'
  BY <1>2 DEF Fetched, MInv, MempoolTypeOK
<1>4. ASSUME NEW p \in Pools
      PROVE  activity'[p] = activity[p] \/
                /\ p = PoolOf[h]
                /\ activity'[p].txCount = activity[p].txCount + 1
                /\ activity[p] = NoEntry => activity'[p].block = lastBlock
                /\ activity[p] # NoEntry => activity'[p].block = activity[p].block
  <2>1. CASE activity' = activity
    BY <2>1
  <2>2. CASE p # PoolOf[h]
    BY <2>2 DEF Fetched, MInv
  <2>3. CASE activity' # activity /\ p = PoolOf[h]
    <3>1. activity'[p] = [txCount |-> activity[p].txCount + 1,
                          block |-> IF activity[p] = NoEntry THEN lastBlock ELSE activity[p].block]
      BY <2>3, <1>1 DEF Fetched, MInv
    <3> QED BY <2>3, <3>1
  <2> QED BY <2>1, <2>2, <2>3
<1>5. activity' \in [Pools -> Entries]
  BY <1>1 DEF Fetched, MInv, Entries
<1>6. \A p \in Pools : GoodEntry(p)'
  <2> TAKE p \in Pools
  <2>1. GoodEntry(p)
    BY EntriesGood DEF MInv
  <2>2. h \in fetching /\ fetching' = fetching \ {h} /\ announced' = announced /\ lastBlock' = lastBlock
    BY DEF Fetched
  <2> DEFINE n == Cardinality(EndedFor(announced \ fetching, p))
             m == Cardinality(EndedFor((announced \ fetching)', p))
  <2>3. m >= n /\ m \in Nat /\ n \in Nat /\ (PoolOf[h] = p => m = n + 1)
    BY <2>2, FetchEnds
  <2>4. CASE activity'[p] = activity[p]
    BY <2>1, <2>2, <2>3, <2>4 DEF GoodEntry, NoEntry
  <2>5. CASE activity'[p] # activity[p]
    <3>1. /\ p = PoolOf[h] /\ activity'[p].txCount = activity[p].txCount + 1
          /\ activity[p] = NoEntry => activity'[p].block = lastBlock
          /\ activity[p] # NoEntry => activity'[p].block = activity[p].block
      BY <1>4, <2>5
    <3>2. activity[p].txCount \in 0..n
      BY <2>1, <2>3 DEF GoodEntry, NoEntry
    <3>3. activity'[p].txCount \in 1..m
      <4> HIDE DEF n, m
      <4> QED BY <2>3, <3>1, <3>2
    <3>4. activity'[p].block \in 0..lastBlock
      BY <1>1, <2>1, <3>1 DEF GoodEntry
    <3> QED BY <2>2, <3>3, <3>4 DEF GoodEntry
  <2> QED BY <2>4, <2>5
<1>7. MempoolTypeOK'
  BY <1>2, <1>3, <1>6 DEF Fetched, MInv, MempoolTypeOK, GoodEntry, EndedFor
<1>8. ActivityInWindow'
  <2> SUFFICES ASSUME NEW p \in Pools, activity'[p] # NoEntry
               PROVE  lastBlock - activity'[p].block <= WINDOW_BLOCKS
    BY DEF ActivityInWindow, Counted, Fetched
  <2>1. CASE activity[p] = NoEntry
    BY <1>1, <1>4, <2>1 DEF NoEntry
  <2>2. CASE activity[p] # NoEntry
    <3>1. lastBlock - activity[p].block <= WINDOW_BLOCKS
      BY <2>2 DEF MInv, ActivityInWindow, Counted
    <3> QED BY <1>4, <2>2, <3>1
  <2> QED BY <2>1, <2>2
<1> QED BY <1>5, <1>7, <1>8 DEF MInv, Fetched

(* The tail of a block handler prunes with the block it adopts, so nothing  *)
(* it keeps is out of the window.                                           *)
LEMMA BlockHandledKeeps ==
    ASSUME MInv, NEW b \in Handlers, BlockHandled(b)
    PROVE  MInv'
<1>1. /\ lastBlock \in 0..MaxBlock /\ handler[b] \in 0..MaxBlock
      /\ WINDOW_BLOCKS \in Nat /\ MaxBlock \in Nat
  BY MempoolAssumption DEF MInv, MempoolTypeOK, BlockHandled
<1>2. lastBlock' \in 0..MaxBlock /\ lastBlock' >= lastBlock
  BY <1>1 DEF BlockHandled
<1>3. ASSUME NEW p \in Pools
      PROVE  /\ activity'[p] \in {activity[p], NoEntry} /\ activity'[p] \in Entries
             /\ GoodEntry(p)'
             /\ activity'[p] # NoEntry => lastBlock' - activity'[p].block <= WINDOW_BLOCKS
  <2>0. activity[p] \in Entries /\ NoEntry \in Entries /\ GoodEntry(p)
    BY EntriesGood DEF MInv, Entries, NoEntry
  <2>1. activity'[p] \in {activity[p], NoEntry}
    BY DEF BlockHandled, Pruned
  <2>2. GoodEntry(p)'
    <3>1. EndedFor((announced \ fetching)', p) = EndedFor(announced \ fetching, p)
      BY DEF BlockHandled
    <3> QED BY <2>0, <2>1, <3>1, <1>1, <1>2 DEF GoodEntry, Entries
  <2>3. CASE handler[b] > lastBlock
    <3>1. lastBlock' = handler[b]
          /\ activity'[p] = IF handler[b] - activity[p].block > WINDOW_BLOCKS THEN NoEntry ELSE activity[p]
      BY <2>3 DEF BlockHandled, Pruned
    <3> QED BY <1>1, <2>0, <2>1, <2>2, <3>1 DEF Entries
  <2>4. CASE ~(handler[b] > lastBlock)
    BY <2>0, <2>1, <2>2, <2>4 DEF BlockHandled, MInv, ActivityInWindow, Counted
  <2> QED BY <2>3, <2>4
<1>4. activity' \in [Pools -> Entries]
  <2>1. CASE handler[b] > lastBlock
    BY <1>3, <2>1 DEF BlockHandled, Pruned
  <2>2. CASE ~(handler[b] > lastBlock)
    BY <2>2 DEF BlockHandled, MInv
  <2> QED BY <2>1, <2>2
<1>5. /\ snapshot'.block \in -1..MaxBlock
      /\ snapshot'.swaps \subseteq Hashes /\ snapshot'.pools \subseteq Pools
  BY <1>1 DEF BlockHandled, Serializable, MInv, MempoolTypeOK
<1>6. handler' \in [Handlers -> {Idle, Asked} \union 0..MaxBlock]
  BY DEF BlockHandled, MInv, MempoolTypeOK
<1>7. MempoolTypeOK'
  BY <1>2, <1>3, <1>5, <1>6 DEF BlockHandled, MInv, MempoolTypeOK, GoodEntry, EndedFor
<1> QED BY <1>3, <1>4, <1>5, <1>7 DEF BlockHandled, MInv, ActivityInWindow, Counted

(* The listener's invariant always holds.                                   *)
LEMMA MInvInductive == Spec => []MInv
<1>1. Init => MInv
  <2> SUFFICES ASSUME Init PROVE MInv
    OBVIOUS
  <2>1. IsFiniteSet({}) /\ Cardinality({}) = 0
    BY FS_EmptySet
  <2> QED BY <2>1, MempoolAssumption DEF Init, MInv, MempoolTypeOK, ActivityInWindow,
             NoEntry, NoSnapshot, Counted, Entries, Idle
<1>2. MInv /\ [Next]_vars => MInv'
  <2> SUFFICES ASSUME MInv, [Next]_vars PROVE MInv'
    OBVIOUS
  <2>1. ASSUME NEW h \in Hashes, Announce(h) PROVE MInv'
    BY <2>1, AnnounceKeeps
  <2>2. ASSUME NEW h \in Hashes, Fetched(h) PROVE MInv'
    BY <2>2, FetchedKeeps
  <2>3. ASSUME NEW h \in Hashes, FetchFails(h) PROVE MInv'
    BY <2>3, FetchFailsKeeps
  <2>4. CASE NewBlock
    <3>1. head' \in 0..MaxBlock /\ handler' \in [Handlers -> {Idle, Asked} \union 0..MaxBlock]
      BY <2>4, MempoolAssumption DEF NewBlock, MInv, MempoolTypeOK
    <3> QED BY <2>4, <3>1, MapsUntouched DEF NewBlock
  <2>5. CASE Expire
    BY <2>5, MempoolAssumption DEF Expire, MInv, MempoolTypeOK, ActivityInWindow, NoSnapshot,
         Counted, NoEntry
  <2>6. ASSUME NEW b \in Handlers, AskBlock(b) \/ NodeAnswers(b) PROVE MInv'
    <3>1. head' \in 0..MaxBlock /\ handler' \in [Handlers -> {Idle, Asked} \union 0..MaxBlock]
      BY <2>6 DEF AskBlock, NodeAnswers, MInv, MempoolTypeOK
    <3> QED BY <2>6, <3>1, MapsUntouched DEF AskBlock, NodeAnswers
  <2>7. ASSUME NEW b \in Handlers, BlockHandled(b) PROVE MInv'
    BY <2>7, BlockHandledKeeps
  <2>8. CASE UNCHANGED vars
    <3>1. head' \in 0..MaxBlock /\ handler' \in [Handlers -> {Idle, Asked} \union 0..MaxBlock]
      BY <2>8 DEF vars, MInv, MempoolTypeOK
    <3> QED BY <2>8, <3>1, MapsUntouched DEF vars
  <2> QED BY <2>1, <2>2, <2>3, <2>4, <2>5, <2>6, <2>7, <2>8 DEF Next
<1> QED BY <1>1, <1>2, PTL DEF Spec

(* The maps keep to their bounds: whatever order handlers end in, pending   *)
(* never exceeds its cap and no pool counts a transaction twice.            *)
THEOREM MapsBounded == Spec => []MempoolTypeOK
<1>1. MInv => MempoolTypeOK
  BY DEF MInv
<1> QED BY <1>1, MInvInductive, PTL

(* Activity outside the window is never in the map when a snapshot is       *)
(* built, although entries are made while a block handler waits.            *)
THEOREM ActivityIsRecent == Spec => []ActivityInWindow
<1>1. MInv => ActivityInWindow
  BY DEF MInv
<1> QED BY <1>1, MInvInductive, PTL

-----------------------------------------------------------------------------
(* The largest swaps.                                                       *)

(* The remembered swaps at least as large as v.                             *)
AtLeast(swaps, v) == {g \in swaps : Decoded[g] >= v}

(* What is kept of a set with KeptAtCap swaps of at least v has as many.    *)
LEMMA CappedKeepsLargest ==
    ASSUME NEW swaps \in SUBSET Hashes, IsFiniteSet(swaps), NEW kept \in Capped(swaps),
           NEW v \in Nat, Cardinality(AtLeast(swaps, v)) >= KeptAtCap
    PROVE  Cardinality(AtLeast(kept, v)) >= KeptAtCap
<1>1. CASE kept = swaps
  BY <1>1
<1>2. CASE kept # swaps
  <2>1. /\ kept \subseteq swaps /\ Cardinality(kept) = KeptAtCap
        /\ \A h \in kept, g \in swaps \ kept : Decoded[h] >= Decoded[g]
    BY <1>2 DEF Capped
  <2>2. \A h \in swaps : Decoded[h] \in Nat
    BY MempoolAssumption
  <2>3. ASSUME NEW k \in kept, Decoded[k] < v PROVE FALSE
    <3>1. AtLeast(swaps, v) \subseteq kept \ {k}
      BY <2>1, <2>2, <2>3 DEF AtLeast
    <3>2. IsFiniteSet(kept) /\ IsFiniteSet(kept \ {k})
      BY <2>1, FS_Subset
    <3>3. Cardinality(AtLeast(swaps, v)) <= Cardinality(kept \ {k})
      BY <3>1, <3>2, FS_Subset
    <3>4. Cardinality(kept \ {k}) = Cardinality(kept) - 1
      BY <3>2, FS_RemoveElement
    <3>5. KeptAtCap \in Nat /\ Cardinality(AtLeast(swaps, v)) \in Nat
      <4>1. IsFiniteSet(AtLeast(swaps, v))
        BY FS_Subset DEF AtLeast
      <4> QED BY <4>1, FS_CardinalityType, MempoolAssumption
    <3> QED BY <2>1, <3>3, <3>4, <3>5
  <2>4. AtLeast(kept, v) = kept
    <3>1. \A k \in kept : Decoded[k] >= v
      BY <2>1, <2>2, <2>3
    <3> QED BY <3>1 DEF AtLeast
  <2> QED BY <2>1, <2>4, MempoolAssumption
<1> QED BY <1>1, <1>2

(* A swap that a cut drops is outranked by all that are kept.               *)
LEMMA DroppedIsOutranked ==
    ASSUME NEW swaps \in SUBSET Hashes, NEW kept \in Capped(swaps), NEW h \in swaps \ kept
    PROVE  Cardinality(AtLeast(kept, Decoded[h])) >= KeptAtCap
<1>1. /\ Cardinality(kept) = KeptAtCap
      /\ \A k \in kept : Decoded[k] >= Decoded[h]
  BY DEF Capped
<1>2. AtLeast(kept, Decoded[h]) = kept
  BY <1>1 DEF AtLeast
<1> QED BY <1>1, <1>2, MempoolAssumption

(* A swap that is no longer remembered is outranked by KeptAtCap that are,  *)
(* over any number of cuts and any order of overlapping fetches.            *)
THEOREM LargestAreKept == Spec => []LargestKept
<1>1. Init => LargestKept
  BY DEF Init, LargestKept
<1>2. MInv /\ MInv' /\ LargestKept /\ [Next]_vars => LargestKept'
  <2> SUFFICES ASSUME MInv, MInv', LargestKept, [Next]_vars PROVE LargestKept'
    OBVIOUS
  <2>1. ASSUME UNCHANGED <<pending, recorded>> PROVE LargestKept'
    BY <2>1 DEF LargestKept
  <2>2. ASSUME NEW x \in Hashes, Fetched(x) PROVE LargestKept'
    <3> SUFFICES ASSUME NEW h \in recorded' \ pending'
                 PROVE  Cardinality(AtLeast(pending', Decoded[h])) >= KeptAtCap
      BY DEF LargestKept, AtLeast
    <3> DEFINE swaps == pending \union {x}
    <3>1. /\ swaps \in SUBSET Hashes /\ pending' \in Capped(swaps)
          /\ recorded' = recorded \union {x} /\ recorded \subseteq Hashes
      <4>1. pending \subseteq Hashes /\ recorded \subseteq Hashes
        BY DEF MInv, MempoolTypeOK
      <4> QED BY <2>2, <4>1 DEF Fetched
    <3>2. IsFiniteSet(pending) /\ IsFiniteSet(swaps)
      <4>1. IsFiniteSet(pending)
        BY FS_Subset DEF MInv, MempoolTypeOK
      <4> QED BY <4>1, FS_AddElement
    <3>3. Decoded[h] \in Nat
      BY <3>1, MempoolAssumption
    <3>4. CASE h \in swaps
      <4> HIDE DEF swaps
      <4> QED BY <3>1, <3>4, DroppedIsOutranked
    <3>5. CASE h \notin swaps
      <4>1. h \in recorded \ pending
        BY <3>1, <3>5
      <4>2. Cardinality(AtLeast(pending, Decoded[h])) >= KeptAtCap
        BY <4>1 DEF LargestKept, AtLeast
      <4>3. /\ AtLeast(pending, Decoded[h]) \subseteq AtLeast(swaps, Decoded[h])
            /\ IsFiniteSet(AtLeast(swaps, Decoded[h]))
        BY <3>2, FS_Subset DEF AtLeast
      <4>4. Cardinality(AtLeast(pending, Decoded[h])) <= Cardinality(AtLeast(swaps, Decoded[h]))
            /\ Cardinality(AtLeast(pending, Decoded[h])) \in Nat
            /\ Cardinality(AtLeast(swaps, Decoded[h])) \in Nat
        BY <4>3, FS_Subset, FS_CardinalityType
      <4>5. Cardinality(AtLeast(swaps, Decoded[h])) >= KeptAtCap
        BY <4>2, <4>4, MempoolAssumption
      <4> HIDE DEF swaps
      <4> QED BY <3>1, <3>2, <3>3, <4>5, CappedKeepsLargest
    <3> QED BY <3>4, <3>5
  <2>3. ASSUME NEW x \in Hashes, Announce(x) \/ FetchFails(x) PROVE UNCHANGED <<pending, recorded>>
    BY <2>3 DEF Announce, FetchFails
  <2>4. ASSUME NewBlock \/ Expire \/ UNCHANGED vars PROVE UNCHANGED <<pending, recorded>>
    BY <2>4 DEF NewBlock, Expire, vars
  <2>5. ASSUME NEW b \in Handlers, AskBlock(b) \/ NodeAnswers(b) \/ BlockHandled(b)
        PROVE  UNCHANGED <<pending, recorded>>
    BY <2>5 DEF AskBlock, NodeAnswers, BlockHandled
  <2> QED BY <2>1, <2>2, <2>3, <2>4, <2>5 DEF Next
<1> QED BY <1>1, <1>2, MInvInductive, PTL DEF Spec
=============================================================================
