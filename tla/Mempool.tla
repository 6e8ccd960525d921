------------------------------- MODULE Mempool -------------------------------
(***************************************************************************)
(* The mempool listener of the execution engine: one handler per pending   *)
(* hash and one per block or timer tick, each suspended at its await while *)
(* the others run, over two maps and the snapshot the MEV guard reads.     *)
(***************************************************************************)
EXTENDS Integers, FiniteSets, SequencesExt

CONSTANTS
    Hashes,           \* pending Uniswap transactions the node announces
    Decoded,          \* amountIn as it is decoded: [Hashes -> Nat], 0 where it is not
    PoolOf,           \* pool of each: [Hashes -> Pools]
    Pools,
    PendingCap,       \* 500
    KeptAtCap,        \* 300
    WINDOW_BLOCKS,    \* config.MEMPOOL_WINDOW_BLOCKS
    Handlers,         \* bound: overlapping block handlers
    MaxBlock          \* bound

ASSUME MempoolAssumption ==
    /\ Decoded \in [Hashes -> Nat] /\ PoolOf \in [Hashes -> Pools]
    /\ PendingCap \in Nat /\ KeptAtCap \in 1..PendingCap
    /\ WINDOW_BLOCKS \in Nat /\ MaxBlock \in Nat

VARIABLES
    head,       \* the node's latest block
    announced,  \* hashes whose event was emitted
    fetching,   \* pending handlers waiting for getTransaction
    pending,    \* pendingByHash
    activity,   \* poolActivity: swaps counted per pool and the block of its entry, or NoEntry
    lastBlock,
    handler,    \* block handlers: idle, asked, or holding the node's answer
    snapshot,   \* what Redis holds: the snapshot's contents, or NoSnapshot
    recorded    \* history: hashes ever put into pendingByHash

vars == <<head, announced, fetching, pending, activity, lastBlock, handler, snapshot, recorded>>

NoEntry == [txCount |-> 0, block |-> -1]
NoSnapshot == [block |-> -1, swaps |-> {}, pools |-> {}]
Idle == -2
Asked == -1

(* The maps hold announced transactions, their number stays below the cap,  *)
(* and a pool's entry counts at most the transactions announced for it.     *)
MempoolTypeOK ==
    /\ head \in 0..MaxBlock /\ lastBlock \in 0..MaxBlock
    /\ announced \subseteq Hashes /\ fetching \subseteq announced
    /\ pending \subseteq recorded /\ recorded \subseteq announced \ fetching
    /\ Cardinality(pending) <= PendingCap
    /\ \A p \in Pools : activity[p] = NoEntry \/
           /\ activity[p].block \in 0..lastBlock
           /\ activity[p].txCount \in 1..Cardinality({h \in announced \ fetching : PoolOf[h] = p})
    /\ handler \in [Handlers -> {Idle, Asked} \union 0..MaxBlock]
    /\ snapshot.block \in -1..MaxBlock /\ snapshot.swaps \subseteq Hashes /\ snapshot.pools \subseteq Pools

Init ==
    /\ head \in 0..MaxBlock /\ lastBlock = 0
    /\ announced = {} /\ fetching = {} /\ pending = {} /\ recorded = {}
    /\ activity = [p \in Pools |-> NoEntry]
    /\ handler = [h \in Handlers |-> Idle]
    /\ snapshot = NoSnapshot
-----------------------------------------------------------------------------
Announce(h) ==
    /\ h \notin announced
    /\ announced' = announced \union {h} /\ fetching' = fetching \union {h}
    /\ UNCHANGED <<head, pending, activity, lastBlock, handler, snapshot, recorded>>

(* Mutant: the map is never cut.                                            *)
Uncapped(swaps) == {swaps}

(* Mutant: the smallest are kept.                                           *)
CappedToSmallest(swaps) ==
    IF Cardinality(swaps) <= PendingCap THEN {swaps}
    ELSE {kept \in SUBSET swaps :
             /\ Cardinality(kept) = KeptAtCap
             /\ \A h \in kept, g \in swaps \ kept : Decoded[h] <= Decoded[g]}

(* Above the cap the largest swaps by decoded amountIn are kept; which of   *)
(* two equal ones goes depends on the sort.  (The decoder reads the fourth  *)
(* word of the calldata, which is the recipient of an exactInputSingle, so  *)
(* Decoded is any number, whatever the swap's size.)                        *)
Capped(swaps) ==
    IF Cardinality(swaps) <= PendingCap THEN {swaps}
    ELSE {kept \in SUBSET swaps :
             /\ Cardinality(kept) = KeptAtCap
             /\ \A h \in kept, g \in swaps \ kept : Decoded[h] >= Decoded[g]}

(* The handler's tail, after getTransaction: only a decoded swap counts for *)
(* its pool, whose entry keeps the block it was made at.                    *)
Fetched(h) ==
    /\ h \in fetching /\ fetching' = fetching \ {h}
    /\ pending' \in Capped(pending \union {h}) /\ recorded' = recorded \union {h}
    /\ activity' = IF Decoded[h] = 0 THEN activity
                   ELSE [activity EXCEPT ![PoolOf[h]] =
                           [txCount |-> @.txCount + 1,
                            block   |-> IF @ = NoEntry THEN lastBlock ELSE @.block]]
    /\ UNCHANGED <<head, announced, lastBlock, handler, snapshot>>

(* getTransaction fails or finds nothing.                                   *)
FetchFails(h) ==
    /\ h \in fetching /\ fetching' = fetching \ {h}
    /\ UNCHANGED <<head, announced, pending, activity, lastBlock, handler, snapshot, recorded>>

NewBlock ==
    /\ head < MaxBlock /\ head' = head + 1
    /\ UNCHANGED <<announced, fetching, pending, activity, lastBlock, handler, snapshot, recorded>>

(* blockHandler up to its await: a block event or the five-second timer.    *)
AskBlock(b) ==
    /\ handler[b] = Idle /\ handler' = [handler EXCEPT ![b] = Asked]
    /\ UNCHANGED <<head, announced, fetching, pending, activity, lastBlock, snapshot, recorded>>

NodeAnswers(b) ==
    /\ handler[b] = Asked
    /\ \E answer \in {head, Idle} : handler' = [handler EXCEPT ![b] = answer]
    /\ UNCHANGED <<head, announced, fetching, pending, activity, lastBlock, snapshot, recorded>>

(* Mutant: entries one block older than the window stay.                    *)
PrunedLate(block) ==
    [p \in Pools |-> IF block - activity[p].block > WINDOW_BLOCKS + 1 THEN NoEntry ELSE activity[p]]

Pruned(block) ==
    [p \in Pools |-> IF block - activity[p].block > WINDOW_BLOCKS THEN NoEntry ELSE activity[p]]

(* JSON.stringify refuses BigInt, which every pending swap and every pool's *)
(* entry contains; the exception leaves the old snapshot until it expires.  *)
Serializable(swaps, pools) == swaps = {} /\ pools = {}

Counted(act) == {p \in Pools : act[p] # NoEntry}

(* The handler's tail, after getBlock.                                      *)
BlockHandled(b) ==
    /\ handler[b] \notin {Idle, Asked}
    /\ handler' = [handler EXCEPT ![b] = Idle]
    /\ IF handler[b] > lastBlock
       THEN lastBlock' = handler[b] /\ activity' = Pruned(handler[b])
       ELSE UNCHANGED <<lastBlock, activity>>
    /\ snapshot' = IF Serializable(pending, Counted(activity'))
                   THEN [block |-> handler[b], swaps |-> pending, pools |-> Counted(activity')]
                   ELSE snapshot
    /\ UNCHANGED <<head, announced, fetching, pending, recorded>>

(* The snapshot's 30 seconds pass without another.                          *)
Expire ==
    /\ snapshot # NoSnapshot /\ snapshot' = NoSnapshot
    /\ UNCHANGED <<head, announced, fetching, pending, activity, lastBlock, handler, recorded>>

Next ==
    \/ \E h \in Hashes : Announce(h) \/ Fetched(h) \/ FetchFails(h)
    \/ NewBlock \/ Expire
    \/ \E b \in Handlers : AskBlock(b) \/ NodeAnswers(b) \/ BlockHandled(b)

Spec == Init /\ [][Next]_vars
-----------------------------------------------------------------------------
(* No pool's activity is older than the window when the next snapshot is    *)
(* built, although entries are made between a block and its handling.       *)
ActivityInWindow ==
    \A p \in Counted(activity) : lastBlock - activity[p].block <= WINDOW_BLOCKS

(* Whatever order the fetches end in and however often the map is cut, a    *)
(* swap that is no longer remembered is outranked by KeptAtCap that are: a  *)
(* cut never loses one of the largest swaps seen since the start.           *)
LargestKept ==
    \A h \in recorded \ pending :
        Cardinality({g \in pending : Decoded[g] >= Decoded[h]}) >= KeptAtCap
=============================================================================
