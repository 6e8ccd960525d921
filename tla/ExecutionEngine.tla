--------------------------- MODULE ExecutionEngine ---------------------------
(***************************************************************************)
(* The private RPC relay of execution-engine/: HTTP handlers that reserve  *)
(* a sender's nonce in Redis and push the signed transaction on a Redis    *)
(* list, and a worker that pops it, simulates it, asks the MEV guard and   *)
(* broadcasts it.                                                          *)
(*                                                                         *)
(* Every process (`node dist/index.js`) has one ioredis client, shared by  *)
(* its handlers and its worker: commands go out in order on one connection *)
(* and their replies come back in order, and each `await` in the code is a *)
(* command whose reply has not been delivered yet.  Several processes may  *)
(* share one Redis (the README's "run only RPC, e.g. separate scaling").   *)
(***************************************************************************)
EXTENDS Integers, Sequences, FiniteSets, MevGuard

CONSTANTS
    Procs,        \* engine processes sharing one Redis
    Workers,      \* those started without RUN_WORKER=false
    Reqs,         \* HTTP requests that may reach the relay
    NoReq,        \* no request (an empty reply, an idle worker)
    Senders,      \* accounts that sign transactions
    MaxNonce,     \* bound: largest transaction nonce a request carries
    UseRelay,     \* PRIVATE_RELAY_URL is set
    MaxCrashes,   \* bound: process exits
    MaxDrops,     \* bound: Redis connections that break and reconnect
    MaxExpiries   \* bound: nonce keys whose 24h TTL runs out

ASSUME EngineAssumption ==
    /\ Workers \subseteq Procs
    /\ NoReq \notin Reqs
    /\ MaxNonce \in Nat
    /\ UseRelay \in BOOLEAN
    /\ MaxCrashes \in Nat /\ MaxDrops \in Nat /\ MaxExpiries \in Nat

VARIABLES
    nonceKey,   \* Redis: execution-engine:nonce:<sender>, or NoKey
    queue,      \* Redis: the list config.QUEUE_NAME
    conn,       \* per process: commands sent and not yet answered to the code
    req,        \* the HTTP requests
    worker,     \* per process: where runWorker is
    up,         \* the processes that run
    taken,      \* external: what the sequencer and the private relay have taken
    faults,     \* how often each bounded fault has happened
    reserved,   \* history: nonces a handler has written to Redis as used
    pushed,     \* history: requests put on the queue
    lost,       \* history: queue entries a crash or a lost reply swallowed
    fate,       \* history: what the worker logged for each request
    cleared,    \* history: requests whose simulation and MEV check passed
    shown       \* history: providers each request's transaction was sent to

redis == <<nonceKey, queue>>
history == <<reserved, pushed, lost, fate, cleared, shown>>
vars == <<nonceKey, queue, conn, req, worker, up, taken, faults, history>>

NoKey == -1
Nonces == 0..MaxNonce
Txs == [from : Senders, nonce : Nonces]
NoTx == [from |-> NoReq, nonce |-> NoKey]

Ops == {"get", "set", "rpush", "blpop", "snapshot"}
Cmd == [op : Ops, req : Reqs \cup {NoReq}, replied : BOOLEAN,
        val : Int, item : Reqs \cup {NoReq}]
Command(op, r) == [op |-> op, req |-> r, replied |-> FALSE, val |-> NoKey, item |-> NoReq]

ReqStates == {"new", "open", "accepted", "badNonce", "dropped"}
WorkerStates == {"off", "idle", "pop", "snapshot", "simulate", "guard",
                 "primary", "relay", "retry"}
Fates == {"rejected", "sent", "failed", "error"}
Providers == {"primary", "relay"}

(* Every variable keeps its type; in particular the queue holds only        *)
(* requests, never an entry the worker could not parse, and a worker's job  *)
(* is a request or nothing.                                                 *)
TypeOK ==
    /\ nonceKey \in [Senders -> Nat \cup {NoKey}]
    /\ queue \in Seq(Reqs)
    /\ conn \in [Procs -> Seq(Cmd)]
    /\ req \in [Reqs -> [st : ReqStates, tx : Txs \cup {NoTx}, at : Procs \cup {NoReq}]]
    /\ worker \in [Procs -> [pc : WorkerStates, job : Reqs \cup {NoReq}]]
    /\ up \in SUBSET Procs
    /\ taken \in [Providers -> SUBSET Txs]
    /\ faults \in [crash : Nat, drop : Nat, expiry : Nat]
    /\ reserved \in SUBSET (Senders \X Nat)
    /\ pushed \in SUBSET Reqs
    /\ lost \in SUBSET Reqs
    /\ fate \in [Reqs -> SUBSET Fates]
    /\ cleared \in SUBSET Reqs
    /\ shown \in [Reqs -> SUBSET Providers]

StartedWorker(p) == [pc |-> IF p \in Workers THEN "idle" ELSE "off", job |-> NoReq]

Init ==
    /\ nonceKey = [s \in Senders |-> NoKey]
    /\ queue = <<>>
    /\ conn = [p \in Procs |-> <<>>]
    /\ req = [r \in Reqs |-> [st |-> "new", tx |-> NoTx, at |-> NoReq]]
    /\ worker = [p \in Procs |-> StartedWorker(p)]
    /\ up = Procs
    /\ taken = [x \in Providers |-> {}]
    /\ faults = [crash |-> 0, drop |-> 0, expiry |-> 0]
    /\ reserved = {} /\ pushed = {} /\ lost = {} /\ cleared = {}
    /\ fate = [r \in Reqs |-> {}]
    /\ shown = [r \in Reqs |-> {}]

-----------------------------------------------------------------------------
(* The Redis connection of a process.                                      *)

Issue(p, c) == conn' = [conn EXCEPT ![p] = Append(@, c)]

(* The first command Redis has not executed yet; the ones before it have   *)
(* a reply under way.                                                      *)
NextCommand(p, i) ==
    /\ i \in DOMAIN conn[p]
    /\ ~conn[p][i].replied
    /\ \A j \in 1..(i - 1) : conn[p][j].replied

Reply(p, i, val, item) ==
    conn' = [conn EXCEPT ![p][i] =
                [@ EXCEPT !.replied = TRUE, !.val = val, !.item = item]]

(* The reply the process delivers next, and the connection without it.     *)
Answered(p, op) ==
    /\ conn[p] # <<>>
    /\ Head(conn[p]).replied
    /\ Head(conn[p]).op = op

Deliver(p) == conn' = [conn EXCEPT ![p] = Tail(@)]
DeliverAndIssue(p, c) == conn' = [conn EXCEPT ![p] = Append(Tail(@), c)]

-----------------------------------------------------------------------------
(* Redis executes the commands of each connection in order.                *)

RedisGet(p) ==
    \E i \in DOMAIN conn[p] :
        /\ NextCommand(p, i)
        /\ conn[p][i].op = "get"
        /\ Reply(p, i, nonceKey[req[conn[p][i].req].tx.from], NoReq)
        /\ UNCHANGED <<redis, req, worker, up, taken, faults, history>>

(* Mutant: the key keeps the nonce just used.                               *)
UsedNonce(tx) == tx.nonce
NextNonce(tx) == tx.nonce + 1

RedisSet(p) ==
    \E i \in DOMAIN conn[p] :
        LET tx == req[conn[p][i].req].tx IN
        /\ NextCommand(p, i)
        /\ conn[p][i].op = "set"
        /\ nonceKey' = [nonceKey EXCEPT ![tx.from] = NextNonce(tx)]
        /\ reserved' = reserved \cup {<<tx.from, tx.nonce>>}
        /\ Reply(p, i, NoKey, NoReq)
        /\ UNCHANGED <<queue, req, worker, up, taken, faults,
                       pushed, lost, fate, cleared, shown>>

RedisRpush(p) ==
    \E i \in DOMAIN conn[p] :
        LET r == conn[p][i].req IN
        /\ NextCommand(p, i)
        /\ conn[p][i].op = "rpush"
        /\ queue' = Append(queue, r)
        /\ pushed' = pushed \cup {r}
        /\ Reply(p, i, NoKey, NoReq)
        /\ UNCHANGED <<nonceKey, req, worker, up, taken, faults,
                       reserved, lost, fate, cleared, shown>>

(* Mutant: the entry is read and left on the list.                          *)
RedisPeek(p) ==
    \E i \in DOMAIN conn[p] :
        /\ NextCommand(p, i)
        /\ conn[p][i].op = "blpop"
        /\ queue # <<>>
        /\ Reply(p, i, NoKey, Head(queue))
        /\ UNCHANGED <<redis, req, worker, up, taken, faults, history>>

(* Mutant: BRPOP.                                                           *)
RedisBrpop(p) ==
    \E i \in DOMAIN conn[p] :
        /\ NextCommand(p, i)
        /\ conn[p][i].op = "blpop"
        /\ queue # <<>>
        /\ queue' = SubSeq(queue, 1, Len(queue) - 1)
        /\ Reply(p, i, NoKey, queue[Len(queue)])
        /\ UNCHANGED <<nonceKey, req, worker, up, taken, faults, history>>

RedisBlpop(p) ==
    \E i \in DOMAIN conn[p] :
        /\ NextCommand(p, i)
        /\ conn[p][i].op = "blpop"
        /\ queue # <<>>
        /\ queue' = Tail(queue)
        /\ Reply(p, i, NoKey, Head(queue))
        /\ UNCHANGED <<nonceKey, req, worker, up, taken, faults, history>>

(* Mutant: BLPOP with timeout 0, which waits for ever.                      *)
RedisBlpopForever(p) == FALSE

(* BLPOP holds the connection until its timeout when the list is empty.    *)
RedisBlpopTimeout(p) ==
    \E i \in DOMAIN conn[p] :
        /\ NextCommand(p, i)
        /\ conn[p][i].op = "blpop"
        /\ queue = <<>>
        /\ Reply(p, i, NoKey, NoReq)
        /\ UNCHANGED <<redis, req, worker, up, taken, faults, history>>

RedisSnapshot(p) ==
    \E i \in DOMAIN conn[p] :
        /\ NextCommand(p, i)
        /\ conn[p][i].op = "snapshot"
        /\ Reply(p, i, NoKey, NoReq)
        /\ UNCHANGED <<redis, req, worker, up, taken, faults, history>>

(* A nonce key lives 24 hours.                                             *)
Expire(s) ==
    /\ faults.expiry < MaxExpiries
    /\ nonceKey[s] # NoKey
    /\ nonceKey' = [nonceKey EXCEPT ![s] = NoKey]
    /\ faults' = [faults EXCEPT !.expiry = @ + 1]
    /\ UNCHANGED <<queue, conn, req, worker, up, taken, history>>

-----------------------------------------------------------------------------
(* HTTP handlers: eth_sendRawTransaction and vacuum_execute run the same   *)
(* steps once the API key, the rate limit and the payload are in order.    *)

Receive(p, r, tx) ==
    /\ p \in up
    /\ req[r].st = "new"
    /\ req' = [req EXCEPT ![r] = [st |-> "open", tx |-> tx, at |-> p]]
    /\ Issue(p, Command("get", r))
    /\ UNCHANGED <<redis, worker, up, taken, faults, history>>

Expected(val) == IF val = NoKey THEN 0 ELSE val

(* Mutants: nonces may jump ahead; the comparison is missing.               *)
AtLeastExpected(tx, val) == tx.nonce >= Expected(val)
AnyNonce(tx, val) == TRUE
IsExpected(tx, val) == tx.nonce = Expected(val)

ReserveNonce(p) ==
    /\ Answered(p, "get")
    /\ LET r == Head(conn[p]).req IN
        /\ IsExpected(req[r].tx, Head(conn[p]).val)
        /\ DeliverAndIssue(p, Command("set", r))
    /\ UNCHANGED <<redis, req, worker, up, taken, faults, history>>

RejectNonce(p) ==
    /\ Answered(p, "get")
    /\ LET r == Head(conn[p]).req IN
        /\ ~IsExpected(req[r].tx, Head(conn[p]).val)
        /\ req' = [req EXCEPT ![r].st = "badNonce"]
    /\ Deliver(p)
    /\ UNCHANGED <<redis, worker, up, taken, faults, history>>

(* Mutants: the payload is lost on the way to the list; the handler answers *)
(* without waiting for RPUSH.                                               *)
EnqueueNothing(p) ==
    /\ Answered(p, "set")
    /\ DeliverAndIssue(p, Command("rpush", NoReq))
    /\ UNCHANGED <<redis, req, worker, up, taken, faults, history>>

EnqueueNoAwait(p) ==
    /\ Answered(p, "set")
    /\ DeliverAndIssue(p, Command("rpush", Head(conn[p]).req))
    /\ req' = [req EXCEPT ![Head(conn[p]).req].st = "accepted"]
    /\ UNCHANGED <<redis, worker, up, taken, faults, history>>

Enqueue(p) ==
    /\ Answered(p, "set")
    /\ DeliverAndIssue(p, Command("rpush", Head(conn[p]).req))
    /\ UNCHANGED <<redis, req, worker, up, taken, faults, history>>

Respond(p) ==
    /\ Answered(p, "rpush")
    /\ req' = [req EXCEPT ![Head(conn[p]).req].st = "accepted"]
    /\ Deliver(p)
    /\ UNCHANGED <<redis, worker, up, taken, faults, history>>

-----------------------------------------------------------------------------
(* The worker loop.                                                        *)

GoTo(p, pc) == worker' = [worker EXCEPT ![p].pc = pc]

Finish(p, outcome) ==
    /\ fate' = [fate EXCEPT ![worker[p].job] = @ \cup {outcome}]
    /\ worker' = [worker EXCEPT ![p] = [pc |-> "idle", job |-> NoReq]]

Dequeue(p) ==
    /\ worker[p].pc = "idle"
    /\ Issue(p, Command("blpop", NoReq))
    /\ GoTo(p, "pop")
    /\ UNCHANGED <<redis, req, up, taken, faults, history>>

PopNothing(p) ==
    /\ Answered(p, "blpop")
    /\ Head(conn[p]).item = NoReq
    /\ Deliver(p)
    /\ GoTo(p, "idle")
    /\ UNCHANGED <<redis, req, up, taken, faults, history>>

PopJob(p) ==
    /\ Answered(p, "blpop")
    /\ Head(conn[p]).item # NoReq
    /\ DeliverAndIssue(p, Command("snapshot", NoReq))
    /\ worker' = [worker EXCEPT ![p] = [pc |-> "snapshot", job |-> Head(conn[p]).item]]
    /\ UNCHANGED <<redis, req, up, taken, faults, history>>

ReadSnapshot(p) ==
    /\ Answered(p, "snapshot")
    /\ Deliver(p)
    /\ GoTo(p, "simulate")
    /\ UNCHANGED <<redis, req, up, taken, faults, history>>

(* A reverting eth_call, and one that throws, both end the job.            *)
Simulate(p) ==
    /\ worker[p].pc = "simulate"
    /\ \/ GoTo(p, "guard") /\ UNCHANGED fate
       \/ Finish(p, "rejected")
    /\ UNCHANGED <<redis, conn, req, up, taken, faults,
                   reserved, pushed, lost, cleared, shown>>

(* Mutant: a rejection is logged and the worker goes on.                    *)
GuardLogsOnly(p) ==
    /\ worker[p].pc = "guard"
    /\ GoTo(p, "primary")
    /\ \E score \in WorkerScores :
          cleared' = cleared \cup (IF MevAction(score) = "reject" THEN {} ELSE {worker[p].job})
    /\ UNCHANGED <<redis, conn, req, up, taken, faults, reserved, pushed, lost, fate, shown>>

(* For increaseGas the worker also asks the provider for the latest block, *)
(* which may throw; the transaction itself is never changed.               *)
Guard(p) ==
    /\ worker[p].pc = "guard"
    /\ \E score \in WorkerScores :
        \/ /\ MevAction(score) = "reject"
           /\ Finish(p, "rejected")
           /\ UNCHANGED cleared
        \/ /\ MevAction(score) = "increaseGas"
           /\ Finish(p, "error")
           /\ UNCHANGED cleared
        \/ /\ MevAction(score) # "reject"
           /\ GoTo(p, "primary")
           /\ cleared' = cleared \cup {worker[p].job}
           /\ UNCHANGED fate
    /\ UNCHANGED <<redis, conn, req, up, taken, faults, reserved, pushed, lost, shown>>

(* broadcastSingle: the provider may take the transaction and the call      *)
(* still fail (a lost answer, or the block number ethers fetches beside     *)
(* it).  RPC_URL's node refuses a transaction it has; a success of the      *)
(* private relay only says that the relay has it.                           *)
BroadcastSingle(p, provider, success) ==
    LET r == worker[p].job IN
    /\ shown' = [shown EXCEPT ![r] = @ \cup {provider}]
    /\ \/ /\ provider = "primary" => req[r].tx \notin taken["primary"]
          /\ taken' = [taken EXCEPT ![provider] = @ \cup {req[r].tx}]
       \/ ~success /\ UNCHANGED taken

Succeeds(p, provider) ==
    /\ BroadcastSingle(p, provider, TRUE)
    /\ Finish(p, "sent")

AfterPrimary == IF UseRelay THEN "relay" ELSE "retry"

BroadcastPrimary(p) ==
    /\ worker[p].pc = "primary"
    /\ \/ Succeeds(p, "primary")
       \/ BroadcastSingle(p, "primary", FALSE) /\ GoTo(p, AfterPrimary) /\ UNCHANGED fate
    /\ UNCHANGED <<redis, conn, req, up, faults, reserved, pushed, lost, cleared>>

BroadcastRelay(p) ==
    /\ worker[p].pc = "relay"
    /\ \/ Succeeds(p, "relay")
       \/ BroadcastSingle(p, "relay", FALSE) /\ GoTo(p, "retry") /\ UNCHANGED fate
    /\ UNCHANGED <<redis, conn, req, up, faults, reserved, pushed, lost, cleared>>

BroadcastRetry(p) ==
    /\ worker[p].pc = "retry"
    /\ \/ Succeeds(p, "primary")
       \/ BroadcastSingle(p, "primary", FALSE) /\ Finish(p, "failed")
    /\ UNCHANGED <<redis, conn, req, up, faults, reserved, pushed, lost, cleared>>

(* The relay hands what it has taken to the sequencer, at a time of its     *)
(* own or never; the sequencer may have it from the worker by then.         *)
RelayForwards(tx) ==
    /\ tx \in taken["relay"] \ taken["primary"]
    /\ taken' = [taken EXCEPT !["primary"] = @ \cup {tx}]
    /\ UNCHANGED <<redis, conn, req, worker, up, faults, history>>

-----------------------------------------------------------------------------
(* Faults.                                                                 *)

(* Queue entries that are on their way to a worker or in its hands.        *)
Delivering(p) ==
    {conn[p][i].item : i \in {j \in DOMAIN conn[p] :
                                 conn[p][j].op = "blpop" /\ conn[p][j].replied}}
    \ {NoReq}
InHand(p) == {worker[p].job} \ {NoReq}

(* ioredis reconnects and sends every unanswered command again: what Redis *)
(* had already executed is executed a second time.                         *)
Drop(p) ==
    /\ faults.drop < MaxDrops
    /\ conn[p] # <<>>
    /\ faults' = [faults EXCEPT !.drop = @ + 1]
    /\ lost' = lost \cup Delivering(p)
    /\ conn' = [conn EXCEPT ![p] =
                   [i \in DOMAIN conn[p] |-> Command(conn[p][i].op, conn[p][i].req)]]
    /\ UNCHANGED <<redis, req, worker, up, taken,
                   reserved, pushed, fate, cleared, shown>>

Down(p) ==
    /\ up' = up \ {p}
    /\ conn' = [conn EXCEPT ![p] = <<>>]
    /\ worker' = [worker EXCEPT ![p] = [pc |-> "off", job |-> NoReq]]
    /\ lost' = lost \cup Delivering(p) \cup InHand(p)
    /\ req' = [r \in Reqs |->
                  IF req[r].st = "open" /\ req[r].at = p
                  THEN [req[r] EXCEPT !.st = "dropped"] ELSE req[r]]

(* The process exits: killed, or by its own hand when Redis stays away for *)
(* three reconnects, because a pending command then rejects in a handler   *)
(* (unhandled rejection) or in dequeueTx (process.exit in main).           *)
Crash(p) ==
    /\ p \in up
    /\ faults.crash < MaxCrashes
    /\ faults' = [faults EXCEPT !.crash = @ + 1]
    /\ Down(p)
    /\ UNCHANGED <<redis, taken, reserved, pushed, fate, cleared, shown>>

(* The same outage while only the worker's snapshot read is pending is     *)
(* caught in the loop: the job ends with an error.                         *)
SnapshotFails(p) ==
    /\ conn[p] # <<>>
    /\ \A i \in DOMAIN conn[p] : conn[p][i].op = "snapshot"
    /\ faults.drop < MaxDrops
    /\ faults' = [faults EXCEPT !.drop = @ + 1]
    /\ conn' = [conn EXCEPT ![p] = <<>>]
    /\ Finish(p, "error")
    /\ UNCHANGED <<redis, req, up, taken, reserved, pushed, lost, cleared, shown>>

(* Mutant: the worker is not started again.                                 *)
RestartRpcOnly(p) ==
    /\ p \notin up
    /\ up' = up \cup {p}
    /\ UNCHANGED <<redis, conn, worker, req, taken, faults, history>>

Restart(p) ==
    /\ p \notin up
    /\ up' = up \cup {p}
    /\ worker' = [worker EXCEPT ![p] = StartedWorker(p)]
    /\ UNCHANGED <<redis, conn, req, taken, faults, history>>

-----------------------------------------------------------------------------
RedisStep(p) ==
    \/ RedisGet(p) \/ RedisSet(p) \/ RedisRpush(p)
    \/ RedisBlpop(p) \/ RedisBlpopTimeout(p) \/ RedisSnapshot(p)
HandlerStep(p) == ReserveNonce(p) \/ RejectNonce(p) \/ Enqueue(p) \/ Respond(p)
WorkerStep(p) ==
    \/ Dequeue(p) \/ PopNothing(p) \/ PopJob(p) \/ ReadSnapshot(p) \/ Simulate(p)
    \/ Guard(p) \/ BroadcastPrimary(p) \/ BroadcastRelay(p) \/ BroadcastRetry(p)
ProcStep(p) == RedisStep(p) \/ HandlerStep(p) \/ WorkerStep(p)

Next ==
    \/ \E p \in Procs : ProcStep(p)
    \/ \E p \in Procs, r \in Reqs, tx \in Txs : Receive(p, r, tx)
    \/ \E s \in Senders : Expire(s)
    \/ \E tx \in Txs : RelayForwards(tx)
    \/ \E p \in Procs : Drop(p) \/ Crash(p) \/ SnapshotFails(p) \/ Restart(p)

Spec == Init /\ [][Next]_vars

(***************************************************************************)
(* Redis answers, the event loop runs callbacks whose reply has arrived,   *)
(* and a process that exits is started again.  Requests and faults owe     *)
(* nothing.                                                                *)
(***************************************************************************)
Fairness == \A p \in Procs : WF_vars(ProcStep(p)) /\ WF_vars(Restart(p))
FairSpec == Spec /\ Fairness

-----------------------------------------------------------------------------
(* What must hold in any deployment.                                       *)

Queued == {queue[i] : i \in DOMAIN queue}
InPipeline == Queued \cup UNION {Delivering(p) \cup InHand(p) : p \in Procs}
SameNonce(r, q) == req[r].tx.from = req[q].tx.from /\ req[r].tx.nonce = req[q].tx.nonce

(* A nonce is only ever reserved when all of the sender's lower nonces have *)
(* been: utils/nonce.ts lets no request jump ahead, whatever the order in   *)
(* which concurrent GETs and SETs reach Redis, key expiry included.         *)
ReservedInOrder ==
    \A s \in Senders, n \in Nonces :
        <<s, n>> \in reserved => \A m \in 0..(n - 1) : <<s, m>> \in reserved

(* "0xqueued" is not a promise the code forgets: a request answered with it *)
(* is on the queue, with a worker, finished with a logged outcome, or was   *)
(* swallowed by a crash or a lost BLPOP reply (and by nothing else).        *)
AcceptedIsAccounted ==
    /\ \A r \in Reqs : req[r].st = "accepted" =>
          r \in InPipeline \/ fate[r] # {} \/ r \in lost
    /\ lost # {} => faults.crash + faults.drop > 0

(* No provider sees a transaction, and neither the relay nor the sequencer  *)
(* takes one, that has not passed its simulation and the MEV guard and whose nonce was not  *)
(* reserved first.                                                          *)
OnlyClearedIsShown ==
    /\ \A r \in Reqs : shown[r] # {} => r \in cleared
    /\ \A x \in Providers : \A tx \in taken[x] :
          /\ <<tx.from, tx.nonce>> \in reserved
          /\ \E r \in cleared : req[r].tx = tx

(* As long as no connection breaks, a queue entry is worked on once: it is  *)
(* not queued twice, not with two workers, not queued again once finished.  *)
WorkedOnOnce ==
    faults.drop = 0 =>
        /\ \A i, j \in DOMAIN queue : queue[i] = queue[j] => i = j
        /\ \A p, q \in Procs : p # q =>
              (Delivering(p) \cup InHand(p)) \cap (Delivering(q) \cup InHand(q)) = {}
        /\ \A r \in Queued : /\ fate[r] = {}
                             /\ \A p \in Procs : r \notin Delivering(p) \cup InHand(p)

-----------------------------------------------------------------------------
(* What holds because one process sends all its commands on one connection. *)

(* The worker meets one sender's transactions in nonce order, unless a      *)
(* broken connection made ioredis push an entry a second time, or a nonce   *)
(* key expired and its sender started again from zero.                      *)
QueueInNonceOrder ==
    faults.expiry + faults.drop = 0 => \A i, j \in DOMAIN queue :
        (i < j /\ req[queue[i]].tx.from = req[queue[j]].tx.from)
            => req[queue[i]].tx.nonce <= req[queue[j]].tx.nonce

(* A provider is offered a sender's transaction only when no lower nonce of *)
(* that sender is left on the list or on its way to a broadcast, with the   *)
(* same two exceptions.                                                     *)
OfferedInOrder ==
    faults.expiry + faults.drop = 0 => \A r \in Reqs, q \in InPipeline :
        (shown[r] # {} /\ req[r].tx.from = req[q].tx.from)
            => req[r].tx.nonce <= req[q].tx.nonce

(* The next expected nonce of a sender never moves back while its key lives  *)
(* and the connection holds (SETs sent again rewind it, and so does a SET    *)
(* computed from a key that was read before it expired).                    *)
NonceNeverRewinds ==
    [][\A s \in Senders :
          (faults.expiry + faults.drop = 0 /\ nonceKey'[s] # NoKey) => nonceKey'[s] >= nonceKey[s]]_vars

(* A handler decides to take a nonce: its GET is answered, its SET goes out. *)
Takes(p, r) ==
    /\ Answered(p, "get")
    /\ Head(conn[p]).req = r
    /\ conn'[p] # <<>> /\ conn'[p][Len(conn'[p])] = Command("set", r)

(* Once a request was answered "0xqueued", its nonce is not taken again     *)
(* within the key's lifetime on an unbroken connection: a replay needs       *)
(* requests that overlap.                                                   *)
NoReplayOfAnswered ==
    [][\A p \in Procs, r, q \in Reqs :
          (faults.expiry + faults.drop = 0 /\ Takes(p, r) /\ r # q /\ SameNonce(r, q))
              => req[q].st # "accepted"]_vars

-----------------------------------------------------------------------------
(* Progress.                                                               *)

(* Every request gets an answer, unless its process dies under it.          *)
EveryRequestEnds == \A r \in Reqs : req[r].st = "open" ~> req[r].st # "open"

(* Every queue entry reaches an outcome or is lost to a fault, even though  *)
(* BLPOP blocks the connection the handlers use.                            *)
EveryEntryEnds == \A r \in Reqs : r \in Queued ~> (fate[r] # {} \/ r \in lost)

-----------------------------------------------------------------------------
(* What the documentation says and the code does not do.                   *)

(* README: "Nonce validated and reserved per address (Redis) to prevent     *)
(* replay": no two requests with the same sender and nonce are taken.       *)
NoReplay ==
    \A r, q \in Reqs : (r # q /\ req[r].st = "accepted" /\ req[q].st = "accepted")
        => ~SameNonce(r, q)
=============================================================================
