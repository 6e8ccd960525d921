----------------------- MODULE ExecutionEngineProofs -----------------------
(***************************************************************************)
(* Theorems about ExecutionEngine, for any number of processes, requests,  *)
(* senders, nonces, crashes, broken connections and key expiries.          *)
(*                                                                         *)
(* The invariant says what a command means while it waits in a connection: *)
(* a GET's reply and a SET's transaction only speak of nonces whose lower  *)
(* ones are reserved, an RPUSH and a BLPOP's reply of requests whose nonce *)
(* is reserved; and where the worker stands when it waits for a reply.  A   *)
(* second invariant, further down, follows the queue's entries; a third one *)
(* orders a sender's nonces where a single process uses Redis, and a last   *)
(* one what that process offers its providers.                              *)
(***************************************************************************)
EXTENDS ExecutionEngine, SequenceTheorems, TLAPS

-----------------------------------------------------------------------------
(* The inductive invariant.  `rq` and `rs` stand for req and reserved, so   *)
(* that the lemmas can compare a state with its successor.                  *)

Pair(tx) == <<tx.from, tx.nonce>>

(* Requests that carry a transaction, and those whose nonce is reserved.    *)
Known(rq) == {r \in Reqs : rq[r].st # "new" /\ rq[r].tx \in Txs}
Taken(rq, rs) == {r \in Known(rq) : Pair(rq[r].tx) \in rs}

Below(rs, s, n) == \A m \in 0..(n - 1) : <<s, m>> \in rs

HandlerOps == {"get", "set", "rpush"}
WorkerOps == {"blpop", "snapshot"}

GoodCommand(c, rq, rs) ==
    /\ c.op \in HandlerOps => c.req \in Known(rq)
    /\ c.op = "get" /\ c.val # NoKey => Below(rs, rq[c.req].tx.from, c.val)
    /\ c.op = "set" => Below(rs, rq[c.req].tx.from, rq[c.req].tx.nonce)
    /\ c.op = "set" /\ c.replied => c.req \in Taken(rq, rs)
    /\ c.op = "rpush" => c.req \in Taken(rq, rs)
    /\ c.item \in Taken(rq, rs) \cup {NoReq}

(* The worker has at most one command out, and waits for it.                *)
WaitsFor(c, pc) == /\ c.op = "blpop" => pc = "pop"
                   /\ c.op = "snapshot" => pc = "snapshot"

GoodConn(s, rq, rs) == \A i \in DOMAIN s : GoodCommand(s[i], rq, rs)
WaitingConn(s, pc) ==
    /\ \A i \in DOMAIN s : WaitsFor(s[i], pc)
    /\ \A i, j \in DOMAIN s : s[i].op \in WorkerOps /\ s[j].op \in WorkerOps => i = j

CommandsOK == \A p \in Procs : GoodConn(conn[p], req, reserved)
WaitingOK == \A p \in Procs : /\ WaitingConn(conn[p], worker[p].pc)
                              /\ p \notin up => worker[p].pc = "off"

QueueOK == \A i \in DOMAIN queue : queue[i] \in Taken(req, reserved)

Working == {"snapshot", "simulate", "guard", "primary", "relay", "retry"}
Broadcasting == {"primary", "relay", "retry"}
JobsOK ==
    \A p \in Procs : /\ worker[p].pc \in Working => worker[p].job \in Taken(req, reserved)
                     /\ worker[p].pc \in Broadcasting => worker[p].job \in cleared

KeysOK ==
    /\ \A s \in Senders : nonceKey[s] # NoKey => Below(reserved, s, nonceKey[s])
    /\ \A s \in Senders, n \in Nat : <<s, n>> \in reserved => Below(reserved, s, n)

OutcomesOK ==
    /\ cleared \subseteq Taken(req, reserved)
    /\ \A r \in Reqs : fate[r] # {} => r \in Known(req)

IInv ==
    /\ TypeOK /\ CommandsOK /\ WaitingOK /\ QueueOK /\ JobsOK /\ KeysOK
    /\ OutcomesOK /\ OnlyClearedIsShown

-----------------------------------------------------------------------------
(* How the pieces of the invariant grow with a step.                        *)

Grows(rq, rq2, rs, rs2) ==
    /\ rs \subseteq rs2
    /\ \A r \in Known(rq) : rq2[r].st # "new" /\ rq2[r].tx = rq[r].tx

(* What is known or reserved stays so.                                      *)
LEMMA TakenGrows ==
    ASSUME NEW rq, NEW rq2, NEW rs, NEW rs2, Grows(rq, rq2, rs, rs2)
    PROVE  /\ Known(rq) \subseteq Known(rq2)
           /\ Taken(rq, rs) \subseteq Taken(rq2, rs2)
           /\ \A s, n : Below(rs, s, n) => Below(rs2, s, n)
BY DEF Grows, Known, Taken, Below, Pair

(* A good command stays good.                                               *)
LEMMA GoodCommandGrows ==
    ASSUME NEW rq, NEW rq2, NEW rs, NEW rs2, Grows(rq, rq2, rs, rs2),
           NEW c, GoodCommand(c, rq, rs)
    PROVE  GoodCommand(c, rq2, rs2)
<1>1. /\ Known(rq) \subseteq Known(rq2)
      /\ Taken(rq, rs) \subseteq Taken(rq2, rs2)
      /\ \A s, n : Below(rs, s, n) => Below(rs2, s, n)
  BY TakenGrows
<1>2. \A r \in Known(rq) : rq2[r].tx = rq[r].tx
  BY DEF Grows
<1>3. c.op = "get" \/ c.op = "set" => c.req \in Known(rq) /\ rq2[c.req].tx = rq[c.req].tx
  BY <1>2 DEF GoodCommand, HandlerOps
<1> QED
  BY <1>1, <1>3 DEF GoodCommand

(* A connection stays good as it grows, loses its head or gets a reply.     *)
LEMMA GoodConnGrows ==
    ASSUME NEW rq, NEW rq2, NEW rs, NEW rs2, Grows(rq, rq2, rs, rs2),
           NEW s \in Seq(Cmd), GoodConn(s, rq, rs)
    PROVE  /\ GoodConn(s, rq2, rs2)
           /\ s # <<>> => Tail(s) \in Seq(Cmd) /\ GoodConn(Tail(s), rq2, rs2)
           /\ \A c \in Cmd : GoodCommand(c, rq2, rs2) =>
                 /\ Append(s, c) \in Seq(Cmd) /\ GoodConn(Append(s, c), rq2, rs2)
                 /\ s # <<>> => /\ Append(Tail(s), c) \in Seq(Cmd)
                                /\ GoodConn(Append(Tail(s), c), rq2, rs2)
           /\ \A i \in DOMAIN s, c \in Cmd : GoodCommand(c, rq2, rs2) =>
                 [s EXCEPT ![i] = c] \in Seq(Cmd) /\ GoodConn([s EXCEPT ![i] = c], rq2, rs2)
<1>1. GoodConn(s, rq2, rs2)
  BY GoodCommandGrows DEF GoodConn
<1>2. ASSUME NEW t \in Seq(Cmd), GoodConn(t, rq2, rs2), NEW c \in Cmd, GoodCommand(c, rq2, rs2)
      PROVE  Append(t, c) \in Seq(Cmd) /\ GoodConn(Append(t, c), rq2, rs2)
  BY <1>2 DEF GoodConn
<1>3. s # <<>> => Tail(s) \in Seq(Cmd) /\ GoodConn(Tail(s), rq2, rs2)
  BY <1>1 DEF GoodConn
<1>4. ASSUME NEW i \in DOMAIN s, NEW c \in Cmd, GoodCommand(c, rq2, rs2)
      PROVE  [s EXCEPT ![i] = c] \in Seq(Cmd) /\ GoodConn([s EXCEPT ![i] = c], rq2, rs2)
  BY <1>1, <1>4 DEF GoodConn
<1> QED
  BY <1>1, <1>2, <1>3, <1>4

(* The same for the worker's own command: handlers' commands come and go    *)
(* beside it; delivering it leaves none.                                    *)
LEMMA WaitingConnSteps ==
    ASSUME NEW s \in Seq(Cmd), NEW pc, WaitingConn(s, pc)
    PROVE  /\ s # <<>> => WaitingConn(Tail(s), pc)
           /\ \A c \in Cmd : c.op \in HandlerOps =>
                 /\ WaitingConn(Append(s, c), pc)
                 /\ s # <<>> => WaitingConn(Append(Tail(s), c), pc)
           /\ \A i \in DOMAIN s, c \in Cmd : c.op = s[i].op => WaitingConn([s EXCEPT ![i] = c], pc)
           /\ \A c \in Cmd : \A pc2 : (pc \notin {"pop", "snapshot"} /\ WaitsFor(c, pc2)) =>
                 WaitingConn(Append(s, c), pc2)
           /\ s # <<>> /\ Head(s).op \in WorkerOps =>
                 /\ \A pc2 : WaitingConn(Tail(s), pc2)
                 /\ \A c \in Cmd : \A pc2 : WaitsFor(c, pc2) => WaitingConn(Append(Tail(s), c), pc2)
<1> USE DEF WaitingConn, WaitsFor, HandlerOps, WorkerOps
<1>1. s # <<>> => WaitingConn(Tail(s), pc)
  OBVIOUS
<1>2. ASSUME NEW t \in Seq(Cmd), WaitingConn(t, pc), NEW c \in Cmd, c.op \in HandlerOps
      PROVE  WaitingConn(Append(t, c), pc)
  BY <1>2
<1>3. ASSUME NEW i \in DOMAIN s, NEW c \in Cmd, c.op = s[i].op
      PROVE  WaitingConn([s EXCEPT ![i] = c], pc)
  BY <1>3
<1>4. ASSUME NEW t \in Seq(Cmd), \A i \in DOMAIN t : t[i].op \notin WorkerOps,
             NEW c \in Cmd, NEW pc2, WaitsFor(c, pc2)
      PROVE  WaitingConn(t, pc2) /\ WaitingConn(Append(t, c), pc2)
  BY <1>4
<1>5. pc \notin {"pop", "snapshot"} => \A i \in DOMAIN s : s[i].op \notin WorkerOps
  OBVIOUS
<1>6. s # <<>> /\ Head(s).op \in WorkerOps =>
          /\ \A i \in DOMAIN Tail(s) : Tail(s)[i].op \notin WorkerOps
          /\ \A pc2 : WaitingConn(Tail(s), pc2)
  OBVIOUS
<1>7. s # <<>> => Tail(s) \in Seq(Cmd)
  OBVIOUS
<1> QED
  BY <1>1, <1>2, <1>3, <1>4, <1>5, <1>6, <1>7

-----------------------------------------------------------------------------
(* From one connection, and from the untouched rest, to the whole state.    *)

ConnTyped == conn \in [Procs -> Seq(Cmd)]

(* Only the connection of p changes.                                        *)
LEMMA ConnStep ==
    ASSUME ConnTyped, CommandsOK, WaitingOK, Grows(req, req', reserved, reserved'),
           NEW p \in Procs, NEW s \in Seq(Cmd), conn' = [conn EXCEPT ![p] = s],
           \A q \in Procs \ {p} : worker'[q] = worker[q] /\ (q \in up' <=> q \in up),
           GoodConn(s, req', reserved'),
           WaitingConn(s, worker'[p].pc),
           p \notin up' => worker'[p].pc = "off"
    PROVE  ConnTyped' /\ CommandsOK' /\ WaitingOK'
<1>1. conn' \in [Procs -> Seq(Cmd)] /\ \A q \in Procs : conn'[q] = IF q = p THEN s ELSE conn[q]
  BY DEF ConnTyped
<1>2. \A q \in Procs : conn[q] \in Seq(Cmd)
  BY DEF ConnTyped
<1>3. \A q \in Procs : GoodConn(conn'[q], req', reserved')
  BY <1>1, <1>2, GoodConnGrows DEF CommandsOK
<1>4. \A q \in Procs : WaitingConn(conn'[q], worker'[q].pc) /\ (q \notin up' => worker'[q].pc = "off")
  BY <1>1 DEF WaitingOK
<1> QED
  BY <1>1, <1>3, <1>4 DEF ConnTyped, CommandsOK, WaitingOK

(* No connection changes; workers may go on where no command is out.        *)
LEMMA ConnFrame ==
    ASSUME ConnTyped, CommandsOK, WaitingOK, Grows(req, req', reserved, reserved'),
           conn' = conn, up' = up,
           \A q \in Procs : \/ worker'[q] = worker[q]
                            \/ /\ worker[q].pc \notin {"off", "pop", "snapshot"}
                               /\ worker'[q].pc # "off"
    PROVE  ConnTyped' /\ CommandsOK' /\ WaitingOK'
<1>1. \A q \in Procs : conn[q] \in Seq(Cmd)
  BY DEF ConnTyped
<1>2. \A q \in Procs : GoodConn(conn[q], req', reserved')
  BY <1>1, GoodConnGrows DEF CommandsOK
<1>3. ASSUME NEW q \in Procs PROVE WaitingConn(conn[q], worker'[q].pc)
  <2>1. CASE worker'[q] = worker[q]
    BY <2>1 DEF WaitingOK
  <2>2. CASE worker[q].pc \notin {"off", "pop", "snapshot"}
    BY <2>2, <1>1 DEF WaitingOK, WaitingConn, WaitsFor, WorkerOps
  <2> QED
    BY <2>1, <2>2
<1>4. \A q \in Procs : q \notin up' => worker'[q].pc = "off"
  BY DEF WaitingOK
<1> QED
  BY <1>2, <1>3, <1>4 DEF ConnTyped, CommandsOK, WaitingOK

(* Each part of the invariant survives a step that leaves its variables.    *)
LEMMA Frame ==
    ASSUME TypeOK, QueueOK, JobsOK, KeysOK, OutcomesOK, OnlyClearedIsShown,
           Grows(req, req', reserved, reserved')
    PROVE  /\ queue' = queue => QueueOK'
           /\ worker' = worker /\ cleared' = cleared => JobsOK'
           /\ nonceKey' = nonceKey /\ reserved' = reserved => KeysOK'
           /\ fate' = fate /\ cleared' = cleared => OutcomesOK'
           /\ shown' = shown /\ cleared' = cleared /\ taken' = taken => OnlyClearedIsShown'
<1>1. /\ Known(req) \subseteq Known(req')
      /\ Taken(req, reserved) \subseteq Taken(req', reserved')
      /\ \A s, n : Below(reserved, s, n) => Below(reserved', s, n)
  BY TakenGrows
<1>2. queue' = queue => QueueOK'
  BY <1>1 DEF QueueOK
<1>3. worker' = worker /\ cleared' = cleared => JobsOK'
  BY <1>1 DEF JobsOK
<1>4. nonceKey' = nonceKey /\ reserved' = reserved => KeysOK'
  BY DEF KeysOK
<1>5. fate' = fate /\ cleared' = cleared => OutcomesOK'
  BY <1>1 DEF OutcomesOK
<1>6. \A r \in cleared : req'[r].tx = req[r].tx
  BY DEF OutcomesOK, Taken, Grows
<1>7. shown' = shown /\ cleared' = cleared /\ taken' = taken => OnlyClearedIsShown'
  BY <1>6 DEF OnlyClearedIsShown, Grows
<1> QED
  BY <1>2, <1>3, <1>4, <1>5, <1>7

(* Nothing a step leaves alone gets smaller.                                *)
LEMMA GrowsSame ==
    ASSUME req' = req, reserved \subseteq reserved'
    PROVE  Grows(req, req', reserved, reserved')
BY DEF Grows, Known

-----------------------------------------------------------------------------
(* Redis's steps.                                                           *)

Replied(c, val, item) == [c EXCEPT !.replied = TRUE, !.val = val, !.item = item]

(* Redis answers one command; nobody else notices.                          *)
LEMMA ReplyStep ==
    ASSUME ConnTyped, CommandsOK, WaitingOK, NEW p \in Procs, NEW i \in DOMAIN conn[p],
           NEW val \in Int, NEW item \in Reqs \cup {NoReq}, Reply(p, i, val, item),
           worker' = worker, up' = up, Grows(req, req', reserved, reserved'),
           GoodCommand(Replied(conn[p][i], val, item), req', reserved')
    PROVE  ConnTyped' /\ CommandsOK' /\ WaitingOK'
<1> DEFINE c == Replied(conn[p][i], val, item)
           s == [conn[p] EXCEPT ![i] = c]
<1>1. conn[p] \in Seq(Cmd) /\ conn[p][i] \in Cmd
  BY DEF ConnTyped
<1>2. c \in Cmd /\ c.op = conn[p][i].op
  BY <1>1 DEF Cmd, Replied
<1>3. conn' = [conn EXCEPT ![p] = s]
  BY DEF Reply, Replied, ConnTyped
<1>4. GoodConn(conn[p], req, reserved) /\ WaitingConn(conn[p], worker[p].pc)
  BY DEF CommandsOK, WaitingOK
<1>5. s \in Seq(Cmd) /\ GoodConn(s, req', reserved')
  BY <1>1, <1>2, <1>4, GoodConnGrows
<1>6. WaitingConn(s, worker'[p].pc)
  BY <1>1, <1>2, <1>4, WaitingConnSteps
<1>7. p \notin up' => worker'[p].pc = "off"
  BY DEF WaitingOK
<1> HIDE DEF s
<1> QED
  BY <1>3, <1>5, <1>6, <1>7, ConnStep

(* A command Redis answers keeps the invariant.                             *)
LEMMA RedisPreserves ==
    ASSUME IInv, NEW p \in Procs, RedisStep(p)
    PROVE  IInv'
<1> USE DEF IInv, redis, history
<1>t. /\ ConnTyped /\ \A i \in DOMAIN conn[p] : conn[p][i] \in Cmd
      /\ \A i \in DOMAIN conn[p] : GoodCommand(conn[p][i], req, reserved)
  BY DEF TypeOK, ConnTyped, CommandsOK, GoodConn
<1>n. NoKey \in Int /\ NoReq \in Reqs \cup {NoReq}
  BY DEF NoKey
<1>1. CASE RedisGet(p)
  <2>1. PICK i \in DOMAIN conn[p] :
          /\ conn[p][i].op = "get"
          /\ Reply(p, i, nonceKey[req[conn[p][i].req].tx.from], NoReq)
          /\ UNCHANGED <<redis, req, worker, up, taken, faults, history>>
    BY <1>1 DEF RedisGet
  <2> DEFINE tx == req[conn[p][i].req].tx
  <2>2. Grows(req, req', reserved, reserved')
    BY <2>1, GrowsSame
  <2>3. tx.from \in Senders /\ nonceKey[tx.from] \in Int
    <3>1. tx.from \in Senders
      BY <1>t, <2>1 DEF GoodCommand, HandlerOps, Known, Txs
    <3>2. nonceKey \in [Senders -> Int]
      BY <1>n DEF TypeOK
    <3> QED
      BY <3>1, <3>2
  <2>4. GoodCommand(Replied(conn[p][i], nonceKey[tx.from], NoReq), req', reserved')
    BY <1>t, <2>1, <2>3 DEF GoodCommand, HandlerOps, KeysOK, Replied, Cmd
  <2>5. ConnTyped' /\ CommandsOK' /\ WaitingOK'
    BY <1>t, <2>1, <2>2, <2>3, <2>4, ReplyStep
  <2>6. TypeOK'
    BY <2>1, <2>5 DEF TypeOK, ConnTyped
  <2> QED
    BY <2>1, <2>2, <2>5, <2>6, Frame
<1>2. CASE RedisSet(p)
  <2>1. PICK i \in DOMAIN conn[p] :
          LET tx == req[conn[p][i].req].tx IN
          /\ conn[p][i].op = "set"
          /\ nonceKey' = [nonceKey EXCEPT ![tx.from] = tx.nonce + 1]
          /\ reserved' = reserved \cup {<<tx.from, tx.nonce>>}
          /\ Reply(p, i, NoKey, NoReq)
          /\ UNCHANGED <<queue, req, worker, up, taken, faults,
                         pushed, lost, fate, cleared, shown>>
    BY <1>2, Zenon DEF RedisSet, NextNonce
  <2> DEFINE r == conn[p][i].req
             tx == req[r].tx
  <2>2. Grows(req, req', reserved, reserved')
    BY <2>1, GrowsSame
  <2>3. r \in Known(req) /\ tx.from \in Senders /\ tx.nonce \in Nat /\ Below(reserved, tx.from, tx.nonce)
    <3>1. GoodCommand(conn[p][i], req, reserved) /\ conn[p][i].op = "set"
      BY <1>t, <2>1
    <3>2. r \in Known(req) /\ Below(reserved, tx.from, tx.nonce)
      BY <3>1 DEF GoodCommand, HandlerOps
    <3>3. tx \in Txs
      BY <3>2 DEF Known
    <3> HIDE DEF tx
    <3> QED
      BY <3>2, <3>3 DEF Txs, Nonces
  <2>4. r \in Taken(req', reserved')
    BY <2>1, <2>3 DEF Taken, Known, Pair
  <2>5. GoodCommand(conn[p][i], req', reserved')
    BY <1>t, <2>2, GoodCommandGrows
  <2>6. GoodCommand(Replied(conn[p][i], NoKey, NoReq), req', reserved')
    BY <1>t, <2>1, <2>4, <2>5 DEF GoodCommand, HandlerOps, Replied, Cmd
  <2>7. ConnTyped' /\ CommandsOK' /\ WaitingOK'
    BY <1>t, <2>1, <2>2, <2>6, <1>n, ReplyStep
  <2> HIDE DEF r, tx
  <2>t. /\ nonceKey' = [nonceKey EXCEPT ![tx.from] = tx.nonce + 1]
        /\ reserved' = reserved \cup {<<tx.from, tx.nonce>>}
    BY <2>1 DEF tx, r
  <2>u. tx.nonce + 1 \in Nat /\ <<tx.from, tx.nonce>> \in Senders \X Nat
    BY <2>3
  <2>8. TypeOK'
    <3>1. nonceKey' \in [Senders -> Nat \cup {NoKey}] /\ reserved' \in SUBSET (Senders \X Nat)
      BY <2>t, <2>u DEF TypeOK
    <3> QED
      BY <3>1, <2>1, <2>7 DEF TypeOK, ConnTyped
  <2>9. KeysOK'
    <3>1. \A s \in Senders, n \in Nat : Below(reserved, s, n) => Below(reserved', s, n)
      BY <2>t DEF Below
    <3>2. Below(reserved', tx.from, tx.nonce) /\ Below(reserved', tx.from, tx.nonce + 1)
      BY <2>t, <2>3 DEF Below
    <3>3. \A s \in Senders : nonceKey'[s] = IF s = tx.from THEN tx.nonce + 1 ELSE nonceKey[s]
      BY <2>t DEF TypeOK
    <3>4. \A s \in Senders : nonceKey[s] # NoKey => nonceKey[s] \in Nat
      BY DEF TypeOK
    <3>5. \A s \in Senders : nonceKey'[s] # NoKey => Below(reserved', s, nonceKey'[s])
      BY <3>1, <3>2, <3>3, <3>4 DEF KeysOK
    <3>6. ASSUME NEW s \in Senders, NEW n \in Nat, <<s, n>> \in reserved'
          PROVE  Below(reserved', s, n)
      BY <2>t, <3>1, <3>2, <3>6 DEF KeysOK
    <3> QED
      BY <3>5, <3>6 DEF KeysOK
  <2>10. OnlyClearedIsShown'
    BY <2>1 DEF OnlyClearedIsShown
  <2> QED
    BY <2>1, <2>2, <2>7, <2>8, <2>9, <2>10, Frame
<1>3. CASE RedisRpush(p)
  <2>1. PICK i \in DOMAIN conn[p] :
          /\ conn[p][i].op = "rpush"
          /\ queue' = Append(queue, conn[p][i].req)
          /\ pushed' = pushed \cup {conn[p][i].req}
          /\ Reply(p, i, NoKey, NoReq)
          /\ UNCHANGED <<nonceKey, req, worker, up, taken, faults,
                         reserved, lost, fate, cleared, shown>>
    BY <1>3 DEF RedisRpush
  <2>2. Grows(req, req', reserved, reserved')
    BY <2>1, GrowsSame
  <2>3. conn[p][i].req \in Taken(req, reserved) /\ conn[p][i].req \in Reqs
    BY <1>t, <2>1 DEF GoodCommand, Taken, Known
  <2>4. GoodCommand(Replied(conn[p][i], NoKey, NoReq), req', reserved')
    BY <1>t, <2>1, <2>3 DEF GoodCommand, HandlerOps, Replied, Cmd
  <2>5. ConnTyped' /\ CommandsOK' /\ WaitingOK'
    BY <1>t, <2>1, <2>2, <2>4, <1>n, ReplyStep
  <2>6. TypeOK'
    BY <2>1, <2>3, <2>5 DEF TypeOK, ConnTyped
  <2>7. QueueOK'
    BY <2>1, <2>3 DEF QueueOK, TypeOK
  <2> QED
    BY <2>1, <2>2, <2>5, <2>6, <2>7, Frame
<1>4. CASE RedisBlpop(p)
  <2>1. PICK i \in DOMAIN conn[p] :
          /\ conn[p][i].op = "blpop" /\ queue # <<>>
          /\ queue' = Tail(queue)
          /\ Reply(p, i, NoKey, Head(queue))
          /\ UNCHANGED <<nonceKey, req, worker, up, taken, faults, history>>
    BY <1>4 DEF RedisBlpop
  <2>2. Grows(req, req', reserved, reserved')
    BY <2>1, GrowsSame
  <2>3. Head(queue) \in Reqs /\ Head(queue) \in Taken(req, reserved)
    BY <2>1 DEF QueueOK, TypeOK
  <2>4. GoodCommand(Replied(conn[p][i], NoKey, Head(queue)), req', reserved')
    BY <1>t, <2>1, <2>3 DEF GoodCommand, HandlerOps, Replied, Cmd
  <2>5. ConnTyped' /\ CommandsOK' /\ WaitingOK'
    BY <1>t, <2>1, <2>2, <2>3, <2>4, <1>n, ReplyStep
  <2>6. TypeOK'
    BY <2>1, <2>5 DEF TypeOK, ConnTyped
  <2>7. QueueOK'
    BY <2>1 DEF QueueOK, TypeOK
  <2> QED
    BY <2>1, <2>2, <2>5, <2>6, <2>7, Frame
<1>5. CASE RedisBlpopTimeout(p) \/ RedisSnapshot(p)
  <2>1. PICK i \in DOMAIN conn[p] :
          /\ conn[p][i].op \in WorkerOps
          /\ Reply(p, i, NoKey, NoReq)
          /\ UNCHANGED <<redis, req, worker, up, taken, faults, history>>
    BY <1>5 DEF RedisBlpopTimeout, RedisSnapshot, WorkerOps
  <2>2. Grows(req, req', reserved, reserved')
    BY <2>1, GrowsSame
  <2>3. GoodCommand(Replied(conn[p][i], NoKey, NoReq), req', reserved')
    BY <1>t, <2>1 DEF GoodCommand, HandlerOps, WorkerOps, Replied, Cmd
  <2>4. ConnTyped' /\ CommandsOK' /\ WaitingOK'
    BY <1>t, <2>1, <2>2, <2>3, <1>n, ReplyStep
  <2>5. TypeOK'
    BY <2>1, <2>4 DEF TypeOK, ConnTyped
  <2> QED
    BY <2>1, <2>2, <2>4, <2>5, Frame
<1> QED
  BY <1>1, <1>2, <1>3, <1>4, <1>5 DEF RedisStep

-----------------------------------------------------------------------------
(* The handlers' steps.                                                     *)

(* A command as the code sends it.                                          *)
LEMMA CommandTyped ==
    ASSUME NEW op \in Ops, NEW r \in Reqs \cup {NoReq}
    PROVE  /\ Command(op, r) \in Cmd
           /\ Command(op, r).op = op /\ Command(op, r).req = r
           /\ Command(op, r).val = NoKey /\ Command(op, r).item = NoReq
           /\ ~Command(op, r).replied
<1>1. NoKey \in Int
  BY DEF NoKey
<1> QED
  BY <1>1 DEF Command, Cmd

(* A handler sends a command, or takes the head's reply and may send the    *)
(* next one.                                                                *)
LEMMA HandlerConn ==
    ASSUME ConnTyped, CommandsOK, WaitingOK, NEW p \in Procs,
           worker' = worker, up' = up, Grows(req, req', reserved, reserved'),
           NEW c \in Cmd, c.op \in HandlerOps, GoodCommand(c, req', reserved'),
           Issue(p, c) \/ (conn[p] # <<>> /\ (Deliver(p) \/ DeliverAndIssue(p, c)))
    PROVE  ConnTyped' /\ CommandsOK' /\ WaitingOK'
<1> DEFINE Good(s) == /\ s \in Seq(Cmd) /\ GoodConn(s, req', reserved')
                      /\ WaitingConn(s, worker'[p].pc)
<1>1. conn[p] \in Seq(Cmd) /\ GoodConn(conn[p], req, reserved) /\ WaitingConn(conn[p], worker[p].pc)
  BY DEF ConnTyped, CommandsOK, WaitingOK
<1>2. Good(Append(conn[p], c))
  BY <1>1, GoodConnGrows, WaitingConnSteps
<1>3. conn[p] # <<>> => Good(Tail(conn[p])) /\ Good(Append(Tail(conn[p]), c))
  BY <1>1, GoodConnGrows, WaitingConnSteps
<1>4. ASSUME NEW s, Good(s), conn' = [conn EXCEPT ![p] = s]
      PROVE  ConnTyped' /\ CommandsOK' /\ WaitingOK'
  <2>1. p \notin up' => worker'[p].pc = "off"
    BY DEF WaitingOK
  <2> QED
    BY <1>4, <2>1, ConnStep
<1> HIDE DEF Good
<1>5. CASE Issue(p, c)
  BY <1>2, <1>4, <1>5 DEF Issue
<1>6. CASE conn[p] # <<>> /\ Deliver(p)
  BY <1>3, <1>4, <1>6 DEF Deliver
<1>7. CASE conn[p] # <<>> /\ DeliverAndIssue(p, c)
  BY <1>3, <1>4, <1>7 DEF DeliverAndIssue
<1> QED
  BY <1>5, <1>6, <1>7

(* The head of a connection, as a handler finds it.                         *)
LEMMA HeadGood ==
    ASSUME ConnTyped, CommandsOK, NEW p \in Procs, conn[p] # <<>>
    PROVE  Head(conn[p]) \in Cmd /\ GoodCommand(Head(conn[p]), req, reserved)
BY DEF ConnTyped, CommandsOK, GoodConn

(* A request that gets an answer keeps its transaction.                     *)
LEMMA AnswerGrows ==
    ASSUME TypeOK, NEW r \in Reqs, NEW st \in ReqStates \ {"new"},
           req' = [req EXCEPT ![r].st = st], reserved' = reserved
    PROVE  /\ Grows(req, req', reserved, reserved')
           /\ req' \in [Reqs -> [st : ReqStates, tx : Txs \cup {NoTx}, at : Procs \cup {NoReq}]]
<1>1. /\ req \in [Reqs -> [st : ReqStates, tx : Txs \cup {NoTx}, at : Procs \cup {NoReq}]]
      /\ st \in ReqStates /\ st # "new"
  BY DEF TypeOK
<1>2. req' \in [Reqs -> [st : ReqStates, tx : Txs \cup {NoTx}, at : Procs \cup {NoReq}]]
  BY <1>1
<1>3. \A q \in Reqs : req'[q].tx = req[q].tx /\ req'[q].st \in {req[q].st, st}
  BY <1>1
<1> QED
  BY <1>1, <1>2, <1>3 DEF Grows, Known

(* A handler that gets an answer keeps the invariant.                       *)
LEMMA HandlersPreserve ==
    ASSUME IInv, NEW p \in Procs, HandlerStep(p)
    PROVE  IInv'
<1> USE DEF IInv, redis, history
<1>t. ConnTyped
  BY DEF TypeOK, ConnTyped
<1>1. CASE ReserveNonce(p)
  <2> DEFINE r == Head(conn[p]).req
             c == Command("set", r)
  <2>1. /\ conn[p] # <<>> /\ Head(conn[p]).op = "get"
        /\ req[r].tx.nonce = Expected(Head(conn[p]).val)
        /\ DeliverAndIssue(p, c)
        /\ UNCHANGED <<redis, req, worker, up, taken, faults, history>>
    BY <1>1 DEF ReserveNonce, Answered, IsExpected
  <2>2. Grows(req, req', reserved, reserved')
    BY <2>1, GrowsSame
  <2>3. Head(conn[p]) \in Cmd /\ GoodCommand(Head(conn[p]), req, reserved)
    BY <1>t, <2>1, HeadGood
  <2>4. r \in Known(req) /\ r \in Reqs
    BY <2>1, <2>3 DEF GoodCommand, HandlerOps, Known
  <2>5. Below(reserved, req[r].tx.from, req[r].tx.nonce)
    <3>1. CASE Head(conn[p]).val = NoKey
      BY <2>1, <3>1 DEF Expected, Below
    <3>2. CASE Head(conn[p]).val # NoKey
      BY <2>1, <2>3, <3>2 DEF GoodCommand, Expected
    <3> QED
      BY <3>1, <3>2
  <2>6. c \in Cmd /\ c.op = "set" /\ c.req = r /\ c.item = NoReq /\ ~c.replied
    BY <2>4, CommandTyped DEF Ops
  <2> HIDE DEF c, r
  <2>7. GoodCommand(c, req', reserved') /\ c.op \in HandlerOps
    BY <2>1, <2>4, <2>5, <2>6 DEF GoodCommand, HandlerOps
  <2>8. ConnTyped' /\ CommandsOK' /\ WaitingOK'
    BY <1>t, <2>1, <2>2, <2>6, <2>7, HandlerConn
  <2>9. TypeOK'
    BY <2>1, <2>8 DEF TypeOK, ConnTyped
  <2> QED
    BY <2>1, <2>2, <2>8, <2>9, Frame
<1>2. CASE RejectNonce(p)
  <2> DEFINE r == Head(conn[p]).req
             c == Command("get", r)
  <2>1. /\ conn[p] # <<>> /\ Head(conn[p]).op = "get"
        /\ req' = [req EXCEPT ![r].st = "badNonce"]
        /\ Deliver(p)
        /\ UNCHANGED <<redis, worker, up, taken, faults, history>>
    BY <1>2 DEF RejectNonce, Answered
  <2>2. Head(conn[p]) \in Cmd /\ GoodCommand(Head(conn[p]), req, reserved)
    BY <1>t, <2>1, HeadGood
  <2>3. r \in Known(req) /\ r \in Reqs
    BY <2>1, <2>2 DEF GoodCommand, HandlerOps, Known
  <2>4. /\ Grows(req, req', reserved, reserved')
        /\ req' \in [Reqs -> [st : ReqStates, tx : Txs \cup {NoTx}, at : Procs \cup {NoReq}]]
    <3>1. "badNonce" \in ReqStates \ {"new"}
      BY DEF ReqStates
    <3>2. reserved' = reserved
      BY <2>1
    <3> QED
      BY <2>1, <2>3, <3>1, <3>2, AnswerGrows
  <2>5. r \in Known(req')
    BY <2>3, <2>4, TakenGrows
  <2>6. c \in Cmd /\ c.op = "get" /\ c.req = r /\ c.item = NoReq /\ c.val = NoKey
    BY <2>3, CommandTyped DEF Ops
  <2> HIDE DEF c, r
  <2>7. GoodCommand(c, req', reserved') /\ c.op \in HandlerOps
    BY <2>5, <2>6 DEF GoodCommand, HandlerOps
  <2>8. ConnTyped' /\ CommandsOK' /\ WaitingOK'
    BY <1>t, <2>1, <2>4, <2>6, <2>7, HandlerConn
  <2>9. TypeOK'
    BY <2>1, <2>4, <2>8 DEF TypeOK, ConnTyped
  <2> QED
    BY <2>1, <2>4, <2>8, <2>9, Frame
<1>3. CASE Enqueue(p)
  <2> DEFINE r == Head(conn[p]).req
             c == Command("rpush", r)
  <2>1. /\ conn[p] # <<>> /\ Head(conn[p]).op = "set" /\ Head(conn[p]).replied
        /\ DeliverAndIssue(p, c)
        /\ UNCHANGED <<redis, req, worker, up, taken, faults, history>>
    BY <1>3 DEF Enqueue, Answered
  <2>2. Grows(req, req', reserved, reserved')
    BY <2>1, GrowsSame
  <2>3. Head(conn[p]) \in Cmd /\ GoodCommand(Head(conn[p]), req, reserved)
    BY <1>t, <2>1, HeadGood
  <2>4. r \in Taken(req, reserved) /\ r \in Known(req) /\ r \in Reqs
    BY <2>1, <2>3 DEF GoodCommand, HandlerOps, Known, Taken
  <2>5. c \in Cmd /\ c.op = "rpush" /\ c.req = r /\ c.item = NoReq
    BY <2>4, CommandTyped DEF Ops
  <2> HIDE DEF c, r
  <2>6. GoodCommand(c, req', reserved') /\ c.op \in HandlerOps
    BY <2>1, <2>4, <2>5 DEF GoodCommand, HandlerOps
  <2>7. ConnTyped' /\ CommandsOK' /\ WaitingOK'
    BY <1>t, <2>1, <2>2, <2>5, <2>6, HandlerConn
  <2>8. TypeOK'
    BY <2>1, <2>7 DEF TypeOK, ConnTyped
  <2> QED
    BY <2>1, <2>2, <2>7, <2>8, Frame
<1>4. CASE Respond(p)
  <2> DEFINE r == Head(conn[p]).req
             c == Command("get", r)
  <2>1. /\ conn[p] # <<>> /\ Head(conn[p]).op = "rpush"
        /\ req' = [req EXCEPT ![r].st = "accepted"]
        /\ Deliver(p)
        /\ UNCHANGED <<redis, worker, up, taken, faults, history>>
    BY <1>4 DEF Respond, Answered
  <2>2. Head(conn[p]) \in Cmd /\ GoodCommand(Head(conn[p]), req, reserved)
    BY <1>t, <2>1, HeadGood
  <2>3. r \in Known(req) /\ r \in Reqs
    BY <2>1, <2>2 DEF GoodCommand, HandlerOps, Known
  <2>4. /\ Grows(req, req', reserved, reserved')
        /\ req' \in [Reqs -> [st : ReqStates, tx : Txs \cup {NoTx}, at : Procs \cup {NoReq}]]
    <3>1. "accepted" \in ReqStates \ {"new"}
      BY DEF ReqStates
    <3>2. reserved' = reserved
      BY <2>1
    <3> QED
      BY <2>1, <2>3, <3>1, <3>2, AnswerGrows
  <2>5. r \in Known(req')
    BY <2>3, <2>4, TakenGrows
  <2>6. c \in Cmd /\ c.op = "get" /\ c.req = r /\ c.item = NoReq /\ c.val = NoKey
    BY <2>3, CommandTyped DEF Ops
  <2> HIDE DEF c, r
  <2>7. GoodCommand(c, req', reserved') /\ c.op \in HandlerOps
    BY <2>5, <2>6 DEF GoodCommand, HandlerOps
  <2>8. ConnTyped' /\ CommandsOK' /\ WaitingOK'
    BY <1>t, <2>1, <2>4, <2>6, <2>7, HandlerConn
  <2>9. TypeOK'
    BY <2>1, <2>4, <2>8 DEF TypeOK, ConnTyped
  <2> QED
    BY <2>1, <2>4, <2>8, <2>9, Frame
<1> QED
  BY <1>1, <1>2, <1>3, <1>4 DEF HandlerStep

(* A new request reads the sender's nonce first.                            *)
LEMMA ReceivePreserves ==
    ASSUME IInv, NEW p \in Procs, NEW r \in Reqs, NEW tx \in Txs, Receive(p, r, tx)
    PROVE  IInv'
<1> USE DEF IInv, redis, history
<1> DEFINE c == Command("get", r)
<1>t. ConnTyped
  BY DEF TypeOK, ConnTyped
<1>1. /\ req[r].st = "new"
      /\ req' = [req EXCEPT ![r] = [st |-> "open", tx |-> tx, at |-> p]]
      /\ Issue(p, c)
      /\ UNCHANGED <<redis, worker, up, taken, faults, history>>
  BY DEF Receive
<1>2. /\ req' \in [Reqs -> [st : ReqStates, tx : Txs \cup {NoTx}, at : Procs \cup {NoReq}]]
      /\ req'[r].st = "open" /\ req'[r].tx = tx
  BY <1>1 DEF TypeOK, ReqStates
<1>3. Grows(req, req', reserved, reserved') /\ r \in Known(req')
  BY <1>1, <1>2 DEF TypeOK, Grows, Known
<1>4. c \in Cmd /\ c.op = "get" /\ c.req = r /\ c.item = NoReq /\ c.val = NoKey
  BY CommandTyped DEF Ops
<1> HIDE DEF c
<1>5. GoodCommand(c, req', reserved') /\ c.op \in HandlerOps
  BY <1>3, <1>4 DEF GoodCommand, HandlerOps
<1>6. ConnTyped' /\ CommandsOK' /\ WaitingOK'
  <2>1. worker' = worker /\ up' = up
    BY <1>1
  <2>2. Issue(p, c) \/ (conn[p] # <<>> /\ (Deliver(p) \/ DeliverAndIssue(p, c)))
    BY <1>1
  <2>3. Grows(req, req', reserved, reserved')
    BY <1>3
  <2>4. ConnTyped /\ CommandsOK /\ WaitingOK /\ c \in Cmd
    BY <1>t, <1>4
  <2> QED
    BY <1>5, <2>1, <2>2, <2>3, <2>4, HandlerConn
<1>7. TypeOK'
  BY <1>1, <1>2, <1>6 DEF TypeOK, ConnTyped
<1> QED
  BY <1>1, <1>3, <1>6, <1>7, Frame

-----------------------------------------------------------------------------
(* The worker's steps.                                                      *)

WorkerTyped == worker \in [Procs -> [pc : WorkerStates, job : Reqs \cup {NoReq}]]

(* A worker that moves on keeps its job.                                    *)
LEMMA GoToStep ==
    ASSUME WorkerTyped, NEW p \in Procs, NEW pc \in WorkerStates, GoTo(p, pc)
    PROVE  /\ WorkerTyped'
           /\ worker'[p].pc = pc /\ worker'[p].job = worker[p].job
           /\ \A q \in Procs \ {p} : worker'[q] = worker[q]
BY DEF WorkerTyped, GoTo

(* A worker that ends its job logs one outcome for it.                      *)
LEMMA FinishStep ==
    ASSUME WorkerTyped, fate \in [Reqs -> SUBSET Fates], NEW p \in Procs,
           NEW outcome \in Fates, Finish(p, outcome)
    PROVE  /\ WorkerTyped'
           /\ worker'[p].pc = "idle"
           /\ \A q \in Procs \ {p} : worker'[q] = worker[q]
           /\ fate' \in [Reqs -> SUBSET Fates]
           /\ \A r \in Reqs : fate'[r] = IF r = worker[p].job THEN fate[r] \cup {outcome} ELSE fate[r]
BY DEF WorkerTyped, Finish, WorkerStates

(* One worker moves on.                                                     *)
LEMMA JobsStep ==
    ASSUME JobsOK, Grows(req, req', reserved, reserved'), cleared \subseteq cleared',
           NEW p \in Procs, \A q \in Procs \ {p} : worker'[q] = worker[q],
           worker'[p].pc \in Working => worker'[p].job \in Taken(req', reserved'),
           worker'[p].pc \in Broadcasting => worker'[p].job \in cleared'
    PROVE  JobsOK'
<1>1. Taken(req, reserved) \subseteq Taken(req', reserved')
  BY TakenGrows
<1> QED
  BY <1>1 DEF JobsOK

(* A worker that sends a command, at once or when it takes an answer.       *)
LEMMA WorkerSends ==
    ASSUME ConnTyped, CommandsOK, WaitingOK, NEW p \in Procs, worker[p].pc # "off",
           \A q \in Procs \ {p} : worker'[q] = worker[q],
           up' = up, req' = req, reserved' = reserved,
           NEW c \in Cmd, c.op \in WorkerOps, c.item = NoReq, WaitsFor(c, worker'[p].pc),
           \/ Issue(p, c) /\ worker[p].pc \notin {"pop", "snapshot"}
           \/ conn[p] # <<>> /\ Head(conn[p]).op \in WorkerOps /\ DeliverAndIssue(p, c)
    PROVE  ConnTyped' /\ CommandsOK' /\ WaitingOK'
<1> DEFINE Good(s) == /\ s \in Seq(Cmd) /\ GoodConn(s, req', reserved')
                      /\ WaitingConn(s, worker'[p].pc)
<1>1. conn[p] \in Seq(Cmd) /\ GoodConn(conn[p], req, reserved) /\ WaitingConn(conn[p], worker[p].pc)
  BY DEF ConnTyped, CommandsOK, WaitingOK
<1>2. Grows(req, req', reserved, reserved')
  BY GrowsSame
<1>3. GoodCommand(c, req', reserved')
  BY DEF GoodCommand, HandlerOps, WorkerOps
<1>4. ASSUME NEW s, Good(s), conn' = [conn EXCEPT ![p] = s]
      PROVE  ConnTyped' /\ CommandsOK' /\ WaitingOK'
  <2>1. p \notin up' => worker'[p].pc = "off"
    BY DEF WaitingOK
  <2> QED
    BY <1>2, <1>4, <2>1, ConnStep
<1>5. worker[p].pc \notin {"pop", "snapshot"} => Good(Append(conn[p], c))
  BY <1>1, <1>2, <1>3, GoodConnGrows, WaitingConnSteps
<1>6. conn[p] # <<>> /\ Head(conn[p]).op \in WorkerOps => Good(Append(Tail(conn[p]), c))
  BY <1>1, <1>2, <1>3, GoodConnGrows, WaitingConnSteps
<1> HIDE DEF Good
<1>7. CASE Issue(p, c) /\ worker[p].pc \notin {"pop", "snapshot"}
  BY <1>4, <1>5, <1>7 DEF Issue
<1>8. CASE conn[p] # <<>> /\ Head(conn[p]).op \in WorkerOps /\ DeliverAndIssue(p, c)
  BY <1>4, <1>6, <1>8 DEF DeliverAndIssue
<1> QED
  BY <1>7, <1>8

(* A worker that takes an answer and sends nothing.                         *)
LEMMA WorkerTakes ==
    ASSUME ConnTyped, CommandsOK, WaitingOK, NEW p \in Procs, worker[p].pc # "off",
           \A q \in Procs \ {p} : worker'[q] = worker[q],
           up' = up, req' = req, reserved' = reserved,
           conn[p] # <<>>, Head(conn[p]).op \in WorkerOps, Deliver(p)
    PROVE  ConnTyped' /\ CommandsOK' /\ WaitingOK'
<1> DEFINE s == Tail(conn[p])
<1>1. conn[p] \in Seq(Cmd) /\ GoodConn(conn[p], req, reserved) /\ WaitingConn(conn[p], worker[p].pc)
  BY DEF ConnTyped, CommandsOK, WaitingOK
<1>2. Grows(req, req', reserved, reserved')
  BY GrowsSame
<1>3. /\ s \in Seq(Cmd) /\ GoodConn(s, req', reserved') /\ WaitingConn(s, worker'[p].pc)
      /\ conn' = [conn EXCEPT ![p] = s]
  BY <1>1, <1>2, GoodConnGrows, WaitingConnSteps DEF Deliver
<1>4. p \notin up' => worker'[p].pc = "off"
  BY DEF WaitingOK
<1> HIDE DEF s
<1> QED
  BY <1>2, <1>3, <1>4, ConnStep

(* What the head of its connection says about a worker.                     *)
LEMMA HeadWaits ==
    ASSUME ConnTyped, WaitingOK, NEW p \in Procs, conn[p] # <<>>
    PROVE  WaitsFor(Head(conn[p]), worker[p].pc)
BY DEF ConnTyped, WaitingOK, WaitingConn

(* The worker's own Redis commands keep the invariant.                      *)
LEMMA QueueReadersPreserve ==
    ASSUME IInv, NEW p \in Procs,
           Dequeue(p) \/ PopNothing(p) \/ PopJob(p) \/ ReadSnapshot(p)
    PROVE  IInv'
<1> USE DEF IInv, redis, history
<1>t. ConnTyped /\ WorkerTyped
  BY DEF TypeOK, ConnTyped, WorkerTyped
<1>b. /\ Command("blpop", NoReq) \in Cmd /\ Command("snapshot", NoReq) \in Cmd
      /\ Command("blpop", NoReq).op = "blpop" /\ Command("snapshot", NoReq).op = "snapshot"
      /\ Command("blpop", NoReq).item = NoReq /\ Command("snapshot", NoReq).item = NoReq
  BY CommandTyped DEF Ops
<1>1. CASE Dequeue(p)
  <2> DEFINE c == Command("blpop", NoReq)
  <2>1. /\ worker[p].pc = "idle" /\ Issue(p, c) /\ GoTo(p, "pop")
        /\ UNCHANGED <<redis, req, up, taken, faults, history>>
    BY <1>1 DEF Dequeue
  <2>2. /\ WorkerTyped' /\ worker'[p].pc = "pop"
        /\ \A q \in Procs \ {p} : worker'[q] = worker[q]
    BY <1>t, <2>1, GoToStep DEF WorkerStates
  <2>3. c.op \in WorkerOps /\ WaitsFor(c, worker'[p].pc)
    BY <1>b, <2>2 DEF WorkerOps, WaitsFor
  <2> HIDE DEF c
  <2>4. ConnTyped' /\ CommandsOK' /\ WaitingOK'
    BY <1>t, <1>b, <2>1, <2>2, <2>3, WorkerSends DEF c
  <2>5. Grows(req, req', reserved, reserved')
    BY <2>1, GrowsSame
  <2>6. JobsOK'
    BY <2>1, <2>2, <2>5, JobsStep DEF Working, Broadcasting
  <2>7. TypeOK'
    BY <2>1, <2>2, <2>4 DEF TypeOK, ConnTyped, WorkerTyped
  <2> QED
    BY <2>1, <2>4, <2>5, <2>6, <2>7, Frame
<1>2. CASE PopNothing(p)
  <2>1. /\ conn[p] # <<>> /\ Head(conn[p]).op = "blpop" /\ Deliver(p) /\ GoTo(p, "idle")
        /\ UNCHANGED <<redis, req, up, taken, faults, history>>
    BY <1>2 DEF PopNothing, Answered
  <2>2. /\ WorkerTyped' /\ worker'[p].pc = "idle"
        /\ \A q \in Procs \ {p} : worker'[q] = worker[q]
    BY <1>t, <2>1, GoToStep DEF WorkerStates
  <2>3. worker[p].pc = "pop" /\ Head(conn[p]).op \in WorkerOps
    BY <1>t, <2>1, HeadWaits DEF WaitsFor, WorkerOps
  <2>4. ConnTyped' /\ CommandsOK' /\ WaitingOK'
    BY <1>t, <2>1, <2>2, <2>3, WorkerTakes
  <2>5. Grows(req, req', reserved, reserved')
    BY <2>1, GrowsSame
  <2>6. JobsOK'
    BY <2>1, <2>2, <2>5, JobsStep DEF Working, Broadcasting
  <2>7. TypeOK'
    BY <2>1, <2>2, <2>4 DEF TypeOK, ConnTyped, WorkerTyped
  <2> QED
    BY <2>1, <2>4, <2>5, <2>6, <2>7, Frame
<1>3. CASE PopJob(p)
  <2> DEFINE c == Command("snapshot", NoReq)
             r == Head(conn[p]).item
  <2>1. /\ conn[p] # <<>> /\ Head(conn[p]).op = "blpop" /\ r # NoReq
        /\ DeliverAndIssue(p, c)
        /\ worker' = [worker EXCEPT ![p] = [pc |-> "snapshot", job |-> r]]
        /\ UNCHANGED <<redis, req, up, taken, faults, history>>
    BY <1>3 DEF PopJob, Answered
  <2>2. r \in Taken(req, reserved) /\ r \in Reqs
    BY <1>t, <2>1, HeadGood DEF GoodCommand, Taken, Known
  <2>3. /\ WorkerTyped' /\ worker'[p].pc = "snapshot" /\ worker'[p].job = r
        /\ \A q \in Procs \ {p} : worker'[q] = worker[q]
    BY <1>t, <2>1, <2>2 DEF WorkerTyped, WorkerStates
  <2>4. worker[p].pc = "pop"
    BY <1>t, <2>1, HeadWaits DEF WaitsFor
  <2>5. /\ c.op \in WorkerOps /\ WaitsFor(c, worker'[p].pc)
        /\ Head(conn[p]).op \in WorkerOps
    BY <1>b, <2>1, <2>3 DEF WorkerOps, WaitsFor
  <2>6. ConnTyped' /\ CommandsOK' /\ WaitingOK'
    BY <1>t, <1>b, <2>1, <2>3, <2>4, <2>5, WorkerSends
  <2>7. Grows(req, req', reserved, reserved')
    BY <2>1, GrowsSame
  <2> HIDE DEF c, r
  <2>8. JobsOK'
    BY <2>1, <2>2, <2>3, <2>7, JobsStep DEF Broadcasting
  <2>9. TypeOK'
    BY <2>1, <2>3, <2>6 DEF TypeOK, ConnTyped, WorkerTyped
  <2> QED
    BY <2>1, <2>6, <2>7, <2>8, <2>9, Frame
<1>4. CASE ReadSnapshot(p)
  <2>1. /\ conn[p] # <<>> /\ Head(conn[p]).op = "snapshot" /\ Deliver(p) /\ GoTo(p, "simulate")
        /\ UNCHANGED <<redis, req, up, taken, faults, history>>
    BY <1>4 DEF ReadSnapshot, Answered
  <2>2. /\ WorkerTyped' /\ worker'[p].pc = "simulate" /\ worker'[p].job = worker[p].job
        /\ \A q \in Procs \ {p} : worker'[q] = worker[q]
    BY <1>t, <2>1, GoToStep DEF WorkerStates
  <2>3. worker[p].pc = "snapshot" /\ Head(conn[p]).op \in WorkerOps
    BY <1>t, <2>1, HeadWaits DEF WaitsFor, WorkerOps
  <2>4. ConnTyped' /\ CommandsOK' /\ WaitingOK'
    BY <1>t, <2>1, <2>2, <2>3, WorkerTakes
  <2>5. Grows(req, req', reserved, reserved')
    BY <2>1, GrowsSame
  <2>6. worker[p].job \in Taken(req', reserved')
    BY <2>1, <2>3 DEF JobsOK, Working
  <2>7. JobsOK'
    BY <2>1, <2>2, <2>5, <2>6, JobsStep DEF Broadcasting
  <2>8. TypeOK'
    BY <2>1, <2>2, <2>4 DEF TypeOK, ConnTyped, WorkerTyped
  <2> QED
    BY <2>1, <2>4, <2>5, <2>7, <2>8, Frame
<1> QED
  BY <1>1, <1>2, <1>3, <1>4

(* Steps between two replies: no command is out, and none is sent.          *)
LEMMA WorkerMoves ==
    ASSUME IInv, NEW p \in Procs, worker[p].pc \notin {"off", "pop", "snapshot"},
           WorkerTyped', worker'[p].pc # "off", \A q \in Procs \ {p} : worker'[q] = worker[q],
           UNCHANGED <<redis, conn, req, up, faults, reserved, pushed, lost>>
    PROVE  /\ Grows(req, req', reserved, reserved')
           /\ CommandsOK' /\ WaitingOK' /\ QueueOK' /\ KeysOK'
           /\ (/\ taken' \in [Providers -> SUBSET Txs] /\ cleared' \in SUBSET Reqs
               /\ fate' \in [Reqs -> SUBSET Fates] /\ shown' \in [Reqs -> SUBSET Providers]) => TypeOK'
<1> USE DEF IInv, redis
<1>1. Grows(req, req', reserved, reserved')
  BY GrowsSame
<1>2. ConnTyped /\ conn' = conn /\ up' = up
  BY DEF TypeOK, ConnTyped
<1>3. \A q \in Procs : \/ worker'[q] = worker[q]
                       \/ /\ worker[q].pc \notin {"off", "pop", "snapshot"}
                          /\ worker'[q].pc # "off"
  OBVIOUS
<1>4. CommandsOK' /\ WaitingOK'
  BY <1>1, <1>2, <1>3, ConnFrame
<1>5. QueueOK' /\ KeysOK'
  BY <1>1, Frame
<1> QED
  BY <1>1, <1>4, <1>5 DEF TypeOK, WorkerTyped

(* Simulation and MEV guard keep the invariant.                             *)
LEMMA JudgingPreserves ==
    ASSUME IInv, NEW p \in Procs, Simulate(p) \/ Guard(p)
    PROVE  IInv'
<1> USE DEF IInv, redis
<1>t. WorkerTyped /\ fate \in [Reqs -> SUBSET Fates]
  BY DEF TypeOK, WorkerTyped
<1>1. /\ worker[p].pc \in {"simulate", "guard"}
      /\ UNCHANGED <<redis, conn, req, up, taken, faults, reserved, pushed, lost, shown>>
      /\ cleared' = cleared \/ cleared' = cleared \cup {worker[p].job}
      /\ \/ \E outcome \in {"rejected", "error"} : Finish(p, outcome) /\ cleared' = cleared
         \/ GoTo(p, "guard") /\ fate' = fate /\ cleared' = cleared
         \/ GoTo(p, "primary") /\ fate' = fate /\ cleared' = cleared \cup {worker[p].job}
  BY DEF Simulate, Guard
<1>2. worker[p].job \in Taken(req, reserved) /\ worker[p].job \in Known(req) /\ worker[p].job \in Reqs
  BY <1>1 DEF JobsOK, Working, Taken, Known
<1>3. /\ WorkerTyped' /\ \A q \in Procs \ {p} : worker'[q] = worker[q]
      /\ fate' \in [Reqs -> SUBSET Fates]
      /\ worker'[p].pc \in {"idle", "guard", "primary"}
      /\ worker'[p].pc # "idle" => worker'[p].job = worker[p].job
      /\ worker'[p].pc = "primary" => worker[p].job \in cleared'
      /\ \A r \in Reqs : fate'[r] # {} => fate[r] # {} \/ r = worker[p].job
  <2>1. CASE \E outcome \in {"rejected", "error"} : Finish(p, outcome) /\ cleared' = cleared
    <3>1. PICK outcome \in {"rejected", "error"} : Finish(p, outcome)
      BY <2>1
    <3>2. outcome \in Fates
      BY DEF Fates
    <3>3. /\ WorkerTyped' /\ worker'[p].pc = "idle"
          /\ \A q \in Procs \ {p} : worker'[q] = worker[q]
          /\ fate' \in [Reqs -> SUBSET Fates]
          /\ \A r \in Reqs : fate'[r] = IF r = worker[p].job THEN fate[r] \cup {outcome} ELSE fate[r]
      BY <1>t, <3>1, <3>2, FinishStep
    <3> QED
      BY <3>3
  <2>2. CASE GoTo(p, "guard") /\ fate' = fate
    BY <1>t, <2>2, GoToStep DEF WorkerStates
  <2>3. CASE GoTo(p, "primary") /\ fate' = fate /\ cleared' = cleared \cup {worker[p].job}
    BY <1>t, <2>3, GoToStep DEF WorkerStates
  <2> QED
    BY <1>1, <2>1, <2>2, <2>3
<1>4. /\ Grows(req, req', reserved, reserved')
      /\ CommandsOK' /\ WaitingOK' /\ QueueOK' /\ KeysOK' /\ TypeOK'
  <2>1. /\ worker[p].pc \notin {"off", "pop", "snapshot"} /\ worker'[p].pc # "off"
        /\ UNCHANGED <<redis, conn, req, up, faults, reserved, pushed, lost>>
    BY <1>1, <1>3
  <2>2. /\ taken' \in [Providers -> SUBSET Txs] /\ cleared' \in SUBSET Reqs
        /\ shown' \in [Reqs -> SUBSET Providers]
    BY <1>1, <1>2 DEF TypeOK
  <2> QED
    BY <1>3, <2>1, <2>2, WorkerMoves
<1>5. JobsOK'
  BY <1>1, <1>2, <1>3, <1>4, JobsStep DEF Working, Broadcasting
<1>6. OutcomesOK'
  BY <1>1, <1>2, <1>3 DEF OutcomesOK
<1>7. OnlyClearedIsShown'
  BY <1>1 DEF OnlyClearedIsShown
<1> QED
  BY <1>4, <1>5, <1>6, <1>7

(* The three broadcasts keep the invariant.                                 *)
LEMMA BroadcastPreserves ==
    ASSUME IInv, NEW p \in Procs,
           BroadcastPrimary(p) \/ BroadcastRelay(p) \/ BroadcastRetry(p)
    PROVE  IInv'
<1> USE DEF IInv, redis
<1>t. WorkerTyped /\ fate \in [Reqs -> SUBSET Fates]
  BY DEF TypeOK, WorkerTyped
<1> DEFINE r == worker[p].job
<1>1. /\ worker[p].pc \in Broadcasting
      /\ UNCHANGED <<redis, conn, req, up, faults, reserved, pushed, lost, cleared>>
      /\ \E provider \in Providers :
            /\ shown' = [shown EXCEPT ![r] = @ \cup {provider}]
            /\ taken' = [taken EXCEPT ![provider] = @ \cup {req[r].tx}] \/ taken' = taken
      /\ \/ Finish(p, "sent") \/ Finish(p, "failed")
         \/ (GoTo(p, "relay") \/ GoTo(p, "retry")) /\ fate' = fate
  BY DEF BroadcastPrimary, BroadcastRelay, BroadcastRetry, Broadcasting, BroadcastSingle,
         Succeeds, AfterPrimary, Providers
<1>2. /\ r \in Taken(req, reserved) /\ r \in Known(req) /\ r \in Reqs /\ r \in cleared
      /\ req[r].tx \in Txs /\ <<req[r].tx.from, req[r].tx.nonce>> \in reserved
  BY <1>1 DEF JobsOK, Working, Broadcasting, Taken, Known, Pair
<1>3. /\ WorkerTyped' /\ \A q \in Procs \ {p} : worker'[q] = worker[q]
      /\ fate' \in [Reqs -> SUBSET Fates]
      /\ worker'[p].pc \in {"idle", "relay", "retry"}
      /\ worker'[p].pc # "idle" => worker'[p].job = r
      /\ \A q \in Reqs : fate'[q] # {} => fate[q] # {} \/ q = r
  <2>1. CASE Finish(p, "sent")
    BY <1>t, <2>1, FinishStep DEF Fates
  <2>2. CASE Finish(p, "failed")
    BY <1>t, <2>2, FinishStep DEF Fates
  <2>3. CASE (GoTo(p, "relay") \/ GoTo(p, "retry")) /\ fate' = fate
    BY <1>t, <2>3, GoToStep DEF WorkerStates
  <2> QED
    BY <1>1, <2>1, <2>2, <2>3
<1>4. /\ shown' \in [Reqs -> SUBSET Providers]
      /\ \A q \in Reqs : shown'[q] # {} => shown[q] # {} \/ q = r
      /\ taken' \in [Providers -> SUBSET Txs]
      /\ \A x \in Providers : taken'[x] \subseteq taken[x] \cup {req[r].tx}
  <2>1. /\ shown \in [Reqs -> SUBSET Providers] /\ taken \in [Providers -> SUBSET Txs]
    BY DEF TypeOK
  <2>2. PICK provider \in Providers :
          /\ shown' = [shown EXCEPT ![r] = @ \cup {provider}]
          /\ taken' = [taken EXCEPT ![provider] = @ \cup {req[r].tx}] \/ taken' = taken
    BY <1>1
  <2> HIDE DEF IInv, r
  <2> QED
    BY <1>2, <2>1, <2>2
<1> HIDE DEF r
<1>5. /\ Grows(req, req', reserved, reserved')
      /\ CommandsOK' /\ WaitingOK' /\ QueueOK' /\ KeysOK' /\ TypeOK'
  <2>1. /\ worker[p].pc \notin {"off", "pop", "snapshot"} /\ worker'[p].pc # "off"
        /\ UNCHANGED <<redis, conn, req, up, faults, reserved, pushed, lost>>
    BY <1>1, <1>3 DEF Broadcasting
  <2>2. taken' \in [Providers -> SUBSET Txs] /\ cleared' \in SUBSET Reqs
    BY <1>1, <1>2, <1>4 DEF TypeOK
  <2> QED
    BY <1>3, <1>4, <2>1, <2>2, WorkerMoves
<1>6. JobsOK'
  BY <1>1, <1>2, <1>3, <1>5, JobsStep DEF Working, Broadcasting
<1>7. OutcomesOK'
  BY <1>1, <1>2, <1>3 DEF OutcomesOK
<1>8. OnlyClearedIsShown'
  BY <1>1, <1>2, <1>4 DEF OnlyClearedIsShown
<1> QED
  BY <1>5, <1>6, <1>7, <1>8

(* The relay only hands on what it was given.                               *)
LEMMA ForwardPreserves ==
    ASSUME IInv, NEW tx \in Txs, RelayForwards(tx)
    PROVE  IInv'
<1> USE DEF IInv, redis, history
<1>1. /\ tx \in taken["relay"] /\ taken' = [taken EXCEPT !["primary"] = @ \cup {tx}]
      /\ UNCHANGED <<redis, conn, req, worker, up, faults, history>>
  BY DEF RelayForwards
<1>2. taken \in [Providers -> SUBSET Txs] /\ Providers = {"primary", "relay"}
  BY DEF TypeOK, Providers
<1>3. /\ taken' \in [Providers -> SUBSET Txs]
      /\ \A x \in Providers : taken'[x] \subseteq taken[x] \cup {tx}
  <2> HIDE DEF IInv
  <2> QED
    BY <1>1, <1>2
<1>4. Grows(req, req', reserved, reserved')
  BY <1>1, GrowsSame
<1>5. CommandsOK' /\ WaitingOK'
  BY <1>1 DEF CommandsOK, WaitingOK
<1>6. OnlyClearedIsShown'
  BY <1>1, <1>2, <1>3 DEF OnlyClearedIsShown
<1>7. TypeOK'
  BY <1>1, <1>3 DEF TypeOK
<1> QED
  BY <1>1, <1>4, <1>5, <1>6, <1>7, Frame

-----------------------------------------------------------------------------
(* Faults.                                                                  *)

(* What a dying process loses are requests.                                 *)
LEMMA LossTyped ==
    ASSUME TypeOK, NEW p \in Procs
    PROVE  Delivering(p) \subseteq Reqs /\ InHand(p) \subseteq Reqs
<1>1. \A i \in DOMAIN conn[p] : conn[p][i].item \in Reqs \cup {NoReq}
  <2>1. conn[p] \in Seq(Cmd)
    BY DEF TypeOK
  <2>2. \A i \in DOMAIN conn[p] : conn[p][i] \in Cmd
    BY <2>1
  <2> QED
    BY <2>2 DEF Cmd
<1>2. worker[p].job \in Reqs \cup {NoReq}
  BY DEF TypeOK
<1> QED
  BY <1>1, <1>2 DEF Delivering, InHand

(* Counting a fault.                                                        *)
LEMMA FaultsTyped ==
    ASSUME faults \in [crash : Nat, drop : Nat, expiry : Nat]
    PROVE  /\ [faults EXCEPT !.crash = @ + 1] \in [crash : Nat, drop : Nat, expiry : Nat]
           /\ [faults EXCEPT !.drop = @ + 1] \in [crash : Nat, drop : Nat, expiry : Nat]
           /\ [faults EXCEPT !.expiry = @ + 1] \in [crash : Nat, drop : Nat, expiry : Nat]
OBVIOUS

(* An expired key forgets a nonce, and promises nothing.                    *)
LEMMA ExpirePreserves ==
    ASSUME IInv, NEW s \in Senders, Expire(s)
    PROVE  IInv'
<1> USE DEF IInv, history
<1>1. /\ nonceKey' = [nonceKey EXCEPT ![s] = NoKey]
      /\ faults' = [faults EXCEPT !.expiry = @ + 1]
      /\ UNCHANGED <<queue, conn, req, worker, up, taken, history>>
  BY DEF Expire
<1>2. Grows(req, req', reserved, reserved')
  BY <1>1, GrowsSame
<1>3. TypeOK'
  <2>1. nonceKey' \in [Senders -> Nat \cup {NoKey}]
    BY <1>1 DEF TypeOK
  <2>2. faults' \in [crash : Nat, drop : Nat, expiry : Nat]
    BY <1>1, FaultsTyped DEF TypeOK
  <2> QED
    BY <1>1, <2>1, <2>2 DEF TypeOK
<1>c. CommandsOK' /\ WaitingOK'
  BY <1>1 DEF CommandsOK, WaitingOK
<1>4. KeysOK'
  BY <1>1 DEF KeysOK, TypeOK
<1> QED
  BY <1>1, <1>2, <1>3, <1>c, <1>4, Frame

(* Commands sent again promise no more than the first time.                 *)
LEMMA DropPreserves ==
    ASSUME IInv, NEW p \in Procs, Drop(p)
    PROVE  IInv'
<1> USE DEF IInv, redis
<1> DEFINE s == [i \in DOMAIN conn[p] |-> Command(conn[p][i].op, conn[p][i].req)]
<1>1. /\ faults' = [faults EXCEPT !.drop = @ + 1]
      /\ lost' = lost \cup Delivering(p)
      /\ conn' = [conn EXCEPT ![p] = s]
      /\ UNCHANGED <<redis, req, worker, up, taken, reserved, pushed, fate, cleared, shown>>
  BY DEF Drop
<1>2. ConnTyped /\ conn[p] \in Seq(Cmd) /\ GoodConn(conn[p], req, reserved)
      /\ WaitingConn(conn[p], worker[p].pc)
  BY DEF TypeOK, ConnTyped, CommandsOK, WaitingOK
<1>3. \A i \in DOMAIN conn[p] :
          /\ s[i] \in Cmd /\ s[i].op = conn[p][i].op /\ s[i].req = conn[p][i].req
          /\ s[i].val = NoKey /\ s[i].item = NoReq /\ ~s[i].replied
  <2>1. \A i \in DOMAIN conn[p] : conn[p][i] \in Cmd
    BY <1>2
  <2>2. \A i \in DOMAIN conn[p] : conn[p][i].op \in Ops /\ conn[p][i].req \in Reqs \cup {NoReq}
    BY <2>1 DEF Cmd
  <2> QED
    BY <2>2, CommandTyped
<1>4. s \in Seq(Cmd) /\ DOMAIN s = DOMAIN conn[p]
  <2>1. DOMAIN conn[p] = 1..Len(conn[p]) /\ Len(conn[p]) \in Nat
    BY <1>2
  <2>2. s \in [1..Len(conn[p]) -> Cmd]
    BY <1>3, <2>1
  <2> QED
    BY <2>1, <2>2, SeqDef
<1> HIDE DEF s
<1>5. GoodConn(s, req, reserved)
  BY <1>2, <1>3, <1>4 DEF GoodConn, GoodCommand
<1>6. WaitingConn(s, worker[p].pc)
  BY <1>2, <1>3, <1>4 DEF WaitingConn, WaitsFor
<1>7. Grows(req, req', reserved, reserved')
  BY <1>1, GrowsSame
<1>8. ConnTyped' /\ CommandsOK' /\ WaitingOK'
  <2>1. p \notin up' => worker'[p].pc = "off"
    BY <1>1 DEF WaitingOK
  <2> QED
    BY <1>1, <1>2, <1>4, <1>5, <1>6, <1>7, <2>1, ConnStep
<1>9. TypeOK'
  <2>1. faults' \in [crash : Nat, drop : Nat, expiry : Nat]
    BY <1>1, FaultsTyped DEF TypeOK
  <2>2. lost' \in SUBSET Reqs
    BY <1>1, LossTyped DEF TypeOK
  <2> QED
    BY <1>1, <1>8, <2>1, <2>2 DEF TypeOK, ConnTyped
<1> QED
  BY <1>1, <1>7, <1>8, <1>9, Frame

(* A connection nobody waits on any more.                                   *)
LEMMA EmptyConn ==
    ASSUME NEW rq, NEW rs, NEW pc
    PROVE  <<>> \in Seq(Cmd) /\ GoodConn(<<>>, rq, rs) /\ WaitingConn(<<>>, pc)
BY DEF GoodConn, WaitingConn

(* A crash takes commands and jobs with it.                                 *)
LEMMA CrashPreserves ==
    ASSUME IInv, NEW p \in Procs, Crash(p)
    PROVE  IInv'
<1> USE DEF IInv, redis
<1>1. /\ faults' = [faults EXCEPT !.crash = @ + 1]
      /\ up' = up \ {p}
      /\ conn' = [conn EXCEPT ![p] = <<>>]
      /\ worker' = [worker EXCEPT ![p] = [pc |-> "off", job |-> NoReq]]
      /\ lost' = lost \cup Delivering(p) \cup InHand(p)
      /\ req' = [r \in Reqs |-> IF req[r].st = "open" /\ req[r].at = p
                               THEN [req[r] EXCEPT !.st = "dropped"] ELSE req[r]]
      /\ UNCHANGED <<redis, taken, reserved, pushed, fate, cleared, shown>>
  BY DEF Crash, Down
<1>2. ConnTyped /\ WorkerTyped
  BY DEF TypeOK, ConnTyped, WorkerTyped
<1>3. \A r \in Reqs : /\ req'[r].tx = req[r].tx
                      /\ req'[r].st \in {req[r].st, "dropped"} /\ req'[r].at = req[r].at
                      /\ req'[r] \in [st : ReqStates, tx : Txs \cup {NoTx}, at : Procs \cup {NoReq}]
  <2> TAKE r \in Reqs
  <2>1. req[r] \in [st : ReqStates, tx : Txs \cup {NoTx}, at : Procs \cup {NoReq}]
    BY DEF TypeOK
  <2>2. req'[r] = req[r] \/ req'[r] = [req[r] EXCEPT !.st = "dropped"]
    BY <1>1
  <2>3. "dropped" \in ReqStates
    BY DEF ReqStates
  <2> HIDE DEF IInv
  <2> QED
    BY <2>1, <2>2, <2>3
<1>4. Grows(req, req', reserved, reserved')
  BY <1>1, <1>3 DEF Grows, Known
<1>5. /\ WorkerTyped' /\ worker'[p].pc = "off"
      /\ \A q \in Procs \ {p} : worker'[q] = worker[q] /\ (q \in up' <=> q \in up)
  BY <1>1, <1>2 DEF WorkerTyped, WorkerStates
<1>6. ConnTyped' /\ CommandsOK' /\ WaitingOK'
  BY <1>1, <1>2, <1>4, <1>5, EmptyConn, ConnStep
<1>7. JobsOK'
  BY <1>1, <1>4, <1>5, JobsStep DEF Working, Broadcasting
<1>8. TypeOK'
  <2>1. req' \in [Reqs -> [st : ReqStates, tx : Txs \cup {NoTx}, at : Procs \cup {NoReq}]]
    BY <1>1, <1>3
  <2>2. lost' \in SUBSET Reqs
    BY <1>1, LossTyped DEF TypeOK
  <2>3. faults' \in [crash : Nat, drop : Nat, expiry : Nat]
    BY <1>1, FaultsTyped DEF TypeOK
  <2>4. up' \in SUBSET Procs
    BY <1>1 DEF TypeOK
  <2> QED
    BY <1>1, <1>5, <1>6, <2>1, <2>2, <2>3, <2>4 DEF TypeOK, ConnTyped, WorkerTyped
<1> QED
  BY <1>1, <1>4, <1>6, <1>7, <1>8, Frame

(* A snapshot read that fails ends the job.                                 *)
LEMMA SnapshotFailsPreserves ==
    ASSUME IInv, NEW p \in Procs, SnapshotFails(p)
    PROVE  IInv'
<1> USE DEF IInv, redis
<1>1. /\ conn[p] # <<>> /\ \A i \in DOMAIN conn[p] : conn[p][i].op = "snapshot"
      /\ faults' = [faults EXCEPT !.drop = @ + 1]
      /\ conn' = [conn EXCEPT ![p] = <<>>]
      /\ Finish(p, "error")
      /\ UNCHANGED <<redis, req, up, taken, reserved, pushed, lost, cleared, shown>>
  BY DEF SnapshotFails
<1>2. ConnTyped /\ WorkerTyped /\ fate \in [Reqs -> SUBSET Fates]
  BY DEF TypeOK, ConnTyped, WorkerTyped
<1>3. worker[p].pc = "snapshot"
  <2>1. Head(conn[p]).op = "snapshot"
    BY <1>1, <1>2 DEF ConnTyped
  <2> QED
    BY <1>1, <1>2, <2>1, HeadWaits DEF WaitsFor
<1>4. worker[p].job \in Known(req)
  BY <1>3 DEF JobsOK, Working, Taken
<1>5. /\ WorkerTyped' /\ worker'[p].pc = "idle"
      /\ \A q \in Procs \ {p} : worker'[q] = worker[q]
      /\ fate' \in [Reqs -> SUBSET Fates]
      /\ \A r \in Reqs : fate'[r] = IF r = worker[p].job THEN fate[r] \cup {"error"} ELSE fate[r]
  BY <1>1, <1>2, FinishStep DEF Fates
<1>6. Grows(req, req', reserved, reserved')
  BY <1>1, GrowsSame
<1>7. ConnTyped' /\ CommandsOK' /\ WaitingOK'
  <2>1. p \notin up' => worker'[p].pc = "off"
    BY <1>1, <1>3 DEF WaitingOK
  <2>2. \A q \in Procs \ {p} : worker'[q] = worker[q] /\ (q \in up' <=> q \in up)
    BY <1>1, <1>5
  <2>3. conn' = [conn EXCEPT ![p] = <<>>]
    BY <1>1
  <2> QED
    BY <1>2, <1>6, <2>1, <2>2, <2>3, EmptyConn, ConnStep
<1>8. JobsOK'
  BY <1>1, <1>5, <1>6, JobsStep DEF Working, Broadcasting
<1>9. OutcomesOK'
  BY <1>1, <1>4, <1>5 DEF OutcomesOK
<1>10. TypeOK'
  <2>1. faults' \in [crash : Nat, drop : Nat, expiry : Nat]
    BY <1>1, FaultsTyped DEF TypeOK
  <2> QED
    BY <1>1, <1>5, <1>7, <2>1 DEF TypeOK, ConnTyped, WorkerTyped
<1> QED
  BY <1>1, <1>6, <1>7, <1>8, <1>9, <1>10, Frame

(* A process starts again with nothing to wait for.                         *)
LEMMA RestartPreserves ==
    ASSUME IInv, NEW p \in Procs, Restart(p)
    PROVE  IInv'
<1> USE DEF IInv, redis, history
<1>1. /\ p \notin up /\ up' = up \cup {p}
      /\ worker' = [worker EXCEPT ![p] = StartedWorker(p)]
      /\ UNCHANGED <<redis, conn, req, taken, faults, history>>
  BY DEF Restart
<1>2. ConnTyped /\ WorkerTyped
  BY DEF TypeOK, ConnTyped, WorkerTyped
<1>3. /\ WorkerTyped' /\ worker'[p].pc \in {"idle", "off"}
      /\ \A q \in Procs \ {p} : worker'[q] = worker[q] /\ (q \in up' <=> q \in up)
  BY <1>1, <1>2 DEF WorkerTyped, WorkerStates, StartedWorker
<1>4. Grows(req, req', reserved, reserved')
  BY <1>1, GrowsSame
<1>5. CommandsOK'
  BY <1>1 DEF CommandsOK
<1>6. WaitingOK'
  <2>1. worker[p].pc = "off"
    BY <1>1 DEF WaitingOK
  <2>2. WaitingConn(conn[p], worker'[p].pc)
    BY <1>2, <1>3, <2>1 DEF WaitingOK, WaitingConn, WaitsFor
  <2> QED
    BY <1>1, <1>3, <2>2 DEF WaitingOK
<1>7. JobsOK'
  BY <1>1, <1>3, <1>4, JobsStep DEF Working, Broadcasting
<1>8. TypeOK'
  BY <1>1, <1>3 DEF TypeOK, WorkerTyped
<1> QED
  BY <1>1, <1>4, <1>5, <1>6, <1>7, <1>8, Frame

-----------------------------------------------------------------------------
(* The invariant of the specification, and what follows from it.            *)

(* The invariant holds at the start.                                        *)
LEMMA InitInv == Init => IInv
<1> SUFFICES ASSUME Init PROVE IInv
  OBVIOUS
<1> USE DEF Init
<1>1. TypeOK
  BY EngineAssumption DEF TypeOK, StartedWorker, ReqStates, WorkerStates
<1>2. CommandsOK /\ WaitingOK
  BY EmptyConn DEF CommandsOK, WaitingOK
<1>3. QueueOK /\ JobsOK /\ KeysOK /\ OutcomesOK
  BY DEF QueueOK, JobsOK, KeysOK, OutcomesOK, StartedWorker, Working, Broadcasting
<1>4. OnlyClearedIsShown
  BY DEF OnlyClearedIsShown
<1> QED
  BY <1>1, <1>2, <1>3, <1>4 DEF IInv

(* The invariant is inductive.                                              *)
LEMMA StepInv == IInv /\ [Next]_vars => IInv'
<1> SUFFICES ASSUME IInv, [Next]_vars PROVE IInv'
  OBVIOUS
<1>1. ASSUME NEW p \in Procs, ProcStep(p) PROVE IInv'
  BY <1>1, RedisPreserves, HandlersPreserve, QueueReadersPreserve, JudgingPreserves,
     BroadcastPreserves DEF ProcStep, WorkerStep
<1>2. ASSUME NEW p \in Procs, NEW r \in Reqs, NEW tx \in Txs, Receive(p, r, tx) PROVE IInv'
  BY <1>2, ReceivePreserves
<1>3. ASSUME NEW s \in Senders, Expire(s) PROVE IInv'
  BY <1>3, ExpirePreserves
<1>4. ASSUME NEW p \in Procs, Drop(p) \/ Crash(p) \/ SnapshotFails(p) \/ Restart(p) PROVE IInv'
  BY <1>4, DropPreserves, CrashPreserves, SnapshotFailsPreserves, RestartPreserves
<1>5. CASE UNCHANGED vars
  BY <1>5 DEF vars, history, IInv, TypeOK, CommandsOK, WaitingOK, QueueOK, JobsOK, KeysOK,
              OutcomesOK, OnlyClearedIsShown
<1>6. ASSUME NEW tx \in Txs, RelayForwards(tx) PROVE IInv'
  BY <1>6, ForwardPreserves
<1> QED
  BY <1>1, <1>2, <1>3, <1>4, <1>5, <1>6 DEF Next

(* The inductive invariant holds throughout.                                *)
THEOREM Invariance == Spec => []IInv
BY InitInv, StepInv, PTL DEF Spec

(* The state is always well formed, whatever the interleaving and faults.   *)
THEOREM TypeCorrect == Spec => []TypeOK
<1>1. IInv => TypeOK
  BY DEF IInv
<1> QED
  BY <1>1, Invariance, PTL

(* utils/nonce.ts: no nonce of a sender is reserved before all lower ones,  *)
(* for any number of processes sharing the Redis, with connections that     *)
(* break and send SETs again, crashes, and keys that expire under a handler. *)
THEOREM ReservedInOrderAlways == Spec => []ReservedInOrder
<1>1. IInv => ReservedInOrder
  BY DEF IInv, KeysOK, ReservedInOrder, Below, Nonces
<1> QED
  BY <1>1, Invariance, PTL

(* engine/worker: nothing reaches a provider or the sequencer that was not  *)
(* simulated, scored and preceded by the reservation of its nonce.          *)
THEOREM OnlyClearedIsShownAlways == Spec => []OnlyClearedIsShown
<1>1. IInv => OnlyClearedIsShown
  BY DEF IInv
<1> QED
  BY <1>1, Invariance, PTL

-----------------------------------------------------------------------------
(* Where the queue entries are.  The second invariant follows an entry      *)
(* through connections, queue and workers: it is never dropped silently,    *)
(* and while no connection breaks it is in one place only.                  *)

(* Of a connection: entries on their way to the worker, requests whose      *)
(* RPUSH is confirmed, and requests whose handler has not pushed yet.       *)
Items(s) == {s[i].item : i \in {j \in DOMAIN s : s[j].op = "blpop" /\ s[j].replied}} \ {NoReq}
Confirmed(s) == {s[i].req : i \in {j \in DOMAIN s : s[j].op = "rpush" /\ s[j].replied}}
Before(c) == c.op \in {"get", "set"} \/ (c.op = "rpush" /\ ~c.replied)
Unpushed(s) == {s[i].req : i \in {j \in DOMAIN s : Before(s[j])}}
Single(s) == \A i, j \in DOMAIN s : Before(s[i]) /\ Before(s[j]) /\ s[i].req = s[j].req => i = j

(* A command is sent.                                                       *)
LEMMA ItemsAppend ==
    ASSUME NEW s \in Seq(Cmd), NEW c \in Cmd, ~c.replied
    PROVE  /\ Items(Append(s, c)) = Items(s)
           /\ Confirmed(Append(s, c)) = Confirmed(s)
           /\ Unpushed(Append(s, c)) = Unpushed(s) \cup (IF Before(c) THEN {c.req} ELSE {})
           /\ Single(s) /\ (Before(c) => c.req \notin Unpushed(s)) => Single(Append(s, c))
<1> DEFINE t == Append(s, c)
<1>1. /\ DOMAIN s = 1..Len(s) /\ Len(s) \in Nat
      /\ DOMAIN t = 1..(Len(s) + 1)
      /\ \A i \in DOMAIN s : i \in DOMAIN t /\ t[i] = s[i]
      /\ Len(s) + 1 \in DOMAIN t /\ t[Len(s) + 1] = c
      /\ \A i \in DOMAIN t : i \in DOMAIN s \/ i = Len(s) + 1
  OBVIOUS
<1> HIDE DEF t
<1>2. Items(t) = Items(s)
  BY <1>1 DEF Items
<1>3. Confirmed(t) = Confirmed(s)
  BY <1>1 DEF Confirmed
<1>4. Unpushed(t) = Unpushed(s) \cup (IF Before(c) THEN {c.req} ELSE {})
  BY <1>1 DEF Unpushed
<1>5. ASSUME Single(s), Before(c) => c.req \notin Unpushed(s) PROVE Single(t)
  <2>1. ASSUME NEW i \in DOMAIN s, Before(s[i]), Before(c) PROVE s[i].req # c.req
    BY <1>5, <2>1 DEF Unpushed
  <2> QED BY <1>1, <1>5, <2>1 DEF Single
<1> QED BY <1>2, <1>3, <1>4, <1>5 DEF t

(* A reply is delivered.                                                    *)
LEMMA ItemsTail ==
    ASSUME NEW s \in Seq(Cmd), s # <<>>
    PROVE  /\ Items(Tail(s)) \subseteq Items(s)
           /\ Items(s) \subseteq Items(Tail(s)) \cup {Head(s).item}
           /\ Head(s).op # "blpop" \/ Head(s).item = NoReq => Items(Tail(s)) = Items(s)
           /\ Confirmed(Tail(s)) \subseteq Confirmed(s)
           /\ Unpushed(Tail(s)) \subseteq Unpushed(s)
           /\ Single(s) => /\ Single(Tail(s))
                           /\ Before(Head(s)) => Head(s).req \notin Unpushed(Tail(s))
<1> DEFINE t == Tail(s)
<1>1. /\ Head(s) = s[1] /\ 1 \in DOMAIN s
      /\ \A i \in DOMAIN t : i + 1 \in DOMAIN s /\ t[i] = s[i + 1] /\ i + 1 # 1 /\ i \in Int
      /\ \A i \in DOMAIN s : i # 1 => i - 1 \in DOMAIN t /\ t[i - 1] = s[i]
  OBVIOUS
<1> HIDE DEF t
<1>2. Items(t) \subseteq Items(s)
  BY <1>1 DEF Items
<1>3. ASSUME NEW x \in Items(s) PROVE x \in Items(t) \/ (Head(s).op = "blpop" /\ x = Head(s).item /\ x # NoReq)
  <2>1. PICK i \in DOMAIN s : s[i].op = "blpop" /\ s[i].replied /\ s[i].item = x /\ x # NoReq
    BY DEF Items
  <2>2. CASE i = 1
    BY <1>1, <2>1, <2>2
  <2>3. CASE i # 1
    BY <1>1, <2>1, <2>3 DEF Items
  <2> QED BY <2>2, <2>3
<1>4. Confirmed(t) \subseteq Confirmed(s)
  BY <1>1 DEF Confirmed
<1>5. Unpushed(t) \subseteq Unpushed(s)
  BY <1>1 DEF Unpushed
<1>6. ASSUME Single(s) PROVE Single(t)
  <2> SUFFICES ASSUME NEW i \in DOMAIN t, NEW j \in DOMAIN t, Before(t[i]), Before(t[j]), t[i].req = t[j].req
               PROVE  i = j
    BY DEF Single
  <2>1. /\ i + 1 \in DOMAIN s /\ t[i] = s[i + 1] /\ i \in Int
        /\ j + 1 \in DOMAIN s /\ t[j] = s[j + 1] /\ j \in Int
    BY <1>1
  <2>2. \A k, l \in DOMAIN s : Before(s[k]) /\ Before(s[l]) /\ s[k].req = s[l].req => k = l
    BY ONLY <1>6 DEF Single
  <2>3. i + 1 = j + 1
    BY ONLY <2>1, <2>2, Before(t[i]), Before(t[j]), t[i].req = t[j].req
  <2> QED BY ONLY <2>1, <2>3
<1>7. ASSUME Single(s), Before(Head(s)) PROVE Head(s).req \notin Unpushed(t)
  <2> SUFFICES ASSUME NEW i \in DOMAIN t, Before(t[i]), t[i].req = Head(s).req PROVE FALSE
    BY DEF Unpushed
  <2> QED BY <1>1, <1>7 DEF Single
<1> QED BY <1>2, <1>3, <1>4, <1>5, <1>6, <1>7 DEF t

(* A command is answered.                                                   *)
AnswersAt(s, i, t) ==
    /\ i \in DOMAIN s /\ ~s[i].replied
    /\ DOMAIN t = DOMAIN s /\ \A j \in DOMAIN s : j # i => t[j] = s[j]
    /\ t[i].op = s[i].op /\ t[i].req = s[i].req /\ t[i].replied

(* What an answer of Redis does to the entries a connection carries: only   *)
(* a BLPOP brings one, only an RPUSH confirms one.                          *)
LEMMA ItemsReply ==
    ASSUME NEW s, NEW i, NEW t, AnswersAt(s, i, t)
    PROVE  /\ s[i].op # "blpop" \/ t[i].item = NoReq => Items(t) = Items(s)
           /\ s[i].op = "blpop" /\ t[i].item # NoReq => Items(t) = Items(s) \cup {t[i].item}
           /\ s[i].op # "rpush" => Confirmed(t) = Confirmed(s)
           /\ s[i].op = "rpush" => Confirmed(t) = Confirmed(s) \cup {s[i].req}
           /\ Unpushed(t) \subseteq Unpushed(s)
           /\ Single(s) => Single(t)
           /\ s[i].op = "rpush" => /\ s[i].req \in Unpushed(s)
                                   /\ Single(s) => s[i].req \notin Unpushed(t)
<1> USE DEF AnswersAt
<1>1. \A x : x \in Items(t) <=> x # NoReq /\ \E j \in DOMAIN s :
           t[j].op = "blpop" /\ t[j].replied /\ t[j].item = x
  BY DEF Items
<1>2. \A x : x \in Items(s) <=> x # NoReq /\ \E j \in DOMAIN s :
           s[j].op = "blpop" /\ s[j].replied /\ s[j].item = x
  BY DEF Items
<1>3. \A x : x \in Confirmed(t) <=> \E j \in DOMAIN s : t[j].op = "rpush" /\ t[j].replied /\ t[j].req = x
  BY DEF Confirmed
<1>4. \A x : x \in Confirmed(s) <=> \E j \in DOMAIN s : s[j].op = "rpush" /\ s[j].replied /\ s[j].req = x
  BY DEF Confirmed
<1>a. \A x : x \in Items(t) <=>
              x \in Items(s) \/ (s[i].op = "blpop" /\ x = t[i].item /\ x # NoReq)
  BY <1>1, <1>2
<1>b. \A x : x \in Confirmed(t) <=> x \in Confirmed(s) \/ (s[i].op = "rpush" /\ x = s[i].req)
  BY <1>3, <1>4
<1> HIDE DEF AnswersAt
<1>5. /\ s[i].op # "blpop" \/ t[i].item = NoReq => Items(t) = Items(s)
      /\ s[i].op = "blpop" /\ t[i].item # NoReq => Items(t) = Items(s) \cup {t[i].item}
  BY <1>a
<1>10. /\ s[i].op # "rpush" => Confirmed(t) = Confirmed(s)
       /\ s[i].op = "rpush" => Confirmed(t) = Confirmed(s) \cup {s[i].req}
  BY <1>b
<1> USE DEF AnswersAt
<1>6. \A j \in DOMAIN s : Before(t[j]) => Before(s[j]) /\ t[j].req = s[j].req
  BY DEF Before
<1>7. Unpushed(t) \subseteq Unpushed(s)
  BY <1>6 DEF Unpushed
<1>8. Single(s) => Single(t)
  BY <1>6 DEF Single
<1>9. ASSUME s[i].op = "rpush" PROVE s[i].req \in Unpushed(s) /\ (Single(s) => s[i].req \notin Unpushed(t))
  <2>1. Before(s[i]) /\ ~Before(t[i])
    BY <1>9 DEF Before
  <2>2. s[i].req \in Unpushed(s)
    BY <2>1 DEF Unpushed
  <2>3. ASSUME Single(s), NEW j \in DOMAIN t, Before(t[j]), t[j].req = s[i].req PROVE FALSE
    BY <1>6, <2>1, <2>3 DEF Single
  <2> QED BY <2>2, <2>3 DEF Unpushed
<1> QED BY <1>5, <1>10, <1>7, <1>8, <1>9

Elems(q) == {q[i] : i \in DOMAIN q}
HeldBy(s, w) == Items(s) \cup ({w.job} \ {NoReq})
LoggedIn(f) == {r \in Reqs : f[r] # {}}
Accounted == Elems(queue) \cup LoggedIn(fate) \cup lost \cup UNION {HeldBy(conn[p], worker[p]) : p \in Procs}

(* A worker without a job has none recorded; an accepted request, and one   *)
(* whose RPUSH is confirmed, is accounted for.                              *)
Free == {"off", "idle", "pop"}
JobFree == \A p \in Procs : worker[p].pc \in Free => worker[p].job = NoReq

AccountOK ==
    /\ JobFree
    /\ \A r \in Reqs : req[r].st = "accepted" => r \in Accounted
    /\ \A p \in Procs : Confirmed(conn[p]) \subseteq Accounted
    /\ lost # {} => faults.crash + faults.drop > 0

(* While no connection broke, a request not pushed yet is in one command,   *)
(* one pushed on the queue once or with one process or neither.             *)
OnceOK ==
    faults.drop = 0 =>
        /\ \A i, j \in DOMAIN queue : queue[i] = queue[j] => i = j
        /\ Elems(queue) \cap LoggedIn(fate) = {}
        /\ Elems(queue) \cup LoggedIn(fate) \subseteq pushed
        /\ \A r \in pushed : req[r].st # "new"
        /\ \A p \in Procs : /\ Single(conn[p])
                            /\ Unpushed(conn[p]) \cap pushed = {}
                            /\ HeldBy(conn[p], worker[p]) \subseteq pushed \ Elems(queue)
        /\ \A p, q \in Procs : p # q =>
              /\ Unpushed(conn[p]) \cap Unpushed(conn[q]) = {}
              /\ HeldBy(conn[p], worker[p]) \cap HeldBy(conn[q], worker[q]) = {}

(* What a step of p does with the entries: none is dropped silently ...     *)
Moves(p) ==
    /\ \A q \in Procs \ {p} : conn'[q] = conn[q] /\ worker'[q] = worker[q]
    /\ worker'[p].pc \in Free => worker'[p].job = NoReq
    /\ Elems(queue) \cup HeldBy(conn[p], worker[p])
          \subseteq Elems(queue') \cup HeldBy(conn'[p], worker'[p]) \cup LoggedIn(fate') \cup lost'
    /\ LoggedIn(fate) \subseteq LoggedIn(fate') /\ lost \subseteq lost'
    /\ Confirmed(conn'[p]) \subseteq Confirmed(conn[p]) \cup Elems(queue')
    /\ \A r \in Reqs : req'[r].st = "accepted" => req[r].st = "accepted" \/ r \in Confirmed(conn[p])
    /\ (faults' = faults /\ lost' = lost) \/ faults'.crash + faults'.drop > 0

(* ... and none is multiplied.                                              *)
Calm(p) ==
    /\ queue' = queue /\ pushed' = pushed
    /\ HeldBy(conn'[p], worker'[p]) \subseteq HeldBy(conn[p], worker[p])
    /\ Unpushed(conn'[p]) \subseteq Unpushed(conn[p])
    /\ LoggedIn(fate') \subseteq LoggedIn(fate) \cup HeldBy(conn[p], worker[p])

Pushes(p) ==
    \E r \in Unpushed(conn[p]) :
        /\ queue' = Append(queue, r) /\ pushed' = pushed \cup {r}
        /\ HeldBy(conn'[p], worker'[p]) = HeldBy(conn[p], worker[p])
        /\ Unpushed(conn'[p]) \subseteq Unpushed(conn[p])
        /\ Single(conn[p]) => r \notin Unpushed(conn'[p])
        /\ fate' = fate

Pops(p) ==
    /\ queue # <<>> /\ queue' = Tail(queue) /\ pushed' = pushed
    /\ HeldBy(conn'[p], worker'[p]) \subseteq HeldBy(conn[p], worker[p]) \cup {Head(queue)}
    /\ Unpushed(conn'[p]) \subseteq Unpushed(conn[p])
    /\ fate' = fate

Opens(p) ==
    \E r \in Reqs :
        /\ req[r].st = "new" /\ req'[r].st # "new"
        /\ queue' = queue /\ pushed' = pushed /\ fate' = fate
        /\ HeldBy(conn'[p], worker'[p]) \subseteq HeldBy(conn[p], worker[p])
        /\ Unpushed(conn'[p]) \subseteq Unpushed(conn[p]) \cup {r}

Keeps(p) ==
    faults'.drop = 0 =>
        /\ faults.drop = 0
        /\ Single(conn[p]) => Single(conn'[p])
        /\ \A r \in Reqs : req'[r].st = "new" => req[r].st = "new"
        /\ Calm(p) \/ Pushes(p) \/ Pops(p) \/ Opens(p)

(* The first half of the invariant.                                         *)
LEMMA AccountStep ==
    ASSUME AccountOK, NEW p \in Procs, Moves(p)
    PROVE  AccountOK'
<1>1. ASSUME NEW x \in Accounted PROVE x \in Accounted'
  <2>1. CASE x \in Elems(queue) \cup HeldBy(conn[p], worker[p])
    BY <2>1 DEF Moves, Accounted
  <2>2. CASE x \in LoggedIn(fate) \cup lost
    BY <2>2 DEF Moves, Accounted
  <2>3. ASSUME NEW q \in Procs \ {p}, x \in HeldBy(conn[q], worker[q]) PROVE x \in Accounted'
    BY <2>3 DEF Moves, Accounted
  <2> QED BY <2>1, <2>2, <2>3 DEF Accounted
<1>2. Elems(queue') \subseteq Accounted'
  BY DEF Accounted
<1>3. JobFree'
  BY DEF AccountOK, Moves, JobFree
<1>4. \A r \in Reqs : req'[r].st = "accepted" => r \in Accounted'
  BY <1>1 DEF AccountOK, Moves
<1>5. ASSUME NEW q \in Procs PROVE Confirmed(conn'[q]) \subseteq Accounted'
  <2>1. CASE q = p
    BY <1>1, <1>2, <2>1 DEF AccountOK, Moves
  <2>2. CASE q # p
    BY <1>1, <2>2 DEF AccountOK, Moves
  <2> QED BY <2>1, <2>2
<1>6. lost' # {} => faults'.crash + faults'.drop > 0
  BY DEF AccountOK, Moves
<1> QED BY <1>3, <1>4, <1>5, <1>6 DEF AccountOK

(* The second half.                                                         *)
LEMMA OnceStep ==
    ASSUME IInv, OnceOK, NEW p \in Procs, Moves(p), Keeps(p)
    PROVE  OnceOK'
<1> SUFFICES ASSUME faults'.drop = 0
             PROVE /\ \A i, j \in DOMAIN queue' : queue'[i] = queue'[j] => i = j
                   /\ Elems(queue') \cap LoggedIn(fate') = {}
                   /\ Elems(queue') \cup LoggedIn(fate') \subseteq pushed'
                   /\ \A r \in pushed' : req'[r].st # "new"
                   /\ \A q \in Procs : /\ Single(conn'[q])
                                       /\ Unpushed(conn'[q]) \cap pushed' = {}
                                       /\ HeldBy(conn'[q], worker'[q]) \subseteq pushed' \ Elems(queue')
                   /\ \A q, u \in Procs : q # u =>
                         /\ Unpushed(conn'[q]) \cap Unpushed(conn'[u]) = {}
                         /\ HeldBy(conn'[q], worker'[q]) \cap HeldBy(conn'[u], worker'[u]) = {}
  BY DEF OnceOK
<1>u. \A q \in Procs : /\ Unpushed(conn[q]) \subseteq Known(req)
                       /\ Unpushed(conn[q]) \subseteq Reqs
  <2> SUFFICES ASSUME NEW q \in Procs, NEW i \in DOMAIN conn[q], Before(conn[q][i])
               PROVE conn[q][i].req \in Known(req) /\ conn[q][i].req \in Reqs
    BY DEF Unpushed
  <2>1. GoodCommand(conn[q][i], req, reserved)
    BY DEF IInv, CommandsOK, GoodConn
  <2> QED BY <2>1 DEF GoodCommand, HandlerOps, Before, Known
<1>q. queue \in Seq(Reqs) /\ pushed \subseteq Reqs
  BY DEF IInv, TypeOK
<1> DEFINE H(q) == HeldBy(conn[q], worker[q])
           H2(q) == HeldBy(conn'[q], worker'[q])
           U(q) == Unpushed(conn[q])
           U2(q) == Unpushed(conn'[q])
<1>o. /\ \A i, j \in DOMAIN queue : queue[i] = queue[j] => i = j
      /\ Elems(queue) \cap LoggedIn(fate) = {}
      /\ Elems(queue) \cup LoggedIn(fate) \subseteq pushed
      /\ \A r \in pushed : req[r].st # "new"
      /\ \A q \in Procs : Single(conn[q]) /\ U(q) \cap pushed = {} /\ H(q) \subseteq pushed \ Elems(queue)
      /\ \A q, u \in Procs : q # u => U(q) \cap U(u) = {} /\ H(q) \cap H(u) = {}
  BY DEF OnceOK, Keeps
<1>r. \A q \in Procs : q # p => H2(q) = H(q) /\ U2(q) = U(q) /\ conn'[q] = conn[q]
  BY DEF Moves
<1>s. /\ \A q \in Procs : Single(conn'[q])
      /\ \A r \in Reqs : req'[r].st = "new" => req[r].st = "new"
      /\ Calm(p) \/ Pushes(p) \/ Pops(p) \/ Opens(p)
  BY <1>o, <1>r DEF Keeps
<1> HIDE DEF H, H2, U, U2
<1>1. CASE Calm(p)
  <2>1. /\ queue' = queue /\ pushed' = pushed /\ H2(p) \subseteq H(p) /\ U2(p) \subseteq U(p)
        /\ LoggedIn(fate') \subseteq LoggedIn(fate) \cup H(p)
    BY <1>1 DEF Calm, H, H2, U, U2
  <2>2. \A q \in Procs : H2(q) \subseteq H(q) /\ U2(q) \subseteq U(q)
    BY <1>r, <2>1
  <2>3. \A q, u \in Procs : q # u => U2(q) \cap U2(u) = {} /\ H2(q) \cap H2(u) = {}
    BY <1>o, <2>2
  <2>4. \A q \in Procs : U2(q) \cap pushed' = {} /\ H2(q) \subseteq pushed' \ Elems(queue')
    BY <1>o, <2>1, <2>2
  <2>5. Elems(queue') \cap LoggedIn(fate') = {} /\ Elems(queue') \cup LoggedIn(fate') \subseteq pushed'
    BY <1>o, <2>1
  <2>6. \A r \in pushed' : req'[r].st # "new"
    BY <1>o, <1>q, <1>s, <2>1
  <2> QED BY <1>o, <1>s, <2>1, <2>3, <2>4, <2>5, <2>6 DEF H2, U2
<1>2. CASE Pushes(p)
  <2>1. PICK r \in U(p) :
          /\ queue' = Append(queue, r) /\ pushed' = pushed \cup {r} /\ fate' = fate
          /\ H2(p) = H(p) /\ U2(p) \subseteq U(p) /\ r \notin U2(p)
    BY <1>2, <1>o DEF Pushes, H, H2, U, U2
  <2>2. r \notin pushed /\ r \in Known(req) /\ r \in Reqs
    BY <1>o, <1>u, <2>1 DEF U
  <2>3. /\ Elems(queue') = Elems(queue) \cup {r}
        /\ \A i, j \in DOMAIN queue' : queue'[i] = queue'[j] => i = j
    <3>1. r \notin Elems(queue)
      BY <1>o, <2>2
    <3>2. /\ DOMAIN queue = 1..Len(queue) /\ DOMAIN queue' = 1..(Len(queue) + 1) /\ Len(queue) \in Nat
          /\ \A i \in DOMAIN queue : queue'[i] = queue[i]
          /\ queue'[Len(queue) + 1] = r
      BY <1>q, <2>1, <2>2
    <3>3. \A i \in DOMAIN queue' : i \in DOMAIN queue \/ i = Len(queue) + 1
      BY <3>2
    <3>4. \A i \in DOMAIN queue : queue[i] # r
      BY <3>1 DEF Elems
    <3>5. \A i, j \in DOMAIN queue' : queue'[i] = queue'[j] => i = j
      BY <1>o, <3>2, <3>3, <3>4
    <3>6. Len(queue) + 1 \in DOMAIN queue' /\ DOMAIN queue \subseteq DOMAIN queue'
      BY <3>2
    <3>7. Elems(queue') = Elems(queue) \cup {r}
      BY <3>2, <3>3, <3>6 DEF Elems
    <3> QED BY <3>5, <3>7
  <2>4. \A q \in Procs : H2(q) = H(q) /\ U2(q) \subseteq U(q)
    BY <1>r, <2>1
  <2>5. \A q \in Procs : r \notin U2(q)
    BY <1>o, <1>r, <2>1
  <2>6. \A q \in Procs : U2(q) \cap pushed' = {} /\ H2(q) \subseteq pushed' \ Elems(queue')
    BY <1>o, <2>1, <2>2, <2>3, <2>4, <2>5
  <2>7. \A q, u \in Procs : q # u => U2(q) \cap U2(u) = {} /\ H2(q) \cap H2(u) = {}
    BY <1>o, <2>4
  <2>8. Elems(queue') \cap LoggedIn(fate') = {} /\ Elems(queue') \cup LoggedIn(fate') \subseteq pushed'
    BY <1>o, <2>1, <2>2, <2>3
  <2>9. \A x \in pushed' : req'[x].st # "new"
    BY <1>o, <1>q, <1>s, <2>1, <2>2 DEF Known
  <2> QED BY <1>s, <2>3, <2>6, <2>7, <2>8, <2>9 DEF H2, U2
<1>3. CASE Pops(p)
  <2> DEFINE h == Head(queue)
  <2>1. /\ queue # <<>> /\ queue' = Tail(queue) /\ pushed' = pushed /\ fate' = fate
        /\ H2(p) \subseteq H(p) \cup {h} /\ U2(p) \subseteq U(p)
    BY <1>3 DEF Pops, H, H2, U, U2
  <2>2. /\ h \in Elems(queue) /\ h \notin Elems(queue') /\ Elems(queue') \subseteq Elems(queue)
        /\ \A i, j \in DOMAIN queue' : queue'[i] = queue'[j] => i = j
    <3>1. /\ 1 \in DOMAIN queue /\ h = queue[1]
          /\ \A i \in DOMAIN queue' : i + 1 \in DOMAIN queue /\ queue'[i] = queue[i + 1]
                                      /\ i + 1 # 1 /\ i \in Int
      BY <1>q, <2>1
    <3>2. \A i, j \in DOMAIN queue' : queue'[i] = queue'[j] => i = j
      BY <1>o, <3>1
    <3>3. \A i \in DOMAIN queue' : queue'[i] # h
      BY <1>o, <3>1
    <3> QED BY <3>1, <3>2, <3>3 DEF Elems
  <2> HIDE DEF h
  <2>3. \A q \in Procs : U2(q) \subseteq U(q) /\ (q # p => H2(q) = H(q))
    BY <1>r, <2>1
  <2>4. \A q \in Procs : h \notin H(q)
    BY <1>o, <2>2
  <2>5. \A q, u \in Procs : q # u => U2(q) \cap U2(u) = {} /\ H2(q) \cap H2(u) = {}
    BY <1>o, <2>1, <2>3, <2>4
  <2>6. \A q \in Procs : U2(q) \cap pushed' = {} /\ H2(q) \subseteq pushed' \ Elems(queue')
    BY <1>o, <2>1, <2>2, <2>3
  <2>7. Elems(queue') \cap LoggedIn(fate') = {} /\ Elems(queue') \cup LoggedIn(fate') \subseteq pushed'
    BY <1>o, <2>1, <2>2
  <2>8. \A x \in pushed' : req'[x].st # "new"
    BY <1>o, <1>q, <1>s, <2>1
  <2> QED BY <1>s, <2>2, <2>5, <2>6, <2>7, <2>8 DEF H2, U2
<1>4. CASE Opens(p)
  <2>1. PICK r \in Reqs :
          /\ req[r].st = "new" /\ req'[r].st # "new"
          /\ queue' = queue /\ pushed' = pushed /\ fate' = fate
          /\ H2(p) \subseteq H(p) /\ U2(p) \subseteq U(p) \cup {r}
    BY <1>4 DEF Opens, H, H2, U, U2
  <2>2. \A q \in Procs : r \notin U(q)
    BY <1>u, <2>1 DEF U, Known
  <2>3. \A q \in Procs : H2(q) \subseteq H(q) /\ (q # p => U2(q) = U(q))
    BY <1>r, <2>1
  <2>4. \A q, u \in Procs : q # u => U2(q) \cap U2(u) = {} /\ H2(q) \cap H2(u) = {}
    BY <1>o, <2>1, <2>2, <2>3
  <2>5. r \notin pushed
    BY <1>o, <2>1
  <2>6. \A q \in Procs : U2(q) \cap pushed' = {} /\ H2(q) \subseteq pushed' \ Elems(queue')
    BY <1>o, <2>1, <2>3, <2>5
  <2>7. \A x \in pushed' : req'[x].st # "new"
    BY <1>o, <1>q, <1>s, <2>1
  <2> QED BY <1>o, <1>s, <2>1, <2>4, <2>6, <2>7 DEF H2, U2
<1> QED BY <1>s, <1>1, <1>2, <1>3, <1>4

-----------------------------------------------------------------------------
(* What each step does with the entries.                                    *)

Same == /\ queue' = queue /\ pushed' = pushed /\ lost' = lost /\ faults' = faults

(* What a request's change may be: answered only once its RPUSH is          *)
(* confirmed.                                                               *)
ReqMoves(p) ==
    /\ \A r \in Reqs : req'[r].st = "accepted" => req[r].st = "accepted" \/ r \in Confirmed(conn[p])
    /\ \A r \in Reqs : req'[r].st = "new" => req[r].st = "new"

(* Commands come and go and nobody gets or loses an entry.                  *)
LEMMA Quiet ==
    ASSUME NEW p \in Procs, conn \in [Procs -> Seq(Cmd)], JobFree, NEW s,
           conn' = [conn EXCEPT ![p] = s],
           Items(s) = Items(conn[p]), Confirmed(s) \subseteq Confirmed(conn[p]),
           Unpushed(s) \subseteq Unpushed(conn[p]), Single(conn[p]) => Single(s),
           Same, fate' = fate, ReqMoves(p),
           \A q \in Procs \ {p} : worker'[q] = worker[q],
           worker'[p].job = worker[p].job,
           worker'[p].pc \in Free => worker[p].job = NoReq
    PROVE  Moves(p) /\ Keeps(p)
<1>1. conn'[p] = s /\ \A q \in Procs \ {p} : conn'[q] = conn[q]
  OBVIOUS
<1>2. HeldBy(conn'[p], worker'[p]) = HeldBy(conn[p], worker[p])
  BY <1>1 DEF HeldBy
<1>3. Moves(p)
  BY <1>1, <1>2 DEF Moves, Same, ReqMoves
<1>4. Calm(p)
  BY <1>1, <1>2 DEF Calm, Same
<1>5. Keeps(p)
  BY <1>1, <1>4 DEF Keeps, Same, ReqMoves
<1> QED BY <1>3, <1>5

(* What the invariant says of one process.                                  *)
LEMMA OfProc ==
    ASSUME IInv, NEW p \in Procs
    PROVE  /\ conn \in [Procs -> Seq(Cmd)] /\ conn[p] \in Seq(Cmd)
           /\ \A i \in DOMAIN conn[p] : conn[p][i] \in Cmd /\ GoodCommand(conn[p][i], req, reserved)
           /\ \A i \in DOMAIN conn[p] : conn[p][i].op \in HandlerOps => conn[p][i].req \in Reqs
           /\ conn[p] # <<>> => 1 \in DOMAIN conn[p] /\ Head(conn[p]) = conn[p][1]
           /\ \A i \in DOMAIN conn[p] : WaitsFor(conn[p][i], worker[p].pc)
           /\ worker \in [Procs -> [pc : WorkerStates, job : Reqs \cup {NoReq}]]
           /\ worker[p].pc \in Working => worker[p].job \in Reqs
           /\ fate \in [Reqs -> SUBSET Fates]
           /\ req \in [Reqs -> [st : ReqStates, tx : Txs \cup {NoTx}, at : Procs \cup {NoReq}]]
           /\ queue \in Seq(Reqs)
           /\ NoReq \notin Reqs
<1>1. /\ conn \in [Procs -> Seq(Cmd)] /\ conn[p] \in Seq(Cmd)
      /\ \A i \in DOMAIN conn[p] : conn[p][i] \in Cmd
      /\ conn[p] # <<>> => 1 \in DOMAIN conn[p] /\ Head(conn[p]) = conn[p][1]
  BY DEF IInv, TypeOK
<1>2. \A i \in DOMAIN conn[p] : GoodCommand(conn[p][i], req, reserved)
  BY DEF IInv, CommandsOK, GoodConn
<1>3. \A i \in DOMAIN conn[p] : conn[p][i].op \in HandlerOps => conn[p][i].req \in Reqs
  BY <1>2 DEF GoodCommand, Known
<1>4. \A i \in DOMAIN conn[p] : WaitsFor(conn[p][i], worker[p].pc)
  BY DEF IInv, WaitingOK, WaitingConn
<1>5. worker[p].pc \in Working => worker[p].job \in Reqs
  BY DEF IInv, JobsOK, Taken, Known
<1>6. /\ worker \in [Procs -> [pc : WorkerStates, job : Reqs \cup {NoReq}]]
      /\ fate \in [Reqs -> SUBSET Fates] /\ queue \in Seq(Reqs)
      /\ req \in [Reqs -> [st : ReqStates, tx : Txs \cup {NoTx}, at : Procs \cup {NoReq}]]
  BY DEF IInv, TypeOK
<1> QED BY <1>1, <1>2, <1>3, <1>4, <1>5, <1>6, EngineAssumption

(* What a reply changes in the connection it goes out on.                   *)
LEMMA Answers ==
    ASSUME NEW p \in Procs, conn \in [Procs -> Seq(Cmd)],
           NEW i \in DOMAIN conn[p], ~conn[p][i].replied,
           NEW val, NEW item, Reply(p, i, val, item)
    PROVE  /\ conn' = [conn EXCEPT ![p] = conn'[p]]
           /\ AnswersAt(conn[p], i, conn'[p]) /\ conn'[p][i].item = item
<1> DEFINE c == [conn[p][i] EXCEPT !.replied = TRUE, !.val = val, !.item = item]
<1>1. conn' = [conn EXCEPT ![p] = [conn[p] EXCEPT ![i] = c]]
  BY DEF Reply
<1>2. conn[p] \in Seq(Cmd) /\ conn[p][i] \in Cmd
  OBVIOUS
<1>3. c.op = conn[p][i].op /\ c.req = conn[p][i].req /\ c.replied /\ c.item = item
  BY <1>2 DEF Cmd
<1> HIDE DEF c
<1> QED BY <1>1, <1>2, <1>3 DEF AnswersAt

(* Redis answers a command that moves no entry.                             *)
LEMMA QuietReply ==
    ASSUME IInv, JobFree, NEW p \in Procs, NEW i \in DOMAIN conn[p], NextCommand(p, i),
           conn[p][i].op # "rpush", NEW val \in Int, Reply(p, i, val, NoReq),
           Same, UNCHANGED <<req, worker, fate>>
    PROVE  Moves(p) /\ Keeps(p)
<1>t. conn \in [Procs -> Seq(Cmd)] /\ conn[p] \in Seq(Cmd)
  BY OfProc
<1> DEFINE s == conn'[p]
<1>1. conn' = [conn EXCEPT ![p] = s] /\ AnswersAt(conn[p], i, s) /\ s[i].item = NoReq
  BY <1>t, Answers DEF NextCommand
<1> HIDE DEF s
<1>2. /\ Items(s) = Items(conn[p]) /\ Confirmed(s) \subseteq Confirmed(conn[p])
      /\ Unpushed(s) \subseteq Unpushed(conn[p])
      /\ Single(conn[p]) => Single(s)
  BY <1>1, ItemsReply DEF NextCommand
<1>3. ReqMoves(p)
  BY DEF ReqMoves
<1> QED BY <1>t, <1>1, <1>2, <1>3, Quiet DEF JobFree

(* RPUSH puts the request of a command on the queue.                        *)
LEMMA RpushMoves ==
    ASSUME IInv, JobFree, NEW p \in Procs, RedisRpush(p)
    PROVE  Moves(p) /\ Keeps(p)
<1>t. /\ conn \in [Procs -> Seq(Cmd)] /\ conn[p] \in Seq(Cmd) /\ queue \in Seq(Reqs)
      /\ \A i \in DOMAIN conn[p] : conn[p][i].op \in HandlerOps => conn[p][i].req \in Reqs
  BY OfProc
<1>1. PICK i \in DOMAIN conn[p] :
        /\ ~conn[p][i].replied /\ conn[p][i].op = "rpush"
        /\ queue' = Append(queue, conn[p][i].req)
        /\ pushed' = pushed \cup {conn[p][i].req}
        /\ Reply(p, i, NoKey, NoReq)
        /\ UNCHANGED <<req, worker, faults, lost, fate>>
  BY DEF RedisRpush, NextCommand
<1> DEFINE r == conn[p][i].req
           s == conn'[p]
<1>2. conn' = [conn EXCEPT ![p] = s] /\ AnswersAt(conn[p], i, s) /\ s[i].item = NoReq
  BY <1>t, <1>1, Answers
<1> HIDE DEF s
<1>3. /\ Items(s) = Items(conn[p]) /\ Confirmed(s) = Confirmed(conn[p]) \cup {r}
      /\ Unpushed(s) \subseteq Unpushed(conn[p])
      /\ Single(conn[p]) => Single(s)
      /\ r \in Unpushed(conn[p])
      /\ Single(conn[p]) => r \notin Unpushed(s)
  BY <1>1, <1>2, ItemsReply
<1>4. r \in Reqs
  BY <1>t, <1>1 DEF HandlerOps
<1> HIDE DEF r
<1>5. conn'[p] = s /\ \A q \in Procs \ {p} : conn'[q] = conn[q]
  BY <1>t, <1>2
<1>6. queue' = Append(queue, r) /\ pushed' = pushed \cup {r}
  BY <1>1 DEF r
<1>7. Elems(queue') = Elems(queue) \cup {r}
  <2>1. /\ DOMAIN queue' = 1..(Len(queue) + 1) /\ DOMAIN queue = 1..Len(queue) /\ Len(queue) \in Nat
        /\ \A j \in DOMAIN queue : queue'[j] = queue[j]
        /\ queue'[Len(queue) + 1] = r
    BY <1>t, <1>4, <1>6
  <2>2. /\ \A j \in DOMAIN queue' : j \in DOMAIN queue \/ j = Len(queue) + 1
        /\ DOMAIN queue \subseteq DOMAIN queue' /\ Len(queue) + 1 \in DOMAIN queue'
    BY <2>1
  <2> QED BY <2>1, <2>2 DEF Elems
<1>8. HeldBy(conn'[p], worker'[p]) = HeldBy(conn[p], worker[p])
  BY <1>1, <1>3, <1>5 DEF HeldBy
<1>9. Moves(p)
  BY <1>1, <1>3, <1>5, <1>7, <1>8 DEF Moves, JobFree
<1>10. Pushes(p)
  BY <1>1, <1>3, <1>5, <1>6, <1>8 DEF Pushes
<1>11. Keeps(p)
  BY <1>1, <1>3, <1>5, <1>10 DEF Keeps
<1> QED BY <1>9, <1>11

(* BLPOP hands the head of the queue over.                                  *)
LEMMA BlpopMoves ==
    ASSUME IInv, JobFree, NEW p \in Procs, RedisBlpop(p)
    PROVE  Moves(p) /\ Keeps(p)
<1>t. /\ conn \in [Procs -> Seq(Cmd)] /\ conn[p] \in Seq(Cmd) /\ queue \in Seq(Reqs)
      /\ NoReq \notin Reqs
  BY OfProc
<1>1. PICK i \in DOMAIN conn[p] :
        /\ ~conn[p][i].replied /\ conn[p][i].op = "blpop"
        /\ queue # <<>> /\ queue' = Tail(queue)
        /\ Reply(p, i, NoKey, Head(queue))
        /\ UNCHANGED <<req, worker, faults, pushed, lost, fate>>
  BY DEF RedisBlpop, NextCommand, history
<1> DEFINE h == Head(queue)
           s == conn'[p]
<1>2. conn' = [conn EXCEPT ![p] = s] /\ AnswersAt(conn[p], i, s) /\ s[i].item = h
  BY <1>t, <1>1, Answers
<1>3. h \in Reqs
  BY <1>t, <1>1
<1> HIDE DEF s
<1>4. /\ Items(s) = Items(conn[p]) \cup {h} /\ Confirmed(s) = Confirmed(conn[p])
      /\ Unpushed(s) \subseteq Unpushed(conn[p])
      /\ Single(conn[p]) => Single(s)
  BY <1>t, <1>1, <1>2, <1>3, ItemsReply
<1>5. Elems(queue) \subseteq Elems(queue') \cup {h}
  <2>1. \A j \in DOMAIN queue : j = 1 \/ (j - 1 \in DOMAIN queue' /\ queue'[j - 1] = queue[j])
    BY <1>t, <1>1
  <2>2. h = queue[1]
    BY <1>t, <1>1
  <2> QED BY <2>1, <2>2 DEF Elems
<1>6. queue' = Tail(queue)
  BY <1>1
<1> HIDE DEF h
<1>7. conn'[p] = s /\ \A q \in Procs \ {p} : conn'[q] = conn[q]
  BY <1>t, <1>2
<1>8. HeldBy(conn'[p], worker'[p]) = HeldBy(conn[p], worker[p]) \cup {h}
  BY <1>1, <1>4, <1>7 DEF HeldBy
<1>9. Moves(p)
  BY <1>1, <1>4, <1>5, <1>7, <1>8 DEF Moves, JobFree
<1>10. Pops(p)
  BY <1>1, <1>4, <1>7, <1>8 DEF Pops, h
<1>11. Keeps(p)
  BY <1>1, <1>4, <1>7, <1>10 DEF Keeps
<1> QED BY <1>9, <1>11

(* All of Redis's steps.                                                    *)
LEMMA RedisMoves ==
    ASSUME IInv, JobFree, NEW p \in Procs, RedisStep(p)
    PROVE  Moves(p) /\ Keeps(p)
<1>n. NoKey \in Int
  BY DEF NoKey
<1>1. CASE RedisGet(p)
  <2>1. PICK i \in DOMAIN conn[p] :
          /\ NextCommand(p, i) /\ conn[p][i].op = "get"
          /\ Reply(p, i, nonceKey[req[conn[p][i].req].tx.from], NoReq)
          /\ Same /\ UNCHANGED <<req, worker, fate>>
    BY <1>1 DEF RedisGet, redis, history, Same
  <2>2. nonceKey[req[conn[p][i].req].tx.from] \in Int
    <3>1. req[conn[p][i].req].tx.from \in Senders
      BY <2>1, OfProc DEF GoodCommand, HandlerOps, Known, Txs
    <3>2. nonceKey \in [Senders -> Int]
      BY <1>n DEF IInv, TypeOK
    <3> QED BY <3>1, <3>2
  <2> QED BY <2>1, <2>2, QuietReply
<1>2. CASE RedisSet(p)
  <2>1. PICK i \in DOMAIN conn[p] :
          /\ NextCommand(p, i) /\ conn[p][i].op = "set"
          /\ Reply(p, i, NoKey, NoReq)
          /\ Same /\ UNCHANGED <<req, worker, fate>>
    BY <1>2 DEF RedisSet, Same
  <2> QED BY <1>n, <2>1, QuietReply
<1>3. CASE RedisRpush(p)
  BY <1>3, RpushMoves
<1>4. CASE RedisBlpop(p)
  BY <1>4, BlpopMoves
<1>5. CASE RedisBlpopTimeout(p)
  <2>1. PICK i \in DOMAIN conn[p] :
          /\ NextCommand(p, i) /\ conn[p][i].op = "blpop"
          /\ Reply(p, i, NoKey, NoReq)
          /\ Same /\ UNCHANGED <<req, worker, fate>>
    BY <1>5 DEF RedisBlpopTimeout, redis, history, Same
  <2> QED BY <1>n, <2>1, QuietReply
<1>6. CASE RedisSnapshot(p)
  <2>1. PICK i \in DOMAIN conn[p] :
          /\ NextCommand(p, i) /\ conn[p][i].op = "snapshot"
          /\ Reply(p, i, NoKey, NoReq)
          /\ Same /\ UNCHANGED <<req, worker, fate>>
    BY <1>6 DEF RedisSnapshot, redis, history, Same
  <2> QED BY <1>n, <2>1, QuietReply
<1> QED BY <1>1, <1>2, <1>3, <1>4, <1>5, <1>6 DEF RedisStep

(* A handler's command is answered and its next one sent in its place.      *)
LEMMA NextOfHandler ==
    ASSUME NEW s \in Seq(Cmd), s # <<>>, Before(Head(s)), Head(s).op # "blpop",
           NEW c \in Cmd, ~c.replied, c.req = Head(s).req
    PROVE  LET t == Append(Tail(s), c) IN
           /\ Items(t) = Items(s)
           /\ Confirmed(t) \subseteq Confirmed(s)
           /\ Unpushed(t) \subseteq Unpushed(s)
           /\ Single(s) => Single(t)
<1> DEFINE u == Tail(s)
           t == Append(u, c)
<1>1. u \in Seq(Cmd)
  OBVIOUS
<1>2. Head(s).req \in Unpushed(s)
  <2>1. 1 \in DOMAIN s /\ Head(s) = s[1]
    OBVIOUS
  <2> QED BY <2>1 DEF Unpushed
<1>3. /\ Items(u) = Items(s) /\ Confirmed(u) \subseteq Confirmed(s)
      /\ Unpushed(u) \subseteq Unpushed(s)
      /\ Single(s) => Single(u) /\ c.req \notin Unpushed(u)
  BY ItemsTail
<1> HIDE DEF u
<1>4. /\ Items(t) = Items(u) /\ Confirmed(t) = Confirmed(u)
      /\ Unpushed(t) = Unpushed(u) \cup (IF Before(c) THEN {c.req} ELSE {})
      /\ Single(u) /\ (Before(c) => c.req \notin Unpushed(u)) => Single(t)
  BY <1>1, ItemsAppend
<1> HIDE DEF t
<1> QED BY <1>2, <1>3, <1>4 DEF t, u

(* The handlers' steps.                                                     *)
LEMMA HandlerMoves ==
    ASSUME IInv, JobFree, NEW p \in Procs, HandlerStep(p)
    PROVE  Moves(p) /\ Keeps(p)
<1> DEFINE s == conn[p]
           h == Head(s)
<1>t. /\ conn \in [Procs -> Seq(Cmd)] /\ s \in Seq(Cmd)
      /\ \A i \in DOMAIN s : s[i].op \in HandlerOps => s[i].req \in Reqs
      /\ s # <<>> => 1 \in DOMAIN s /\ h = s[1]
      /\ req \in [Reqs -> [st : ReqStates, tx : Txs \cup {NoTx}, at : Procs \cup {NoReq}]]
  BY OfProc
<1>w. worker' = worker => /\ \A q \in Procs \ {p} : worker'[q] = worker[q]
                          /\ worker'[p].job = worker[p].job
                          /\ worker'[p].pc \in Free => worker[p].job = NoReq
  BY DEF JobFree
<1>1. CASE ReserveNonce(p) \/ Enqueue(p)
  <2>0. PICK op2 \in {"set", "rpush"} :
          /\ s # <<>> /\ h.op \in {"get", "set"}
          /\ DeliverAndIssue(p, Command(op2, h.req))
          /\ UNCHANGED <<redis, req, worker, up, taken, faults, history>>
    BY <1>1 DEF ReserveNonce, Enqueue, Answered
  <2> DEFINE c == Command(op2, h.req)
             t == Append(Tail(s), c)
  <2>1. s # <<>> /\ Before(h) /\ h.op # "blpop" /\ h.op \in HandlerOps
    BY <2>0 DEF Before, HandlerOps
  <2>2. h.req \in Reqs /\ op2 \in Ops
    BY <2>0, <1>t, <2>1 DEF Ops
  <2>3. c \in Cmd /\ ~c.replied /\ c.req = h.req
    BY <2>2, CommandTyped
  <2> HIDE DEF c
  <2>4. /\ Items(t) = Items(s) /\ Confirmed(t) \subseteq Confirmed(s)
        /\ Unpushed(t) \subseteq Unpushed(s)
        /\ Single(s) => Single(t)
    BY <1>t, <2>1, <2>3, NextOfHandler
  <2>5. conn' = [conn EXCEPT ![p] = t]
    BY <2>0, <1>t DEF DeliverAndIssue, c
  <2>6. Same /\ fate' = fate /\ ReqMoves(p) /\ worker' = worker
    BY <2>0 DEF Same, redis, history, ReqMoves
  <2> HIDE DEF t
  <2> QED BY <1>t, <1>w, <2>4, <2>5, <2>6, Quiet
<1>2. CASE RejectNonce(p) \/ Respond(p)
  <2>0. PICK op \in {"get", "rpush"}, st \in ReqStates \ {"new"} :
          /\ Answered(p, op) /\ Deliver(p) /\ (st # "accepted" \/ op = "rpush")
          /\ req' = [req EXCEPT ![h.req].st = st]
          /\ UNCHANGED <<redis, worker, up, taken, faults, history>>
    <3>1. CASE RejectNonce(p)
      <4>1. /\ Answered(p, "get") /\ Deliver(p)
            /\ req' = [req EXCEPT ![h.req].st = "badNonce"]
            /\ UNCHANGED <<redis, worker, up, taken, faults, history>>
        BY <3>1 DEF RejectNonce
      <4>2. "get" \in {"get", "rpush"} /\ "badNonce" \in ReqStates \ {"new"} /\ "badNonce" # "accepted"
        BY DEF ReqStates
      <4> QED BY <4>1, <4>2
    <3>2. CASE Respond(p)
      <4>1. /\ Answered(p, "rpush") /\ Deliver(p)
            /\ req' = [req EXCEPT ![h.req].st = "accepted"]
            /\ UNCHANGED <<redis, worker, up, taken, faults, history>>
        BY <3>2 DEF Respond
      <4> QED BY <4>1 DEF ReqStates
    <3> QED BY <1>2, <3>1, <3>2
  <2> DEFINE t == Tail(s)
  <2>1. s # <<>> /\ h.op # "blpop" /\ h.op \in HandlerOps /\ h.replied /\ h.op = op
    BY <2>0 DEF Answered, HandlerOps
  <2>2. /\ Items(t) = Items(s) /\ Confirmed(t) \subseteq Confirmed(s)
        /\ Unpushed(t) \subseteq Unpushed(s)
        /\ Single(s) => Single(t)
    BY <1>t, <2>1, ItemsTail
  <2>3. conn' = [conn EXCEPT ![p] = t]
    BY <2>0, <1>t DEF Deliver
  <2>4. Same /\ fate' = fate /\ worker' = worker
    BY <2>0 DEF Same, redis, history
  <2>5. op = "rpush" => h.req \in Confirmed(s)
    BY <1>t, <2>1 DEF Confirmed
  <2>6. \A r \in Reqs : req'[r].st = IF r = h.req THEN st ELSE req[r].st
    BY <2>0, <1>t, <2>1
  <2>7. ReqMoves(p)
    BY <2>0, <2>5, <2>6 DEF ReqMoves
  <2> HIDE DEF t
  <2> QED BY <1>t, <1>w, <2>2, <2>3, <2>4, <2>7, Quiet
<1> QED BY <1>1, <1>2 DEF HandlerStep

(* A request comes in.                                                      *)
LEMMA ReceiveMoves ==
    ASSUME IInv, JobFree, NEW p \in Procs, NEW r \in Reqs, NEW tx \in Txs, Receive(p, r, tx)
    PROVE  Moves(p) /\ Keeps(p)
<1> DEFINE s == conn[p]
           c == Command("get", r)
           t == Append(s, c)
<1>t. /\ conn \in [Procs -> Seq(Cmd)] /\ s \in Seq(Cmd)
      /\ \A i \in DOMAIN s : GoodCommand(s[i], req, reserved)
      /\ req \in [Reqs -> [st : ReqStates, tx : Txs \cup {NoTx}, at : Procs \cup {NoReq}]]
  BY OfProc
<1>1. c \in Cmd /\ ~c.replied /\ c.req = r
  BY CommandTyped DEF Ops
<1> HIDE DEF c
<1>2. r \notin Unpushed(s)
  <2>1. \A i \in DOMAIN s : Before(s[i]) => s[i].req \in Known(req)
    BY <1>t DEF Before, GoodCommand, HandlerOps
  <2> QED BY <2>1 DEF Unpushed, Known, Receive
<1>3. /\ Items(t) = Items(s) /\ Confirmed(t) = Confirmed(s)
      /\ Unpushed(t) \subseteq Unpushed(s) \cup {r}
      /\ Single(s) => Single(t)
  BY <1>t, <1>1, <1>2, ItemsAppend
<1>4. conn'[p] = t /\ \A q \in Procs \ {p} : conn'[q] = conn[q]
  BY <1>t DEF Receive, Issue, c
<1>5. /\ Same /\ fate' = fate /\ worker' = worker
      /\ req[r].st = "new" /\ req'[r].st = "open"
      /\ \A q \in Reqs : q # r => req'[q] = req[q]
  BY <1>t DEF Receive, Same, redis, history
<1> HIDE DEF t
<1>6. HeldBy(conn'[p], worker'[p]) = HeldBy(conn[p], worker[p])
  BY <1>3, <1>4, <1>5 DEF HeldBy
<1>7. Moves(p)
  BY <1>3, <1>4, <1>5, <1>6 DEF Moves, Same, JobFree
<1>8. Opens(p)
  BY <1>3, <1>4, <1>5, <1>6 DEF Opens, Same
<1>9. \A q \in Reqs : req'[q].st = "new" => req[q].st = "new"
  BY <1>5
<1> QED BY <1>3, <1>4, <1>5, <1>7, <1>8, <1>9 DEF Keeps, Same

(* The worker's steps on the connection.                                    *)
LEMMA ReaderMoves ==
    ASSUME IInv, JobFree, NEW p \in Procs,
           Dequeue(p) \/ PopNothing(p) \/ PopJob(p) \/ ReadSnapshot(p)
    PROVE  Moves(p) /\ Keeps(p)
<1> DEFINE s == conn[p]
           h == Head(s)
           w == worker[p]
<1>t. /\ conn \in [Procs -> Seq(Cmd)] /\ s \in Seq(Cmd)
      /\ s # <<>> => 1 \in DOMAIN s /\ h = s[1]
      /\ s # <<>> => WaitsFor(h, w.pc)
      /\ worker \in [Procs -> [pc : WorkerStates, job : Reqs \cup {NoReq}]]
  BY OfProc
<1>g. ASSUME NEW pc, GoTo(p, pc)
      PROVE  /\ \A q \in Procs \ {p} : worker'[q] = worker[q]
             /\ worker'[p].job = w.job /\ worker'[p].pc = pc
  BY <1>g, <1>t DEF GoTo
<1>r. UNCHANGED <<redis, req, up, taken, faults, history>> => Same /\ fate' = fate /\ ReqMoves(p)
  BY DEF Same, redis, history, ReqMoves
<1>1. CASE Dequeue(p)
  <2> DEFINE c == Command("blpop", NoReq)
             t == Append(s, c)
  <2>1. c \in Cmd /\ ~c.replied /\ c.op = "blpop"
    BY CommandTyped DEF Ops
  <2>2. ~Before(c)
    BY <2>1 DEF Before
  <2> HIDE DEF c
  <2>3. /\ Items(t) = Items(s) /\ Confirmed(t) = Confirmed(s)
        /\ Unpushed(t) = Unpushed(s)
        /\ Single(s) => Single(t)
    BY <1>t, <2>1, <2>2, ItemsAppend
  <2>4. conn' = [conn EXCEPT ![p] = t]
    BY <1>1 DEF Dequeue, Issue, c
  <2>5. GoTo(p, "pop") /\ w.job = NoReq /\ UNCHANGED <<redis, req, up, taken, faults, history>>
    BY <1>1 DEF Dequeue, JobFree, Free
  <2>6. /\ \A q \in Procs \ {p} : worker'[q] = worker[q]
        /\ worker'[p].job = worker[p].job /\ worker[p].job = NoReq
    BY <1>g, <2>5
  <2>7. Same /\ fate' = fate /\ ReqMoves(p)
    BY <1>r, <2>5
  <2> HIDE DEF t
  <2> QED BY <1>t, <2>3, <2>4, <2>6, <2>7, Quiet
<1>2. CASE PopNothing(p) \/ ReadSnapshot(p)
  <2> DEFINE t == Tail(s)
  <2>1. s # <<>> /\ (h.op # "blpop" \/ h.item = NoReq)
    BY <1>2 DEF PopNothing, ReadSnapshot, Answered
  <2>2. /\ Items(t) = Items(s) /\ Confirmed(t) \subseteq Confirmed(s)
        /\ Unpushed(t) \subseteq Unpushed(s)
        /\ Single(s) => Single(t)
    BY <1>t, <2>1, ItemsTail
  <2>3. conn' = [conn EXCEPT ![p] = t]
    BY <1>2 DEF PopNothing, ReadSnapshot, Deliver
  <2>4. UNCHANGED <<redis, req, up, taken, faults, history>>
    BY <1>2 DEF PopNothing, ReadSnapshot
  <2>5. PICK pc : GoTo(p, pc) /\ (pc \in Free => w.job = NoReq)
    <3>1. CASE PopNothing(p)
      <4>1. w.pc = "pop"
        BY <3>1, <1>t DEF PopNothing, Answered, WaitsFor
      <4> QED BY <3>1, <4>1 DEF PopNothing, JobFree, Free
    <3>2. CASE ReadSnapshot(p)
      BY <3>2 DEF ReadSnapshot, Free
    <3> QED BY <1>2, <3>1, <3>2
  <2> HIDE DEF t
  <2> QED BY <1>t, <1>g, <1>r, <2>2, <2>3, <2>4, <2>5, Quiet
<1>3. CASE PopJob(p)
  <2> DEFINE c == Command("snapshot", NoReq)
             u == Tail(s)
             t == Append(u, c)
  <2>1. s # <<>> /\ h.op = "blpop" /\ h.replied /\ h.item # NoReq /\ w.pc = "pop"
    BY <1>3, <1>t DEF PopJob, Answered, WaitsFor
  <2>2. c \in Cmd /\ ~c.replied /\ c.op = "snapshot"
    BY CommandTyped DEF Ops
  <2>3. ~Before(c)
    BY <2>2 DEF Before
  <2> HIDE DEF c
  <2>4. h.item \in Items(s)
    BY <1>t, <2>1 DEF Items
  <2>5. /\ u \in Seq(Cmd) /\ Items(u) \subseteq Items(s) /\ Items(s) \subseteq Items(u) \cup {h.item}
        /\ Confirmed(u) \subseteq Confirmed(s) /\ Unpushed(u) \subseteq Unpushed(s)
        /\ Single(s) => Single(u)
    BY <1>t, <2>1, ItemsTail
  <2> HIDE DEF u
  <2>6. /\ Items(t) = Items(u) /\ Confirmed(t) = Confirmed(u)
        /\ Unpushed(t) = Unpushed(u)
        /\ Single(u) => Single(t)
    BY <2>2, <2>3, <2>5, ItemsAppend
  <2>7. conn'[p] = t /\ \A q \in Procs \ {p} : conn'[q] = conn[q]
    BY <1>3, <1>t DEF PopJob, DeliverAndIssue, c, u
  <2>8. /\ worker'[p] = [pc |-> "snapshot", job |-> h.item]
        /\ \A q \in Procs \ {p} : worker'[q] = worker[q]
        /\ Same /\ fate' = fate /\ ReqMoves(p)
    BY <1>3, <1>t, <1>r DEF PopJob
  <2>9. w.job = NoReq
    BY <2>1 DEF JobFree, Free
  <2> HIDE DEF t
  <2>10. HeldBy(conn'[p], worker'[p]) = HeldBy(conn[p], worker[p])
    BY <2>1, <2>4, <2>5, <2>6, <2>7, <2>8, <2>9 DEF HeldBy
  <2>11. /\ Confirmed(conn'[p]) \subseteq Confirmed(conn[p])
         /\ Unpushed(conn'[p]) \subseteq Unpushed(conn[p])
         /\ Single(conn[p]) => Single(conn'[p])
    BY <2>5, <2>6, <2>7
  <2>12. worker'[p].pc \notin Free
    BY <2>8 DEF Free
  <2>13. Moves(p)
    BY <2>7, <2>8, <2>10, <2>11, <2>12 DEF Moves, Same, ReqMoves
  <2>14. Calm(p)
    BY <2>8, <2>10, <2>11 DEF Calm, Same
  <2> QED BY <2>8, <2>11, <2>13, <2>14 DEF Keeps, Same, ReqMoves
<1> QED BY <1>1, <1>2, <1>3

(* A job goes on, or ends with an outcome.                                  *)
LEMMA WorkMoves ==
    ASSUME IInv, JobFree, NEW p \in Procs, worker[p].pc \in Working,
           conn' = conn, Same, UNCHANGED req,
           \/ \E pc \in Working : GoTo(p, pc) /\ fate' = fate
           \/ \E o \in Fates : Finish(p, o)
    PROVE  Moves(p) /\ Keeps(p)
<1> DEFINE j == worker[p].job
<1>t. /\ worker \in [Procs -> [pc : WorkerStates, job : Reqs \cup {NoReq}]]
      /\ j \in Reqs /\ fate \in [Reqs -> SUBSET Fates]
  BY OfProc
<1>1. CASE \E pc \in Working : GoTo(p, pc) /\ fate' = fate
  <2>1. /\ \A q \in Procs \ {p} : worker'[q] = worker[q]
        /\ worker'[p].job = j /\ worker'[p].pc \notin Free
    BY <1>1, <1>t DEF GoTo, Working, Free
  <2>2. HeldBy(conn'[p], worker'[p]) = HeldBy(conn[p], worker[p])
    BY <2>1 DEF HeldBy
  <2>3. Moves(p) /\ Calm(p)
    BY <1>1, <2>1, <2>2 DEF Moves, Calm, Same
  <2> QED BY <2>3 DEF Keeps, Same
<1>2. ASSUME NEW o \in Fates, Finish(p, o) PROVE Moves(p) /\ Keeps(p)
  <2>1. /\ \A q \in Procs \ {p} : worker'[q] = worker[q]
        /\ worker'[p].job = NoReq
    BY <1>2, <1>t DEF Finish
  <2>2. fate'[j] # {} /\ \A r \in Reqs : r # j => fate'[r] = fate[r]
    BY <1>2, <1>t DEF Finish
  <2>3. LoggedIn(fate') = LoggedIn(fate) \cup {j}
    BY <1>t, <2>2 DEF LoggedIn
  <2>4. HeldBy(conn'[p], worker'[p]) = Items(conn[p]) /\ HeldBy(conn[p], worker[p]) = Items(conn[p]) \cup {j}
    BY <1>t, <2>1, OfProc DEF HeldBy
  <2>5. Moves(p) /\ Calm(p)
    BY <2>1, <2>3, <2>4 DEF Moves, Calm, Same
  <2> QED BY <2>5 DEF Keeps, Same
<1> QED BY <1>1, <1>2

(* All of the worker's steps.                                               *)
LEMMA WorkerStepMoves ==
    ASSUME IInv, JobFree, NEW p \in Procs, WorkerStep(p)
    PROVE  Moves(p) /\ Keeps(p)
<1>1. CASE Dequeue(p) \/ PopNothing(p) \/ PopJob(p) \/ ReadSnapshot(p)
  BY <1>1, ReaderMoves
<1> DEFINE W == /\ worker[p].pc \in Working /\ conn' = conn /\ Same /\ UNCHANGED req
                /\ \/ \E pc \in Working : GoTo(p, pc) /\ fate' = fate
                   \/ \E o \in Fates : Finish(p, o)
<1>2. CASE Simulate(p)
  <2>1. W
    BY <1>2 DEF Simulate, redis, Same, Working, Fates
  <2> QED BY <2>1, WorkMoves
<1>3. CASE Guard(p)
  <2>1. /\ worker[p].pc = "guard"
        /\ UNCHANGED <<redis, conn, req, up, taken, faults, reserved, pushed, lost, shown>>
        /\ \/ Finish(p, "rejected") \/ Finish(p, "error")
           \/ GoTo(p, "primary") /\ fate' = fate
    BY <1>3, Zenon DEF Guard
  <2>2. W
    BY <2>1 DEF redis, Same, Working, Fates
  <2> QED BY <2>2, WorkMoves
<1>4. CASE BroadcastPrimary(p)
  <2>1. W
    BY <1>4 DEF BroadcastPrimary, Succeeds, AfterPrimary, redis, Same, Working, Fates
  <2> QED BY <2>1, WorkMoves
<1>5. CASE BroadcastRelay(p)
  <2>1. W
    BY <1>5 DEF BroadcastRelay, Succeeds, redis, Same, Working, Fates
  <2> QED BY <2>1, WorkMoves
<1>6. CASE BroadcastRetry(p)
  <2>1. W
    BY <1>6 DEF BroadcastRetry, Succeeds, redis, Same, Working, Fates
  <2> QED BY <2>1, WorkMoves
<1> QED BY <1>1, <1>2, <1>3, <1>4, <1>5, <1>6 DEF WorkerStep

(* Faults: what a connection or a worker held is in `lost' or has an        *)
(* outcome.                                                                 *)
LEMMA NoneOfEmpty ==
    /\ Items(<<>>) = {} /\ Confirmed(<<>>) = {} /\ Unpushed(<<>>) = {} /\ Single(<<>>)
BY DEF Items, Confirmed, Unpushed, Single

(* Crashes, broken connections and restarts move entries only the way the   *)
(* invariant allows.                                                        *)
LEMMA FaultMoves ==
    ASSUME IInv, JobFree, NEW p \in Procs,
           Drop(p) \/ Crash(p) \/ SnapshotFails(p) \/ Restart(p)
    PROVE  Moves(p) /\ Keeps(p)
<1> DEFINE s == conn[p]
           w == worker[p]
<1>t. /\ conn \in [Procs -> Seq(Cmd)] /\ s \in Seq(Cmd)
      /\ worker \in [Procs -> [pc : WorkerStates, job : Reqs \cup {NoReq}]]
      /\ w.pc \in Working => w.job \in Reqs
      /\ fate \in [Reqs -> SUBSET Fates]
      /\ \A i \in DOMAIN s : WaitsFor(s[i], w.pc)
      /\ s # <<>> => 1 \in DOMAIN s
      /\ NoReq \notin Reqs
  BY OfProc
<1>f. faults \in [crash : Nat, drop : Nat, expiry : Nat]
  BY DEF IInv, TypeOK
<1>d. Delivering(p) = Items(s)
  BY DEF Delivering, Items
<1>1. CASE Drop(p)
  <2>1. /\ faults'.crash + faults'.drop > 0 /\ faults'.drop # 0
        /\ lost' = lost \cup Items(s)
        /\ queue' = queue /\ req' = req /\ worker' = worker /\ fate' = fate
    BY <1>1, <1>d, <1>f DEF Drop, redis
  <2>2. \A q \in Procs \ {p} : conn'[q] = conn[q]
    BY <1>1 DEF Drop
  <2>3. /\ DOMAIN conn'[p] = DOMAIN s
        /\ \A i \in DOMAIN s : ~conn'[p][i].replied
    BY <1>1, <1>t DEF Drop, Command
  <2>4. Confirmed(conn'[p]) = {}
    BY <2>3 DEF Confirmed
  <2>5. HeldBy(conn[p], worker[p]) \subseteq HeldBy(conn'[p], worker'[p]) \cup lost'
    BY <2>1 DEF HeldBy
  <2>6. Moves(p)
    BY <2>1, <2>2, <2>4, <2>5 DEF Moves, JobFree
  <2> QED BY <2>1, <2>6 DEF Keeps
<1>2. CASE Crash(p)
  <2>1. /\ faults'.crash + faults'.drop > 0 /\ faults'.drop = faults.drop
        /\ lost' = lost \cup HeldBy(s, w)
        /\ queue' = queue /\ pushed' = pushed /\ fate' = fate
    BY <1>2, <1>d, <1>f DEF Crash, Down, redis, InHand, HeldBy
  <2>2. /\ conn'[p] = <<>> /\ worker'[p].job = NoReq
        /\ \A q \in Procs \ {p} : conn'[q] = conn[q] /\ worker'[q] = worker[q]
    BY <1>2, <1>t DEF Crash, Down
  <2>3. \A r \in Reqs : req'[r] = req[r] \/ req'[r].st = "dropped"
    <3>1. req \in [Reqs -> [st : ReqStates, tx : Txs \cup {NoTx}, at : Procs \cup {NoReq}]]
      BY DEF IInv, TypeOK
    <3> QED BY <1>2, <3>1 DEF Crash, Down
  <2>4. HeldBy(conn'[p], worker'[p]) = {}
    BY <2>2, NoneOfEmpty DEF HeldBy
  <2>5. Moves(p)
    BY <2>1, <2>2, <2>3, NoneOfEmpty DEF Moves
  <2>6. Calm(p)
    BY <2>1, <2>2, <2>4, NoneOfEmpty DEF Calm
  <2> QED BY <2>1, <2>2, <2>3, <2>5, <2>6, NoneOfEmpty DEF Keeps
<1>3. CASE SnapshotFails(p)
  <2>1. /\ faults'.crash + faults'.drop > 0 /\ faults'.drop # 0
        /\ lost' = lost /\ queue' = queue /\ req' = req
    BY <1>3, <1>f DEF SnapshotFails, redis
  <2>2. /\ conn'[p] = <<>> /\ \A q \in Procs \ {p} : conn'[q] = conn[q]
        /\ \A i \in DOMAIN s : s[i].op = "snapshot"
        /\ w.job \in Reqs
    BY <1>3, <1>t DEF SnapshotFails, WaitsFor, Working
  <2>3. /\ worker'[p].job = NoReq /\ \A q \in Procs \ {p} : worker'[q] = worker[q]
        /\ fate'[w.job] # {} /\ \A r \in Reqs : r # w.job => fate'[r] = fate[r]
    BY <1>3, <1>t, <2>2 DEF SnapshotFails, Finish
  <2>4. LoggedIn(fate') = LoggedIn(fate) \cup {w.job}
    BY <2>2, <2>3 DEF LoggedIn
  <2>5. Items(s) = {}
    BY <2>2 DEF Items
  <2>6. HeldBy(s, w) \subseteq LoggedIn(fate')
    BY <2>4, <2>5 DEF HeldBy
  <2>7. Moves(p)
    BY <2>1, <2>2, <2>3, <2>4, <2>6, NoneOfEmpty DEF Moves
  <2> QED BY <2>1, <2>7 DEF Keeps
<1>4. CASE Restart(p)
  <2>1. w.pc = "off" /\ w.job = NoReq
    BY <1>4 DEF Restart, IInv, WaitingOK, JobFree, Free
  <2>2. /\ \A q \in Procs \ {p} : worker'[q] = worker[q]
        /\ worker'[p].job = w.job
    BY <1>4, <1>t, <2>1 DEF Restart, StartedWorker
  <2>3. Same /\ fate' = fate /\ ReqMoves(p) /\ conn' = [conn EXCEPT ![p] = s]
    BY <1>4, <1>t DEF Restart, Same, redis, history, ReqMoves
  <2> QED BY <1>t, <2>1, <2>2, <2>3, Quiet
<1> QED BY <1>1, <1>2, <1>3, <1>4

-----------------------------------------------------------------------------
(* The entries' invariant.                                                  *)

EntriesInv == IInv /\ AccountOK /\ OnceOK

(* No entry is anywhere at the start.                                       *)
LEMMA EntriesInit == Init => EntriesInv
<1> SUFFICES ASSUME Init PROVE EntriesInv
  OBVIOUS
<1>1. IInv
  BY InitInv
<1>2. \A p \in Procs : conn[p] = <<>> /\ worker[p].job = NoReq
  BY DEF Init, StartedWorker
<1>3. queue = <<>> /\ lost = {} /\ pushed = {} /\ \A r \in Reqs : fate[r] = {} /\ req[r].st = "new"
  BY DEF Init
<1>4. LoggedIn(fate) = {} /\ Elems(queue) = {} /\ DOMAIN queue = {}
  BY <1>3 DEF LoggedIn, Elems
<1>5. \A p \in Procs : HeldBy(conn[p], worker[p]) = {}
  BY <1>2, NoneOfEmpty DEF HeldBy
<1>6. AccountOK
  BY <1>2, <1>3, NoneOfEmpty DEF AccountOK, JobFree
<1>7. OnceOK
  BY <1>2, <1>3, <1>4, <1>5, NoneOfEmpty DEF OnceOK
<1> QED BY <1>1, <1>6, <1>7 DEF EntriesInv

(* Every step keeps every entry in one place.                               *)
LEMMA EntriesStep == EntriesInv /\ [Next]_vars => EntriesInv'
<1> SUFFICES ASSUME EntriesInv, [Next]_vars PROVE EntriesInv'
  OBVIOUS
<1>1. IInv' /\ IInv /\ AccountOK /\ OnceOK /\ JobFree
  BY StepInv DEF EntriesInv, AccountOK
<1>2. ASSUME NEW p \in Procs, Moves(p), Keeps(p) PROVE EntriesInv'
  BY <1>1, <1>2, AccountStep, OnceStep DEF EntriesInv
<1>3. ASSUME UNCHANGED <<queue, conn, req, worker, pushed, lost, fate>>,
             faults'.crash = faults.crash, faults'.drop = faults.drop
      PROVE  EntriesInv'
  <2>1. AccountOK'
    BY <1>1, <1>3 DEF AccountOK, JobFree, Accounted
  <2>2. OnceOK'
    BY <1>1, <1>3 DEF OnceOK
  <2> QED BY <1>1, <2>1, <2>2 DEF EntriesInv
<1>4. CASE \E p \in Procs : ProcStep(p)
  BY <1>1, <1>2, <1>4, RedisMoves, HandlerMoves, WorkerStepMoves DEF ProcStep
<1>5. CASE \E p \in Procs, r \in Reqs, tx \in Txs : Receive(p, r, tx)
  BY <1>1, <1>2, <1>5, ReceiveMoves
<1>6. CASE \E s \in Senders : Expire(s)
  <2>1. faults \in [crash : Nat, drop : Nat, expiry : Nat]
    BY <1>1 DEF IInv, TypeOK
  <2> QED BY <1>3, <1>6, <2>1 DEF Expire, history
<1>7. CASE \E p \in Procs : Drop(p) \/ Crash(p) \/ SnapshotFails(p) \/ Restart(p)
  BY <1>1, <1>2, <1>7, FaultMoves
<1>8. CASE UNCHANGED vars \/ \E tx \in Txs : RelayForwards(tx)
  BY <1>3, <1>8 DEF vars, redis, history, RelayForwards
<1> QED BY <1>4, <1>5, <1>6, <1>7, <1>8 DEF Next

(* engine/queue and engine/worker: a request that was answered "0xqueued"   *)
(* is queued, with a worker, has an outcome, or a crash or a broken         *)
(* connection swallowed it, with any number of processes on one Redis.      *)
THEOREM AcceptedIsAccountedAlways == Spec => []AcceptedIsAccounted
<1>1. Spec => []EntriesInv
  BY EntriesInit, EntriesStep, PTL DEF Spec
<1>2. EntriesInv => AcceptedIsAccounted
  <2> SUFFICES ASSUME EntriesInv PROVE AcceptedIsAccounted
    OBVIOUS
  <2>1. \A p \in Procs : Delivering(p) \cup InHand(p) = HeldBy(conn[p], worker[p])
    BY DEF Delivering, InHand, HeldBy, Items
  <2>2. Accounted \subseteq InPipeline \cup LoggedIn(fate) \cup lost
    BY <2>1 DEF Accounted, InPipeline, Queued, Elems
  <2> QED BY <2>2 DEF EntriesInv, AccountOK, AcceptedIsAccounted, LoggedIn
<1> QED BY <1>1, <1>2, PTL

(* utils/redis.ts and engine/worker: while no connection breaks, crashes    *)
(* and restarts included, no entry is worked on twice.                      *)
THEOREM WorkedOnOnceAlways == Spec => []WorkedOnOnce
<1>1. Spec => []EntriesInv
  BY EntriesInit, EntriesStep, PTL DEF Spec
<1>2. EntriesInv => WorkedOnOnce
  <2> SUFFICES ASSUME EntriesInv, faults.drop = 0 PROVE WorkedOnOnce
    BY DEF WorkedOnOnce
  <2>1. \A p \in Procs : Delivering(p) \cup InHand(p) = HeldBy(conn[p], worker[p])
    BY DEF Delivering, InHand, HeldBy, Items
  <2>2. Queued = Elems(queue) /\ Queued \subseteq Reqs
    <3>1. queue \in Seq(Reqs)
      BY DEF EntriesInv, IInv, TypeOK
    <3> QED BY <3>1 DEF Queued, Elems
  <2>3. \A r \in Queued : fate[r] = {} /\ \A p \in Procs : r \notin HeldBy(conn[p], worker[p])
    BY <2>2 DEF EntriesInv, OnceOK, LoggedIn
  <2>4. \A p, q \in Procs : p # q => HeldBy(conn[p], worker[p]) \cap HeldBy(conn[q], worker[q]) = {}
    BY DEF EntriesInv, OnceOK
  <2>5. \A i, j \in DOMAIN queue : queue[i] = queue[j] => i = j
    BY DEF EntriesInv, OnceOK
  <2> QED BY <2>1, <2>3, <2>4, <2>5 DEF WorkedOnOnce
<1> QED BY <1>1, <1>2, PTL
-----------------------------------------------------------------------------
(* One process alone on its Redis.  While no key expires and no connection  *)
(* breaks, the nonces on their way follow each other: queue, RPUSHes,       *)
(* answered SETs, SETs under way, answered GETs, and the key comes last.    *)

Stage(c) ==
    IF c.op = "rpush" /\ ~c.replied THEN 1
    ELSE IF c.op = "set" /\ c.replied THEN 2
    ELSE IF c.op = "set" THEN 3
    ELSE IF c.op = "get" /\ c.replied THEN 4
    ELSE 0
Amount(c, rq) == IF c.op = "get" THEN Expected(c.val) ELSE rq[c.req].tx.nonce
Sender(c, rq) == rq[c.req].tx.from
Due(r, rq, key) == Expected(key[rq[r].tx.from])

(* Redis answers in order.                                                  *)
Prefix(s) == \A i, j \in DOMAIN s : i < j /\ s[j].replied => s[i].replied

Ordered(s, rq) ==
    \A i, j \in DOMAIN s :
        /\ Stage(s[i]) > 0 /\ Stage(s[j]) > 0 /\ Sender(s[i], rq) = Sender(s[j], rq)
        /\ Stage(s[i]) < Stage(s[j]) \/ (Stage(s[i]) = Stage(s[j]) /\ i < j)
        => Amount(s[i], rq) <= Amount(s[j], rq)

(* What is written is below the key, what is to be written at most one      *)
(* behind it.                                                               *)
NearKey(c, rq, key) ==
    /\ Stage(c) \in {1, 2} \/ c.op = "rpush" => Amount(c, rq) < Due(c.req, rq, key)
    /\ Stage(c) \in {3, 4} => /\ Due(c.req, rq, key) - 1 <= Amount(c, rq)
                              /\ Amount(c, rq) <= Due(c.req, rq, key)
Near(s, rq, key) == \A i \in DOMAIN s : NearKey(s[i], rq, key)

QueueBehind(qu, s, rq, key) ==
    /\ \A i \in DOMAIN qu : rq[qu[i]].tx.nonce < Due(qu[i], rq, key)
    /\ \A i, j \in DOMAIN qu :
          i < j /\ rq[qu[i]].tx.from = rq[qu[j]].tx.from => rq[qu[i]].tx.nonce <= rq[qu[j]].tx.nonce
    /\ \A i \in DOMAIN qu, j \in DOMAIN s :
          Stage(s[j]) \in {1, 2} /\ rq[qu[i]].tx.from = Sender(s[j], rq)
              => rq[qu[i]].tx.nonce <= Amount(s[j], rq)

AcceptedBehind(rq, key) ==
    \A r \in Reqs : rq[r].st = "accepted" => r \in Known(rq) /\ rq[r].tx.nonce < Due(r, rq, key)

(* A handler that read a nonce before it was taken takes it before whoever  *)
(* took it is through.                                                      *)
Fresh(s, rq) ==
    \A i \in DOMAIN s, q \in Reqs :
        Stage(s[i]) = 4 /\ rq[q].tx.from = Sender(s[i], rq) /\ rq[q].tx.nonce = Amount(s[i], rq)
        => /\ rq[q].st # "accepted"
           /\ \A j \in DOMAIN s : s[j].req = q => s[j].op # "rpush" /\ (Stage(s[j]) = 2 => i < j)

Chain(s, qu, rq, key) ==
    /\ Prefix(s) /\ Ordered(s, rq) /\ Near(s, rq, key)
    /\ QueueBehind(qu, s, rq, key) /\ AcceptedBehind(rq, key) /\ Fresh(s, rq)

Calmly == faults.expiry + faults.drop = 0
OrderOK(p) == Calmly => Chain(conn[p], queue, req, nonceKey)

(* The stages of a reservation, by command and answer.                      *)
LEMMA Stages ==
    ASSUME NEW c
    PROVE  /\ Stage(c) \in 0..4
           /\ Stage(c) > 0 => c.op \in HandlerOps
           /\ Stage(c) = 1 <=> c.op = "rpush" /\ ~c.replied
           /\ Stage(c) = 2 <=> c.op = "set" /\ c.replied
           /\ Stage(c) = 3 <=> c.op = "set" /\ ~c.replied
           /\ Stage(c) = 4 <=> c.op = "get" /\ c.replied
BY DEF Stage, HandlerOps

(* The head's reply is delivered.                                           *)
LEMMA ChainTail ==
    ASSUME NEW s \in Seq(Cmd), s # <<>>, NEW qu, NEW rq, NEW key, Chain(s, qu, rq, key)
    PROVE  Chain(Tail(s), qu, rq, key)
<1> DEFINE t == Tail(s)
<1>1. /\ \A i \in DOMAIN t : i + 1 \in DOMAIN s /\ t[i] = s[i + 1]
      /\ \A i, j \in DOMAIN t : i < j <=> i + 1 < j + 1
  OBVIOUS
<1> HIDE DEF t
<1>2. Prefix(t)
  BY <1>1 DEF Chain, Prefix
<1>3. Ordered(t, rq)
  <2> SUFFICES ASSUME NEW i \in DOMAIN t, NEW j \in DOMAIN t,
                      Stage(t[i]) > 0, Stage(t[j]) > 0, Sender(t[i], rq) = Sender(t[j], rq),
                      Stage(t[i]) < Stage(t[j]) \/ (Stage(t[i]) = Stage(t[j]) /\ i < j)
               PROVE  Amount(t[i], rq) <= Amount(t[j], rq)
    BY DEF Ordered
  <2> QED BY <1>1 DEF Chain, Ordered
<1>4. Near(t, rq, key)
  BY <1>1 DEF Chain, Near
<1>5. QueueBehind(qu, t, rq, key)
  BY <1>1 DEF Chain, QueueBehind
<1>6. Fresh(t, rq)
  <2> SUFFICES ASSUME NEW i \in DOMAIN t, NEW q \in Reqs, Stage(t[i]) = 4,
                      rq[q].tx.from = Sender(t[i], rq), rq[q].tx.nonce = Amount(t[i], rq)
               PROVE  /\ rq[q].st # "accepted"
                      /\ \A j \in DOMAIN t : t[j].req = q => t[j].op # "rpush" /\ (Stage(t[j]) = 2 => i < j)
    BY DEF Fresh
  <2> QED BY <1>1 DEF Chain, Fresh
<1> QED BY <1>2, <1>3, <1>4, <1>5, <1>6 DEF Chain, t

(* A command is sent.                                                       *)
LEMMA ChainAppend ==
    ASSUME NEW s \in Seq(Cmd), NEW qu, NEW rq, NEW key, Chain(s, qu, rq, key),
           NEW c \in Cmd, ~c.replied, NearKey(c, rq, key),
           \A i \in DOMAIN s :
              Stage(c) > 0 /\ Stage(s[i]) > 0 /\ Sender(s[i], rq) = Sender(c, rq) =>
                 /\ Stage(s[i]) <= Stage(c) => Amount(s[i], rq) <= Amount(c, rq)
                 /\ Stage(c) < Stage(s[i]) => Amount(c, rq) <= Amount(s[i], rq),
           \A i \in DOMAIN qu :
              Stage(c) = 1 /\ rq[qu[i]].tx.from = Sender(c, rq) => rq[qu[i]].tx.nonce <= Amount(c, rq),
           \A i \in DOMAIN s :
              c.op = "rpush" /\ Stage(s[i]) = 4 /\ rq[c.req].tx.from = Sender(s[i], rq)
                  => rq[c.req].tx.nonce # Amount(s[i], rq)
    PROVE  Chain(Append(s, c), qu, rq, key)
<1> DEFINE t == Append(s, c)
           n == Len(s) + 1
<1>1. /\ \A i \in DOMAIN s : i \in DOMAIN t /\ t[i] = s[i] /\ i < n /\ ~(n < i) /\ i # n
      /\ n \in DOMAIN t /\ t[n] = c /\ ~(n < n)
      /\ \A i \in DOMAIN t : i \in DOMAIN s \/ i = n
  OBVIOUS
<1>s. Stage(c) \in {0, 1, 3}
  BY DEF Stage
<1> HIDE DEF t, n
<1>2. Prefix(t)
  BY <1>1 DEF Chain, Prefix
<1>3. Ordered(t, rq)
  <2> SUFFICES ASSUME NEW i \in DOMAIN t, NEW j \in DOMAIN t,
                      Stage(t[i]) > 0, Stage(t[j]) > 0, Sender(t[i], rq) = Sender(t[j], rq),
                      Stage(t[i]) < Stage(t[j]) \/ (Stage(t[i]) = Stage(t[j]) /\ i < j)
               PROVE  Amount(t[i], rq) <= Amount(t[j], rq)
    BY DEF Ordered
  <2>1. CASE i \in DOMAIN s /\ j \in DOMAIN s
    BY <1>1, <2>1 DEF Chain, Ordered
  <2>2. CASE i \in DOMAIN s /\ j = n
    BY <1>1, <1>s, <2>2, Stages
  <2>3. CASE i = n /\ j \in DOMAIN s
    BY <1>1, <1>s, <2>3, Stages
  <2>4. CASE i = n /\ j = n
    BY <1>1, <1>s, <2>4
  <2> QED BY <1>1, <2>1, <2>2, <2>3, <2>4
<1>4. Near(t, rq, key)
  BY <1>1 DEF Chain, Near
<1>5. QueueBehind(qu, t, rq, key)
  <2>1. \A i \in DOMAIN qu, j \in DOMAIN t :
          Stage(t[j]) \in {1, 2} /\ rq[qu[i]].tx.from = Sender(t[j], rq)
              => rq[qu[i]].tx.nonce <= Amount(t[j], rq)
    BY <1>1, <1>s DEF Chain, QueueBehind
  <2> QED BY <2>1 DEF Chain, QueueBehind
<1>6. Fresh(t, rq)
  <2> SUFFICES ASSUME NEW i \in DOMAIN t, NEW q \in Reqs, Stage(t[i]) = 4,
                      rq[q].tx.from = Sender(t[i], rq), rq[q].tx.nonce = Amount(t[i], rq)
               PROVE  /\ rq[q].st # "accepted"
                      /\ \A j \in DOMAIN t : t[j].req = q => t[j].op # "rpush" /\ (Stage(t[j]) = 2 => i < j)
    BY DEF Fresh
  <2>1. i \in DOMAIN s
    BY <1>1, <1>s
  <2>2. /\ rq[q].st # "accepted"
        /\ \A j \in DOMAIN s : s[j].req = q => s[j].op # "rpush" /\ (Stage(s[j]) = 2 => i < j)
    BY <1>1, <2>1 DEF Chain, Fresh
  <2>3. c.req = q => c.op # "rpush" /\ Stage(c) # 2
    BY <1>1, <1>s, <2>1
  <2> QED BY <1>1, <2>2, <2>3
<1> QED BY <1>2, <1>3, <1>4, <1>5, <1>6 DEF Chain, t

(* Commands that carry no nonce come and go.                                *)
LEMMA ChainIdle ==
    ASSUME NEW s \in Seq(Cmd), NEW qu, NEW rq, NEW key, Chain(s, qu, rq, key),
           NEW c \in Cmd, ~c.replied, c.op \in {"get", "blpop", "snapshot"}
    PROVE  Chain(Append(s, c), qu, rq, key)
<1>1. Stage(c) = 0 /\ c.op # "rpush"
  BY DEF Stage
<1>2. NearKey(c, rq, key)
  BY <1>1 DEF NearKey
<1> QED BY <1>1, <1>2, ChainAppend

(* A command that is about no reservation leaves the chain of               *)
(* reservations.                                                            *)
LEMMA ChainMute ==
    ASSUME NEW s, NEW i, NEW t, AnswersAt(s, i, t), \A j \in 1..(i - 1) : s[j].replied,
           DOMAIN s \subseteq Nat \ {0}, s[i].op \in {"blpop", "snapshot"},
           NEW qu, NEW rq, NEW key, Chain(s, qu, rq, key)
    PROVE  Chain(t, qu, rq, key)
<1>1. /\ DOMAIN t = DOMAIN s /\ i \in DOMAIN s /\ t[i].req = s[i].req /\ t[i].op = s[i].op
      /\ \A j \in DOMAIN s : j # i => t[j] = s[j]
      /\ \A j \in DOMAIN s : s[j].replied => t[j].replied
      /\ \A j \in DOMAIN s : j < i => s[j].replied
  BY DEF AnswersAt
<1>2. \A j \in DOMAIN s : /\ Stage(t[j]) > 0 <=> Stage(s[j]) > 0
                          /\ Stage(s[j]) > 0 => t[j] = s[j]
                          /\ t[j].op = "rpush" => t[j] = s[j]
                          /\ Stage(t[j]) = Stage(s[j])
                          /\ t[j].req = s[j].req /\ t[j].op = s[j].op
  BY <1>1 DEF Stage
<1>3. Prefix(t)
  BY <1>1 DEF Chain, Prefix, AnswersAt
<1>4. Ordered(t, rq)
  BY <1>1, <1>2 DEF Chain, Ordered
<1>5. Near(t, rq, key)
  <2> SUFFICES ASSUME NEW j \in DOMAIN s PROVE NearKey(t[j], rq, key)
    BY <1>1 DEF Near
  <2>1. NearKey(s[j], rq, key)
    BY DEF Chain, Near
  <2>2. CASE Stage(t[j]) > 0 \/ t[j].op = "rpush"
    BY <1>2, <2>1, <2>2
  <2>3. CASE ~(Stage(t[j]) > 0) /\ t[j].op # "rpush"
    BY <2>3, Stages DEF NearKey
  <2> QED BY <2>2, <2>3
<1>6. QueueBehind(qu, t, rq, key)
  BY <1>1, <1>2 DEF Chain, QueueBehind
<1>7. Fresh(t, rq)
  BY <1>1, <1>2 DEF Chain, Fresh
<1> QED BY <1>3, <1>4, <1>5, <1>6, <1>7 DEF Chain

(* Commands and entries name requests with a transaction.                   *)
Typed(s, qu, rq, key) ==
    /\ \A i \in DOMAIN s : s[i] \in Cmd /\ (s[i].op \in HandlerOps => s[i].req \in Known(rq))
    /\ \A i \in DOMAIN qu : qu[i] \in Known(rq)
    /\ key \in [Senders -> Nat \cup {NoKey}]

(* What a sender's key expects is a natural number.                         *)
LEMMA DueTyped ==
    ASSUME NEW rq, NEW key \in [Senders -> Nat \cup {NoKey}], NEW r \in Known(rq)
    PROVE  /\ rq[r].tx.from \in Senders /\ rq[r].tx.nonce \in Nat
           /\ Due(r, rq, key) \in Nat
<1>1. rq[r].tx.from \in Senders /\ rq[r].tx.nonce \in Nat
  BY EngineAssumption DEF Known, Txs, Nonces
<1>2. key[rq[r].tx.from] \in Nat \cup {NoKey}
  BY <1>1
<1> QED BY <1>1, <1>2 DEF Due, Expected

(* So is what a command of a handler stands for.                            *)
LEMMA AmountTyped ==
    ASSUME NEW s, NEW qu, NEW rq, NEW key, Typed(s, qu, rq, key),
           NEW i \in DOMAIN s, s[i].op \in HandlerOps
    PROVE  /\ Sender(s[i], rq) \in Senders /\ Amount(s[i], rq) \in Int
           /\ Due(s[i].req, rq, key) \in Nat /\ s[i].req \in Known(rq)
           /\ s[i].op # "get" => Amount(s[i], rq) = rq[s[i].req].tx.nonce /\ Amount(s[i], rq) \in Nat
<1>1. s[i] \in Cmd /\ s[i].req \in Known(rq) /\ key \in [Senders -> Nat \cup {NoKey}]
  BY DEF Typed
<1>2. rq[s[i].req].tx.from \in Senders /\ rq[s[i].req].tx.nonce \in Nat /\ Due(s[i].req, rq, key) \in Nat
  BY <1>1, DueTyped
<1>3. Expected(s[i].val) \in Int
  BY <1>1 DEF Cmd, Expected
<1> QED BY <1>1, <1>2, <1>3 DEF Amount, Sender

(* What a reply at the first unanswered command leaves alone.               *)
LEMMA ReplyAt ==
    ASSUME NEW s, NEW i, NEW t, AnswersAt(s, i, t), \A j \in 1..(i - 1) : s[j].replied,
           DOMAIN s \subseteq Nat \ {0}
    PROVE  /\ DOMAIN t = DOMAIN s /\ i \in DOMAIN s /\ ~s[i].replied /\ t[i].replied
           /\ \A j \in DOMAIN s : j # i => t[j] = s[j]
           /\ \A j \in DOMAIN s : j < i => s[j].replied
           /\ \A j \in DOMAIN s : j # i /\ ~(j < i) => i < j
           /\ t[i].op = s[i].op /\ t[i].req = s[i].req
           /\ Prefix(s) => Prefix(t) /\ \A j \in DOMAIN s : i < j => ~s[j].replied
BY DEF AnswersAt, Prefix

(* Redis answers a GET with the key.                                        *)
LEMMA ChainGet ==
    ASSUME NEW s, NEW i, NEW t, AnswersAt(s, i, t), \A j \in 1..(i - 1) : s[j].replied,
           DOMAIN s \subseteq Nat \ {0}, s[i].op = "get",
           NEW qu, NEW rq, NEW key, Typed(s, qu, rq, key), Chain(s, qu, rq, key),
           t[i].val = key[rq[s[i].req].tx.from]
    PROVE  Chain(t, qu, rq, key)
<1>1. /\ DOMAIN t = DOMAIN s /\ i \in DOMAIN s /\ ~s[i].replied /\ t[i].replied
      /\ \A j \in DOMAIN s : j # i => t[j] = s[j]
      /\ \A j \in DOMAIN s : j # i /\ ~(j < i) => i < j
      /\ t[i].op = s[i].op /\ t[i].req = s[i].req
      /\ Prefix(t) /\ \A j \in DOMAIN s : i < j => ~s[j].replied
  BY ReplyAt DEF Chain
<1> DEFINE K == Due(s[i].req, rq, key)
<1>2. /\ Stage(t[i]) = 4 /\ Stage(s[i]) = 0 /\ Amount(t[i], rq) = K /\ Sender(t[i], rq) = Sender(s[i], rq)
      /\ s[i].op \in HandlerOps
  BY <1>1 DEF Stage, Amount, Sender, Due, HandlerOps
<1>3. K \in Nat
  BY <1>1, <1>2, AmountTyped
<1>4. \A j \in DOMAIN s : Sender(s[j], rq) = Sender(s[i], rq) => Due(s[j].req, rq, key) = K
  BY DEF Sender, Due
<1>5. ASSUME NEW j \in DOMAIN s, Stage(s[j]) > 0, Sender(s[j], rq) = Sender(s[i], rq)
      PROVE  Amount(s[j], rq) <= K
  <2>1. NearKey(s[j], rq, key) /\ Due(s[j].req, rq, key) = K
    BY <1>4, <1>5 DEF Chain, Near
  <2>2. Amount(s[j], rq) \in Int
    BY <1>5, AmountTyped, Stages
  <2>3. Stage(s[j]) \in {1, 2} \/ Stage(s[j]) \in {3, 4}
    BY <1>5, Stages
  <2> QED BY <1>3, <2>1, <2>2, <2>3 DEF NearKey
<1> HIDE DEF K
<1>6. Ordered(t, rq)
  <2> SUFFICES ASSUME NEW a \in DOMAIN s, NEW b \in DOMAIN s,
                      Stage(t[a]) > 0, Stage(t[b]) > 0, Sender(t[a], rq) = Sender(t[b], rq),
                      Stage(t[a]) < Stage(t[b]) \/ (Stage(t[a]) = Stage(t[b]) /\ a < b)
               PROVE  Amount(t[a], rq) <= Amount(t[b], rq)
    BY <1>1 DEF Ordered
  <2>1. CASE a # i /\ b # i
    BY <1>1, <2>1 DEF Chain, Ordered
  <2>2. CASE a # i /\ b = i
    BY <1>1, <1>2, <1>5, <2>2
  <2>3. CASE a = i
    <3>1. Stage(t[b]) = 4 /\ i < b
      BY <1>2, <2>3, Stages
    <3> QED BY <1>1, <2>3, <3>1, Stages
  <2> QED BY <2>1, <2>2, <2>3
<1>7. Near(t, rq, key)
  <2>1. NearKey(t[i], rq, key)
    BY <1>1, <1>2, <1>3 DEF NearKey, K, Due
  <2> QED BY <1>1, <2>1 DEF Chain, Near
<1>8. QueueBehind(qu, t, rq, key)
  <2>1. Stage(t[i]) \notin {1, 2}
    BY <1>2
  <2> QED BY <1>1, <2>1 DEF Chain, QueueBehind
<1>9. Fresh(t, rq)
  <2> SUFFICES ASSUME NEW a \in DOMAIN s, NEW q \in Reqs, Stage(t[a]) = 4,
                      rq[q].tx.from = Sender(t[a], rq), rq[q].tx.nonce = Amount(t[a], rq)
               PROVE  /\ rq[q].st # "accepted"
                      /\ \A j \in DOMAIN s : t[j].req = q => t[j].op # "rpush" /\ (Stage(t[j]) = 2 => a < j)
    BY <1>1 DEF Fresh
  <2>1. t[i].op # "rpush" /\ Stage(t[i]) # 2
    BY <1>1, <1>2
  <2>2. CASE a # i
    BY <1>1, <2>1, <2>2 DEF Chain, Fresh
  <2>3. CASE a = i
    <3>1. Due(q, rq, key) = K /\ rq[q].tx.nonce = K
      BY <1>2, <2>3 DEF K, Due, Sender
    <3>2. rq[q].st # "accepted"
      BY <1>3, <3>1 DEF Chain, AcceptedBehind
    <3>3. ASSUME NEW j \in DOMAIN s, j # i, s[j].req = q, s[j].op = "rpush" \/ Stage(s[j]) = 2 PROVE FALSE
      <4>1. Amount(s[j], rq) < K
        BY <3>1, <3>3 DEF Chain, Near, NearKey
      <4>2. Amount(s[j], rq) = K
        BY <3>1, <3>3, Stages DEF Amount
      <4> QED BY <1>3, <4>1, <4>2
    <3> QED BY <1>1, <2>1, <3>2, <3>3
  <2> QED BY <2>2, <2>3
<1> QED BY <1>1, <1>6, <1>7, <1>8, <1>9 DEF Chain

(* Redis executes a SET.                                                    *)
LEMMA ChainSet ==
    ASSUME NEW s, NEW i, NEW t, AnswersAt(s, i, t), \A j \in 1..(i - 1) : s[j].replied,
           DOMAIN s \subseteq Nat \ {0}, s[i].op = "set",
           NEW qu, NEW rq, NEW key, Typed(s, qu, rq, key), Chain(s, qu, rq, key),
           NEW key2, key2 = [key EXCEPT ![rq[s[i].req].tx.from] = rq[s[i].req].tx.nonce + 1]
    PROVE  Chain(t, qu, rq, key2)
<1>1. /\ DOMAIN t = DOMAIN s /\ i \in DOMAIN s /\ ~s[i].replied /\ t[i].replied
      /\ \A j \in DOMAIN s : j # i => t[j] = s[j]
      /\ \A j \in DOMAIN s : j < i => s[j].replied
      /\ \A j \in DOMAIN s : j # i /\ ~(j < i) => i < j
      /\ t[i].op = s[i].op /\ t[i].req = s[i].req
      /\ Prefix(t) /\ \A j \in DOMAIN s : i < j => ~s[j].replied
  BY ReplyAt DEF Chain
<1> DEFINE K == Due(s[i].req, rq, key)
           m == Amount(s[i], rq)
           f == Sender(s[i], rq)
<1>2. /\ Stage(t[i]) = 2 /\ Stage(s[i]) = 3 /\ Amount(t[i], rq) = m /\ Sender(t[i], rq) = f
      /\ s[i].op \in HandlerOps
  BY <1>1 DEF Stage, Amount, Sender, HandlerOps
<1>3. /\ K \in Nat /\ m \in Nat /\ f \in Senders /\ m = rq[s[i].req].tx.nonce
      /\ s[i].req \in Known(rq)
  BY <1>1, <1>2, AmountTyped
<1>4. K - 1 <= m /\ m <= K
  BY <1>1, <1>2 DEF Chain, Near, NearKey
<1>5. /\ \A r : rq[r].tx.from = f => Due(r, rq, key) = K /\ Due(r, rq, key2) = m + 1
      /\ \A r \in Known(rq) : rq[r].tx.from # f => Due(r, rq, key2) = Due(r, rq, key)
  <2>1. key \in [Senders -> Nat \cup {NoKey}]
    BY DEF Typed
  <2>2. key2[f] = m + 1 /\ \A x \in Senders : x # f => key2[x] = key[x]
    BY <1>3, <2>1 DEF Sender
  <2>3. Expected(m + 1) = m + 1
    BY <1>3 DEF Expected, NoKey
  <2>4. \A r \in Known(rq) : rq[r].tx.from \in Senders
    BY <2>1, DueTyped
  <2> QED BY <2>2, <2>3, <2>4 DEF Due, Sender
<1>6. \A j \in DOMAIN s : Stage(s[j]) > 0 \/ s[j].op = "rpush" =>
          Amount(s[j], rq) \in Int /\ s[j].req \in Known(rq)
  BY AmountTyped, Stages DEF HandlerOps
(* m is the least of what is to be written, and not below what is written. *)
<1>7. ASSUME NEW j \in DOMAIN s, j # i, Stage(s[j]) \in {3, 4}, Sender(s[j], rq) = f
      PROVE  m <= Amount(s[j], rq)
  <2>1. CASE Stage(s[j]) = 3
    <3>1. i < j
      BY <1>1, <1>7, <2>1, Stages
    <3> QED BY <1>1, <1>2, <1>7, <2>1, <3>1 DEF Chain, Ordered
  <2>2. CASE Stage(s[j]) = 4
    BY <1>1, <1>2, <1>7, <2>2 DEF Chain, Ordered
  <2> QED BY <1>7, <2>1, <2>2
<1>8. ASSUME NEW j \in DOMAIN s, Stage(s[j]) \in {1, 2} \/ s[j].op = "rpush", Sender(s[j], rq) = f
      PROVE  Amount(s[j], rq) < K /\ Amount(s[j], rq) \in Int
  <2>1. Amount(s[j], rq) \in Int
    BY <1>6, <1>8
  <2> QED BY <1>5, <1>8, <2>1 DEF Chain, Near, NearKey, Sender
<1> HIDE DEF K, m, f
<1>9. Ordered(t, rq)
  <2> SUFFICES ASSUME NEW a \in DOMAIN s, NEW b \in DOMAIN s,
                      Stage(t[a]) > 0, Stage(t[b]) > 0, Sender(t[a], rq) = Sender(t[b], rq),
                      Stage(t[a]) < Stage(t[b]) \/ (Stage(t[a]) = Stage(t[b]) /\ a < b)
               PROVE  Amount(t[a], rq) <= Amount(t[b], rq)
    BY <1>1 DEF Ordered
  <2>1. CASE a # i /\ b # i
    BY <1>1, <2>1 DEF Chain, Ordered
  <2>2. CASE a # i /\ b = i
    <3>1. Stage(s[a]) \in {1, 2} /\ Sender(s[a], rq) = f /\ t[a] = s[a]
      BY <1>1, <1>2, <2>2, Stages
    <3> QED BY <1>2, <1>3, <1>4, <1>8, <2>2, <3>1
  <2>3. CASE a = i
    <3>1. b # i /\ t[b] = s[b] /\ (Stage(s[b]) \in {3, 4} \/ (Stage(s[b]) = 2 /\ i < b))
      BY <1>1, <1>2, <2>3, Stages
    <3>2. ~(Stage(s[b]) = 2 /\ i < b)
      BY <1>1, Stages
    <3> QED BY <1>2, <1>7, <2>3, <3>1, <3>2
  <2> QED BY <2>1, <2>2, <2>3
<1>10. Near(t, rq, key2)
  <2> SUFFICES ASSUME NEW j \in DOMAIN s PROVE NearKey(t[j], rq, key2)
    BY <1>1 DEF Near
  <2>1. CASE j = i
    <3>1. Due(t[i].req, rq, key2) = m + 1
      BY <1>1, <1>5 DEF f, Sender
    <3> QED BY <1>1, <1>2, <1>3, <2>1, <3>1 DEF NearKey
  <2>2. CASE j # i /\ Sender(s[j], rq) # f
    <3>1. NearKey(s[j], rq, key) /\ t[j] = s[j]
      BY <1>1, <2>2 DEF Chain, Near
    <3>2. Stage(s[j]) > 0 \/ s[j].op = "rpush" => Due(s[j].req, rq, key2) = Due(s[j].req, rq, key)
      BY <1>5, <1>6, <2>2 DEF Sender
    <3> QED BY <3>1, <3>2, Stages DEF NearKey
  <2>3. CASE j # i /\ Sender(s[j], rq) = f
    <3>1. NearKey(s[j], rq, key) /\ t[j] = s[j]
      BY <1>1, <2>3 DEF Chain, Near
    <3>2. Due(s[j].req, rq, key2) = m + 1 /\ Due(s[j].req, rq, key) = K
      BY <1>5, <2>3 DEF Sender
    <3>3. ASSUME Stage(s[j]) \in {1, 2} \/ s[j].op = "rpush" PROVE Amount(s[j], rq) < m + 1
      BY <1>3, <1>4, <1>8, <2>3, <3>3
    <3>4. ASSUME Stage(s[j]) \in {3, 4} PROVE (m + 1) - 1 <= Amount(s[j], rq) /\ Amount(s[j], rq) <= m + 1
      <4>1. m <= Amount(s[j], rq) /\ Amount(s[j], rq) <= K /\ Amount(s[j], rq) \in Int
        BY <1>6, <1>7, <2>3, <3>1, <3>2, <3>4 DEF NearKey
      <4> QED BY <1>3, <1>4, <4>1
    <3> QED BY <3>1, <3>2, <3>3, <3>4 DEF NearKey
  <2> QED BY <2>1, <2>2, <2>3
<1>11. \A r \in Known(rq) : rq[r].tx.nonce < Due(r, rq, key) => rq[r].tx.nonce < Due(r, rq, key2)
  <2> SUFFICES ASSUME NEW r \in Known(rq), rq[r].tx.nonce < Due(r, rq, key)
               PROVE  rq[r].tx.nonce < Due(r, rq, key2)
    OBVIOUS
  <2>1. rq[r].tx.nonce \in Nat
    BY DueTyped DEF Typed
  <2>2. CASE rq[r].tx.from = f
    <3>1. Due(r, rq, key) = K /\ Due(r, rq, key2) = m + 1
      BY <1>5, <2>2
    <3> QED BY <1>3, <1>4, <2>1, <3>1
  <2> QED BY <1>5, <2>2
<1>12. QueueBehind(qu, t, rq, key2)
  <2>1. \A j \in DOMAIN qu : qu[j] \in Known(rq)
    BY DEF Typed
  <2>2. \A j \in DOMAIN qu : rq[qu[j]].tx.nonce < Due(qu[j], rq, key) /\ rq[qu[j]].tx.nonce \in Nat
    BY <2>1, DueTyped DEF Chain, QueueBehind, Typed
  <2>3. ASSUME NEW a \in DOMAIN qu, rq[qu[a]].tx.from = f PROVE rq[qu[a]].tx.nonce <= m
    BY <1>3, <1>4, <1>5, <2>2, <2>3
  <2>4. \A a \in DOMAIN qu, j \in DOMAIN t :
          Stage(t[j]) \in {1, 2} /\ rq[qu[a]].tx.from = Sender(t[j], rq)
              => rq[qu[a]].tx.nonce <= Amount(t[j], rq)
    BY <1>1, <1>2, <2>3 DEF Chain, QueueBehind
  <2>5. \A a \in DOMAIN qu : rq[qu[a]].tx.nonce < Due(qu[a], rq, key2)
    BY <1>11, <2>1, <2>2
  <2> QED BY <2>4, <2>5 DEF Chain, QueueBehind
<1>13. AcceptedBehind(rq, key2)
  BY <1>11 DEF Chain, AcceptedBehind
<1>14. Fresh(t, rq)
  <2> SUFFICES ASSUME NEW a \in DOMAIN s, NEW q \in Reqs, Stage(t[a]) = 4,
                      rq[q].tx.from = Sender(t[a], rq), rq[q].tx.nonce = Amount(t[a], rq)
               PROVE  /\ rq[q].st # "accepted"
                      /\ \A j \in DOMAIN s : t[j].req = q => t[j].op # "rpush" /\ (Stage(t[j]) = 2 => a < j)
    BY <1>1 DEF Fresh
  <2>1. a # i /\ t[a] = s[a] /\ s[a].replied
    BY <1>1, <1>2, Stages
  <2>2. a < i
    BY <1>1, <2>1
  <2>3. /\ rq[q].st # "accepted"
        /\ \A j \in DOMAIN s : s[j].req = q => s[j].op # "rpush" /\ (Stage(s[j]) = 2 => a < j)
    BY <2>1 DEF Chain, Fresh
  <2> QED BY <1>1, <2>2, <2>3
<1> QED BY <1>1, <1>9, <1>10, <1>12, <1>13, <1>14 DEF Chain

(* Redis executes an RPUSH.                                                 *)
LEMMA ChainRpush ==
    ASSUME NEW s, NEW i, NEW t, AnswersAt(s, i, t), \A j \in 1..(i - 1) : s[j].replied,
           DOMAIN s \subseteq Nat \ {0}, s[i].op = "rpush",
           NEW qu \in Seq(Reqs), NEW rq, NEW key, Typed(s, qu, rq, key), Chain(s, qu, rq, key)
    PROVE  Chain(t, Append(qu, s[i].req), rq, key)
<1>1. /\ DOMAIN t = DOMAIN s /\ i \in DOMAIN s /\ ~s[i].replied /\ t[i].replied
      /\ \A j \in DOMAIN s : j # i => t[j] = s[j]
      /\ \A j \in DOMAIN s : j < i => s[j].replied
      /\ \A j \in DOMAIN s : j # i /\ ~(j < i) => i < j
      /\ t[i].op = s[i].op /\ t[i].req = s[i].req
      /\ Prefix(t) /\ \A j \in DOMAIN s : i < j => ~s[j].replied
  BY ReplyAt DEF Chain
<1> DEFINE r == s[i].req
           n == Len(qu) + 1
           qt == Append(qu, r)
<1>2. /\ Stage(t[i]) = 0 /\ Stage(s[i]) = 1 /\ t[i].op = "rpush"
      /\ Amount(t[i], rq) = rq[r].tx.nonce /\ Amount(s[i], rq) = rq[r].tx.nonce
      /\ Sender(s[i], rq) = rq[r].tx.from /\ s[i].op \in HandlerOps
  BY <1>1 DEF Stage, Amount, Sender, HandlerOps
<1>3. r \in Known(rq) /\ r \in Reqs
  BY <1>1, <1>2 DEF Typed, Known
<1>4. /\ \A j \in DOMAIN qu : j \in DOMAIN qt /\ qt[j] = qu[j] /\ j < n /\ ~(n < j) /\ j # n
      /\ n \in DOMAIN qt /\ qt[n] = r /\ ~(n < n)
      /\ \A j \in DOMAIN qt : j \in DOMAIN qu \/ j = n
  BY <1>3
<1>5. rq[r].tx.nonce < Due(r, rq, key)
  BY <1>1, <1>2 DEF Chain, Near, NearKey
<1>6. \A j \in DOMAIN s : Stage(t[j]) > 0 => t[j] = s[j] /\ j # i
  BY <1>1, <1>2
<1> HIDE DEF r, n, qt
<1>7. Ordered(t, rq)
  BY <1>1, <1>6 DEF Chain, Ordered
<1>8. Near(t, rq, key)
  <2>1. NearKey(t[i], rq, key)
    BY <1>1, <1>2, <1>5 DEF NearKey, r
  <2> QED BY <1>1, <2>1 DEF Chain, Near
<1>9. QueueBehind(qt, t, rq, key)
  <2>1. \A a \in DOMAIN qt : rq[qt[a]].tx.nonce < Due(qt[a], rq, key)
    BY <1>4, <1>5 DEF Chain, QueueBehind
  <2>2. \A a \in DOMAIN qu : rq[qu[a]].tx.from = rq[r].tx.from => rq[qu[a]].tx.nonce <= rq[r].tx.nonce
    BY <1>1, <1>2 DEF Chain, QueueBehind
  <2>3. ASSUME NEW a \in DOMAIN qt, NEW b \in DOMAIN qt, a < b, rq[qt[a]].tx.from = rq[qt[b]].tx.from
        PROVE  rq[qt[a]].tx.nonce <= rq[qt[b]].tx.nonce
    <3>1. CASE b = n
      BY <1>4, <2>2, <2>3, <3>1
    <3>2. CASE b # n
      <4>1. a \in DOMAIN qu /\ b \in DOMAIN qu /\ qt[a] = qu[a] /\ qt[b] = qu[b]
        BY <1>4, <2>3, <3>2
      <4> QED BY <2>3, <4>1 DEF Chain, QueueBehind
    <3> QED BY <3>1, <3>2
  <2>4. ASSUME NEW a \in DOMAIN qt, NEW j \in DOMAIN t,
               Stage(t[j]) \in {1, 2}, rq[qt[a]].tx.from = Sender(t[j], rq)
        PROVE  rq[qt[a]].tx.nonce <= Amount(t[j], rq)
    <3>1. t[j] = s[j] /\ j # i /\ j \in DOMAIN s
      BY <1>1, <1>6, <2>4
    <3>2. CASE a \in DOMAIN qu
      BY <1>4, <2>4, <3>1, <3>2 DEF Chain, QueueBehind
    <3>3. CASE a = n
      <4>1. Stage(s[j]) = 1 => i < j
        BY <1>1, <3>1, Stages
      <4>2. Stage(s[i]) < Stage(s[j]) \/ (Stage(s[i]) = Stage(s[j]) /\ i < j)
        BY <1>2, <2>4, <3>1, <4>1
      <4>3. Stage(s[i]) > 0 /\ Stage(s[j]) > 0 /\ Sender(s[i], rq) = Sender(s[j], rq)
        BY <1>2, <1>4, <2>4, <3>1, <3>3
      <4>4. Amount(s[i], rq) <= Amount(s[j], rq)
        BY <1>1, <3>1, <4>2, <4>3 DEF Chain, Ordered
      <4> QED BY <1>2, <1>4, <3>1, <3>3, <4>4
    <3> QED BY <1>4, <3>2, <3>3
  <2> QED BY <2>1, <2>3, <2>4 DEF QueueBehind
<1>10. Fresh(t, rq)
  <2> SUFFICES ASSUME NEW a \in DOMAIN s, NEW q \in Reqs, Stage(t[a]) = 4,
                      rq[q].tx.from = Sender(t[a], rq), rq[q].tx.nonce = Amount(t[a], rq)
               PROVE  /\ rq[q].st # "accepted"
                      /\ \A j \in DOMAIN s : t[j].req = q => t[j].op # "rpush" /\ (Stage(t[j]) = 2 => a < j)
    BY <1>1 DEF Fresh
  <2>1. a # i /\ t[a] = s[a]
    BY <1>6
  <2>2. /\ rq[q].st # "accepted"
        /\ \A j \in DOMAIN s : s[j].req = q => s[j].op # "rpush" /\ (Stage(s[j]) = 2 => a < j)
    BY <2>1 DEF Chain, Fresh
  <2> QED BY <1>1, <1>2, <2>2
<1> QED BY <1>1, <1>7, <1>8, <1>9, <1>10 DEF Chain, qt, r

(* The worker's BLPOP takes the head of the queue.                          *)
LEMMA ChainPop ==
    ASSUME NEW s, NEW qu \in Seq(Reqs), qu # <<>>, NEW rq, NEW key, Chain(s, qu, rq, key)
    PROVE  Chain(s, Tail(qu), rq, key)
<1> DEFINE qt == Tail(qu)
<1>1. /\ \A i \in DOMAIN qt : i + 1 \in DOMAIN qu /\ qt[i] = qu[i + 1]
      /\ \A i, j \in DOMAIN qt : i < j <=> i + 1 < j + 1
  OBVIOUS
<1> HIDE DEF qt
<1>2. QueueBehind(qt, s, rq, key)
  BY <1>1 DEF Chain, QueueBehind
<1> QED BY <1>2 DEF Chain, qt

(* Requests come in, are refused or dropped.                                *)
LEMMA ChainSettle ==
    ASSUME NEW s, NEW qu, NEW rq, NEW key, Typed(s, qu, rq, key), Chain(s, qu, rq, key),
           NEW rq2, Known(rq) \subseteq Known(rq2), \A r \in Known(rq) : rq2[r].tx = rq[r].tx,
           \A r \in Reqs : rq2[r].st = "accepted" => rq[r].st = "accepted"
    PROVE  Chain(s, qu, rq2, key) /\ Typed(s, qu, rq2, key)
<1>1. \A i \in DOMAIN s : Stage(s[i]) > 0 \/ s[i].op = "rpush" =>
          /\ s[i].req \in Known(rq) /\ rq2[s[i].req].tx = rq[s[i].req].tx
          /\ Amount(s[i], rq2) = Amount(s[i], rq) /\ Sender(s[i], rq2) = Sender(s[i], rq)
          /\ Due(s[i].req, rq2, key) = Due(s[i].req, rq, key)
  BY Stages DEF Typed, HandlerOps, Amount, Sender, Due
<1>2. \A i \in DOMAIN qu : rq2[qu[i]].tx = rq[qu[i]].tx
  BY DEF Typed
<1>3. Ordered(s, rq2)
  BY <1>1 DEF Chain, Ordered
<1>4. Near(s, rq2, key)
  <2> SUFFICES ASSUME NEW i \in DOMAIN s PROVE NearKey(s[i], rq2, key)
    BY DEF Near
  <2> QED BY <1>1, Stages DEF Chain, Near, NearKey
<1>5. QueueBehind(qu, s, rq2, key)
  BY <1>1, <1>2 DEF Chain, QueueBehind, Due
<1>6. AcceptedBehind(rq2, key)
  BY DEF Chain, AcceptedBehind, Due
<1>7. Fresh(s, rq2)
  <2> SUFFICES ASSUME NEW a \in DOMAIN s, NEW q \in Reqs, Stage(s[a]) = 4,
                      rq2[q].tx.from = Sender(s[a], rq2), rq2[q].tx.nonce = Amount(s[a], rq2)
               PROVE  /\ rq2[q].st # "accepted"
                      /\ \A j \in DOMAIN s : s[j].req = q => s[j].op # "rpush" /\ (Stage(s[j]) = 2 => a < j)
    BY DEF Fresh
  <2>1. CASE q \in Known(rq)
    BY <1>1, <2>1 DEF Chain, Fresh
  <2>2. CASE q \notin Known(rq)
    BY <1>1, <2>2, Stages DEF Chain, AcceptedBehind
  <2> QED BY <2>1, <2>2
<1>8. Typed(s, qu, rq2, key)
  BY DEF Typed
<1> QED BY <1>3, <1>4, <1>5, <1>6, <1>7, <1>8 DEF Chain

(* A request whose RPUSH is confirmed is answered.                          *)
LEMMA ChainAccept ==
    ASSUME NEW s, NEW qu, NEW rq, NEW key, Chain(s, qu, rq, key),
           NEW q \in Known(rq), rq[q].tx.nonce < Due(q, rq, key),
           \A i \in DOMAIN s : Stage(s[i]) = 4 /\ rq[q].tx.from = Sender(s[i], rq)
                                  => rq[q].tx.nonce # Amount(s[i], rq),
           NEW rq2, \A r \in Reqs : /\ rq2[r].tx = rq[r].tx
                                    /\ r # q => rq2[r] = rq[r],
           rq2[q].st = "accepted",
           \A i \in DOMAIN s : s[i].op \in HandlerOps => s[i].req \in Reqs,
           \A i \in DOMAIN qu : qu[i] \in Reqs
    PROVE  Chain(s, qu, rq2, key)
<1>1. \A i \in DOMAIN s : Stage(s[i]) > 0 \/ s[i].op = "rpush" =>
          /\ Amount(s[i], rq2) = Amount(s[i], rq) /\ Sender(s[i], rq2) = Sender(s[i], rq)
          /\ Due(s[i].req, rq2, key) = Due(s[i].req, rq, key)
  BY Stages DEF HandlerOps, Amount, Sender, Due
<1>2. Ordered(s, rq2)
  BY <1>1 DEF Chain, Ordered
<1>3. Near(s, rq2, key)
  <2> SUFFICES ASSUME NEW i \in DOMAIN s PROVE NearKey(s[i], rq2, key)
    BY DEF Near
  <2> QED BY <1>1, Stages DEF Chain, Near, NearKey
<1>4. QueueBehind(qu, s, rq2, key)
  BY <1>1 DEF Chain, QueueBehind, Due
<1>5. AcceptedBehind(rq2, key)
  <2>1. q \in Known(rq2) /\ q \in Reqs
    BY DEF Known
  <2>2. ASSUME NEW r \in Reqs, rq2[r].st = "accepted"
        PROVE  r \in Known(rq2) /\ rq2[r].tx.nonce < Due(r, rq2, key)
    <3>1. Due(r, rq2, key) = Due(r, rq, key)
      BY DEF Due
    <3>2. CASE r = q
      BY <2>1, <3>1, <3>2
    <3>3. CASE r # q
      BY <2>2, <3>1, <3>3 DEF Chain, AcceptedBehind, Known
    <3> QED BY <3>2, <3>3
  <2> QED BY <2>2 DEF AcceptedBehind
<1>6. Fresh(s, rq2)
  <2> SUFFICES ASSUME NEW a \in DOMAIN s, NEW r \in Reqs, Stage(s[a]) = 4,
                      rq2[r].tx.from = Sender(s[a], rq2), rq2[r].tx.nonce = Amount(s[a], rq2)
               PROVE  /\ rq2[r].st # "accepted"
                      /\ \A j \in DOMAIN s : s[j].req = r => s[j].op # "rpush" /\ (Stage(s[j]) = 2 => a < j)
    BY DEF Fresh
  <2>1. rq[r].tx.from = Sender(s[a], rq) /\ rq[r].tx.nonce = Amount(s[a], rq)
    BY <1>1
  <2>2. r # q
    BY <2>1
  <2> QED BY <2>1, <2>2 DEF Chain, Fresh
<1> QED BY <1>2, <1>3, <1>4, <1>5, <1>6 DEF Chain

(* Of two commands of a sender, the one further on stands for the lower     *)
(* nonce.                                                                   *)
LEMMA OrderedPair ==
    ASSUME NEW s, NEW rq, Ordered(s, rq), NEW i \in DOMAIN s, NEW j \in DOMAIN s,
           Stage(s[i]) > 0, Stage(s[j]) > 0, Sender(s[i], rq) = Sender(s[j], rq),
           Stage(s[i]) < Stage(s[j]) \/ (Stage(s[i]) = Stage(s[j]) /\ i < j)
    PROVE  Amount(s[i], rq) <= Amount(s[j], rq)
BY DEF Ordered

(* A handler's GET is answered and it goes on with its SET ...              *)
LEMMA ChainReserve ==
    ASSUME NEW s \in Seq(Cmd), s # <<>>, NEW qu, NEW rq, NEW key, Chain(s, qu, rq, key),
           Head(s).op = "get", Head(s).replied, IsExpected(rq[Head(s).req].tx, Head(s).val),
           NEW c \in Cmd, c.op = "set", ~c.replied, c.req = Head(s).req
    PROVE  Chain(Append(Tail(s), c), qu, rq, key)
<1> DEFINE u == Tail(s)
<1>1. /\ u \in Seq(Cmd) /\ 1 \in DOMAIN s /\ Head(s) = s[1]
      /\ \A i \in DOMAIN u : i + 1 \in DOMAIN s /\ u[i] = s[i + 1] /\ 1 < i + 1
  OBVIOUS
<1>2. Chain(u, qu, rq, key)
  BY ChainTail
<1> HIDE DEF u
<1>3. /\ Stage(s[1]) = 4 /\ Stage(c) = 3
      /\ Amount(c, rq) = Amount(s[1], rq) /\ Sender(c, rq) = Sender(s[1], rq)
  BY <1>1 DEF Stage, Amount, Sender, IsExpected
<1>4. NearKey(c, rq, key)
  <2>1. NearKey(s[1], rq, key) /\ Due(c.req, rq, key) = Due(s[1].req, rq, key)
    BY <1>1 DEF Chain, Near
  <2> QED BY <1>3, <2>1 DEF NearKey
<1>5. ASSUME NEW i \in DOMAIN u, Stage(u[i]) > 0, Sender(u[i], rq) = Sender(c, rq)
      PROVE  /\ Stage(u[i]) <= Stage(c) => Amount(u[i], rq) <= Amount(c, rq)
             /\ Stage(c) < Stage(u[i]) => Amount(c, rq) <= Amount(u[i], rq)
  <2>1. /\ i + 1 \in DOMAIN s /\ u[i] = s[i + 1] /\ 1 < i + 1
        /\ Sender(s[i + 1], rq) = Sender(s[1], rq) /\ Ordered(s, rq)
    BY <1>1, <1>3, <1>5 DEF Chain
  <2>2. ASSUME Stage(u[i]) <= 3 PROVE Amount(u[i], rq) <= Amount(c, rq)
    <3>1. Stage(s[i + 1]) < Stage(s[1])
      BY <1>3, <2>1, <2>2, Stages
    <3>2. Stage(s[i + 1]) > 0 /\ Stage(s[1]) > 0
      BY <1>3, <1>5, <2>1
    <3>3. Amount(s[i + 1], rq) <= Amount(s[1], rq)
      BY <1>1, <2>1, <3>1, <3>2, OrderedPair
    <3>4. Amount(u[i], rq) = Amount(s[i + 1], rq) /\ Amount(c, rq) = Amount(s[1], rq)
      BY <1>3, <2>1
    <3> QED BY <3>3, <3>4
  <2>3. ASSUME 3 < Stage(u[i]) PROVE Amount(c, rq) <= Amount(u[i], rq)
    <3>1. Stage(s[i + 1]) = Stage(s[1])
      BY <1>3, <2>1, <2>3, Stages
    <3>2. Stage(s[i + 1]) > 0 /\ Stage(s[1]) > 0
      BY <1>3, <1>5, <2>1
    <3>3. Amount(s[1], rq) <= Amount(s[i + 1], rq)
      BY <1>1, <2>1, <3>1, <3>2, OrderedPair
    <3>4. Amount(u[i], rq) = Amount(s[i + 1], rq) /\ Amount(c, rq) = Amount(s[1], rq)
      BY <1>3, <2>1
    <3> QED BY <3>3, <3>4
  <2> QED BY <1>3, <2>2, <2>3
<1>6. c.op # "rpush" /\ Stage(c) # 1
  BY <1>3
<1>7. \A i \in DOMAIN u :
         Stage(c) > 0 /\ Stage(u[i]) > 0 /\ Sender(u[i], rq) = Sender(c, rq) =>
            /\ Stage(u[i]) <= Stage(c) => Amount(u[i], rq) <= Amount(c, rq)
            /\ Stage(c) < Stage(u[i]) => Amount(c, rq) <= Amount(u[i], rq)
  BY <1>5
<1> QED BY <1>1, <1>2, <1>4, <1>6, <1>7, ChainAppend DEF u

(* ... its SET is, and it goes on with its RPUSH.                           *)
LEMMA ChainEnqueue ==
    ASSUME NEW s \in Seq(Cmd), s # <<>>, NEW qu, NEW rq, NEW key, Chain(s, qu, rq, key),
           Head(s).op = "set", Head(s).replied, Head(s).req \in Reqs,
           NEW c \in Cmd, c.op = "rpush", ~c.replied, c.req = Head(s).req
    PROVE  Chain(Append(Tail(s), c), qu, rq, key)
<1> DEFINE u == Tail(s)
<1>1. /\ u \in Seq(Cmd) /\ 1 \in DOMAIN s /\ Head(s) = s[1]
      /\ \A i \in DOMAIN u : i + 1 \in DOMAIN s /\ u[i] = s[i + 1] /\ 1 < i + 1 /\ ~(i + 1 < 1)
  OBVIOUS
<1>2. Chain(u, qu, rq, key)
  BY ChainTail
<1> HIDE DEF u
<1>3. /\ Stage(s[1]) = 2 /\ Stage(c) = 1
      /\ Amount(c, rq) = Amount(s[1], rq) /\ Sender(c, rq) = Sender(s[1], rq)
      /\ Amount(c, rq) = rq[c.req].tx.nonce /\ Sender(c, rq) = rq[c.req].tx.from
  BY <1>1 DEF Stage, Amount, Sender
<1>4. NearKey(c, rq, key)
  <2>1. NearKey(s[1], rq, key) /\ Due(c.req, rq, key) = Due(s[1].req, rq, key)
    BY <1>1 DEF Chain, Near
  <2> QED BY <1>3, <2>1 DEF NearKey
<1>5. ASSUME NEW i \in DOMAIN u, Stage(u[i]) > 0, Sender(u[i], rq) = Sender(c, rq)
      PROVE  /\ Stage(u[i]) <= Stage(c) => Amount(u[i], rq) <= Amount(c, rq)
             /\ Stage(c) < Stage(u[i]) => Amount(c, rq) <= Amount(u[i], rq)
  <2>1. /\ i + 1 \in DOMAIN s /\ u[i] = s[i + 1] /\ 1 < i + 1
        /\ Sender(s[i + 1], rq) = Sender(s[1], rq) /\ Ordered(s, rq)
    BY <1>1, <1>3, <1>5 DEF Chain
  <2>2. ASSUME Stage(u[i]) <= 1 PROVE Amount(u[i], rq) <= Amount(c, rq)
    <3>1. Stage(s[i + 1]) < Stage(s[1])
      BY <1>3, <2>1, <2>2, Stages
    <3>2. Stage(s[i + 1]) > 0 /\ Stage(s[1]) > 0
      BY <1>3, <1>5, <2>1
    <3>3. Amount(s[i + 1], rq) <= Amount(s[1], rq)
      BY <1>1, <2>1, <3>1, <3>2, OrderedPair
    <3>4. Amount(u[i], rq) = Amount(s[i + 1], rq) /\ Amount(c, rq) = Amount(s[1], rq)
      BY <1>3, <2>1
    <3> QED BY <3>3, <3>4
  <2>3. ASSUME 1 < Stage(u[i]) PROVE Amount(c, rq) <= Amount(u[i], rq)
    <3>1. Stage(s[1]) < Stage(s[i + 1]) \/ Stage(s[1]) = Stage(s[i + 1])
      BY <1>3, <2>1, <2>3, Stages
    <3>2. Stage(s[i + 1]) > 0 /\ Stage(s[1]) > 0
      BY <1>3, <1>5, <2>1
    <3>3. Amount(s[1], rq) <= Amount(s[i + 1], rq)
      BY <1>1, <2>1, <3>1, <3>2, OrderedPair
    <3>4. Amount(u[i], rq) = Amount(s[i + 1], rq) /\ Amount(c, rq) = Amount(s[1], rq)
      BY <1>3, <2>1
    <3> QED BY <3>3, <3>4
  <2> QED BY <1>3, <2>2, <2>3
<1>6. \A i \in DOMAIN qu : rq[qu[i]].tx.from = Sender(c, rq) => rq[qu[i]].tx.nonce <= Amount(c, rq)
  BY <1>1, <1>3 DEF Chain, QueueBehind
<1>7. \A i \in DOMAIN u : Stage(u[i]) = 4 /\ rq[c.req].tx.from = Sender(u[i], rq)
                             => rq[c.req].tx.nonce # Amount(u[i], rq)
  BY <1>1, <1>3 DEF Chain, Fresh
<1> QED BY <1>1, <1>2, <1>3, <1>4, <1>5, <1>6, <1>7, ChainAppend DEF u

-----------------------------------------------------------------------------
(* The steps of the only process.                                           *)

(* The invariant types what the chain is about.                             *)
LEMMA ChainTyped ==
    ASSUME IInv, NEW p \in Procs
    PROVE  /\ Typed(conn[p], queue, req, nonceKey)
           /\ conn[p] \in Seq(Cmd) /\ DOMAIN conn[p] \subseteq Nat \ {0}
           /\ queue \in Seq(Reqs)
<1>1. queue \in Seq(Reqs) /\ \A i \in DOMAIN queue : queue[i] \in Known(req)
  BY DEF IInv, TypeOK, QueueOK, Taken
<1>2. /\ conn[p] \in Seq(Cmd) /\ DOMAIN conn[p] \subseteq Nat \ {0}
      /\ \A i \in DOMAIN conn[p] : conn[p][i] \in Cmd /\ GoodCommand(conn[p][i], req, reserved)
  BY OfProc
<1>3. nonceKey \in [Senders -> Nat \cup {NoKey}]
  BY DEF IInv, TypeOK
<1> QED BY <1>1, <1>2, <1>3 DEF Typed, GoodCommand

(* A step of Redis keeps the chain of reservations.                         *)
LEMMA RedisOrder ==
    ASSUME IInv, NEW p \in Procs, RedisStep(p), Chain(conn[p], queue, req, nonceKey)
    PROVE  Chain(conn[p], queue, req, nonceKey)'
<1> DEFINE s == conn[p]
           t == conn'[p]
<1>t. /\ Typed(s, queue, req, nonceKey)
      /\ s \in Seq(Cmd) /\ DOMAIN s \subseteq Nat \ {0}
      /\ queue \in Seq(Reqs) /\ conn \in [Procs -> Seq(Cmd)]
  BY ChainTyped, OfProc
<1>a. ASSUME NEW i \in DOMAIN s, NextCommand(p, i), NEW val, NEW item, Reply(p, i, val, item)
      PROVE  AnswersAt(s, i, t) /\ (\A j \in 1..(i - 1) : s[j].replied) /\ t[i].val = val
  <2>1. AnswersAt(s, i, t)
    BY <1>t, <1>a, Answers DEF NextCommand
  <2>2. t[i].val = val
    <3>1. conn' = [conn EXCEPT ![p] = [s EXCEPT ![i] =
                      [s[i] EXCEPT !.replied = TRUE, !.val = val, !.item = item]]]
      BY <1>a DEF Reply
    <3>2. s[i] \in Cmd
      BY <1>t
    <3>3. t[i] = [s[i] EXCEPT !.replied = TRUE, !.val = val, !.item = item]
      BY <1>t, <3>1
    <3> QED BY <3>2, <3>3 DEF Cmd
  <2> QED BY <1>a, <2>1, <2>2 DEF NextCommand
<1>1. CASE RedisGet(p)
  <2>1. PICK i \in DOMAIN s :
          /\ NextCommand(p, i) /\ s[i].op = "get"
          /\ Reply(p, i, nonceKey[req[s[i].req].tx.from], NoReq)
          /\ UNCHANGED <<queue, req, nonceKey>>
    BY <1>1 DEF RedisGet, redis
  <2>2. /\ AnswersAt(s, i, t) /\ (\A j \in 1..(i - 1) : s[j].replied)
        /\ t[i].val = nonceKey[req[s[i].req].tx.from]
    BY <1>a, <2>1
  <2> HIDE DEF s, t
  <2>3. Chain(t, queue, req, nonceKey)
    BY <1>t, <2>1, <2>2, ChainGet DEF s
  <2> QED BY <2>1, <2>3 DEF t
<1>2. CASE RedisSet(p)
  <2>1. PICK i \in DOMAIN s :
          /\ NextCommand(p, i) /\ s[i].op = "set"
          /\ nonceKey' = [nonceKey EXCEPT ![req[s[i].req].tx.from] = req[s[i].req].tx.nonce + 1]
          /\ Reply(p, i, NoKey, NoReq)
          /\ UNCHANGED <<queue, req>>
    BY <1>2 DEF RedisSet, NextNonce
  <2>2. AnswersAt(s, i, t) /\ (\A j \in 1..(i - 1) : s[j].replied)
    BY <1>a, <2>1
  <2> HIDE DEF s, t
  <2>3. Chain(t, queue, req, nonceKey')
    BY <1>t, <2>1, <2>2, ChainSet DEF s
  <2> QED BY <2>1, <2>3 DEF t
<1>3. CASE RedisRpush(p)
  <2>1. PICK i \in DOMAIN s :
          /\ NextCommand(p, i) /\ s[i].op = "rpush"
          /\ queue' = Append(queue, s[i].req)
          /\ Reply(p, i, NoKey, NoReq)
          /\ UNCHANGED <<nonceKey, req>>
    BY <1>3 DEF RedisRpush
  <2>2. AnswersAt(s, i, t) /\ (\A j \in 1..(i - 1) : s[j].replied)
    BY <1>a, <2>1
  <2> HIDE DEF s, t
  <2>3. Chain(t, Append(queue, s[i].req), req, nonceKey)
    BY <1>t, <2>1, <2>2, ChainRpush DEF s
  <2> QED BY <2>1, <2>3 DEF t
<1>4. CASE RedisBlpop(p)
  <2>1. PICK i \in DOMAIN s :
          /\ NextCommand(p, i) /\ s[i].op = "blpop"
          /\ queue # <<>> /\ queue' = Tail(queue)
          /\ Reply(p, i, NoKey, Head(queue))
          /\ UNCHANGED <<nonceKey, req>>
    BY <1>4 DEF RedisBlpop
  <2>2. AnswersAt(s, i, t) /\ (\A j \in 1..(i - 1) : s[j].replied)
    BY <1>a, <2>1
  <2> HIDE DEF s, t
  <2>3. Chain(t, queue, req, nonceKey)
    BY <1>t, <2>1, <2>2, ChainMute DEF s
  <2>4. Chain(t, Tail(queue), req, nonceKey)
    BY <1>t, <2>1, <2>3, ChainPop
  <2> QED BY <2>1, <2>4 DEF t
<1>5. CASE RedisBlpopTimeout(p) \/ RedisSnapshot(p)
  <2>1. PICK i \in DOMAIN s :
          /\ NextCommand(p, i) /\ s[i].op \in {"blpop", "snapshot"}
          /\ Reply(p, i, NoKey, NoReq)
          /\ UNCHANGED <<queue, nonceKey, req>>
    BY <1>5 DEF RedisBlpopTimeout, RedisSnapshot, redis
  <2>2. AnswersAt(s, i, t) /\ (\A j \in 1..(i - 1) : s[j].replied)
    BY <1>a, <2>1
  <2> HIDE DEF s, t
  <2>3. Chain(t, queue, req, nonceKey)
    BY <1>t, <2>1, <2>2, ChainMute DEF s
  <2> QED BY <2>1, <2>3 DEF t
<1> QED BY <1>1, <1>2, <1>3, <1>4, <1>5 DEF RedisStep

(* Handlers and the worker.                                                 *)
LEMMA CodeOrder ==
    ASSUME IInv, NEW p \in Procs, HandlerStep(p) \/ WorkerStep(p),
           Chain(conn[p], queue, req, nonceKey)
    PROVE  Chain(conn[p], queue, req, nonceKey)'
<1> DEFINE s == conn[p]
           h == Head(s)
<1>t. /\ Typed(s, queue, req, nonceKey) /\ s \in Seq(Cmd) /\ queue \in Seq(Reqs)
      /\ conn \in [Procs -> Seq(Cmd)]
      /\ \A i \in DOMAIN s : s[i].op \in HandlerOps => s[i].req \in Reqs
      /\ s # <<>> => 1 \in DOMAIN s /\ h = s[1]
      /\ req \in [Reqs -> [st : ReqStates, tx : Txs \cup {NoTx}, at : Procs \cup {NoReq}]]
  BY ChainTyped, OfProc
<1>u. s # <<>> => Tail(s) \in Seq(Cmd) /\ Chain(Tail(s), queue, req, nonceKey)
  BY <1>t, ChainTail
<1>1. CASE ReserveNonce(p)
  <2> DEFINE c == Command("set", h.req)
  <2>1. /\ s # <<>> /\ h.op = "get" /\ h.replied /\ IsExpected(req[h.req].tx, h.val)
        /\ conn'[p] = Append(Tail(s), c) /\ UNCHANGED <<queue, req, nonceKey>>
    BY <1>1, <1>t DEF ReserveNonce, Answered, DeliverAndIssue, redis
  <2>2. c \in Cmd /\ c.op = "set" /\ ~c.replied /\ c.req = h.req
    BY <1>t, <2>1, CommandTyped DEF HandlerOps, Ops
  <2> HIDE DEF c
  <2>3. Chain(Append(Tail(s), c), queue, req, nonceKey)
    BY <1>t, <2>1, <2>2, ChainReserve
  <2> QED BY <2>1, <2>3
<1>2. CASE Enqueue(p)
  <2> DEFINE c == Command("rpush", h.req)
  <2>1. /\ s # <<>> /\ h.op = "set" /\ h.replied
        /\ conn'[p] = Append(Tail(s), c) /\ UNCHANGED <<queue, req, nonceKey>>
    BY <1>2, <1>t DEF Enqueue, Answered, DeliverAndIssue, redis
  <2>2. /\ c \in Cmd /\ c.op = "rpush" /\ ~c.replied /\ c.req = h.req
        /\ h.req \in Reqs
    BY <1>t, <2>1, CommandTyped DEF HandlerOps, Ops
  <2> HIDE DEF c
  <2>3. Chain(Append(Tail(s), c), queue, req, nonceKey)
    BY <1>t, <2>1, <2>2, ChainEnqueue
  <2> QED BY <2>1, <2>3
<1>3. CASE RejectNonce(p)
  <2>1. /\ s # <<>> /\ h.op = "get" /\ req' = [req EXCEPT ![h.req].st = "badNonce"]
        /\ conn'[p] = Tail(s) /\ UNCHANGED <<queue, nonceKey>>
    BY <1>3, <1>t DEF RejectNonce, Answered, Deliver, redis
  <2>2. h.req \in Reqs /\ Typed(Tail(s), queue, req, nonceKey)
    BY <1>t, <2>1 DEF HandlerOps, Typed
  <2>3. /\ Known(req) \subseteq Known(req') /\ \A r \in Known(req) : req'[r].tx = req[r].tx
        /\ \A r \in Reqs : req'[r].st = "accepted" => req[r].st = "accepted"
    BY <1>t, <2>1, <2>2 DEF Known
  <2>4. Chain(Tail(s), queue, req', nonceKey)
    BY <1>u, <2>1, <2>2, <2>3, ChainSettle
  <2> QED BY <2>1, <2>4
<1>4. CASE Respond(p)
  <2>1. /\ s # <<>> /\ h.op = "rpush" /\ h.replied
        /\ req' = [req EXCEPT ![h.req].st = "accepted"]
        /\ conn'[p] = Tail(s) /\ UNCHANGED <<queue, nonceKey>>
    BY <1>4, <1>t DEF Respond, Answered, Deliver, redis
  <2>2. /\ h.req \in Known(req) /\ h.req \in Reqs
        /\ req[h.req].tx.nonce < Due(h.req, req, nonceKey)
    <3>1. NearKey(h, req, nonceKey)
      BY <1>t, <2>1 DEF Chain, Near
    <3> QED BY <1>t, <2>1, <3>1 DEF Typed, HandlerOps, NearKey, Amount
  <2>3. \A i \in DOMAIN Tail(s) : i + 1 \in DOMAIN s /\ Tail(s)[i] = s[i + 1]
    BY <1>t, <2>1
  <2>4. \A i \in DOMAIN Tail(s) :
            Stage(Tail(s)[i]) = 4 /\ req[h.req].tx.from = Sender(Tail(s)[i], req)
                => req[h.req].tx.nonce # Amount(Tail(s)[i], req)
    BY <1>t, <2>1, <2>2, <2>3 DEF Chain, Fresh
  <2>5. /\ \A r \in Reqs : req'[r].tx = req[r].tx /\ (r # h.req => req'[r] = req[r])
        /\ req'[h.req].st = "accepted"
    BY <1>t, <2>1, <2>2
  <2>6. /\ \A i \in DOMAIN Tail(s) : Tail(s)[i].op \in HandlerOps => Tail(s)[i].req \in Reqs
        /\ \A i \in DOMAIN queue : queue[i] \in Reqs
    BY <1>t, <2>3
  <2>7. Chain(Tail(s), queue, req', nonceKey)
    BY <1>u, <2>1, <2>2, <2>4, <2>5, <2>6, ChainAccept
  <2> QED BY <2>1, <2>7
<1>5. CASE Dequeue(p)
  <2> DEFINE c == Command("blpop", NoReq)
  <2>1. conn'[p] = Append(s, c) /\ UNCHANGED <<queue, req, nonceKey>>
    BY <1>5, <1>t DEF Dequeue, Issue, redis
  <2>2. c \in Cmd /\ ~c.replied /\ c.op = "blpop"
    BY CommandTyped DEF Ops
  <2> HIDE DEF c
  <2>3. Chain(Append(s, c), queue, req, nonceKey)
    BY <1>t, <2>2, ChainIdle
  <2> QED BY <2>1, <2>3
<1>6. CASE PopNothing(p) \/ ReadSnapshot(p)
  <2>1. s # <<>> /\ conn'[p] = Tail(s) /\ UNCHANGED <<queue, req, nonceKey>>
    BY <1>6, <1>t DEF PopNothing, ReadSnapshot, Answered, Deliver, redis
  <2> QED BY <1>u, <2>1
<1>7. CASE PopJob(p)
  <2> DEFINE c == Command("snapshot", NoReq)
  <2>1. s # <<>> /\ conn'[p] = Append(Tail(s), c) /\ UNCHANGED <<queue, req, nonceKey>>
    BY <1>7, <1>t DEF PopJob, Answered, DeliverAndIssue, redis
  <2>2. c \in Cmd /\ ~c.replied /\ c.op = "snapshot"
    BY CommandTyped DEF Ops
  <2> HIDE DEF c
  <2>3. Chain(Append(Tail(s), c), queue, req, nonceKey)
    BY <1>u, <2>1, <2>2, ChainIdle
  <2> QED BY <2>1, <2>3
<1>8. CASE Simulate(p) \/ Guard(p) \/ BroadcastPrimary(p) \/ BroadcastRelay(p) \/ BroadcastRetry(p)
  <2>1. UNCHANGED <<conn, queue, req, nonceKey>>
    BY <1>8 DEF Simulate, Guard, BroadcastPrimary, BroadcastRelay, BroadcastRetry, redis
  <2> QED BY <2>1
<1> QED BY <1>1, <1>2, <1>3, <1>4, <1>5, <1>6, <1>7, <1>8 DEF HandlerStep, WorkerStep

(* An empty connection keeps it too.                                        *)
LEMMA ChainEmpty ==
    ASSUME NEW s, NEW qu, NEW rq, NEW key, Chain(s, qu, rq, key)
    PROVE  Chain(<<>>, qu, rq, key)
<1>1. DOMAIN <<>> = {}
  OBVIOUS
<1>2. Prefix(<<>>) /\ Ordered(<<>>, rq) /\ Near(<<>>, rq, key) /\ Fresh(<<>>, rq)
  BY <1>1 DEF Prefix, Ordered, Near, Fresh
<1>3. QueueBehind(qu, <<>>, rq, key)
  BY <1>1 DEF Chain, QueueBehind
<1> QED BY <1>2, <1>3 DEF Chain

(* The order of one process alone holds at the start.                       *)
LEMMA OrderInit ==
    ASSUME NEW p, Procs = {p}, Init
    PROVE  OrderOK(p)
<1>1. conn[p] = <<>> /\ queue = <<>> /\ \A r \in Reqs : req[r].st = "new"
  BY DEF Init
<1>2. DOMAIN conn[p] = {} /\ DOMAIN queue = {}
  BY <1>1
<1>3. /\ Prefix(conn[p]) /\ Ordered(conn[p], req) /\ Near(conn[p], req, nonceKey)
      /\ Fresh(conn[p], req)
  BY <1>2 DEF Prefix, Ordered, Near, Fresh
<1>4. QueueBehind(queue, conn[p], req, nonceKey) /\ AcceptedBehind(req, nonceKey)
  BY <1>1, <1>2 DEF QueueBehind, AcceptedBehind
<1> QED BY <1>3, <1>4 DEF Chain, OrderOK

(* Every step of one process alone keeps it.                                *)
LEMMA OrderStep ==
    ASSUME IInv, NEW p, Procs = {p}, OrderOK(p), [Next]_vars
    PROVE  OrderOK(p)'
<1>t. /\ Typed(conn[p], queue, req, nonceKey) /\ conn[p] \in Seq(Cmd)
      /\ conn \in [Procs -> Seq(Cmd)]
      /\ req \in [Reqs -> [st : ReqStates, tx : Txs \cup {NoTx}, at : Procs \cup {NoReq}]]
  BY ChainTyped, OfProc
<1>f. faults \in [crash : Nat, drop : Nat, expiry : Nat]
  BY DEF IInv, TypeOK
<1> SUFFICES ASSUME Calmly' PROVE Chain(conn[p], queue, req, nonceKey)'
  BY DEF OrderOK
<1>1. CASE ProcStep(p)
  <2>1. faults' = faults
    BY <1>1 DEF ProcStep, RedisStep, RedisGet, RedisSet, RedisRpush, RedisBlpop, RedisBlpopTimeout,
        RedisSnapshot, HandlerStep, ReserveNonce, RejectNonce, Enqueue, Respond, WorkerStep, Dequeue,
        PopNothing, PopJob, ReadSnapshot, Simulate, Guard, BroadcastPrimary, BroadcastRelay, BroadcastRetry
  <2>2. Chain(conn[p], queue, req, nonceKey)
    BY <2>1 DEF OrderOK, Calmly
  <2> QED BY <1>1, <2>2, RedisOrder, CodeOrder DEF ProcStep
<1>2. ASSUME NEW r \in Reqs, NEW tx \in Txs, Receive(p, r, tx)
      PROVE  Chain(conn[p], queue, req, nonceKey)'
  <2> DEFINE c == Command("get", r)
  <2>1. /\ req[r].st = "new" /\ faults' = faults
        /\ req' = [req EXCEPT ![r] = [st |-> "open", tx |-> tx, at |-> p]]
        /\ conn'[p] = Append(conn[p], c) /\ UNCHANGED <<queue, nonceKey>>
    BY <1>2, <1>t DEF Receive, Issue, redis
  <2>2. c \in Cmd /\ ~c.replied /\ c.op = "get"
    BY CommandTyped DEF Ops
  <2> HIDE DEF c
  <2>3. Chain(conn[p], queue, req, nonceKey)
    BY <2>1 DEF OrderOK, Calmly
  <2>4. /\ Known(req) \subseteq Known(req') /\ \A q \in Known(req) : req'[q].tx = req[q].tx
        /\ \A q \in Reqs : req'[q].st = "accepted" => req[q].st = "accepted"
    BY <1>t, <2>1 DEF Known
  <2>5. Chain(conn[p], queue, req', nonceKey)
    BY <1>t, <2>3, <2>4, ChainSettle
  <2>6. Chain(Append(conn[p], c), queue, req', nonceKey)
    BY <1>t, <2>2, <2>5, ChainIdle
  <2> QED BY <2>1, <2>6
<1>3. ASSUME NEW x \in Senders, Expire(x) PROVE FALSE
  BY <1>3, <1>f DEF Expire, Calmly
<1>4. CASE Drop(p) \/ SnapshotFails(p)
  BY <1>4, <1>f DEF Drop, SnapshotFails, Calmly
<1>5. CASE Crash(p)
  <2>1. /\ faults'.drop = faults.drop /\ faults'.expiry = faults.expiry
        /\ conn'[p] = <<>> /\ UNCHANGED <<queue, nonceKey>>
        /\ req' = [r \in Reqs |-> IF req[r].st = "open" /\ req[r].at = p
                                  THEN [req[r] EXCEPT !.st = "dropped"] ELSE req[r]]
    BY <1>5, <1>f, <1>t DEF Crash, Down, redis
  <2>2. Chain(conn[p], queue, req, nonceKey)
    BY <2>1 DEF OrderOK, Calmly
  <2>3. \A q \in Reqs : /\ req'[q].tx = req[q].tx
                        /\ req'[q].st = req[q].st \/ req'[q].st = "dropped"
    BY <1>t, <2>1
  <2>4. /\ Known(req) \subseteq Known(req') /\ \A q \in Known(req) : req'[q].tx = req[q].tx
        /\ \A q \in Reqs : req'[q].st = "accepted" => req[q].st = "accepted"
    BY <2>3 DEF Known
  <2>5. Chain(conn[p], queue, req', nonceKey)
    BY <1>t, <2>2, <2>4, ChainSettle
  <2> QED BY <2>1, <2>5, ChainEmpty
<1>6. CASE Restart(p) \/ (\E tx \in Txs : RelayForwards(tx)) \/ UNCHANGED vars
  <2>1. UNCHANGED <<conn, queue, req, nonceKey, faults>>
    BY <1>6 DEF Restart, RelayForwards, vars, redis
  <2> QED BY <2>1 DEF OrderOK, Calmly
<1> QED BY <1>1, <1>2, <1>3, <1>4, <1>5, <1>6 DEF Next

(* engine/queue: with one process, the worker meets a sender's transactions *)
(* in nonce order as long as no connection breaks and no key expires,       *)
(* crashes and restarts included.                                           *)
THEOREM QueueInNonceOrderAlone ==
    ASSUME NEW p, Procs = {p}
    PROVE  Spec => []QueueInNonceOrder
<1>1. Init => IInv /\ OrderOK(p)
  BY InitInv, OrderInit
<1>2. IInv /\ OrderOK(p) /\ [Next]_vars => (IInv /\ OrderOK(p))'
  BY StepInv, OrderStep
<1>3. OrderOK(p) => QueueInNonceOrder
  BY DEF OrderOK, Calmly, Chain, QueueBehind, QueueInNonceOrder
<1> QED BY <1>1, <1>2, <1>3, PTL DEF Spec

(* utils/nonce.ts: with one process the next expected nonce of a sender     *)
(* never moves back within its key's lifetime on an unbroken connection.    *)
THEOREM NonceNeverRewindsAlone ==
    ASSUME NEW p, Procs = {p}
    PROVE  Spec => NonceNeverRewinds
<1> DEFINE Step == \A s \in Senders :
        (faults.expiry + faults.drop = 0 /\ nonceKey'[s] # NoKey) => nonceKey'[s] >= nonceKey[s]
<1>1. Init => IInv /\ OrderOK(p)
  BY InitInv, OrderInit
<1>2. IInv /\ OrderOK(p) /\ [Next]_vars => (IInv /\ OrderOK(p))'
  BY StepInv, OrderStep
<1>3. IInv /\ OrderOK(p) /\ [Next]_vars => [Step]_vars
  <2> SUFFICES ASSUME IInv, OrderOK(p), [Next]_vars, NEW x \in Senders,
                      faults.expiry + faults.drop = 0, nonceKey'[x] # NoKey
               PROVE  nonceKey'[x] >= nonceKey[x]
    OBVIOUS
  <2>1. Chain(conn[p], queue, req, nonceKey) /\ nonceKey \in [Senders -> Nat \cup {NoKey}]
    BY DEF OrderOK, Calmly, IInv, TypeOK
  <2>2. CASE RedisSet(p)
    <3>1. PICK i \in DOMAIN conn[p] :
            /\ ~conn[p][i].replied /\ conn[p][i].op = "set"
            /\ nonceKey' = [nonceKey EXCEPT ![req[conn[p][i].req].tx.from] = req[conn[p][i].req].tx.nonce + 1]
      BY <2>2 DEF RedisSet, NextCommand, NextNonce
    <3> DEFINE r == conn[p][i].req
    <3>2. /\ Stage(conn[p][i]) = 3 /\ Amount(conn[p][i], req) = req[r].tx.nonce
          /\ conn[p][i].op \in HandlerOps
      BY <3>1 DEF Stage, Amount, HandlerOps
    <3>3. r \in Known(req)
      BY <3>2, ChainTyped DEF Typed
    <3>4. req[r].tx.from \in Senders /\ req[r].tx.nonce \in Nat /\ Due(r, req, nonceKey) \in Nat
      BY <2>1, <3>3, DueTyped
    <3>5. Due(r, req, nonceKey) - 1 <= req[r].tx.nonce
      BY <2>1, <3>2 DEF Chain, Near, NearKey
    <3>6. nonceKey[req[r].tx.from] <= Due(r, req, nonceKey)
      <4>1. nonceKey[req[r].tx.from] \in Nat \cup {NoKey}
        BY <2>1, <3>4
      <4> QED BY <4>1 DEF Due, Expected, NoKey
    <3>7. nonceKey[x] \in Int /\ nonceKey[req[r].tx.from] \in Int
      BY <2>1, <3>4 DEF NoKey
    <3> HIDE DEF r
    <3>8. CASE x = req[r].tx.from
      <4>1. nonceKey'[x] = req[r].tx.nonce + 1
        BY <2>1, <3>1, <3>8 DEF r
      <4> QED BY <3>4, <3>5, <3>6, <3>7, <3>8, <4>1
    <3>9. CASE x # req[r].tx.from
      BY <2>1, <3>1, <3>7, <3>9 DEF r
    <3> QED BY <3>8, <3>9
  <2>3. CASE ~RedisSet(p)
    <3>1. nonceKey' = nonceKey \/ \E s \in Senders : Expire(s)
      BY <2>3 DEF Next, ProcStep, RedisStep, RedisGet, RedisRpush, RedisBlpop, RedisBlpopTimeout,
        RedisSnapshot, HandlerStep, ReserveNonce, RejectNonce, Enqueue, Respond, WorkerStep, Dequeue,
        PopNothing, PopJob, ReadSnapshot, Simulate, Guard, BroadcastPrimary, BroadcastRelay,
        BroadcastRetry, Receive, Drop, Crash, SnapshotFails, Restart, RelayForwards, vars, redis
    <3>2. nonceKey[x] \in Int
      BY <2>1 DEF NoKey
    <3>3. ASSUME NEW s \in Senders, Expire(s) PROVE nonceKey'[x] = nonceKey[x]
      BY <2>1, <3>3 DEF Expire
    <3> QED BY <3>1, <3>2, <3>3
  <2> QED BY <2>2, <2>3
<1> QED BY <1>1, <1>2, <1>3, PTL DEF Spec, NonceNeverRewinds

(* A SET that goes out while its GET's reply is delivered is the handler's. *)
LEMMA TakesReserves ==
    ASSUME IInv, OnceOK, faults.drop = 0, NEW p, Procs = {p}, [Next]_vars,
           NEW r \in Reqs, Takes(p, r)
    PROVE  IsExpected(req[r].tx, Head(conn[p]).val)
<1> DEFINE s == conn[p]
           t == conn'[p]
<1>t. /\ s \in Seq(Cmd) /\ conn \in [Procs -> Seq(Cmd)]
  BY OfProc
<1>1. /\ s # <<>> /\ 1 \in DOMAIN s /\ Head(s) = s[1]
      /\ s[1].op = "get" /\ s[1].req = r /\ s[1].replied
      /\ Len(s) \in DOMAIN s
  BY <1>t DEF Takes, Answered
<1>2. t # <<>> /\ t[Len(t)].op = "set" /\ t[Len(t)].req = r
  BY DEF Takes, Command
<1>3. ASSUME NEW j \in DOMAIN s, s[j].op = "set", s[j].req = r PROVE FALSE
  BY <1>1, <1>3 DEF OnceOK, Single, Before
<1>4. CASE ReserveNonce(p)
  BY <1>1, <1>4 DEF ReserveNonce
<1>5. CASE RedisStep(p)
  <2>1. PICK i \in DOMAIN s : NextCommand(p, i) /\ \E val, item : Reply(p, i, val, item)
    BY <1>5 DEF RedisStep, RedisGet, RedisSet, RedisRpush, RedisBlpop, RedisBlpopTimeout, RedisSnapshot
  <2>2. AnswersAt(s, i, t)
    BY <1>t, <2>1, Answers DEF NextCommand
  <2>3. DOMAIN t = DOMAIN s /\ t \in Seq(Cmd) /\ \A j \in DOMAIN s : t[j].op = s[j].op /\ t[j].req = s[j].req
    <3>1. t \in Seq(Cmd)
      BY StepInv, OfProc DEF IInv, TypeOK
    <3> QED BY <2>2, <3>1 DEF AnswersAt
  <2>4. Len(t) \in DOMAIN s
    BY <1>2, <2>3
  <2> QED BY <1>2, <1>3, <2>3, <2>4
<1>6. CASE \E q \in Cmd : q.op # "set" /\ (t = Append(s, q) \/ t = Append(Tail(s), q))
  <2>1. PICK q \in Cmd : q.op # "set" /\ (t = Append(s, q) \/ t = Append(Tail(s), q))
    BY <1>6
  <2>2. t[Len(t)] = q
    BY <1>t, <1>1, <2>1
  <2> QED BY <1>2, <2>1, <2>2
<1>7. CASE t = Tail(s) \/ t = s
  <2>1. CASE t = Tail(s)
    <3>1. t[Len(t)] = s[Len(s)]
      BY <1>t, <1>1, <1>2, <2>1
    <3> QED BY <1>1, <1>2, <1>3, <3>1
  <2>2. CASE t = s
    BY <1>1, <1>2, <1>3, <2>2
  <2> QED BY <1>7, <2>1, <2>2
<1>8. CASE Drop(p)
  <2>1. t = [i \in DOMAIN s |-> Command(s[i].op, s[i].req)]
    BY <1>t, <1>8 DEF Drop
  <2>2. Len(t) = Len(s) /\ t[Len(t)].op = s[Len(s)].op /\ t[Len(t)].req = s[Len(s)].req
    <3>1. t \in Seq(Cmd)
      BY StepInv DEF IInv, TypeOK
    <3>2. DOMAIN s = 1..Len(s) /\ DOMAIN t = 1..Len(t) /\ DOMAIN t = DOMAIN s
      BY <1>t, <2>1, <3>1
    <3>3. Len(s) \in Nat /\ Len(t) \in Nat
      BY <1>t, <3>1
    <3>4. Len(t) = Len(s)
      BY <1>1, <3>2, <3>3
    <3> QED BY <1>1, <2>1, <3>4 DEF Command
  <2> QED BY <1>1, <1>2, <1>3, <2>2
<1>9. CASE Crash(p) \/ SnapshotFails(p)
  BY <1>2, <1>9, <1>t DEF Crash, Down, SnapshotFails
<1>10. CASE Dequeue(p)
  <2>1. Command("blpop", NoReq) \in Cmd /\ Command("blpop", NoReq).op # "set"
    BY CommandTyped DEF Ops
  <2>2. t = Append(s, Command("blpop", NoReq))
    BY <1>10, <1>t DEF Dequeue, Issue
  <2> QED BY <1>6, <2>1, <2>2
<1>11. ASSUME NEW q \in Reqs, NEW tx \in Txs, Receive(p, q, tx) PROVE FALSE
  <2>1. Command("get", q) \in Cmd /\ Command("get", q).op # "set"
    BY CommandTyped DEF Ops
  <2>2. t = Append(s, Command("get", q))
    BY <1>11, <1>t DEF Receive, Issue
  <2>3. t[Len(t)] = Command("get", q)
    BY <1>t, <2>1, <2>2
  <2> QED BY <1>2, <2>1, <2>3
<1>12. CASE RejectNonce(p) \/ Enqueue(p) \/ Respond(p) \/ PopNothing(p) \/ PopJob(p) \/ ReadSnapshot(p)
  <2>1. RejectNonce(p)
    BY <1>1, <1>12 DEF Enqueue, Respond, PopNothing, PopJob, ReadSnapshot, Answered
  <2>2. t = Tail(s)
    BY <1>t, <2>1 DEF RejectNonce, Deliver
  <2> QED BY <1>7, <2>2
<1>13. CASE \/ Simulate(p) \/ Guard(p) \/ BroadcastPrimary(p) \/ BroadcastRelay(p) \/ BroadcastRetry(p)
            \/ (\E x \in Senders : Expire(x)) \/ (\E tx \in Txs : RelayForwards(tx))
            \/ Restart(p) \/ UNCHANGED vars
  <2>1. t = s
    BY <1>13 DEF Simulate, Guard, BroadcastPrimary, BroadcastRelay, BroadcastRetry, Expire,
        RelayForwards, Restart, vars
  <2> QED BY <1>7, <2>1
<1> QED BY <1>4, <1>5, <1>8, <1>9, <1>10, <1>11, <1>12, <1>13
    DEF Next, ProcStep, HandlerStep, WorkerStep

(* utils/nonce.ts: with one process, the nonce of a request that was        *)
(* answered "0xqueued" is not taken again within the key's lifetime on an   *)
(* unbroken connection; only requests that overlap can share a nonce.       *)
THEOREM NoReplayOfAnsweredAlone ==
    ASSUME NEW one, Procs = {one}
    PROVE  Spec => NoReplayOfAnswered
<1> DEFINE Step == \A p \in Procs, r, q \in Reqs :
        (faults.expiry + faults.drop = 0 /\ Takes(p, r) /\ r # q /\ SameNonce(r, q))
            => req[q].st # "accepted"
<1>1. Init => EntriesInv /\ OrderOK(one)
  BY EntriesInit, OrderInit DEF EntriesInv
<1>2. EntriesInv /\ OrderOK(one) /\ [Next]_vars => (EntriesInv /\ OrderOK(one))'
  BY EntriesStep, OrderStep DEF EntriesInv
<1>3. EntriesInv /\ OrderOK(one) /\ [Next]_vars => [Step]_vars
  <2> SUFFICES ASSUME EntriesInv, OrderOK(one), [Next]_vars, NEW r \in Reqs, NEW q \in Reqs,
                      faults.expiry + faults.drop = 0, Takes(one, r), SameNonce(r, q)
               PROVE  req[q].st # "accepted"
    OBVIOUS
  <2> DEFINE s == conn[one]
  <2>1. IInv /\ OnceOK /\ faults.drop = 0 /\ Chain(s, queue, req, nonceKey)
    BY DEF EntriesInv, IInv, TypeOK, OrderOK, Calmly
  <2>2. 1 \in DOMAIN s /\ Head(s) = s[1] /\ s[1].op = "get" /\ s[1].req = r /\ s[1].replied
    BY <2>1, OfProc DEF Takes, Answered
  <2>3. IsExpected(req[r].tx, s[1].val)
    BY <2>1, <2>2, TakesReserves
  <2>4. /\ Stage(s[1]) = 4 /\ Sender(s[1], req) = req[q].tx.from
        /\ Amount(s[1], req) = req[q].tx.nonce
    BY <2>2, <2>3 DEF Stage, Sender, Amount, IsExpected, SameNonce
  <2> QED BY <2>1, <2>2, <2>4 DEF Chain, Fresh
<1> QED BY <1>1, <1>2, <1>3, PTL DEF Spec, NoReplayOfAnswered

-----------------------------------------------------------------------------
(* What the worker has taken from the list, or shown a provider, stays      *)
(* ahead of what is on the list and on its way there.                       *)
Ahead(r, s, qu, rq, key) ==
    /\ r \in Known(rq) /\ rq[r].tx.nonce < Due(r, rq, key)
    /\ \A i \in DOMAIN qu : rq[r].tx.from = rq[qu[i]].tx.from => rq[r].tx.nonce <= rq[qu[i]].tx.nonce
    /\ \A i \in DOMAIN s : Stage(s[i]) \in {1, 2} /\ rq[r].tx.from = Sender(s[i], rq)
          => rq[r].tx.nonce <= Amount(s[i], rq)

Offered == {r \in Reqs : shown[r] # {}}
Held(p) == HeldBy(conn[p], worker[p])

OfferOK(p) ==
    Calmly =>
        /\ \A r \in Held(p) \cup Offered : Ahead(r, conn[p], queue, req, nonceKey)
        /\ \A r \in Offered, q \in Held(p) :
              req[r].tx.from = req[q].tx.from => req[r].tx.nonce <= req[q].tx.nonce

(* How a connection grows: an RPUSH or an answered SET comes from a SET.     *)
Follows(s, s2) ==
    \A i \in DOMAIN s2 : Stage(s2[i]) \in {1, 2} =>
        \E j \in DOMAIN s : Stage(s[j]) \in {1, 2, 3} /\ s2[i].req = s[j].req

(* The queue grows from RPUSHes.                                            *)
Feeds(s, qu, qu2) ==
    \A i \in DOMAIN qu2 : \/ \E j \in DOMAIN qu : qu2[i] = qu[j]
                          \/ \E j \in DOMAIN s : Stage(s[j]) = 1 /\ qu2[i] = s[j].req

(* What is ahead stays ahead.                                               *)
LEMMA AheadGrows ==
    ASSUME NEW s, NEW qu, NEW rq, NEW key, Typed(s, qu, rq, key), Near(s, rq, key),
           NEW s2, NEW qu2, NEW rq2, NEW key2, Follows(s, s2), Feeds(s, qu, qu2),
           Known(rq) \subseteq Known(rq2), \A q \in Known(rq) : rq2[q].tx = rq[q].tx,
           \A q \in Known(rq) : Due(q, rq, key) <= Due(q, rq, key2) /\ Due(q, rq, key2) \in Nat,
           NEW r, Ahead(r, s, qu, rq, key)
    PROVE  Ahead(r, s2, qu2, rq2, key2)
<1>1. /\ r \in Known(rq) /\ rq2[r].tx = rq[r].tx /\ rq[r].tx.nonce \in Nat
      /\ Due(r, rq, key) \in Nat /\ rq[r].tx.nonce < Due(r, rq, key)
      /\ Due(r, rq2, key2) = Due(r, rq, key2)
  BY DueTyped DEF Ahead, Typed, Due
<1>2. r \in Known(rq2) /\ rq2[r].tx.nonce < Due(r, rq2, key2)
  BY <1>1
<1>3. ASSUME NEW j \in DOMAIN s, Stage(s[j]) \in {1, 2, 3}, rq[r].tx.from = rq[s[j].req].tx.from
      PROVE  rq[r].tx.nonce <= rq[s[j].req].tx.nonce
  <2>1. /\ s[j].op \in HandlerOps /\ s[j].op # "get" /\ s[j].req \in Known(rq)
        /\ Amount(s[j], rq) = rq[s[j].req].tx.nonce /\ Sender(s[j], rq) = rq[s[j].req].tx.from
        /\ Amount(s[j], rq) \in Nat
    BY <1>3, Stages, AmountTyped DEF Sender
  <2>2. CASE Stage(s[j]) \in {1, 2}
    BY <1>3, <2>1, <2>2 DEF Ahead
  <2>3. CASE Stage(s[j]) = 3
    <3>1. Due(s[j].req, rq, key) - 1 <= Amount(s[j], rq) /\ Due(s[j].req, rq, key) = Due(r, rq, key)
      BY <1>3, <2>1, <2>3 DEF Near, NearKey, Due
    <3> QED BY <1>1, <2>1, <3>1
  <2> QED BY <1>3, <2>2, <2>3
<1>4. \A j \in DOMAIN s : Stage(s[j]) \in {1, 2, 3} => s[j].req \in Known(rq) /\ rq2[s[j].req].tx = rq[s[j].req].tx
  BY Stages DEF Typed
<1>5. ASSUME NEW i \in DOMAIN qu2, rq2[r].tx.from = rq2[qu2[i]].tx.from
      PROVE  rq2[r].tx.nonce <= rq2[qu2[i]].tx.nonce
  <2>1. CASE \E j \in DOMAIN qu : qu2[i] = qu[j]
    <3>1. PICK j \in DOMAIN qu : qu2[i] = qu[j]
      BY <2>1
    <3>2. rq2[qu[j]].tx = rq[qu[j]].tx
      BY DEF Typed
    <3> QED BY <1>1, <1>5, <3>1, <3>2 DEF Ahead
  <2>2. CASE \E j \in DOMAIN s : Stage(s[j]) = 1 /\ qu2[i] = s[j].req
    BY <1>1, <1>3, <1>4, <1>5, <2>2
  <2> QED BY <2>1, <2>2 DEF Feeds
<1>6. ASSUME NEW i \in DOMAIN s2, Stage(s2[i]) \in {1, 2}, rq2[r].tx.from = Sender(s2[i], rq2)
      PROVE  rq2[r].tx.nonce <= Amount(s2[i], rq2)
  <2>1. PICK j \in DOMAIN s : Stage(s[j]) \in {1, 2, 3} /\ s2[i].req = s[j].req
    BY <1>6 DEF Follows
  <2>2. Amount(s2[i], rq2) = rq[s[j].req].tx.nonce /\ Sender(s2[i], rq2) = rq[s[j].req].tx.from
    BY <1>4, <1>6, <2>1, Stages DEF Amount, Sender
  <2> QED BY <1>1, <1>3, <1>6, <2>1, <2>2
<1> QED BY <1>2, <1>5, <1>6 DEF Ahead

(* The head of the list is.                                                 *)
LEMMA HeadAhead ==
    ASSUME NEW s, NEW qu \in Seq(Reqs), qu # <<>>, NEW rq, NEW key, Typed(s, qu, rq, key),
           QueueBehind(qu, s, rq, key)
    PROVE  Ahead(Head(qu), s, qu, rq, key)
<1>1. 1 \in DOMAIN qu /\ Head(qu) = qu[1] /\ \A i \in DOMAIN qu : i = 1 \/ 1 < i
  OBVIOUS
<1>2. qu[1] \in Known(rq) /\ rq[qu[1]].tx.nonce \in Nat
  BY <1>1, DueTyped DEF Typed
<1>3. \A i \in DOMAIN qu : rq[qu[1]].tx.from = rq[qu[i]].tx.from => rq[qu[1]].tx.nonce <= rq[qu[i]].tx.nonce
  BY <1>1, <1>2 DEF QueueBehind
<1> QED BY <1>1, <1>2, <1>3 DEF Ahead, QueueBehind

(* The ways a step changes a connection.                                    *)
LEMMA FollowsShapes ==
    ASSUME NEW s \in Seq(Cmd)
    PROVE  /\ Follows(s, s) /\ Follows(s, <<>>)
           /\ s # <<>> => Follows(s, Tail(s))
           /\ \A c \in Cmd : (\/ Stage(c) \notin {1, 2}
                              \/ s # <<>> /\ Stage(Head(s)) = 2 /\ c.req = Head(s).req) =>
                 /\ Follows(s, Append(s, c))
                 /\ s # <<>> => Follows(s, Append(Tail(s), c))
           /\ \A i, t : AnswersAt(s, i, t) => Follows(s, t)
<1>1. Follows(s, s)
  BY DEF Follows
<1>2. Follows(s, <<>>)
  BY DEF Follows
<1>3. ASSUME s # <<>> PROVE Follows(s, Tail(s))
  <2>1. \A i \in DOMAIN Tail(s) : i + 1 \in DOMAIN s /\ Tail(s)[i] = s[i + 1]
    BY <1>3
  <2> QED BY <2>1 DEF Follows
<1>4. ASSUME NEW c \in Cmd, \/ Stage(c) \notin {1, 2}
                            \/ s # <<>> /\ Stage(Head(s)) = 2 /\ c.req = Head(s).req,
             NEW t \in Seq(Cmd), Follows(s, t)
      PROVE  Follows(s, Append(t, c))
  <2>1. \A i \in DOMAIN Append(t, c) : (i \in DOMAIN t /\ Append(t, c)[i] = t[i]) \/ Append(t, c)[i] = c
    OBVIOUS
  <2>2. s # <<>> => 1 \in DOMAIN s /\ Head(s) = s[1]
    OBVIOUS
  <2>3. Stage(c) \in {1, 2} => \E j \in DOMAIN s : Stage(s[j]) \in {1, 2, 3} /\ c.req = s[j].req
    BY <1>4, <2>2
  <2> QED BY <1>4, <2>1, <2>3 DEF Follows
<1>5. ASSUME NEW i, NEW t, AnswersAt(s, i, t) PROVE Follows(s, t)
  <2>1. \A j \in DOMAIN s : Stage(t[j]) \in {1, 2} => Stage(s[j]) \in {1, 2, 3} /\ t[j].req = s[j].req
    BY <1>5 DEF AnswersAt, Stage
  <2> QED BY <1>5, <2>1 DEF Follows, AnswersAt
<1>6. s # <<>> => Tail(s) \in Seq(Cmd)
  OBVIOUS
<1> QED BY <1>1, <1>2, <1>3, <1>4, <1>5, <1>6

(* What a step of the only process changes for what is ahead.               *)
LEMMA StepFollows ==
    ASSUME IInv, NEW p, Procs = {p}, OrderOK(p), [Next]_vars, Calmly'
    PROVE  /\ Calmly /\ Follows(conn[p], conn'[p]) /\ Feeds(conn[p], queue, queue')
           /\ \A q \in Known(req) : Due(q, req, nonceKey) <= Due(q, req, nonceKey')
<1> DEFINE s == conn[p]
           t == conn'[p]
<1>t. /\ Typed(s, queue, req, nonceKey) /\ s \in Seq(Cmd) /\ conn \in [Procs -> Seq(Cmd)]
      /\ s # <<>> => 1 \in DOMAIN s /\ Head(s) = s[1]
      /\ \A i \in DOMAIN s : s[i].op \in HandlerOps => s[i].req \in Reqs
      /\ queue \in Seq(Reqs) /\ nonceKey \in [Senders -> Nat \cup {NoKey}]
  BY ChainTyped, OfProc DEF IInv, TypeOK
<1>f. faults \in [crash : Nat, drop : Nat, expiry : Nat]
  BY DEF IInv, TypeOK
<1> DEFINE KeyUp == \A q \in Known(req) : Due(q, req, nonceKey) <= Due(q, req, nonceKey')
           Fed == Feeds(s, queue, queue')
<1>k. nonceKey' = nonceKey => KeyUp
  BY <1>t, DueTyped
<1>q. queue' = queue => Fed
  BY DEF Feeds
<1>a. ASSUME NEW i \in DOMAIN s, NextCommand(p, i), NEW val, NEW item, Reply(p, i, val, item)
      PROVE  Follows(s, t)
  BY <1>t, <1>a, Answers, FollowsShapes DEF NextCommand
<1>s. /\ t = s \/ t = <<>> => Follows(s, t)
      /\ s # <<>> /\ t = Tail(s) => Follows(s, t)
  BY <1>t, FollowsShapes
<1>c. ASSUME NEW op \in Ops, NEW r \in Reqs \cup {NoReq},
             op # "rpush" \/ (s # <<>> /\ Stage(Head(s)) = 2 /\ r = Head(s).req),
             t = Append(s, Command(op, r)) \/ (s # <<>> /\ t = Append(Tail(s), Command(op, r)))
      PROVE  Follows(s, t)
  <2> DEFINE c == Command(op, r)
  <2>1. c \in Cmd /\ ~c.replied /\ c.op = op /\ c.req = r
    BY CommandTyped
  <2>2. Stage(c) \notin {1, 2} \/ (s # <<>> /\ Stage(Head(s)) = 2 /\ c.req = Head(s).req)
    BY <1>c, <2>1, Stages
  <2> HIDE DEF c
  <2>3. Follows(s, Append(s, c)) /\ (s # <<>> => Follows(s, Append(Tail(s), c)))
    BY <1>t, <2>1, <2>2, FollowsShapes
  <2> QED BY <1>c, <2>3 DEF c
<1> HIDE DEF KeyUp, Fed, s, t
<1>1. CASE RedisSet(p)
  <2>1. PICK i \in DOMAIN s :
          /\ NextCommand(p, i) /\ s[i].op = "set" /\ ~s[i].replied
          /\ nonceKey' = [nonceKey EXCEPT ![req[s[i].req].tx.from] = req[s[i].req].tx.nonce + 1]
          /\ Reply(p, i, NoKey, NoReq) /\ UNCHANGED <<queue, faults>>
    BY <1>1 DEF RedisSet, NextNonce, NextCommand, s
  <2> DEFINE r == s[i].req
  <2>2. Calmly /\ Chain(s, queue, req, nonceKey)
    BY <2>1 DEF Calmly, OrderOK, s
  <2>3. Stage(s[i]) = 3 /\ Amount(s[i], req) = req[r].tx.nonce /\ s[i].op \in HandlerOps
    BY <2>1 DEF Stage, Amount, HandlerOps
  <2>4. /\ r \in Known(req) /\ req[r].tx.from \in Senders /\ req[r].tx.nonce \in Nat
        /\ Due(r, req, nonceKey) \in Nat /\ Due(r, req, nonceKey) - 1 <= req[r].tx.nonce
    BY <1>t, <2>2, <2>3, DueTyped DEF Typed, Chain, Near, NearKey
  <2> HIDE DEF r
  <2>5. ASSUME NEW q \in Known(req) PROVE Due(q, req, nonceKey) <= Due(q, req, nonceKey')
    <3>1. Due(q, req, nonceKey) \in Nat /\ req[q].tx.from \in Senders
      BY <1>t, DueTyped
    <3>2. CASE req[q].tx.from = req[r].tx.from
      <4>1. nonceKey'[req[q].tx.from] = req[r].tx.nonce + 1
        BY <1>t, <2>1, <2>4, <3>2 DEF r
      <4>2. Due(q, req, nonceKey') = req[r].tx.nonce + 1 /\ Due(q, req, nonceKey) = Due(r, req, nonceKey)
        BY <2>4, <3>2, <4>1 DEF Due, Expected, NoKey
      <4> QED BY <2>4, <4>2
    <3>3. CASE req[q].tx.from # req[r].tx.from
      <4>1. nonceKey'[req[q].tx.from] = nonceKey[req[q].tx.from]
        BY <1>t, <2>1, <3>1, <3>3 DEF r
      <4> QED BY <3>1, <4>1 DEF Due
    <3> QED BY <3>2, <3>3
  <2> QED BY <1>a, <1>q, <2>1, <2>2, <2>5 DEF KeyUp, Fed, s, t
<1>2. CASE RedisRpush(p)
  <2>1. PICK i \in DOMAIN s :
          /\ NextCommand(p, i) /\ s[i].op = "rpush" /\ ~s[i].replied
          /\ queue' = Append(queue, s[i].req)
          /\ Reply(p, i, NoKey, NoReq) /\ UNCHANGED <<nonceKey, faults>>
    BY <1>2 DEF RedisRpush, NextCommand, s
  <2>2. Stage(s[i]) = 1 /\ s[i].req \in Reqs
    BY <1>t, <2>1 DEF Stage, HandlerOps
  <2>3. \A j \in DOMAIN queue' : (j \in DOMAIN queue /\ queue'[j] = queue[j]) \/ queue'[j] = s[i].req
    BY <1>t, <2>1, <2>2
  <2>4. Fed
    BY <2>2, <2>3 DEF Fed, Feeds
  <2> QED BY <1>a, <1>k, <2>1, <2>4 DEF Calmly, KeyUp, Fed, s, t
<1>3. CASE RedisBlpop(p)
  <2>1. PICK i \in DOMAIN s :
          /\ NextCommand(p, i) /\ queue # <<>> /\ queue' = Tail(queue)
          /\ Reply(p, i, NoKey, Head(queue)) /\ UNCHANGED <<nonceKey, faults>>
    BY <1>3 DEF RedisBlpop, s
  <2>2. \A j \in DOMAIN queue' : j + 1 \in DOMAIN queue /\ queue'[j] = queue[j + 1]
    BY <1>t, <2>1
  <2>3. Fed
    BY <2>2 DEF Fed, Feeds
  <2> QED BY <1>a, <1>k, <2>1, <2>3 DEF Calmly, KeyUp, Fed, s, t
<1>4. CASE RedisGet(p) \/ RedisBlpopTimeout(p) \/ RedisSnapshot(p)
  <2>1. PICK i \in DOMAIN s : NextCommand(p, i) /\ \E val, item : Reply(p, i, val, item)
    BY <1>4 DEF RedisGet, RedisBlpopTimeout, RedisSnapshot, s
  <2>2. UNCHANGED <<queue, nonceKey, faults>>
    BY <1>4 DEF RedisGet, RedisBlpopTimeout, RedisSnapshot, redis
  <2> QED BY <1>a, <1>k, <1>q, <2>1, <2>2 DEF Calmly, KeyUp, Fed, s, t
<1>5. ASSUME UNCHANGED <<queue, nonceKey>>, Follows(s, t),
             faults'.drop = faults.drop /\ faults'.expiry = faults.expiry
      PROVE  Calmly /\ Follows(s, t) /\ Fed /\ KeyUp
  BY <1>k, <1>q, <1>5 DEF Calmly
<1>6. CASE ReserveNonce(p) \/ Enqueue(p)
  <2>1. /\ s # <<>> /\ UNCHANGED <<queue, nonceKey, faults>>
        /\ \/ Head(s).op = "get" /\ t = Append(Tail(s), Command("set", Head(s).req))
           \/ Head(s).op = "set" /\ Head(s).replied /\ t = Append(Tail(s), Command("rpush", Head(s).req))
    BY <1>6, <1>t DEF ReserveNonce, Enqueue, Answered, DeliverAndIssue, redis, s, t
  <2>2. Head(s).req \in Reqs /\ {"set", "rpush"} \subseteq Ops
    BY <1>t, <2>1 DEF HandlerOps, Ops
  <2>3. Head(s).op = "set" /\ Head(s).replied => Stage(Head(s)) = 2
    BY DEF Stage
  <2>4. Follows(s, t)
    BY <1>c, <2>1, <2>2, <2>3
  <2> QED BY <1>5, <2>1, <2>4 DEF KeyUp, Fed, s, t
<1>7. CASE RejectNonce(p) \/ Respond(p) \/ PopNothing(p) \/ ReadSnapshot(p)
  <2>1. s # <<>> /\ t = Tail(s) /\ UNCHANGED <<queue, nonceKey, faults>>
    BY <1>7, <1>t DEF RejectNonce, Respond, PopNothing, ReadSnapshot, Answered, Deliver, redis, s, t
  <2> QED BY <1>5, <1>s, <2>1 DEF KeyUp, Fed, s, t
<1>8. CASE Dequeue(p) \/ PopJob(p) \/ \E r \in Reqs, tx \in Txs : Receive(p, r, tx)
  <2>1. /\ UNCHANGED <<queue, nonceKey, faults>>
        /\ \/ t = Append(s, Command("blpop", NoReq))
           \/ s # <<>> /\ t = Append(Tail(s), Command("snapshot", NoReq))
           \/ \E r \in Reqs : t = Append(s, Command("get", r))
    BY <1>8, <1>t DEF Dequeue, PopJob, Receive, Answered, DeliverAndIssue, Issue, redis, s, t
  <2>2. {"blpop", "snapshot", "get"} \subseteq Ops
    BY DEF Ops
  <2>3. Follows(s, t)
    BY <1>c, <2>1, <2>2
  <2> QED BY <1>5, <2>1, <2>3 DEF KeyUp, Fed, s, t
<1>9. CASE \/ Simulate(p) \/ Guard(p) \/ BroadcastPrimary(p) \/ BroadcastRelay(p) \/ BroadcastRetry(p)
           \/ Restart(p) \/ (\E tx \in Txs : RelayForwards(tx)) \/ UNCHANGED vars
  <2>1. UNCHANGED <<conn, queue, nonceKey, faults>>
    BY <1>9 DEF Simulate, Guard, BroadcastPrimary, BroadcastRelay, BroadcastRetry, Restart,
        RelayForwards, redis, vars
  <2> QED BY <1>5, <1>s, <2>1 DEF KeyUp, Fed, s, t
<1>10. CASE Crash(p)
  <2>1. /\ faults'.drop = faults.drop /\ faults'.expiry = faults.expiry
        /\ t = <<>> /\ UNCHANGED <<queue, nonceKey>>
    BY <1>10, <1>f, <1>t DEF Crash, Down, redis, t
  <2> QED BY <1>5, <1>s, <2>1 DEF KeyUp, Fed, s, t
<1>11. ASSUME Drop(p) \/ SnapshotFails(p) \/ \E x \in Senders : Expire(x) PROVE FALSE
  BY <1>11, <1>f DEF Drop, SnapshotFails, Expire, Calmly
<1> QED BY <1>1, <1>2, <1>3, <1>4, <1>6, <1>7, <1>8, <1>9, <1>10, <1>11
    DEF Next, ProcStep, RedisStep, HandlerStep, WorkerStep

(* A provider is offered only the job in hand, and then the worker holds    *)
(* nothing else.                                                            *)
LEMMA OffersJob ==
    ASSUME IInv, NEW p, Procs = {p}, [Next]_vars
    PROVE  \/ Offered' = Offered
           \/ /\ Offered' \subseteq Offered \cup Held(p)
              /\ \E r : Held(p) \subseteq {r} /\ Held(p)' \subseteq {r}
<1>1. CASE shown' = shown
  BY <1>1 DEF Offered
<1>2. CASE BroadcastPrimary(p) \/ BroadcastRelay(p) \/ BroadcastRetry(p)
  <2> DEFINE r == worker[p].job
  <2>1. /\ worker[p].pc \in Broadcasting /\ conn' = conn
        /\ \E provider \in Providers : shown' = [shown EXCEPT ![r] = @ \cup {provider}]
        /\ worker'[p].job \in {r, NoReq}
    <3>1. worker \in [Procs -> [pc : WorkerStates, job : Reqs \cup {NoReq}]]
      BY OfProc
    <3>2. /\ worker[p].pc \in Broadcasting /\ conn' = conn
          /\ \E provider \in Providers : shown' = [shown EXCEPT ![r] = @ \cup {provider}]
          /\ (\E pc : GoTo(p, pc)) \/ (\E o : Finish(p, o))
      BY <1>2 DEF BroadcastPrimary, BroadcastRelay, BroadcastRetry, Broadcasting, BroadcastSingle,
         Succeeds, AfterPrimary, Providers
    <3>3. worker'[p].job \in {r, NoReq}
      BY <3>1, <3>2 DEF GoTo, Finish
    <3> QED BY <3>2, <3>3
  <2>2. r \in Reqs /\ r # NoReq /\ Items(conn[p]) = {}
    <3>1. \A i \in DOMAIN conn[p] : conn[p][i].op # "blpop"
      BY <2>1, OfProc DEF WaitsFor, Broadcasting
    <3> QED BY <2>1, <3>1, OfProc DEF Items, Broadcasting, Working
  <2>3. Held(p) = {r} /\ Held(p)' \subseteq {r}
    BY <2>1, <2>2 DEF Held, HeldBy
  <2>4. Offered' \subseteq Offered \cup {r}
    <3>1. shown \in [Reqs -> SUBSET Providers]
      BY DEF IInv, TypeOK
    <3> QED BY <2>1, <2>2, <3>1 DEF Offered
  <2> QED BY <2>3, <2>4
<1>3. CASE ~(BroadcastPrimary(p) \/ BroadcastRelay(p) \/ BroadcastRetry(p))
  <2>1. shown' = shown
    BY <1>3 DEF Next, ProcStep, RedisStep, RedisGet, RedisSet, RedisRpush, RedisBlpop,
        RedisBlpopTimeout, RedisSnapshot, HandlerStep, ReserveNonce, RejectNonce, Enqueue, Respond,
        WorkerStep, Dequeue, PopNothing, PopJob, ReadSnapshot, Simulate, Guard, Receive, Expire,
        RelayForwards, Drop, Crash, SnapshotFails, Restart, history, vars
  <2> QED BY <1>1, <2>1
<1> QED BY <1>2, <1>3

(* What the worker holds came from the head of the list.                    *)
LEMMA HoldsHead ==
    ASSUME IInv, JobFree, NEW p, Procs = {p}, [Next]_vars, Calmly'
    PROVE  Held(p)' \subseteq Held(p) \cup (IF queue = <<>> THEN {} ELSE {Head(queue)})
<1>f. faults' \in [crash : Nat, drop : Nat, expiry : Nat]
  BY StepInv DEF IInv, TypeOK
<1>1. ASSUME Keeps(p) PROVE Held(p)' \subseteq Held(p) \cup (IF queue = <<>> THEN {} ELSE {Head(queue)})
  <2>1. faults'.drop = 0
    BY <1>f DEF Calmly
  <2> QED BY <1>1, <2>1 DEF Keeps, Calm, Pushes, Pops, Opens, Held
<1>2. CASE ProcStep(p)
  BY <1>1, <1>2, RedisMoves, HandlerMoves, WorkerStepMoves DEF ProcStep
<1>3. CASE \E r \in Reqs, tx \in Txs : Receive(p, r, tx)
  BY <1>1, <1>3, ReceiveMoves
<1>4. CASE Drop(p) \/ Crash(p) \/ SnapshotFails(p) \/ Restart(p)
  BY <1>1, <1>4, FaultMoves
<1>5. CASE (\E x \in Senders : Expire(x)) \/ (\E tx \in Txs : RelayForwards(tx)) \/ UNCHANGED vars
  <2>1. conn' = conn /\ worker' = worker
    BY <1>5 DEF Expire, RelayForwards, vars
  <2> QED BY <2>1 DEF Held
<1> QED BY <1>2, <1>3, <1>4, <1>5 DEF Next

(* Nothing is offered at the start.                                         *)
LEMMA OfferInit ==
    ASSUME NEW p, Procs = {p}, Init
    PROVE  OfferOK(p)
<1>1. conn[p] = <<>> /\ worker[p].job = NoReq /\ \A r \in Reqs : shown[r] = {}
  BY DEF Init, StartedWorker
<1>2. Held(p) = {} /\ Offered = {}
  BY <1>1, NoneOfEmpty DEF Held, HeldBy, Offered
<1> QED BY <1>2 DEF OfferOK

(* A request keeps its transaction.                                         *)
LEMMA ReqsGrow ==
    ASSUME IInv, NEW p, Procs = {p}, [Next]_vars
    PROVE  Known(req) \subseteq Known(req') /\ \A q \in Known(req) : req'[q].tx = req[q].tx
<1>t. /\ req \in [Reqs -> [st : ReqStates, tx : Txs \cup {NoTx}, at : Procs \cup {NoReq}]]
      /\ \A i \in DOMAIN conn[p] : conn[p][i].op \in HandlerOps => conn[p][i].req \in Reqs
      /\ conn[p] # <<>> => 1 \in DOMAIN conn[p] /\ Head(conn[p]) = conn[p][1]
  BY OfProc
<1>1. ASSUME \A q \in Reqs : req[q].st # "new" => req'[q].st # "new" /\ req'[q].tx = req[q].tx
      PROVE  Known(req) \subseteq Known(req') /\ \A q \in Known(req) : req'[q].tx = req[q].tx
  BY <1>1 DEF Known
<1>2. CASE RejectNonce(p) \/ Respond(p)
  <2> DEFINE r == Head(conn[p]).req
  <2>1. r \in Reqs /\ (req' = [req EXCEPT ![r].st = "badNonce"] \/ req' = [req EXCEPT ![r].st = "accepted"])
    BY <1>2, <1>t DEF RejectNonce, Respond, Answered, HandlerOps
  <2> HIDE DEF r
  <2> QED BY <1>t, <1>1, <2>1
<1>3. CASE \E r \in Reqs, tx \in Txs : Receive(p, r, tx)
  BY <1>t, <1>1, <1>3 DEF Receive
<1>4. CASE Crash(p)
  BY <1>t, <1>1, <1>4 DEF Crash, Down
<1>5. CASE req' = req
  BY <1>5
<1> QED BY <1>2, <1>3, <1>4, <1>5 DEF Next, ProcStep, RedisStep, RedisGet, RedisSet, RedisRpush,
        RedisBlpop, RedisBlpopTimeout, RedisSnapshot, HandlerStep, ReserveNonce, Enqueue,
        WorkerStep, Dequeue, PopNothing, PopJob, ReadSnapshot, Simulate, Guard, BroadcastPrimary,
        BroadcastRelay, BroadcastRetry, Expire, RelayForwards, Drop, SnapshotFails, Restart, vars

(* Every step keeps what is held or was offered ahead of the rest.          *)
LEMMA OfferStep ==
    ASSUME IInv, JobFree, NEW p, Procs = {p}, OrderOK(p), OfferOK(p), [Next]_vars
    PROVE  OfferOK(p)'
<1> SUFFICES ASSUME Calmly'
             PROVE  /\ \A r \in Held(p)' \cup Offered' : Ahead(r, conn'[p], queue', req', nonceKey')
                    /\ \A r \in Offered', q \in Held(p)' :
                          req'[r].tx.from = req'[q].tx.from => req'[r].tx.nonce <= req'[q].tx.nonce
  BY DEF OfferOK
<1> DEFINE A(r) == Ahead(r, conn[p], queue, req, nonceKey)
           Heads == IF queue = <<>> THEN {} ELSE {Head(queue)}
<1>1. /\ Calmly /\ Follows(conn[p], conn'[p]) /\ Feeds(conn[p], queue, queue')
      /\ \A q \in Known(req) : Due(q, req, nonceKey) <= Due(q, req, nonceKey')
  BY StepFollows
<1>2. /\ Chain(conn[p], queue, req, nonceKey)
      /\ \A r \in Held(p) \cup Offered : A(r)
      /\ \A r \in Offered, q \in Held(p) :
            req[r].tx.from = req[q].tx.from => req[r].tx.nonce <= req[q].tx.nonce
  BY <1>1 DEF OrderOK, OfferOK
<1>3. Typed(conn[p], queue, req, nonceKey) /\ queue \in Seq(Reqs)
  BY ChainTyped
<1>4. \A r \in Heads : A(r)
  BY <1>2, <1>3, HeadAhead DEF Chain
<1>5. /\ Known(req) \subseteq Known(req') /\ \A q \in Known(req) : req'[q].tx = req[q].tx
  BY ReqsGrow
<1>6. \A q \in Known(req) : Due(q, req, nonceKey') \in Nat
  <2>1. nonceKey' \in [Senders -> Nat \cup {NoKey}]
    BY StepInv DEF IInv, TypeOK
  <2> QED BY <2>1, DueTyped
<1>7. ASSUME NEW r, A(r) PROVE Ahead(r, conn'[p], queue', req', nonceKey')
  BY <1>1, <1>2, <1>3, <1>5, <1>6, <1>7, AheadGrows DEF Chain
<1>8. Held(p)' \subseteq Held(p) \cup Heads
  BY HoldsHead
<1>9. \A r : A(r) => r \in Known(req) /\ req'[r].tx = req[r].tx /\ req[r].tx.nonce \in Nat
  BY <1>3, <1>5, DueTyped DEF Ahead, Typed
<1>10. ASSUME NEW r \in Offered, NEW q \in Heads, req[r].tx.from = req[q].tx.from
       PROVE  req[r].tx.nonce <= req[q].tx.nonce
  <2>1. 1 \in DOMAIN queue /\ q = queue[1]
    BY <1>3
  <2> QED BY <1>2, <1>10, <2>1 DEF Ahead
<1> HIDE DEF A, Heads
<1>11. CASE Offered' = Offered
  <2>1. \A r \in Held(p)' \cup Offered' : A(r)
    BY <1>2, <1>4, <1>8, <1>11
  <2>2. ASSUME NEW r \in Offered', NEW q \in Held(p)', req'[r].tx.from = req'[q].tx.from
        PROVE  req'[r].tx.nonce <= req'[q].tx.nonce
    BY <1>2, <1>8, <1>9, <1>10, <1>11, <2>1, <2>2
  <2> QED BY <1>7, <2>1, <2>2
<1>12. CASE /\ Offered' \subseteq Offered \cup Held(p)
            /\ \E r : Held(p) \subseteq {r} /\ Held(p)' \subseteq {r}
  <2>1. PICK job : Held(p) \subseteq {job} /\ Held(p)' \subseteq {job}
    BY <1>12
  <2>2. \A r \in Held(p)' \cup Offered' : A(r)
    BY <1>2, <1>4, <1>8, <1>12
  <2>3. ASSUME NEW r \in Offered', NEW q \in Held(p)', req'[r].tx.from = req'[q].tx.from
        PROVE  req'[r].tx.nonce <= req'[q].tx.nonce
    <3>1. A(r) /\ A(q) /\ q = job
      BY <2>1, <2>2
    <3>2. CASE r = job
      BY <1>9, <3>1, <3>2
    <3>3. CASE r # job
      <4>1. r \in Offered
        BY <1>12, <2>1, <3>3
      <4>2. CASE q \in Held(p)
        BY <1>2, <1>9, <2>3, <3>1, <4>1, <4>2
      <4>3. CASE q \in Heads
        BY <1>9, <1>10, <2>3, <3>1, <4>1, <4>3
      <4> QED BY <1>8, <4>2, <4>3
    <3> QED BY <3>2, <3>3
  <2> QED BY <1>7, <2>2, <2>3
<1> QED BY <1>11, <1>12, OffersJob

(* engine/worker: with one process, a provider is offered a sender's        *)
(* transaction only when no lower nonce of that sender is left on the list  *)
(* or with the worker, crashes and restarts included, as long as no         *)
(* connection breaks and no key expires.                                    *)
THEOREM OfferedInOrderAlone ==
    ASSUME NEW p, Procs = {p}
    PROVE  Spec => []OfferedInOrder
<1> DEFINE Inv == EntriesInv /\ OrderOK(p) /\ OfferOK(p)
<1>1. Init => Inv
  BY EntriesInit, OrderInit, OfferInit
<1>2. Inv /\ [Next]_vars => Inv'
  BY EntriesStep, OrderStep, OfferStep DEF EntriesInv, AccountOK
<1>3. Inv => OfferedInOrder
  <2> SUFFICES ASSUME Inv, Calmly, NEW r \in Reqs, NEW q \in InPipeline, shown[r] # {},
                      req[r].tx.from = req[q].tx.from
               PROVE  req[r].tx.nonce <= req[q].tx.nonce
    BY DEF OfferedInOrder, Calmly
  <2>1. r \in Offered /\ Held(p) = Delivering(p) \cup InHand(p)
    BY DEF Offered, Held, HeldBy, Items, Delivering, InHand
  <2>2. q \in Held(p) \/ \E i \in DOMAIN queue : q = queue[i]
    BY <2>1 DEF InPipeline, Queued
  <2> QED BY <2>1, <2>2 DEF OfferOK, Ahead
<1> QED BY <1>1, <1>2, <1>3, PTL DEF Spec
=============================================================================
