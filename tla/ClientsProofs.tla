---------------------------- MODULE ClientsProofs ----------------------------
(***************************************************************************)
(* Theorems about the clients of an account, and about the page that the   *)
(* front end's user meets, for any number of wallet requests, SDK calls,   *)
(* transactions, prices and moves of others.                               *)
(***************************************************************************)
EXTENDS Clients, Page, TLAPS

AnyKind == Kinds \union Methods \union {"none"}
TxType == [kind : AnyKind, arg : Nat, status : Statuses, paid : Nat, shown : Nat]
RequestType == [id : Nat, kind : Kinds, arg : Nat, shown : Nat]

-----------------------------------------------------------------------------
(* The account.  Transactions are mined in order, so an approval that took  *)
(* effect came before every transaction still in the pool; the allowance    *)
(* never exceeds what such an approval showed.                              *)
InOrder ==
    \A i, j \in DOMAIN txs : txs[i].status # "pool" /\ txs[j].status = "pool" => i < j

NoncesSpent == \A i \in DOMAIN txs : Did(i, {"swap"}) => txs[i].arg < chain["nonce"]

Agreed(kind, arg, shown) == kind = "approveBuy" => arg <= shown
ApprovalsShown == \A i \in DOMAIN txs : Agreed(txs[i].kind, txs[i].arg, txs[i].shown)

AllowanceAgreed ==
    chain["buyAllowance"] > 0 =>
        \E a \in DOMAIN txs : Did(a, {"approveBuy"}) /\ chain["buyAllowance"] <= txs[a].shown

AInv ==
    /\ chain \in [Reads -> Nat] /\ txs \in Seq(TxType) /\ others \in 0..MaxOthers
    /\ InOrder /\ NoncesSpent /\ ApprovalsShown /\ AllowanceAgreed
    /\ OneSwapPerNonce /\ BuyerConsent

(* The page.  While nobody took the mutation over, the newest request is    *)
(* the delegate trade's if its ref is set.                                  *)
FollowsDelegate ==
    "delegateSwap" \in refs /\ ~takenOver =>
        \A q \in requests : q.id = write.request => q.kind = "delegateSwap"

DInv ==
    /\ DappTypeOK
    /\ requests \subseteq RequestType
    /\ \A q \in requests : Agreed(q.kind, q.arg, q.shown)
    /\ FollowsDelegate /\ DelegateResultTold

(* The program.  A call past its send has its transaction, and one past its *)
(* receipt has it mined.                                                    *)
SInv ==
    /\ SdkTypeOK
    /\ \A c \in Calls :
          /\ call[c].step \in {"wait", "read", "returned"} => call[c].tx \in DOMAIN txs
          /\ call[c].step \in {"read", "returned"} => txs[call[c].tx].status = "ok"

CInv == AInv /\ DInv /\ SInv

-----------------------------------------------------------------------------
(* The account's steps.                                                     *)

(* Replacing one element of a sequence.                                     *)
LEMMA ReplaceInSeq ==
    ASSUME NEW S, NEW s \in Seq(S), NEW i \in DOMAIN s, NEW x \in S
    PROVE  /\ [s EXCEPT ![i] = x] \in Seq(S) /\ DOMAIN [s EXCEPT ![i] = x] = DOMAIN s
           /\ [s EXCEPT ![i] = x][i] = x
           /\ \A j \in DOMAIN s : j # i => [s EXCEPT ![i] = x][j] = s[j]
OBVIOUS

(* The fields of a transaction on its way.                                  *)
LEMMA TxTypes ==
    ASSUME NEW s \in Seq(TxType), NEW i \in DOMAIN s
    PROVE  s[i] \in TxType /\ s[i].arg \in Nat /\ s[i].shown \in Nat /\ s[i].paid \in Nat
<1>1. s[i] \in TxType
  OBVIOUS
<1> QED BY <1>1 DEF TxType

(* A client submits a transaction.                                          *)
LEMMA SubmitKeeps ==
    ASSUME AInv, NEW t \in TxType, t.status = "pool", Agreed(t.kind, t.arg, t.shown),
           txs' = Append(txs, t), UNCHANGED <<chain, others>>
    PROVE  AInv'
<1> USE DEF AInv
<1>1. /\ txs' \in Seq(TxType) /\ Len(txs') = Len(txs) + 1 /\ Len(txs) \in Nat
      /\ txs'[Len(txs) + 1] = t
      /\ \A i \in DOMAIN txs : txs'[i] = txs[i]
      /\ DOMAIN txs = 1..Len(txs) /\ DOMAIN txs' = 1..(Len(txs) + 1)
  OBVIOUS
<1>2. \A i \in DOMAIN txs' : i \in DOMAIN txs \/ (i = Len(txs) + 1 /\ txs'[i].status = "pool")
  BY <1>1
<1>3. InOrder'
  BY <1>1, <1>2 DEF InOrder
<1>4. NoncesSpent' /\ OneSwapPerNonce'
  BY <1>1, <1>2 DEF NoncesSpent, OneSwapPerNonce, Did
<1>5. ApprovalsShown'
  BY <1>1, <1>2 DEF ApprovalsShown
<1>6. AllowanceAgreed'
  BY <1>1, <1>2 DEF AllowanceAgreed, Did
<1>7. BuyerConsent'
  <2> SUFFICES ASSUME NEW i \in DOMAIN txs, Did(i, {"buy"})
               PROVE  (\E a \in 1..i : Did(a, {"approveBuy"}) /\ txs[i].paid <= txs[a].shown)'
    BY <1>1, <1>2 DEF BuyerConsent, Did
  <2>1. PICK a \in 1..i : Did(a, {"approveBuy"}) /\ txs[i].paid <= txs[a].shown
    BY DEF BuyerConsent
  <2>2. a \in DOMAIN txs
    BY <1>1
  <2> QED BY <2>1, <2>2, <1>1 DEF Did
<1> QED BY <1>1, <1>3, <1>4, <1>5, <1>6, <1>7

(* What a mined transaction does to the contracts.                          *)
LEMMA EffectType ==
    ASSUME chain \in [Reads -> Nat], NEW kind, NEW arg \in Nat, Accepts(kind, arg)
    PROVE  /\ Effect(kind, arg) \in [Reads -> Nat]
           /\ kind = "swap" => Effect(kind, arg)["nonce"] = arg + 1 /\ chain["nonce"] = arg
           /\ kind # "swap" => Effect(kind, arg)["nonce"] = chain["nonce"]
           /\ kind = "approveBuy" => Effect(kind, arg)["buyAllowance"] = arg
           /\ kind # "approveBuy" => Effect(kind, arg)["buyAllowance"] <= chain["buyAllowance"]
           /\ kind = "buy" => chain["price"] > 0 /\ chain["price"] <= chain["buyAllowance"]
<1> USE DEF Reads
<1>1. \A r \in Reads : chain[r] \in Nat
  OBVIOUS
<1>2. CASE kind = "swap"
  BY <1>1, <1>2 DEF Accepts, Effect
<1>3. CASE kind = "delegateSwap"
  BY <1>1, <1>3 DEF Accepts, Effect
<1>4. CASE kind = "authorize"
  BY <1>1, <1>4 DEF Accepts, Effect
<1>5. CASE kind = "withdraw"
  <2>1. chain["fees"] - arg \in Nat
    BY <1>1, <1>5 DEF Accepts
  <2> QED BY <1>1, <1>5, <2>1 DEF Effect
<1>6. CASE kind = "claim"
  BY <1>1, <1>6 DEF Accepts, Effect
<1>7. CASE kind = "approveBuy"
  BY <1>1, <1>7 DEF Accepts, Effect
<1>8. CASE kind = "buy"
  <2>1. chain["buyAllowance"] - chain["price"] \in Nat /\ chain["price"] > 0
        /\ chain["price"] <= chain["buyAllowance"]
    BY <1>1, <1>8 DEF Accepts
  <2> QED BY <1>1, <1>8, <2>1 DEF Effect
<1>9. CASE kind \notin {"swap", "delegateSwap", "authorize", "withdraw", "claim", "approveBuy", "buy"}
  BY <1>1, <1>9 DEF Effect
<1> QED BY <1>2, <1>3, <1>4, <1>5, <1>6, <1>7, <1>8, <1>9

(* The next transaction in order succeeds.                                  *)
LEMMA MineKeeps ==
    ASSUME AInv, NEW i \in DOMAIN txs, Mine(i)
    PROVE  AInv'
<1> DEFINE k == txs[i].kind
           arg == txs[i].arg
           paid == IF k = "buy" THEN chain["price"] ELSE 0
<1> USE DEF AInv
<1>1. txs[i] \in TxType /\ txs[i].status = "pool" /\ Accepts(k, arg) /\ chain' = Effect(k, arg)
  BY DEF Mine, NextToMine, Waiting
<1>2. arg \in Nat /\ \A r \in Reads : chain[r] \in Nat
  BY <1>1 DEF TxType
<1>3. /\ chain' \in [Reads -> Nat]
      /\ k = "swap" => chain'["nonce"] = arg + 1 /\ chain["nonce"] = arg
      /\ k # "swap" => chain'["nonce"] = chain["nonce"]
      /\ k = "approveBuy" => chain'["buyAllowance"] = arg
      /\ k # "approveBuy" => chain'["buyAllowance"] <= chain["buyAllowance"]
      /\ k = "buy" => chain["price"] > 0 /\ chain["price"] <= chain["buyAllowance"]
  BY <1>1, <1>2, EffectType
<1>4. paid \in Nat
  BY <1>2 DEF Reads
<1>5. /\ txs' \in Seq(TxType) /\ DOMAIN txs' = DOMAIN txs
      /\ txs'[i] = [txs[i] EXCEPT !.status = "ok", !.paid = paid]
      /\ \A j \in DOMAIN txs : j # i => txs'[j] = txs[j]
  <2> DEFINE t == [txs[i] EXCEPT !.status = "ok", !.paid = paid]
  <2>1. t \in TxType
    BY <1>1, <1>4 DEF TxType, Statuses
  <2>2. txs' = [txs EXCEPT ![i] = t]
    BY DEF Mine
  <2> HIDE DEF t
  <2>3. txs' \in Seq(TxType) /\ DOMAIN txs' = DOMAIN txs /\ txs'[i] = t
        /\ \A j \in DOMAIN txs : j # i => txs'[j] = txs[j]
    BY <2>1, <2>2, ReplaceInSeq
  <2> QED BY <2>3 DEF t
<1>6. /\ txs'[i].kind = k /\ txs'[i].arg = arg /\ txs'[i].shown = txs[i].shown
      /\ txs'[i].status = "ok" /\ txs'[i].paid = paid
  BY <1>1, <1>5 DEF TxType
<1>7. \A j \in DOMAIN txs : j # i => (Did(j, {"swap"})' <=> Did(j, {"swap"}))
                                  /\ (Did(j, {"buy"})' <=> Did(j, {"buy"}))
                                  /\ (Did(j, {"approveBuy"})' <=> Did(j, {"approveBuy"}))
  BY <1>5 DEF Did
<1>8. \A j \in DOMAIN txs : txs[j].status = "pool" => i <= j
  BY DEF Mine, NextToMine, Waiting
<1>a. DOMAIN txs \subseteq Nat
  OBVIOUS
<1> HIDE DEF k, arg, paid
<1>9. InOrder'
  <2> SUFFICES ASSUME NEW x \in DOMAIN txs, NEW y \in DOMAIN txs,
                      txs'[x].status # "pool", txs'[y].status = "pool"
               PROVE  x < y
    BY <1>5 DEF InOrder
  <2>1. y # i /\ txs[y].status = "pool"
    BY <1>5, <1>6
  <2>2. CASE x = i
    BY <2>1, <2>2, <1>8, <1>a
  <2>3. CASE x # i
    BY <2>1, <2>3, <1>5 DEF InOrder
  <2> QED BY <2>2, <2>3
<1>10. NoncesSpent' /\ OneSwapPerNonce'
  <2>0. /\ \A j \in DOMAIN txs : txs[j].arg \in Nat
        /\ chain["nonce"] \in Nat /\ chain'["nonce"] \in Nat /\ chain'["nonce"] >= chain["nonce"]
    <3>1. k = "swap" => chain'["nonce"] >= chain["nonce"]
      BY <1>2, <1>3 DEF Reads
    <3>2. \A j \in DOMAIN txs : txs[j].arg \in Nat
      BY TxTypes
    <3>3. chain["nonce"] \in Nat /\ chain'["nonce"] \in Nat
      BY <1>2, <1>3 DEF Reads
    <3> QED BY <1>3, <3>1, <3>2, <3>3
  <2>1. ASSUME NEW j \in DOMAIN txs, j # i, Did(j, {"swap"})'
        PROVE  txs'[j].arg < chain["nonce"] /\ txs'[j].arg = txs[j].arg
    BY <1>5, <1>7, <2>1 DEF NoncesSpent
  <2>2. Did(i, {"swap"})' => k = "swap"
    BY <1>6 DEF Did
  <2>3. NoncesSpent'
    <3> SUFFICES ASSUME NEW j \in DOMAIN txs, Did(j, {"swap"})'
                 PROVE  txs'[j].arg < chain'["nonce"]
      BY <1>5 DEF NoncesSpent
    <3>1. CASE j # i
      BY <2>0, <2>1, <3>1
    <3>2. CASE j = i
      BY <1>2, <1>3, <1>6, <2>2, <3>2
    <3> QED BY <3>1, <3>2
  <2>4. OneSwapPerNonce'
    <3> SUFFICES ASSUME NEW x \in DOMAIN txs, NEW y \in DOMAIN txs, x # y,
                        Did(x, {"swap"})', Did(y, {"swap"})'
                 PROVE  txs'[x].arg # txs'[y].arg
      BY <1>5 DEF OneSwapPerNonce
    <3>1. CASE x # i /\ y # i
      BY <3>1, <1>5, <1>7 DEF OneSwapPerNonce
    <3>2. CASE x = i
      BY <3>2, <2>0, <2>1, <2>2, <1>2, <1>3, <1>6
    <3>3. CASE y = i
      BY <3>3, <2>0, <2>1, <2>2, <1>2, <1>3, <1>6
    <3> QED BY <3>1, <3>2, <3>3
  <2> QED BY <2>3, <2>4
<1>11. ApprovalsShown'
  BY <1>5, <1>6 DEF ApprovalsShown, k, arg
<1>12. k # "approveBuy" /\ chain["buyAllowance"] > 0 =>
          \E a \in DOMAIN txs : /\ Did(a, {"approveBuy"}) /\ Did(a, {"approveBuy"})' /\ a < i
                                /\ chain["buyAllowance"] <= txs[a].shown /\ txs'[a].shown = txs[a].shown
  <2> SUFFICES ASSUME k # "approveBuy", chain["buyAllowance"] > 0
               PROVE  \E a \in DOMAIN txs :
                         /\ Did(a, {"approveBuy"}) /\ Did(a, {"approveBuy"})' /\ a < i
                         /\ chain["buyAllowance"] <= txs[a].shown /\ txs'[a].shown = txs[a].shown
    OBVIOUS
  <2>1. PICK a \in DOMAIN txs : Did(a, {"approveBuy"}) /\ chain["buyAllowance"] <= txs[a].shown
    BY DEF AllowanceAgreed
  <2>2. a # i /\ a < i
    BY <1>1, <2>1 DEF Did, InOrder
  <2> QED BY <1>5, <1>7, <2>1, <2>2
<1>13. AllowanceAgreed'
  <2> SUFFICES ASSUME chain'["buyAllowance"] > 0
               PROVE  (\E a \in DOMAIN txs : Did(a, {"approveBuy"}) /\ chain["buyAllowance"] <= txs[a].shown)'
    BY DEF AllowanceAgreed
  <2>1. CASE k = "approveBuy"
    <3>1. Did(i, {"approveBuy"})' /\ arg <= txs'[i].shown
      BY <1>6, <2>1 DEF Did, ApprovalsShown, Agreed, k, arg
    <3> QED BY <1>3, <1>5, <2>1, <3>1
  <2>2. CASE k # "approveBuy"
    <3>1. chain["buyAllowance"] \in Nat /\ chain'["buyAllowance"] \in Nat
      BY <1>2, <1>3 DEF Reads
    <3>2. chain'["buyAllowance"] <= chain["buyAllowance"] /\ chain["buyAllowance"] > 0
      BY <1>3, <2>2, <3>1
    <3>3. PICK a \in DOMAIN txs : Did(a, {"approveBuy"})' /\ chain["buyAllowance"] <= txs'[a].shown
      BY <1>12, <2>2, <3>2
    <3>4. txs'[a].shown \in Nat
      BY <1>5, TxTypes
    <3> QED BY <1>5, <3>1, <3>2, <3>3, <3>4
  <2> QED BY <2>1, <2>2
<1>14. BuyerConsent'
  <2> SUFFICES ASSUME NEW j \in DOMAIN txs, Did(j, {"buy"})'
               PROVE  (\E a \in 1..j : Did(a, {"approveBuy"}) /\ txs[j].paid <= txs[a].shown)'
    BY <1>5 DEF BuyerConsent
  <2>1. CASE j # i
    <3>1. PICK a \in 1..j : Did(a, {"approveBuy"}) /\ txs[j].paid <= txs[a].shown
      BY <1>7, <2>1 DEF BuyerConsent
    <3>2. a \in DOMAIN txs /\ a # i
      BY <1>1, <3>1 DEF Did
    <3> QED BY <1>5, <1>7, <2>1, <3>1, <3>2
  <2>2. CASE j = i
    <3>1. k = "buy" /\ txs'[i].paid = chain["price"]
      BY <1>6, <2>2 DEF Did, paid
    <3>2. /\ chain["buyAllowance"] \in Nat /\ chain["price"] \in Nat
          /\ chain["buyAllowance"] > 0 /\ chain["price"] <= chain["buyAllowance"]
      BY <1>2, <1>3, <3>1 DEF Reads
    <3>3. PICK a \in DOMAIN txs : /\ Did(a, {"approveBuy"})' /\ a < i
                                  /\ chain["buyAllowance"] <= txs[a].shown /\ txs'[a].shown = txs[a].shown
      BY <1>12, <3>1, <3>2
    <3>4. a \in 1..j /\ txs[a].shown \in Nat
      BY <1>a, <2>2, <3>3, TxTypes
    <3>5. txs'[j].paid <= txs'[a].shown
      BY <2>2, <3>1, <3>2, <3>3, <3>4
    <3> QED BY <3>3, <3>4, <3>5
  <2> QED BY <2>1, <2>2
<1>15. others' \in 0..MaxOthers
  BY DEF Mine
<1> QED BY <1>3, <1>5, <1>9, <1>10, <1>11, <1>13, <1>14, <1>15

(* The next transaction in order reverts.                                   *)
LEMMA RevertKeeps ==
    ASSUME AInv, NEW i \in DOMAIN txs, Revert(i)
    PROVE  AInv'
<1> USE DEF AInv
<1>1. txs[i] \in TxType /\ txs[i].status = "pool" /\ chain' = chain /\ others' = others
  BY DEF Revert, NextToMine, Waiting
<1>2. /\ txs' \in Seq(TxType) /\ DOMAIN txs' = DOMAIN txs
      /\ \A j \in DOMAIN txs : j # i => txs'[j] = txs[j]
  <2> DEFINE t == [txs[i] EXCEPT !.status = "reverted"]
  <2>1. t \in TxType
    BY <1>1 DEF TxType, Statuses
  <2>2. txs' = [txs EXCEPT ![i] = t]
    BY DEF Revert
  <2> HIDE DEF t
  <2> QED BY <2>1, <2>2, ReplaceInSeq
<1>3. /\ txs'[i].kind = txs[i].kind /\ txs'[i].arg = txs[i].arg /\ txs'[i].shown = txs[i].shown
      /\ txs'[i].status = "reverted"
  BY <1>1 DEF Revert, TxType
<1>4. \A j \in DOMAIN txs, K \in SUBSET AnyKind : Did(j, K)' => j # i /\ Did(j, K)
  BY <1>2, <1>3 DEF Did
<1>5. \A j \in DOMAIN txs, K \in SUBSET AnyKind : Did(j, K) => j # i /\ Did(j, K)'
  BY <1>1, <1>2 DEF Did
<1>6. {"swap"} \in SUBSET AnyKind /\ {"buy"} \in SUBSET AnyKind /\ {"approveBuy"} \in SUBSET AnyKind
  BY DEF AnyKind, Kinds
<1>7. \A j \in DOMAIN txs : txs[j].status = "pool" => i <= j
  BY DEF Revert, NextToMine, Waiting
<1>a. DOMAIN txs \subseteq Nat
  OBVIOUS
<1>8. InOrder'
  BY <1>2, <1>3, <1>7, <1>a DEF InOrder
<1>9. NoncesSpent' /\ OneSwapPerNonce'
  BY <1>1, <1>2, <1>4, <1>6 DEF NoncesSpent, OneSwapPerNonce
<1>10. ApprovalsShown'
  BY <1>2, <1>3 DEF ApprovalsShown
<1>11. AllowanceAgreed'
  BY <1>1, <1>2, <1>5, <1>6 DEF AllowanceAgreed
<1>12. BuyerConsent'
  <2> SUFFICES ASSUME NEW j \in DOMAIN txs, Did(j, {"buy"})'
               PROVE  (\E a \in 1..j : Did(a, {"approveBuy"}) /\ txs[j].paid <= txs[a].shown)'
    BY <1>2 DEF BuyerConsent
  <2>1. j # i /\ Did(j, {"buy"})
    BY <1>4, <1>6
  <2>2. PICK a \in 1..j : Did(a, {"approveBuy"}) /\ txs[j].paid <= txs[a].shown
    BY <2>1 DEF BuyerConsent
  <2>3. a \in DOMAIN txs
    OBVIOUS
  <2>4. a # i /\ Did(a, {"approveBuy"})'
    BY <1>5, <1>6, <2>2, <2>3
  <2> QED BY <1>2, <2>1, <2>2, <2>3, <2>4
<1> QED BY <1>1, <1>2, <1>8, <1>9, <1>10, <1>11, <1>12

(* Moves of others leave the account's nonce and allowance alone.           *)
LEMMA ElsewhereKeeps ==
    ASSUME AInv, Elsewhere
    PROVE  AInv'
<1> USE DEF AInv
<1>0. \A r \in Reads : chain[r] \in Nat
  OBVIOUS
<1>1. txs' = txs /\ others' \in 0..MaxOthers
  BY AccountAssumption DEF Elsewhere
<1>2. /\ chain' \in [Reads -> Nat] /\ chain'["nonce"] = chain["nonce"]
      /\ chain'["buyAllowance"] = chain["buyAllowance"]
  BY <1>0, AccountAssumption DEF Elsewhere, Reads
<1>3. \A j, K : Did(j, K)' <=> Did(j, K)
  BY <1>1 DEF Did
<1> QED BY <1>1, <1>2, <1>3 DEF InOrder, NoncesSpent, ApprovalsShown, AllowanceAgreed,
           OneSwapPerNonce, BuyerConsent

-----------------------------------------------------------------------------
(* The page's steps.                                                        *)

(* A write request.                                                         *)
LEMMA RequestType1 ==
    ASSUME DInv, AInv, NEW kind \in Kinds, NEW arg \in Nat, Request(kind, arg),
           kind = "approveBuy" => arg <= view["price"]
    PROVE  /\ requests' \subseteq RequestType
           /\ \A q \in requests' : q.id \in 1..write'.request /\ q.kind \in Kinds
           /\ \A q \in requests' : Agreed(q.kind, q.arg, q.shown)
           /\ \A q \in requests' : q.id = write'.request => q.kind = kind
           /\ write' \in [request : 0..MaxPresses, state : {"idle", "wallet", "hash", "error"}, hash : Nat]
           /\ write'.state = "wallet"
<1> DEFINE n == write.request + 1
           shown == IF kind = "approveBuy" THEN view["price"] ELSE 0
           new == [id |-> n, kind |-> kind, arg |-> arg, shown |-> shown]
<1>1. write.request \in Nat /\ write.request < MaxPresses /\ MaxPresses \in Nat
  BY DappAssumption DEF DInv, DappTypeOK, Request
<1>2. shown \in Nat
  BY DEF DInv, DappTypeOK, Reads
<1>3. n \in 1..MaxPresses /\ n > write.request
  BY <1>1
<1>4. new \in RequestType /\ Agreed(new.kind, new.arg, new.shown)
  BY <1>2, <1>3 DEF RequestType, Agreed
<1>5. write' = [request |-> n, state |-> "wallet", hash |-> 0] /\ requests' = requests \union {new}
  BY DEF Request
<1>6. \A q \in requests : q.id \in 1..write.request /\ q.kind \in Kinds /\ q \in RequestType
                          /\ Agreed(q.kind, q.arg, q.shown)
  BY DEF DInv, DappTypeOK
<1>7. new.id = n /\ new.kind = kind
  OBVIOUS
<1> HIDE DEF n, new
<1>8. \A q \in requests : q.id \in 1..n /\ q.id # n
  BY <1>1, <1>3, <1>6
<1>9. write'.request = n /\ write'.state = "wallet"
      /\ write' \in [request : 0..MaxPresses, state : {"idle", "wallet", "hash", "error"}, hash : Nat]
  BY <1>3, <1>5
<1> QED BY <1>3, <1>4, <1>5, <1>6, <1>7, <1>8, <1>9

(* A button that sends a write.                                             *)
LEMMA PressKeeps ==
    ASSUME DInv, AInv, NEW kind \in Kinds, NEW arg \in Nat, Press(kind, arg),
           kind = "approveBuy" => arg <= view["price"],
           \/ UNCHANGED <<refs, delegateResult>>
           \/ kind = "delegateSwap" /\ refs' = refs \union {"delegateSwap"} /\ delegateResult' = "Pending"
           \/ \E r \in Refs \ {"delegateSwap"} : refs' = refs \union {r} /\ UNCHANGED delegateResult
    PROVE  DInv'
<1>1. /\ requests' \subseteq RequestType
      /\ \A q \in requests' : q.id \in 1..write'.request /\ q.kind \in Kinds
      /\ \A q \in requests' : Agreed(q.kind, q.arg, q.shown)
      /\ \A q \in requests' : q.id = write'.request => q.kind = kind
      /\ write' \in [request : 0..MaxPresses, state : {"idle", "wallet", "hash", "error"}, hash : Nat]
      /\ write'.state = "wallet"
  BY RequestType1 DEF Press
<1>2. "delegateSwap" \notin refs /\ delegateResult # "Pending"
  BY DEF Press, DInv, DelegateResultTold
<1>3. UNCHANGED <<view, signing, last, takenOver>>
  BY DEF Press
<1>4. refs' \subseteq Refs /\ delegateResult' \in {"none", "Pending", "Submitted", "Failed"}
  BY DEF DInv, DappTypeOK, Refs
<1>5. DappTypeOK'
  BY <1>1, <1>3, <1>4 DEF DInv, DappTypeOK
<1>6. /\ "delegateSwap" \in refs' => kind = "delegateSwap"
      /\ "delegateSwap" \in refs' <=> delegateResult' = "Pending"
  BY <1>2
<1>7. FollowsDelegate' /\ DelegateResultTold'
  BY <1>1, <1>3, <1>6 DEF FollowsDelegate, DelegateResultTold, Idle, DInv
<1> QED BY <1>1, <1>5, <1>7 DEF DInv

(* An answer of the wallet keeps the page's invariant.                      *)
LEMMA SignedKeeps ==
    ASSUME DInv, AInv, Signed
    PROVE  DInv'
<1>1. "authorize" \in Kinds /\ signing \in Nat /\ "authorize" # "approveBuy"
  BY DEF Signed, DInv, DappTypeOK, Kinds
<1>2. /\ requests' \subseteq RequestType
      /\ \A q \in requests' : q.id \in 1..write'.request /\ q.kind \in Kinds
      /\ \A q \in requests' : Agreed(q.kind, q.arg, q.shown)
      /\ \A q \in requests' : q.id = write'.request => q.kind = "authorize"
      /\ write' \in [request : 0..MaxPresses, state : {"idle", "wallet", "hash", "error"}, hash : Nat]
      /\ write'.state = "wallet"
  BY <1>1, RequestType1 DEF Signed
<1>3. UNCHANGED <<view, refs, last, delegateResult>> /\ signing' = NotSigning
      /\ takenOver' = (takenOver \/ ~Idle)
  BY DEF Signed
<1>4. DappTypeOK'
  BY <1>2, <1>3 DEF DInv, DappTypeOK, Idle
<1>5. "delegateSwap" \in refs => takenOver'
  BY <1>3 DEF DInv, DelegateResultTold
<1>6. FollowsDelegate' /\ DelegateResultTold'
  BY <1>2, <1>3, <1>5 DEF FollowsDelegate, DelegateResultTold, Idle, DInv
<1> QED BY <1>2, <1>4, <1>6 DEF DInv

(* The wallet's answers.                                                    *)
LEMMA AnsweredKeeps ==
    ASSUME DInv, AInv, NEW q \in requests, Answered(q)
    PROVE  DInv'
<1>1. requests' \subseteq requests /\ UNCHANGED <<signing, takenOver>>
  BY DEF Answered
<1>2. q.kind \in Kinds
  BY DEF DInv, DappTypeOK
<1>3. CASE q.id = write.request
  <2>0. Len(txs) + 1 \in Nat
    BY DEF AInv
  <2>1. /\ write' = [write EXCEPT !.state = "hash", !.hash = Len(txs) + 1]
        /\ last' = Recorded(q.kind)
        /\ delegateResult' = IF "delegateSwap" \in refs THEN "Submitted" ELSE delegateResult
        /\ view' = IF "claim" \in refs THEN [view EXCEPT !["earned"] = chain["earned"]] ELSE view
        /\ refs' = {}
    BY <1>3 DEF Answered
  <2>2. /\ write' \in [request : 0..MaxPresses, state : {"idle", "wallet", "hash", "error"}, hash : Nat]
        /\ write'.request = write.request
    BY <2>0, <2>1 DEF DInv, DappTypeOK
  <2>3. view' \in [Reads -> Nat]
    BY <2>1 DEF DInv, DappTypeOK, AInv, Reads
  <2>4. last' \in [{"withdraw", "delegateSwap"} -> Kinds \union {"none"}]
    BY <1>2, <2>1 DEF DInv, DappTypeOK, Recorded
  <2>5. last'["delegateSwap"] = IF "delegateSwap" \in refs THEN q.kind ELSE last["delegateSwap"]
    BY <2>1 DEF DInv, DappTypeOK, Recorded
  <2>6. DappTypeOK'
    BY <1>1, <2>1, <2>2, <2>3, <2>4 DEF DInv, DappTypeOK
  <2>7. takenOver \/ last'["delegateSwap"] \in {"none", "delegateSwap"}
    BY <1>3, <2>5 DEF DInv, FollowsDelegate, DelegateResultTold
  <2>8. delegateResult' # "Pending"
    BY <2>1 DEF DInv, DelegateResultTold
  <2> QED BY <1>1, <2>1, <2>6, <2>7, <2>8 DEF DInv, FollowsDelegate, DelegateResultTold
<1>4. CASE q.id # write.request
  <2>1. UNCHANGED <<write, last, delegateResult, view, refs>>
    BY <1>4 DEF Answered
  <2> QED BY <1>1, <2>1 DEF DInv, DappTypeOK, FollowsDelegate, DelegateResultTold, Idle
<1> QED BY <1>3, <1>4

(* A rejection by the user keeps it.                                        *)
LEMMA RejectedKeeps ==
    ASSUME DInv, NEW q \in requests, Rejected(q)
    PROVE  DInv'
<1>1. requests' \subseteq requests /\ UNCHANGED <<view, signing, last, takenOver>>
  BY DEF Rejected
<1>2. CASE q.id = write.request
  <2>1. /\ write' = [write EXCEPT !.state = "error"]
        /\ refs' = refs \ {"delegateSwap"}
        /\ delegateResult' = IF "delegateSwap" \in refs THEN "Failed" ELSE delegateResult
    BY <1>2 DEF Rejected, RefsAfterError
  <2>2. /\ write' \in [request : 0..MaxPresses, state : {"idle", "wallet", "hash", "error"}, hash : Nat]
        /\ write'.request = write.request
    BY <2>1 DEF DInv, DappTypeOK
  <2>3. DappTypeOK'
    BY <1>1, <2>1, <2>2 DEF DInv, DappTypeOK
  <2>4. delegateResult' # "Pending"
    BY <2>1 DEF DInv, DelegateResultTold
  <2> QED BY <1>1, <2>1, <2>3, <2>4 DEF DInv, FollowsDelegate, DelegateResultTold
<1>3. CASE q.id # write.request
  <2>1. UNCHANGED <<write, delegateResult, refs>>
    BY <1>3 DEF Rejected
  <2> QED BY <1>1, <2>1 DEF DInv, DappTypeOK, FollowsDelegate, DelegateResultTold, Idle
<1> QED BY <1>2, <1>3

(* Steps that touch no request and no ref.                                  *)
LEMMA PageWaits ==
    ASSUME DInv, UNCHANGED <<write, requests, refs, last, delegateResult, takenOver>>,
           view' \in [Reads -> Nat], signing' \in Nat \union {NotSigning}
    PROVE  DInv'
BY DEF DInv, DappTypeOK, FollowsDelegate, DelegateResultTold, Idle

(* What the page does to the account: nothing, or a submission.             *)
LEMMA DappKeeps ==
    ASSUME AInv, DInv, DappNext
    PROVE  AInv' /\ DInv' /\ (UNCHANGED txs \/ \E t \in TxType : txs' = Append(txs, t))
<1> DEFINE Goal == AInv' /\ DInv' /\ (UNCHANGED txs \/ \E t \in TxType : txs' = Append(txs, t))
<1>a. UNCHANGED accountVars => AInv' /\ UNCHANGED txs
  BY DEF accountVars, AInv, InOrder, NoncesSpent, ApprovalsShown, AllowanceAgreed,
         OneSwapPerNonce, BuyerConsent, Did
<1>b. \A r \in Reads : view[r] \in Nat
  BY DEF DInv, DappTypeOK
<1>1. ASSUME NEW kind \in PlainPresses, PressPlain(kind) PROVE Goal
  <2>1. kind \in Kinds /\ kind # "approveBuy"
    BY DappAssumption DEF Kinds, PlainWrites, VaultWrites, SubscriptionWrites, ListingWrites,
       StrategyWrites, DaoWrites, ReferralWrites, DelegateWrites
  <2> QED BY <1>1, <1>a, <2>1, PressKeeps DEF PressPlain, Press
<1>2. CASE ExecuteSwap
  <2>1. "swap" \in Kinds /\ view["nonce"] \in Nat
    BY <1>b DEF Kinds, Reads
  <2> QED BY <1>2, <1>a, <2>1, PressKeeps DEF ExecuteSwap, Press
<1>3. CASE ExecuteAsDelegate
  <2>1. "delegateSwap" \in Kinds /\ view["ownerNonce"] \in Nat
    BY <1>b DEF Kinds, Refs, Reads
  <2> QED BY <1>3, <1>a, <2>1, PressKeeps DEF ExecuteAsDelegate, Press
<1>4. CASE WithdrawFeesToTreasury
  <2>1. "withdraw" \in Kinds /\ view["fees"] \in Nat /\ "withdraw" \in Refs \ {"delegateSwap"}
    BY <1>b DEF Kinds, Refs, Reads
  <2> QED BY <1>4, <1>a, <2>1, PressKeeps DEF WithdrawFeesToTreasury, Press
<1>5. CASE ClaimReferralRewards
  <2>1. "claim" \in Kinds /\ "claim" \in Refs \ {"delegateSwap"}
    BY DEF Kinds, Refs
  <2> QED BY <1>5, <1>a, <2>1, PressKeeps DEF ClaimReferralRewards, Press
<1>6. CASE ApprovePaymentForBuy
  <2>1. "approveBuy" \in Kinds /\ view["price"] \in Nat
    BY <1>b DEF Kinds, Reads
  <2> QED BY <1>6, <1>a, <2>1, PressKeeps DEF ApprovePaymentForBuy, Press
<1>7. CASE BuyStrategyNft
  <2>1. "buy" \in Kinds
    BY DEF Kinds
  <2> QED BY <1>7, <1>a, <2>1, PressKeeps DEF BuyStrategyNft, Press
<1>8. CASE AuthorizeDelegate
  <2>1. signing' \in Nat
    BY <1>8, <1>b DEF AuthorizeDelegate, Reads
  <2>2. view' \in [Reads -> Nat]
    BY <1>8 DEF AuthorizeDelegate, DInv, DappTypeOK
  <2> QED BY <1>8, <1>a, <2>1, <2>2, PageWaits DEF AuthorizeDelegate
<1>9. CASE Signed
  BY <1>9, <1>a, SignedKeeps DEF Signed
<1>10. CASE SignatureRefused
  <2>1. view' \in [Reads -> Nat]
    BY <1>10 DEF SignatureRefused, DInv, DappTypeOK
  <2> QED BY <1>10, <1>a, <2>1, PageWaits DEF SignatureRefused
<1>11. ASSUME NEW q \in requests, Answered(q) PROVE Goal
  <2> DEFINE t == Tx(q.kind, q.arg, q.shown)
  <2>1. q \in RequestType /\ Agreed(q.kind, q.arg, q.shown)
    BY DEF DInv
  <2>2. t \in TxType /\ t.status = "pool" /\ Agreed(t.kind, t.arg, t.shown)
    BY <2>1 DEF Tx, TxType, RequestType, AnyKind, Statuses, Agreed
  <2>3. txs' = Append(txs, t) /\ UNCHANGED <<chain, others>>
    BY <1>11 DEF Answered
  <2> HIDE DEF t
  <2>4. AInv'
    BY <2>2, <2>3, SubmitKeeps
  <2>5. DInv'
    BY <1>11, AnsweredKeeps
  <2> QED BY <2>2, <2>3, <2>4, <2>5
<1>12. ASSUME NEW q \in requests, Rejected(q) PROVE Goal
  BY <1>12, <1>a, RejectedKeeps DEF Rejected
<1>13. CASE Refetch
  <2>1. view' \in [Reads -> Nat] /\ signing' \in Nat \union {NotSigning}
    BY <1>13 DEF Refetch, AInv, DInv, DappTypeOK
  <2> QED BY <1>13, <1>a, <2>1, PageWaits DEF Refetch
<1> QED BY <1>1, <1>2, <1>3, <1>4, <1>5, <1>6, <1>7, <1>8, <1>9, <1>10, <1>11, <1>12, <1>13 DEF DappNext

-----------------------------------------------------------------------------
(* The program's steps.                                                     *)

(* The program's calls while the account moves: transactions are only added *)
(* and a mined one stays mined.                                             *)
LEMMA CallsStand ==
    ASSUME SInv, AInv, AInv', UNCHANGED call,
           Len(txs') >= Len(txs),
           \A i \in DOMAIN txs : txs[i].status = "ok" => txs'[i].status = "ok"
    PROVE  SInv'
<1>1. /\ Len(txs) \in Nat /\ Len(txs') \in Nat
      /\ DOMAIN txs = 1..Len(txs) /\ DOMAIN txs' = 1..Len(txs')
  BY DEF AInv
<1>2. SdkTypeOK'
  <2>1. 0..Len(txs) \subseteq 0..Len(txs')
    BY <1>1
  <2>2. \A c \in Calls : call[c] \in [method : Methods \union {"none"}, step : Steps, tx : 0..Len(txs)]
    BY DEF SInv, SdkTypeOK
  <2>3. \A c \in Calls : call[c] \in [method : Methods \union {"none"}, step : Steps, tx : 0..Len(txs')]
    BY <2>1, <2>2
  <2> QED BY <2>3 DEF SInv, SdkTypeOK
<1>3. DOMAIN txs \subseteq DOMAIN txs'
  BY <1>1
<1> QED BY <1>2, <1>3 DEF SInv

(* A submission leaves the calls as they are.                               *)
LEMMA CallsStandSubmit ==
    ASSUME SInv, AInv, AInv', UNCHANGED call, NEW t \in TxType, txs' = Append(txs, t)
    PROVE  SInv'
<1>1. Len(txs') >= Len(txs) /\ \A i \in DOMAIN txs : txs'[i] = txs[i]
  BY DEF AInv
<1> QED BY <1>1, CallsStand

(* Mined transactions stay mined.                                           *)
LEMMA CallsStandMine ==
    ASSUME SInv, AInv, AInv', UNCHANGED call, AccountNext
    PROVE  SInv'
<1>1. CASE Elsewhere
  <2>1. txs' = txs
    BY <1>1 DEF Elsewhere
  <2> QED BY <2>1, CallsStand DEF AInv
<1>2. ASSUME NEW i \in DOMAIN txs, Mine(i) \/ Revert(i) PROVE SInv'
  <2>1. txs[i].status = "pool"
    BY <1>2 DEF Mine, Revert, NextToMine, Waiting
  <2>2. Len(txs') = Len(txs) /\ Len(txs) \in Nat /\ \A j \in DOMAIN txs : j # i => txs'[j] = txs[j]
    BY <1>2 DEF Mine, Revert, AInv
  <2> QED BY <2>1, <2>2, CallsStand
<1> QED BY <1>1, <1>2 DEF AccountNext

(* One call moves to another await.                                         *)
LEMMA CallMoves ==
    ASSUME SInv, NEW c \in Calls, NEW step \in Steps, Goto(c, step), UNCHANGED txs,
           step \in {"wait", "read", "returned"} => call[c].tx \in DOMAIN txs,
           step \in {"read", "returned"} => txs[call[c].tx].status = "ok"
    PROVE  SInv'
<1>1. call' = [call EXCEPT ![c].step = step]
  BY DEF Goto
<1>2. \A d \in Calls : d # c => call'[d] = call[d]
  BY <1>1 DEF SInv, SdkTypeOK
<1>3. call'[c].step = step /\ call'[c].tx = call[c].tx
  BY <1>1 DEF SInv, SdkTypeOK
<1>4. SdkTypeOK'
  BY <1>1 DEF SInv, SdkTypeOK
<1> QED BY <1>2, <1>3, <1>4 DEF SInv

(* Steps of the SDK program keep its own invariant and the account's.       *)
LEMMA SdkKeeps ==
    ASSUME AInv, SInv, SdkNext
    PROVE  AInv' /\ SInv'
<1>a. UNCHANGED accountVars => AInv' /\ UNCHANGED txs
  BY DEF accountVars, AInv, InOrder, NoncesSpent, ApprovalsShown, AllowanceAgreed,
         OneSwapPerNonce, BuyerConsent, Did
<1>b. \A c \in Calls : call[c].step \in {"wait", "read", "returned"} => call[c].tx \in DOMAIN txs
  BY DEF SInv
<1>c. \A kind \in AnyKind, n \in Nat :
          Tx(kind, n, n) \in TxType /\ Tx(kind, n, n).status = "pool"
          /\ Agreed(Tx(kind, n, n).kind, Tx(kind, n, n).arg, Tx(kind, n, n).shown)
  BY DEF Tx, TxType, Statuses, Agreed
<1>d. \A method \in Methods \union {"none"} : Sends(method) \in AnyKind
  BY DEF Sends, AnyKind, Kinds
<1>1. ASSUME NEW c \in Calls, NEW method \in SdkMethods, Invoke(c, method)
      PROVE  AInv' /\ SInv'
  <2> DEFINE new == [method |-> method, tx |-> 0,
                     step |-> IF HasSigner /\ ~NeverSends(method) THEN "send" ELSE "thrown"]
  <2>1. call' = [call EXCEPT ![c] = new] /\ txs' = txs /\ AInv'
    BY <1>1, <1>a DEF Invoke
  <2>2. new \in [method : Methods \union {"none"}, step : Steps, tx : 0..Len(txs)]
        /\ new.step \notin {"wait", "read", "returned"}
    BY SdkAssumption DEF Steps, AInv
  <2> HIDE DEF new
  <2> QED BY <2>1, <2>2 DEF SInv, SdkTypeOK
<1>2. ASSUME NEW c \in Calls, NEW amount \in Prices \union {0}, Send(c, amount)
      PROVE  AInv' /\ SInv'
  <2> DEFINE t == Tx(Sends(call[c].method), amount, amount)
  <2>1. amount \in Nat /\ call[c].method \in Methods \union {"none"}
    BY AccountAssumption DEF SInv, SdkTypeOK
  <2>2. t \in TxType /\ t.status = "pool" /\ Agreed(t.kind, t.arg, t.shown)
    BY <2>1, <1>c, <1>d
  <2>3. txs' = Append(txs, t) /\ UNCHANGED <<chain, others>>
        /\ call' = [call EXCEPT ![c].step = "wait", ![c].tx = Len(txs) + 1]
    BY <1>2 DEF Send
  <2> HIDE DEF t
  <2>4. AInv'
    BY <2>2, <2>3, SubmitKeeps
  <2>5. /\ Len(txs) \in Nat /\ Len(txs') = Len(txs) + 1 /\ DOMAIN txs = 1..Len(txs)
        /\ DOMAIN txs' = 1..(Len(txs) + 1) /\ \A i \in DOMAIN txs : txs'[i] = txs[i]
    BY <2>2, <2>3 DEF AInv
  <2>6. \A d \in Calls : d # c => call'[d] = call[d]
    BY <2>3 DEF SInv, SdkTypeOK
  <2>7. call'[c].step = "wait" /\ call'[c].tx = Len(txs) + 1
    BY <2>3 DEF SInv, SdkTypeOK
  <2>8. SdkTypeOK'
    <3>1. 0..Len(txs) \subseteq 0..Len(txs') /\ Len(txs) + 1 \in 0..Len(txs')
      BY <2>5
    <3>2. call \in [Calls -> [method : Methods \union {"none"}, step : Steps, tx : 0..Len(txs)]]
      BY DEF SInv, SdkTypeOK
    <3>3. call \in [Calls -> [method : Methods \union {"none"}, step : Steps, tx : 0..Len(txs')]]
      BY <3>1, <3>2
    <3> QED BY <2>3, <3>1, <3>3 DEF SdkTypeOK, Steps
  <2> QED BY <2>4, <2>5, <2>6, <2>7, <2>8 DEF SInv
<1>3. ASSUME NEW c \in Calls, SendFails(c)
      PROVE  AInv' /\ SInv'
  <2>1. Goto(c, "thrown") /\ UNCHANGED <<chain, others>>
    BY <1>3 DEF SendFails
  <2>2. CASE UNCHANGED txs
    <3>1. AInv'
      BY <1>a, <2>1, <2>2 DEF accountVars
    <3> QED BY <2>1, <2>2, <3>1, CallMoves DEF Steps
  <2>3. CASE ~(UNCHANGED txs)
    <3> DEFINE t == Tx(Sends(call[c].method), 0, 0)
    <3>1. call[c].method \in Methods \union {"none"}
      BY DEF SInv, SdkTypeOK
    <3>2. t \in TxType /\ t.status = "pool" /\ Agreed(t.kind, t.arg, t.shown)
      BY <3>1, <1>c, <1>d
    <3>3. txs' = Append(txs, t)
      BY <1>3, <2>3 DEF SendFails
    <3> HIDE DEF t
    <3>4. AInv'
      BY <2>1, <3>2, <3>3, SubmitKeeps
    <3>5. /\ Len(txs) \in Nat /\ Len(txs') = Len(txs) + 1 /\ DOMAIN txs = 1..Len(txs)
          /\ DOMAIN txs' = 1..(Len(txs) + 1) /\ \A i \in DOMAIN txs : txs'[i] = txs[i]
      BY <3>2, <3>3 DEF AInv
    <3>6. \A d \in Calls : d # c => call'[d] = call[d]
      BY <2>1 DEF Goto, SInv, SdkTypeOK
    <3>7. call'[c].step = "thrown"
      BY <2>1 DEF Goto, SInv, SdkTypeOK
    <3>8. SdkTypeOK'
      <4>1. 0..Len(txs) \subseteq 0..Len(txs')
        BY <3>5
      <4>2. call \in [Calls -> [method : Methods \union {"none"}, step : Steps, tx : 0..Len(txs)]]
        BY DEF SInv, SdkTypeOK
      <4>3. call \in [Calls -> [method : Methods \union {"none"}, step : Steps, tx : 0..Len(txs')]]
        BY <4>1, <4>2
      <4> QED BY <2>1, <4>3 DEF Goto, SdkTypeOK, Steps
    <3> QED BY <3>4, <3>5, <3>6, <3>7, <3>8 DEF SInv
  <2> QED BY <2>2, <2>3
<1>4. ASSUME NEW c \in Calls, Receipt(c)
      PROVE  AInv' /\ SInv'
  <2>1. AInv' /\ UNCHANGED txs /\ call[c].step = "wait" /\ txs[call[c].tx].status # "pool"
    BY <1>4, <1>a DEF Receipt
  <2>2. call[c].tx \in DOMAIN txs
    BY <1>b, <2>1
  <2>3. txs[call[c].tx].status \in Statuses
    <3>1. txs[call[c].tx] \in TxType
      BY <2>2, TxTypes DEF AInv
    <3> QED BY <3>1 DEF TxType
  <2>4. CASE txs[call[c].tx].status = "reverted"
    <3>1. Goto(c, "thrown")
      BY <1>4, <2>4 DEF Receipt
    <3> QED BY <2>1, <3>1, CallMoves DEF Steps
  <2>5. CASE txs[call[c].tx].status = "ok"
    BY <1>4, <2>1, <2>2, <2>5, CallMoves DEF Receipt, Steps
  <2> QED BY <2>1, <2>3, <2>4, <2>5 DEF Statuses
<1>5. ASSUME NEW c \in Calls, WaitFails(c)
      PROVE  AInv' /\ SInv'
  BY <1>5, <1>a, CallMoves DEF WaitFails, Steps
<1>6. ASSUME NEW c \in Calls, ReadBack(c)
      PROVE  AInv' /\ SInv'
  <2>1. PICK step \in {"returned", "thrown"} : Goto(c, step)
    BY <1>6 DEF ReadBack
  <2>2. AInv' /\ UNCHANGED txs /\ call[c].step = "read"
    BY <1>6, <1>a DEF ReadBack
  <2>3. call[c].tx \in DOMAIN txs /\ txs[call[c].tx].status = "ok"
    BY <2>2 DEF SInv
  <2> QED BY <2>1, <2>2, <2>3, CallMoves DEF Steps
<1> QED BY <1>1, <1>2, <1>3, <1>4, <1>5, <1>6 DEF SdkNext

-----------------------------------------------------------------------------
(* The clients' invariant always holds.                                     *)
LEMMA CInvInductive == Spec => []CInv
<1>1. Init => CInv
  <2> SUFFICES ASSUME Init PROVE CInv
    OBVIOUS
  <2>1. chain \in [Reads -> Nat] /\ chain["buyAllowance"] = 0
    BY AccountAssumption DEF Init, AccountInit, Reads
  <2>2. txs = <<>> /\ others = 0
    BY DEF Init, AccountInit
  <2>3. AInv
    BY <2>1, <2>2, AccountAssumption DEF AInv, InOrder, NoncesSpent, ApprovalsShown, AllowanceAgreed,
       OneSwapPerNonce, BuyerConsent
  <2>4. DInv
    <3>1. /\ view = chain /\ write = [request |-> 0, state |-> "idle", hash |-> 0] /\ requests = {}
          /\ signing = NotSigning /\ refs = {} /\ delegateResult = "none" /\ takenOver = FALSE
          /\ last = [r \in {"withdraw", "delegateSwap"} |-> "none"]
      BY DEF Init, DappInit
    <3>2. write \in [request : 0..MaxPresses, state : {"idle", "wallet", "hash", "error"}, hash : Nat]
      BY <3>1, DappAssumption
    <3>3. DappTypeOK
      BY <2>1, <3>1, <3>2 DEF DappTypeOK
    <3>4. FollowsDelegate /\ DelegateResultTold
      BY <3>1 DEF FollowsDelegate, DelegateResultTold
    <3> QED BY <3>1, <3>3, <3>4 DEF DInv
  <2>5. SInv
    BY <2>2 DEF Init, SdkInit, SInv, SdkTypeOK, Steps
  <2> QED BY <2>3, <2>4, <2>5 DEF CInv
<1>2. CInv /\ [Next]_vars => CInv'
  <2> SUFFICES ASSUME CInv, [Next]_vars PROVE CInv'
    OBVIOUS
  <2> USE DEF CInv
  <2>a. UNCHANGED accountVars => AInv' /\ UNCHANGED txs
    BY DEF accountVars, AInv, InOrder, NoncesSpent, ApprovalsShown, AllowanceAgreed,
           OneSwapPerNonce, BuyerConsent, Did
  <2>b. UNCHANGED dappVars => DInv'
    BY DEF dappVars, DInv, DappTypeOK, FollowsDelegate, DelegateResultTold, Idle
  <2>1. CASE AccountNext /\ UNCHANGED <<dappVars, call>>
    <3>1. AInv'
      BY <2>1, MineKeeps, RevertKeeps, ElsewhereKeeps DEF AccountNext
    <3> QED BY <2>1, <2>b, <3>1, CallsStandMine
  <2>2. CASE DappNext /\ UNCHANGED call
    <3>1. AInv' /\ DInv' /\ (UNCHANGED txs \/ \E t \in TxType : txs' = Append(txs, t))
      BY <2>2, DappKeeps
    <3>2. CASE UNCHANGED txs
      <4>1. Len(txs') >= Len(txs)
        BY <3>2 DEF AInv
      <4> QED BY <2>2, <3>1, <3>2, <4>1, CallsStand
    <3>3. CASE \E t \in TxType : txs' = Append(txs, t)
      BY <2>2, <3>1, <3>3, CallsStandSubmit
    <3> QED BY <3>1, <3>2, <3>3
  <2>3. CASE SdkNext /\ UNCHANGED dappVars
    BY <2>3, <2>b, SdkKeeps
  <2>4. CASE UNCHANGED vars
    <3>1. UNCHANGED accountVars /\ UNCHANGED dappVars /\ UNCHANGED call
      BY <2>4 DEF vars
    <3>2. SInv'
      BY <2>a, <3>1 DEF SInv, SdkTypeOK
    <3> QED BY <2>a, <2>b, <3>1, <3>2
  <2> QED BY <2>1, <2>2, <2>3, <2>4 DEF Next
<1> QED BY <1>1, <1>2, PTL DEF Spec

(* The state of the page, of the program's calls and of the account stays   *)
(* well-formed.                                                             *)
THEOREM ClientsTyped == Spec => []ClientsTypeOK
<1>1. CInv => ClientsTypeOK
  <2> SUFFICES ASSUME CInv PROVE AccountTypeOK
    BY DEF CInv, DInv, SInv, ClientsTypeOK
  <2>1. \A i \in DOMAIN txs : txs[i].status \in Statuses /\ txs[i].arg \in Nat /\ txs[i].paid \in Nat
    <3> TAKE i \in DOMAIN txs
    <3>1. txs[i] \in TxType
      BY TxTypes DEF CInv, AInv
    <3> QED BY <3>1 DEF TxType
  <2> QED BY <2>1 DEF CInv, AInv, AccountTypeOK
<1> QED BY <1>1, CInvInductive, PTL

(* A swap sent again from an old view takes effect at most once: the nonces *)
(* of the swaps that took effect lie below the contract's.                  *)
THEOREM NonceUsedOnce == Spec => []OneSwapPerNonce
<1>1. CInv => OneSwapPerNonce
  BY DEF CInv, AInv
<1> QED BY <1>1, CInvInductive, PTL

(* The page's word on a delegate trade is true of the request it follows.   *)
THEOREM DelegateToldTruly == Spec => []DelegateResultTold
<1>1. CInv => DelegateResultTold
  BY DEF CInv, DInv
<1> QED BY <1>1, CInvInductive, PTL

(* Buyers pay no more than they were shown, however listings change: an     *)
(* allowance never exceeds the price behind it, and is mined before the     *)
(* purchase that uses it.                                                   *)
THEOREM BuyersConsented == Spec => []BuyerConsent
<1>1. CInv => BuyerConsent
  BY DEF CInv, AInv
<1> QED BY <1>1, CInvInductive, PTL

(* What an SDK method returns was mined and did not revert.                 *)
THEOREM ReturnedIsDone == Spec => []ReturnMeansDone
<1>1. CInv => ReturnMeansDone
  BY DEF CInv, SInv, ReturnMeansDone
<1> QED BY <1>1, CInvInductive, PTL

-----------------------------------------------------------------------------
(* The page.  The modal names the newest request, which is open while the   *)
(* mutation waits, and whose transaction is the one of the mutation's hash. *)
ModalNamesNewest ==
    modal # "none" =>
        /\ \A q \in requests : q.id = write.request => q.kind = modal
        /\ write.state = "wallet" => \E q \in requests : q.id = write.request
        /\ write.state = "hash" => write.hash \in DOMAIN txs /\ txs[write.hash].kind = modal

FeesFall == chain["fees"] <= Fees /\ view["fees"] <= Fees

ShownTypeOK ==
    /\ facts \subseteq Facts /\ seen \subseteq Facts
    /\ modal \in Kinds \union {"none"}
    /\ before \in Nat \union {NoSnapshot}

LeftInv ==
    /\ left \subseteq RequestType
    /\ \A q \in left : q.id \in 1..write.request /\ Agreed(q.kind, q.arg, q.shown)

PInv == AInv /\ DInv /\ ShownTypeOK /\ FeesFall /\ LeftInv /\ ModalNamesNewest

(* A button's handler is one of the front end's steps.                      *)
LEMMA HandlerIsDapp ==
    ASSUME NEW kind, Handler(kind)
    PROVE  DappNext
BY DEF Handler, DappNext

(* What a press of a button that sends does to the mutation.                *)
LEMMA PressOpens ==
    ASSUME AInv, DInv, NEW kind, Handler(kind), kind # "authorize"
    PROVE  /\ kind \in Kinds
           /\ write.request \in Nat /\ write'.request = write.request + 1 /\ write'.state = "wallet"
           /\ \E new : /\ requests' = requests \union {new} /\ new.kind = kind
                       /\ new.id = write'.request
           /\ UNCHANGED <<chain, txs, others, view>>
<1>1. PICK arg : Press(kind, arg)
  BY DEF Handler, PressPlain, ExecuteSwap, ExecuteAsDelegate, WithdrawFeesToTreasury,
     ClaimReferralRewards, ApprovePaymentForBuy, BuyStrategyNft
<1>2. kind \in Kinds
  BY DappAssumption DEF Handler, Kinds, Refs, PlainWrites, VaultWrites, SubscriptionWrites,
     ListingWrites, StrategyWrites, DaoWrites, ReferralWrites, DelegateWrites
<1>3. /\ write' = [request |-> write.request + 1, state |-> "wallet", hash |-> 0]
      /\ UNCHANGED <<chain, txs, others, view>>
  BY <1>1 DEF Press, Request, accountVars
<1>4. write.request \in Nat
  BY DEF DInv, DappTypeOK
<1> DEFINE new == [id |-> write.request + 1, kind |-> kind, arg |-> arg,
                   shown |-> IF kind = "approveBuy" THEN view["price"] ELSE 0]
<1>5. requests' = requests \union {new}
  BY <1>1 DEF Press, Request
<1>6. new.kind = kind /\ new.id = write'.request
  BY <1>3
<1> HIDE DEF new
<1> QED BY <1>1, <1>2, <1>3, <1>4, <1>5, <1>6

(* The newest request is the pressed button's, and the modal names it.      *)
LEMMA NewestNamed ==
    ASSUME AInv, DInv, write.request \in Nat, write'.request = write.request + 1,
           write'.state = "wallet", NEW new, requests' = requests \union {new},
           new.kind = modal', new.id = write'.request
    PROVE  ModalNamesNewest'
<1>1. \A q \in requests : q.id # write'.request
  BY DEF DInv, DappTypeOK
<1> QED BY <1>1 DEF ModalNamesNewest

(* Unmounting the page starts its state anew; what it leaves behind is well *)
(* formed.                                                                  *)
LEMMA LeaveKeeps ==
    ASSUME PInv, Leave
    PROVE  DInv' /\ LeftInv' /\ ModalNamesNewest'
<1>1. /\ view \in [Reads -> Nat] /\ write.request \in 0..MaxPresses /\ MaxPresses \in Nat
      /\ signing \in Nat \union {NotSigning} /\ requests \subseteq RequestType
      /\ \A q \in requests : q.id \in 1..write.request /\ Agreed(q.kind, q.arg, q.shown)
  BY DappAssumption DEF PInv, DInv, DappTypeOK
<1>2. /\ write'.request \in 0..MaxPresses /\ write'.state = "idle"
      /\ write'.request >= write.request
      /\ signing # NotSigning => write'.request = write.request + 1
      /\ write' \in [request : 0..MaxPresses, state : {"idle", "wallet", "hash", "error"}, hash : Nat]
  BY <1>1 DEF Leave
<1>3. /\ requests' = {} /\ signing' = NotSigning /\ refs' = {} /\ delegateResult' = "none"
      /\ takenOver' = FALSE /\ modal' = "none" /\ view' = view
      /\ last' = [r \in {"withdraw", "delegateSwap"} |-> "none"]
      /\ left' = left \union LeftBehind
  BY DEF Leave, PInv, DInv, DappTypeOK
<1>4. DappTypeOK'
  BY <1>1, <1>2, <1>3 DEF DappTypeOK
<1>5. DInv'
  BY <1>3, <1>4 DEF DInv, FollowsDelegate, DelegateResultTold
<1>6. ModalNamesNewest'
  BY <1>3 DEF ModalNamesNewest
<1>7. \A q \in LeftBehind : q \in RequestType /\ q.id \in 1..write'.request
                            /\ Agreed(q.kind, q.arg, q.shown)
  <2> SUFFICES ASSUME NEW q \in LeftBehind
               PROVE  q \in RequestType /\ q.id \in 1..write'.request /\ Agreed(q.kind, q.arg, q.shown)
    OBVIOUS
  <2>1. CASE q \in requests
    BY <1>1, <1>2, <2>1
  <2>2. CASE q \notin requests
    <3>1. /\ signing # NotSigning
          /\ q = [id |-> write.request + 1, kind |-> "authorize", arg |-> signing, shown |-> 0]
      BY <2>2 DEF LeftBehind
    <3>2. "authorize" \in Kinds /\ signing \in Nat /\ write.request \in Nat
      BY <1>1, <3>1 DEF Kinds
    <3>3. q \in RequestType
      BY <3>1, <3>2 DEF RequestType
    <3>4. q.id = write'.request /\ q.id \in 1..write'.request
      BY <1>2, <3>1, <3>2
    <3>5. Agreed(q.kind, q.arg, q.shown)
      BY <3>1 DEF Agreed
    <3> QED BY <3>3, <3>4, <3>5
  <2> QED BY <2>1, <2>2
<1>8. \A q \in left : q \in RequestType /\ q.id \in 1..write'.request /\ Agreed(q.kind, q.arg, q.shown)
  BY <1>1, <1>2 DEF PInv, LeftInv
<1>9. LeftInv'
  BY <1>3, <1>7, <1>8 DEF LeftInv
<1> QED BY <1>5, <1>6, <1>9

(* An answer, or a rejection, of the newest request or of an older one.     *)
LEMMA AnswersKeepModal ==
    ASSUME PInv, WalletAnswers
    PROVE  ModalNamesNewest' /\ write'.request = write.request
<1>1. PICK q \in requests : Answered(q) \/ Rejected(q)
  BY DEF WalletAnswers
<1>2. modal' = modal /\ requests' = requests \ {q} /\ write'.request = write.request
  BY <1>1 DEF WalletAnswers, shownVars, Answered, Rejected, PInv, DInv, DappTypeOK
<1>a. txs' = txs \/ \E t : txs' = Append(txs, t)
  BY <1>1, Zenon DEF Answered, Rejected, accountVars
<1>3. \A i \in DOMAIN txs : i \in DOMAIN txs' /\ txs'[i] = txs[i]
  BY <1>a DEF PInv, AInv
<1> SUFFICES ASSUME modal # "none"
             PROVE  /\ write'.state = "wallet" => \E r \in requests' : r.id = write'.request
                    /\ write'.state = "hash" =>
                          write'.hash \in DOMAIN txs' /\ txs'[write'.hash].kind = modal
  BY <1>2 DEF ModalNamesNewest, PInv
<1>4. CASE q.id = write.request /\ Answered(q)
  <2>1. write'.state = "hash" /\ write'.hash = Len(txs) + 1 /\ txs' = Append(txs, Tx(q.kind, q.arg, q.shown))
    BY <1>4 DEF Answered, PInv, DInv, DappTypeOK
  <2>2. q.kind = modal
    BY <1>4 DEF PInv, ModalNamesNewest
  <2>3. Len(txs) + 1 \in DOMAIN txs' /\ txs'[Len(txs) + 1].kind = modal
    BY <2>1, <2>2 DEF Tx, PInv, AInv
  <2> QED BY <2>1, <2>3
<1>5. CASE q.id = write.request /\ Rejected(q)
  BY <1>5 DEF Rejected, PInv, DInv, DappTypeOK
<1>6. CASE q.id # write.request
  <2>1. write' = write
    BY <1>1, <1>6 DEF Answered, Rejected
  <2> QED BY <1>2, <1>3, <1>6, <2>1 DEF PInv, ModalNamesNewest
<1> QED BY <1>1, <1>4, <1>5, <1>6

(* The FeeManager pays out and takes nothing in.                            *)
LEMMA FeesOnlyFall ==
    ASSUME AInv, \/ \E i \in DOMAIN txs : Mine(i) \/ Revert(i)
                 \/ Elsewhere
                 \/ UNCHANGED chain
    PROVE  chain'["fees"] <= chain["fees"]
<1>1. \A r \in Reads : chain[r] \in Nat
  BY DEF AInv
<1>2. CASE \E i \in DOMAIN txs : Mine(i)
  <2>1. PICK i \in DOMAIN txs : Mine(i)
    BY <1>2
  <2>2. chain' = Effect(txs[i].kind, txs[i].arg) /\ txs[i].arg \in Nat
    BY <2>1, TxTypes DEF Mine, AInv
  <2>3. chain' = chain \/ chain'["fees"] = chain["fees"] \/ chain'["fees"] = chain["fees"] - txs[i].arg
    BY <2>2 DEF Effect, AInv, Reads
  <2> QED BY <1>1, <2>2, <2>3 DEF Reads
<1>3. CASE Elsewhere
  BY <1>1, <1>3, AccountAssumption DEF Elsewhere, AInv, Reads
<1>4. CASE (\E i \in DOMAIN txs : Revert(i)) \/ UNCHANGED chain
  BY <1>1, <1>4 DEF Revert, Reads
<1> QED BY <1>2, <1>3, <1>4

(* What a step of the page leaves alone stays as it is.                     *)
LEMMA PageStands ==
    ASSUME PInv, UNCHANGED <<write, requests, modal>>,
           \/ UNCHANGED txs
           \/ \E t : txs' = Append(txs, t)
           \/ \E i \in DOMAIN txs : \E t : txs' = [txs EXCEPT ![i] = t] /\ t.kind = txs[i].kind
    PROVE  ModalNamesNewest'
<1>1. txs \in Seq(TxType)
  BY DEF PInv, AInv
<1>2. \A i \in DOMAIN txs : i \in DOMAIN txs' /\ txs'[i].kind = txs[i].kind
  BY <1>1
<1> QED BY <1>2 DEF PInv, ModalNamesNewest

(* The facets of the page's invariant that a step leaves alone.             *)
LEMMA LeftStays ==
    ASSUME PInv, left' \subseteq left, write'.request \in Nat, write'.request >= write.request
    PROVE  LeftInv'
<1>1. write.request \in Nat
  BY DEF PInv, DInv, DappTypeOK
<1>2. \A q \in left' : q \in RequestType /\ q.id \in 1..write.request /\ Agreed(q.kind, q.arg, q.shown)
  BY DEF PInv, LeftInv
<1>3. 1..write.request \subseteq 1..write'.request
  BY <1>1
<1> QED BY <1>2, <1>3 DEF LeftInv

(* The press of an enabled button, on which the modal names the request or  *)
(* the signature is awaited.                                                *)
LEMMA PressButtonKeeps ==
    ASSUME PInv, NEW kind \in Kinds, PressButton(kind)
    PROVE  PInv'
<1>1. Handler(kind) /\ AInv' /\ DInv'
  BY HandlerIsDapp, DappKeeps DEF PressButton, PInv
<1>2. modal' = NamedBy(kind) /\ UNCHANGED <<facts, seen, left>>
  BY DEF PressButton
<1>3. TreasurySeen \in Nat
  <2>1. view["fees"] \in Nat /\ view["fees"] <= Fees
    BY DEF PInv, DInv, DappTypeOK, FeesFall, Reads
  <2> QED BY <2>1, AccountAssumption DEF TreasurySeen
<1>4. ShownTypeOK'
  BY <1>2, <1>3 DEF PressButton, PInv, ShownTypeOK, NamedBy
<1>5. CASE kind = "authorize"
  <2>1. AuthorizeDelegate
    BY <1>1, <1>5, DappAssumption DEF Handler, PlainWrites, VaultWrites, SubscriptionWrites,
       ListingWrites, StrategyWrites, DaoWrites, ReferralWrites, DelegateWrites
  <2>2. UNCHANGED <<write, requests, chain, txs, view, modal>>
    BY <1>2, <1>5, <2>1 DEF AuthorizeDelegate, NamedBy, accountVars
  <2>3. write.request \in Nat
    BY DEF PInv, DInv, DappTypeOK
  <2> QED BY <1>1, <1>2, <1>4, <2>2, <2>3, LeftStays, PageStands DEF PInv, FeesFall
<1>6. CASE kind # "authorize"
  <2>1. /\ write.request \in Nat /\ write'.request = write.request + 1 /\ write'.state = "wallet"
        /\ UNCHANGED <<chain, txs, others, view>>
    BY <1>1, <1>6, PressOpens DEF PInv
  <2>2. PICK new : requests' = requests \union {new} /\ new.kind = kind /\ new.id = write'.request
    BY <1>1, <1>6, PressOpens DEF PInv
  <2>3. modal' = kind
    BY <1>2, <1>6 DEF NamedBy
  <2>4. ModalNamesNewest'
    BY <2>1, <2>2, <2>3, NewestNamed DEF PInv
  <2> QED BY <1>1, <1>2, <1>4, <2>1, <2>4, LeftStays DEF PInv, FeesFall
<1> QED BY <1>5, <1>6

(* The typed-data signature is given, and its request takes over the modal, *)
(* or it is refused.                                                        *)
LEMMA SignKeeps ==
    ASSUME PInv, Sign
    PROVE  PInv'
<1>1. AInv' /\ DInv'
  BY DappKeeps DEF Sign, DappNext, PInv
<1>2. write.request \in Nat
  BY DEF PInv, DInv, DappTypeOK
<1>3. CASE Signed /\ modal' = "authorize" /\ UNCHANGED <<facts, seen, before, left>>
  <2>1. write' = [request |-> write.request + 1, state |-> "wallet", hash |-> 0] /\ UNCHANGED <<chain, txs, view>>
    BY <1>3 DEF Signed, Request, accountVars
  <2> DEFINE new == [id |-> write.request + 1, kind |-> "authorize", arg |-> signing, shown |-> 0]
  <2>2. requests' = requests \union {new}
    BY <1>3 DEF Signed, Request
  <2>3. new.kind = modal' /\ new.id = write'.request
    BY <1>3, <2>1
  <2> HIDE DEF new
  <2>4. ModalNamesNewest'
    BY <1>2, <2>1, <2>2, <2>3, NewestNamed DEF PInv
  <2>5. ShownTypeOK'
    BY <1>3 DEF PInv, ShownTypeOK, Kinds
  <2> QED BY <1>1, <1>2, <1>3, <2>1, <2>4, <2>5, LeftStays DEF PInv, FeesFall
<1>4. CASE SignatureRefused /\ UNCHANGED shownVars
  <2>1. UNCHANGED <<write, requests, chain, txs, view, modal, facts, seen, before, left>>
    BY <1>4 DEF SignatureRefused, shownVars, accountVars
  <2> QED BY <1>1, <1>2, <2>1, LeftStays, PageStands DEF PInv, FeesFall, ShownTypeOK
<1> QED BY <1>3, <1>4 DEF Sign

(* The wallet's answers reach the page while it is open.                    *)
LEMMA WalletAnswersKeep ==
    ASSUME PInv, WalletAnswers
    PROVE  PInv'
<1>1. PICK q \in requests : Answered(q) \/ Rejected(q)
  BY DEF WalletAnswers
<1>2. AInv' /\ DInv'
  BY <1>1, DappKeeps DEF DappNext, PInv
<1>3. ModalNamesNewest' /\ write'.request = write.request /\ write.request \in Nat
  BY AnswersKeepModal DEF PInv, DInv, DappTypeOK
<1>4. UNCHANGED <<facts, seen, modal, before, left>>
  BY DEF WalletAnswers, shownVars
<1>5. chain' = chain
  BY <1>1 DEF Answered, Rejected, accountVars
<1>6. view'["fees"] = view["fees"]
  BY <1>1 DEF Answered, Rejected, PInv, DInv, DappTypeOK, Reads
<1> QED BY <1>2, <1>3, <1>4, <1>5, <1>6, LeftStays DEF PInv, ShownTypeOK, FeesFall

(* The user leaves; the modal is closed and names nothing.                  *)
LEMMA LeavingKeeps ==
    ASSUME PInv, Leave
    PROVE  PInv'
<1>1. DInv' /\ LeftInv' /\ ModalNamesNewest'
  BY LeaveKeeps
<1>2. UNCHANGED <<chain, txs, others, view, facts, seen>> /\ modal' = "none" /\ before' = NoSnapshot
  BY DEF Leave, accountVars
<1>3. AInv'
  BY <1>2 DEF PInv, AInv, InOrder, NoncesSpent, ApprovalsShown, AllowanceAgreed,
         OneSwapPerNonce, BuyerConsent, Did
<1>4. ShownTypeOK' /\ FeesFall'
  BY <1>2 DEF PInv, ShownTypeOK, FeesFall
<1> QED BY <1>1, <1>3, <1>4 DEF PInv

(* The answer to a request that was left behind reaches the chain and not   *)
(* the page.                                                                *)
LEMMA AnswerLeftKeeps ==
    ASSUME PInv, AnswerLeft
    PROVE  PInv'
<1>1. PICK q \in left : /\ left' = left \ {q}
                        /\ \/ txs' = Append(txs, Tx(q.kind, q.arg, q.shown))
                           \/ UNCHANGED txs
  BY DEF AnswerLeft
<1>2. UNCHANGED <<chain, others, view, write, requests, facts, seen, modal, before>> /\ UNCHANGED dappVars
  BY DEF AnswerLeft, dappVars
<1>3. DInv'
  BY <1>2 DEF PInv, dappVars, DInv, DappTypeOK, FollowsDelegate, DelegateResultTold, Idle
<1> DEFINE t == Tx(q.kind, q.arg, q.shown)
<1>4. t \in TxType /\ t.status = "pool" /\ Agreed(t.kind, t.arg, t.shown)
  <2>1. q \in RequestType /\ Agreed(q.kind, q.arg, q.shown)
    BY DEF PInv, LeftInv
  <2> QED BY <2>1 DEF Tx, TxType, RequestType, AnyKind, Statuses, Agreed
<1> HIDE DEF t
<1>5. AInv'
  <2>1. CASE txs' = Append(txs, t)
    BY <1>2, <1>4, <2>1, SubmitKeeps DEF PInv
  <2>2. CASE UNCHANGED txs
    BY <1>2, <2>2 DEF PInv, AInv, InOrder, NoncesSpent, ApprovalsShown, AllowanceAgreed,
       OneSwapPerNonce, BuyerConsent, Did
  <2> QED BY <1>1, <2>1, <2>2 DEF t
<1>6. write.request \in Nat
  BY DEF PInv, DInv, DappTypeOK
<1>7. ModalNamesNewest'
  BY <1>1, <1>2, PageStands
<1> QED BY <1>1, <1>2, <1>3, <1>5, <1>6, <1>7, LeftStays DEF PInv, ShownTypeOK, FeesFall

(* Steps of the chain, of this account or of others.                        *)
LEMMA ChainKeeps ==
    ASSUME PInv, Mined \/ ChangedElsewhere
    PROVE  PInv'
<1>1. UNCHANGED <<view, write, requests, seen, modal, before, left>> /\ UNCHANGED dappVars
  BY DEF Mined, ChangedElsewhere, shownVars, dappVars
<1>2. DInv'
  BY <1>1 DEF PInv, dappVars, DInv, DappTypeOK, FollowsDelegate, DelegateResultTold, Idle
<1>3. facts' \subseteq Facts
  <2>1. CASE Mined
    <3>1. \A kind : Brings(kind) \subseteq Facts
      BY DEF Brings, Facts, OwnFacts, ForeignFacts
    <3> QED BY <2>1, <3>1 DEF Mined, PInv, ShownTypeOK
  <2>2. CASE ChangedElsewhere
    BY <2>2 DEF ChangedElsewhere, shownVars, Facts, ForeignFacts, PInv, ShownTypeOK
  <2> QED BY <2>1, <2>2
<1>4. \/ \E i \in DOMAIN txs : Mine(i) \/ Revert(i)
      \/ Elsewhere
      \/ UNCHANGED <<chain, txs>> /\ others' = others + 1 /\ others < MaxOthers
  BY DEF Mined, ChangedElsewhere
<1>5. AInv'
  <2>1. CASE UNCHANGED <<chain, txs>> /\ others' = others + 1 /\ others < MaxOthers
    <3>1. others' \in 0..MaxOthers
      BY <2>1, AccountAssumption DEF PInv, AInv
    <3> QED BY <2>1, <3>1 DEF PInv, AInv, InOrder, NoncesSpent, ApprovalsShown, AllowanceAgreed,
       OneSwapPerNonce, BuyerConsent, Did
  <2> QED BY <1>4, <2>1, MineKeeps, RevertKeeps, ElsewhereKeeps DEF PInv
<1>6. FeesFall'
  <2>1. chain'["fees"] <= chain["fees"] /\ chain["fees"] \in Nat /\ chain'["fees"] \in Nat
    BY <1>4, <1>5, FeesOnlyFall DEF PInv, AInv, Reads
  <2> QED BY <1>1, <2>1, AccountAssumption DEF PInv, FeesFall
<1>7. ModalNamesNewest'
  <2>1. \/ UNCHANGED txs
        \/ \E i \in DOMAIN txs : \E t : txs' = [txs EXCEPT ![i] = t] /\ t.kind = txs[i].kind
    <3>1. ASSUME NEW i \in DOMAIN txs, Mine(i) \/ Revert(i)
          PROVE  \E t : txs' = [txs EXCEPT ![i] = t] /\ t.kind = txs[i].kind
      <4>1. txs[i] \in TxType
        BY TxTypes DEF PInv, AInv
      <4>2. CASE Mine(i)
        <5> DEFINE t == [txs[i] EXCEPT !.status = "ok", !.paid = IF txs[i].kind = "buy" THEN chain["price"] ELSE 0]
        <5>1. txs' = [txs EXCEPT ![i] = t]
          BY <4>2 DEF Mine
        <5>2. t.kind = txs[i].kind
          BY <4>1 DEF TxType
        <5> QED BY <5>1, <5>2
      <4>3. CASE Revert(i)
        <5> DEFINE t == [txs[i] EXCEPT !.status = "reverted"]
        <5>1. txs' = [txs EXCEPT ![i] = t]
          BY <4>3 DEF Revert
        <5>2. t.kind = txs[i].kind
          BY <4>1 DEF TxType
        <5> QED BY <5>1, <5>2
      <4> QED BY <3>1, <4>2, <4>3
    <3> QED BY <1>4, <3>1 DEF Elsewhere
  <2> QED BY <1>1, <2>1, PageStands
<1>8. write'.request \in Nat /\ write'.request >= write.request
  BY <1>1 DEF PInv, DInv, DappTypeOK
<1> QED BY <1>1, <1>2, <1>3, <1>5, <1>6, <1>7, <1>8, LeftStays DEF PInv, ShownTypeOK

(* The page's invariant always holds.                                       *)
LEMMA PInvInductive == PageSpec => []PInv
<1>1. PageInit => PInv
  <2> SUFFICES ASSUME PageInit PROVE PInv
    OBVIOUS
  <2>1. chain \in [Reads -> Nat] /\ chain["buyAllowance"] = 0 /\ chain["fees"] = Fees
    BY AccountAssumption DEF PageInit, AccountInit, Reads
  <2>2. txs = <<>> /\ others = 0
    BY DEF PageInit, AccountInit
  <2>3. AInv
    BY <2>1, <2>2, AccountAssumption DEF AInv, InOrder, NoncesSpent, ApprovalsShown, AllowanceAgreed,
       OneSwapPerNonce, BuyerConsent
  <2>4. /\ view = chain /\ write = [request |-> 0, state |-> "idle", hash |-> 0] /\ requests = {}
        /\ signing = NotSigning /\ refs = {} /\ delegateResult = "none" /\ takenOver = FALSE
        /\ last = [r \in {"withdraw", "delegateSwap"} |-> "none"]
    BY DEF PageInit, DappInit
  <2>5. write \in [request : 0..MaxPresses, state : {"idle", "wallet", "hash", "error"}, hash : Nat]
    BY <2>4, DappAssumption
  <2>6. DappTypeOK
    BY <2>1, <2>4, <2>5 DEF DappTypeOK
  <2>7. DInv
    BY <2>4, <2>6 DEF DInv, FollowsDelegate, DelegateResultTold
  <2>8. ShownTypeOK /\ LeftInv /\ ModalNamesNewest
    BY PageAssumption DEF PageInit, ShownTypeOK, LeftInv, ModalNamesNewest
  <2>9. FeesFall
    BY <2>1, <2>4, AccountAssumption DEF FeesFall
  <2> QED BY <2>3, <2>7, <2>8, <2>9 DEF PInv
<1>2. PInv /\ [PageNext]_pageVars => PInv'
  <2> SUFFICES ASSUME PInv, [PageNext]_pageVars PROVE PInv'
    OBVIOUS
  <2>a. UNCHANGED accountVars => AInv' /\ UNCHANGED <<chain, txs>>
    BY DEF accountVars, PInv, AInv, InOrder, NoncesSpent, ApprovalsShown, AllowanceAgreed,
           OneSwapPerNonce, BuyerConsent, Did
  <2>b. UNCHANGED dappVars => DInv' /\ UNCHANGED <<view, write, requests>>
    BY DEF dappVars, PInv, DInv, DappTypeOK, FollowsDelegate, DelegateResultTold, Idle
  <2>c. write.request \in Nat
    BY DEF PInv, DInv, DappTypeOK
  <2>1. ASSUME NEW kind \in Kinds, PressButton(kind) PROVE PInv'
    BY <2>1, PressButtonKeeps
  <2>2. CASE CloseModal
    <3>1. ModalNamesNewest' /\ ShownTypeOK'
      BY <2>2 DEF CloseModal, ModalNamesNewest, PInv, ShownTypeOK
    <3>2. UNCHANGED accountVars /\ UNCHANGED dappVars /\ left' = left
      BY <2>2 DEF CloseModal
    <3> QED BY <2>a, <2>b, <2>c, <3>1, <3>2, LeftStays DEF PInv, FeesFall
  <2>3. CASE ReadAgain
    <3>1. /\ UNCHANGED accountVars /\ UNCHANGED <<chain, txs>> /\ view' = chain /\ seen' = facts
          /\ UNCHANGED <<write, requests, signing, refs, last, delegateResult, takenOver>>
          /\ UNCHANGED <<facts, modal, before, left>>
      BY <2>3 DEF ReadAgain, accountVars
    <3>2. view' \in [Reads -> Nat] /\ signing' \in Nat \union {NotSigning}
      BY <3>1 DEF PInv, AInv, DInv, DappTypeOK
    <3>3. DInv'
      BY <3>1, <3>2, PageWaits DEF PInv
    <3>4. ModalNamesNewest'
      BY <3>1, PageStands
    <3> QED BY <2>a, <2>c, <3>1, <3>3, <3>4, LeftStays DEF PInv, FeesFall, ShownTypeOK
  <2>4. CASE UNCHANGED pageVars
    <3>1. UNCHANGED accountVars /\ UNCHANGED dappVars /\ UNCHANGED <<facts, seen, modal, before, left>>
      BY <2>4 DEF pageVars, shownVars
    <3>2. ModalNamesNewest'
      BY <2>a, <2>b, <3>1, PageStands
    <3> QED BY <2>a, <2>b, <2>c, <3>1, <3>2, LeftStays DEF PInv, FeesFall, ShownTypeOK
  <2> QED BY <2>1, <2>2, <2>3, <2>4, SignKeeps, WalletAnswersKeep, LeavingKeeps, AnswerLeftKeeps,
             ChainKeeps DEF PageNext
<1> QED BY <1>1, <1>2, PTL DEF PageSpec

(* The page's own state stays well-formed, also after its user left it.     *)
THEOREM PageTyped == PageSpec => []PageTypeOK
<1>1. PInv => PageTypeOK
  <2> SUFFICES ASSUME PInv PROVE PageTypeOK
    OBVIOUS
  <2>1. \A i \in DOMAIN txs : txs[i].status \in Statuses /\ txs[i].arg \in Nat /\ txs[i].paid \in Nat
    <3> TAKE i \in DOMAIN txs
    <3>1. txs[i] \in TxType
      BY TxTypes DEF PInv, AInv
    <3> QED BY <3>1 DEF TxType
  <2>2. \A q \in left : q.id \in 1..write.request /\ q.kind \in Kinds
    BY DEF PInv, LeftInv, RequestType
  <2> QED BY <2>1, <2>2 DEF PInv, AInv, DInv, AccountTypeOK, ShownTypeOK, PageTypeOK
<1> QED BY <1>1, PInvInductive, PTL

(* What the modal says of an action is true of that action's request: it    *)
(* never names one action and reports another.                              *)
THEOREM ModalTrue == PageSpec => []ModalTellsTruth
<1>1. PInv => ModalTellsTruth
  BY DEF PInv, ModalNamesNewest, ModalTellsTruth
<1> QED BY <1>1, PInvInductive, PTL

(* A page that is left and opened again may ask for the same swap twice;    *)
(* one of the two takes effect.                                             *)
THEOREM NonceUsedOnceOnPage == PageSpec => []OneSwapPerNonce
<1>1. PInv => OneSwapPerNonce
  BY DEF PInv, AInv
<1> QED BY <1>1, PInvInductive, PTL
=============================================================================
