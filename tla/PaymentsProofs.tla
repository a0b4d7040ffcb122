---------------------------- MODULE PaymentsProofs ----------------------------
(***************************************************************************)
(* Payments is safe for any transactions and users, any number of webhooks *)
(* and verifications in flight, and any number of retries and faults.      *)
(***************************************************************************)
EXTENDS Payments, TLAPS

(***************************************************************************)
(* The inductive invariant.                                                *)
(***************************************************************************)
\* A slot in use works on a transaction that was begun.
Grounded ==
  \A s \in Slots : slot[s].step # "idle" =>
    slot[s].txn \in Transactions /\ txn[slot[s].txn].status # None

\* A transaction that was begun has its user and its reason.
Begun ==
  \A t \in Transactions : txn[t].status # None =>
    txn[t].userId \in Users /\ txn[t].paymentReason \in PaymentReason

\* What a slot is about to write is what the gateway decided, and the gateway
\* does not change its mind.
Informed(v) ==
  /\ v.step = "webhook" => v.charge \in {"pending", gateway[v.txn]}
  /\ v.step \in {"refuse", "failed"} => gateway[v.txn] = "failed"
  /\ v.step = "commit" => gateway[v.txn] = "successful"

AllInformed == \A s \in Slots : Informed(slot[s])

\* Unless two verifications met, there is one at a time, and none after the
\* one that granted the plan.
OneAtATime ==
  \A t \in Transactions \ raced :
    /\ \A s, o \in Slots : Verifying(s, t) /\ Verifying(o, t) => s = o
    /\ credits[t] > 0 => /\ credits[t] = 1 /\ txn[t].status = "SUCCESSFUL"
                         /\ \A s \in Slots : ~Verifying(s, t)

PInv == /\ TypeOK /\ Grounded /\ Begun /\ AllInformed /\ OneAtATime
        /\ VerdictIsTheGateways /\ SuccessIsCredited

(***************************************************************************)
(* Slots.                                                                  *)
(***************************************************************************)
LEMMA IdleType == Idle \in Slot /\ Idle.step = "idle"
  BY PaymentsAssumption DEF Idle, Slot, Attempts

\* A slot takes a well-typed record.
LEMMA GotoType ==
  ASSUME TypeOK, NEW s \in Slots, NEW v \in Slot, Goto(s, v)
  PROVE  /\ slot' \in [Slots -> Slot]
         /\ slot'[s] = v
         /\ \A o \in Slots \ {s} : slot'[o] = slot[o]
  BY DEF TypeOK, Goto

\* What a webhook goes on with is well typed, and still its transaction.
LEMMA DecidedType ==
  ASSUME NEW v \in Slot
  PROVE  /\ Decided(v) \in Slot
         /\ Decided(v).step \in {"idle", "load", "refuse"}
         /\ Decided(v).step # "idle" => Decided(v).txn = v.txn
         /\ Decided(v).step = "refuse" => v.charge = "failed"
  BY IdleType DEF Decided, Slot

\* A retry, or giving up, goes on with the same transaction.
LEMMA RetryType ==
  ASSUME TypeOK, NEW s \in Slots, Retry(s)
  PROVE  \E v \in Slot : /\ Goto(s, v)
                         /\ v.step \in {"attempt", "error"} /\ v.txn = slot[s].txn
<1> DEFINE again == [slot[s] EXCEPT !.step = "attempt", !.attempt = @ + 1]
           over == [slot[s] EXCEPT !.step = "error"]
<1>1. slot[s] \in Slot
  BY DEF TypeOK
<1>2. over \in Slot /\ over.step = "error" /\ over.txn = slot[s].txn
  BY <1>1 DEF Slot
<1>3. ASSUME slot[s].attempt <= Retries
      PROVE  again \in Slot /\ again.step = "attempt" /\ again.txn = slot[s].txn
  <2>1. slot[s].attempt + 1 \in Attempts
    BY <1>1, <1>3, PaymentsAssumption DEF Slot, Attempts
  <2> QED BY <1>1, <2>1 DEF Slot
<1> QED BY <1>2, <1>3 DEF Retry, Step

(***************************************************************************)
(* Types.                                                                  *)
(***************************************************************************)
Basis == TypeOK /\ Grounded /\ Begun

\* A row edited by a handler is a row, with the same user and reason.
Kept(r, row) == r.userId = row.userId /\ r.paymentReason = row.paymentReason

LEMMA RowEdits ==
  ASSUME NEW row \in Transaction, NEW n \in Attempts
  PROVE  /\ \A st \in TransactionStatus : [row EXCEPT !.status = st] \in Transaction
         /\ [row EXCEPT !.externalId = TRUE] \in Transaction
         /\ [row EXCEPT !.recent = FALSE] \in Transaction
         /\ [row EXCEPT !.verificationAttempts = n, !.recent = TRUE] \in Transaction
         /\ \A st \in TransactionStatus :
              [row EXCEPT !.status = st, !.verificationAttempts = n, !.recent = TRUE]
                \in Transaction
  BY DEF Transaction

\* One slot moves to a record of its own, one row to a row that still has a status.
LEMMA BasisStep ==
  ASSUME Basis, NEW t \in Transactions, NEW row \in Transaction,
         txn' = [txn EXCEPT ![t] = row], row.status # None,
         row.userId \in Users, row.paymentReason \in PaymentReason,
         NEW s \in Slots, NEW v \in Slot, Goto(s, v),
         v.step # "idle" => v.txn = t
  PROVE  /\ txn' \in [Transactions -> Transaction] /\ slot' \in [Slots -> Slot]
         /\ Grounded' /\ Begun'
  BY GotoType DEF Basis, TypeOK, Grounded, Begun

\* One slot moves and the table stays.
LEMMA BasisMove ==
  ASSUME Basis, UNCHANGED txn, NEW s \in Slots, NEW v \in Slot, Goto(s, v),
         v.step # "idle" => v.txn \in Transactions /\ txn[v.txn].status # None
  PROVE  slot' \in [Slots -> Slot] /\ Grounded' /\ Begun'
  BY GotoType DEF Basis, TypeOK, Grounded, Begun

LEMMA InitiateBasis ==
  ASSUME Basis, NEW t \in Transactions, NEW u \in Users, NEW reason \in PaymentReason,
         InitiateTransaction(t, u, reason)
  PROVE  Basis'
<1> DEFINE row == [NoTransaction EXCEPT !.status = "PENDING", !.userId = u,
                                        !.paymentReason = reason]
<1>1. row \in Transaction /\ row.status # None /\ row.userId = u /\ row.paymentReason = reason
  <2>1. 0 \in Attempts
    BY PaymentsAssumption DEF Attempts
  <2>2. NoTransaction \in Transaction
    BY <2>1 DEF NoTransaction, Transaction
  <2>3. "PENDING" \in TransactionStatus /\ "PENDING" # None
    BY PaymentsAssumption DEF TransactionStatus
  <2> QED BY <2>2, <2>3 DEF Transaction
<1>2. txn' = [txn EXCEPT ![t] = row]
  BY DEF InitiateTransaction
<1> HIDE DEF row
<1> QED BY <1>1, <1>2 DEF InitiateTransaction, Basis, TypeOK, Grounded, Begun

LEMMA WebhookBasis ==
  ASSUME Basis, NEW s \in Slots,
         HandleWebhook(s) \/ \E t \in Transactions, charge \in ChargeStatus :
                              ReceiveWebhook(s, t, charge)
  PROVE  Basis'
<1>1. ASSUME NEW t \in Transactions, NEW charge \in ChargeStatus, ReceiveWebhook(s, t, charge)
      PROVE  Basis'
  <2> DEFINE v == [Idle EXCEPT !.step = "webhook", !.txn = t, !.status = txn[t].status,
                               !.charge = charge]
             w == IF txn[t].externalId THEN Decided(v) ELSE v
  <2>1. v \in Slot /\ v.txn = t
    BY <1>1, IdleType DEF Slot, Idle, Basis, TypeOK, Transaction
  <2>2. Goto(s, w) /\ txn[t].status # None /\ UNCHANGED <<txn, subscription, gateway, faults, credits, raced>>
    BY <1>1 DEF ReceiveWebhook
  <2> HIDE DEF v
  <2>3. w \in Slot /\ (w.step # "idle" => w.txn = t)
    BY <2>1, DecidedType
  <2> HIDE DEF w
  <2> QED BY <2>2, <2>3, BasisMove DEF Basis, TypeOK
<1>2. CASE HandleWebhook(s)
  <2> DEFINE t == slot[s].txn
             w == Decided(slot[s])
             row == [txn[t] EXCEPT !.externalId = TRUE]
  <2>1. slot[s] \in Slot /\ t \in Transactions /\ txn[t] \in Transaction /\ txn[t].status # None
    BY <1>2 DEF HandleWebhook, Basis, TypeOK, Grounded
  <2>2. w \in Slot /\ (w.step # "idle" => w.txn = t)
    BY <2>1, DecidedType
  <2>3. row \in Transaction /\ row.status = txn[t].status /\ Kept(row, txn[t])
    BY <2>1 DEF Transaction, Kept
  <2>4. txn' = [txn EXCEPT ![t] = row] /\ Goto(s, w)
    BY <1>2 DEF HandleWebhook
  <2> HIDE DEF w, row
  <2> QED BY <1>2, <2>1, <2>2, <2>3, <2>4, BasisStep DEF HandleWebhook, Kept, Basis, TypeOK, Begun
<1> QED BY <1>1, <1>2

LEMMA ReadBasis ==
  ASSUME Basis, NEW s \in Slots,
         \/ \E t \in Transactions : HandlePendingTransactionPolling(s, t)
         \/ LoadTransaction(s) \/ CallGateway(s)
  PROVE  Basis'
<1>1. ASSUME NEW t \in Transactions, HandlePendingTransactionPolling(s, t) PROVE Basis'
  <2> DEFINE v == [Idle EXCEPT !.step = "load", !.txn = t]
  <2>1. v \in Slot /\ v.txn = t
    BY IdleType DEF Slot, Idle
  <2>2. Goto(s, v) /\ UNCHANGED <<txn, subscription, gateway, faults, credits, raced>>
        /\ txn[t].status # None
    BY <1>1, PaymentsAssumption DEF HandlePendingTransactionPolling, TransactionStatus
  <2> HIDE DEF v
  <2> QED BY <2>1, <2>2, BasisMove DEF Basis, TypeOK
<1>2. CASE LoadTransaction(s)
  <2>1. slot[s] \in Slot /\ slot[s].txn \in Transactions /\ txn[slot[s].txn].status # None
    BY <1>2 DEF LoadTransaction, Basis, TypeOK, Grounded
  <2>2. UNCHANGED <<txn, subscription, gateway, faults, credits>>
    BY <1>2 DEF LoadTransaction
  <2>3. CASE Finish(s) /\ UNCHANGED raced
    BY <2>2, <2>3, IdleType, BasisMove DEF Finish, Basis, TypeOK
  <2>4. CASE Verify(s)
    <3> DEFINE v == [slot[s] EXCEPT !.step = "attempt", !.attempt = 1]
    <3>0. 1 \in Attempts
      BY PaymentsAssumption DEF Attempts
    <3>1. v \in Slot /\ v.txn = slot[s].txn
      BY <2>1, <3>0 DEF Slot
    <3>2. Goto(s, v) /\ raced' \subseteq Transactions
      BY <2>1, <2>4 DEF Verify, Basis, TypeOK
    <3> HIDE DEF v
    <3> QED BY <2>1, <2>2, <3>1, <3>2, BasisMove DEF Basis, TypeOK
  <2> QED BY <1>2, <2>3, <2>4 DEF LoadTransaction
<1>3. CASE CallGateway(s)
  <2>1. slot[s] \in Slot /\ slot[s].txn \in Transactions /\ txn[slot[s].txn].status # None
        /\ gateway[slot[s].txn] \in ChargeStatus
    BY <1>3 DEF CallGateway, Basis, TypeOK, Grounded
  <2>2. UNCHANGED <<txn, subscription, gateway, faults, credits, raced>>
    BY <1>3 DEF CallGateway
  <2>3. \E v \in Slot : Goto(s, v) /\ v.txn = slot[s].txn
    BY <1>3, <2>1, RetryType DEF CallGateway, Basis, Step, Slot
  <2> QED BY <2>1, <2>2, <2>3, BasisMove DEF Basis, TypeOK
<1> QED BY <1>1, <1>2, <1>3

\* A slot writes the row of its transaction and goes on or ends.
LEMMA WriteBasis ==
  ASSUME Basis, NEW s \in Slots,
         \/ RefuseTransaction(s) \/ CountAttempt(s) \/ Commit(s)
         \/ MarkFailed(s) \/ CountDecided(s) \/ MarkError(s)
  PROVE  Basis'
<1> DEFINE t == slot[s].txn
           n == slot[s].attempt
           Written == \E row \in Transaction : /\ txn' = [txn EXCEPT ![t] = row]
                                               /\ row.status # None /\ Kept(row, txn[t])
<1>1. /\ slot[s] \in Slot /\ n \in Attempts
      /\ t \in Transactions /\ txn[t] \in Transaction /\ txn[t].status # None
      /\ txn[t].userId \in Users /\ txn[t].paymentReason \in PaymentReason
  BY DEF RefuseTransaction, CountAttempt, Commit, MarkFailed, CountDecided, MarkError,
         Basis, TypeOK, Grounded, Begun, Slot
<1>2. Written
  <2>1. ASSUME NEW st \in TransactionStatus, txn' = [txn EXCEPT ![t].status = st]
        PROVE  Written
    <3> DEFINE row == [txn[t] EXCEPT !.status = st]
    <3>1. row \in Transaction /\ row.status = st /\ Kept(row, txn[t])
      BY <1>1 DEF Transaction, Kept
    <3>2. txn' = [txn EXCEPT ![t] = row]
      BY <2>1
    <3> HIDE DEF row
    <3> QED BY <3>1, <3>2, PaymentsAssumption
  <2>2. ASSUME txn' = [txn EXCEPT ![t].verificationAttempts = n, ![t].recent = TRUE]
        PROVE  Written
    <3> DEFINE row == [txn[t] EXCEPT !.verificationAttempts = n, !.recent = TRUE]
    <3>1. row \in Transaction /\ row.status = txn[t].status /\ Kept(row, txn[t])
      BY <1>1 DEF Transaction, Kept
    <3>2. txn' = [txn EXCEPT ![t] = row]
      BY <2>2
    <3> HIDE DEF row
    <3> QED BY <1>1, <3>1, <3>2
  <2>3. ASSUME txn' = [txn EXCEPT ![t].status = "SUCCESSFUL", ![t].verificationAttempts = n,
                                  ![t].recent = TRUE]
        PROVE  Written
    <3> DEFINE row == [txn[t] EXCEPT !.status = "SUCCESSFUL", !.verificationAttempts = n,
                                     !.recent = TRUE]
    <3>1. row \in Transaction /\ row.status = "SUCCESSFUL" /\ Kept(row, txn[t])
      BY <1>1 DEF Transaction, TransactionStatus, Kept
    <3>2. txn' = [txn EXCEPT ![t] = row]
      BY <2>3
    <3> HIDE DEF row
    <3> QED BY <3>1, <3>2, PaymentsAssumption DEF TransactionStatus
  <2> QED BY <2>1, <2>2, <2>3 DEF RefuseTransaction, CountAttempt, Commit, MarkFailed,
                                  CountDecided, MarkError, TransactionStatus
<1>3. \E v \in Slot : Goto(s, v) /\ (v.step # "idle" => v.txn = t)
  BY <1>1, IdleType DEF RefuseTransaction, CountAttempt, Commit, MarkFailed, CountDecided,
                        MarkError, Finish, Step, Slot
<1>4. UNCHANGED <<gateway, faults, raced>>
  BY DEF RefuseTransaction, CountAttempt, Commit, MarkFailed, CountDecided, MarkError
<1>5. /\ subscription' \in [Users -> {"FREE_TIER", "FREEMIUM", "PREMIUM"}]
      /\ credits' \in [Transactions -> 0..2]
  <2>1. CASE Commit(s)
    <3>1. IF Granted(t) THEN txn[t].paymentReason \in {"FREEMIUM", "PREMIUM"} ELSE TRUE
      BY DEF Granted
    <3>2. subscription' \in [Users -> {"FREE_TIER", "FREEMIUM", "PREMIUM"}]
      BY <1>1, <2>1, <3>1 DEF Commit, Basis, TypeOK
    <3>3. credits' \in [Transactions -> 0..2]
      BY <1>1, <2>1 DEF Commit, Basis, TypeOK
    <3> QED BY <3>2, <3>3
  <2>2. CASE UNCHANGED <<subscription, credits>>
    BY <2>2 DEF Basis, TypeOK
  <2> QED BY <2>1, <2>2 DEF RefuseTransaction, CountAttempt, MarkFailed, CountDecided, MarkError
<1> HIDE DEF t, n
<1> QED BY <1>1, <1>2, <1>3, <1>4, <1>5, BasisStep DEF Kept, Basis, TypeOK

LEMMA FaultBasis ==
  ASSUME Basis, NEW s \in Slots,
         AttemptFails(s) \/ Rollback(s) \/ MarkFails(s) \/ Die(s)
  PROVE  Basis'
<1>1. slot[s] \in Slot /\ (slot[s].step # "idle" =>
                            slot[s].txn \in Transactions /\ txn[slot[s].txn].status # None)
  BY DEF Basis, TypeOK, Grounded
<1>2. \E v \in Slot : Goto(s, v) /\ (v.step # "idle" =>
                                       slot[s].step # "idle" /\ v.txn = slot[s].txn)
  BY <1>1, IdleType, RetryType
     DEF AttemptFails, Rollback, MarkFails, Die, Basis, Step, Finish, Slot
<1>3. UNCHANGED <<txn, subscription, gateway, credits, raced>>
  BY DEF AttemptFails, Rollback, MarkFails, Die
<1>4. faults' \in 0..MaxFaults
  BY PaymentsAssumption DEF AttemptFails, Rollback, MarkFails, Die, Fault, Basis, TypeOK
<1> QED BY <1>1, <1>2, <1>3, <1>4, BasisMove DEF Basis, TypeOK

LEMMA WorldBasis ==
  ASSUME Basis,
         \/ \E t \in Transactions, charge \in ChargeStatus : DecideCharge(t, charge)
         \/ \E t \in Transactions : FiveMinutes(t)
         \/ \E u \in Users : LosePlan(u)
  PROVE  Basis'
<1>1. ASSUME NEW t \in Transactions, NEW charge \in ChargeStatus, DecideCharge(t, charge)
      PROVE  Basis'
  BY <1>1 DEF DecideCharge, Basis, TypeOK, Grounded, Begun
<1>2. ASSUME NEW t \in Transactions, FiveMinutes(t) PROVE Basis'
  <2> DEFINE row == [txn[t] EXCEPT !.recent = FALSE]
  <2>1. row \in Transaction /\ row.status = txn[t].status /\ Kept(row, txn[t])
    BY DEF Basis, TypeOK, Transaction, Kept
  <2>2. txn' = [txn EXCEPT ![t] = row]
    BY <1>2 DEF FiveMinutes
  <2> HIDE DEF row
  <2>3. txn' \in [Transactions -> Transaction]
    BY <2>1, <2>2 DEF Basis, TypeOK
  <2>4. \A o \in Transactions : txn'[o].status = txn[o].status /\ Kept(txn'[o], txn[o])
    BY <2>1, <2>2 DEF Basis, TypeOK, Kept
  <2>5. Grounded' /\ Begun'
    BY <1>2, <2>4 DEF FiveMinutes, Kept, Basis, Grounded, Begun
  <2> QED BY <1>2, <2>3, <2>5 DEF FiveMinutes, Basis, TypeOK
<1>3. ASSUME NEW u \in Users, LosePlan(u) PROVE Basis'
  BY <1>3 DEF LosePlan, Basis, TypeOK, Grounded, Begun
<1> QED BY <1>1, <1>2, <1>3

LEMMA InitBasis == Init => Basis
  BY IdleType, PaymentsAssumption
     DEF Init, Basis, TypeOK, Grounded, Begun, NoTransaction, Transaction, Attempts, ChargeStatus

LEMMA NextBasis == Basis /\ [Next]_pvars => Basis'
<1> SUFFICES ASSUME Basis, [Next]_pvars PROVE Basis'
  OBVIOUS
<1>1. CASE UNCHANGED pvars
  BY <1>1 DEF pvars, Basis, TypeOK, Grounded, Begun
<1>2. CASE Next
  BY <1>2, InitiateBasis, WebhookBasis, ReadBasis, WriteBasis, FaultBasis, WorldBasis
     DEF Next, Poll, Continue
<1> QED BY <1>1, <1>2

(***************************************************************************)
(* What the gateway said.                                                  *)
(***************************************************************************)
\* A slot that moves only has to know what it is about to write by itself.
LEMMA InformedMove ==
  ASSUME Basis, AllInformed, UNCHANGED gateway, NEW s \in Slots, NEW v \in Slot, Goto(s, v),
         Informed(v)
  PROVE  AllInformed'
  BY GotoType DEF Basis, AllInformed, Informed

\* The webhook that said "failed" said what the gateway had decided.
LEMMA InformedWebhook ==
  ASSUME NEW v \in Slot, v.step = "webhook", Informed(v)
  PROVE  Informed(Decided(v))
  BY DecidedType DEF Informed

LEMMA NextInformed == Basis /\ AllInformed /\ [Next]_pvars => AllInformed'
<1> SUFFICES ASSUME Basis, AllInformed, [Next]_pvars PROVE AllInformed'
  OBVIOUS
<1>1. CASE UNCHANGED pvars
  BY <1>1 DEF pvars, AllInformed, Informed
<1>2. ASSUME NEW t \in Transactions, NEW u \in Users, NEW reason \in PaymentReason,
             InitiateTransaction(t, u, reason)
      PROVE  AllInformed'
  BY <1>2 DEF InitiateTransaction, AllInformed, Informed
<1>3. ASSUME NEW t \in Transactions, NEW charge \in ChargeStatus, DecideCharge(t, charge)
      PROVE  AllInformed'
  BY <1>3 DEF DecideCharge, AllInformed, Informed, Basis, TypeOK
<1>4. ASSUME NEW t \in Transactions, NEW charge \in ChargeStatus, NEW s \in Slots,
             ReceiveWebhook(s, t, charge)
      PROVE  AllInformed'
  <2> DEFINE v == [Idle EXCEPT !.step = "webhook", !.txn = t, !.status = txn[t].status,
                               !.charge = charge]
             w == IF txn[t].externalId THEN Decided(v) ELSE v
  <2>1. v \in Slot /\ v.step = "webhook" /\ v.txn = t /\ v.charge = charge
    BY IdleType DEF Slot, Idle, Basis, TypeOK, Transaction
  <2>2. charge \in {"pending", gateway[t]} /\ Goto(s, w) /\ UNCHANGED gateway
    BY <1>4 DEF ReceiveWebhook
  <2> HIDE DEF v
  <2>3. w \in Slot /\ Informed(w)
    BY <2>1, <2>2, DecidedType, InformedWebhook DEF Informed
  <2> HIDE DEF w
  <2> QED BY <2>2, <2>3, InformedMove
<1>5. ASSUME NEW s \in Slots, HandleWebhook(s) PROVE AllInformed'
  <2>1. slot[s] \in Slot /\ slot[s].step = "webhook" /\ Informed(slot[s])
    BY <1>5 DEF HandleWebhook, Basis, TypeOK, AllInformed
  <2>2. Decided(slot[s]) \in Slot /\ Informed(Decided(slot[s]))
    BY <2>1, DecidedType, InformedWebhook
  <2> QED BY <1>5, <2>2, InformedMove DEF HandleWebhook
<1>6. ASSUME NEW s \in Slots, NEW t \in Transactions, HandlePendingTransactionPolling(s, t)
      PROVE  AllInformed'
  <2> DEFINE v == [Idle EXCEPT !.step = "load", !.txn = t]
  <2>1. v \in Slot /\ Informed(v)
    BY IdleType DEF Slot, Idle, Informed
  <2> QED BY <1>6, <2>1, InformedMove DEF HandlePendingTransactionPolling
<1>7. ASSUME NEW s \in Slots, LoadTransaction(s) PROVE AllInformed'
  <2>1. Informed(Idle) /\ slot[s] \in Slot /\ 1 \in Attempts
    BY PaymentsAssumption DEF Idle, Informed, Basis, TypeOK, Attempts
  <2> DEFINE v == [slot[s] EXCEPT !.step = "attempt", !.attempt = 1]
  <2>2. v \in Slot /\ Informed(v)
    BY <2>1 DEF Slot, Informed
  <2>3. (Goto(s, Idle) \/ Goto(s, v)) /\ UNCHANGED gateway
    BY <1>7 DEF LoadTransaction, Verify, Finish
  <2> HIDE DEF v
  <2> QED BY <2>1, <2>2, <2>3, IdleType, InformedMove
<1>8. ASSUME NEW s \in Slots, CallGateway(s) PROVE AllInformed'
  <2>1. slot[s] \in Slot /\ UNCHANGED gateway
    BY <1>8 DEF CallGateway, Basis, TypeOK
  <2>2. \E v \in Slot : Goto(s, v) /\ Informed(v)
    BY <1>8, <2>1, RetryType DEF CallGateway, Basis, Step, Slot, Informed
  <2> QED BY <2>1, <2>2, InformedMove
<1>9. ASSUME NEW s \in Slots,
             \/ RefuseTransaction(s) \/ CountAttempt(s) \/ Commit(s) \/ MarkFailed(s)
             \/ CountDecided(s) \/ MarkError(s)
             \/ AttemptFails(s) \/ Rollback(s) \/ MarkFails(s) \/ Die(s)
      PROVE  AllInformed'
  <2>1. slot[s] \in Slot /\ UNCHANGED gateway
    BY <1>9 DEF RefuseTransaction, CountAttempt, Commit, MarkFailed, CountDecided, MarkError,
                AttemptFails, Rollback, MarkFails, Die, Basis, TypeOK
  <2>2. \E v \in Slot : Goto(s, v) /\ v.step \in {"idle", "attempt", "call", "decided", "error"}
    BY <1>9, <2>1, IdleType, RetryType
       DEF RefuseTransaction, CountAttempt, Commit, MarkFailed, CountDecided, MarkError,
           AttemptFails, Rollback, MarkFails, Die, Finish, Step, Slot, Basis
  <2> QED BY <2>1, <2>2, InformedMove DEF Informed
<1>10. ASSUME UNCHANGED <<slot, gateway>> PROVE AllInformed'
  BY <1>10 DEF AllInformed, Informed
<1>11. ASSUME NEW t \in Transactions, FiveMinutes(t) PROVE AllInformed'
  BY <1>10, <1>11 DEF FiveMinutes
<1>12. ASSUME NEW u \in Users, LosePlan(u) PROVE AllInformed'
  BY <1>10, <1>12 DEF LosePlan
<1> QED BY <1>1, <1>2, <1>3, <1>4, <1>5, <1>6, <1>7, <1>8, <1>9, <1>11, <1>12
        DEF Next, Poll, Continue

(***************************************************************************)
(* Verdicts and credits.                                                   *)
(***************************************************************************)
\* Everything a handler writes of a status, and when.
LEMMA StatusWrites ==
  ASSUME Basis, AllInformed, Next, NEW t \in Transactions, txn'[t].status # txn[t].status
  PROVE  \/ txn[t].status = None /\ txn'[t].status = "PENDING"
         \/ txn'[t].status = "ERROR" /\ \E s \in Slots : Verifying(s, t)
         \/ txn'[t].status = "FAILED" /\ gateway[t] = "failed"
         \/ txn'[t].status = "SUCCESSFUL" /\ \E s \in Slots : slot[s].txn = t /\ Commit(s)
<1>1. ASSUME NEW o \in Transactions, NEW u \in Users, NEW reason \in PaymentReason,
             InitiateTransaction(o, u, reason)
      PROVE  txn[t].status = None /\ txn'[t].status = "PENDING"
  BY <1>1 DEF InitiateTransaction, NoTransaction, Basis, TypeOK
<1>2. ASSUME NEW s \in Slots,
             \/ HandleWebhook(s) \/ LoadTransaction(s) \/ CountAttempt(s) \/ CallGateway(s)
             \/ CountDecided(s) \/ AttemptFails(s) \/ Rollback(s) \/ MarkFails(s) \/ Die(s)
      PROVE  FALSE
  BY <1>2 DEF HandleWebhook, LoadTransaction, CountAttempt, CallGateway, CountDecided,
              AttemptFails, Rollback, MarkFails, Die, Basis, TypeOK, Transaction
<1>3. ASSUME UNCHANGED txn PROVE FALSE
  BY <1>3
<1>4. ASSUME NEW o \in Transactions, FiveMinutes(o) PROVE FALSE
  BY <1>4 DEF FiveMinutes, Basis, TypeOK, Transaction
<1>5. ASSUME NEW s \in Slots, RefuseTransaction(s) \/ MarkFailed(s)
      PROVE  txn'[t].status = "FAILED" /\ gateway[t] = "failed"
  BY <1>5 DEF RefuseTransaction, MarkFailed, Basis, TypeOK, Transaction, AllInformed, Informed
<1>6. ASSUME NEW s \in Slots, MarkError(s)
      PROVE  txn'[t].status = "ERROR" /\ Verifying(s, t)
  BY <1>6 DEF MarkError, Verifying, Basis, TypeOK
<1>7. ASSUME NEW s \in Slots, Commit(s)
      PROVE  txn'[t].status = "SUCCESSFUL" /\ slot[s].txn = t
  BY <1>7 DEF Commit, Basis, TypeOK, Transaction
<1>8. ASSUME NEW o \in Transactions, NEW s \in Slots,
             \/ \E charge \in ChargeStatus : ReceiveWebhook(s, o, charge)
             \/ HandlePendingTransactionPolling(s, o)
      PROVE  FALSE
  BY <1>3, <1>8 DEF ReceiveWebhook, HandlePendingTransactionPolling
<1>9. ASSUME NEW o \in Transactions, NEW charge \in ChargeStatus, DecideCharge(o, charge)
      PROVE  FALSE
  BY <1>3, <1>9 DEF DecideCharge
<1>10. ASSUME NEW u \in Users, LosePlan(u) PROVE FALSE
  BY <1>3, <1>10 DEF LosePlan
<1> QED BY <1>1, <1>2, <1>4, <1>5, <1>6, <1>7, <1>8, <1>9, <1>10 DEF Next, Poll, Continue

\* The gateway decides once.
LEMMA GatewayDecidesOnce ==
  ASSUME Basis, Next, NEW t \in Transactions, gateway[t] # "pending"
  PROVE  gateway'[t] = gateway[t]
<1>1. ASSUME NEW o \in Transactions, NEW charge \in ChargeStatus, DecideCharge(o, charge)
      PROVE  gateway'[t] = gateway[t]
  BY <1>1 DEF DecideCharge, Basis, TypeOK
<1>2. CASE UNCHANGED gateway
  BY <1>2
<1> QED BY <1>1, <1>2
        DEF Next, Poll, Continue, InitiateTransaction, ReceiveWebhook, FiveMinutes, LosePlan,
            HandlePendingTransactionPolling, HandleWebhook, RefuseTransaction, LoadTransaction,
            CountAttempt, CallGateway, Commit, MarkFailed, CountDecided, MarkError,
            AttemptFails, MarkFails, Rollback, Die

\* Only the commit of a verification credits, and it writes the status too.
LEMMA CreditWrites ==
  ASSUME Basis, Next, NEW t \in Transactions, credits'[t] # credits[t]
  PROVE  \E s \in Slots : Commit(s) /\ slot[s].txn = t
<1>1. ASSUME NEW s \in Slots, Commit(s) PROVE slot[s].txn = t
  BY <1>1 DEF Commit, Basis, TypeOK
<1>2. CASE UNCHANGED credits
  BY <1>2
<1> QED BY <1>1, <1>2
        DEF Next, Poll, Continue, InitiateTransaction, DecideCharge, ReceiveWebhook, FiveMinutes,
            LosePlan, HandlePendingTransactionPolling, HandleWebhook, RefuseTransaction,
            LoadTransaction, CountAttempt, CallGateway, MarkFailed, CountDecided, MarkError,
            AttemptFails, MarkFails, Rollback, Die

\* What a commit does to its own transaction.
LEMMA CommitEffect ==
  ASSUME Basis, AllInformed, NEW s \in Slots, Commit(s), NEW t, t = slot[s].txn
  PROVE  /\ t \in Transactions /\ gateway[t] = "successful" /\ Verifying(s, t)
         /\ txn'[t].status = "SUCCESSFUL" /\ txn'[t].paymentReason = txn[t].paymentReason
         /\ slot' = [slot EXCEPT ![s] = Idle] /\ UNCHANGED <<gateway, raced>>
         /\ IF Granted(t) THEN credits'[t] > 0 ELSE UNCHANGED credits
         /\ credits[t] = 0 => credits'[t] \in 0..1
  BY DEF Commit, Finish, Goto, Verifying, Granted, Basis, TypeOK, Transaction, Grounded,
         AllInformed, Informed

\* A transaction keeps its reason.
LEMMA ReasonKept ==
  ASSUME Basis, Next, NEW t \in Transactions, txn[t].status # None
  PROVE  txn'[t].paymentReason = txn[t].paymentReason
<1>1. ASSUME NEW o \in Transactions, NEW u \in Users, NEW reason \in PaymentReason,
             InitiateTransaction(o, u, reason)
      PROVE  txn'[t].paymentReason = txn[t].paymentReason
  BY <1>1 DEF InitiateTransaction, Basis, TypeOK
<1>2. ASSUME NEW s \in Slots,
             \/ HandleWebhook(s) \/ RefuseTransaction(s) \/ CountAttempt(s) \/ Commit(s)
             \/ MarkFailed(s) \/ CountDecided(s) \/ MarkError(s)
      PROVE  txn'[t].paymentReason = txn[t].paymentReason
  BY <1>2 DEF HandleWebhook, RefuseTransaction, CountAttempt, Commit, MarkFailed, CountDecided,
              MarkError, Basis, TypeOK, Transaction
<1>3. ASSUME NEW o \in Transactions, FiveMinutes(o)
      PROVE  txn'[t].paymentReason = txn[t].paymentReason
  BY <1>3 DEF FiveMinutes, Basis, TypeOK, Transaction
<1>4. CASE UNCHANGED txn
  BY <1>4
<1> QED BY <1>1, <1>2, <1>3, <1>4
        DEF Next, Poll, Continue, DecideCharge, ReceiveWebhook, LosePlan, LoadTransaction,
            HandlePendingTransactionPolling, CallGateway, AttemptFails, MarkFails, Rollback, Die

LEMMA NextVerdict ==
  ASSUME Basis, AllInformed, VerdictIsTheGateways, Next
  PROVE  VerdictIsTheGateways'
<1> SUFFICES ASSUME NEW t \in Transactions
             PROVE  /\ txn'[t].status = "SUCCESSFUL" => gateway'[t] = "successful"
                    /\ txn'[t].status = "FAILED" => gateway'[t] = "failed"
  BY DEF VerdictIsTheGateways
<1>1. CASE txn'[t].status = txn[t].status
  BY <1>1, GatewayDecidesOnce DEF VerdictIsTheGateways
<1>2. CASE txn'[t].status # txn[t].status
  BY <1>2, StatusWrites, CommitEffect, GatewayDecidesOnce
<1> QED BY <1>1, <1>2

LEMMA NextCredited ==
  ASSUME Basis, AllInformed, SuccessIsCredited, Next
  PROVE  SuccessIsCredited'
<1> SUFFICES ASSUME NEW t \in Transactions
             PROVE  /\ txn'[t].status = "SUCCESSFUL" /\ Granted(t)' => credits'[t] > 0
                    /\ credits'[t] > 0 => gateway'[t] = "successful"
  BY DEF SuccessIsCredited
<1>1. credits[t] > 0 => credits'[t] > 0
  BY CreditWrites, CommitEffect
<1>2. credits'[t] > 0 => gateway'[t] = "successful"
  BY CreditWrites, CommitEffect, GatewayDecidesOnce DEF SuccessIsCredited
<1>3. ASSUME txn'[t].status = "SUCCESSFUL", Granted(t)' PROVE credits'[t] > 0
  <2>1. CASE txn'[t].status = txn[t].status
    <3>1. Granted(t)
      BY <1>3, <2>1, ReasonKept, PaymentsAssumption DEF Granted, TransactionStatus
    <3> QED BY <1>1, <1>3, <2>1, <3>1 DEF SuccessIsCredited
  <2>2. CASE txn'[t].status # txn[t].status
    <3>1. PICK s \in Slots : slot[s].txn = t /\ Commit(s)
      BY <1>3, <2>2, StatusWrites
    <3> QED BY <1>3, <3>1, CommitEffect DEF Granted
  <2> QED BY <2>1, <2>2
<1> QED BY <1>2, <1>3

(***************************************************************************)
(* One verification at a time.                                             *)
(***************************************************************************)
\* A slot that moves to something else than a verification, or on with the
\* verification it does, begins none.
LEMMA NoneBegins ==
  ASSUME Basis, NEW r \in Slots, NEW v \in Slot, Goto(r, v), NEW s \in Slots, NEW t,
         \/ v.step \in {"idle", "webhook", "refuse", "load"}
         \/ v.txn = slot[r].txn /\ Verifying(r, slot[r].txn)
  PROVE  Verifying(s, t)' => Verifying(s, t)
  BY GotoType DEF Verifying, Basis

\* A verification begins with a load that saw the transaction undecided, and
\* is noted when it meets another.
LEMMA VerificationBegins ==
  ASSUME Basis, Next, NEW s \in Slots, NEW t \in Transactions,
         Verifying(s, t)', ~Verifying(s, t)
  PROVE  /\ txn[t].status # "SUCCESSFUL"
         /\ UNCHANGED <<txn, credits>>
         /\ \A o \in Slots \ {s} : slot'[o] = slot[o]
         /\ \A o \in Slots : Verifying(o, t) => t \in raced'
<1>1. ASSUME NEW r \in Slots, LoadTransaction(r)
      PROVE  /\ txn[t].status # "SUCCESSFUL" /\ r = s
             /\ UNCHANGED <<txn, credits>>
             /\ \A o \in Slots : Verifying(o, t) => t \in raced'
  <2>1. r = s
    BY <1>1 DEF LoadTransaction, Verify, Finish, Goto, Verifying, Basis, TypeOK
  <2>2. CASE Finish(r)
    BY <2>1, <2>2 DEF Finish, Goto, Verifying, Basis, TypeOK, Idle
  <2>3. CASE Verify(r) /\ txn[slot[r].txn].status # "SUCCESSFUL"
    <3>1. slot[r].txn = t
      BY <2>1, <2>3 DEF Verify, Goto, Verifying, Basis, TypeOK, Slot
    <3> QED BY <1>1, <2>1, <2>3, <3>1 DEF LoadTransaction, Verify
  <2> QED BY <1>1, <2>2, <2>3 DEF LoadTransaction
<1>2. ASSUME NEW r \in Slots, LoadTransaction(r)
      PROVE  \A o \in Slots \ {s} : slot'[o] = slot[o]
  BY <1>1, <1>2 DEF LoadTransaction, Verify, Finish, Goto, Basis, TypeOK
<1>3. CASE UNCHANGED slot
  BY <1>3 DEF Verifying
<1>4. ASSUME NEW r \in Slots,
             HandleWebhook(r) \/ \E o \in Transactions, charge \in ChargeStatus :
                                 ReceiveWebhook(r, o, charge)
      PROVE  FALSE
  <2>1. ASSUME NEW o \in Transactions, NEW charge \in ChargeStatus, ReceiveWebhook(r, o, charge)
        PROVE  FALSE
    <3> DEFINE v == [Idle EXCEPT !.step = "webhook", !.txn = o, !.status = txn[o].status,
                                 !.charge = charge]
    <3>1. v \in Slot /\ v.step = "webhook"
      BY IdleType DEF Slot, Idle, Basis, TypeOK, Transaction
    <3>2. Goto(r, v) \/ Goto(r, Decided(v))
      BY <2>1 DEF ReceiveWebhook
    <3> HIDE DEF v
    <3>3. \E w \in Slot : Goto(r, w) /\ w.step \in {"idle", "webhook", "refuse", "load"}
      BY <3>1, <3>2, DecidedType
    <3> QED BY <3>3, NoneBegins
  <2>2. CASE HandleWebhook(r)
    <3>1. \E w \in Slot : Goto(r, w) /\ w.step \in {"idle", "webhook", "refuse", "load"}
      BY <2>2, DecidedType DEF HandleWebhook, Basis, TypeOK
    <3> QED BY <3>1, NoneBegins
  <2> QED BY <1>4, <2>1, <2>2
<1>5. ASSUME NEW r \in Slots, NEW o \in Transactions, HandlePendingTransactionPolling(r, o)
      PROVE  FALSE
  <2> DEFINE v == [Idle EXCEPT !.step = "load", !.txn = o]
  <2>1. v \in Slot /\ v.step = "load"
    BY IdleType DEF Slot, Idle
  <2> QED BY <1>5, <2>1, NoneBegins DEF HandlePendingTransactionPolling
<1>6. ASSUME NEW r \in Slots,
             \/ RefuseTransaction(r) \/ CountAttempt(r) \/ CallGateway(r) \/ Commit(r)
             \/ MarkFailed(r) \/ CountDecided(r) \/ MarkError(r)
             \/ AttemptFails(r) \/ Rollback(r) \/ MarkFails(r) \/ Die(r)
      PROVE  FALSE
  <2>1. slot[r] \in Slot
    BY DEF Basis, TypeOK
  <2>2. CASE Finish(r)
    BY <2>2, IdleType, NoneBegins DEF Finish
  <2>3. CASE Verifying(r, slot[r].txn)
    <3>1. \E v \in Slot : Goto(r, v) /\ (v.step = "idle" \/ v.txn = slot[r].txn)
      BY <1>6, <2>1, IdleType, RetryType
         DEF RefuseTransaction, CountAttempt, CallGateway, Commit, MarkFailed, CountDecided,
             MarkError, AttemptFails, Rollback, MarkFails, Die, Finish, Step, Slot, Basis
    <3> QED BY <2>3, <3>1, IdleType, NoneBegins
  <2> QED BY <1>6, <2>2, <2>3
          DEF RefuseTransaction, CountAttempt, CallGateway, Commit, MarkFailed, CountDecided,
              MarkError, AttemptFails, Rollback, MarkFails, Die, Verifying
<1> QED BY <1>1, <1>2, <1>3, <1>4, <1>5, <1>6
        DEF Next, Poll, Continue, InitiateTransaction, DecideCharge, FiveMinutes, LosePlan

LEMMA RacedGrows ==
  ASSUME Next PROVE raced \subseteq raced'
<1>1. ASSUME NEW s \in Slots, LoadTransaction(s) PROVE raced \subseteq raced'
  BY <1>1 DEF LoadTransaction, Verify
<1>2. CASE UNCHANGED raced
  BY <1>2
<1> QED BY <1>1, <1>2
        DEF Next, Poll, Continue, InitiateTransaction, DecideCharge, ReceiveWebhook, FiveMinutes,
            LosePlan, HandlePendingTransactionPolling, HandleWebhook, RefuseTransaction,
            CountAttempt, CallGateway, Commit, MarkFailed, CountDecided, MarkError,
            AttemptFails, MarkFails, Rollback, Die

LEMMA NextOneAtATime ==
  ASSUME Basis, AllInformed, SuccessIsCredited, OneAtATime, Next
  PROVE  OneAtATime'
<1> SUFFICES ASSUME NEW t \in Transactions, t \notin raced'
             PROVE  /\ \A s, o \in Slots : Verifying(s, t)' /\ Verifying(o, t)' => s = o
                    /\ credits'[t] > 0 =>
                         /\ credits'[t] = 1 /\ txn'[t].status = "SUCCESSFUL"
                         /\ \A s \in Slots : ~Verifying(s, t)'
  BY DEF OneAtATime
<1>1. /\ \A s, o \in Slots : Verifying(s, t) /\ Verifying(o, t) => s = o
      /\ credits[t] > 0 => /\ credits[t] = 1 /\ txn[t].status = "SUCCESSFUL"
                           /\ \A s \in Slots : ~Verifying(s, t)
  BY RacedGrows DEF OneAtATime
<1>2. ASSUME NEW s \in Slots, Verifying(s, t)', ~Verifying(s, t)
      PROVE  /\ credits'[t] = 0 
             /\ \A o \in Slots : Verifying(o, t)' => o = s
  <2>1. /\ txn[t].status # "SUCCESSFUL" /\ UNCHANGED credits
        /\ \A o \in Slots : ~Verifying(o, t)
        /\ \A o \in Slots \ {s} : slot'[o] = slot[o]
    BY <1>2, VerificationBegins
  <2>2. \A o \in Slots \ {s} : ~Verifying(o, t)'
    BY <2>1 DEF Verifying
  <2>3. credits'[t] = 0
    BY <1>1, <2>1 DEF Basis, TypeOK
  <2> QED BY <2>2, <2>3
<1>3. ASSUME credits'[t] > 0, \A s \in Slots : Verifying(s, t)' => Verifying(s, t)
      PROVE  /\ credits'[t] = 1 /\ txn'[t].status = "SUCCESSFUL"
             /\ \A s \in Slots : ~Verifying(s, t)'
  <2>1. CASE credits'[t] = credits[t]
    <3>1. credits[t] = 1 /\ txn[t].status = "SUCCESSFUL" /\ \A s \in Slots : ~Verifying(s, t)
      BY <1>1, <1>3, <2>1
    <3>2. txn'[t].status = "SUCCESSFUL"
      BY <3>1, StatusWrites, PaymentsAssumption DEF TransactionStatus, SuccessIsCredited
    <3> QED BY <1>3, <2>1, <3>1, <3>2
  <2>2. CASE credits'[t] # credits[t]
    <3>1. PICK s \in Slots : Commit(s) /\ slot[s].txn = t
      BY <2>2, CreditWrites
    <3>2. Verifying(s, t) /\ txn'[t].status = "SUCCESSFUL" /\ slot' = [slot EXCEPT ![s] = Idle]
      BY <3>1, CommitEffect
    <3>3. credits[t] = 0
      BY <1>1, <3>2 DEF Basis, TypeOK
    <3>4. credits'[t] \in 0..1
      BY <3>1, <3>3, CommitEffect
    <3>5. \A o \in Slots : ~Verifying(o, t)'
      BY <1>1, <1>3, <3>2 DEF Verifying, Basis, TypeOK, Idle
    <3> QED BY <1>3, <3>2, <3>4, <3>5
  <2> QED BY <2>1, <2>2
<1> QED BY <1>1, <1>2, <1>3

(***************************************************************************)
(* The theorems.                                                           *)
(***************************************************************************)
LEMMA Invariant == Spec => []PInv
<1>1. Init => PInv
  <2> SUFFICES ASSUME Init PROVE PInv
    OBVIOUS
  <2>1. AllInformed
    BY DEF Init, AllInformed, Informed, Idle
  <2>2. OneAtATime
    <3>1. ASSUME NEW t \in Transactions PROVE ~(credits[t] > 0)
      <4>1. credits[t] = 0
        BY DEF Init
      <4> QED BY <4>1
    <3>2. \A s \in Slots, t \in Transactions : ~Verifying(s, t)
      BY DEF Init, Verifying, Idle
    <3> QED BY <3>1, <3>2 DEF OneAtATime
  <2>3. VerdictIsTheGateways /\ SuccessIsCredited
    BY PaymentsAssumption
       DEF Init, VerdictIsTheGateways, SuccessIsCredited, NoTransaction, TransactionStatus
  <2> QED BY <2>1, <2>2, <2>3, InitBasis DEF PInv, Basis
<1>2. PInv /\ [Next]_pvars => PInv'
  <2> SUFFICES ASSUME PInv, [Next]_pvars PROVE PInv'
    OBVIOUS
  <2>1. CASE UNCHANGED pvars
    BY <2>1 DEF pvars, PInv, TypeOK, Grounded, Begun, AllInformed, Informed, OneAtATime, Verifying,
                VerdictIsTheGateways, SuccessIsCredited, Granted
  <2>2. CASE Next
    BY <2>2, NextBasis, NextInformed, NextVerdict, NextCredited, NextOneAtATime DEF PInv, Basis
  <2> QED BY <2>1, <2>2
<1> QED BY <1>1, <1>2, PTL DEF Spec

\* No webhook, verification or poll, however they overlap and fail, writes a
\* status that its column cannot hold, or counts past the last attempt.
THEOREM PaymentsTypeCorrect == Spec => []TypeOK
  BY Invariant, PTL DEF PInv

\* The status of a transaction is never against the gateway: a webhook or a
\* verification writes only what the gateway decided, and it decides once.
THEOREM VerdictCorrect == Spec => []VerdictIsTheGateways
  BY Invariant, PTL DEF PInv

\* What was paid is credited, and only that: status and plan are one database
\* transaction, whatever dies before or after it.
THEOREM CreditCorrect == Spec => []SuccessIsCredited
  BY Invariant, PTL DEF PInv

\* Without two verifications of it at once, a transaction is credited once:
\* the load of the next one sees it SUCCESSFUL, and nobody is left who could
\* overwrite that.
THEOREM CreditedOnce == Spec => []CreditedOnceUnlessRaced
<1>1. PInv => CreditedOnceUnlessRaced
  BY DEF PInv, TypeOK, OneAtATime, CreditedOnceUnlessRaced
<1> QED BY <1>1, Invariant, PTL
===============================================================================
