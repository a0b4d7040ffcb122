------------------------------- MODULE Payments -------------------------------
(***************************************************************************)
(* Payment transactions (src/src/transactions/transactions.service.ts):    *)
(* initiating one, the gateway's webhooks, the verification that asks the  *)
(* gateway and credits the user, and the poll that retries it.             *)
(*                                                                         *)
(* A webhook and the poll start verifications without waiting for them, so *)
(* several of one transaction run at once: each takes a slot below, and    *)
(* one action is one awaited call of one slot.                             *)
(***************************************************************************)
EXTENDS Naturals

CONSTANTS
  Transactions,  \* rows of the transaction table (a bound on payments begun)
  Users,
  Slots,         \* webhooks and verifications in flight at once
  Retries,       \* retries of a verification after its first attempt (5 in the code)
  MaxFaults,     \* bound on failed calls and dead verifications
  None

VARIABLES
  txn,           \* the transaction table
  subscription,  \* the user table's subscriptionType
  slot,          \* what each webhook or verification holds
  gateway,       \* the charge as the payment gateway knows it
  faults,
  credits,       \* history: how often the plan was granted for a transaction, up to 2
  raced          \* history: transactions of which two verifications ran at once

pvars == <<txn, subscription, slot, gateway, faults, credits, raced>>

TransactionStatus == {"PENDING", "SUCCESSFUL", "FAILED", "ERROR"}
PaymentReason == {"PREMIUM", "FREEMIUM", "CANCELLATION"}
ChargeStatus == {"pending", "successful", "failed"}
Attempts == 0..(Retries + 1)

ASSUME PaymentsAssumption ==
  /\ Retries \in Nat /\ MaxFaults \in Nat
  /\ None \notin Transactions \cup Users
  /\ None \notin TransactionStatus \cup PaymentReason \cup ChargeStatus

\* recent: the last attempt is less than five minutes old.
Transaction ==
  [status : TransactionStatus \cup {None}, userId : Users \cup {None},
   paymentReason : PaymentReason \cup {None}, externalId : BOOLEAN,
   verificationAttempts : Attempts, recent : BOOLEAN]

NoTransaction == [status |-> None, userId |-> None, paymentReason |-> None,
                  externalId |-> FALSE, verificationAttempts |-> 0, recent |-> FALSE]

\* status and charge: the transaction's as loaded, and the webhook's.
Slot == [step : {"idle", "webhook", "refuse", "load", "attempt", "call", "commit",
                 "failed", "decided", "error"},
         txn : Transactions \cup {None}, status : TransactionStatus \cup {None},
         charge : ChargeStatus \cup {None}, attempt : Attempts]

Idle == [step |-> "idle", txn |-> None, status |-> None, charge |-> None, attempt |-> 0]

TypeOK ==
  /\ txn \in [Transactions -> Transaction]
  /\ subscription \in [Users -> {"FREE_TIER", "FREEMIUM", "PREMIUM"}]
  /\ slot \in [Slots -> Slot]
  /\ gateway \in [Transactions -> ChargeStatus]
  /\ faults \in 0..MaxFaults
  /\ credits \in [Transactions -> 0..2]
  /\ raced \subseteq Transactions

Init ==
  /\ txn = [t \in Transactions |-> NoTransaction]
  /\ subscription = [u \in Users |-> "FREE_TIER"]
  /\ slot = [s \in Slots |-> Idle]
  /\ gateway = [t \in Transactions |-> "pending"]
  /\ faults = 0
  /\ credits = [t \in Transactions |-> 0]
  /\ raced = {}

Goto(s, v) == slot' = [slot EXCEPT ![s] = v]
Step(s, step) == Goto(s, [slot[s] EXCEPT !.step = step])
Finish(s) == Goto(s, Idle)
Fault == faults < MaxFaults /\ faults' = faults + 1

(***************************************************************************)
(* A payment begins, and the gateway decides on it.                        *)
(***************************************************************************)
InitiateTransaction(t, u, reason) ==
  /\ txn[t].status = None
  /\ txn' = [txn EXCEPT ![t] = [NoTransaction EXCEPT !.status = "PENDING", !.userId = u,
                                                     !.paymentReason = reason]]
  /\ UNCHANGED <<subscription, slot, gateway, faults, credits, raced>>

DecideCharge(t, charge) ==
  /\ txn[t].status # None
  /\ gateway[t] = "pending" /\ charge # "pending"
  /\ gateway' = [gateway EXCEPT ![t] = charge]
  /\ UNCHANGED <<txn, subscription, slot, faults, credits, raced>>

(***************************************************************************)
(* Webhooks: charge.completed with the charge's status, or with the status *)
(* pending it had before; delivered at any time and any number of times.   *)
(***************************************************************************)
\* What a webhook goes on with: the status that it loaded decides.
Decided(v) ==
  CASE v.charge = "successful" /\ v.status # "SUCCESSFUL" -> [v EXCEPT !.step = "load"]
    [] v.charge = "failed" /\ v.status \notin {"FAILED", "SUCCESSFUL"} -> [v EXCEPT !.step = "refuse"]
    [] v.charge = "pending" /\ v.status = "PENDING" -> [v EXCEPT !.step = "load"]
    [] OTHER -> Idle

ReceiveWebhook(s, t, charge) ==
  LET v == [Idle EXCEPT !.step = "webhook", !.txn = t, !.status = txn[t].status,
                        !.charge = charge] IN
  /\ slot[s] = Idle
  /\ txn[t].status # None
  /\ charge \in {"pending", gateway[t]}
  /\ Goto(s, IF txn[t].externalId THEN Decided(v) ELSE v)
  /\ UNCHANGED <<txn, subscription, gateway, faults, credits, raced>>

\* The first webhook stores the externalId before it decides.
HandleWebhook(s) ==
  LET v == slot[s] IN
  /\ v.step = "webhook"
  /\ txn' = [txn EXCEPT ![v.txn].externalId = TRUE]
  /\ Goto(s, Decided(v))
  /\ UNCHANGED <<subscription, gateway, faults, credits, raced>>

RefuseTransaction(s) ==
  /\ slot[s].step = "refuse"
  /\ txn' = [txn EXCEPT ![slot[s].txn].status = "FAILED"]
  /\ Finish(s)
  /\ UNCHANGED <<subscription, gateway, faults, credits, raced>>

(***************************************************************************)
(* The poll, every half hour.                                              *)
(***************************************************************************)
\* Faulty variant: a transaction is polled while it has retries left.
PollWithinRetries(s, t) ==
  /\ slot[s] = Idle
  /\ txn[t].status = "PENDING" /\ txn[t].externalId
  /\ txn[t].verificationAttempts < Retries
  /\ txn[t].verificationAttempts = 0 \/ ~txn[t].recent
  /\ Goto(s, [Idle EXCEPT !.step = "load", !.txn = t])
  /\ UNCHANGED <<txn, subscription, gateway, faults, credits, raced>>

PollingMaxAttempts == Retries + 2

HandlePendingTransactionPolling(s, t) ==
  /\ slot[s] = Idle
  /\ txn[t].status = "PENDING" /\ txn[t].externalId
  /\ txn[t].verificationAttempts < PollingMaxAttempts
  /\ txn[t].verificationAttempts = 0 \/ ~txn[t].recent
  /\ Goto(s, [Idle EXCEPT !.step = "load", !.txn = t])
  /\ UNCHANGED <<txn, subscription, gateway, faults, credits, raced>>

(***************************************************************************)
(* verifyFlutterTransaction.                                               *)
(***************************************************************************)
Verifying(s, t) ==
  slot[s].txn = t /\ slot[s].step \in {"attempt", "call", "commit", "failed", "decided", "error"}

\* A verification begins; it is noted when another one of t is under way.
Verify(s) ==
  LET t == slot[s].txn IN
  /\ Goto(s, [slot[s] EXCEPT !.step = "attempt", !.attempt = 1])
  /\ raced' = IF \E o \in Slots : Verifying(o, t) THEN raced \cup {t} ELSE raced

\* Faulty variant: completed transactions are verified again.
LoadCompletedToo(s) ==
  /\ slot[s].step = "load"
  /\ IF txn[slot[s].txn].externalId THEN Verify(s) ELSE Finish(s) /\ UNCHANGED raced
  /\ UNCHANGED <<txn, subscription, gateway, faults, credits>>

LoadTransaction(s) ==
  LET row == txn[slot[s].txn] IN
  /\ slot[s].step = "load"
  /\ IF row.status \in {"SUCCESSFUL", "FAILED"} \/ ~row.externalId
     THEN Finish(s) /\ UNCHANGED raced ELSE Verify(s)
  /\ UNCHANGED <<txn, subscription, gateway, faults, credits>>

\* The attempt is counted before the gateway is called.
CountAttempt(s) ==
  LET v == slot[s] IN
  /\ v.step = "attempt"
  /\ txn' = [txn EXCEPT ![v.txn].verificationAttempts = v.attempt, ![v.txn].recent = TRUE]
  /\ Step(s, "call")
  /\ UNCHANGED <<subscription, gateway, faults, credits, raced>>

\* An attempt that decides nothing is retried while retries are left.
Retry(s) ==
  IF slot[s].attempt <= Retries
  THEN Goto(s, [slot[s] EXCEPT !.step = "attempt", !.attempt = @ + 1])
  ELSE Step(s, "error")

\* Faulty variant: a charge that is not successful has failed.
CallGatewayTwoWays(s) ==
  /\ slot[s].step = "call"
  /\ IF gateway[slot[s].txn] = "successful" THEN Step(s, "commit") ELSE Step(s, "failed")
  /\ UNCHANGED <<txn, subscription, gateway, faults, credits, raced>>

CallGateway(s) ==
  /\ slot[s].step = "call"
  /\ CASE gateway[slot[s].txn] = "successful" -> Step(s, "commit")
       [] gateway[slot[s].txn] = "failed" -> Step(s, "failed")
       [] OTHER -> Retry(s)
  /\ UNCHANGED <<txn, subscription, gateway, faults, credits, raced>>

\* A count or the call fails: retried; or the answer, or the time already
\* spent, rules a retry out.
AttemptFails(s) ==
  /\ slot[s].step \in {"attempt", "call", "decided"}
  /\ Fault
  /\ Retry(s) \/ Step(s, "error")
  /\ UNCHANGED <<txn, subscription, gateway, credits, raced>>

Granted(t) == txn[t].paymentReason \in {"PREMIUM", "FREEMIUM"}

\* Faulty variant: the status is written before the database transaction.
MarkThenCommit(s) ==
  LET t == slot[s].txn IN
  /\ slot[s].step = "commit"
  /\ IF txn[t].status # "SUCCESSFUL"
     THEN /\ txn' = [txn EXCEPT ![t].status = "SUCCESSFUL"]
          /\ UNCHANGED <<slot, subscription, credits>>
     ELSE /\ subscription' = [subscription EXCEPT ![txn[t].userId] =
                                IF Granted(t) THEN txn[t].paymentReason ELSE @]
          /\ credits' = [credits EXCEPT ![t] = IF Granted(t) /\ @ < 2 THEN @ + 1 ELSE @]
          /\ Finish(s) /\ UNCHANGED txn
  /\ UNCHANGED <<gateway, faults, raced>>

\* One database transaction: the transaction's status and the user's plan.
Commit(s) ==
  LET t == slot[s].txn IN
  /\ slot[s].step = "commit"
  /\ txn' = [txn EXCEPT ![t].status = "SUCCESSFUL",
                        ![t].verificationAttempts = slot[s].attempt, ![t].recent = TRUE]
  /\ subscription' = [subscription EXCEPT ![txn[t].userId] =
                        IF Granted(t) THEN txn[t].paymentReason ELSE @]
  /\ credits' = [credits EXCEPT ![t] = IF Granted(t) /\ @ < 2 THEN @ + 1 ELSE @]
  /\ Finish(s)
  /\ UNCHANGED <<gateway, faults, raced>>

\* It fails and is rolled back.
Rollback(s) ==
  /\ slot[s].step = "commit"
  /\ Fault
  /\ Step(s, "error")
  /\ UNCHANGED <<txn, subscription, gateway, credits, raced>>

\* The status is written, then the attempt; if the status cannot be written,
\* that is only logged.
MarkFailed(s) ==
  /\ slot[s].step = "failed"
  /\ txn' = [txn EXCEPT ![slot[s].txn].status = "FAILED"]
  /\ Step(s, "decided")
  /\ UNCHANGED <<subscription, gateway, faults, credits, raced>>

MarkFails(s) ==
  /\ slot[s].step = "failed"
  /\ Fault
  /\ Step(s, "decided")
  /\ UNCHANGED <<txn, subscription, gateway, credits, raced>>

CountDecided(s) ==
  LET v == slot[s] IN
  /\ v.step = "decided"
  /\ txn' = [txn EXCEPT ![v.txn].verificationAttempts = v.attempt, ![v.txn].recent = TRUE]
  /\ Finish(s)
  /\ UNCHANGED <<subscription, gateway, faults, credits, raced>>

MarkError(s) ==
  /\ slot[s].step = "error"
  /\ txn' = [txn EXCEPT ![slot[s].txn].status = "ERROR"]
  /\ Finish(s)
  /\ UNCHANGED <<subscription, gateway, faults, credits, raced>>

\* The server restarts, or an update of the status fails, which is only logged.
Die(s) ==
  /\ slot[s] # Idle
  /\ Fault
  /\ Finish(s)
  /\ UNCHANGED <<txn, subscription, gateway, credits, raced>>

(***************************************************************************)
(* The world: five minutes pass; the user loses the plan, by the webhook   *)
(* subscription.cancelled, an ended party or expiry.                       *)
(***************************************************************************)
FiveMinutes(t) ==
  /\ txn[t].recent
  /\ txn' = [txn EXCEPT ![t].recent = FALSE]
  /\ UNCHANGED <<subscription, slot, gateway, faults, credits, raced>>

LosePlan(u) ==
  /\ subscription[u] # "FREE_TIER"
  /\ subscription' = [subscription EXCEPT ![u] = "FREE_TIER"]
  /\ UNCHANGED <<txn, slot, gateway, faults, credits, raced>>

Continue(s) ==
  \/ HandleWebhook(s)
  \/ RefuseTransaction(s)
  \/ LoadTransaction(s)
  \/ CountAttempt(s)
  \/ CallGateway(s)
  \/ Commit(s)
  \/ MarkFailed(s)
  \/ CountDecided(s)
  \/ MarkError(s)

Poll(t) == \E s \in Slots : HandlePendingTransactionPolling(s, t)

Next ==
  \/ \E t \in Transactions :
       \/ \E u \in Users, reason \in PaymentReason : InitiateTransaction(t, u, reason)
       \/ \E charge \in ChargeStatus :
            \/ DecideCharge(t, charge)
            \/ \E s \in Slots : ReceiveWebhook(s, t, charge)
       \/ Poll(t)
       \/ FiveMinutes(t)
  \/ \E s \in Slots : Continue(s) \/ AttemptFails(s) \/ MarkFails(s) \/ Rollback(s) \/ Die(s)
  \/ \E u \in Users : LosePlan(u)

\* A call that was begun returns and time passes.  The poll fires every half
\* hour whatever else runs: that it needs a slot is a bound of the model, so it
\* must run if a slot is free again and again.  Nothing is assumed of the
\* gateway, of webhooks or of faults.
Fairness ==
  /\ \A s \in Slots : WF_pvars(Continue(s))
  /\ \A t \in Transactions : SF_pvars(Poll(t)) /\ WF_pvars(FiveMinutes(t))

Spec == Init /\ [][Next]_pvars
FairSpec == Spec /\ Fairness

(***************************************************************************)
(* Properties.                                                             *)
(***************************************************************************)
\* A transaction is SUCCESSFUL or FAILED only if the gateway says so, however
\* webhooks and verifications race, repeat and give up.
VerdictIsTheGateways ==
  \A t \in Transactions :
    /\ txn[t].status = "SUCCESSFUL" => gateway[t] = "successful"
    /\ txn[t].status = "FAILED" => gateway[t] = "failed"

\* A successful transaction has been credited to its user, and nothing but a
\* successful charge is: no restart comes between the status and the plan.
SuccessIsCredited ==
  \A t \in Transactions :
    /\ txn[t].status = "SUCCESSFUL" /\ Granted(t) => credits[t] > 0
    /\ credits[t] > 0 => gateway[t] = "successful"

\* A transaction whose externalId is known does not stay PENDING: whatever
\* verification dies or cannot write its result, the poll starts another.
PendingIsDecided ==
  \A t \in Transactions :
    txn[t].status = "PENDING" /\ txn[t].externalId ~> txn[t].status # "PENDING"

\* A transaction is credited at most once unless two verifications of it ran
\* at the same time: whichever webhooks repeat, come late or were judged by a
\* status loaded before a verification completed, and whatever fails in between.
CreditedOnceUnlessRaced ==
  \A t \in Transactions : t \notin raced => credits[t] <= 1
===============================================================================
