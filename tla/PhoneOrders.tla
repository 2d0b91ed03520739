------------------------------ MODULE PhoneOrders ------------------------------
(***************************************************************************)
(* The purchase of an Alanya number (services/alanyaPhonePurchase.js,       *)
(* alanyaPhoneOrders.js) and the payments behind it                        *)
(* (services/payments/paymentService.js): a number is put aside, paid for   *)
(* and given in the transaction that settles its payment.                  *)
(*                                                                         *)
(* A request is an execution of several transactions. The provider answers  *)
(* by webhooks, which may be lost, repeated or late, and by fetchStatus,    *)
(* which the sweep asks. Payments of a subscription compete with those of   *)
(* numbers; the period they buy is in module Subscriptions.                *)
(***************************************************************************)
EXTENDS Integers, FiniteSets

CONSTANTS Accounts,   \* accounts that buy
          Newcomers,  \* accounts under registration
          Phones,     \* numbers for sale
          MaxOrders,  \* bound: rows of alanya_phone_order
          Subs,       \* payments of a subscription
          Requests,   \* requests under way at once
          None,
          MaxCrashes  \* bound: requests killed under way

ASSUME PhoneOrdersAssumption ==
  /\ MaxOrders \in Nat /\ MaxCrashes \in Nat /\ (1..MaxOrders) \intersect Subs = {}
  /\ Accounts \intersect Newcomers = {}
  /\ None \notin Accounts \union Newcomers \union Phones

People   == Accounts \union Newcomers
Orders   == 1..MaxOrders
Payments == Orders \union Subs \* the payment of an order has its number
Asked    == {"created", "pending"}
Final    == {"succeeded", "failed", "expired"}
Active   == {"HELD", "PAYING"}

VARIABLES
  order,   \* rows: account, number and status
  lapsed,  \* HELD orders whose held_until is past
  pay,     \* payment -> status
  payer,   \* payment of a subscription -> its account
  refs,    \* payments whose provider_ref is recorded
  age,     \* payment not final -> 0, 1 (two minutes), 2 (thirty minutes)
  prov,    \* payment -> what the provider knows of it
  phone,   \* account -> its number among Phones, or None for any other number
  left,    \* number -> account that left it less than ninety days ago
  req,     \* execution of each request
  crashes, \* so far
  raced    \* history: orders whose number was taken after hold had looked at it, or while they
           \* were active by somebody who had looked before

vars == <<order, lapsed, pay, payer, refs, age, prov, phone, left, req, crashes, raced>>

Nobody == [acc |-> None, phone |-> None, status |-> "none"]
Idle   == [at |-> "idle", acc |-> None, phone |-> None, pay |-> None]

Init ==
  /\ order = [o \in Orders |-> Nobody] /\ lapsed = {}
  /\ pay = [p \in Payments |-> "none"] /\ payer = [p \in Subs |-> None]
  /\ refs = {} /\ age = [p \in Payments |-> 0] /\ prov = [p \in Payments |-> "none"]
  /\ phone = [a \in People |-> None] /\ left = [n \in Phones |-> None]
  /\ req = [r \in Requests |-> Idle] /\ crashes = 0 /\ raced = {}

-----------------------------------------------------------------------------
(* Numbers and orders                                                      *)

Owner(n)      == {a \in People : phone[a] = n}
ActiveOn(n)   == {o \in Orders : order[o].phone = n /\ order[o].status \in Active}
OrdersOf(a, s) == {o \in Orders : order[o].acc = a /\ order[o].status \in s}

\* Held for somebody else: a payment under way, or a hold that has not lapsed.
IsHeld(n, a) == \E o \in ActiveOn(n) :
  order[o].acc # a /\ (order[o].status = "PAYING" \/ o \notin lapsed)

Available(n, a) == Owner(n) = {} /\ ~IsHeld(n, a) /\ left[n] \in {None, a}

\* The account whose row a transaction locks from its checks to its commit.
Locked(a) == \E r \in Requests : req[r].at \in {"hold", "admin"} /\ req[r].acc = a

\* UPDATE users, INSERT alanya_phone_history.
ChangePhone(a, n) ==
  /\ phone' = [phone EXCEPT ![a] = n]
  /\ left' = [m \in Phones |-> IF m = phone[a] /\ m # n THEN a ELSE left[m]]

\* applyOrder: the number, or a credit when somebody took it.
ApplyOrder(o, row) ==
  IF Owner(row.phone) \subseteq {row.acc}
  THEN /\ ChangePhone(row.acc, row.phone)
       /\ order' = [order EXCEPT ![o] = [row EXCEPT !.status = "APPLIED"]]
  ELSE /\ order' = [order EXCEPT ![o] = [row EXCEPT !.status = "CREDIT"]]
       /\ UNCHANGED <<phone, left>>

-----------------------------------------------------------------------------
(* settlePayment: the only way to a final status                           *)

\* Mutant: only the payment is marked.
SettleRowOnly(p, outcome) ==
  IF pay[p] \notin Asked THEN UNCHANGED <<pay, age, order, phone, left>>
  ELSE pay' = [pay EXCEPT ![p] = outcome] /\ UNCHANGED age
       /\ IF p \in Orders /\ outcome = "succeeded" /\ ~Locked(order[p].acc)
          THEN ApplyOrder(p, order[p]) ELSE UNCHANGED <<order, phone, left>>

\* The transaction: payment, order and number together, or nothing when the payment is final.
\* It waits for the row of the account.
Settle(p, outcome) ==
  IF pay[p] \notin Asked THEN UNCHANGED <<pay, age, order, phone, left>>
  ELSE /\ pay' = [pay EXCEPT ![p] = outcome] /\ age' = [age EXCEPT ![p] = 0]
       /\ IF p \in Subs THEN UNCHANGED <<order, phone, left>>
          ELSE IF outcome = "succeeded"
          THEN IF order[p].status \in {"APPLIED", "CREDIT"} THEN UNCHANGED <<order, phone, left>>
               ELSE ~Locked(order[p].acc) /\ ApplyOrder(p, order[p])
          ELSE /\ order' = [order EXCEPT ![p].status = IF @ = "PAYING" THEN "ABANDONED" ELSE @]
               /\ UNCHANGED <<phone, left>>

-----------------------------------------------------------------------------
(* hold and release                                                        *)

Goto(r, x)  == req' = [req EXCEPT ![r] = x]
Finish(r)   == Goto(r, Idle)
NoRequest   == UNCHANGED <<req, crashes>>
NoMoney     == UNCHANGED <<pay, payer, refs, age, prov>>
NoNumber    == UNCHANGED <<phone, left>>
NoOrder     == UNCHANGED <<order, lapsed, raced>>

\* The reads of hold: no payment under way, the number on sale. The account stays locked.
HoldRead(r, a, n) ==
  /\ req[r].at = "idle" /\ ~Locked(a)
  /\ OrdersOf(a, {"PAYING"}) = {} /\ phone[a] # n /\ Available(n, a)
  /\ Goto(r, [at |-> "hold", acc |-> a, phone |-> n, pay |-> None])
  /\ NoMoney /\ NoNumber /\ NoOrder /\ UNCHANGED crashes

\* Its own hold, and the lapsed hold of another on the number, are given up.
GivenUp(a, n) == [o \in Orders |->
  IF order[o].status = "HELD" /\ (order[o].acc = a \/ (order[o].phone = n /\ o \in lapsed))
  THEN [order[o] EXCEPT !.status = "ABANDONED"] ELSE order[o]]

\* Mutant: without the indexes.
NoIndex(a, n) == TRUE

\* uq_order_active_phone and uq_order_active_user: what is left active refuses the row.
Unique(a, n) == \A o \in Orders :
  GivenUp(a, n)[o].status \in Active => order[o].acc # a /\ order[o].phone # n

StillHeld == {o \in lapsed : order'[o].status = "HELD"}

\* Mutant: the credit is still there once it has paid.
HoldCreditTwice(r) ==
  LET a == req[r].acc  n == req[r].phone IN
  /\ req[r].at = "hold" /\ OrdersOf(a, {"CREDIT"}) # {} /\ Owner(n) = {} /\ ChangePhone(a, n)
  /\ order' = GivenUp(a, n) /\ lapsed' = StillHeld /\ Finish(r) /\ NoMoney
  /\ UNCHANGED <<crashes, raced>>

\* A credit pays for the number at once, through the same indexes.
HoldCredit(r) ==
  LET a == req[r].acc  n == req[r].phone  rest == GivenUp(a, n) IN
  /\ req[r].at = "hold"
  /\ \E o \in OrdersOf(a, {"CREDIT"}) :
       /\ Unique(a, n)
       /\ IF Owner(n) = {}
          THEN /\ ChangePhone(a, n)
               /\ order' = [rest EXCEPT ![o] = [acc |-> a, phone |-> n, status |-> "APPLIED"]]
          ELSE /\ NoNumber
               /\ order' = [rest EXCEPT ![o] = [acc |-> a, phone |-> n, status |-> "CREDIT"]]
  /\ lapsed' = StillHeld /\ Finish(r) /\ NoMoney /\ UNCHANGED <<crashes, raced>>

\* AUTO_INCREMENT
NextId(o) == \A x \in Orders : order[x].status = "none" <=> x >= o

HoldInsert(r) ==
  LET a == req[r].acc  n == req[r].phone IN
  /\ req[r].at = "hold" /\ OrdersOf(a, {"CREDIT"}) = {} /\ Unique(a, n)
  /\ \E o \in Orders : NextId(o)
       /\ order' = [GivenUp(a, n) EXCEPT ![o] = [acc |-> a, phone |-> n, status |-> "HELD"]]
       /\ raced' = IF Owner(n) = {} THEN raced ELSE raced \union {o}
  /\ lapsed' = StillHeld /\ Finish(r) /\ NoMoney /\ NoNumber /\ UNCHANGED crashes

\* ER_DUP_ENTRY: the transaction is rolled back.
HoldRefused(r) ==
  /\ req[r].at = "hold" /\ ~Unique(req[r].acc, req[r].phone)
  /\ Finish(r) /\ NoMoney /\ NoNumber /\ NoOrder /\ UNCHANGED crashes

Release(a) ==
  /\ OrdersOf(a, {"HELD"}) # {} /\ ~Locked(a)
  /\ order' = [o \in Orders |-> IF o \in OrdersOf(a, {"HELD"})
                                THEN [order[o] EXCEPT !.status = "ABANDONED"] ELSE order[o]]
  /\ lapsed' = StillHeld /\ NoMoney /\ NoNumber /\ NoRequest /\ UNCHANGED raced

HoldLapses(o) ==
  /\ order[o].status = "HELD" /\ o \notin lapsed /\ lapsed' = lapsed \union {o}
  /\ NoMoney /\ NoNumber /\ NoRequest /\ UNCHANGED <<order, raced>>

-----------------------------------------------------------------------------
(* checkout, of a number or of a subscription                              *)

PayerOf(p) == IF p \in Subs THEN payer[p] ELSE order[p].acc

\* A payment asked less than thirty minutes ago.
HasPending(a) == \E p \in Payments : pay[p] \in Asked /\ PayerOf(p) = a /\ age[p] < 2

\* preparePayment. initiateRenewal makes the same check.
Prepare(r, a, p) ==
  /\ req[r].at = "idle" /\ ~HasPending(a) /\ pay[p] = "none"
  /\ p \in Orders => order[p].acc = a
  /\ Goto(r, [at |-> "prepared", acc |-> a, phone |-> None, pay |-> p])
  /\ NoMoney /\ NoNumber /\ NoOrder /\ UNCHANGED crashes

Insert(r) ==
  LET p == req[r].pay IN
  /\ req[r].at = "prepared" /\ pay[p] = "none"
  /\ IF p \in Subs THEN payer' = [payer EXCEPT ![p] = req[r].acc] /\ UNCHANGED order
     ELSE /\ order[p].status = "HELD" /\ p \notin lapsed
          /\ order' = [order EXCEPT ![p].status = "PAYING"] /\ UNCHANGED payer
  /\ pay' = [pay EXCEPT ![p] = "created"]
  /\ Goto(r, [req[r] EXCEPT !.at = "initiate"])
  /\ NoNumber /\ UNCHANGED <<refs, age, prov, lapsed, crashes, raced>>

\* PAYMENT_PENDING or PHONE_HOLD_EXPIRED.
InsertRefused(r) ==
  LET p == req[r].pay IN
  /\ req[r].at = "prepared" /\ (p \in Orders => order[p].status # "HELD" \/ p \in lapsed)
  /\ (p \in Subs => pay[p] # "none")
  /\ Finish(r) /\ NoMoney /\ NoNumber /\ NoOrder /\ UNCHANGED crashes

\* provider.initiate: the provider has the request or not, the answer arrives or not.
Initiate(r, known, answered) ==
  LET p == req[r].pay IN
  /\ req[r].at = "initiate" /\ (answered => known)
  /\ prov' = [prov EXCEPT ![p] = IF known THEN "asked" ELSE @]
  /\ Goto(r, [req[r] EXCEPT !.at = IF answered THEN "ref" ELSE "error"])
  /\ NoNumber /\ NoOrder /\ UNCHANGED <<pay, payer, refs, age, crashes>>

\* Mutant: the status is what the provider calls it.
RecordAsTold(r) ==
  LET p == req[r].pay IN
  /\ req[r].at = "ref" /\ Finish(r)
  /\ pay' = [pay EXCEPT ![p] = prov[p]] /\ refs' = refs \union {p}
  /\ NoNumber /\ NoOrder /\ UNCHANGED <<payer, age, prov, crashes>>

\* UPDATE payment SET provider_ref, status WHERE status = CREATED.
RecordRef(r) ==
  LET p == req[r].pay IN
  /\ req[r].at = "ref" /\ Finish(r)
  /\ IF pay[p] = "created"
     THEN pay' = [pay EXCEPT ![p] = "pending"] /\ refs' = refs \union {p}
     ELSE UNCHANGED <<pay, refs>>
  /\ NoNumber /\ NoOrder /\ UNCHANGED <<payer, age, prov, crashes>>

\* The provider did not answer: the payment fails like any other.
InitiateFailed(r) ==
  /\ req[r].at = "error" /\ Settle(req[r].pay, "failed") /\ Finish(r)
  /\ UNCHANGED <<payer, refs, prov, lapsed, crashes, raced>>

\* Before its first commit, a request that dies leaves nothing.
Crash(r) ==
  /\ req[r].at \in {"initiate", "ref", "error"} /\ crashes < MaxCrashes /\ crashes' = crashes + 1 /\ Finish(r)
  /\ NoMoney /\ NoNumber /\ NoOrder

-----------------------------------------------------------------------------
(* The provider, its webhooks and the sweep                                *)

\* The user dials his code, or refuses.
Answer(p, outcome) ==
  /\ prov[p] = "asked" /\ outcome \in {"succeeded", "failed"}
  /\ prov' = [prov EXCEPT ![p] = outcome]
  /\ NoNumber /\ NoOrder /\ NoRequest /\ UNCHANGED <<pay, payer, refs, age>>

\* handleWebhook: the answer may come at any time, several times, or never. The payment is found by
\* its reference; an unknown one is acknowledged, and nothing is done.
Webhook(p) ==
  /\ prov[p] \in Final /\ p \in refs /\ Settle(p, prov[p])
  /\ NoRequest /\ UNCHANGED <<payer, refs, prov, lapsed, raced>>

GrowOld(p) ==
  /\ pay[p] \in Asked /\ age[p] < 2 /\ age' = [age EXCEPT ![p] = @ + 1]
  /\ NoNumber /\ NoOrder /\ NoRequest /\ UNCHANGED <<pay, payer, refs, prov>>

\* Mutant: a payment the provider has no reference of is skipped for good.
ReconcileKnown(p) ==
  /\ pay[p] \in Asked /\ age[p] >= 1 /\ p \in refs
  /\ IF age[p] = 2 THEN Settle(p, "expired") ELSE prov[p] \in Final /\ Settle(p, prov[p])
  /\ NoRequest /\ UNCHANGED <<payer, refs, prov, lapsed, raced>>

\* reconcilePending, on one row: expired after thirty minutes, else what the provider says.
Reconcile(p) ==
  /\ pay[p] \in Asked /\ age[p] >= 1
  /\ IF age[p] = 2 THEN Settle(p, "expired")
     ELSE p \in refs /\ prov[p] \in Final /\ Settle(p, prov[p])
  /\ NoRequest /\ UNCHANGED <<payer, refs, prov, lapsed, raced>>

-----------------------------------------------------------------------------
(* Registrations and administrators, who look before they write            *)

\* generateUniquePhone draws a number nobody has or holds; updateUserPhone passes over the
\* quarantine, in a transaction that locks the account, and gives any number (None).
TakeRead(r, a, n) ==
  /\ req[r].at = "idle" /\ ~IsHeld(n, None) /\ phone[a] # n
  /\ a \in Newcomers => n # None /\ Owner(n) = {} /\ left[n] = None /\ phone[a] = None
  /\ a \in Accounts => ~Locked(a)
  /\ Goto(r, [at |-> IF a \in Accounts THEN "admin" ELSE "register", acc |-> a, phone |-> n,
              pay |-> None])
  /\ NoMoney /\ NoNumber /\ NoOrder /\ UNCHANGED crashes

\* uq_phone decides: refused when somebody has the number by then.
TakeWrite(r) ==
  LET a == req[r].acc  n == req[r].phone IN
  /\ req[r].at \in {"admin", "register"} /\ Finish(r)
  /\ IF n = None \/ Owner(n) = {} THEN ChangePhone(a, n) /\ raced' = raced \union ActiveOn(n)
     ELSE NoNumber /\ UNCHANGED raced
  /\ NoMoney /\ UNCHANGED <<order, lapsed, crashes>>

QuarantineEnds(n) ==
  /\ left[n] # None /\ left' = [left EXCEPT ![n] = None]
  /\ NoMoney /\ NoOrder /\ NoRequest /\ UNCHANGED phone

-----------------------------------------------------------------------------
Request(r) ==
  \/ \E a \in Accounts, n \in Phones : HoldRead(r, a, n)
  \/ HoldCredit(r)
  \/ HoldInsert(r)
  \/ HoldRefused(r)
  \/ \E a \in Accounts, p \in Payments : Prepare(r, a, p)
  \/ Insert(r)
  \/ InsertRefused(r)
  \/ \E known, answered \in BOOLEAN : Initiate(r, known, answered)
  \/ RecordRef(r)
  \/ InitiateFailed(r)
  \/ \E a \in People, n \in Phones \union {None} : TakeRead(r, a, n)
  \/ TakeWrite(r)
  \/ Crash(r)

Next ==
  \/ \E r \in Requests : Request(r)
  \/ \E a \in Accounts : Release(a)
  \/ \E o \in Orders : HoldLapses(o)
  \/ \E p \in Payments : GrowOld(p) \/ Reconcile(p) \/ Webhook(p)
  \/ \E p \in Payments, outcome \in Final : Answer(p, outcome)
  \/ \E n \in Phones : QuarantineEnds(n)

Spec == Init /\ [][Next]_vars

\* Time passes and the sweep comes back; nothing makes a webhook arrive, and a transaction ends.
Fairness ==
  /\ \A p \in Payments : WF_vars(GrowOld(p)) /\ WF_vars(Reconcile(p))
  /\ \A r \in Requests : WF_vars(HoldCredit(r) \/ HoldInsert(r) \/ HoldRefused(r) \/ TakeWrite(r))

FairSpec == Spec /\ Fairness

-----------------------------------------------------------------------------
(* Type and properties                                                     *)

\* The state is well-typed: orders are rows of an account, a payment has one status
\* (alanya_phone_order and payment, written by hold, checkout and settlePayment).
TypeOK ==
  /\ order \in [Orders -> [acc : Accounts \union {None}, phone : Phones \union {None},
                           status : {"none", "HELD", "PAYING", "APPLIED", "ABANDONED", "CREDIT"}]]
  /\ lapsed \subseteq Orders /\ raced \subseteq Orders /\ refs \subseteq Payments
  /\ pay \in [Payments -> {"none"} \union Asked \union Final]
  /\ payer \in [Subs -> Accounts \union {None}] /\ age \in [Payments -> 0..2]
  /\ prov \in [Payments -> {"none", "asked", "succeeded", "failed"}]
  /\ phone \in [People -> Phones \union {None}]
  /\ left \in [Phones -> People \union {None}] /\ crashes \in 0..MaxCrashes
  /\ req \in [Requests -> [at : {"idle", "hold", "prepared", "initiate", "ref", "error", "admin",
                                 "register"},
                           acc : People \union {None}, phone : Phones \union {None},
                           pay : Payments \union {None}]]

\* Whatever confirms, fails or expires a payment, and in any order: an order waits for its payment
\* exactly while it is not final, and has its number or its credit exactly when it succeeded
\* (settlePayment, insertPayment in the transaction of checkout).
OrderFollowsPayment == \A o \in Orders :
  /\ pay[o] \in Asked <=> order[o].status = "PAYING"
  /\ pay[o] = "succeeded" <=> order[o].status \in {"APPLIED", "CREDIT"}

\* A number being paid for is kept for one account: nobody else puts it aside, and nobody else has
\* it, unless it was taken between the check and the write of one of the two
\* (purchaseAvailability, the unique indexes of alanya_phone_order).
NumberKept == \A o \in Orders : order[o].status = "PAYING" =>
  /\ \A x \in Orders \ {o} :
       order[x].status \in Active => order[x].phone # order[o].phone /\ order[x].acc # order[o].acc
  /\ Owner(order[o].phone) \subseteq {order[o].acc} \/ o \in raced

\* A final payment stays as it is, whatever is received again or late, and a payment buys one
\* number: an account changes its number by an order of its own that was waiting for its payment
\* or had a credit, and has neither afterwards, or by an administrator (settlePayment, hold).
OnePaymentOneNumber ==
  [][/\ \A p \in Payments : pay[p] \in Final => pay'[p] = pay[p]
     /\ \A a \in Accounts : phone'[a] # phone[a] =>
          \/ \E o \in OrdersOf(a, {"PAYING", "CREDIT"}) :
               order'[o].status = "APPLIED" /\ order'[o].phone = phone'[a] /\ pay'[o] = "succeeded"
          \/ \E r \in Requests : req[r].at = "admin" /\ req[r].acc = a]_vars

\* Every payment ends and gives the account its hands back, whatever webhook is lost and whatever
\* request dies, for the sweep expires it (reconcilePending).
PaymentEnds == \A p \in Payments : pay[p] \in Asked ~> pay[p] \in Final

\* What alanyaPhoneOrders.js says: no outcome leaves a payment without a counterpart.
PaidIsServed == \A p \in Payments : prov[p] = "succeeded" => pay[p] \notin {"failed", "expired"}

\* What preparePayment says: an account never has two payments to confirm at once.
OnePendingPayment == \A p, q \in Payments :
  p # q /\ pay[p] \in Asked /\ pay[q] \in Asked => PayerOf(p) # PayerOf(q)
=============================================================================
