--------------------------- MODULE PhoneOrdersProofs ---------------------------
(***************************************************************************)
(* Proofs about PhoneOrders, for any accounts, numbers, payments, requests  *)
(* and crashes: the books agree (an order and its payment end together),    *)
(* a number being paid for is kept for one account, and a payment buys one  *)
(* number.                                                                 *)
(***************************************************************************)
EXTENDS PhoneOrders, TLAPS

OrderRows == [acc : Accounts \union {None}, phone : Phones \union {None},
              status : {"none", "HELD", "PAYING", "APPLIED", "ABANDONED", "CREDIT"}]

Executions == [at : {"idle", "hold", "prepared", "initiate", "ref", "error", "admin", "register"},
               acc : People \union {None}, phone : Phones \union {None}, pay : Payments \union {None}]

USE DEF OrderRows, Executions

\* A row has an account and a number.
RowsOK == \A o \in Orders : order[o].status # "none" => order[o].acc \in Accounts /\ order[o].phone \in Phones

\* What an execution carries from one transaction to the next.
ReqOK == \A r \in Requests :
  /\ req[r].at = "hold" => req[r].acc \in Accounts /\ req[r].phone \in Phones
  /\ req[r].at = "admin" => req[r].acc \in Accounts /\ req[r].phone \in Phones \union {None}
  /\ req[r].at = "register" => req[r].acc \in Newcomers /\ req[r].phone \in Phones
  /\ req[r].at \in {"prepared", "initiate", "ref", "error"} =>
       req[r].acc \in Accounts /\ req[r].pay \in Payments

\* The unique indexes: an account and a number have one active order each.
Apart == \A o, x \in Orders :
  o # x /\ order[o].status \in Active /\ order[x].status \in Active =>
    order[x].phone # order[o].phone /\ order[x].acc # order[o].acc

\* From the moment it is put aside, a number belongs to nobody else.
Aside == \A o \in Orders : order[o].status \in Active =>
  Owner(order[o].phone) \subseteq {order[o].acc} \/ o \in raced

Books == RowsOK /\ OrderFollowsPayment /\ Apart /\ Aside
Inv   == TypeOK /\ ReqOK /\ Books

-----------------------------------------------------------------------------
(* What the transactions write                                             *)

\* A change of number: the account has it, and no other number changes hands.
LEMMA PhoneChanged ==
  ASSUME TypeOK, NEW a \in People, NEW n \in Phones \union {None}, ChangePhone(a, n)
  PROVE  /\ phone' \in [People -> Phones \union {None}] /\ left' \in [Phones -> People \union {None}]
         /\ phone'[a] = n /\ \A b \in People : b # a => phone'[b] = phone[b]
         /\ \A m : m # n => Owner(m)' \subseteq Owner(m)
<1>1. phone' = [phone EXCEPT ![a] = n] /\ left' = [m \in Phones |-> IF m = phone[a] /\ m # n THEN a ELSE left[m]]
  BY DEF ChangePhone
<1>2. phone \in [People -> Phones \union {None}] /\ left \in [Phones -> People \union {None}]
  BY DEF TypeOK
<1>3. phone' \in [People -> Phones \union {None}] /\ left' \in [Phones -> People \union {None}]
  BY <1>1, <1>2
<1>4. phone'[a] = n /\ \A b \in People : b # a => phone'[b] = phone[b]
  BY <1>1, <1>2
<1>5. \A m : m # n => Owner(m)' \subseteq Owner(m)
  BY <1>4 DEF Owner
<1> QED BY <1>3, <1>4, <1>5

\* A payment that succeeds gives an active order its number or its credit.
LEMMA Applied ==
  ASSUME Inv, NEW o \in Orders, order[o].status = "PAYING", ApplyOrder(o, order[o]),
         pay' = [pay EXCEPT ![o] = "succeeded"], UNCHANGED raced
  PROVE  /\ order' \in [Orders -> OrderRows]
         /\ phone' \in [People -> Phones \union {None}] /\ left' \in [Phones -> People \union {None}]
         /\ Books'
         /\ \A a \in People : phone'[a] # phone[a] =>
              a = order[o].acc /\ order'[o].status = "APPLIED" /\ order'[o].phone = phone'[a]
<1> DEFINE n == order[o].phone
           a == order[o].acc
<1>1. a \in Accounts /\ n \in Phones /\ a \in People
  BY DEF Inv, Books, RowsOK, People
<1>2. /\ order \in [Orders -> OrderRows]
      /\ pay \in [Payments -> {"none"} \union Asked \union Final] /\ o \in Payments /\ Orders \subseteq Payments
  BY DEF Inv, TypeOK, Payments
<1>3. PICK s \in {"APPLIED", "CREDIT"} :
        /\ order' = [order EXCEPT ![o] = [order[o] EXCEPT !.status = s]]
        /\ s = "APPLIED" => ChangePhone(a, n)
        /\ s = "CREDIT" => UNCHANGED <<phone, left>>
  BY DEF ApplyOrder
<1>4. /\ order'[o].status = s /\ order'[o].acc = a /\ order'[o].phone = n
      /\ \A x \in Orders : x # o => order'[x] = order[x]
  BY <1>2, <1>3
<1>5. order' \in [Orders -> OrderRows]
  BY <1>2, <1>3
<1>6. TypeOK
  BY DEF Inv
<1>7. /\ phone' \in [People -> Phones \union {None}] /\ left' \in [Phones -> People \union {None}]
      /\ \A m : m # n => Owner(m)' \subseteq Owner(m)
      /\ \A b \in People : phone'[b] # phone[b] => b = a /\ s = "APPLIED" /\ phone'[b] = n
  <2>1. CASE s = "APPLIED"
    <3>1. ChangePhone(a, n)
      BY <1>3, <2>1
    <3> HIDE DEF a, n
    <3> QED BY <1>1, <1>6, <2>1, <3>1, PhoneChanged
  <2>2. CASE s = "CREDIT"
    BY <1>3, <1>6, <2>2 DEF TypeOK, Owner
  <2> QED BY <2>1, <2>2
<1>8. RowsOK'
  BY <1>1, <1>4 DEF RowsOK, Inv, Books
<1>9. OrderFollowsPayment'
  <2>1. pay'[o] = "succeeded" /\ \A x \in Orders : x # o => pay'[x] = pay[x]
    BY <1>2
  <2> QED BY <1>4, <2>1 DEF OrderFollowsPayment, Inv, Books, Asked
<1>10. \A x \in Orders : order'[x].status \in Active => x # o /\ order'[x] = order[x] /\ order[x].phone # n
  BY <1>4 DEF Inv, Books, Apart, Active
<1>11. Apart'
  BY <1>10 DEF Apart, Inv, Books
<1>12. Aside'
  <2>1. \A x \in Orders : order'[x].status \in Active =>
          {b \in People : phone'[b] = order[x].phone} \subseteq {b \in People : phone[b] = order[x].phone}
    BY <1>7, <1>10 DEF Owner
  <2> QED BY <1>10, <2>1 DEF Aside, Inv, Books, Owner
<1> QED BY <1>4, <1>5, <1>7, <1>8, <1>9, <1>11, <1>12 DEF Books

\* settlePayment keeps the books, and a final payment as it is.
LEMMA Settled ==
  ASSUME Inv, NEW p \in Payments, NEW outcome \in Final, Settle(p, outcome), UNCHANGED raced
  PROVE  /\ order' \in [Orders -> OrderRows]
         /\ pay' \in [Payments -> {"none"} \union Asked \union Final] /\ age' \in [Payments -> 0..2]
         /\ phone' \in [People -> Phones \union {None}] /\ left' \in [Phones -> People \union {None}]
         /\ Books'
         /\ \A q \in Payments : pay[q] \in Final => pay'[q] = pay[q]
         /\ \A a \in Accounts : phone'[a] # phone[a] =>
              \E o \in OrdersOf(a, {"PAYING", "CREDIT"}) :
                order'[o].status = "APPLIED" /\ order'[o].phone = phone'[a] /\ pay'[o] = "succeeded"
<1>1. /\ order \in [Orders -> OrderRows]
      /\ pay \in [Payments -> {"none"} \union Asked \union Final] /\ age \in [Payments -> 0..2]
      /\ phone \in [People -> Phones \union {None}] /\ left \in [Phones -> People \union {None}]
      /\ Orders \subseteq Payments /\ Accounts \subseteq People
  BY DEF Inv, TypeOK, Payments, People
<1>2. CASE pay[p] \notin Asked
  <2>1. UNCHANGED <<pay, age, order, phone, left>>
    BY <1>2 DEF Settle
  <2>2. Books'
    BY <2>1 DEF Inv, Books, RowsOK, OrderFollowsPayment, Apart, Aside, Owner
  <2> QED BY <1>1, <2>1, <2>2
<1>3. CASE pay[p] \in Asked
  <2>1. pay' = [pay EXCEPT ![p] = outcome] /\ age' = [age EXCEPT ![p] = 0]
    BY <1>3 DEF Settle
  <2>2. pay' \in [Payments -> {"none"} \union Asked \union Final] /\ age' \in [Payments -> 0..2]
    BY <1>1, <2>1
  <2>3. \A q \in Payments : pay[q] \in Final => pay'[q] = pay[q]
    BY <1>1, <1>3, <2>1 DEF Asked, Final
  <2>4. CASE p \in Subs
    <3>1. UNCHANGED <<order, phone, left>>
      BY <1>3, <2>4 DEF Settle
    <3>2. \A o \in Orders : pay'[o] = pay[o]
      BY <1>1, <2>1, <2>4, PhoneOrdersAssumption DEF Orders
    <3>3. Books'
      BY <3>1, <3>2 DEF Inv, Books, RowsOK, OrderFollowsPayment, Apart, Aside, Owner
    <3> QED BY <1>1, <2>2, <2>3, <3>1, <3>3
  <2>5. CASE p \notin Subs
    <3>1. p \in Orders /\ order[p].status = "PAYING"
      BY <1>3, <2>5 DEF Payments, Inv, Books, OrderFollowsPayment
    <3>2. CASE outcome = "succeeded"
      <4>1. ApplyOrder(p, order[p])
        BY <1>3, <2>5, <3>1, <3>2 DEF Settle
      <4>2. pay' = [pay EXCEPT ![p] = "succeeded"] /\ pay'[p] = "succeeded"
        BY <1>1, <2>1, <3>2
      <4>3. /\ order' \in [Orders -> OrderRows]
            /\ phone' \in [People -> Phones \union {None}] /\ left' \in [Phones -> People \union {None}]
            /\ Books'
            /\ \A a \in People : phone'[a] # phone[a] =>
                 a = order[p].acc /\ order'[p].status = "APPLIED" /\ order'[p].phone = phone'[a]
        BY <3>1, <4>1, <4>2, Applied
      <4>4. \A a \in Accounts : phone'[a] # phone[a] =>
              \E o \in OrdersOf(a, {"PAYING", "CREDIT"}) :
                order'[o].status = "APPLIED" /\ order'[o].phone = phone'[a] /\ pay'[o] = "succeeded"
        BY <1>1, <3>1, <4>2, <4>3 DEF OrdersOf
      <4> QED BY <2>2, <2>3, <4>3, <4>4
    <3>3. CASE outcome # "succeeded"
      <4>1. /\ order' = [order EXCEPT ![p].status = IF @ = "PAYING" THEN "ABANDONED" ELSE @]
            /\ UNCHANGED <<phone, left>>
        BY <1>3, <2>5, <3>3 DEF Settle
      <4>2. /\ order' \in [Orders -> OrderRows]
            /\ order'[p].status = "ABANDONED" /\ order'[p].acc = order[p].acc /\ order'[p].phone = order[p].phone
            /\ \A x \in Orders : x # p => order'[x] = order[x]
        BY <1>1, <3>1, <4>1
      <4>3. pay'[p] = outcome /\ outcome \notin Asked /\ \A x \in Orders : x # p => pay'[x] = pay[x]
        BY <1>1, <2>1 DEF Final, Asked
      <4>4. RowsOK' /\ Apart'
        BY <3>1, <4>2 DEF Inv, Books, RowsOK, Apart, Active
      <4>5. OrderFollowsPayment'
        BY <3>3, <4>2, <4>3 DEF Inv, Books, OrderFollowsPayment
      <4>6. Aside'
        BY <4>1, <4>2 DEF Inv, Books, Aside, Active, Owner
      <4> QED BY <1>1, <2>2, <2>3, <4>1, <4>2, <4>4, <4>5, <4>6 DEF Books
    <3> QED BY <3>2, <3>3
  <2> QED BY <2>4, <2>5
<1> QED BY <1>2, <1>3

\* What hold gives up: rows keep their account and their number, and only a hold ends.
LEMMA Renounced ==
  ASSUME Inv, NEW a, NEW n
  PROVE  /\ GivenUp(a, n) \in [Orders -> OrderRows]
         /\ \A o \in Orders :
              /\ GivenUp(a, n)[o].acc = order[o].acc /\ GivenUp(a, n)[o].phone = order[o].phone
              /\ GivenUp(a, n)[o].status # order[o].status =>
                   order[o].status = "HELD" /\ GivenUp(a, n)[o].status = "ABANDONED"
<1>1. order \in [Orders -> OrderRows]
  BY DEF Inv, TypeOK
<1>2. \A o \in Orders :
        GivenUp(a, n)[o] = order[o] \/
        (order[o].status = "HELD" /\ GivenUp(a, n)[o] = [order[o] EXCEPT !.status = "ABANDONED"])
  BY DEF GivenUp
<1>3. \A o \in Orders : GivenUp(a, n)[o] \in OrderRows
  <2> TAKE o \in Orders
  <2>1. order[o] \in OrderRows
    BY <1>1
  <2>2. CASE GivenUp(a, n)[o] = order[o]
    BY <2>1, <2>2
  <2>3. CASE GivenUp(a, n)[o] = [order[o] EXCEPT !.status = "ABANDONED"]
    BY <2>1, <2>3
  <2> QED BY <1>2, <2>2, <2>3
<1>4. GivenUp(a, n) \in [Orders -> OrderRows]
  BY <1>3 DEF GivenUp
<1> QED BY <1>1, <1>2, <1>4

\* A new row, put aside through the indexes, keeps the books.
LEMMA HoldInsertBooks ==
  ASSUME Inv, NEW r \in Requests, HoldInsert(r)
  PROVE  Books' /\ order' \in [Orders -> OrderRows]
<1> DEFINE a == req[r].acc
           n == req[r].phone
           rest == GivenUp(a, n)
<1>1. a \in Accounts /\ n \in Phones
  BY DEF HoldInsert, Inv, ReqOK
<1>2. PICK o \in Orders :
        /\ NextId(o)
        /\ order' = [rest EXCEPT ![o] = [acc |-> a, phone |-> n, status |-> "HELD"]]
        /\ raced' = IF Owner(n) = {} THEN raced ELSE raced \union {o}
  BY DEF HoldInsert
<1>3. order[o].status = "none"
  BY <1>2 DEF NextId, Orders
<1>4. UNCHANGED <<pay, phone, left>>
  BY DEF HoldInsert, NoMoney, NoNumber
<1> HIDE DEF a, n, rest
<1>5. /\ rest \in [Orders -> OrderRows]
      /\ \A x \in Orders :
           /\ rest[x].acc = order[x].acc /\ rest[x].phone = order[x].phone
           /\ rest[x].status # order[x].status => order[x].status = "HELD" /\ rest[x].status = "ABANDONED"
  BY Renounced DEF rest
<1>6. /\ order'[o] = [acc |-> a, phone |-> n, status |-> "HELD"]
      /\ \A x \in Orders : x # o => order'[x] = rest[x]
  BY <1>2, <1>5
<1>7. \A x \in Orders : rest[x].status \in Active => order[x].acc # a /\ order[x].phone # n
  BY DEF HoldInsert, Unique, rest, a, n
<1>8. \A x \in Orders : x # o /\ order'[x].status \in Active =>
        /\ order[x].status \in Active /\ order[x].acc # a /\ order[x].phone # n
        /\ order'[x].acc = order[x].acc /\ order'[x].phone = order[x].phone
  BY <1>5, <1>6, <1>7 DEF Active
<1>9. order' \in [Orders -> OrderRows]
  BY <1>1, <1>2, <1>5
<1>10. RowsOK'
  BY <1>1, <1>5, <1>6 DEF Inv, Books, RowsOK
<1>11. OrderFollowsPayment'
  BY <1>3, <1>4, <1>5, <1>6 DEF Inv, Books, OrderFollowsPayment, Asked
<1>12. Apart'
  BY <1>6, <1>8 DEF Inv, Books, Apart
<1>13. Aside'
  BY <1>2, <1>4, <1>6, <1>8 DEF Inv, Books, Aside, Owner
<1> QED BY <1>9, <1>10, <1>11, <1>12, <1>13 DEF Books

\* A credit that pays at once keeps the books, and changes no number but its own account's.
LEMMA HoldCreditBooks ==
  ASSUME Inv, NEW r \in Requests, HoldCredit(r)
  PROVE  /\ Books'
         /\ order' \in [Orders -> OrderRows]
         /\ phone' \in [People -> Phones \union {None}] /\ left' \in [Phones -> People \union {None}]
         /\ \A b \in Accounts : phone'[b] # phone[b] =>
              \E o \in OrdersOf(b, {"PAYING", "CREDIT"}) :
                order'[o].status = "APPLIED" /\ order'[o].phone = phone'[b] /\ pay'[o] = "succeeded"
<1> DEFINE a == req[r].acc
           n == req[r].phone
           rest == GivenUp(a, n)
<1>1. a \in Accounts /\ n \in Phones /\ a \in People /\ Accounts \subseteq People
  BY DEF HoldCredit, Inv, ReqOK, People
<1>2. PICK o \in OrdersOf(a, {"CREDIT"}), s \in {"APPLIED", "CREDIT"} :
        /\ Unique(a, n)
        /\ order' = [rest EXCEPT ![o] = [acc |-> a, phone |-> n, status |-> s]]
        /\ s = "APPLIED" => ChangePhone(a, n)
        /\ s = "CREDIT" => UNCHANGED <<phone, left>>
  BY DEF HoldCredit, NoNumber
<1>3. o \in Orders /\ order[o].status = "CREDIT" /\ order[o].acc = a
  BY <1>2 DEF OrdersOf
<1>4. UNCHANGED <<pay, raced>>
  BY DEF HoldCredit, NoMoney
<1>5. pay[o] = "succeeded"
  BY <1>3 DEF Inv, Books, OrderFollowsPayment
<1>6. TypeOK
  BY DEF Inv
<1>7. \A x \in Orders : rest[x].status \in Active => order[x].acc # a /\ order[x].phone # n
  BY <1>2 DEF Unique
<1> HIDE DEF a, n, rest
<1>8. /\ rest \in [Orders -> OrderRows]
      /\ \A x \in Orders :
           /\ rest[x].acc = order[x].acc /\ rest[x].phone = order[x].phone
           /\ rest[x].status # order[x].status => order[x].status = "HELD" /\ rest[x].status = "ABANDONED"
  BY Renounced DEF rest
<1>9. /\ order'[o] = [acc |-> a, phone |-> n, status |-> s]
      /\ \A x \in Orders : x # o => order'[x] = rest[x]
  BY <1>2, <1>3, <1>8
<1>10. order' \in [Orders -> OrderRows]
  BY <1>1, <1>2, <1>8
<1>11. /\ phone' \in [People -> Phones \union {None}] /\ left' \in [Phones -> People \union {None}]
       /\ \A m : m # n => Owner(m)' \subseteq Owner(m)
       /\ \A b \in People : phone'[b] # phone[b] => b = a /\ s = "APPLIED" /\ phone'[b] = n
  <2>1. CASE s = "APPLIED"
    BY <1>1, <1>2, <1>6, <2>1, PhoneChanged
  <2>2. CASE s = "CREDIT"
    BY <1>2, <1>6, <2>2 DEF TypeOK, Owner
  <2> QED BY <2>1, <2>2
<1>12. \A x \in Orders : order'[x].status \in Active =>
         /\ order[x].status \in Active /\ order[x].acc # a /\ order[x].phone # n
         /\ order'[x].acc = order[x].acc /\ order'[x].phone = order[x].phone
  BY <1>7, <1>8, <1>9 DEF Active
<1>13. RowsOK'
  BY <1>1, <1>8, <1>9 DEF Inv, Books, RowsOK
<1>14. OrderFollowsPayment'
  BY <1>4, <1>5, <1>8, <1>9 DEF Inv, Books, OrderFollowsPayment, Asked
<1>15. Apart'
  BY <1>12 DEF Inv, Books, Apart
<1>16. Aside'
  <2>1. \A x \in Orders : order'[x].status \in Active =>
          {b \in People : phone'[b] = order[x].phone} \subseteq {b \in People : phone[b] = order[x].phone}
    BY <1>11, <1>12 DEF Owner
  <2> QED BY <1>4, <1>12, <2>1 DEF Aside, Inv, Books, Owner
<1>17. \A b \in Accounts : phone'[b] # phone[b] =>
         o \in OrdersOf(b, {"PAYING", "CREDIT"}) /\
         order'[o].status = "APPLIED" /\ order'[o].phone = phone'[b] /\ pay'[o] = "succeeded"
  BY <1>1, <1>3, <1>4, <1>5, <1>9, <1>11 DEF OrdersOf
<1> QED BY <1>10, <1>11, <1>13, <1>14, <1>15, <1>16, <1>17 DEF Books

\* A registration or an administrator takes a number: the orders that waited for it are noted.
LEMMA TakeWriteBooks ==
  ASSUME Inv, NEW r \in Requests, TakeWrite(r)
  PROVE  /\ Books' /\ raced' \subseteq Orders
         /\ phone' \in [People -> Phones \union {None}] /\ left' \in [Phones -> People \union {None}]
         /\ \A b \in Accounts : phone'[b] # phone[b] => req[r].at = "admin" /\ req[r].acc = b
<1> DEFINE a == req[r].acc
           n == req[r].phone
<1>1. a \in People /\ n \in Phones \union {None} /\ (req[r].at = "register" => a \notin Accounts)
  BY PhoneOrdersAssumption DEF TakeWrite, Inv, ReqOK, People
<1>2. UNCHANGED <<pay, order>> /\ TypeOK /\ req[r].at \in {"admin", "register"}
  BY DEF TakeWrite, NoMoney, Inv
<1>3. CASE UNCHANGED <<phone, left, raced>>
  BY <1>2, <1>3 DEF TypeOK, Inv, Books, RowsOK, OrderFollowsPayment, Apart, Aside, Owner
<1>4. CASE ChangePhone(a, n) /\ raced' = raced \union ActiveOn(n)
  <2> HIDE DEF a, n
  <2>1. /\ phone' \in [People -> Phones \union {None}] /\ left' \in [Phones -> People \union {None}]
        /\ phone'[a] = n /\ \A b \in People : b # a => phone'[b] = phone[b]
        /\ \A m : m # n => Owner(m)' \subseteq Owner(m)
    BY <1>1, <1>2, <1>4, PhoneChanged
  <2>2. \A b \in Accounts : phone'[b] # phone[b] => req[r].at = "admin" /\ a = b
    BY <1>1, <1>2, <2>1 DEF People
  <2>3. RowsOK' /\ OrderFollowsPayment' /\ Apart'
    BY <1>2 DEF Inv, Books, RowsOK, OrderFollowsPayment, Apart
  <2>4. Aside'
    <3>1. \A x \in Orders : order[x].phone # n =>
            {b \in People : phone'[b] = order[x].phone} \subseteq {b \in People : phone[b] = order[x].phone}
      BY <2>1 DEF Owner
    <3>2. \A x \in Orders : order[x].phone = n /\ order[x].status \in Active => x \in raced'
      BY <1>4 DEF ActiveOn
    <3> QED BY <1>2, <1>4, <3>1, <3>2 DEF Inv, Books, Aside, Owner
  <2>5. raced' \subseteq Orders
    BY <1>2, <1>4 DEF TypeOK, ActiveOn
  <2> QED BY <2>1, <2>2, <2>3, <2>4, <2>5 DEF Books, a
<1> QED BY <1>3, <1>4 DEF TakeWrite, NoNumber

-----------------------------------------------------------------------------
(* Every step                                                              *)

\* Where an execution goes, it carries what it needs there.
LEMMA Went ==
  ASSUME TypeOK, ReqOK, NEW r \in Requests, NEW x, Goto(r, x),
         \/ x = Idle
         \/ /\ x \in [at : {"hold"}, acc : Accounts, phone : Phones, pay : {None}]
         \/ /\ x \in [at : {"admin"}, acc : Accounts, phone : Phones \union {None}, pay : {None}]
         \/ /\ x \in [at : {"register"}, acc : Newcomers, phone : Phones, pay : {None}]
         \/ /\ x \in [at : {"prepared", "initiate", "ref", "error"}, acc : Accounts,
                      phone : Phones \union {None}, pay : Payments]
  PROVE  /\ req' \in [Requests -> Executions]
         /\ ReqOK'
<1>1. x \in Executions
  BY DEF Idle, People
<1>2. req' = [req EXCEPT ![r] = x] /\
      req \in [Requests -> Executions]
  BY DEF Goto, TypeOK
<1>3. req'[r] = x /\ \A q \in Requests : q # r => req'[q] = req[q]
  BY <1>2
<1>4. /\ x.at = "hold" => x.acc \in Accounts /\ x.phone \in Phones
      /\ x.at = "admin" => x.acc \in Accounts /\ x.phone \in Phones \union {None}
      /\ x.at = "register" => x.acc \in Newcomers /\ x.phone \in Phones
      /\ x.at \in {"prepared", "initiate", "ref", "error"} => x.acc \in Accounts /\ x.pay \in Payments
  BY DEF Idle
<1>5. ReqOK'
  BY <1>3, <1>4 DEF ReqOK
<1> QED BY <1>1, <1>2, <1>5

\* Books that are not touched stay as they are.
LEMMA BooksAlone ==
  ASSUME Inv, UNCHANGED <<order, pay, phone, raced>> PROVE Books'
  BY DEF Inv, Books, RowsOK, OrderFollowsPayment, Apart, Aside, Owner

\* A step of a request keeps the invariant.
LEMMA RequestInv ==
  ASSUME Inv, NEW r \in Requests, Request(r) PROVE Inv'
<1>1. TypeOK /\ ReqOK
  BY DEF Inv
<1>2. req[r] \in Executions
  BY <1>1 DEF TypeOK
<1>3. Accounts \subseteq People /\ Newcomers \subseteq People /\ Orders \subseteq Payments
  BY DEF People, Payments
<1>4. ASSUME NEW a \in Accounts, NEW n \in Phones, HoldRead(r, a, n) PROVE Inv'
  <2>1. Goto(r, [at |-> "hold", acc |-> a, phone |-> n, pay |-> None])
    BY <1>4 DEF HoldRead
  <2>2. ReqOK' /\ TypeOK'
    BY <1>1, <1>4, <2>1, Went DEF HoldRead, TypeOK, NoMoney, NoNumber, NoOrder
  <2>3. Books'
    BY <1>4, BooksAlone DEF HoldRead, NoMoney, NoNumber, NoOrder
  <2> QED BY <2>2, <2>3 DEF Inv
<1>5. ASSUME HoldCredit(r) PROVE Inv'
  <2>1. Goto(r, Idle)
    BY <1>5 DEF HoldCredit, Finish
  <2>2. lapsed' \subseteq Orders
    BY <1>1, <1>5 DEF HoldCredit, StillHeld, TypeOK
  <2>3. ReqOK' /\ TypeOK'
    BY <1>1, <1>5, <2>1, <2>2, Went, HoldCreditBooks DEF HoldCredit, TypeOK, NoMoney
  <2> QED BY <1>5, <2>3, HoldCreditBooks DEF Inv
<1>6. ASSUME HoldInsert(r) PROVE Inv'
  <2>1. Goto(r, Idle)
    BY <1>6 DEF HoldInsert, Finish
  <2>2. lapsed' \subseteq Orders /\ raced' \subseteq Orders
    BY <1>1, <1>6 DEF HoldInsert, StillHeld, TypeOK
  <2>3. ReqOK' /\ TypeOK'
    BY <1>1, <1>6, <2>1, <2>2, Went, HoldInsertBooks DEF HoldInsert, TypeOK, NoMoney, NoNumber
  <2> QED BY <1>6, <2>3, HoldInsertBooks DEF Inv
<1>7. ASSUME HoldRefused(r) \/ InsertRefused(r) \/ Crash(r) PROVE Inv'
  <2>1. Goto(r, Idle) /\ UNCHANGED <<order, lapsed, raced, pay, payer, refs, age, prov, phone, left>>
    BY <1>7 DEF HoldRefused, InsertRefused, Crash, Finish, NoMoney, NoNumber, NoOrder
  <2>2. crashes' \in 0..MaxCrashes
    BY <1>1, <1>7, PhoneOrdersAssumption DEF HoldRefused, InsertRefused, Crash, TypeOK
  <2>3. ReqOK' /\ TypeOK'
    BY <1>1, <2>1, <2>2, Went DEF TypeOK
  <2> QED BY <2>1, <2>3, BooksAlone DEF Inv
<1>8. ASSUME NEW a \in Accounts, NEW p \in Payments, Prepare(r, a, p) PROVE Inv'
  <2>1. Goto(r, [at |-> "prepared", acc |-> a, phone |-> None, pay |-> p])
    BY <1>8 DEF Prepare
  <2>2. ReqOK' /\ TypeOK'
    BY <1>1, <1>8, <2>1, Went DEF Prepare, TypeOK, NoMoney, NoNumber, NoOrder
  <2> QED BY <1>8, <2>2, BooksAlone DEF Inv, Prepare, NoMoney, NoNumber, NoOrder
<1>9. ASSUME Insert(r) PROVE Inv'
  <2> DEFINE p == req[r].pay
  <2>1. p \in Payments /\ req[r].acc \in Accounts /\ pay[p] = "none" /\ pay' = [pay EXCEPT ![p] = "created"]
    BY <1>1, <1>9 DEF Insert, ReqOK
  <2>2. UNCHANGED <<phone, left, refs, age, prov, lapsed, crashes, raced>>
    BY <1>9 DEF Insert, NoNumber
  <2>3. [req[r] EXCEPT !.at = "initiate"] \in
          [at : {"prepared", "initiate", "ref", "error"}, acc : Accounts, phone : Phones \union {None},
           pay : Payments]
    BY <1>2, <2>1
  <2>4. Goto(r, [req[r] EXCEPT !.at = "initiate"])
    BY <1>9 DEF Insert
  <2>5. order \in [Orders -> OrderRows]
        /\ pay \in [Payments -> {"none"} \union Asked \union Final]
    BY <1>1 DEF TypeOK
  <2>6. /\ req' \in [Requests -> Executions]
        /\ ReqOK'
    BY <1>1, <2>3, <2>4, Went
  <2> HIDE DEF p
  <2>7. CASE p \in Subs
    <3>1. payer' = [payer EXCEPT ![p] = req[r].acc] /\ UNCHANGED order
      BY <1>9, <2>7 DEF Insert, p
    <3>2. \A o \in Orders : pay'[o] = pay[o]
      BY <1>3, <2>1, <2>5, <2>7, PhoneOrdersAssumption DEF Orders
    <3>3. TypeOK'
      BY <1>1, <2>1, <2>2, <2>6, <3>1 DEF TypeOK, Asked
    <3>4. Books'
      BY <2>2, <3>1, <3>2 DEF Inv, Books, RowsOK, OrderFollowsPayment, Apart, Aside, Owner
    <3> QED BY <2>6, <3>3, <3>4 DEF Inv
  <2>8. CASE p \notin Subs
    <3>1. p \in Orders /\ order[p].status = "HELD" /\ order' = [order EXCEPT ![p].status = "PAYING"]
          /\ UNCHANGED payer
      BY <1>9, <2>1, <2>8 DEF Insert, Payments, p
    <3>2. /\ order'[p].status = "PAYING" /\ order'[p].acc = order[p].acc /\ order'[p].phone = order[p].phone
          /\ pay'[p] = "created"
          /\ \A x \in Orders : x # p => order'[x] = order[x] /\ pay'[x] = pay[x]
      BY <1>3, <2>1, <2>5, <3>1
    <3>3. TypeOK'
      <4>1. [order[p] EXCEPT !.status = "PAYING"] \in
              OrderRows
        BY <2>5, <3>1
      <4>2. order' = [order EXCEPT ![p] = [order[p] EXCEPT !.status = "PAYING"]]
        BY <3>1
      <4>3. order' \in [Orders -> OrderRows]
        BY <2>5, <4>1, <4>2
      <4>4. pay' \in [Payments -> {"none"} \union Asked \union Final]
        BY <2>1, <2>5 DEF Asked
      <4> QED BY <1>1, <2>2, <2>6, <3>1, <4>3, <4>4 DEF TypeOK
    <3>4. OrderFollowsPayment'
      BY <3>2 DEF Inv, Books, OrderFollowsPayment, Asked
    <3>5. \A x \in Orders :
            /\ order'[x].acc = order[x].acc /\ order'[x].phone = order[x].phone
            /\ order'[x].status \in Active <=> order[x].status \in Active
            /\ order'[x].status # "none" <=> order[x].status # "none"
      BY <3>1, <3>2 DEF Active
    <3>6. RowsOK' /\ Apart' /\ Aside'
      BY <2>2, <3>5 DEF Inv, Books, RowsOK, Apart, Aside, Owner
    <3> QED BY <2>6, <3>3, <3>4, <3>6 DEF Inv, Books
  <2> QED BY <2>7, <2>8
<1>10. ASSUME NEW known \in BOOLEAN, NEW answered \in BOOLEAN, Initiate(r, known, answered) PROVE Inv'
  <2>1. /\ req[r].pay \in Payments /\ req[r].acc \in Accounts
        /\ prov' = [prov EXCEPT ![req[r].pay] = IF known THEN "asked" ELSE @]
        /\ UNCHANGED <<order, lapsed, raced, pay, payer, refs, age, phone, left, crashes>>
    BY <1>1, <1>10 DEF Initiate, ReqOK, NoNumber, NoOrder
  <2>2. PICK at \in {"ref", "error"} : Goto(r, [req[r] EXCEPT !.at = at])
    BY <1>10 DEF Initiate
  <2>3. [req[r] EXCEPT !.at = at] \in
          [at : {"prepared", "initiate", "ref", "error"}, acc : Accounts, phone : Phones \union {None},
           pay : Payments]
    BY <1>2, <2>1
  <2>4. /\ req' \in [Requests -> Executions]
        /\ ReqOK'
    BY <1>1, <2>2, <2>3, Went
  <2>5. TypeOK'
    BY <1>1, <2>1, <2>4 DEF TypeOK
  <2> QED BY <2>1, <2>4, <2>5, BooksAlone DEF Inv
<1>11. ASSUME RecordRef(r) PROVE Inv'
  <2> DEFINE p == req[r].pay
  <2>1. /\ p \in Payments /\ Goto(r, Idle)
        /\ UNCHANGED <<order, lapsed, raced, payer, age, prov, phone, left, crashes>>
    BY <1>1, <1>11 DEF RecordRef, ReqOK, Finish, NoNumber, NoOrder
  <2>2. pay \in [Payments -> {"none"} \union Asked \union Final]
    BY <1>1 DEF TypeOK
  <2>3. /\ pay' \in [Payments -> {"none"} \union Asked \union Final] /\ refs' \subseteq Payments
        /\ \A q \in Payments : pay'[q] = pay[q] \/ (pay[q] = "created" /\ pay'[q] = "pending")
    BY <1>1, <1>11, <2>1, <2>2 DEF RecordRef, Asked, TypeOK
  <2>4. TypeOK' /\ ReqOK'
    BY <1>1, <2>1, <2>3, Went DEF TypeOK
  <2>5. OrderFollowsPayment'
    BY <1>3, <2>1, <2>3 DEF Inv, Books, OrderFollowsPayment, Asked
  <2>6. RowsOK' /\ Apart' /\ Aside'
    BY <2>1 DEF Inv, Books, RowsOK, Apart, Aside, Owner
  <2> QED BY <2>4, <2>5, <2>6 DEF Inv, Books
<1>12. ASSUME InitiateFailed(r) PROVE Inv'
  <2>1. /\ req[r].pay \in Payments /\ Settle(req[r].pay, "failed") /\ Goto(r, Idle) /\ "failed" \in Final
        /\ UNCHANGED <<payer, refs, prov, lapsed, crashes, raced>>
    BY <1>1, <1>12 DEF InitiateFailed, ReqOK, Finish, Final
  <2>2. Books' /\ TypeOK' /\ ReqOK'
    BY <1>1, <2>1, Settled, Went DEF TypeOK
  <2> QED BY <2>2 DEF Inv
<1>13. ASSUME NEW a \in People, NEW n \in Phones \union {None}, TakeRead(r, a, n) PROVE Inv'
  <2> DEFINE x == [at |-> IF a \in Accounts THEN "admin" ELSE "register", acc |-> a, phone |-> n, pay |-> None]
  <2>1. Goto(r, x)
    BY <1>13 DEF TakeRead
  <2>2. \/ x \in [at : {"admin"}, acc : Accounts, phone : Phones \union {None}, pay : {None}]
        \/ x \in [at : {"register"}, acc : Newcomers, phone : Phones, pay : {None}]
    BY <1>13 DEF TakeRead, People
  <2> HIDE DEF x
  <2>3. ReqOK' /\ TypeOK'
    BY <1>1, <1>13, <2>1, <2>2, Went DEF TakeRead, TypeOK, NoMoney, NoNumber, NoOrder
  <2> QED BY <1>13, <2>3, BooksAlone DEF Inv, TakeRead, NoMoney, NoNumber, NoOrder
<1>14. ASSUME TakeWrite(r) PROVE Inv'
  <2>1. Goto(r, Idle) /\ UNCHANGED <<order, lapsed, pay, payer, refs, age, prov, crashes>>
    BY <1>14 DEF TakeWrite, Finish, NoMoney
  <2>2. ReqOK' /\ TypeOK'
    BY <1>1, <1>14, <2>1, Went, TakeWriteBooks DEF TypeOK
  <2> QED BY <1>14, <2>2, TakeWriteBooks DEF Inv
<1> QED BY <1>4, <1>5, <1>6, <1>7, <1>8, <1>9, <1>10, <1>11, <1>12, <1>13, <1>14 DEF Request

\* Every step keeps the invariant.
LEMMA StepInv == Inv /\ [Next]_vars => Inv'
<1> SUFFICES ASSUME Inv, [Next]_vars PROVE Inv'
  OBVIOUS
<1>1. TypeOK /\ ReqOK
  BY DEF Inv
<1>2. ASSUME NEW r \in Requests, Request(r) PROVE Inv'
  BY <1>2, RequestInv
<1>3. ASSUME NEW a \in Accounts, Release(a) PROVE Inv'
  <2>1. /\ \A o \in Orders :
             order'[o] = order[o] \/
             (order[o].status = "HELD" /\ order'[o] = [order[o] EXCEPT !.status = "ABANDONED"])
        /\ order' = [o \in Orders |-> order'[o]]
        /\ UNCHANGED <<pay, payer, refs, age, prov, phone, left, req, crashes, raced>>
    BY <1>3 DEF Release, OrdersOf, NoMoney, NoNumber, NoRequest
  <2>2. order \in [Orders -> OrderRows]
    BY <1>1 DEF TypeOK
  <2>3. \A o \in Orders :
          /\ order'[o].acc = order[o].acc /\ order'[o].phone = order[o].phone
          /\ order'[o].status = order[o].status \/ (order[o].status = "HELD" /\ order'[o].status = "ABANDONED")
          /\ order'[o] \in OrderRows
    <3> TAKE o \in Orders
    <3>1. order[o] \in OrderRows
      BY <2>2
    <3>2. CASE order'[o] = order[o]
      BY <3>1, <3>2
    <3>3. CASE order[o].status = "HELD" /\ order'[o] = [order[o] EXCEPT !.status = "ABANDONED"]
      BY <3>1, <3>3
    <3> QED BY <2>1, <3>2, <3>3
  <2>4. order' \in [Orders -> OrderRows]
    BY <2>1, <2>3
  <2>5. lapsed' \subseteq Orders
    BY <1>1, <1>3 DEF Release, StillHeld, TypeOK
  <2>6. TypeOK' /\ ReqOK'
    BY <1>1, <2>1, <2>4, <2>5 DEF TypeOK, ReqOK
  <2>7. RowsOK' /\ OrderFollowsPayment' /\ Apart' /\ Aside'
    BY <2>1, <2>3 DEF Inv, Books, RowsOK, OrderFollowsPayment, Apart, Aside, Owner, Active, Asked
  <2> QED BY <2>6, <2>7 DEF Inv, Books
<1>4. ASSUME NEW o \in Orders, HoldLapses(o) PROVE Inv'
  BY <1>1, <1>4, BooksAlone DEF Inv, HoldLapses, NoMoney, NoNumber, NoRequest, TypeOK, ReqOK
<1>5. ASSUME NEW p \in Payments, GrowOld(p) PROVE Inv'
  <2>1. /\ age' = [age EXCEPT ![p] = @ + 1] /\ age[p] < 2 /\ age \in [Payments -> 0..2]
        /\ UNCHANGED <<order, lapsed, raced, pay, payer, refs, prov, phone, left, req, crashes>>
    BY <1>1, <1>5 DEF GrowOld, NoNumber, NoOrder, NoRequest, TypeOK
  <2>2. age' \in [Payments -> 0..2]
    BY <2>1
  <2> QED BY <1>1, <2>1, <2>2, BooksAlone DEF Inv, TypeOK, ReqOK
<1>6. ASSUME NEW p \in Payments, Reconcile(p) \/ Webhook(p) PROVE Inv'
  <2>1. \E outcome \in Final : Settle(p, outcome)
    BY <1>6 DEF Reconcile, Webhook, Final
  <2>2. UNCHANGED <<req, crashes, payer, refs, prov, lapsed, raced>>
    BY <1>6 DEF Reconcile, Webhook, NoRequest
  <2>3. Books' /\ TypeOK'
    BY <1>1, <2>1, <2>2, Settled DEF TypeOK
  <2> QED BY <1>1, <2>2, <2>3 DEF Inv, ReqOK
<1>7. ASSUME NEW p \in Payments, NEW outcome \in Final, Answer(p, outcome) PROVE Inv'
  <2>1. UNCHANGED <<order, lapsed, raced, pay, payer, refs, age, phone, left, req, crashes>>
    BY <1>7 DEF Answer, NoNumber, NoOrder, NoRequest
  <2>2. prov' \in [Payments -> {"none", "asked", "succeeded", "failed"}]
    BY <1>1, <1>7 DEF Answer, TypeOK
  <2> QED BY <1>1, <2>1, <2>2, BooksAlone DEF Inv, TypeOK, ReqOK
<1>8. ASSUME NEW n \in Phones, QuarantineEnds(n) PROVE Inv'
  BY <1>1, <1>8, BooksAlone DEF Inv, QuarantineEnds, NoMoney, NoOrder, NoRequest, TypeOK, ReqOK
<1>9. CASE UNCHANGED vars
  BY <1>1, <1>9, BooksAlone DEF Inv, vars, TypeOK, ReqOK
<1> QED BY <1>2, <1>3, <1>4, <1>5, <1>6, <1>7, <1>8, <1>9 DEF Next

-----------------------------------------------------------------------------
(* The theorems                                                            *)

\* The invariant holds at the start.
LEMMA InitInv == Init => Inv
<1> SUFFICES ASSUME Init PROVE Inv
  OBVIOUS
<1>1. TypeOK
  BY PhoneOrdersAssumption DEF Init, TypeOK, Nobody, Idle
<1>2. ReqOK
  BY DEF Init, ReqOK, Idle
<1>3. Books
  BY DEF Init, Books, RowsOK, OrderFollowsPayment, Apart, Aside, Nobody, Active, Asked, Payments
<1> QED BY <1>1, <1>2, <1>3 DEF Inv

\* It holds always.
LEMMA Invariance == Spec => []Inv
  BY InitInv, StepInv, PTL DEF Spec

\* The state is well-typed: orders are rows of an account, a payment has one status
\* (alanya_phone_order and payment, written by hold, checkout and settlePayment).
THEOREM TypeCorrect == Spec => []TypeOK
<1>1. Inv => TypeOK
  BY DEF Inv
<1> QED BY Invariance, <1>1, PTL

\* Whatever confirms, fails or expires a payment, in any order and with any request killed: an
\* order waits exactly while its payment does, and is served exactly when it succeeded
\* (settlePayment, insertPayment).
THEOREM BooksAgree == Spec => []OrderFollowsPayment
<1>1. Inv => OrderFollowsPayment
  BY DEF Inv, Books
<1> QED BY Invariance, <1>1, PTL

\* A number being paid for is kept for one account (purchaseAvailability, the unique indexes of
\* alanya_phone_order).
THEOREM Kept == Spec => []NumberKept
<1>1. Inv => NumberKept
  BY DEF Inv, Books, Apart, Aside, NumberKept, Active
<1> QED BY Invariance, <1>1, PTL

\* A final payment stays as it is and buys one number (settlePayment, hold).
THEOREM OneNumber == Spec => OnePaymentOneNumber
<1> DEFINE Once ==
      /\ \A p \in Payments : pay[p] \in Final => pay'[p] = pay[p]
      /\ \A a \in Accounts : phone'[a] # phone[a] =>
           \/ \E o \in OrdersOf(a, {"PAYING", "CREDIT"}) :
                order'[o].status = "APPLIED" /\ order'[o].phone = phone'[a] /\ pay'[o] = "succeeded"
           \/ \E r \in Requests : req[r].at = "admin" /\ req[r].acc = a
<1>1. Inv /\ [Next]_vars => [Once]_vars
  <2> SUFFICES ASSUME Inv, Next PROVE Once
    OBVIOUS
  <2>1. ASSUME UNCHANGED <<pay, phone>> PROVE Once
    BY <2>1 DEF Once
  <2>2. pay \in [Payments -> {"none"} \union Asked \union Final]
    BY DEF Inv, TypeOK
  <2>3. ASSUME NEW r \in Requests, Request(r) PROVE Once
    <3>1. ASSUME NEW a \in Accounts, NEW n \in Phones, HoldRead(r, a, n) PROVE Once
      BY <2>1, <3>1 DEF HoldRead, NoMoney, NoNumber
    <3>2. CASE HoldCredit(r)
      BY <3>2, HoldCreditBooks DEF HoldCredit, NoMoney
    <3>3. CASE HoldInsert(r) \/ HoldRefused(r) \/ InsertRefused(r) \/ Crash(r)
      BY <2>1, <3>3 DEF HoldInsert, HoldRefused, InsertRefused, Crash, NoMoney, NoNumber
    <3>4. ASSUME NEW a \in Accounts, NEW p \in Payments, Prepare(r, a, p) PROVE Once
      BY <2>1, <3>4 DEF Prepare, NoMoney, NoNumber
    <3>5. CASE Insert(r)
      BY <2>2, <3>5 DEF Insert, NoNumber, Final
    <3>6. ASSUME NEW known, NEW answered, Initiate(r, known, answered) PROVE Once
      BY <2>1, <3>6 DEF Initiate, NoNumber
    <3>7. CASE RecordRef(r)
      BY <2>2, <3>7 DEF RecordRef, NoNumber, Final
    <3>8. CASE InitiateFailed(r)
      <4>1. /\ req[r].pay \in Payments /\ Settle(req[r].pay, "failed") /\ "failed" \in Final
            /\ UNCHANGED raced
        BY <3>8 DEF InitiateFailed, Inv, ReqOK, Final
      <4> QED BY <4>1, Settled
    <3>9. ASSUME NEW a \in People, NEW n \in Phones \union {None}, TakeRead(r, a, n) PROVE Once
      BY <2>1, <3>9 DEF TakeRead, NoMoney, NoNumber
    <3>10. CASE TakeWrite(r)
      BY <3>10, TakeWriteBooks DEF TakeWrite, NoMoney
    <3> QED BY <2>3, <3>1, <3>2, <3>3, <3>4, <3>5, <3>6, <3>7, <3>8, <3>9, <3>10 DEF Request
  <2>4. ASSUME NEW a \in Accounts, Release(a) PROVE Once
    BY <2>1, <2>4 DEF Release, NoMoney, NoNumber
  <2>5. ASSUME NEW o \in Orders, HoldLapses(o) PROVE Once
    BY <2>1, <2>5 DEF HoldLapses, NoMoney, NoNumber
  <2>6. ASSUME NEW p \in Payments, GrowOld(p) PROVE Once
    BY <2>1, <2>6 DEF GrowOld, NoNumber
  <2>7. ASSUME NEW p \in Payments, Reconcile(p) \/ Webhook(p) PROVE Once
    <3>1. PICK outcome \in Final : Settle(p, outcome)
      BY <2>7 DEF Reconcile, Webhook, Final
    <3>2. UNCHANGED raced
      BY <2>7 DEF Reconcile, Webhook
    <3> QED BY <3>1, <3>2, Settled
  <2>8. ASSUME NEW p \in Payments, NEW outcome \in Final, Answer(p, outcome) PROVE Once
    BY <2>1, <2>8 DEF Answer, NoNumber
  <2>9. ASSUME NEW n \in Phones, QuarantineEnds(n) PROVE Once
    BY <2>1, <2>9 DEF QuarantineEnds, NoMoney
  <2> QED BY <2>3, <2>4, <2>5, <2>6, <2>7, <2>8, <2>9 DEF Next
<1> QED BY Invariance, <1>1, PTL DEF Spec, OnePaymentOneNumber
=============================================================================
