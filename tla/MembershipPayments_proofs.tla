--------------------- MODULE MembershipPayments_proofs ---------------------
(***************************************************************************)
(* Proofs about MembershipPayments, for any number of customers, plans,    *)
(* subscriptions, orders and requests in flight.                           *)
(***************************************************************************)
EXTENDS MembershipPayments, TLAPS

(***************************************************************************)
(* Rows and requests.  A row that exists is a full row, and a request that *)
(* is not idle has the fields of the await it is at.                       *)
(***************************************************************************)
LEMMA Rows ==
  ASSUME TypeOK
  PROVE  /\ \A p \in Plans : Exists(plans[p]) => plans[p] \in PlanRow
         /\ \A s \in Subs : Exists(subs[s]) => subs[s] \in SubRow
         /\ \A o \in Orders : Exists(payments[o]) => payments[o] \in PaymentRow
         /\ \A o \in Orders : Exists(orders[o]) => orders[o] \in OrderRow
  BY DEF TypeOK, StoreTypeOK, PaymentsTypeOK, Exists, NoRow

LEMMA MemberRequests ==
  ASSUME TypeOK, NEW h \in MemberHandlers
  PROVE  /\ memberReq[h].op \in {"plan_update", "plan_remove"} =>
              /\ memberReq[h] # MemberIdle
              /\ memberReq[h].plan \in Plans
         /\ memberReq[h].op \in {"subscribe_check", "subscribe_create"} =>
              /\ memberReq[h] # MemberIdle
              /\ memberReq[h] \in [op : {"subscribe_check", "subscribe_create"},
                                   user : Users, plan : Plans, price : Prices]
  BY DEF TypeOK, MemberTypeOK, MemberReq, MemberIdle

LEMMA OrderRequests ==
  ASSUME TypeOK, NEW h \in OrderHandlers
  PROVE  /\ orderReq[h] # Idle =>
              orderReq[h].sub \in Subs /\ orderReq[h].price \in Prices
         /\ orderReq[h].op = "order_lookup" =>
              /\ orderReq[h] # Idle
              /\ orderReq[h] \in [op : {"order_lookup", "order_gateway"},
                                  sub : Subs, price : Prices]
         /\ orderReq[h].op = "order_gateway" => orderReq[h] # Idle
         /\ orderReq[h].op = "order_persist" =>
              orderReq[h] # Idle /\ orderReq[h].order \in Orders
  BY DEF TypeOK, PaymentsTypeOK, OrderReq, Idle

LEMMA SubunitsType == \A price \in Prices : Subunits(price) \in Nat
  BY PricesAssumption DEF Subunits
-----------------------------------------------------------------------------
(***************************************************************************)
(* Frames.  Most steps touch the tables of one concern only; these lemmas  *)
(* leave the rest of the invariant to be inherited.                        *)
(***************************************************************************)
LEMMA MembershipFrame ==
  ASSUME IInv, UNCHANGED <<subs, payments, paymentVars>>,
         plans' \in [Plans -> {NoRow} \cup PlanRow],
         MemberTypeOK', MemberRequestsKnowTheirPlan'
  PROVE  IInv'
<1> USE DEF IInv, paymentVars
<1>1. TypeOK' BY DEF TypeOK, StoreTypeOK, PaymentsTypeOK
<1>2. OrderRequestsKnowTheirSub' /\ ReferencesHold' /\ PaidHasPayment'
  BY DEF OrderRequestsKnowTheirSub, ReferencesHold, PaidHasPayment, Exists
<1>3. WebhooksAreTruthful' BY DEF WebhooksAreTruthful, Truthful, Exists
<1>4. AmountsAgree' BY DEF AmountsAgree, Exists
<1>5. OneActivePerUser' BY DEF OneActivePerUser, IsMembershipOf
<1>6. ActiveIsPaidInFull' BY DEF ActiveIsPaidInFull, PaidInFull
<1>7. CapturedIsActive' /\ AcknowledgedIsActive'
  BY DEF CapturedIsActive, AcknowledgedIsActive
<1>8. QED BY <1>1, <1>2, <1>3, <1>4, <1>5, <1>6, <1>7

LEMMA OrderRequestFrame ==
  ASSUME IInv, UNCHANGED <<store, memberReq, hookReq, orders, events>>,
         orderReq' \in [OrderHandlers -> OrderReq], OrderRequestsKnowTheirSub'
  PROVE  IInv'
<1> USE DEF IInv, store
<1>1. TypeOK' BY DEF TypeOK, StoreTypeOK, MemberTypeOK, PaymentsTypeOK
<1>2. MemberRequestsKnowTheirPlan' /\ ReferencesHold' /\ PaidHasPayment'
  BY DEF MemberRequestsKnowTheirPlan, ReferencesHold, PaidHasPayment, Exists
<1>3. WebhooksAreTruthful' BY DEF WebhooksAreTruthful, Truthful, Exists
<1>4. AmountsAgree' BY DEF AmountsAgree, Exists
<1>5. OneActivePerUser' BY DEF OneActivePerUser, IsMembershipOf
<1>6. ActiveIsPaidInFull' BY DEF ActiveIsPaidInFull, PaidInFull
<1>7. CapturedIsActive' /\ AcknowledgedIsActive'
  BY DEF CapturedIsActive, AcknowledgedIsActive
<1>8. QED BY <1>1, <1>2, <1>3, <1>4, <1>5, <1>6, <1>7

LEMMA WebhookFrame ==
  ASSUME IInv, UNCHANGED <<store, memberReq, orderReq, orders>>,
         hookReq' \in [HookHandlers -> HookReq], events' \in SUBSET Event,
         WebhooksAreTruthful', AcknowledgedIsActive'
  PROVE  IInv'
<1> USE DEF IInv, store
<1>1. TypeOK' BY DEF TypeOK, StoreTypeOK, MemberTypeOK, PaymentsTypeOK
<1>2. /\ MemberRequestsKnowTheirPlan' /\ OrderRequestsKnowTheirSub'
      /\ ReferencesHold' /\ PaidHasPayment'
  BY DEF MemberRequestsKnowTheirPlan, OrderRequestsKnowTheirSub,
         ReferencesHold, PaidHasPayment, Exists
<1>3. AmountsAgree' BY DEF AmountsAgree, Exists
<1>4. OneActivePerUser' BY DEF OneActivePerUser, IsMembershipOf
<1>5. ActiveIsPaidInFull' BY DEF ActiveIsPaidInFull, PaidInFull
<1>6. CapturedIsActive' BY DEF CapturedIsActive
<1>7. QED BY <1>1, <1>2, <1>3, <1>4, <1>5, <1>6
-----------------------------------------------------------------------------
(***************************************************************************)
(* The steps of MembershipService preserve the invariant.                  *)
(***************************************************************************)
LEMMA PlanRowUpdated ==
  ASSUME NEW row \in PlanRow, NEW price \in Prices, NEW isActive \in BOOLEAN
  PROVE  [row EXCEPT !.price = price, !.isActive = isActive] \in PlanRow
  BY DEF PlanRow

LEMMA PlanRowRemoved ==
  ASSUME NEW row \in PlanRow
  PROVE  [row EXCEPT !.status = "deleted", !.isActive = FALSE] \in PlanRow
  BY DEF PlanRow

LEMMA PlanRowWritten ==
  ASSUME IInv, UNCHANGED <<subs, payments, paymentVars>>,
         NEW q \in Plans, NEW row \in PlanRow,
         plans' = [plans EXCEPT ![q] = row],
         \/ UNCHANGED memberReq
         \/ \E h \in MemberHandlers :
              memberReq' = [memberReq EXCEPT ![h] = MemberIdle]
  PROVE  IInv'
<1>1. plans' \in [Plans -> {NoRow} \cup PlanRow]
  BY DEF IInv, TypeOK, StoreTypeOK
<1>2. MemberTypeOK'
  BY DEF IInv, TypeOK, MemberTypeOK, MemberReq
<1>3. Exists(row)
  BY DEF PlanRow, Exists
<1>4. MemberRequestsKnowTheirPlan'
  <2> SUFFICES ASSUME NEW g \in MemberHandlers, memberReq'[g] # MemberIdle
               PROVE  Exists(plans'[memberReq'[g].plan])
    BY DEF MemberRequestsKnowTheirPlan, Exists
  <2>1. memberReq'[g] = memberReq[g]
    BY DEF IInv, TypeOK, MemberTypeOK
  <2>2. Exists(plans[memberReq[g].plan])
    BY <2>1 DEF IInv, MemberRequestsKnowTheirPlan
  <2>3. CASE memberReq[g].plan = q
    BY <2>1, <2>3, <1>3 DEF IInv, TypeOK, StoreTypeOK
  <2>4. CASE memberReq[g].plan # q
    <3>1. plans'[memberReq[g].plan] = plans[memberReq[g].plan]
      BY <2>4, <1>1 DEF IInv, TypeOK, StoreTypeOK
    <3>2. QED BY <3>1, <2>1, <2>2 DEF Exists
  <2>5. QED BY <2>3, <2>4
<1>5. QED BY <1>1, <1>2, <1>4, MembershipFrame

LEMMA PlanCreateStep ==
  ASSUME IInv, UNCHANGED paymentVars, NEW p \in Plans, PlanCreate(p)
  PROVE  IInv'
<1>1. PICK row \in PlanRow : plans' = [plans EXCEPT ![p] = row]
  BY DEF PlanCreate, PlanRow
<1>2. QED BY <1>1, PlanRowWritten DEF PlanCreate

LEMMA PlanFindStep ==
  ASSUME IInv, UNCHANGED paymentVars,
         NEW h \in MemberHandlers, NEW p \in Plans,
         NEW op \in {"plan_update", "plan_remove"}, PlanFind(h, p, op)
  PROVE  IInv'
<1>0. TypeOK BY DEF IInv
<1>1. plans' \in [Plans -> {NoRow} \cup PlanRow]
  BY <1>0 DEF PlanFind, TypeOK, StoreTypeOK, store
<1>2. MemberTypeOK'
  BY <1>0 DEF PlanFind, TypeOK, MemberTypeOK, MemberReq
<1>3. MemberRequestsKnowTheirPlan'
  BY <1>0 DEF PlanFind, IInv, MemberRequestsKnowTheirPlan, TypeOK,
              MemberTypeOK, Exists, store
<1>4. QED BY <1>1, <1>2, <1>3, MembershipFrame DEF PlanFind, store

LEMMA PlanWriteSteps ==
  ASSUME IInv, UNCHANGED paymentVars,
         NEW h \in MemberHandlers, PlanUpdate(h) \/ PlanRemove(h)
  PROVE  IInv'
<1> DEFINE q == memberReq[h].plan
<1>0. TypeOK BY DEF IInv
<1>1. q \in Plans /\ plans[q] \in PlanRow
  BY <1>0, MemberRequests, Rows
  DEF PlanUpdate, PlanRemove, IInv, MemberRequestsKnowTheirPlan
<1>2. CASE PlanUpdate(h)
  <2>1. PICK row \in PlanRow : plans' = [plans EXCEPT ![q] = row]
    BY <1>1, <1>2, PlanRowUpdated DEF PlanUpdate
  <2>2. QED BY <1>1, <1>2, <2>1, PlanRowWritten DEF PlanUpdate
<1>3. CASE PlanRemove(h)
  <2>1. PICK row \in PlanRow : plans' = [plans EXCEPT ![q] = row]
    BY <1>1, <1>3, PlanRowRemoved DEF PlanRemove
  <2>2. QED BY <1>1, <1>3, <2>1, PlanRowWritten DEF PlanRemove
<1>4. QED BY <1>2, <1>3

LEMMA MemberAbortStep ==
  ASSUME IInv, UNCHANGED paymentVars, NEW h \in MemberHandlers, MemberAbort(h)
  PROVE  IInv'
<1>0. TypeOK BY DEF IInv
<1>1. plans' \in [Plans -> {NoRow} \cup PlanRow]
  BY <1>0 DEF MemberAbort, TypeOK, StoreTypeOK, store
<1>2. MemberTypeOK'
  BY <1>0 DEF MemberAbort, TypeOK, MemberTypeOK, MemberReq
<1>3. MemberRequestsKnowTheirPlan'
  BY <1>0 DEF MemberAbort, IInv, MemberRequestsKnowTheirPlan, TypeOK,
              MemberTypeOK, Exists, store
<1>4. QED BY <1>1, <1>2, <1>3, MembershipFrame DEF MemberAbort, store

LEMMA SubscribeReadStep ==
  ASSUME IInv, UNCHANGED paymentVars,
         NEW h \in MemberHandlers, NEW u \in Users, NEW p \in Plans,
         SubscribeRead(h, u, p)
  PROVE  IInv'
<1>0. TypeOK /\ MemberRequestsKnowTheirPlan BY DEF IInv
<1>1. plans' \in [Plans -> {NoRow} \cup PlanRow]
  BY <1>0 DEF SubscribeRead, TypeOK, StoreTypeOK, store
<1>2. plans[p].price \in Prices /\ Exists(plans[p])
  BY <1>0, Rows DEF SubscribeRead, OnOffer, Exists, PlanRow
<1>3. MemberTypeOK'
  BY <1>0, <1>2 DEF SubscribeRead, TypeOK, MemberTypeOK, MemberReq
<1>4. MemberRequestsKnowTheirPlan'
  BY <1>0, <1>2 DEF SubscribeRead, MemberRequestsKnowTheirPlan,
                    TypeOK, MemberTypeOK, Exists, store
<1>5. QED BY <1>1, <1>3, <1>4, MembershipFrame DEF SubscribeRead, store

LEMMA SubscribeCheckStep ==
  ASSUME IInv, UNCHANGED paymentVars,
         NEW h \in MemberHandlers, SubscribeCheck(h)
  PROVE  IInv'
<1> DEFINE req == IF HasMembership(memberReq[h].user) THEN MemberIdle
                  ELSE [memberReq[h] EXCEPT !.op = "subscribe_create"]
<1>0. TypeOK /\ MemberRequestsKnowTheirPlan BY DEF IInv
<1>1. plans' \in [Plans -> {NoRow} \cup PlanRow]
  BY <1>0 DEF SubscribeCheck, TypeOK, StoreTypeOK, store
<1>2. memberReq[h] \in [op : {"subscribe_check", "subscribe_create"},
                        user : Users, plan : Plans, price : Prices]
  BY <1>0, MemberRequests DEF SubscribeCheck
<1>3. /\ memberReq' = [memberReq EXCEPT ![h] = req]
      /\ memberReq[h] # MemberIdle
  BY <1>0, MemberRequests DEF SubscribeCheck
<1>4. req \in MemberReq /\ (req # MemberIdle => req.plan = memberReq[h].plan)
  BY <1>2 DEF MemberReq
<1>5. MemberTypeOK'
  BY <1>0, <1>3, <1>4 DEF TypeOK, MemberTypeOK
<1>6. MemberRequestsKnowTheirPlan'
  <2> SUFFICES ASSUME NEW g \in MemberHandlers, memberReq'[g] # MemberIdle
               PROVE  Exists(plans[memberReq'[g].plan])
    BY DEF MemberRequestsKnowTheirPlan, Exists, SubscribeCheck, store
  <2>1. memberReq[g] # MemberIdle /\ memberReq'[g].plan = memberReq[g].plan
    BY <1>0, <1>3, <1>4 DEF TypeOK, MemberTypeOK
  <2>2. QED BY <1>0, <2>1 DEF MemberRequestsKnowTheirPlan
<1>7. QED BY <1>1, <1>5, <1>6, MembershipFrame DEF SubscribeCheck, store

(***************************************************************************)
(* A new subscription is pending, and nothing yet refers to its id.        *)
(***************************************************************************)
LEMMA SubscribeCreateStep ==
  ASSUME IInv, UNCHANGED paymentVars,
         NEW h \in MemberHandlers, SubscribeCreate(h)
  PROVE  IInv'
<1>0. TypeOK BY DEF IInv
<1>1. memberReq[h] \in [op : {"subscribe_check", "subscribe_create"},
                        user : Users, plan : Plans, price : Prices]
  BY <1>0, MemberRequests DEF SubscribeCreate
<1>2. PICK s \in Subs, row \in SubRow :
        /\ ~ Exists(subs[s])
        /\ row.status = "pending_payment"
        /\ subs' = [subs EXCEPT ![s] = row]
  BY <1>1 DEF SubscribeCreate, SubRow
<1>3. /\ subs' \in [Subs -> {NoRow} \cup SubRow]
      /\ \A t \in Subs : Exists(subs[t]) => subs'[t] = subs[t]
      /\ \A t \in Subs : subs'[t].status = "active" => subs'[t] = subs[t]
  BY <1>0, <1>2 DEF TypeOK, StoreTypeOK
<1>4. TypeOK'
  BY <1>0, <1>3
  DEF TypeOK, StoreTypeOK, MemberTypeOK, PaymentsTypeOK, SubscribeCreate,
      MemberReq, paymentVars
<1>5. UNCHANGED <<plans, payments, orderReq, hookReq, orders, events>>
  BY DEF SubscribeCreate, paymentVars
<1>6. MemberRequestsKnowTheirPlan'
  BY <1>0, <1>5 DEF SubscribeCreate, IInv, MemberRequestsKnowTheirPlan, TypeOK,
                    MemberTypeOK, Exists
<1>7. OrderRequestsKnowTheirSub'
  BY <1>0, <1>3, <1>5, OrderRequests
  DEF IInv, OrderRequestsKnowTheirSub, Exists
<1>8. ReferencesHold' /\ PaidHasPayment'
  BY <1>0, <1>3, <1>5, Rows
  DEF IInv, ReferencesHold, PaidHasPayment, Exists, OrderRow
<1>9. WebhooksAreTruthful'
  BY <1>5 DEF IInv, WebhooksAreTruthful, Truthful, Exists
<1>10. AmountsAgree'
  BY <1>0, <1>3, <1>5, Rows
  DEF IInv, AmountsAgree, ReferencesHold, Exists, OrderRow
<1>11. OneActivePerUser'
  BY <1>3 DEF IInv, OneActivePerUser, IsMembershipOf
<1>12. ActiveIsPaidInFull'
  BY <1>3, <1>5 DEF IInv, ActiveIsPaidInFull, PaidInFull
<1>13. CapturedIsActive'
  BY <1>0, <1>3, <1>5, Rows
  DEF IInv, CapturedIsActive, Exists, PaymentRow
<1>14. AcknowledgedIsActive'
  BY <1>0, <1>3, <1>5, Rows
  DEF IInv, AcknowledgedIsActive, Exists, OrderRow
<1>15. QED
  BY <1>4, <1>6, <1>7, <1>8, <1>9, <1>10, <1>11, <1>12, <1>13, <1>14 DEF IInv

(* Every step of MembershipService. *)
LEMMA MemberStep ==
  ASSUME IInv, MemberNext, UNCHANGED paymentVars
  PROVE  IInv'
  BY PlanCreateStep, PlanFindStep, PlanWriteSteps, MemberAbortStep,
     SubscribeReadStep, SubscribeCheckStep, SubscribeCreateStep
  DEF MemberNext
-----------------------------------------------------------------------------
(***************************************************************************)
(* The steps of createOrder preserve the invariant.                        *)
(***************************************************************************)
LEMMA OrderReadStep ==
  ASSUME IInv, UNCHANGED memberReq,
         NEW h \in OrderHandlers, NEW s \in Subs, OrderRead(h, s)
  PROVE  IInv'
<1>0. TypeOK BY DEF IInv
<1>1. Exists(subs[s]) /\ subs[s].priceAtPurchase \in Prices
  BY <1>0, Rows DEF OrderRead, Exists, SubRow
<1>2. orderReq' \in [OrderHandlers -> OrderReq]
  BY <1>0, <1>1 DEF OrderRead, TypeOK, PaymentsTypeOK, OrderReq
<1>3. OrderRequestsKnowTheirSub'
  BY <1>0, <1>1 DEF OrderRead, IInv, OrderRequestsKnowTheirSub, TypeOK,
                    PaymentsTypeOK, Exists, store
<1>4. QED BY <1>2, <1>3, OrderRequestFrame DEF OrderRead

LEMMA OrderLookupStep ==
  ASSUME IInv, UNCHANGED memberReq,
         NEW h \in OrderHandlers, OrderLookup(h)
  PROVE  IInv'
<1> DEFINE req == IF \E o \in Orders : InFlight(o, orderReq[h].sub) THEN Idle
                  ELSE [orderReq[h] EXCEPT !.op = "order_gateway"]
<1>0. TypeOK BY DEF IInv
<1>1. /\ orderReq[h] # Idle
      /\ orderReq[h] \in [op : {"order_lookup", "order_gateway"},
                          sub : Subs, price : Prices]
  BY <1>0, OrderRequests DEF OrderLookup
<1>2. orderReq' = [orderReq EXCEPT ![h] = req]
  BY <1>0 DEF OrderLookup
<1>3. /\ req \in OrderReq
      /\ req # Idle => /\ req.sub = orderReq[h].sub
                       /\ req.price = orderReq[h].price
                       /\ req.op # "order_persist"
  BY <1>1 DEF OrderReq
<1>4. orderReq' \in [OrderHandlers -> OrderReq]
  BY <1>0, <1>2, <1>3 DEF TypeOK, PaymentsTypeOK
<1>5. OrderRequestsKnowTheirSub'
  BY <1>0, <1>1, <1>2, <1>3
  DEF OrderLookup, IInv, OrderRequestsKnowTheirSub, TypeOK, PaymentsTypeOK,
      Exists, store
<1>6. QED BY <1>4, <1>5, OrderRequestFrame DEF OrderLookup

LEMMA OrderAbortStep ==
  ASSUME IInv, UNCHANGED memberReq, NEW h \in OrderHandlers, OrderAbort(h)
  PROVE  IInv'
<1>0. TypeOK BY DEF IInv
<1>1. orderReq' \in [OrderHandlers -> OrderReq]
  BY <1>0 DEF OrderAbort, TypeOK, PaymentsTypeOK, OrderReq
<1>2. OrderRequestsKnowTheirSub'
  BY <1>0 DEF OrderAbort, IInv, OrderRequestsKnowTheirSub, TypeOK,
              PaymentsTypeOK, Exists, store
<1>3. QED BY <1>1, <1>2, OrderRequestFrame DEF OrderAbort

(***************************************************************************)
(* A new order carries the price its request copied, which is still the    *)
(* subscription's.                                                         *)
(***************************************************************************)
LEMMA OrderGatewayStep ==
  ASSUME IInv, UNCHANGED memberReq, NEW h \in OrderHandlers, OrderGateway(h)
  PROVE  IInv'
<1> DEFINE s == orderReq[h].sub
           price == orderReq[h].price
<1>0. TypeOK BY DEF IInv
<1>1. /\ orderReq[h] # Idle /\ s \in Subs /\ price \in Prices
      /\ Exists(subs[s]) /\ price = subs[s].priceAtPurchase
  BY <1>0, OrderRequests DEF OrderGateway, IInv, OrderRequestsKnowTheirSub
<1>2. PICK o \in Orders :
        /\ ~ Exists(orders[o])
        /\ orders' = [orders EXCEPT ![o] =
             [status |-> "open", sub |-> s, amount |-> Subunits(price)]]
        /\ orderReq' = [orderReq EXCEPT ![h] =
             [op |-> "order_persist", sub |-> s, price |-> price, order |-> o]]
  BY <1>0 DEF OrderGateway, TypeOK, PaymentsTypeOK
<1>3. UNCHANGED <<plans, subs, payments, memberReq, hookReq, events>>
  BY DEF OrderGateway, store
<1>4. Subunits(price) \in Nat
  BY <1>1, SubunitsType
<1>5. /\ orders' \in [Orders -> {NoRow} \cup OrderRow]
      /\ orders'[o].sub = s /\ orders'[o].amount = Subunits(price)
      /\ orders'[o].status = "open"
      /\ \A q \in Orders : q # o => orders'[q] = orders[q]
      /\ \A q \in Orders : Exists(orders[q]) => orders'[q] = orders[q]
  BY <1>0, <1>1, <1>2, <1>4 DEF TypeOK, PaymentsTypeOK, OrderRow
<1>6. TypeOK'
  BY <1>0, <1>1, <1>2, <1>3, <1>5
  DEF TypeOK, StoreTypeOK, MemberTypeOK, PaymentsTypeOK, OrderReq
<1>7. MemberRequestsKnowTheirPlan'
  BY <1>3 DEF IInv, MemberRequestsKnowTheirPlan, Exists
<1>8. OrderRequestsKnowTheirSub'
  <2> SUFFICES ASSUME NEW g \in OrderHandlers, orderReq'[g] # Idle
               PROVE  /\ Exists(subs[orderReq'[g].sub])
                      /\ orderReq'[g].price = subs[orderReq'[g].sub].priceAtPurchase
                      /\ orderReq'[g].op = "order_persist" =>
                           /\ Exists(orders'[orderReq'[g].order])
                           /\ orders'[orderReq'[g].order].sub = orderReq'[g].sub
    BY <1>3 DEF OrderRequestsKnowTheirSub, Exists
  <2>1. CASE g = h
    BY <1>0, <1>1, <1>2, <1>5, <2>1 DEF TypeOK, PaymentsTypeOK, Exists
  <2>2. CASE g # h
    BY <1>0, <1>2, <1>5, <2>2, OrderRequests
    DEF IInv, OrderRequestsKnowTheirSub, TypeOK, PaymentsTypeOK, Exists
  <2>3. QED BY <2>1, <2>2
<1>9. ReferencesHold' /\ PaidHasPayment'
  BY <1>1, <1>3, <1>5 DEF IInv, ReferencesHold, PaidHasPayment, Exists
<1>10. WebhooksAreTruthful'
  BY <1>0, <1>3, <1>5
  DEF IInv, WebhooksAreTruthful, Truthful, ReferencesHold, Exists, TypeOK,
      PaymentsTypeOK, HookReq, Event, Idle
<1>11. AmountsAgree'
  BY <1>1, <1>2, <1>3, <1>5 DEF IInv, AmountsAgree, ReferencesHold, Exists
<1>12. OneActivePerUser'
  BY <1>3 DEF IInv, OneActivePerUser, IsMembershipOf
<1>13. ActiveIsPaidInFull'
  BY <1>3, <1>5 DEF IInv, ActiveIsPaidInFull, PaidInFull, Exists
<1>14. CapturedIsActive'
  BY <1>3 DEF IInv, CapturedIsActive
<1>15. AcknowledgedIsActive'
  BY <1>3, <1>5 DEF IInv, AcknowledgedIsActive, Exists
<1>16. QED
  BY <1>6, <1>7, <1>8, <1>9, <1>10, <1>11, <1>12, <1>13, <1>14, <1>15 DEF IInv

LEMMA OrderPersistStep ==
  ASSUME IInv, UNCHANGED memberReq, NEW h \in OrderHandlers, OrderPersist(h)
  PROVE  IInv'
<1> DEFINE s == orderReq[h].sub
           price == orderReq[h].price
           o == orderReq[h].order
<1>0. TypeOK BY DEF IInv
<1>1. /\ orderReq[h] # Idle /\ s \in Subs /\ price \in Prices /\ o \in Orders
      /\ Exists(subs[s]) /\ price = subs[s].priceAtPurchase
      /\ Exists(orders[o]) /\ orders[o].sub = s
  BY <1>0, OrderRequests DEF OrderPersist, IInv, OrderRequestsKnowTheirSub
<1>2. /\ payments' = [payments EXCEPT ![o] =
           [status |-> "created", sub |-> s, amount |-> price]]
      /\ orderReq' = [orderReq EXCEPT ![h] = Idle]
      /\ UNCHANGED <<plans, subs, memberReq, hookReq, orders, events>>
  BY DEF OrderPersist
<1>3. /\ payments' \in [Orders -> {NoRow} \cup PaymentRow]
      /\ payments'[o].status = "created"
      /\ payments'[o].sub = s /\ payments'[o].amount = price
      /\ \A q \in Orders : q # o => payments'[q] = payments[q]
  BY <1>0, <1>1, <1>2 DEF TypeOK, StoreTypeOK, PaymentRow
<1>4. TypeOK'
  BY <1>0, <1>2, <1>3
  DEF TypeOK, StoreTypeOK, MemberTypeOK, PaymentsTypeOK, OrderReq
<1>5. MemberRequestsKnowTheirPlan'
  BY <1>2 DEF IInv, MemberRequestsKnowTheirPlan, Exists
<1>6. OrderRequestsKnowTheirSub'
  BY <1>0, <1>2
  DEF IInv, OrderRequestsKnowTheirSub, TypeOK, PaymentsTypeOK, Exists
<1>7. ReferencesHold' /\ PaidHasPayment'
  BY <1>1, <1>2, <1>3 DEF IInv, ReferencesHold, PaidHasPayment, Exists
<1>8. WebhooksAreTruthful'
  BY <1>0, <1>2, <1>3
  DEF IInv, WebhooksAreTruthful, Truthful, Exists, TypeOK, PaymentsTypeOK,
      HookReq, Event, Idle
<1>9. AmountsAgree'
  BY <1>1, <1>2, <1>3 DEF IInv, AmountsAgree, Exists
<1>10. OneActivePerUser'
  BY <1>2 DEF IInv, OneActivePerUser, IsMembershipOf
<1>11. ActiveIsPaidInFull'
  BY <1>2 DEF IInv, ActiveIsPaidInFull, PaidInFull
<1>12. CapturedIsActive'
  BY <1>2, <1>3 DEF IInv, CapturedIsActive
<1>13. AcknowledgedIsActive'
  BY <1>2 DEF IInv, AcknowledgedIsActive
<1>14. QED
  BY <1>4, <1>5, <1>6, <1>7, <1>8, <1>9, <1>10, <1>11, <1>12, <1>13 DEF IInv
-----------------------------------------------------------------------------
(***************************************************************************)
(* Checkout at Razorpay preserves the invariant: a new capture is at first *)
(* unacknowledged.                                                         *)
(***************************************************************************)
LEMMA CheckoutPaysStep ==
  ASSUME IInv, UNCHANGED memberReq, NEW o \in Orders, CheckoutPays(o)
  PROVE  IInv'
<1>0. TypeOK BY DEF IInv
<1>1. /\ Exists(payments[o]) /\ orders[o].status = "open"
      /\ orders[o] \in OrderRow
  BY <1>0, Rows DEF CheckoutPays, Payable, Exists
<1>2. /\ orders' = [orders EXCEPT ![o] = [@ EXCEPT !.status = "paid"]]
      /\ events' = events \cup {Captured(o)}
      /\ UNCHANGED <<plans, subs, payments, memberReq, orderReq, hookReq>>
  BY DEF CheckoutPays, store
<1>3. /\ orders' \in [Orders -> {NoRow} \cup OrderRow]
      /\ orders'[o].status = "paid"
      /\ \A q \in Orders : /\ Exists(orders'[q]) <=> Exists(orders[q])
                           /\ Exists(orders[q]) =>
                                /\ orders'[q].sub = orders[q].sub
                                /\ orders'[q].amount = orders[q].amount
                           /\ q # o => orders'[q] = orders[q]
  BY <1>0, <1>1, <1>2 DEF TypeOK, PaymentsTypeOK, OrderRow, Exists
<1>4. Captured(o) \in Event /\ Captured(o).order = o
  BY DEF Captured, Event
<1>5. TypeOK'
  BY <1>0, <1>2, <1>3, <1>4
  DEF TypeOK, StoreTypeOK, MemberTypeOK, PaymentsTypeOK
<1>6. MemberRequestsKnowTheirPlan'
  BY <1>2 DEF IInv, MemberRequestsKnowTheirPlan, Exists
<1>7. OrderRequestsKnowTheirSub'
  BY <1>0, <1>2, <1>3, OrderRequests
  DEF IInv, OrderRequestsKnowTheirSub, Exists
<1>8. ReferencesHold' /\ PaidHasPayment'
  BY <1>1, <1>2, <1>3 DEF IInv, ReferencesHold, PaidHasPayment, Exists
<1>9. WebhooksAreTruthful'
  BY <1>0, <1>1, <1>2, <1>3, <1>4
  DEF IInv, WebhooksAreTruthful, Truthful, Exists, TypeOK, PaymentsTypeOK,
      HookReq, Event, Idle
<1>10. AmountsAgree'
  <2> SUFFICES ASSUME NEW x \in Orders, Exists(orders[x])
               PROVE  /\ orders'[x].amount =
                           Subunits(subs[orders'[x].sub].priceAtPurchase)
                      /\ Exists(payments[x]) =>
                           /\ payments[x].sub = orders'[x].sub
                           /\ payments[x].amount =
                                subs[orders'[x].sub].priceAtPurchase
    BY <1>2, <1>3 DEF IInv, AmountsAgree, ReferencesHold, Exists, Subunits
  <2>1. orders'[x].sub = orders[x].sub /\ orders'[x].amount = orders[x].amount
    BY <1>3
  <2>2. QED BY <2>1 DEF IInv, AmountsAgree, Exists
<1>11. OneActivePerUser'
  BY <1>2 DEF IInv, OneActivePerUser, IsMembershipOf
<1>12. ActiveIsPaidInFull'
  BY <1>1, <1>2, <1>3 DEF IInv, ActiveIsPaidInFull, PaidInFull, Exists
<1>13. CapturedIsActive'
  BY <1>2 DEF IInv, CapturedIsActive
<1>14. AcknowledgedIsActive'
  BY <1>2, <1>3 DEF IInv, AcknowledgedIsActive, Exists
<1>15. QED
  BY <1>5, <1>6, <1>7, <1>8, <1>9, <1>10, <1>11, <1>12, <1>13, <1>14 DEF IInv

LEMMA CheckoutFailsStep ==
  ASSUME IInv, UNCHANGED memberReq, NEW o \in Orders, CheckoutFails(o)
  PROVE  IInv'
<1>0. TypeOK BY DEF IInv
<1>1. Failed(o) \in Event /\ Failed(o).order = o /\ ~ Failed(o).kind = "payment.captured"
  BY DEF Failed, Event
<1>2. hookReq' \in [HookHandlers -> HookReq] /\ events' \in SUBSET Event
  BY <1>0, <1>1 DEF CheckoutFails, TypeOK, PaymentsTypeOK
<1>3. WebhooksAreTruthful'
  BY <1>1 DEF CheckoutFails, Payable, IInv, WebhooksAreTruthful, Truthful,
              Exists, store
<1>4. AcknowledgedIsActive'
  BY DEF CheckoutFails, IInv, AcknowledgedIsActive, store
<1>5. QED BY <1>2, <1>3, <1>4, WebhookFrame DEF CheckoutFails
-----------------------------------------------------------------------------
(***************************************************************************)
(* The steps of handleWebhook preserve the invariant.                      *)
(***************************************************************************)
LEMMA HookReadStep ==
  ASSUME IInv, UNCHANGED memberReq,
         NEW h \in HookHandlers, NEW e \in Event, HookRead(h, e)
  PROVE  IInv'
<1>0. TypeOK BY DEF IInv
<1>1. hookReq' \in [HookHandlers -> HookReq] /\ events' \in SUBSET Event
  BY <1>0 DEF HookRead, TypeOK, PaymentsTypeOK, HookReq
<1>2. WebhooksAreTruthful'
  BY <1>0 DEF HookRead, SignatureVerified, IInv, WebhooksAreTruthful, Truthful,
              Exists, store, TypeOK, PaymentsTypeOK
<1>3. AcknowledgedIsActive'
  BY DEF HookRead, IInv, AcknowledgedIsActive, store
<1>4. QED BY <1>1, <1>2, <1>3, WebhookFrame DEF HookRead

(***************************************************************************)
(* A capture is acknowledged unhandled only if its payment is captured.    *)
(***************************************************************************)
LEMMA HookIgnoreStep ==
  ASSUME IInv, UNCHANGED memberReq,
         NEW h \in HookHandlers, NEW e \in Event, HookIgnore(h, e)
  PROVE  IInv'
<1>0. TypeOK BY DEF IInv
<1>1. hookReq' \in [HookHandlers -> HookReq] /\ events' \in SUBSET Event
  BY <1>0 DEF HookIgnore, Respond, TypeOK, PaymentsTypeOK
<1>2. WebhooksAreTruthful'
  BY DEF HookIgnore, Respond, IInv, WebhooksAreTruthful, Truthful, Exists, store
<1>3. AcknowledgedIsActive'
  <2> SUFFICES ASSUME NEW o \in Orders, orders[o].status = "paid",
                      Captured(o) \notin events'
               PROVE  subs[orders[o].sub].status = "active"
    BY DEF AcknowledgedIsActive, HookIgnore, store, Captured
  <2>1. CASE Captured(o) \notin events
    BY <2>1 DEF IInv, AcknowledgedIsActive
  <2>2. CASE Captured(o) \in events
    <3>1. e = Captured(o) /\ e.order = o
      BY <2>2 DEF HookIgnore, Respond, Captured
    <3>2. Exists(payments[o])
      BY <2>2 DEF IInv, WebhooksAreTruthful, Truthful, Captured
    <3>3. payments[o].status = "captured"
      BY <3>1, <3>2 DEF HookIgnore, NothingToDo, Exists
    <3>4. payments[o].sub = orders[o].sub
      BY <3>2 DEF IInv, AmountsAgree
    <3>5. QED BY <3>3, <3>4 DEF IInv, CapturedIsActive
  <2>3. QED BY <2>1, <2>2
<1>4. QED BY <1>1, <1>2, <1>3, WebhookFrame DEF HookIgnore

LEMMA HookEndStep ==
  ASSUME IInv, UNCHANGED memberReq, NEW h \in HookHandlers,
         HookAbort(h) \/ \E o \in Orders : MarkCapturedConflict(h, o)
  PROVE  IInv'
<1>0. TypeOK BY DEF IInv
<1>1. /\ hookReq' = [hookReq EXCEPT ![h] = Idle]
      /\ UNCHANGED <<store, memberReq, orderReq, orders, events>>
  BY DEF HookAbort, MarkCapturedConflict
<1>2. hookReq' \in [HookHandlers -> HookReq] /\ events' \in SUBSET Event
  BY <1>0, <1>1 DEF TypeOK, PaymentsTypeOK, HookReq
<1>3. WebhooksAreTruthful'
  BY <1>0, <1>1 DEF IInv, WebhooksAreTruthful, Truthful, Exists, store, TypeOK,
                    PaymentsTypeOK
<1>4. AcknowledgedIsActive'
  BY <1>1 DEF IInv, AcknowledgedIsActive, store
<1>5. QED BY <1>1, <1>2, <1>3, <1>4, WebhookFrame

(***************************************************************************)
(* What a webhook handler is about to write refers to a payments row, its  *)
(* subscription and its order.                                             *)
(***************************************************************************)
LEMMA CommitRefers ==
  ASSUME IInv, NEW h \in HookHandlers, NEW o \in Orders,
         NEW e \in {Captured(o), Failed(o)}, Committing(h, e)
  PROVE  /\ payments[o] \in PaymentRow
         /\ Exists(orders[o])
         /\ payments[o].sub = orders[o].sub
         /\ payments[o].sub \in Subs
         /\ subs[payments[o].sub] \in SubRow
         /\ e = Captured(o) => orders[o].status = "paid"
<1>0. TypeOK BY DEF IInv
<1>1. Exists(payments[o]) /\ (e = Captured(o) => orders[o].status = "paid")
  BY DEF IInv, WebhooksAreTruthful, Truthful, Committing, Captured, Failed, Idle
<1>2. payments[o] \in PaymentRow
  BY <1>0, <1>1, Rows
<1>3. Exists(orders[o]) /\ payments[o].sub = orders[o].sub
  BY <1>1 DEF IInv, ReferencesHold, AmountsAgree
<1>4. payments[o].sub \in Subs /\ Exists(subs[payments[o].sub])
  BY <1>2, <1>3 DEF IInv, ReferencesHold, PaymentRow
<1>5. QED BY <1>0, <1>1, <1>2, <1>3, <1>4, Rows

LEMMA MarkFailedStep ==
  ASSUME IInv, UNCHANGED memberReq,
         NEW h \in HookHandlers, NEW o \in Orders, MarkFailed(h, o)
  PROVE  IInv'
<1>0. TypeOK BY DEF IInv
<1>1. payments[o] \in PaymentRow
  BY CommitRefers DEF MarkFailed
<1>2. /\ payments' = [payments EXCEPT ![o] = [@ EXCEPT !.status = "failed"]]
      /\ events' \in {events, events \ {Failed(o)}}
      /\ hookReq' = [hookReq EXCEPT ![h] = Idle]
      /\ UNCHANGED <<plans, subs, memberReq, orderReq, orders>>
  BY DEF MarkFailed, Respond
<1>3. /\ payments' \in [Orders -> {NoRow} \cup PaymentRow]
      /\ payments'[o].status = "failed"
      /\ payments'[o].sub = payments[o].sub
      /\ payments'[o].amount = payments[o].amount
      /\ \A q \in Orders : /\ Exists(payments'[q]) <=> Exists(payments[q])
                           /\ q # o => payments'[q] = payments[q]
  BY <1>0, <1>1, <1>2 DEF TypeOK, StoreTypeOK, PaymentRow, Exists
<1>4. TypeOK'
  BY <1>0, <1>2, <1>3
  DEF TypeOK, StoreTypeOK, MemberTypeOK, PaymentsTypeOK, HookReq
<1>5. MemberRequestsKnowTheirPlan' /\ OrderRequestsKnowTheirSub'
  BY <1>2 DEF IInv, MemberRequestsKnowTheirPlan, OrderRequestsKnowTheirSub, Exists
<1>6. ReferencesHold' /\ PaidHasPayment'
  BY <1>2, <1>3 DEF IInv, ReferencesHold, PaidHasPayment, Exists
<1>7. WebhooksAreTruthful'
  BY <1>0, <1>2, <1>3
  DEF IInv, WebhooksAreTruthful, Truthful, TypeOK, PaymentsTypeOK, HookReq,
      Event, Idle
<1>8. AmountsAgree'
  BY <1>1, <1>2, <1>3 DEF IInv, AmountsAgree, Exists, PaymentRow
<1>9. OneActivePerUser'
  BY <1>2 DEF IInv, OneActivePerUser, IsMembershipOf
<1>10. ActiveIsPaidInFull'
  BY <1>2 DEF IInv, ActiveIsPaidInFull, PaidInFull
<1>11. CapturedIsActive'
  BY <1>2, <1>3 DEF IInv, CapturedIsActive
<1>12. AcknowledgedIsActive'
  BY <1>2 DEF IInv, AcknowledgedIsActive, Captured, Failed
<1>13. QED
  BY <1>4, <1>5, <1>6, <1>7, <1>8, <1>9, <1>10, <1>11, <1>12 DEF IInv

(***************************************************************************)
(* The step that grants a membership.                                      *)
(***************************************************************************)
LEMMA MarkCapturedStep ==
  ASSUME IInv, UNCHANGED memberReq,
         NEW h \in HookHandlers, NEW o \in Orders, MarkCaptured(h, o)
  PROVE  IInv'
<1> DEFINE s == payments[o].sub
<1>0. TypeOK BY DEF IInv
<1>1. /\ payments[o] \in PaymentRow /\ s \in Subs /\ subs[s] \in SubRow
      /\ s = orders[o].sub /\ orders[o].status = "paid" /\ Exists(orders[o])
  BY CommitRefers DEF MarkCaptured
<1>2. /\ payments' = [payments EXCEPT ![o] = [@ EXCEPT !.status = "captured"]]
      /\ subs' = [subs EXCEPT ![s] = [@ EXCEPT !.status = "active"]]
      /\ events' \in {events, events \ {Captured(o)}}
      /\ hookReq' = [hookReq EXCEPT ![h] = Idle]
      /\ UNCHANGED <<plans, memberReq, orderReq, orders>>
      /\ ActiveIndexAdmits(s)
  BY DEF MarkCaptured, Respond
<1>3. /\ payments' \in [Orders -> {NoRow} \cup PaymentRow]
      /\ \A q \in Orders : /\ Exists(payments'[q]) <=> Exists(payments[q])
                           /\ Exists(payments[q]) =>
                                /\ payments'[q].sub = payments[q].sub
                                /\ payments'[q].amount = payments[q].amount
                           /\ q # o => payments'[q] = payments[q]
  BY <1>0, <1>1, <1>2 DEF TypeOK, StoreTypeOK, PaymentRow, Exists
<1>4. /\ subs' \in [Subs -> {NoRow} \cup SubRow]
      /\ subs'[s].status = "active"
      /\ \A t \in Subs : /\ Exists(subs'[t]) <=> Exists(subs[t])
                         /\ Exists(subs[t]) =>
                              /\ subs'[t].user = subs[t].user
                              /\ subs'[t].priceAtPurchase =
                                   subs[t].priceAtPurchase
                         /\ t # s => subs'[t] = subs[t]
                         /\ subs[t].status = "active" =>
                              subs'[t].status = "active"
  BY <1>0, <1>1, <1>2 DEF TypeOK, StoreTypeOK, SubRow, Exists
<1>5. TypeOK'
  BY <1>0, <1>2, <1>3, <1>4
  DEF TypeOK, StoreTypeOK, MemberTypeOK, PaymentsTypeOK, HookReq
<1>6. MemberRequestsKnowTheirPlan'
  BY <1>2 DEF IInv, MemberRequestsKnowTheirPlan, Exists
<1>7. OrderRequestsKnowTheirSub'
  BY <1>0, <1>2, <1>4, OrderRequests DEF IInv, OrderRequestsKnowTheirSub, Exists
<1>8. ReferencesHold' /\ PaidHasPayment'
  <2>1. \A q \in Orders : Exists(orders[q]) => orders[q].sub \in Subs
    BY <1>0, Rows DEF OrderRow
  <2>2. QED
    BY <1>2, <1>3, <1>4, <2>1 DEF IInv, ReferencesHold, PaidHasPayment, Exists
<1>9. WebhooksAreTruthful'
  BY <1>0, <1>2, <1>3
  DEF IInv, WebhooksAreTruthful, Truthful, TypeOK, PaymentsTypeOK, HookReq,
      Event, Idle
<1>10. AmountsAgree'
  <2> SUFFICES ASSUME NEW q \in Orders, Exists(orders[q])
               PROVE  /\ orders[q].amount =
                           Subunits(subs'[orders[q].sub].priceAtPurchase)
                      /\ Exists(payments[q]) =>
                           /\ payments'[q].sub = orders[q].sub
                           /\ payments'[q].amount =
                                subs'[orders[q].sub].priceAtPurchase
    BY <1>2, <1>3 DEF IInv, AmountsAgree, ReferencesHold, Exists, Subunits
  <2>1. orders[q].sub \in Subs /\ Exists(subs[orders[q].sub])
    BY <1>0, Rows DEF IInv, ReferencesHold, OrderRow
  <2>2. subs'[orders[q].sub].priceAtPurchase = subs[orders[q].sub].priceAtPurchase
    BY <1>4, <2>1
  <2>3. QED BY <1>3, <2>2 DEF IInv, AmountsAgree
<1>11. OneActivePerUser'
  <2> SUFFICES ASSUME NEW u \in Users, NEW t \in Subs, NEW r \in Subs,
                      IsMembershipOf(t, u)', IsMembershipOf(r, u)', t # s
               PROVE  t = r
    BY DEF OneActivePerUser, IsMembershipOf
  <2>1. IsMembershipOf(t, u)
    BY <1>4 DEF IsMembershipOf
  <2>2. CASE r = s
    BY <1>1, <1>2, <1>4, <2>1, <2>2
    DEF ActiveIndexAdmits, IsMembershipOf, SubRow, Exists
  <2>3. CASE r # s
    BY <1>4, <2>1, <2>3 DEF IInv, OneActivePerUser, IsMembershipOf
  <2>4. QED BY <2>2, <2>3
<1>12. ActiveIsPaidInFull'
  <2> SUFFICES ASSUME NEW t \in Subs, subs'[t].status = "active"
               PROVE  PaidInFull(t)'
    BY DEF ActiveIsPaidInFull
  <2>1. Exists(subs[t]) /\ PaidInFull(t)
    <3>1. CASE t = s
      BY <1>1, <3>1 DEF IInv, PaidInFull, AmountsAgree, SubRow, Exists
    <3>2. CASE t # s
      BY <1>4, <3>2 DEF IInv, ActiveIsPaidInFull, Exists
    <3>3. QED BY <3>1, <3>2
  <2>2. QED BY <1>2, <1>4, <2>1 DEF PaidInFull
<1>13. CapturedIsActive'
  <2> SUFFICES ASSUME NEW q \in Orders, payments'[q].status = "captured"
               PROVE  subs'[payments'[q].sub].status = "active"
    BY DEF CapturedIsActive
  <2>1. CASE q = o
    BY <1>1, <1>3, <1>4, <2>1 DEF PaymentRow, Exists
  <2>2. CASE q # o
    <3>1. payments[q].sub \in Subs /\ subs[payments[q].sub].status = "active"
      BY <1>0, <1>3, <2>2, Rows DEF IInv, CapturedIsActive, PaymentRow, Exists
    <3>2. QED BY <1>3, <1>4, <2>2, <3>1
  <2>3. QED BY <2>1, <2>2
<1>14. AcknowledgedIsActive'
  <2> SUFFICES ASSUME NEW q \in Orders, orders[q].status = "paid",
                      Captured(q) \notin events'
               PROVE  subs'[orders[q].sub].status = "active"
    BY <1>2 DEF AcknowledgedIsActive, Captured
  <2>1. CASE q = o
    BY <1>1, <1>4, <2>1
  <2>2. CASE q # o
    <3>1. Captured(q) \notin events
      BY <1>2, <2>2 DEF Captured
    <3>2. orders[q].sub \in Subs
      BY <1>0, Rows DEF OrderRow, Exists
    <3>3. QED BY <1>4, <3>1, <3>2 DEF IInv, AcknowledgedIsActive
  <2>3. QED BY <2>1, <2>2
<1>15. QED
  BY <1>5, <1>6, <1>7, <1>8, <1>9, <1>10, <1>11, <1>12, <1>13, <1>14 DEF IInv

(* Every step of PaymentsService and of Razorpay. *)
LEMMA PaymentsStep ==
  ASSUME IInv, PaymentsNext, UNCHANGED memberReq
  PROVE  IInv'
  BY OrderReadStep, OrderLookupStep, OrderGatewayStep, OrderPersistStep,
     OrderAbortStep, CheckoutPaysStep, CheckoutFailsStep, HookReadStep,
     HookIgnoreStep, MarkCapturedStep, MarkFailedStep, HookEndStep
  DEF PaymentsNext
-----------------------------------------------------------------------------
LEMMA IInvInit == Init => IInv
<1> SUFFICES ASSUME Init PROVE IInv
  OBVIOUS
<1> USE DEF Init, StoreInit, MemberInit, PaymentsInit
<1>1. TypeOK
  BY DEF TypeOK, StoreTypeOK, MemberTypeOK, PaymentsTypeOK, MemberReq, OrderReq,
         HookReq
<1>2. /\ MemberRequestsKnowTheirPlan /\ OrderRequestsKnowTheirSub
      /\ ReferencesHold /\ PaidHasPayment /\ AmountsAgree
  BY DEF MemberRequestsKnowTheirPlan, OrderRequestsKnowTheirSub, ReferencesHold,
         PaidHasPayment, AmountsAgree, Exists, NoRow
<1>3. WebhooksAreTruthful
  BY DEF WebhooksAreTruthful
<1>4. /\ OneActivePerUser /\ ActiveIsPaidInFull /\ CapturedIsActive
      /\ AcknowledgedIsActive
  BY DEF OneActivePerUser, IsMembershipOf, ActiveIsPaidInFull,
         CapturedIsActive, AcknowledgedIsActive, NoRow
<1>5. QED BY <1>1, <1>2, <1>3, <1>4 DEF IInv

LEMMA IInvStutter == ASSUME IInv, UNCHANGED vars PROVE IInv'
<1>1. UNCHANGED <<store, memberReq, hookReq, orders, events>>
  BY DEF vars, paymentVars
<1>2. orderReq' \in [OrderHandlers -> OrderReq]
  BY DEF vars, paymentVars, IInv, TypeOK, PaymentsTypeOK
<1>3. OrderRequestsKnowTheirSub'
  BY DEF vars, paymentVars, store, IInv, OrderRequestsKnowTheirSub, Exists
<1>4. QED BY <1>1, <1>2, <1>3, OrderRequestFrame

LEMMA IInvStep == IInv /\ [Next]_vars => IInv'
  BY MemberStep, PaymentsStep, IInvStutter DEF Next

(***************************************************************************)
(* The inductive invariant: tables, requests in flight and undelivered     *)
(* webhooks stay consistent with each other through every interleaving.    *)
(***************************************************************************)
THEOREM Invariance == Spec => []IInv
  BY IInvInit, IInvStep, PTL DEF Spec

(***************************************************************************)
(* Tables, requests and webhooks keep their types, so no handler ever      *)
(* dereferences a row that is not there (findPlanOrThrow, markCaptured).   *)
(***************************************************************************)
THEOREM TypeCorrect == Spec => []TypeOK
<1>1. IInv => TypeOK BY DEF IInv
<1>2. QED BY <1>1, Invariance, PTL

(***************************************************************************)
(* No user ever has two active subscriptions (subscribe, markCaptured and  *)
(* the partial unique index).                                              *)
(***************************************************************************)
THEOREM OneMembership == Spec => []OneActivePerUser
<1>1. IInv => OneActivePerUser BY DEF IInv
<1>2. QED BY <1>1, Invariance, PTL

(***************************************************************************)
(* An active subscription was paid for, in full, at the price agreed when  *)
(* it was created (subscribe, createOrder, markCaptured).                  *)
(***************************************************************************)
THEOREM NoUnpaidMembership == Spec => []ActiveIsPaidInFull
<1>1. IInv => ActiveIsPaidInFull BY DEF IInv
<1>2. QED BY <1>1, Invariance, PTL

(***************************************************************************)
(* A captured payment's subscription is active: markCaptured's transaction *)
(* cannot be observed half done.                                           *)
(***************************************************************************)
THEOREM CaptureActivates == Spec => []CapturedIsActive
<1>1. IInv => CapturedIsActive BY DEF IInv
<1>2. QED BY <1>1, Invariance, PTL

(***************************************************************************)
(* A capture Razorpay stops retrying has activated its subscription: no    *)
(* crash, duplicate or stale read in handleWebhook loses a paid membership.*)
(***************************************************************************)
THEOREM NoCaptureLost == Spec => []AcknowledgedIsActive
<1>1. IInv => AcknowledgedIsActive BY DEF IInv
<1>2. QED BY <1>1, Invariance, PTL

(***************************************************************************)
(* Subscription, payments row and Razorpay order agree on the price, in    *)
(* whatever way plans change while createOrder runs.                       *)
(***************************************************************************)
THEOREM OnePriceEverywhere == Spec => []AmountsAgree
<1>1. IInv => AmountsAgree BY DEF IInv
<1>2. QED BY <1>1, Invariance, PTL
-----------------------------------------------------------------------------
(***************************************************************************)
(* OneOrderInFlight fails when createOrder runs twice at once (the run     *)
(* membership_two_orders).  It is a property of createOrder run one        *)
(* request at a time: between lookup and insert nothing else adds a row.   *)
(***************************************************************************)
NoneWhileCreating ==
  \A h \in OrderHandlers :
    orderReq[h].op \in {"order_gateway", "order_persist"} =>
      \A o \in Orders : ~ InFlight(o, orderReq[h].sub)

LEMMA InFlightFrame ==
  ASSUME OneOrderInFlight, NoneWhileCreating,
         \A o \in Orders : \A s \in Subs : InFlight(o, s)' => InFlight(o, s),
         IInv, orderReq' = orderReq
  PROVE  OneOrderInFlight' /\ NoneWhileCreating'
<1>1. OneOrderInFlight'
  BY DEF OneOrderInFlight
<1>2. NoneWhileCreating'
  <2> SUFFICES ASSUME NEW h \in OrderHandlers, NEW o \in Orders,
                      orderReq[h].op \in {"order_gateway", "order_persist"}
               PROVE  ~ InFlight(o, orderReq[h].sub)'
    BY DEF NoneWhileCreating, InFlight
  <2>1. orderReq[h].sub \in Subs
    BY OrderRequests DEF IInv
  <2>2. QED BY <2>1 DEF NoneWhileCreating, InFlight
<1>3. QED BY <1>1, <1>2

LEMMA SequentialStep ==
  ASSUME \A g, h \in OrderHandlers : g = h,
         IInv, OneOrderInFlight, NoneWhileCreating, [Next]_vars
  PROVE  OneOrderInFlight' /\ NoneWhileCreating'
<1> USE DEF paymentVars
<1>0. TypeOK BY DEF IInv
<1>1. CASE UNCHANGED <<payments, orderReq>>
  BY <1>1, InFlightFrame DEF InFlight
<1>2. ASSUME NEW h \in OrderHandlers,
             \E s \in Subs : OrderRead(h, s)
      PROVE  OneOrderInFlight' /\ NoneWhileCreating'
  BY <1>0, <1>2
  DEF OrderRead, OneOrderInFlight, NoneWhileCreating, InFlight, TypeOK,
      PaymentsTypeOK, store
<1>3. ASSUME NEW h \in OrderHandlers, OrderLookup(h)
      PROVE  OneOrderInFlight' /\ NoneWhileCreating'
  <2>1. OneOrderInFlight'
    BY <1>3 DEF OrderLookup, OneOrderInFlight, InFlight, store
  <2>2. /\ orderReq[h] \in [op : {"order_lookup", "order_gateway"},
                            sub : Subs, price : Prices]
        /\ orderReq'[h] = IF \E o \in Orders : InFlight(o, orderReq[h].sub)
                          THEN Idle
                          ELSE [orderReq[h] EXCEPT !.op = "order_gateway"]
        /\ payments' = payments
    BY <1>0, <1>3, OrderRequests
    DEF OrderLookup, TypeOK, PaymentsTypeOK, store
  <2>3. \A o \in Orders : orderReq'[h].op = "order_gateway" =>
                            ~ InFlight(o, orderReq[h].sub)'
    BY <2>2 DEF InFlight, Idle
  <2>4. orderReq'[h].op # "order_persist"
    BY <2>2 DEF Idle
  <2>5. \A g \in OrderHandlers : g = h
    OBVIOUS
  <2>6. NoneWhileCreating'
    BY <2>3, <2>4, <2>5 DEF NoneWhileCreating
  <2>7. QED BY <2>1, <2>6
<1>4. ASSUME NEW h \in OrderHandlers, OrderGateway(h)
      PROVE  OneOrderInFlight' /\ NoneWhileCreating'
  BY <1>0, <1>4
  DEF OrderGateway, OneOrderInFlight, NoneWhileCreating, InFlight, TypeOK,
      PaymentsTypeOK, store
<1>5. ASSUME NEW h \in OrderHandlers, OrderPersist(h)
      PROVE  OneOrderInFlight' /\ NoneWhileCreating'
  <2> DEFINE r == orderReq[h].order
             s == orderReq[h].sub
  <2>1. /\ r \in Orders /\ orderReq'[h] = Idle
        /\ \A o \in Orders : o # r => payments'[o] = payments[o]
        /\ payments'[r].sub = s
    BY <1>0, <1>5, OrderRequests
    DEF OrderPersist, TypeOK, PaymentsTypeOK, StoreTypeOK
  <2>2. \A o \in Orders : ~ InFlight(o, s)
    BY <1>5 DEF OrderPersist, NoneWhileCreating
  <2>3. NoneWhileCreating'
    BY <2>1 DEF NoneWhileCreating, Idle
  <2>4. OneOrderInFlight'
    BY <2>1, <2>2 DEF OneOrderInFlight, InFlight
  <2>5. QED BY <2>3, <2>4
<1>6. ASSUME NEW h \in OrderHandlers, OrderAbort(h)
      PROVE  OneOrderInFlight' /\ NoneWhileCreating'
  BY <1>0, <1>6
  DEF OrderAbort, OneOrderInFlight, NoneWhileCreating, InFlight, Idle, TypeOK,
      PaymentsTypeOK, store
<1>7. ASSUME NEW h \in HookHandlers, NEW o \in Orders,
             MarkCaptured(h, o) \/ MarkFailed(h, o)
      PROVE  OneOrderInFlight' /\ NoneWhileCreating'
  <2>1. payments[o] \in PaymentRow
    BY <1>7, CommitRefers DEF MarkCaptured, MarkFailed
  <2>2. /\ payments'[o].status # "created"
        /\ \A q \in Orders : q # o => payments'[q] = payments[q]
    BY <1>0, <1>7, <2>1
    DEF MarkCaptured, MarkFailed, PaymentRow, TypeOK, StoreTypeOK
  <2>3. \A q \in Orders : \A s \in Subs : InFlight(q, s)' => InFlight(q, s)
    BY <2>2 DEF InFlight
  <2>4. orderReq' = orderReq
    BY <1>7 DEF MarkCaptured, MarkFailed
  <2>5. QED BY <2>3, <2>4, InFlightFrame
<1>8. CASE PaymentsNext
  <2>1. ASSUME NEW o \in Orders, CheckoutPays(o) \/ CheckoutFails(o)
        PROVE  UNCHANGED <<payments, orderReq>>
    BY <2>1 DEF CheckoutPays, CheckoutFails, store
  <2>2. ASSUME NEW h \in HookHandlers,
               \/ HookAbort(h)
               \/ \E e \in Event : HookRead(h, e) \/ HookIgnore(h, e)
               \/ \E o \in Orders : MarkCapturedConflict(h, o)
        PROVE  UNCHANGED <<payments, orderReq>>
    BY <2>2 DEF HookAbort, HookRead, HookIgnore, MarkCapturedConflict, store
  <2>3. QED
    BY <1>1, <1>2, <1>3, <1>4, <1>5, <1>6, <1>7, <1>8, <2>1, <2>2
    DEF PaymentsNext
<1>9. CASE MemberNext /\ UNCHANGED paymentVars
  <2>1. UNCHANGED <<payments, orderReq>>
    BY <1>9
    DEF MemberNext, PlanCreate, SubscribeRead, SubscribeCheck, SubscribeCreate,
        PlanFind, PlanUpdate, PlanRemove, MemberAbort, store
  <2>2. QED BY <1>1, <2>1
<1>10. CASE UNCHANGED vars
  BY <1>1, <1>10 DEF vars, store
<1>11. QED BY <1>8, <1>9, <1>10 DEF Next

(***************************************************************************)
(* One createOrder at a time, a subscription never has two orders awaiting *)
(* payment: the claim of payments.service.ts:79-85 without concurrency.    *)
(***************************************************************************)
THEOREM SequentialOrders ==
  ASSUME \A g, h \in OrderHandlers : g = h
  PROVE  Spec => []OneOrderInFlight
<1>1. Init => OneOrderInFlight /\ NoneWhileCreating
  BY DEF Init, StoreInit, PaymentsInit, OneOrderInFlight, NoneWhileCreating,
         InFlight, NoRow, Idle
<1>2. /\ IInv /\ OneOrderInFlight /\ NoneWhileCreating /\ [Next]_vars
      => OneOrderInFlight' /\ NoneWhileCreating'
  BY SequentialStep
<1>3. QED BY <1>1, <1>2, Invariance, PTL DEF Spec
=============================================================================
