-------------------------- MODULE PaymentsService --------------------------
(***************************************************************************)
(* apps/api/src/payments/payments.service.ts and, as its environment,      *)
(* Razorpay: orders are created there, customers pay them there, and its   *)
(* signed webhooks are the only thing that activates a subscription.       *)
(*                                                                         *)
(* createOrder runs in a slot of OrderHandlers and handleWebhook in a slot *)
(* of HookHandlers; between two awaits a request keeps what it has read.   *)
(***************************************************************************)
EXTENDS MembershipStore

CONSTANTS
  OrderHandlers,   \* createOrder requests in flight at once
  HookHandlers     \* webhook deliveries in flight at once

VARIABLES
  orderReq,        \* what each createOrder request will do next
  hookReq,         \* what each webhook delivery will do next
  orders,          \* Razorpay's orders
  events           \* webhooks Razorpay has not seen acknowledged

paymentVars == <<orderReq, hookReq, orders, events>>

Idle == [op |-> "idle"]

OrderReq ==
  {Idle}
  \cup [op : {"order_lookup", "order_gateway"}, sub : Subs, price : Prices]
  \cup [op : {"order_persist"}, sub : Subs, price : Prices, order : Orders]

Event == [kind : {"payment.captured", "payment.failed"}, order : Orders]

HookReq == {Idle} \cup [op : {"hook_commit"}, event : Event]

(* An order at Razorpay: open until its one capture. *)
OrderRow == [status : {"open", "paid"}, sub : Subs, amount : Nat]

PaymentsTypeOK ==
  /\ orderReq \in [OrderHandlers -> OrderReq]
  /\ hookReq \in [HookHandlers -> HookReq]
  /\ orders \in [Orders -> {NoRow} \cup OrderRow]
  /\ events \in SUBSET Event

PaymentsInit ==
  /\ orderReq = [h \in OrderHandlers |-> Idle]
  /\ hookReq = [h \in HookHandlers |-> Idle]
  /\ orders = [o \in Orders |-> NoRow]
  /\ events = {}

Captured(o) == [kind |-> "payment.captured", order |-> o]
Failed(o) == [kind |-> "payment.failed", order |-> o]

-----------------------------------------------------------------------------
(* createOrder *)

(* First await: the caller's subscription, which must await payment.       *)
(* Otherwise the request ends with 404 or 409 and changes nothing.         *)
OrderRead(h, s) ==
  /\ orderReq[h] = Idle
  /\ subs[s].status = "pending_payment"
  /\ orderReq' = [orderReq EXCEPT ![h] =
       [op |-> "order_lookup", sub |-> s, price |-> subs[s].priceAtPurchase]]
  /\ UNCHANGED <<store, hookReq, orders, events>>

(* A payments row of s whose order awaits payment. *)
InFlight(o, s) == payments[o].status = "created" /\ payments[o].sub = s

(* Mutant: no look at the payments table before a new order. *)
OrderLookupSkipped(h) ==
  /\ orderReq[h].op = "order_lookup"
  /\ orderReq' = [orderReq EXCEPT ![h].op = "order_gateway"]
  /\ UNCHANGED <<store, hookReq, orders, events>>

(* Second await: an order already in flight is returned as it is. *)
OrderLookup(h) ==
  /\ orderReq[h].op = "order_lookup"
  /\ orderReq' = [orderReq EXCEPT ![h] =
       IF \E o \in Orders : InFlight(o, @.sub)
       THEN Idle
       ELSE [@ EXCEPT !.op = "order_gateway"]]
  /\ UNCHANGED <<store, hookReq, orders, events>>

(* Mutant: charge what the plan costs now. *)
OrderGatewayCurrentPrice(h) ==
  /\ orderReq[h].op = "order_gateway"
  /\ \E o \in Orders :
       /\ ~ Exists(orders[o])
       /\ orders' = [orders EXCEPT ![o] =
            [status |-> "open", sub |-> orderReq[h].sub,
             amount |-> Subunits(plans[subs[orderReq[h].sub].plan].price)]]
       /\ orderReq' = [orderReq EXCEPT ![h] =
            [op |-> "order_persist", sub |-> @.sub, price |-> @.price,
             order |-> o]]
  /\ UNCHANGED <<store, hookReq, events>>

(* Third await: Razorpay creates an order for the price in subunits. *)
OrderGateway(h) ==
  /\ orderReq[h].op = "order_gateway"
  /\ \E o \in Orders :
       /\ ~ Exists(orders[o])
       /\ orders' = [orders EXCEPT ![o] =
            [status |-> "open", sub |-> orderReq[h].sub,
             amount |-> Subunits(orderReq[h].price)]]
       /\ orderReq' = [orderReq EXCEPT ![h] =
            [op |-> "order_persist", sub |-> @.sub, price |-> @.price,
             order |-> o]]
  /\ UNCHANGED <<store, hookReq, events>>

(* Fourth await: the payments row, and the order id goes to the customer. *)
OrderPersist(h) ==
  /\ orderReq[h].op = "order_persist"
  /\ payments' = [payments EXCEPT ![orderReq[h].order] =
       [status |-> "created", sub |-> orderReq[h].sub,
        amount |-> orderReq[h].price]]
  /\ orderReq' = [orderReq EXCEPT ![h] = Idle]
  /\ UNCHANGED <<plans, subs, hookReq, orders, events>>

(* The process stops, the database or Razorpay refuses the call: what has  *)
(* been committed, here or at Razorpay, stays.                             *)
OrderAbort(h) ==
  /\ orderReq[h] # Idle
  /\ orderReq' = [orderReq EXCEPT ![h] = Idle]
  /\ UNCHANGED <<store, hookReq, orders, events>>

-----------------------------------------------------------------------------
(* Razorpay and the customer's checkout.  A customer knows an order's id   *)
(* only from a createOrder response, so only orders with a payments row    *)
(* are paid.  An order is captured at most once; attempts may fail before. *)
Payable(o) == orders[o].status = "open" /\ Exists(payments[o])

CheckoutPays(o) ==
  /\ Payable(o)
  /\ orders' = [orders EXCEPT ![o].status = "paid"]
  /\ events' = events \cup {Captured(o)}
  /\ UNCHANGED <<store, orderReq, hookReq>>

CheckoutFails(o) ==
  /\ Payable(o)
  /\ events' = events \cup {Failed(o)}
  /\ UNCHANGED <<store, orderReq, hookReq, orders>>

-----------------------------------------------------------------------------
(* handleWebhook *)

(* A 2xx response to the delivery of e.  If it is lost or late, Razorpay   *)
(* delivers e again.                                                       *)
Respond(e) == events' \in {events, events \ {e}}

(* verifyWebhookSignature lets only Razorpay's own events pass; any other  *)
(* request ends with 400 before it reads or writes anything.               *)
SignatureVerified(e) == e \in events

(* Mutant: a failed payment counts as processed. *)
NothingToDoOnceFailed(e) ==
  payments[e.order].status \in {"none", "captured", "failed"}

(* Neither handler acts on an unknown order or on a captured payment. *)
NothingToDo(e) == payments[e.order].status \in {"none", "captured"}

(* Signature check, dispatch and findUnique.  The delivery stays in events *)
(* while it is handled: Razorpay may send it again at any moment.          *)
HookRead(h, e) ==
  /\ hookReq[h] = Idle
  /\ SignatureVerified(e)
  /\ ~ NothingToDo(e)
  /\ hookReq' = [hookReq EXCEPT ![h] = [op |-> "hook_commit", event |-> e]]
  /\ UNCHANGED <<store, orderReq, orders, events>>

(* The same read, answered 200 at once. *)
HookIgnore(h, e) ==
  /\ hookReq[h] = Idle
  /\ SignatureVerified(e)
  /\ NothingToDo(e)
  /\ Respond(e)
  /\ UNCHANGED <<store, orderReq, hookReq, orders>>

(* Slot h is about to write what event e says, from what it read earlier. *)
Committing(h, e) == hookReq[h] = [op |-> "hook_commit", event |-> e]

(* markCaptured's transaction: both rows or neither. *)
MarkCaptured(h, o) ==
  LET s == payments[o].sub IN
  /\ Committing(h, Captured(o))
  /\ ActiveIndexAdmits(s)
  /\ payments' = [payments EXCEPT ![o].status = "captured"]
  /\ subs' = [subs EXCEPT ![s].status = "active"]
  /\ Respond(Captured(o))
  /\ hookReq' = [hookReq EXCEPT ![h] = Idle]
  /\ UNCHANGED <<plans, orderReq, orders>>

(* Mutant: two updates outside a transaction, the second one refused. *)
ConflictAfterPaymentUpdate(h, o) ==
  /\ Committing(h, Captured(o))
  /\ ~ ActiveIndexAdmits(payments[o].sub)
  /\ payments' = [payments EXCEPT ![o].status = "captured"]
  /\ hookReq' = [hookReq EXCEPT ![h] = Idle]
  /\ UNCHANGED <<plans, subs, orderReq, orders, events>>

(* Mutant: the exception is swallowed and the webhook answered with 200. *)
ConflictSwallowed(h, o) ==
  /\ Committing(h, Captured(o))
  /\ ~ ActiveIndexAdmits(payments[o].sub)
  /\ Respond(Captured(o))
  /\ hookReq' = [hookReq EXCEPT ![h] = Idle]
  /\ UNCHANGED <<store, orderReq, orders>>

(* The unique index refuses the second row of the transaction: it rolls    *)
(* back, the request ends with 500 and Razorpay will retry.                *)
MarkCapturedConflict(h, o) ==
  /\ Committing(h, Captured(o))
  /\ ~ ActiveIndexAdmits(payments[o].sub)
  /\ hookReq' = [hookReq EXCEPT ![h] = Idle]
  /\ UNCHANGED <<store, orderReq, orders, events>>

(* Mutant: a failed payment also puts the subscription back to pending. *)
MarkFailedResetsSub(h, o) ==
  /\ Committing(h, Failed(o))
  /\ payments' = [payments EXCEPT ![o].status = "failed"]
  /\ subs' = [subs EXCEPT ![payments[o].sub].status = "pending_payment"]
  /\ Respond(Failed(o))
  /\ hookReq' = [hookReq EXCEPT ![h] = Idle]
  /\ UNCHANGED <<plans, orderReq, orders>>

(* markFailed's update, whatever the row has become since it was read. *)
MarkFailed(h, o) ==
  /\ Committing(h, Failed(o))
  /\ payments' = [payments EXCEPT ![o].status = "failed"]
  /\ Respond(Failed(o))
  /\ hookReq' = [hookReq EXCEPT ![h] = Idle]
  /\ UNCHANGED <<plans, subs, orderReq, orders>>

(* The process stops before the write: no response, Razorpay will retry. *)
HookAbort(h) ==
  /\ hookReq[h] # Idle
  /\ hookReq' = [hookReq EXCEPT ![h] = Idle]
  /\ UNCHANGED <<store, orderReq, orders, events>>

-----------------------------------------------------------------------------
PaymentsNext ==
  \/ \E h \in OrderHandlers :
       \/ \E s \in Subs : OrderRead(h, s)
       \/ OrderLookup(h)
       \/ OrderGateway(h)
       \/ OrderPersist(h)
       \/ OrderAbort(h)
  \/ \E o \in Orders : CheckoutPays(o) \/ CheckoutFails(o)
  \/ \E h \in HookHandlers :
       \/ \E e \in Event : HookRead(h, e) \/ HookIgnore(h, e)
       \/ \E o \in Orders :
            \/ MarkCaptured(h, o)
            \/ MarkCapturedConflict(h, o)
            \/ MarkFailed(h, o)
       \/ HookAbort(h)
=============================================================================
