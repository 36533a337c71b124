------------------------ MODULE MembershipPayments -------------------------
(***************************************************************************)
(* The two services over the tables they share, with Razorpay as their     *)
(* environment, and what has to be true of them together.                  *)
(***************************************************************************)
EXTENDS MembershipService, PaymentsService

vars == <<store, memberReq, paymentVars>>

Init == StoreInit /\ MemberInit /\ PaymentsInit

Next ==
  \/ MemberNext /\ UNCHANGED paymentVars
  \/ PaymentsNext /\ UNCHANGED memberReq

Spec == Init /\ [][Next]_vars

(***************************************************************************)
(* Fairness.  Razorpay delivers an unacknowledged webhook again and again, *)
(* and it is not the case that every delivery dies before its commit or    *)
(* loses its response.  A delivery in progress ends, one way or another.   *)
(* Customers and administrators owe nothing.                               *)
(***************************************************************************)
Deliver(o) ==
  UNCHANGED memberReq /\ \E h \in HookHandlers : HookRead(h, Captured(o))

Accept(o) ==
  /\ UNCHANGED memberReq
  /\ \E h \in HookHandlers :
       MarkCaptured(h, o) \/ HookIgnore(h, Captured(o))
  /\ Captured(o) \notin events'

Finish(h) ==
  /\ UNCHANGED memberReq
  /\ \/ HookAbort(h)
     \/ \E o \in Orders : \/ MarkCaptured(h, o)
                          \/ MarkCapturedConflict(h, o)
                          \/ MarkFailed(h, o)

Fairness ==
  /\ \A o \in Orders : SF_vars(Deliver(o)) /\ SF_vars(Accept(o))
  /\ \A h \in HookHandlers : WF_vars(Finish(h))

FairSpec == Spec /\ Fairness
-----------------------------------------------------------------------------
(* The type of every table and of every request in flight. *)
TypeOK == StoreTypeOK /\ MemberTypeOK /\ PaymentsTypeOK

(***************************************************************************)
(* A user never holds two memberships, although subscribe checks and       *)
(* inserts in different awaits and any number of subscriptions of one user *)
(* may be paid (membership.service.ts subscribe, markCaptured, the index). *)
(***************************************************************************)
OneActivePerUser ==
  \A u \in Users : \A s, t \in Subs :
    IsMembershipOf(s, u) /\ IsMembershipOf(t, u) => s = t

(***************************************************************************)
(* Nobody is a member without money: an active subscription has an order   *)
(* paid at Razorpay, for exactly the price agreed when it was created,     *)
(* whatever administrators did to the plan in the meantime.                *)
(***************************************************************************)
PaidInFull(s) ==
  \E o \in Orders : /\ orders[o].status = "paid"
                    /\ orders[o].sub = s
                    /\ orders[o].amount = Subunits(subs[s].priceAtPurchase)

ActiveIsPaidInFull ==
  \A s \in Subs : subs[s].status = "active" => PaidInFull(s)

(***************************************************************************)
(* A payment recorded as captured belongs to an active subscription:       *)
(* markCaptured's two updates commit together or not at all.               *)
(***************************************************************************)
CapturedIsActive ==
  \A o \in Orders :
    payments[o].status = "captured" => subs[payments[o].sub].status = "active"

(***************************************************************************)
(* No acknowledged capture is lost: once Razorpay has stopped retrying the *)
(* capture of an order, the subscription paid for is active.  Handlers may *)
(* crash, run twice at once or work from a stale read of the payment.      *)
(***************************************************************************)
AcknowledgedIsActive ==
  \A o \in Orders :
    orders[o].status = "paid" /\ Captured(o) \notin events
      => subs[orders[o].sub].status = "active"

(***************************************************************************)
(* The three places a price is kept agree: the subscription, the payments  *)
(* row and, in subunits, the order the customer is charged for.            *)
(***************************************************************************)
AmountsAgree ==
  \A o \in Orders :
    /\ Exists(orders[o]) =>
         orders[o].amount = Subunits(subs[orders[o].sub].priceAtPurchase)
    /\ Exists(payments[o]) =>
         /\ payments[o].sub = orders[o].sub
         /\ payments[o].amount = subs[orders[o].sub].priceAtPurchase

-----------------------------------------------------------------------------
(***************************************************************************)
(* What makes these invariants inductive: a request's copy of a row, an    *)
(* order and a webhook always refer to rows that exist and still say what  *)
(* they said, because nothing deletes a row or changes its references.     *)
(***************************************************************************)
MemberRequestsKnowTheirPlan ==
  \A h \in MemberHandlers :
    memberReq[h] # MemberIdle => Exists(plans[memberReq[h].plan])

OrderRequestsKnowTheirSub ==
  \A h \in OrderHandlers :
    orderReq[h] # Idle =>
      /\ Exists(subs[orderReq[h].sub])
      /\ orderReq[h].price = subs[orderReq[h].sub].priceAtPurchase
      /\ orderReq[h].op = "order_persist" =>
           /\ Exists(orders[orderReq[h].order])
           /\ orders[orderReq[h].order].sub = orderReq[h].sub

ReferencesHold ==
  \A o \in Orders :
    /\ Exists(orders[o]) => Exists(subs[orders[o].sub])
    /\ Exists(payments[o]) => Exists(orders[o])

(* Razorpay sends e only about an order of ours, and a capture only once   *)
(* it has happened.                                                        *)
Truthful(e) ==
  /\ Exists(payments[e.order])
  /\ e.kind = "payment.captured" => orders[e.order].status = "paid"

WebhooksAreTruthful ==
  /\ \A e \in events : Truthful(e)
  /\ \A h \in HookHandlers : hookReq[h] # Idle => Truthful(hookReq[h].event)

PaidHasPayment ==
  \A o \in Orders : orders[o].status = "paid" => Exists(payments[o])

IInv ==
  /\ TypeOK
  /\ MemberRequestsKnowTheirPlan
  /\ OrderRequestsKnowTheirSub
  /\ ReferencesHold
  /\ WebhooksAreTruthful
  /\ PaidHasPayment
  /\ AmountsAgree
  /\ OneActivePerUser
  /\ ActiveIsPaidInFull
  /\ CapturedIsActive
  /\ AcknowledgedIsActive
-----------------------------------------------------------------------------
(***************************************************************************)
(* A subscription has at most one order awaiting payment, as the comment   *)
(* in createOrder claims (payments.service.ts:79-85).                      *)
(***************************************************************************)
OneOrderInFlight ==
  \A s \in Subs : \A o, q \in Orders :
    InFlight(o, s) /\ InFlight(q, s) => o = q

(***************************************************************************)
(* Every webhook of a capture is acknowledged in the end, as handleWebhook *)
(* promises ("Always resolves", payments.service.ts:155-161).              *)
(***************************************************************************)
CaptureAcknowledged ==
  \A o \in Orders : Captured(o) \in events ~> Captured(o) \notin events

(***************************************************************************)
(* The services implement Entitlement: what is paid is read off Razorpay's *)
(* orders, what is held off the subscriptions table.                       *)
(***************************************************************************)
PaidBy ==
  [u \in Users |-> {s \in Subs : /\ subs[s].status # "none"
                                 /\ subs[s].user = u
                                 /\ \E o \in Orders :
                                      /\ orders[o].status = "paid"
                                      /\ orders[o].sub = s}]

HeldBy == [u \in Users |-> {s \in Subs : IsMembershipOf(s, u)}]

Promise == INSTANCE Entitlement WITH paid <- PaidBy, member <- HeldBy

(* No step takes a membership away, grants one that is unpaid or a second. *)
EntitlementSafe == Promise!SafeSpec

(* Moreover a customer who has paid does become a member. *)
EntitlementKept == Promise!Spec
=============================================================================
