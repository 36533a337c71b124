-------------------------- MODULE MembershipStore --------------------------
(***************************************************************************)
(* The PostgreSQL tables shared by MembershipService and PaymentsService   *)
(* (apps/api/prisma/schema.prisma, "Membership & Payment").  A table is a  *)
(* function from the ids it may ever use to rows; an id whose row has not  *)
(* been inserted maps to NoRow.  Every action of the services that touches *)
(* a table is one Prisma call or one committed $transaction, which is what *)
(* PostgreSQL at READ COMMITTED executes atomically.                       *)
(***************************************************************************)
EXTENDS Naturals

CONSTANTS
  Users,    \* customers
  Plans,    \* slugs of membership_plans rows
  Subs,     \* ids of subscriptions rows
  Orders,   \* Razorpay order ids; payments rows are keyed by them
  Prices    \* DECIMAL(12,2) amounts a plan may cost, as rupees and paise

ASSUME PricesAssumption == Prices \subseteq [rupees : Nat, paise : 0 .. 99]

VARIABLES
  plans,    \* membership_plans
  subs,     \* subscriptions
  payments  \* payments, by the unique razorpay_order_id

store == <<plans, subs, payments>>

(***************************************************************************)
(* Rows.  Subscription.status is also declared "expired" and "cancelled",  *)
(* and Payment.status "authorized" and "refunded"; nothing in the code     *)
(* ever writes those values.  startsAt, expiresAt, currency and the stored *)
(* gateway response are left out: no guard reads them.                     *)
(***************************************************************************)
NoRow == [status |-> "none"]

PlanRow == [status : {"listed", "deleted"}, isActive : BOOLEAN, price : Prices]

SubRow == [status : {"pending_payment", "active"}, user : Users, plan : Plans,
           priceAtPurchase : Prices]

PaymentRow == [status : {"created", "captured", "failed"}, sub : Subs,
               amount : Prices]

StoreTypeOK ==
  /\ plans \in [Plans -> {NoRow} \cup PlanRow]
  /\ subs \in [Subs -> {NoRow} \cup SubRow]
  /\ payments \in [Orders -> {NoRow} \cup PaymentRow]

StoreInit ==
  /\ plans = [p \in Plans |-> NoRow]
  /\ subs = [s \in Subs |-> NoRow]
  /\ payments = [o \in Orders |-> NoRow]

Exists(row) == row.status # "none"

(* Subscription s is the user's membership. *)
IsMembershipOf(s, u) == subs[s].status = "active" /\ subs[s].user = u

(* An active row of the user is what both subscribe's pre-check and the    *)
(* partial unique index look for.                                          *)
HasMembership(u) == \E s \in Subs : IsMembershipOf(s, u)

(* Mutant: the migration without the partial unique index. *)
NoActiveIndex(s) == TRUE

(* uq_subscriptions_one_active_per_user: s may become active unless        *)
(* another row of its user already is.                                     *)
ActiveIndexAdmits(s) ==
  \A t \in Subs \ {s} : ~ IsMembershipOf(t, subs[s].user)

(* Math.round(Number(price) * 100): the integer amount Razorpay is asked   *)
(* to charge.                                                              *)
Subunits(price) == price.rupees * 100 + price.paise
=============================================================================
