------------------------- MODULE MembershipService -------------------------
(***************************************************************************)
(* apps/api/src/membership/membership.service.ts: a customer subscribes to *)
(* a plan, administrators create, change and remove plans.  A request runs *)
(* in a slot of MemberHandlers; between two awaits it keeps what it has    *)
(* read in memberReq, and any other request may run in between.            *)
(***************************************************************************)
EXTENDS MembershipStore

CONSTANT MemberHandlers    \* requests of this service in flight at once

VARIABLE memberReq         \* what each of them will do next, and what it read

MemberIdle == [op |-> "idle"]

MemberReq ==
  {MemberIdle}
  \cup [op : {"subscribe_check", "subscribe_create"},
        user : Users, plan : Plans, price : Prices]
  \cup [op : {"plan_update", "plan_remove"}, plan : Plans]

MemberTypeOK == memberReq \in [MemberHandlers -> MemberReq]

MemberInit == memberReq = [h \in MemberHandlers |-> MemberIdle]

(* Plans customers may buy: isActive and not soft-deleted. *)
OnOffer(p) == plans[p].status = "listed" /\ plans[p].isActive

-----------------------------------------------------------------------------
(* subscribe, first await: the plan as it is now.  A plan that is not on   *)
(* offer ends the request with 404 and changes nothing.                    *)
SubscribeRead(h, u, p) ==
  /\ memberReq[h] = MemberIdle
  /\ OnOffer(p)
  /\ memberReq' = [memberReq EXCEPT ![h] =
       [op |-> "subscribe_check", user |-> u, plan |-> p,
        price |-> plans[p].price]]
  /\ UNCHANGED store

(* subscribe, second await: 409 if the user already has a membership. *)
SubscribeCheck(h) ==
  /\ memberReq[h].op = "subscribe_check"
  /\ memberReq' = [memberReq EXCEPT ![h] =
       IF HasMembership(@.user) THEN MemberIdle
                                ELSE [@ EXCEPT !.op = "subscribe_create"]]
  /\ UNCHANGED store

(* subscribe, third await: the row is inserted with the price read by the  *)
(* first await, whatever has happened to the plan or the user since.       *)
SubscribeCreate(h) ==
  /\ memberReq[h].op = "subscribe_create"
  /\ \E s \in Subs :
       /\ ~ Exists(subs[s])
       /\ subs' = [subs EXCEPT ![s] =
            [status |-> "pending_payment", user |-> memberReq[h].user,
             plan |-> memberReq[h].plan,
             priceAtPurchase |-> memberReq[h].price]]
  /\ memberReq' = [memberReq EXCEPT ![h] = MemberIdle]
  /\ UNCHANGED <<plans, payments>>

-----------------------------------------------------------------------------
(* create: one await; the slug is unique among all rows, deleted or not. *)
PlanCreate(p) ==
  /\ ~ Exists(plans[p])
  /\ \E price \in Prices, isActive \in BOOLEAN :
       plans' = [plans EXCEPT ![p] =
         [status |-> "listed", isActive |-> isActive, price |-> price]]
  /\ UNCHANGED <<subs, payments, memberReq>>

(* Mutant: update and remove write without looking for the plan. *)
PlanFindUnchecked(h, p, op) ==
  /\ memberReq[h] = MemberIdle
  /\ memberReq' = [memberReq EXCEPT ![h] = [op |-> op, plan |-> p]]
  /\ UNCHANGED store

(* update and remove, first await: findPlanOrThrow. *)
PlanFind(h, p, op) ==
  /\ memberReq[h] = MemberIdle
  /\ plans[p].status = "listed"
  /\ memberReq' = [memberReq EXCEPT ![h] = [op |-> op, plan |-> p]]
  /\ UNCHANGED store

(* Mutant: no priceAtPurchase of its own, the subscription follows the plan.*)
PlanUpdateRewritesSubs(h) ==
  /\ memberReq[h].op = "plan_update"
  /\ \E price \in Prices, isActive \in BOOLEAN :
       /\ plans' = [plans EXCEPT ![memberReq[h].plan] =
            [@ EXCEPT !.price = price, !.isActive = isActive]]
       /\ subs' = [s \in Subs |->
            IF Exists(subs[s]) /\ subs[s].plan = memberReq[h].plan
            THEN [subs[s] EXCEPT !.priceAtPurchase = price] ELSE subs[s]]
  /\ memberReq' = [memberReq EXCEPT ![h] = MemberIdle]
  /\ UNCHANGED payments

(* update, second await: sets the fields of the dto on the row with this   *)
(* id, which a concurrent remove may have deleted meanwhile.               *)
PlanUpdate(h) ==
  /\ memberReq[h].op = "plan_update"
  /\ \E price \in Prices, isActive \in BOOLEAN :
       plans' = [plans EXCEPT ![memberReq[h].plan] =
         [@ EXCEPT !.price = price, !.isActive = isActive]]
  /\ memberReq' = [memberReq EXCEPT ![h] = MemberIdle]
  /\ UNCHANGED <<subs, payments>>

(* remove, second await: a soft delete. *)
PlanRemove(h) ==
  /\ memberReq[h].op = "plan_remove"
  /\ plans' = [plans EXCEPT ![memberReq[h].plan] =
       [@ EXCEPT !.status = "deleted", !.isActive = FALSE]]
  /\ memberReq' = [memberReq EXCEPT ![h] = MemberIdle]
  /\ UNCHANGED <<subs, payments>>

(* The process stops, or the database refuses the call, between two awaits.*)
MemberAbort(h) ==
  /\ memberReq[h] # MemberIdle
  /\ memberReq' = [memberReq EXCEPT ![h] = MemberIdle]
  /\ UNCHANGED store

MemberNext ==
  \/ \E p \in Plans : PlanCreate(p)
  \/ \E h \in MemberHandlers :
       \/ \E u \in Users, p \in Plans : SubscribeRead(h, u, p)
       \/ SubscribeCheck(h)
       \/ SubscribeCreate(h)
       \/ \E p \in Plans, op \in {"plan_update", "plan_remove"} :
            PlanFind(h, p, op)
       \/ PlanUpdate(h)
       \/ PlanRemove(h)
       \/ MemberAbort(h)
=============================================================================
