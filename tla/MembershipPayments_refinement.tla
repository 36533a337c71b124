------------------- MODULE MembershipPayments_refinement -------------------
(***************************************************************************)
(* MembershipPayments implements the safety part of Entitlement: the       *)
(* customer's payment maps to Pay, markCaptured to Grant, and every other  *)
(* step of either service to a stutter.                                    *)
(***************************************************************************)
EXTENDS MembershipPayments_proofs

(* What one user has paid for and holds: PaidBy[u] and HeldBy[u]. *)
LEMMA Mapping ==
  ASSUME NEW u \in Users, NEW s \in Subs
  PROVE  /\ s \in HeldBy[u] <=> IsMembershipOf(s, u)
         /\ s \in PaidBy[u] <=>
              /\ subs[s].status # "none"
              /\ subs[s].user = u
              /\ \E o \in Orders : orders[o].status = "paid" /\ orders[o].sub = s
  BY DEF HeldBy, PaidBy

(***************************************************************************)
(* A step that keeps existing subscriptions and paid orders, and activates *)
(* and charges nothing, changes neither.                                   *)
(***************************************************************************)
LEMMA MappingFrame ==
  ASSUME IInv,
         \A s \in Subs : Exists(subs[s]) => subs'[s] = subs[s],
         \A s \in Subs : subs'[s].status = "active" => subs'[s] = subs[s],
         \A o \in Orders : \/ orders[o].status = "paid"
                           \/ orders'[o].status = "paid"
                           => orders'[o] = orders[o]
  PROVE  UNCHANGED <<PaidBy, HeldBy>>
<1>0. TypeOK BY DEF IInv
<1>1. HeldBy' = HeldBy
  <2>1. \A u \in Users, s \in Subs : IsMembershipOf(s, u)' <=> IsMembershipOf(s, u)
    BY DEF IsMembershipOf, Exists
  <2>2. QED BY <2>1 DEF HeldBy
<1>2. \A o \in Orders : orders[o].status = "paid" =>
                          orders[o].sub \in Subs /\ Exists(subs[orders[o].sub])
  BY <1>0, Rows DEF IInv, ReferencesHold, OrderRow, Exists
<1>3. PaidBy' = PaidBy
  <2> DEFINE Paid(u, s) == /\ subs[s].status # "none"
                           /\ subs[s].user = u
                           /\ \E o \in Orders : /\ orders[o].status = "paid"
                                                /\ orders[o].sub = s
  <2>1. ASSUME NEW u \in Users, NEW s \in Subs
        PROVE  Paid(u, s)' <=> Paid(u, s)
    BY <1>2 DEF Exists
  <2>2. QED BY <2>1 DEF PaidBy
<1>4. QED BY <1>1, <1>3

LEMMA MappingInit == Init => Promise!Init
<1> SUFFICES ASSUME Init PROVE Promise!Init
  OBVIOUS
<1>1. PaidBy = [u \in Users |-> {}]
  BY DEF Init, StoreInit, PaymentsInit, PaidBy, NoRow
<1>2. HeldBy = [u \in Users |-> {}]
  BY DEF Init, StoreInit, HeldBy, IsMembershipOf, NoRow
<1>3. QED BY <1>1, <1>2 DEF Promise!Init

(***************************************************************************)
(* The customer's payment is Pay: the order belongs to one subscription    *)
(* and through it to one user.                                             *)
(***************************************************************************)
LEMMA CheckoutPaysIsPay ==
  ASSUME IInv, NEW o \in Orders, CheckoutPays(o)
  PROVE  Promise!Next
<1> DEFINE s == orders[o].sub
           u == subs[s].user
<1>0. TypeOK BY DEF IInv
<1>1. /\ orders[o] \in OrderRow /\ s \in Subs
      /\ subs[s] \in SubRow /\ Exists(subs[s]) /\ u \in Users
  BY <1>0, Rows
  DEF CheckoutPays, Payable, IInv, ReferencesHold, Exists, OrderRow, SubRow
<1>2. /\ orders'[o].status = "paid" /\ orders'[o].sub = s
      /\ \A q \in Orders : q # o => orders'[q] = orders[q]
      /\ orders[o].status = "open"
      /\ subs' = subs
  BY <1>0, <1>1
  DEF CheckoutPays, Payable, TypeOK, PaymentsTypeOK, OrderRow, store
<1>3. s \notin UNION {PaidBy[v] : v \in Users \ {u}}
  BY <1>1, Mapping
<1>4. PaidBy' = [PaidBy EXCEPT ![u] = @ \cup {s}]
  <2>1. ASSUME NEW v \in Users, NEW t \in Subs
        PROVE  t \in PaidBy'[v] <=> t \in PaidBy[v] \/ (v = u /\ t = s)
    BY <1>1, <1>2 DEF PaidBy, Exists
  <2>2. ASSUME NEW v \in Users
        PROVE  PaidBy'[v] = IF v = u THEN PaidBy[u] \cup {s} ELSE PaidBy[v]
    <3>1. PaidBy'[v] \subseteq Subs /\ PaidBy[v] \subseteq Subs
      BY DEF PaidBy
    <3>2. QED BY <1>1, <2>1, <3>1
  <2>3. QED BY <2>2 DEF PaidBy
<1>5. HeldBy' = HeldBy
  BY <1>2 DEF HeldBy, IsMembershipOf
<1>6. Promise!Pay(u, s)
  BY <1>3, <1>4, <1>5 DEF Promise!Pay
<1>7. QED BY <1>1, <1>6 DEF Promise!Next

(***************************************************************************)
(* markCaptured is Grant, the first time: a second capture of the same     *)
(* subscription changes nothing the customer can tell.                     *)
(***************************************************************************)
LEMMA MarkCapturedIsGrant ==
  ASSUME IInv, NEW h \in HookHandlers, NEW o \in Orders, MarkCaptured(h, o)
  PROVE  Promise!Next \/ UNCHANGED <<PaidBy, HeldBy>>
<1> DEFINE s == payments[o].sub
           u == subs[s].user
<1>0. TypeOK BY DEF IInv
<1>1. /\ s \in Subs /\ subs[s] \in SubRow /\ u \in Users
      /\ orders[o].status = "paid" /\ orders[o].sub = s
  BY CommitRefers DEF MarkCaptured, SubRow
<1>2. /\ subs'[s].status = "active" /\ subs'[s].user = u
      /\ \A t \in Subs : t # s => subs'[t] = subs[t]
      /\ orders' = orders
  BY <1>0, <1>1 DEF MarkCaptured, TypeOK, StoreTypeOK, SubRow
<1>3. \A t \in Subs : t # s => ~ IsMembershipOf(t, u)
  BY DEF MarkCaptured, ActiveIndexAdmits
<1>4. PaidBy' = PaidBy
  <2> DEFINE Paid(v, t) == /\ subs[t].status # "none"
                           /\ subs[t].user = v
                           /\ \E q \in Orders : /\ orders[q].status = "paid"
                                                /\ orders[q].sub = t
  <2>1. ASSUME NEW v \in Users, NEW t \in Subs
        PROVE  Paid(v, t)' <=> Paid(v, t)
    BY <1>1, <1>2 DEF SubRow
  <2>2. QED BY <2>1 DEF PaidBy
<1>5. CASE subs[s].status = "active"
  <2>1. \A v \in Users, t \in Subs : IsMembershipOf(t, v)' <=> IsMembershipOf(t, v)
    BY <1>1, <1>2, <1>5 DEF IsMembershipOf
  <2>2. HeldBy' = HeldBy
    BY <2>1 DEF HeldBy
  <2>3. QED BY <1>4, <2>2
<1>6. CASE subs[s].status # "active"
  <2>1. HeldBy[u] = {}
    BY <1>1, <1>3, <1>6 DEF HeldBy, IsMembershipOf
  <2>2. s \in PaidBy[u]
    BY <1>1, Mapping DEF SubRow
  <2>3. HeldBy' = [HeldBy EXCEPT ![u] = {s}]
    <3>1. ASSUME NEW v \in Users, NEW t \in Subs
          PROVE  t \in HeldBy'[v] <=> IF v = u THEN t = s ELSE t \in HeldBy[v]
      BY <1>1, <1>2, <1>3, <1>6 DEF HeldBy, IsMembershipOf
    <3>2. ASSUME NEW v \in Users
          PROVE  HeldBy'[v] = IF v = u THEN {s} ELSE HeldBy[v]
      <4>1. HeldBy'[v] \subseteq Subs /\ HeldBy[v] \subseteq Subs
        BY DEF HeldBy
      <4>2. QED BY <1>1, <3>1, <4>1
    <3>3. QED BY <3>2 DEF HeldBy
  <2>4. Promise!Grant(u)
    BY <1>4, <2>1, <2>2, <2>3 DEF Promise!Grant
  <2>5. QED BY <1>1, <2>4 DEF Promise!Next
<1>7. QED BY <1>5, <1>6

LEMMA MemberStepStutters ==
  ASSUME IInv, MemberNext, UNCHANGED paymentVars
  PROVE  UNCHANGED <<PaidBy, HeldBy>>
<1>0. TypeOK BY DEF IInv
<1>1. CASE \E h \in MemberHandlers : SubscribeCreate(h)
  <2>1. PICK s \in Subs : /\ ~ Exists(subs[s])
                          /\ subs'[s].status = "pending_payment"
                          /\ \A t \in Subs : t # s => subs'[t] = subs[t]
    BY <1>0, <1>1 DEF SubscribeCreate, TypeOK, StoreTypeOK
  <2>2. /\ \A t \in Subs : Exists(subs[t]) => subs'[t] = subs[t]
        /\ \A t \in Subs : subs'[t].status = "active" => subs'[t] = subs[t]
        /\ orders' = orders
    BY <2>1 DEF paymentVars
  <2>3. QED BY <2>2, MappingFrame
<1>2. CASE ~ \E h \in MemberHandlers : SubscribeCreate(h)
  <2>1. subs' = subs /\ orders' = orders
    BY <1>2
    DEF MemberNext, PlanCreate, SubscribeRead, SubscribeCheck, PlanFind,
        PlanUpdate, PlanRemove, MemberAbort, store, paymentVars
  <2>2. QED BY <2>1, MappingFrame
<1>3. QED BY <1>1, <1>2

LEMMA PaymentsStepMaps ==
  ASSUME IInv, PaymentsNext
  PROVE  Promise!Next \/ UNCHANGED <<PaidBy, HeldBy>>
<1>0. TypeOK BY DEF IInv
<1>1. ASSUME NEW h \in OrderHandlers,
             \/ \E s \in Subs : OrderRead(h, s)
             \/ OrderLookup(h) \/ OrderPersist(h) \/ OrderAbort(h)
      PROVE  UNCHANGED <<PaidBy, HeldBy>>
  <2>1. subs' = subs /\ orders' = orders
    BY <1>1 DEF OrderRead, OrderLookup, OrderPersist, OrderAbort, store
  <2>2. QED BY <2>1, MappingFrame
<1>2. ASSUME NEW h \in OrderHandlers, OrderGateway(h)
      PROVE  UNCHANGED <<PaidBy, HeldBy>>
  <2>1. PICK o \in Orders : /\ ~ Exists(orders[o])
                            /\ orders'[o].status = "open"
                            /\ \A q \in Orders : q # o => orders'[q] = orders[q]
    BY <1>0, <1>2 DEF OrderGateway, TypeOK, PaymentsTypeOK
  <2>2. \A q \in Orders : \/ orders[q].status = "paid"
                          \/ orders'[q].status = "paid"
                          => orders'[q] = orders[q]
    BY <2>1 DEF Exists
  <2>3. subs' = subs
    BY <1>2 DEF OrderGateway, store
  <2>4. QED BY <2>2, <2>3, MappingFrame
<1>3. ASSUME NEW o \in Orders, CheckoutPays(o) \/ CheckoutFails(o)
      PROVE  Promise!Next \/ UNCHANGED <<PaidBy, HeldBy>>
  <2>1. CASE CheckoutPays(o)
    BY <2>1, CheckoutPaysIsPay
  <2>2. CASE CheckoutFails(o)
    <3>1. subs' = subs /\ orders' = orders
      BY <2>2 DEF CheckoutFails, store
    <3>2. QED BY <3>1, MappingFrame
  <2>3. QED BY <1>3, <2>1, <2>2
<1>4. ASSUME NEW h \in HookHandlers,
             \/ \E e \in Event : HookRead(h, e) \/ HookIgnore(h, e)
             \/ \E o \in Orders : MarkCapturedConflict(h, o) \/ MarkFailed(h, o)
             \/ HookAbort(h)
      PROVE  UNCHANGED <<PaidBy, HeldBy>>
  <2>1. subs' = subs /\ orders' = orders
    BY <1>4
    DEF HookRead, HookIgnore, MarkCapturedConflict, MarkFailed, HookAbort, store
  <2>2. QED BY <2>1, MappingFrame
<1>5. QED
  BY <1>1, <1>2, <1>3, <1>4, MarkCapturedIsGrant DEF PaymentsNext

LEMMA StepMaps ==
  IInv /\ [Next]_vars => [Promise!Next]_(Promise!vars)
<1> SUFFICES ASSUME IInv, [Next]_vars
             PROVE  Promise!Next \/ UNCHANGED <<PaidBy, HeldBy>>
  BY DEF Promise!vars
<1>1. CASE UNCHANGED vars
  <2>1. subs' = subs /\ orders' = orders
    BY <1>1 DEF vars, store, paymentVars
  <2>2. QED BY <2>1, MappingFrame
<1>2. QED
  BY <1>1, MemberStepStutters, PaymentsStepMaps DEF Next

(***************************************************************************)
(* The services take no membership away, grant none that is unpaid, and    *)
(* never a second one: every behaviour of MembershipPayments is one of     *)
(* Entitlement, up to its liveness.                                        *)
(***************************************************************************)
THEOREM ImplementsEntitlement == Spec => EntitlementSafe
  BY MappingInit, StepMaps, Invariance, PTL
  DEF Spec, EntitlementSafe, Promise!SafeSpec
=============================================================================
