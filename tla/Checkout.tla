------------------------------ MODULE Checkout ------------------------------
(***************************************************************************)
(* The customer's side of a membership: SubscribeButton.tsx with the       *)
(* Razorpay script of lib/razorpay/checkout.ts, and MembershipStatus.tsx,  *)
(* which polls while the webhook has not activated the subscription.       *)
(***************************************************************************)
EXTENDS Naturals

CONSTANT MAX_POLLS
ASSUME PollsAssumption == MAX_POLLS \in Nat

VARIABLES
  button,     \* where handleSubscribe is; "idle" enables the button
  script,     \* scriptLoadPromise: "none", "pending", "loaded" or "failed"
  paid,       \* whether the API shows the subscription active
  shown,      \* MembershipStatus: "unmounted", "loading", "ready" or "error"
  polling,    \* "off", a request "sent", or the "timer" set
  pollCount   \* polls so far of this mount

checkoutVars == <<button, script, paid, shown, polling, pollCount>>

buttonVars == <<button, script>>
statusVars == <<shown, polling, pollCount>>
-----------------------------------------------------------------------------
Click ==
  /\ button = "idle" /\ shown = "unmounted"
  /\ button' = "subscribing"
  /\ UNCHANGED <<script, paid, statusVars>>

Subscribed ==
  /\ button = "subscribing"
  /\ button' = "ordering"
  /\ UNCHANGED <<script, paid, statusVars>>

(* With the order, loadCheckoutScript: the promise is made once.           *)
Ordered ==
  /\ button = "ordering"
  /\ button' = "script"
  /\ script' = IF script = "none" THEN "pending" ELSE script
  /\ UNCHANGED <<paid, statusVars>>

(* The promise of a script that failed stays rejected until a reload.      *)
ScriptSettles ==
  /\ script = "pending"
  /\ script' \in {"loaded", "failed"}
  /\ UNCHANGED <<button, paid, statusVars>>

CheckoutOpens ==
  /\ button = "script" /\ script = "loaded"
  /\ button' = "open"
  /\ UNCHANGED <<script, paid, statusVars>>

(* The catch block: any step that rejects gives the button back.           *)
SubscribeFails ==
  /\ \/ button \in {"subscribing", "ordering"}
     \/ button = "script" /\ script = "failed"
  /\ button' = "idle"
  /\ UNCHANGED <<script, paid, statusVars>>

Dismiss ==
  /\ button = "open"
  /\ button' = "idle"
  /\ UNCHANGED <<script, paid, statusVars>>

(* The account page mounts MembershipStatus, whose effect loads.           *)
StatusMounts ==
  /\ shown' = "loading"
  /\ polling' = "sent"
  /\ pollCount' = 0

(* The handler goes to the account page: proof of nothing yet.             *)
Pays ==
  /\ button = "open"
  /\ button' = "left"
  /\ StatusMounts
  /\ UNCHANGED <<script, paid>>

VisitAccount ==
  /\ button = "idle" /\ shown = "unmounted"
  /\ StatusMounts
  /\ UNCHANGED <<buttonVars, paid>>

(* The webhook, at any time after the payment or never.                    *)
WebhookLands ==
  /\ button = "left" /\ ~ paid
  /\ paid' = TRUE
  /\ UNCHANGED <<buttonVars, statusVars>>
-----------------------------------------------------------------------------
(* Mutant: one poll too many. *)
StatusArrivesOnceMore ==
  /\ polling = "sent" /\ shown # "unmounted"
  /\ shown' = "ready"
  /\ IF ~ paid /\ pollCount <= MAX_POLLS
       THEN /\ polling' = "timer"
            /\ pollCount' = pollCount + 1
       ELSE /\ polling' = "off"
            /\ UNCHANGED pollCount
  /\ UNCHANGED <<buttonVars, paid>>

StatusArrives ==
  /\ polling = "sent" /\ shown # "unmounted"
  /\ shown' = "ready"
  /\ IF ~ paid /\ pollCount < MAX_POLLS
       THEN /\ polling' = "timer"
            /\ pollCount' = pollCount + 1
       ELSE /\ polling' = "off"
            /\ UNCHANGED pollCount
  /\ UNCHANGED <<buttonVars, paid>>

StatusFails ==
  /\ polling = "sent" /\ shown # "unmounted"
  /\ shown' = "error"
  /\ polling' = "off"
  /\ UNCHANGED <<buttonVars, paid, pollCount>>

TimerFires ==
  /\ polling = "timer"
  /\ polling' = "sent"
  /\ UNCHANGED <<buttonVars, paid, shown, pollCount>>

(* The clean-up: the timer is cleared, an answer under way is ignored.  The *)
(* plans page comes back with its button enabled and the same script.      *)
Unmount ==
  /\ shown # "unmounted"
  /\ shown' = "unmounted"
  /\ polling' = "off"
  /\ button' = "idle"
  /\ UNCHANGED <<script, paid, pollCount>>
-----------------------------------------------------------------------------
CheckoutInit ==
  /\ button = "idle"
  /\ script = "none"
  /\ paid = FALSE
  /\ shown = "unmounted"
  /\ polling = "off"
  /\ pollCount = 0

(* What the network, the browser and the timer do by themselves.           *)
CheckoutAnswered ==
  \/ Subscribed \/ Ordered \/ ScriptSettles \/ CheckoutOpens \/ SubscribeFails
  \/ StatusArrives \/ StatusFails \/ TimerFires

CheckoutNext ==
  \/ CheckoutAnswered
  \/ Click \/ Dismiss \/ Pays \/ VisitAccount \/ WebhookLands \/ Unmount

(* The type of the checkout's state.                                       *)
CheckoutTypeOK ==
  /\ button \in {"idle", "subscribing", "ordering", "script", "open", "left"}
  /\ script \in {"none", "pending", "loaded", "failed"}
  /\ paid \in BOOLEAN
  /\ shown \in {"unmounted", "loading", "ready", "error"}
  /\ polling \in {"off", "sent", "timer"}
  /\ pollCount \in 0 .. MAX_POLLS

(* handleSubscribe is under way.                                           *)
Subscribing == button \in {"subscribing", "ordering", "script"}
=============================================================================
