------------------------------ MODULE Booking ------------------------------
(***************************************************************************)
(* apps/api/src/booking/booking.service.ts: visitors and members submit    *)
(* booking requests for talents on the roster, administrators move them    *)
(* through the states of STATUS_TRANSITIONS, and every change leaves a row *)
(* in the audit trail booking_status_history.                              *)
(*                                                                         *)
(* A request runs in a slot of SubmitHandlers or AdminHandlers; what it    *)
(* has read by its first await it uses at the next one, however old.       *)
(***************************************************************************)
EXTENDS Sequences, Naturals

CONSTANTS
  Bookings,        \* ids of booking_requests rows
  Talents,         \* ids of talents rows
  SubmitHandlers,  \* create requests in flight at once
  AdminHandlers,   \* updateStatus requests in flight at once
  MaxRows          \* bound: no request starts on a booking with this many rows

ASSUME MaxRowsAssumption == MaxRows \in Nat

VARIABLES
  roster,          \* talents active and not deleted
  status,          \* booking_requests.status, "none" before the insert
  history,         \* booking_status_history per booking, in commit order
  submitReq,       \* what each create request will do next
  adminReq         \* what each updateStatus request will do next

vars == <<roster, status, history, submitReq, adminReq>>

BookingStatus == {"submitted", "under_review", "contacted", "confirmed",
                  "declined", "expired", "cancelled"}

(* The statuses an administrator may set next. *)
STATUS_TRANSITIONS ==
  [s \in BookingStatus |->
     CASE s = "submitted"    -> {"under_review", "declined", "expired"}
       [] s = "under_review" -> {"contacted", "declined", "expired"}
       [] s = "contacted"    -> {"confirmed", "declined"}
       [] s = "confirmed"    -> {"cancelled"}
       [] OTHER              -> {}]

HistoryRow == [previousStatus : BookingStatus \cup {"none"},
               newStatus : BookingStatus]

Idle == [op |-> "idle"]

AdminReq ==
  {Idle} \cup [op : {"update"}, booking : Bookings,
               previousStatus : BookingStatus, newStatus : BookingStatus]

Init ==
  /\ roster \in SUBSET Talents
  /\ status = [b \in Bookings |-> "none"]
  /\ history = [b \in Bookings |-> <<>>]
  /\ submitReq = [h \in SubmitHandlers |-> "idle"]
  /\ adminReq = [h \in AdminHandlers |-> Idle]

-----------------------------------------------------------------------------
(* Administrators activate and deactivate talents (talent.service.ts       *)
(* update, bulkAction); a deleted one is deactivated for good.             *)
RosterChange(t) ==
  /\ roster' \in {roster \cup {t}, roster \ {t}}
  /\ UNCHANGED <<status, history, submitReq, adminReq>>

(* create, first await: a talent off the roster ends the request with 404  *)
(* (and a guest without contact details got 400 before it).                *)
CreateCheck(h, t) ==
  /\ submitReq[h] = "idle"
  /\ t \in roster
  /\ submitReq' = [submitReq EXCEPT ![h] = "create"]
  /\ UNCHANGED <<roster, status, history, adminReq>>

(* Mutant: the trail starts with the first update. *)
CreateLogsNothing(h) ==
  /\ submitReq[h] = "create"
  /\ \E b \in Bookings :
       /\ status[b] = "none"
       /\ status' = [status EXCEPT ![b] = "submitted"]
  /\ submitReq' = [submitReq EXCEPT ![h] = "idle"]
  /\ UNCHANGED <<roster, history, adminReq>>

(* Mutant: the first row logs the status before the insert. *)
CreateLogsOldStatus(h) ==
  /\ submitReq[h] = "create"
  /\ \E b \in Bookings :
       /\ status[b] = "none"
       /\ status' = [status EXCEPT ![b] = "submitted"]
       /\ history' = [history EXCEPT ![b] =
            <<[previousStatus |-> "none", newStatus |-> status[b]]>>]
  /\ submitReq' = [submitReq EXCEPT ![h] = "idle"]
  /\ UNCHANGED <<roster, adminReq>>

(* create's transaction: the booking and the first row of its trail. *)
CreateCommit(h) ==
  /\ submitReq[h] = "create"
  /\ \E b \in Bookings :
       /\ status[b] = "none"
       /\ status' = [status EXCEPT ![b] = "submitted"]
       /\ history' = [history EXCEPT ![b] =
            <<[previousStatus |-> "none", newStatus |-> "submitted"]>>]
  /\ submitReq' = [submitReq EXCEPT ![h] = "idle"]
  /\ UNCHANGED <<roster, adminReq>>

CreateAbort(h) ==
  /\ submitReq[h] # "idle"
  /\ submitReq' = [submitReq EXCEPT ![h] = "idle"]
  /\ UNCHANGED <<roster, status, history, adminReq>>

-----------------------------------------------------------------------------
(* Mutant: any status may follow any other. *)
UpdateReadUnchecked(h, b, n) ==
  /\ adminReq[h] = Idle
  /\ status[b] # "none"
  /\ Len(history[b]) < MaxRows
  /\ adminReq' = [adminReq EXCEPT ![h] =
       [op |-> "update", booking |-> b,
        previousStatus |-> status[b], newStatus |-> n]]
  /\ UNCHANGED <<roster, status, history, submitReq>>

(* updateStatus, first await: findBookingOrThrow, and what it returns is   *)
(* checked against the transition table; 404 and 409 change nothing.       *)
UpdateRead(h, b, n) ==
  /\ adminReq[h] = Idle
  /\ status[b] # "none"
  /\ n \in STATUS_TRANSITIONS[status[b]]
  /\ Len(history[b]) < MaxRows
  /\ adminReq' = [adminReq EXCEPT ![h] =
       [op |-> "update", booking |-> b,
        previousStatus |-> status[b], newStatus |-> n]]
  /\ UNCHANGED <<roster, status, history, submitReq>>

(* Mutant: two separate writes, and the process stops after the first. *)
UpdateHalfDone(h) ==
  LET r == adminReq[h] IN
  /\ r # Idle
  /\ status' = [status EXCEPT ![r.booking] = r.newStatus]
  /\ adminReq' = [adminReq EXCEPT ![h] = Idle]
  /\ UNCHANGED <<roster, history, submitReq>>

(* updateStatus's transaction: where: { id } alone, so it writes whatever  *)
(* the status has become, and logs the status it read as previousStatus.   *)
UpdateCommit(h) ==
  LET r == adminReq[h] IN
  /\ r # Idle
  /\ status' = [status EXCEPT ![r.booking] = r.newStatus]
  /\ history' = [history EXCEPT ![r.booking] =
       Append(@, [previousStatus |-> r.previousStatus,
                  newStatus |-> r.newStatus])]
  /\ adminReq' = [adminReq EXCEPT ![h] = Idle]
  /\ UNCHANGED <<roster, submitReq>>

UpdateAbort(h) ==
  /\ adminReq[h] # Idle
  /\ adminReq' = [adminReq EXCEPT ![h] = Idle]
  /\ UNCHANGED <<roster, status, history, submitReq>>

Next ==
  \/ \E t \in Talents : RosterChange(t)
  \/ \E h \in SubmitHandlers :
       \/ \E t \in Talents : CreateCheck(h, t)
       \/ CreateCommit(h)
       \/ CreateAbort(h)
  \/ \E h \in AdminHandlers :
       \/ \E b \in Bookings, n \in BookingStatus : UpdateRead(h, b, n)
       \/ UpdateCommit(h)
       \/ UpdateAbort(h)

Spec == Init /\ [][Next]_vars
-----------------------------------------------------------------------------
(* The type of every table and of every request in flight. *)
TypeOK ==
  /\ roster \in SUBSET Talents
  /\ status \in [Bookings -> BookingStatus \cup {"none"}]
  /\ history \in [Bookings -> Seq(HistoryRow)]
  /\ submitReq \in [SubmitHandlers -> {"idle", "create"}]
  /\ adminReq \in [AdminHandlers -> AdminReq]

(***************************************************************************)
(* The last row of the trail says what the status is: the two writes of    *)
(* create and of updateStatus commit together, and the row lock orders     *)
(* racing updates the same way in both tables.                             *)
(***************************************************************************)
HistoryEndsInStatus ==
  \A b \in Bookings :
    IF status[b] = "none" THEN history[b] = <<>>
    ELSE /\ history[b] # <<>>
         /\ history[b][Len(history[b])].newStatus = status[b]

(***************************************************************************)
(* Every single row reads as a legal transition, whatever updates raced:   *)
(* the trail alone never betrays an illegal jump of the status itself.     *)
(***************************************************************************)
RowsAreLegal ==
  \A b \in Bookings : \A i \in 1 .. Len(history[b]) :
    LET row == history[b][i] IN
    IF i = 1
    THEN row.previousStatus = "none" /\ row.newStatus = "submitted"
    ELSE /\ row.previousStatus \in BookingStatus
         /\ row.newStatus \in STATUS_TRANSITIONS[row.previousStatus]

(***************************************************************************)
(* A row's previousStatus may be stale when it is written, but never made  *)
(* up: an earlier row put the booking there.                               *)
(***************************************************************************)
WasIn(b, s, n) == \E i \in 1 .. n : history[b][i].newStatus = s

PreviousStatusWasHeld ==
  \A b \in Bookings : \A i \in 2 .. Len(history[b]) :
    WasIn(b, history[b][i].previousStatus, i - 1)

(* What a request in flight has read was true once, and it was checked. *)
RequestsWereLegal ==
  \A h \in AdminHandlers :
    LET r == adminReq[h] IN
    r # Idle => /\ status[r.booking] # "none"
                /\ r.newStatus \in STATUS_TRANSITIONS[r.previousStatus]
                /\ WasIn(r.booking, r.previousStatus, Len(history[r.booking]))

IInv ==
  /\ TypeOK
  /\ HistoryEndsInStatus
  /\ RowsAreLegal
  /\ PreviousStatusWasHeld
  /\ RequestsWereLegal

(***************************************************************************)
(* "Anything not listed as a value for the current status is rejected":    *)
(* the trail of every booking is one of BookingLifecycle, where a status   *)
(* is read and changed in one step.                                        *)
(***************************************************************************)
Lifecycle == INSTANCE BookingLifecycle WITH
  trail <- history, Statuses <- BookingStatus,
  Initial <- "submitted", Allowed <- STATUS_TRANSITIONS

LifecycleFollowed == Lifecycle!Spec
=============================================================================
