--------------------------- MODULE Booking_proofs ---------------------------
(***************************************************************************)
(* Proofs about Booking, for any number of bookings, talents and requests. *)
(***************************************************************************)
EXTENDS Booking, TLAPS

LEMMA AdminRequests ==
  ASSUME TypeOK, NEW h \in AdminHandlers, adminReq[h] # Idle
  PROVE  /\ adminReq[h].booking \in Bookings
         /\ adminReq[h].previousStatus \in BookingStatus
         /\ adminReq[h].newStatus \in BookingStatus
  BY DEF TypeOK, AdminReq

LEMMA TransitionsType ==
  \A s \in BookingStatus : STATUS_TRANSITIONS[s] \subseteq BookingStatus
  BY DEF STATUS_TRANSITIONS, BookingStatus

(* What appending to a trail does to its rows. *)
LEMMA Appended ==
  ASSUME NEW S, NEW trail \in Seq(S), NEW row \in S
  PROVE  /\ Append(trail, row) \in Seq(S)
         /\ Len(Append(trail, row)) = Len(trail) + 1
         /\ Append(trail, row)[Len(trail) + 1] = row
         /\ \A i \in 1 .. Len(trail) : Append(trail, row)[i] = trail[i]
         /\ Append(trail, row) # <<>>
         /\ Len(trail) \in Nat
  OBVIOUS

(***************************************************************************)
(* Steps that leave bookings and their trails alone.                       *)
(***************************************************************************)
LEMMA TrailFrame ==
  ASSUME IInv, UNCHANGED <<status, history>>, TypeOK', RequestsWereLegal'
  PROVE  IInv'
<1> USE DEF IInv
<1>1. HistoryEndsInStatus' BY DEF HistoryEndsInStatus
<1>2. RowsAreLegal' BY DEF RowsAreLegal
<1>3. PreviousStatusWasHeld' BY DEF PreviousStatusWasHeld, WasIn
<1>4. QED BY <1>1, <1>2, <1>3

LEMMA SubmitSideStep ==
  ASSUME IInv, UNCHANGED <<status, history, adminReq>>, TypeOK'
  PROVE  IInv'
<1>1. RequestsWereLegal'
  BY DEF IInv, RequestsWereLegal, WasIn
<1>2. QED BY <1>1, TrailFrame

LEMMA UpdateReadStep ==
  ASSUME IInv, NEW h \in AdminHandlers, NEW b \in Bookings,
         NEW n \in BookingStatus, UpdateRead(h, b, n)
  PROVE  IInv'
<1>0. TypeOK BY DEF IInv
<1>1. status[b] \in BookingStatus
  BY <1>0 DEF UpdateRead, TypeOK
<1>2. TypeOK'
  BY <1>0, <1>1 DEF UpdateRead, TypeOK, AdminReq
<1>3. WasIn(b, status[b], Len(history[b]))
  <2>1. history[b] \in Seq(HistoryRow) /\ history[b] # <<>>
    BY <1>0 DEF TypeOK, IInv, HistoryEndsInStatus, UpdateRead
  <2>2. Len(history[b]) \in 1 .. Len(history[b])
    BY <2>1
  <2>3. QED BY <2>2 DEF IInv, HistoryEndsInStatus, UpdateRead, WasIn
<1>4. RequestsWereLegal'
  <2> SUFFICES ASSUME NEW g \in AdminHandlers, adminReq'[g] # Idle
               PROVE  /\ status[adminReq'[g].booking] # "none"
                      /\ adminReq'[g].newStatus \in
                           STATUS_TRANSITIONS[adminReq'[g].previousStatus]
                      /\ WasIn(adminReq'[g].booking, adminReq'[g].previousStatus,
                               Len(history[adminReq'[g].booking]))
    BY DEF RequestsWereLegal, WasIn, UpdateRead
  <2>1. CASE g = h
    BY <1>0, <1>3, <2>1 DEF UpdateRead, TypeOK
  <2>2. CASE g # h
    BY <1>0, <2>2 DEF UpdateRead, TypeOK, IInv, RequestsWereLegal
  <2>3. QED BY <2>1, <2>2
<1>5. QED BY <1>2, <1>4, TrailFrame DEF UpdateRead

LEMMA UpdateAbortStep ==
  ASSUME IInv, NEW h \in AdminHandlers, UpdateAbort(h)
  PROVE  IInv'
<1>0. TypeOK BY DEF IInv
<1>1. TypeOK'
  BY <1>0 DEF UpdateAbort, TypeOK, AdminReq
<1>2. RequestsWereLegal'
  BY <1>0 DEF UpdateAbort, IInv, RequestsWereLegal, WasIn, TypeOK
<1>3. QED BY <1>1, <1>2, TrailFrame DEF UpdateAbort

(***************************************************************************)
(* The two transactions.                                                   *)
(***************************************************************************)
LEMMA CreateCommitStep ==
  ASSUME IInv, NEW h \in SubmitHandlers, CreateCommit(h)
  PROVE  IInv'
<1> DEFINE first == [previousStatus |-> "none", newStatus |-> "submitted"]
<1>0. TypeOK BY DEF IInv
<1>1. PICK b \in Bookings :
        /\ status[b] = "none"
        /\ status' = [status EXCEPT ![b] = "submitted"]
        /\ history' = [history EXCEPT ![b] = <<first>>]
        /\ adminReq' = adminReq
  BY DEF CreateCommit
<1>2. first \in HistoryRow /\ "submitted" \in BookingStatus
  BY DEF HistoryRow, BookingStatus
<1>3. /\ history'[b] = <<first>> /\ Len(<<first>>) = 1 /\ status'[b] = "submitted"
      /\ <<first>> # <<>>
      /\ \A c \in Bookings : c # b => /\ history'[c] = history[c]
                                      /\ status'[c] = status[c]
  BY <1>0, <1>1 DEF TypeOK
<1>4. TypeOK'
  BY <1>0, <1>1, <1>2 DEF TypeOK, CreateCommit
<1>5. HistoryEndsInStatus'
  BY <1>3 DEF IInv, HistoryEndsInStatus
<1>6. RowsAreLegal'
  BY <1>3 DEF IInv, RowsAreLegal
<1>7. PreviousStatusWasHeld'
  BY <1>3 DEF IInv, PreviousStatusWasHeld, WasIn
<1>8. RequestsWereLegal'
  <2> SUFFICES ASSUME NEW g \in AdminHandlers, adminReq[g] # Idle
               PROVE  /\ status'[adminReq[g].booking] # "none"
                      /\ adminReq[g].newStatus \in
                           STATUS_TRANSITIONS[adminReq[g].previousStatus]
                      /\ \E i \in 1 .. Len(history'[adminReq[g].booking]) :
                           history'[adminReq[g].booking][i].newStatus
                             = adminReq[g].previousStatus
    BY <1>1 DEF RequestsWereLegal, WasIn
  <2> DEFINE c == adminReq[g].booking
  <2>1. c \in Bookings /\ c # b
    BY <1>0, <1>1, AdminRequests DEF IInv, RequestsWereLegal
  <2>2. history'[c] = history[c] /\ status'[c] = status[c]
    BY <1>3, <2>1
  <2>3. QED BY <2>2 DEF IInv, RequestsWereLegal, WasIn
<1>9. QED BY <1>4, <1>5, <1>6, <1>7, <1>8 DEF IInv

LEMMA UpdateCommitStep ==
  ASSUME IInv, NEW h \in AdminHandlers, UpdateCommit(h)
  PROVE  IInv'
<1> DEFINE b == adminReq[h].booking
           row == [previousStatus |-> adminReq[h].previousStatus,
                   newStatus |-> adminReq[h].newStatus]
           n == Len(history[b])
<1>0. TypeOK BY DEF IInv
<1>1. /\ adminReq[h] # Idle /\ b \in Bookings /\ row \in HistoryRow
      /\ row.previousStatus \in BookingStatus
      /\ history[b] \in Seq(HistoryRow) /\ history[b] # <<>>
      /\ row.newStatus \in STATUS_TRANSITIONS[row.previousStatus]
      /\ WasIn(b, row.previousStatus, n)
  BY <1>0, AdminRequests
  DEF UpdateCommit, HistoryRow, TypeOK, IInv, HistoryEndsInStatus,
      RequestsWereLegal
<1>2. /\ status' = [status EXCEPT ![b] = row.newStatus]
      /\ history' = [history EXCEPT ![b] = Append(@, row)]
      /\ adminReq' = [adminReq EXCEPT ![h] = Idle]
      /\ UNCHANGED <<roster, submitReq>>
  BY DEF UpdateCommit
<1>3. /\ n \in Nat /\ history'[b] = Append(history[b], row)
      /\ Len(history'[b]) = n + 1 /\ history'[b][n + 1] = row
      /\ \A i \in 1 .. n : history'[b][i] = history[b][i]
      /\ history'[b] \in Seq(HistoryRow) /\ history'[b] # <<>>
  <2>1. history'[b] = Append(history[b], row)
    BY <1>0, <1>1, <1>2 DEF TypeOK
  <2>2. QED BY <1>1, <2>1, Appended
<1>4. n > 0
  BY <1>1, <1>3
<1>5. /\ status'[b] = row.newStatus /\ row.newStatus \in BookingStatus
       /\ \A c \in Bookings : c # b => /\ history'[c] = history[c]
                                       /\ status'[c] = status[c]
  BY <1>0, <1>1, <1>2, TransitionsType DEF TypeOK
<1>6. TypeOK'
  BY <1>0, <1>1, <1>2, <1>3 DEF TypeOK, AdminReq
<1>7. HistoryEndsInStatus'
  BY <1>3, <1>5 DEF IInv, HistoryEndsInStatus, BookingStatus
<1>8. RowsAreLegal'
  <2> SUFFICES ASSUME NEW c \in Bookings, NEW i \in 1 .. Len(history'[c])
               PROVE  IF i = 1
                      THEN /\ history'[c][i].previousStatus = "none"
                           /\ history'[c][i].newStatus = "submitted"
                      ELSE /\ history'[c][i].previousStatus \in BookingStatus
                           /\ history'[c][i].newStatus \in
                                STATUS_TRANSITIONS[history'[c][i].previousStatus]
    BY DEF RowsAreLegal
  <2>1. CASE c # b
    BY <1>5, <2>1 DEF IInv, RowsAreLegal
  <2>2. CASE c = b /\ i \in 1 .. n
    <3>1. history'[c][i] = history[c][i]
      BY <1>3, <2>2
    <3>2. QED BY <3>1, <2>2 DEF IInv, RowsAreLegal
  <2>3. CASE c = b /\ i = n + 1
    <3>1. history'[c][i] = row /\ i # 1
      BY <1>3, <1>4, <2>3
    <3>2. QED BY <1>1, <3>1
  <2>4. QED BY <1>3, <2>1, <2>2, <2>3
<1>9. PreviousStatusWasHeld'
  <2> SUFFICES ASSUME NEW c \in Bookings, NEW i \in 2 .. Len(history'[c])
               PROVE  \E j \in 1 .. i - 1 :
                        history'[c][j].newStatus = history'[c][i].previousStatus
    BY DEF PreviousStatusWasHeld, WasIn
  <2>1. CASE c # b
    BY <1>5, <2>1 DEF IInv, PreviousStatusWasHeld, WasIn
  <2>2. CASE c = b /\ i \in 2 .. n
    <3>1. PICK j \in 1 .. i - 1 :
            history[c][j].newStatus = history[c][i].previousStatus
      BY <2>2 DEF IInv, PreviousStatusWasHeld, WasIn
    <3>2. j \in 1 .. n /\ i \in 1 .. n
      BY <1>3, <2>2
    <3>3. history'[c][j] = history[c][j] /\ history'[c][i] = history[c][i]
      BY <1>3, <2>2, <3>2
    <3>4. QED BY <3>1, <3>3
  <2>3. CASE c = b /\ i = n + 1
    <3>1. PICK j \in 1 .. n : history[b][j].newStatus = row.previousStatus
      BY <1>1 DEF WasIn
    <3>2. j \in 1 .. i - 1
      BY <1>3, <2>3
    <3>3. history'[c][j] = history[c][j] /\ history'[c][i] = row
      BY <1>3, <2>3
    <3>4. history'[c][j].newStatus = history'[c][i].previousStatus
      BY <2>3, <3>1, <3>3
    <3>5. QED BY <3>2, <3>4
  <2>4. QED BY <1>3, <2>1, <2>2, <2>3
<1>10. RequestsWereLegal'
  <2> SUFFICES ASSUME NEW g \in AdminHandlers, adminReq'[g] # Idle
               PROVE  /\ status'[adminReq'[g].booking] # "none"
                      /\ adminReq'[g].newStatus \in
                           STATUS_TRANSITIONS[adminReq'[g].previousStatus]
                      /\ \E i \in 1 .. Len(history'[adminReq'[g].booking]) :
                           history'[adminReq'[g].booking][i].newStatus
                             = adminReq'[g].previousStatus
    BY DEF RequestsWereLegal, WasIn
  <2>1. adminReq'[g] = adminReq[g] /\ adminReq[g] # Idle
    BY <1>0, <1>2 DEF TypeOK
  <2> DEFINE c == adminReq[g].booking
  <2>2. c \in Bookings
    BY <1>0, <2>1, AdminRequests
  <2>3. /\ status[c] # "none"
        /\ adminReq[g].newStatus \in STATUS_TRANSITIONS[adminReq[g].previousStatus]
        /\ \E i \in 1 .. Len(history[c]) :
             history[c][i].newStatus = adminReq[g].previousStatus
    BY <2>1 DEF IInv, RequestsWereLegal, WasIn
  <2>4. CASE c = b
    <3>1. PICK i \in 1 .. n : history[b][i].newStatus = adminReq[g].previousStatus
      BY <2>3, <2>4
    <3>2. i \in 1 .. n + 1 /\ history'[b][i] = history[b][i]
      BY <1>3, <3>1
    <3>3. status'[b] # "none"
      BY <1>5 DEF BookingStatus
    <3>4. adminReq'[g].booking = b /\ Len(history'[b]) = n + 1
      BY <1>3, <2>1, <2>4
    <3>5. \E k \in 1 .. Len(history'[b]) :
            history'[b][k].newStatus = adminReq[g].previousStatus
      BY <3>1, <3>2, <3>4
    <3>6. QED BY <2>1, <2>3, <3>3, <3>4, <3>5
  <2>5. CASE c # b
    <3>1. status'[c] = status[c] /\ history'[c] = history[c]
      BY <1>5, <2>2, <2>5
    <3>2. QED BY <2>1, <2>3, <3>1
  <2>6. QED BY <2>4, <2>5
<1>11. QED BY <1>6, <1>7, <1>8, <1>9, <1>10 DEF IInv
-----------------------------------------------------------------------------
LEMMA IInvInit == Init => IInv
  BY DEF Init, IInv, TypeOK, AdminReq, HistoryEndsInStatus, RowsAreLegal,
         PreviousStatusWasHeld, RequestsWereLegal, WasIn

LEMMA IInvStep == IInv /\ [Next]_vars => IInv'
<1> SUFFICES ASSUME IInv, [Next]_vars PROVE IInv'
  OBVIOUS
<1>0. TypeOK BY DEF IInv
<1>1. ASSUME NEW t \in Talents, RosterChange(t) PROVE IInv'
  BY <1>0, <1>1, SubmitSideStep DEF RosterChange, TypeOK
<1>2. ASSUME NEW h \in SubmitHandlers, NEW t \in Talents, CreateCheck(h, t)
      PROVE  IInv'
  BY <1>0, <1>2, SubmitSideStep DEF CreateCheck, TypeOK
<1>3. ASSUME NEW h \in SubmitHandlers, CreateAbort(h) PROVE IInv'
  BY <1>0, <1>3, SubmitSideStep DEF CreateAbort, TypeOK
<1>4. CASE UNCHANGED vars
  BY <1>0, <1>4, SubmitSideStep DEF vars, TypeOK
<1>5. QED
  BY <1>1, <1>2, <1>3, <1>4, CreateCommitStep, UpdateReadStep, UpdateCommitStep,
     UpdateAbortStep DEF Next

(***************************************************************************)
(* Bookings, their trails and the requests about them stay consistent.     *)
(***************************************************************************)
THEOREM Invariance == Spec => []IInv
  BY IInvInit, IInvStep, PTL DEF Spec

(***************************************************************************)
(* The audit trail ends in the booking's status after every transaction of *)
(* create and updateStatus, whoever races.                                 *)
(***************************************************************************)
THEOREM TrailMatchesStatus == Spec => []HistoryEndsInStatus
<1>1. IInv => HistoryEndsInStatus BY DEF IInv
<1>2. QED BY <1>1, Invariance, PTL

(***************************************************************************)
(* Each row of the audit trail is a transition in STATUS_TRANSITIONS.      *)
(***************************************************************************)
THEOREM TrailRowsLegal == Spec => []RowsAreLegal
<1>1. IInv => RowsAreLegal BY DEF IInv
<1>2. QED BY <1>1, Invariance, PTL

(***************************************************************************)
(* ... and starts from a status the booking really had, though it may have *)
(* left it by then.                                                        *)
(***************************************************************************)
THEOREM TrailIsWitnessed == Spec => []PreviousStatusWasHeld
<1>1. IInv => PreviousStatusWasHeld BY DEF IInv
<1>2. QED BY <1>1, Invariance, PTL

(***************************************************************************)
(* The roster, the bookings' tables and the requests in flight have their  *)
(* types.                                                                  *)
(***************************************************************************)
THEOREM TypeCorrect == Spec => []TypeOK
<1>1. IInv => TypeOK BY DEF IInv
<1>2. QED BY <1>1, Invariance, PTL
-----------------------------------------------------------------------------
(***************************************************************************)
(* Two racing updateStatus requests break the lifecycle (the run           *)
(* booking_two_admins).  With one at a time, what a request has read is    *)
(* still the status when it commits.                                       *)
(***************************************************************************)
NothingStale ==
  \A h \in AdminHandlers :
    adminReq[h] # Idle => adminReq[h].previousStatus = status[adminReq[h].booking]

LEMMA SubmitIsSubmit ==
  ASSUME IInv, NothingStale, NEW h \in SubmitHandlers, CreateCommit(h)
  PROVE  NothingStale' /\ Lifecycle!Next
<1>0. TypeOK BY DEF IInv
<1>1. PICK b \in Bookings :
        /\ status[b] = "none"
        /\ status' = [status EXCEPT ![b] = "submitted"]
        /\ history' = [history EXCEPT ![b] =
             <<[previousStatus |-> "none", newStatus |-> "submitted"]>>]
        /\ adminReq' = adminReq
  BY DEF CreateCommit
<1>2. NothingStale'
  <2> SUFFICES ASSUME NEW g \in AdminHandlers, adminReq[g] # Idle
               PROVE  adminReq[g].previousStatus = status'[adminReq[g].booking]
    BY <1>1 DEF NothingStale
  <2>1. adminReq[g].booking \in Bookings /\ adminReq[g].booking # b
    BY <1>0, <1>1, AdminRequests DEF IInv, RequestsWereLegal
  <2>2. QED BY <1>0, <1>1, <2>1 DEF NothingStale, TypeOK
<1>3. Lifecycle!Submit(b)
  BY <1>1 DEF Lifecycle!Submit, IInv, HistoryEndsInStatus
<1>4. QED BY <1>2, <1>3 DEF Lifecycle!Next

LEMMA UpdateIsMove ==
  ASSUME \A g, h \in AdminHandlers : g = h,
         IInv, NothingStale, NEW h \in AdminHandlers, UpdateCommit(h)
  PROVE  NothingStale' /\ Lifecycle!Next
<1> DEFINE b == adminReq[h].booking
           n == adminReq[h].newStatus
<1>0. TypeOK BY DEF IInv
<1>1. /\ adminReq[h] # Idle /\ b \in Bookings /\ n \in BookingStatus
      /\ status[b] # "none" /\ adminReq[h].previousStatus = status[b]
      /\ n \in STATUS_TRANSITIONS[status[b]]
  BY <1>0, AdminRequests
  DEF UpdateCommit, NothingStale, IInv, RequestsWereLegal
<1>2. history[b] # <<>> /\ history[b][Len(history[b])].newStatus = status[b]
  BY <1>1 DEF IInv, HistoryEndsInStatus
<1>3. history' = [history EXCEPT ![b] =
        Append(@, [previousStatus |-> status[b], newStatus |-> n])]
  BY <1>1 DEF UpdateCommit
<1>4. Lifecycle!Move(b, n)
  BY <1>1, <1>2, <1>3 DEF Lifecycle!Move
<1>5. NothingStale'
  <2>1. adminReq'[h] = Idle
    BY <1>0 DEF UpdateCommit, TypeOK
  <2>2. \A g \in AdminHandlers : g = h
    OBVIOUS
  <2>3. QED BY <2>1, <2>2 DEF NothingStale
<1>6. QED BY <1>1, <1>4, <1>5 DEF Lifecycle!Next

LEMMA SequentialStep ==
  ASSUME \A g, h \in AdminHandlers : g = h,
         IInv, NothingStale, [Next]_vars
  PROVE  NothingStale' /\ [Lifecycle!Next]_history
<1>0. TypeOK BY DEF IInv
<1>1. CASE UNCHANGED <<status, history, adminReq>>
  BY <1>1 DEF NothingStale
<1>2. ASSUME NEW h \in AdminHandlers, NEW b \in Bookings,
             NEW n \in BookingStatus, UpdateRead(h, b, n)
      PROVE  NothingStale' /\ UNCHANGED history
  BY <1>0, <1>2 DEF UpdateRead, NothingStale, TypeOK
<1>3. ASSUME NEW h \in AdminHandlers, UpdateAbort(h)
      PROVE  NothingStale' /\ UNCHANGED history
  BY <1>0, <1>3 DEF UpdateAbort, NothingStale, TypeOK
<1>4. ASSUME \/ \E t \in Talents : RosterChange(t)
             \/ \E h \in SubmitHandlers :
                  CreateAbort(h) \/ \E t \in Talents : CreateCheck(h, t)
             \/ UNCHANGED vars
      PROVE  UNCHANGED <<status, history, adminReq>>
  BY <1>4 DEF RosterChange, CreateAbort, CreateCheck, vars
<1>5. QED
  BY <1>1, <1>2, <1>3, <1>4, SubmitIsSubmit, UpdateIsMove DEF Next

(***************************************************************************)
(* One updateStatus request at a time, no booking ever leaves the state    *)
(* machine of STATUS_TRANSITIONS (booking.service.ts:33-46).               *)
(***************************************************************************)
THEOREM SequentialLifecycle ==
  ASSUME \A g, h \in AdminHandlers : g = h
  PROVE  Spec => LifecycleFollowed
<1>1. Init => NothingStale /\ Lifecycle!Init
  BY DEF Init, NothingStale, Lifecycle!Init
<1>2. /\ IInv /\ NothingStale /\ [Next]_vars
      => NothingStale' /\ [Lifecycle!Next]_history
  BY SequentialStep
<1>3. QED
  BY <1>1, <1>2, Invariance, PTL DEF Spec, LifecycleFollowed, Lifecycle!Spec
=============================================================================
