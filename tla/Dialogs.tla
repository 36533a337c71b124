------------------------------ MODULE Dialogs ------------------------------
(***************************************************************************)
(* The dialogs of the administration front end that save one row.  Their   *)
(* fields are state made by useState(row?.name ?? "") when the page mounts *)
(* the dialog, closed and without a row; what brings the fields in line    *)
(* with the row it is later opened on differs from dialog to dialog, and   *)
(* most have nothing that does.                                            *)
(*                                                                         *)
(* One field stands for all: where "required" is FALSE the one the form    *)
(* lets through empty (display order, price, alternative text).            *)
(***************************************************************************)
EXTENDS Naturals

CONSTANTS
  Entries,   \* the rows that can be edited
  Contents,  \* what can be typed into the field
  Saves      \* bound: saves in flight at once, where the dialog allows several

Blank == "blank"
Closed == "closed"
New == "new"

ASSUME EntriesAssumption == Closed \notin Entries

VARIABLES
  dialog,   \* which dialog it is, as what tells the dialogs apart
  stored,   \* the API's rows
  tableRows, \* the rows of the list the dialog is opened from
  opened,   \* Closed, New or the row it was opened on
  field,    \* what the field shows
  due,      \* history: what the field, untouched since the opening, has to show,
            \* or Anything once it was typed into
  saving    \* what each save awaits, or NoSave

dialogVars == <<dialog, stored, tableRows, opened, field, due, saving>>

NoSave == [at |-> "none"]
Anything == "anything"
-----------------------------------------------------------------------------
(* The dialogs.  "resets" is what makes the field the row's: "row" an      *)
(* effect when the row changes, "open" the button that opens it, "close"   *)
(* the handler that closes it (the next opening starts blank), "mount"     *)
(* nothing but a new mount, when the page hides the dialog to reload.      *)
(* "waits": the button is disabled while a save is under way.              *)
CityFormModal == [resets |-> "never", required |-> FALSE, creates |-> TRUE,
                  closes |-> TRUE, waits |-> TRUE]
LocationFormModal == [CityFormModal EXCEPT !.required = TRUE]
CategoryFormModal == CityFormModal
MembershipPlanFormModal == [CityFormModal EXCEPT !.resets = "mount"]
SubCategoryFormModal == [CityFormModal EXCEPT !.resets = "row"]
ChangePasswordModal == [resets |-> "close", required |-> TRUE, creates |-> FALSE,
                        closes |-> TRUE, waits |-> TRUE]
MediaDetailModal == [resets |-> "never", required |-> FALSE, creates |-> FALSE,
                     closes |-> FALSE, waits |-> TRUE]
RenameFolder == [resets |-> "open", required |-> TRUE, creates |-> FALSE,
                 closes |-> TRUE, waits |-> FALSE]

AllDialogs ==
  {CityFormModal, LocationFormModal, CategoryFormModal, MembershipPlanFormModal,
   SubCategoryFormModal, ChangePasswordModal, MediaDetailModal, RenameFolder}

(* What the field should start with: a password is never shown.            *)
Own(o) == IF o \in Entries /\ dialog.resets # "close" THEN tableRows[o] ELSE Blank

(* Mutant: the effect's dependency is missing, it never runs again. *)
TurnNoEffect(to) ==
  /\ opened' = to
  /\ due' = Own(to)
  /\ field' = IF dialog.resets = "close" /\ to = Closed THEN Blank ELSE field

(* The dialog goes from one opening to the next.  The effect depends on    *)
(* the row alone: without one, New and Closed are the same to it.          *)
Turn(to) ==
  /\ opened' = to
  /\ due' = Own(to)
  /\ field' =
       IF \/ dialog.resets = "row" /\ {opened, to} \cap Entries # {}
          \/ dialog.resets = "open" /\ to # Closed
          \/ dialog.resets = "close" /\ to = Closed
         THEN Own(to) ELSE field
-----------------------------------------------------------------------------
OpenDialog(o) ==
  /\ opened = Closed
  /\ o \in Entries \/ (o = New /\ dialog.creates)
  /\ Turn(o)
  /\ UNCHANGED <<dialog, stored, tableRows, saving>>

(* Escape, the backdrop or the cross: at any time, a save under way or not. *)
CloseDialog ==
  /\ opened # Closed
  /\ Turn(Closed)
  /\ UNCHANGED <<dialog, stored, tableRows, saving>>

TypeIn(v) ==
  /\ opened # Closed
  /\ field' = v
  /\ due' = Anything
  /\ UNCHANGED <<dialog, stored, tableRows, opened, saving>>

SaveRow(s) ==
  /\ opened # Closed
  /\ saving[s] = NoSave
  /\ dialog.waits => \A other \in Saves : saving[other] = NoSave
  /\ dialog.required => field # Blank
  /\ saving' = [saving EXCEPT ![s] = [at |-> "API", entry |-> opened, value |-> field]]
  /\ UNCHANGED <<dialog, stored, tableRows, opened, field, due>>

(* The API writes the row.  A new one is left to the lists.                *)
SaveServed(s) ==
  /\ saving[s].at = "API"
  /\ stored' = [e \in Entries |->
                  IF e = saving[s].entry THEN saving[s].value ELSE stored[e]]
  /\ saving' = [saving EXCEPT ![s].at = "back"]
  /\ UNCHANGED <<dialog, tableRows, opened, field, due>>

(* onSaved and onClose: the dialog closes, on whatever row it is open by   *)
(* now.  The plans page hides the dialog while it reloads and mounts it    *)
(* anew; the media page shows the saved asset in place and stays open.     *)
SaveArrives(s) ==
  /\ saving[s].at = "back"
  /\ saving' = [saving EXCEPT ![s] = NoSave]
  /\ CASE ~ dialog.closes ->
            /\ tableRows' = [tableRows EXCEPT ![saving[s].entry] = saving[s].value]
            /\ UNCHANGED <<opened, field, due>>
       [] dialog.resets = "mount" ->
            /\ opened' = Closed
            /\ field' = Blank
            /\ due' = Blank
            /\ tableRows' = stored
       [] OTHER -> Turn(Closed) /\ UNCHANGED tableRows
  /\ UNCHANGED <<dialog, stored>>

(* The error is shown in the dialog that is open, if any.                  *)
SaveFails(s) ==
  /\ saving[s] # NoSave
  /\ saving' = [saving EXCEPT ![s] = NoSave]
  /\ UNCHANGED <<dialog, stored, tableRows, opened, field, due>>

(* A load of the list arrives.  A dialog of the plans page that was open   *)
(* is mounted anew, with the fields of its plan.                           *)
ListReloads ==
  /\ tableRows # stored
  /\ tableRows' = stored
  /\ IF dialog.resets = "mount"
       THEN field' = Own(opened) /\ due' = Own(opened)
       ELSE UNCHANGED <<field, due>>
  /\ UNCHANGED <<dialog, stored, opened, saving>>
-----------------------------------------------------------------------------
DialogInit ==
  /\ dialog \in AllDialogs
  /\ stored \in [Entries -> Contents]
  /\ tableRows = stored
  /\ opened = Closed
  /\ field = Blank
  /\ due = Blank
  /\ saving = [s \in Saves |-> NoSave]

DialogNext ==
  \/ \E o \in Entries \cup {New} : OpenDialog(o)
  \/ \E v \in Contents : TypeIn(v)
  \/ CloseDialog \/ ListReloads
  \/ \E s \in Saves : SaveRow(s) \/ SaveServed(s) \/ SaveArrives(s) \/ SaveFails(s)

(* The type of the dialog's state.                                         *)
DialogTypeOK ==
  /\ dialog \in AllDialogs
  /\ {stored, tableRows} \subseteq [Entries -> Contents \cup {Blank}]
  /\ opened \in Entries \cup {New, Closed}
  /\ field \in Contents \cup {Blank}
  /\ due \in Contents \cup {Blank, Anything}
  /\ saving \in [Saves -> {NoSave} \cup
                   [at : {"API", "back"}, entry : Entries \cup {New},
                    value : Contents \cup {Blank}]]

(***************************************************************************)
(* The dialogs that reset their field, which are those of a sub-category,  *)
(* of a folder's name and of the password, never show, untouched, what was *)
(* typed for another row: however such a dialog was closed, reopened or    *)
(* overtaken by the answers to earlier saves, what a click on Save would   *)
(* send is what the list had for this row when the dialog was opened, and  *)
(* a new password always starts blank.  The others, of cities, locations,  *)
(* categories, plans and media, do show and send what was typed before.    *)
(***************************************************************************)
DialogEditsItsRow ==
  /\ dialog.resets \in {"row", "open", "close"}
  /\ opened \in Entries
  /\ due # Anything
  => field = due
=============================================================================
