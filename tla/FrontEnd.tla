------------------------------ MODULE FrontEnd ------------------------------
(***************************************************************************)
(* The front ends, one page at a time: a browser tab shows one page, and   *)
(* the state of the others does not exist.  The page is chosen once;       *)
(* RequireAdminAuth's way from one page to the next is not modelled.       *)
(***************************************************************************)
EXTENDS AdminSession, ListPage, TalentForm, Dialogs, GalleryPage, CustomerTab, Checkout

CONSTANT Pages   \* bound: the pages a behaviour may be about

VARIABLE page

frontEndVars == <<page, sessionVars, listVars, formVars, dialogVars, galleryVars,
                  customerVars, checkoutVars>>

(* The pages that are not shown have one state, whichever.  The form is    *)
(* shown with an administrator who edits its places or its tags.           *)
Init ==
  /\ page \in Pages
  /\ SessionInit /\ ListInit /\ FormInit /\ DialogInit /\ GalleryInit
  /\ CustomerInit /\ CheckoutInit
  /\ page # "session" => cookie = NoToken
  /\ page # "list" => list = TalentPage /\ \A r \in Rows : rows[r] = "on"
  /\ page # "places" => talent.location = None /\ talent.city = CHOOSE c \in Cities : TRUE
  /\ page # "tags" => talent.categories = {}
  /\ page # "dialog" => /\ dialog = RenameFolder
                        /\ stored = [e \in Entries |-> CHOOSE v \in Contents : TRUE]
  /\ page # "site" => authCalls["restore"] = Guest

(* What one page does; the others' state stays.                            *)
Session(step) ==
  /\ page = "session" /\ step
  /\ UNCHANGED <<page, listVars, formVars, dialogVars, galleryVars, customerVars,
                 checkoutVars>>
List(step) ==
  /\ page = "list" /\ step
  /\ UNCHANGED <<page, sessionVars, formVars, dialogVars, galleryVars, customerVars,
                 checkoutVars>>
Form(name, step) ==
  /\ page = name /\ step
  /\ UNCHANGED <<page, sessionVars, listVars, dialogVars, galleryVars, customerVars,
                 checkoutVars>>
Dialog(step) ==
  /\ page = "dialog" /\ step
  /\ UNCHANGED <<page, sessionVars, listVars, formVars, galleryVars, customerVars,
                 checkoutVars>>
Gallery(step) ==
  /\ page = "gallery" /\ step
  /\ UNCHANGED <<page, sessionVars, listVars, formVars, dialogVars, customerVars,
                 checkoutVars>>
Site(step) ==
  /\ page = "site" /\ step
  /\ UNCHANGED <<page, sessionVars, listVars, formVars, dialogVars, galleryVars,
                 checkoutVars>>
Payment(step) ==
  /\ page = "checkout" /\ step
  /\ UNCHANGED <<page, sessionVars, listVars, formVars, dialogVars, galleryVars,
                 customerVars>>

Next ==
  \/ Session(SessionNext)
  \/ List(ListNext)
  \/ Form("places", PlacesNext \/ SaveNext)
  \/ Form("tags", TagsNext \/ SaveNext)
  \/ Dialog(DialogNext)
  \/ Gallery(GalleryNext)
  \/ Site(CustomerNext)
  \/ Payment(CheckoutNext)

(***************************************************************************)
(* A request ends, with an answer or an error, and a timer fires: that     *)
(* much the browser does.  Nothing is assumed of the person at the screen. *)
(***************************************************************************)
Answers ==
  \/ Session(Answered(Context))
  \/ List(LoadAnswered)
  \/ Site(Restored \/ NotRestored)
  \/ Payment(CheckoutAnswered)

Spec == Init /\ [][Next]_frontEndVars /\ WF_frontEndVars(Answers)
-----------------------------------------------------------------------------
(* The type of every page's state.                                         *)
TypeOK ==
  /\ page \in Pages
  /\ SessionTypeOK
  /\ ListTypeOK
  /\ FormTypeOK
  /\ DialogTypeOK
  /\ GalleryTypeOK
  /\ CustomerTypeOK
  /\ CheckoutTypeOK

(***************************************************************************)
(* What a page shows for the API's data is the API's data: a list the rows *)
(* of the query its controls show, a dialog the row it was opened on, the  *)
(* gallery the images in their order.  Each within the limits its own      *)
(* definition names.                                                       *)
(***************************************************************************)
ShownIsStored ==
  /\ PageShowsItsQuery
  /\ DialogEditsItsRow
  /\ GalleryShowsStored

(***************************************************************************)
(* No page waits for ever: the session is restored or not, a list's        *)
(* skeleton goes, a click on Subscribe leads somewhere, polling ends, and  *)
(* the customer site knows who is there.                                   *)
(***************************************************************************)
Waiting ==
  \/ page = "session" /\ Restoring
  \/ page = "list" /\ loading
  \/ page = "site" /\ visitor.status = "loading"
  \/ page = "checkout" /\ (Subscribing \/ polling # "off")

WaitingEnds == Waiting ~> ~ Waiting
=============================================================================
