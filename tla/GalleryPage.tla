---------------------------- MODULE GalleryPage ----------------------------
(***************************************************************************)
(* The gallery on a talent's page of the administration front end:         *)
(* TalentGallery.tsx and the profile image of TalentForm.tsx, which show   *)
(* and change the same list and know it from what they have shown, not     *)
(* from the API: only a reordering answers with the whole list.  Every     *)
(* handler works with the list of the render it was created in.            *)
(*                                                                         *)
(* An image stands for its row of the gallery: one that is removed and     *)
(* added again is the same here.                                           *)
(***************************************************************************)
EXTENDS Naturals, Ordering, SequencesExt

CONSTANTS
  Images,     \* the assets there are to pick
  Handlers    \* bound: handlers that can be waiting at a time

ASSUME ImagesAssumption == IsFiniteSet(Images)

VARIABLES
  gallery,    \* the API's rows: display order and whether primary, by image
  media,      \* the page's talent.media: images with their badge, in order
  items,      \* TalentGallery's own copy, which it shows
  waiting,    \* what each handler awaits
  unordered,  \* history: an image was removed since the rows were last numbered
  doubtful    \* history: handlers overlapped or an answer was lost since
              \* the talent was loaded

galleryVars == <<gallery, media, items, waiting, unordered, doubtful>>

NotBusy == [at |-> "idle"]
Busy(h) == waiting[h] # NotBusy
Quiet == \A h \in Handlers : ~ Busy(h)

Ids(list) == [k \in DOMAIN list |-> list[k].id]
Badged(list, i) == [k \in DOMAIN list |-> [id |-> list[k].id, primary |-> list[k].id = i]]
Unbadged(list) == [k \in DOMAIN list |-> [id |-> list[k].id, primary |-> FALSE]]

(* The API's rows in their display order; rows that tie, in any.           *)
InOrder(s, rows) ==
  \A k \in 1 .. Len(s) - 1 : rows[s[k]].order <= rows[s[k + 1]].order
Listings(rows) ==
  {[k \in DOMAIN s |-> [id |-> s[k], primary |-> rows[s[k]].primary]] :
     s \in {t \in SetToSeqs(DOMAIN rows) : InOrder(t, rows)}}
-----------------------------------------------------------------------------
(* A handler is called in the render that shows these lists.  (Bound: a    *)
(* list in doubt is loaded again before anything else is done to it.)      *)
Begin(h, call, shown) ==
  /\ ~ Busy(h)
  /\ ~ doubtful
  /\ waiting' = [waiting EXCEPT ![h] =
                   [at |-> "API", call |-> call, media |-> media, items |-> shown]]
  /\ doubtful' = (doubtful \/ ~ Quiet)
  /\ UNCHANGED <<gallery, media, unordered>>

Pick(h, i) == Begin(h, <<"add", i>>, items) /\ UNCHANGED items
PickProfile(h, i) == Begin(h, <<"profile", i>>, items) /\ UNCHANGED items
Delete(h, i) ==
  /\ \E k \in DOMAIN items : items[k].id = i
  /\ Begin(h, <<"remove", i>>, items)
  /\ UNCHANGED items
MakePrimary(h, i) ==
  /\ \E k \in DOMAIN items : items[k] = [id |-> i, primary |-> FALSE]
  /\ Begin(h, <<"primary", i>>, items)
  /\ UNCHANGED items

(* handleDrop: the new order is shown before it is saved.                  *)
Drop(h, from, to) ==
  LET next == InsertAt(RemoveAt(items, from), to, items[from]) IN
  /\ from # to
  /\ Begin(h, <<"reorder", Ids(next)>>, next)
  /\ items' = next
-----------------------------------------------------------------------------
(* What the API makes of the rows.  TalentGallery (of the API) has the     *)
(* awaits of these; here each is one step.                                 *)
Added(i) ==
  [j \in DOMAIN gallery \cup {i} |->
     IF j = i THEN [order |-> Cardinality(DOMAIN gallery), primary |-> gallery = <<>>]
              ELSE gallery[j]]

Primary(i) == [j \in DOMAIN gallery |-> [gallery[j] EXCEPT !.primary = (j = i)]]

Removed(i) ==
  LET left == [j \in DOMAIN gallery \ {i} |-> gallery[j]] IN
  IF gallery[i].primary /\ left # <<>>
    THEN {[left EXCEPT ![first].primary = TRUE] : first \in
            {j \in DOMAIN left : \A k \in DOMAIN left : left[j].order <= left[k].order}}
    ELSE {left}

Reordered(ids) ==
  [j \in DOMAIN gallery |->
     [gallery[j] EXCEPT !.order = (CHOOSE k \in DOMAIN ids : ids[k] = j) - 1]]

AnswerIs(h, answer) ==
  waiting' = [waiting EXCEPT ![h].at = "back", ![h].call = answer]

(* addMedia; handleProfileImagePicked goes on to the second await if the   *)
(* new image is not primary already.                                       *)
AddServed(h) ==
  LET i == waiting[h].call[2]
      makesPrimary == waiting[h].call[1] = "profile" /\ gallery # <<>>
  IN
  /\ waiting[h].at = "API"
  /\ waiting[h].call[1] \in {"add", "profile"}
  /\ i \notin DOMAIN gallery
  /\ gallery' = Added(i)
  /\ IF makesPrimary
       THEN waiting' = [waiting EXCEPT ![h].call = <<"then", i>>]
       ELSE AnswerIs(h, Append(waiting[h].call, gallery = <<>>))
  /\ UNCHANGED <<media, items, unordered, doubtful>>

PrimaryServed(h) ==
  LET i == waiting[h].call[2] IN
  /\ waiting[h].at = "API"
  /\ waiting[h].call[1] \in {"primary", "then"}
  /\ i \in DOMAIN gallery
  /\ gallery' = Primary(i)
  /\ waiting' = [waiting EXCEPT ![h].at = "back"]
  /\ UNCHANGED <<media, items, unordered, doubtful>>

RemoveServed(h) ==
  LET i == waiting[h].call[2] IN
  /\ waiting[h].at = "API"
  /\ waiting[h].call[1] = "remove"
  /\ i \in DOMAIN gallery
  /\ gallery' \in Removed(i)
  /\ waiting' = [waiting EXCEPT ![h].at = "back"]
  /\ unordered' = TRUE
  /\ UNCHANGED <<media, items, doubtful>>

(* reorderMedia wants exactly the gallery's images, and returns them.      *)
ReorderServed(h) ==
  LET ids == waiting[h].call[2] IN
  /\ waiting[h].at = "API"
  /\ waiting[h].call[1] = "reorder"
  /\ Len(ids) = Cardinality(DOMAIN gallery) /\ ToSet(ids) = DOMAIN gallery
  /\ gallery' = Reordered(ids)
  /\ \E list \in Listings(gallery') : AnswerIs(h, <<"reorder", list>>)
  /\ unordered' = FALSE
  /\ UNCHANGED <<media, items, doubtful>>
-----------------------------------------------------------------------------
(* setItems and onChange, whose effect sets the items to the same list.    *)
Shows(h, next) ==
  /\ waiting[h].at = "back"
  /\ items' = next
  /\ media' = next
  /\ waiting' = [waiting EXCEPT ![h] = NotBusy]
  /\ UNCHANGED <<gallery, unordered, doubtful>>

AddArrives(h) ==
  LET call == waiting[h].call IN
  /\ Busy(h) /\ call[1] = "add"
  /\ Shows(h, Append(IF call[3] THEN Unbadged(waiting[h].items) ELSE waiting[h].items,
                     [id |-> call[2], primary |-> call[3]]))

(* The form starts from the page's list.                                   *)
ProfileArrives(h) ==
  LET call == waiting[h].call IN
  /\ Busy(h) /\ call[1] \in {"profile", "then"}
  /\ Shows(h, Append(IF call[1] = "then" THEN Unbadged(waiting[h].media)
                                         ELSE waiting[h].media,
                     [id |-> call[2], primary |-> TRUE]))

RemoveArrives(h) ==
  /\ Busy(h) /\ waiting[h].call[1] = "remove"
  /\ LET shown == waiting[h].items IN
     Shows(h, KeptAt(shown, {k \in DOMAIN shown : shown[k].id # waiting[h].call[2]}))

PrimaryArrives(h) ==
  /\ Busy(h) /\ waiting[h].call[1] = "primary"
  /\ Shows(h, Badged(waiting[h].items, waiting[h].call[2]))

ReorderArrives(h) ==
  /\ Busy(h) /\ waiting[h].call[1] = "reorder"
  /\ Shows(h, waiting[h].call[2])

(* Mutant: a reordering that failed stays on the screen. *)
HandlerFailsAsShown(h) ==
  /\ Busy(h)
  /\ doubtful' = (doubtful \/ waiting[h].at = "back" \/ waiting[h].call[1] = "then")
  /\ waiting' = [waiting EXCEPT ![h] = NotBusy]
  /\ UNCHANGED <<gallery, media, items, unordered>>

(* The call is refused or lost, or its answer is, or the profile image was *)
(* added and not made primary: an error is shown, and a new order undone.  *)
HandlerFails(h) ==
  /\ Busy(h)
  /\ items' = IF waiting[h].call[1] = "reorder" THEN waiting[h].media ELSE items
  /\ doubtful' = (doubtful \/ waiting[h].at = "back" \/ waiting[h].call[1] = "then")
  /\ waiting' = [waiting EXCEPT ![h] = NotBusy]
  /\ UNCHANGED <<gallery, media, unordered>>

(* The talent is loaded, or the form was saved and answers with it.        *)
TalentArrives ==
  /\ Quiet
  /\ \E list \in Listings(gallery) : media' = list /\ items' = list
  /\ doubtful' = FALSE
  /\ UNCHANGED <<gallery, waiting, unordered>>
-----------------------------------------------------------------------------
GalleryInit ==
  /\ gallery = <<>>
  /\ media = <<>>
  /\ items = <<>>
  /\ waiting = [h \in Handlers |-> NotBusy]
  /\ unordered = FALSE
  /\ doubtful = FALSE

GalleryAnswered(h) ==
  \/ AddServed(h) \/ PrimaryServed(h) \/ RemoveServed(h) \/ ReorderServed(h)
  \/ AddArrives(h) \/ ProfileArrives(h) \/ RemoveArrives(h) \/ PrimaryArrives(h)
  \/ ReorderArrives(h) \/ HandlerFails(h)

GalleryNext ==
  \/ TalentArrives
  \/ \E h \in Handlers :
       \/ GalleryAnswered(h)
       \/ \E i \in Images : Pick(h, i) \/ PickProfile(h, i) \/ Delete(h, i) \/ MakePrimary(h, i)
       \/ \E from, to \in DOMAIN items : Drop(h, from, to)

(* The type of the page's state.                                           *)
GalleryTypeOK ==
  /\ DOMAIN gallery \subseteq Images
  /\ \A i \in DOMAIN gallery :
       gallery[i].order \in 0 .. Cardinality(Images) /\ gallery[i].primary \in BOOLEAN
  /\ ToSet(items) \cup ToSet(media) \subseteq [id : Images, primary : BOOLEAN]
  /\ DOMAIN waiting = Handlers
  /\ {unordered, doubtful} \subseteq BOOLEAN

(***************************************************************************)
(* However many images were added, deleted, dragged and made primary since *)
(* the talent was loaded, one after the other and some refused, the page   *)
(* shows the images the API has, the badge on none but the primary one,    *)
(* and the order a reload will show (unless an image was deleted since the *)
(* last reordering: then one added last may be stored in between).         *)
(***************************************************************************)
GalleryShowsStored ==
  Quiet /\ ~ doubtful =>
    /\ items = media
    /\ Len(items) = Cardinality(DOMAIN gallery)
    /\ ToSet(Ids(items)) = DOMAIN gallery
    /\ \A k \in DOMAIN items : items[k].primary => gallery[items[k].id].primary
    /\ ~ unordered => InOrder(Ids(items), gallery)
=============================================================================
