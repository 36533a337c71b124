# Verification of MAYA X 2.0

TLA+ models of the API in `src/apps/api/src` (NestJS, PostgreSQL through Prisma,
Razorpay, Cloudinary) and of the two front ends in `src/apps/admin` and
`src/apps/web` (Next.js), the TLC configurations that check them and the proofs
TLAPS checks. Paths below are relative to `src/apps/api/src` unless they start
with `src/`, `admin/` or `web/` (the latter two under `src/apps`).

## 1. How the system runs, and how the models read it

The API is one or several Node processes in front of one PostgreSQL database.
A request handler is a sequence of `await`s. Between two of them any other
request may run, and the process may stop. The models follow from that:

* one action per `await` that reads or writes shared state, with the guards and
  early returns that follow it up to the next `await`. Where the write fails
  anyway when what the handler read is gone by then, the two are one action (the
  comment says so);
* a Prisma call is atomic, and so is a committed `$transaction`. At PostgreSQL's
  default READ COMMITTED a transaction is all or nothing, but it is **not**
  serialised against what the handler read before it began, nor against what its
  own first statement read: such a transaction is two steps, what the first
  statement found (and locked), and the commit;
* what a handler has read travels in its request record (`memberReq`,
  `orderReq`, `hookReq`, `submitReq`, `adminReq`; `req[h]` in the later models)
  and is used later as it is, however old;
* a request may end at any point (`...Abort`, `Abort(h)`): a crash, a refused
  database call, a gateway error. What was committed stays;
* a request refused with 4xx before it changes anything is no action. A guard
  stands for the refusal.

The models of payments and bookings give each kind of request its handlers. The
later ones have *slots* that run a request of any kind: `Begin` starts one,
`Proceed` keeps what it has read for its next step, `Finish` ends it. Their
`Workloads` list which operations run together in one behaviour. An id that no
row, request or history names any more may be drawn again; the database would
draw a new one, which nobody could tell from it.

Some claims of the code survive every race and some do not. History variables
keep the two apart instead of restricting the model: `overlapped` becomes true
when two requests are in flight at once, `faulted` (`faults`) when one is cut
short or its reply is lost. A property without them holds of every behaviour; one
under `~ overlapped` says what the handlers do in sequence, with everything else
(crashes, expiry, the order of calls) still happening. Other history variables
name what a property is about: `wrong` (wrong passwords ever tried for a user),
`closed` (tokens logged out), `parent` and `session` of a token, `saved` (the tags
last saved).

A front end is one browser tab on one page. Everything it awaits may answer
late, out of order or with an error, and a load that is superseded goes on unless the
code cancels it. A handler acts with the state of the
render it was created in. A response is split from the API's step when the
browser's copy (cookie, token, list) depends on its arrival.

## 2. Inventory

| Component | State | Operations | What is hard | What makes it correct |
|---|---|---|---|---|
| Membership (`membership/membership.service.ts`) | `membership_plans`, `subscriptions` | subscribe; plan create, update, remove | plan changes between the awaits of subscribe; several pending subscriptions per user | one active subscription per user; the price agreed is kept |
| Payments (`payments/payments.service.ts`) | `payments`; orders at Razorpay | createOrder, handleWebhook (markCaptured, markFailed) | webhooks lost, duplicated, reordered, concurrent; crash between Razorpay and the row; stale read before the transaction | nobody is a member unpaid; nobody who paid is left out; amounts agree |
| Booking (`booking/booking.service.ts`) | `booking_requests`, `booking_status_history` | create, updateStatus | two administrators race on a stale status | the state machine; an audit trail that explains the status |
| Auth (`auth/auth.service.ts`) | credentials with lockout counter, `refresh_tokens`, the browser's cookie | register, login, refresh, logout, changePassword | lost updates of the counter, concurrent refresh of one token, stop between revoke and issue | lockout after five failures; a token is exchanged no more often than there were requests to exchange it; a session ends when it must, and not before |
| Guards (`auth/guards`, the controllers) | none | which role may call which handler | one role's token at another's route | calls past the guards are those of the role |
| Accounts (`users`, `admins`) | `users`, `admins` | create, update, remove | soft deletion under a partial unique index, beside logins and sessions | one live account per address and kind; its password is the one last set |
| Media (`media/media.service.ts`) | `media_assets`, `media_usages`, objects at Cloudinary; `media_folders` | upload, replace, remove, restore, permanentDelete, bulk operations; folders, filing | two stores without a common transaction; uses counted before trashing; a lost reply | no row without its image; no orphaned upload; nothing in use is trashed; removal of a folder unfiles nothing |
| Galleries (`talent/talent.service.ts`) | `talent_media`, `media_usages` | addMedia, removeMedia, setPrimaryMedia, reorderMedia | counts read before inserts; two transactions on one gallery | usages match galleries; a primary image stays |
| Talents (`talent/talent.service.ts`) | `talents`, tag maps | create, update, remove, bulkAction | the cap is counted before the write; an update of four statements | at most three featured; tags as saved; no dangling reference |
| Hero (`hero/hero.service.ts`) | `hero_settings`, `media_usages` | updateSettings, getSettings | assets checked before the transaction | usages match the settings; all of them are shown |
| Lookups (`cities`, `locations`, `talent-categories`, `talent-subcategories`) | one table each | create, update, remove, bulkAction | a delete that races with a write of the reference | references stay valid |
| Administration front end (`admin`) | access token, lists, forms, dialogs | silent refresh, lists with filters and bulk actions, editors, galleries | late and reordered answers; expired tokens; state a dialog keeps while it is closed | the page shows what the API has; a form never sends another row's data |
| Customer front end (`web`) | session, booking forms, checkout | restore, login, book, subscribe, poll | token expires under the form; a webhook that is awaited | who is shown as booking is who books; no page waits for ever |
| Configuration, CORS, utilities | none | pure functions | string cases | origins decided as documented |
| Dashboard, health, database, seed | none of their own | reads | - | - |

Interaction. Membership and Payments share the tables `subscriptions` and
`payments`; Razorpay calls back into Payments, and the customer's page polls for
what that changes. Booking reads the talent roster. Galleries and Hero write the
`media_usages` rows that Media counts before it trashes an image; a permanent
deletion takes usages along and is refused by the key of `talent_media` while a
gallery still has the image. Talents refer to the lookups under foreign keys
that restrict, cascade or set null, and assets refer to folders. Auth and Accounts
share the account tables. The front ends meet the API through the guards of
`Access` and one refresh cookie that both of them use.

`PROJECT.json` lists every component with its status and what is left out of it,
and under `hazards` each place where this code is hard to test, with the
properties aimed at it.

## 3. Modules

| Module | Models |
|---|---|
| `MembershipStore` | the tables `membership_plans`, `subscriptions`, `payments`, their row types, the partial unique index `uq_subscriptions_one_active_per_user` and the conversion to subunits |
| `MembershipService` | subscribe in three awaits (`SubscribeRead`, `SubscribeCheck`, `SubscribeCreate`); `PlanCreate`; update and remove in two (`PlanFind`, then `PlanUpdate` or `PlanRemove`) |
| `PaymentsService` | createOrder in four awaits (`OrderRead`, `OrderLookup`, `OrderGateway`, `OrderPersist`); handleWebhook in two (`HookRead` or `HookIgnore`, then `MarkCaptured`, `MarkCapturedConflict` or `MarkFailed`); Razorpay and the checkout as environment |
| `MembershipPayments` | composes the two over the shared tables; fairness; the properties; the inductive invariant; the refinement mapping |
| `Entitlement` | abstract specification: what is paid for and what is held, per user |
| `Booking` | create (`CreateCheck`, `CreateCommit`), updateStatus (`UpdateRead`, `UpdateCommit`), changes of the roster; properties and inductive invariant |
| `BookingLifecycle` | abstract specification: an audit trail that follows the transition table, a status being read and changed in one step |
| `AuthStore` | `users` with their credentials, `admin_users`, `refresh_tokens`, the browsers' cookies, requests in flight |
| `AuthService` | register (`RegisterFind`, `RegisterCommit`), login (`LoginFind...`, `LoginFail`, `LoginSucceed`), `IssueTokenPair`, `Respond`, refresh (`RefreshFind`, `RefreshRevoke`), `Logout`, changePassword (`ChangePasswordVerify`, `ChangePasswordUpdate`), time (`LockExpires`, `TokenExpires`) |
| `AccountsService` | create, update and remove of users and administrators |
| `AuthSessions` | composes the two; their properties |
| `Lockout` | abstract specification of the login counter: read and written in one step |
| `MediaStore` | `media_assets`, `media_usages`, `talent_media`, `hero_settings`, the objects at Cloudinary |
| `MediaService` | upload (`UploadFind`, `UploadRemote`, `UploadCreate` or `UploadReplyLost`, `DestroyObject`), replace (`ReplaceFind`, `ReplaceRemote`, `ReplaceUpdate`), trashing of one or many (`RemoveFind` or `BulkDeleteFind`, `CountUsage`, `TrashUpdate`), `Restore...`, `PermanentDelete...` |
| `TalentGallery` | addMedia, removeMedia, setPrimaryMedia, reorderMedia, each transaction in its steps |
| `HeroService` | updateSettings (`HeroCheck`, `HeroDelete`, `HeroCommit`), what getSettings shows |
| `MediaLibrary` | composes the three over the shared tables and Cloudinary; their properties |
| `CatalogueStore` | cities, locations, categories, subcategories, talents with their tag maps, folders and where each asset is filed |
| `Lookups` | create, move and removal (of one or several rows) in the four lookup services, with the foreign keys |
| `TalentRoster` | talent create (`TalentCreateCheck`, `TalentCreateCommit`), update (`TalentUpdateCheck`, `TalentUpdateClear`, `TalentUpdateClearSub`, `TalentUpdateCommit`), removal |
| `MediaFolders` | create, move, remove of a folder, filing of assets |
| `Catalogue` | composes the three; their properties |
| `Access` | the guard and roles of every handler of every controller, and what the guards make of a token |
| `AdminSession` | `admin/lib/auth/AuthContext.tsx`, the token store and the silent refresh of `admin/lib/api/authFetch.ts` |
| `ListPage` | every list of the administration front end, as one machine with a record of what tells the lists apart |
| `TalentForm` | the dependent fields of `admin/components/talent/TalentForm.tsx` and their late lists |
| `Dialogs` | the eight dialogs that save one row, by what resets their fields |
| `GalleryPage` | `admin/components/talent/TalentGallery.tsx` and the form's profile image, which show one list |
| `CustomerTab` | session, both booking forms and the bookings list of `web` |
| `Checkout` | `web`'s subscribe button with the Razorpay script, and the account page's polling |
| `Ordering` | sorting by number and filtering, for `ListPage` and `GalleryPage` |
| `FrontEnd` | composes the pages, one per behaviour; fairness; properties about all of them |
| `MC...` | initial states, workloads, prices and symmetry sets for TLC |
| `..._proofs`, `MembershipPayments_refinement`, `AuthSessions_sequential` | theorems and proofs |

Definitions that start with "Mutant:" are faulty variants of the definition that
follows them. They appear in no specification; a property is worth its run only
if substituting one of them makes TLC report it.

### Membership and payments

A table is a function from the ids it may ever use to rows, and `NoRow` marks an
id not inserted yet. A payments row and a Razorpay order share the order id
(`razorpay_order_id` is unique). `events` is the set of webhooks Razorpay has
not seen acknowledged: an event stays in it while it is delivered, so it may be
delivered twice at once, in any order, any number of times; `Respond` decides
whether a 2xx response arrives. Only Razorpay's own events pass the signature
check, so `HookRead` and `HookIgnore` take their event from that set. A customer
can pay an order only once its payments row exists, since the order id reaches
the browser in the response after that insert.

`markCaptured` reads the payment, then runs a transaction over both tables.
`MarkCaptured` is its commit. `MarkCapturedConflict` is the case in which the
unique index refuses the subscription's update: everything rolls back and
Razorpay will retry. `markFailed` writes without looking again.

`Entitlement` says what a customer may count on. `paid[u]` grows when an order
is paid; `member[u]` is granted once, from what is paid, and never changes
again. The mapping reads `paid` off Razorpay's orders and `member` off the
subscriptions table. No code writes the statuses `expired`, `cancelled`,
`authorized` or `refunded`, so a membership never ends in the present program.

### Booking

`history` holds the rows of `booking_status_history` in commit order; the row
lock the update takes gives both tables the same order. `UpdateCommit` writes
the status of the request and logs as `previousStatus` what the request *read*.
In the abstract `BookingLifecycle` the read and the write are one step; the
refinement is the identity on the trail.

### Accounts and sessions

A user's row and its credentials are one record; a password stands for its hash,
a token id for a signed token and the stored hash of it. Login reads the counter,
verifies the password (slow, outside any transaction) and writes the counter it
has computed from what it read: two attempts that overlap count once, and a
success that read before a fifth failure clears the lock it set. Refresh reads the
token, revokes it and issues the next pair in separate statements, and the cookie
is the browser's only when the response arrives (`Respond`). Refreshes that race may
all have read a token before one of them revoked it, and each is given a valid token
of its own: rotation does not keep one token one. `RotationIsBounded` is what it
does keep (in sequence a token is exchanged once, in a race at most as often as
there were requests in flight, and never by one that comes later), and
`CookieStaysValid` that no tab's refresh takes the session from another. A reply that
is lost does (`faulted`). `session` links the
tokens rotated from one login, `parent` each to the one it replaced. A cookie is
shared by the tabs of a browser, so a browser may send several requests at once.

`Lockout` counts an attempt in one step. `LockoutFollowed` states that a step of
`AuthSessions` is one of `Lockout`'s, or changes neither counter nor lock, as long as
no two requests have overlapped; `LockNeedsFailures` is what is left when they do.

Observed, with nothing in the repository that says otherwise: removing an account
leaves its refresh tokens usable; a user who registers an administrator's address
shadows that administrator's login, because users are looked up first.

### Media, galleries, hero

`remote[o]` is what Cloudinary holds and which operation stored it. `DestroyObject`
deletes one, best effort, at the end of what asked for it. A request that was told
its insert failed although it was committed (`UploadReplyLost`) deletes the image
of a row that exists: the one exception of `NoBrokenImage`. `replace` may leave
objects that nothing refers to (when the new bytes are another asset's and the row
is refused, and when two replacements of one asset race), so
`UploadsNeverOrphaned` speaks of what upload stored. A gallery row and its usage
are written and removed together, and a permanent deletion, which would cascade to
the usages, is refused by the RESTRICT key of `talent_media` while a gallery has the
image. That is why `UsageMatchesGallery` survives every race, while *using an image
that is being trashed* (`UsedIsLive`) does not.

`reorderMedia` compares its body with the gallery as sets of ids, so a body may name
a row twice: the last place wins, and `Orders` has these bodies too. Two saves of the
hero settings each delete the usages they found; the second waits for the first and
finds them gone, and a usage inserted meanwhile collides with its own insert
(`FinishDeleting`, `HeroCommit`).

### Catalogue

A request's patch holds the fields its body has. `TalentUpdateCommit` re-inserts
the tags that the first statement of the transaction cleared; tags that another
request inserted meanwhile stay or collide with the primary key. What a delete
takes along or is refused by is in the foreign keys: a talent's city restricts, its
location is set to null, a category takes its subcategories and the maps along. The
services' messages "still referenced" about locations and categories are therefore
never sent. Moving a folder checks that the parent exists and is not the folder
itself, so a longer cycle can be made; nothing in the repository excludes one.

A talent's preferred cities are ids in an array, without a foreign key
(`prisma/schema.prisma:294`): `preferredCities` keeps those of removed cities, as the
column does, and `talent/talent.response.ts:206-210` leaves out what it cannot resolve.
`ReferencesExist` speaks of every other reference.

### Front ends

`ListPage` knows a list by the record that tells it apart (`TalentPage`,
`BookingsPage`, ...): how a filter brings the page number back to 1, where the pager
stands, what a failed load shows. Nothing cancels a load, so an older answer can
overwrite a newer one; `doubt` records when that happened and `PageShowsItsQuery`
says what holds otherwise: among other things, that no filter or page leads to an
empty table without a pager. `Dialogs` has both the dialogs that reset their fields
and those that do not. `useState(row?.name ?? "")` is evaluated once, so for the
latter (`CityFormModal`, `LocationFormModal`, `CategoryFormModal`,
`MediaDetailModal`, and `MembershipPlanFormModal` until its page is reloaded) editing a second
row shows, and Save sends, what was left of the first: `DialogEditsItsRow` is
claimed of the former only. While a save is under way the dialogs disable their
button, except renaming a folder (`admin/components/media/MediaFolderSidebar.tsx:52-65`),
of which several saves may be in flight (`Saves`).

`TalentForm` does hold and send values at odds with their city or category.
`FormConsistent` says in which ways alone; `strays` collects the values concerned:

* a location is chosen while the list offered is the old city's or still awaited, or
  is the talent's own, which always is on offer;
* the form sends no `location` when the field is empty
  (`admin/components/talent/TalentForm.tsx:585`), and a PATCH without it keeps the old
  one, which may be another city's;
* a category is removed before the sub-categories have arrived, or has one that is
  not active: `removeCategory` (`TalentForm.tsx:361-372`) only drops those it knows.

`AdminSession` and `CustomerTab` send every call past the guards of `Access`. Two
calls that meet an expired token refresh with the same cookie at once and one of
them loses (`disturbed`). A logout whose answer is lost signs the tab out all the same
(`admin/lib/auth/AuthContext.tsx:80-86`) and may leave a cookie that opens a session:
`SignedOutTabIsClean` is claimed of tabs that are not `disturbed`. The customer site refreshes only when it opens; its forms
send a member's booking with an expired token, which the API refuses or, on routes
with `OptionalJwtAuthGuard`, takes as a guest's without the contact a guest must
give: `BookedAsShown` is that nobody's booking is made as somebody else's on that
way. The account page loads the bookings again for every token and cancels nothing
(`web/components/booking/BookingHistoryList.tsx:24-32`): with two loads in flight, for
an older and a newer account, it shows whichever answer came last. `lapped` records
that, and `ListNamesItsOwner` says that otherwise the account named is the one whose
bookings are listed. Observed besides: a create whose answer is lost is booked twice when it is
tried again; the quick form without a preferred talent sends no `talentId`, which
the API refuses; an administrator's session is refused on the customer site though
the cookie is shared; a Razorpay script that failed to load stays cached as failed.

## 4. Runs

| Run | Instance | Result |
|---|---|---|
| `membership_races` | 2 users, 2 subscriptions, 2 orders, 1 plan and price, 2 createOrder requests, 2 webhook deliveries | holds: `TypeOK`, `OneActivePerUser`, `CapturedIsActive`, `AcknowledgedIsActive`, `EntitlementSafe` (671,000 states) |
| `membership_prices` | 1 user, 2 prices (one with paise), 2 requests of the membership service, sequential createOrder | holds: `ActiveIsPaidInFull`, `AmountsAgree`, `OneOrderInFlight` (778,000) |
| `membership_liveness` | 1 user, 2 subscriptions, 2 orders, one request of each kind | holds under `FairSpec`: `EntitlementKept` (76,000) |
| `membership_two_orders` | as `membership_races`, one user and subscription | **violated**: `OneOrderInFlight` |
| `membership_webhook_refused` | as `membership_liveness` | **violated** under `FairSpec`: `CaptureAcknowledged` |
| `booking_races` | 2 bookings, 2 administrators, at most 4 rows before a new request | holds: `TypeOK`, `HistoryEndsInStatus`, `RowsAreLegal`, `PreviousStatusWasHeld` (98,000) |
| `booking_one_admin` | 2 bookings, 2 submissions, 2 talents, 1 administrator, every lifecycle to its end | holds: `LifecycleFollowed` (5,100) |
| `booking_two_admins` | 1 booking, 2 administrators | **violated**: `LifecycleFollowed` |
| `auth_races` | 2 users, 2 administrators, 2 addresses, 2 passwords, 3 tokens, 2 browsers, 2 requests at once, threshold 5 | holds: `TypeOK`, `LockNeedsFailures`, `LockoutFollowed`, `RotationIsBounded`, `CookieStaysValid`, `LogoutEndsSession` (1,281,000) |
| `media_library_races` | 2 assets, 3 objects, 2 contents, 2 talents, 2 gallery rows, 2 requests at once | holds: `TypeOK`, `NoBrokenImage`, `UsageMatchesGallery`, `UploadsNeverOrphaned`, `UsedIsLive`, `HeroProtected`, `PrimaryKept` (856,000) |
| `catalogue_races` | 2 cities, 1 location, 1 category, 2 subcategories, 3 talents, 2 folders, 2 assets, 2 requests at once, cap 1 | holds: `TypeOK`, `ReferencesExist`, `FeaturedCap`, `TagsAsSaved`, `RemovalUnfilesNothing` (383,000) |
| `front_end_tab` | one of 8 pages; 2 fetches, 5 tokens, 2 rows at 1 per page, 2 loads in flight, 5 polls, 2 saves in flight, 3 images, 2 members, 1 administrator | holds: `TypeOK`, `CallsOutliveTheToken`, `SignedOutTabIsClean`, `ShownIsStored`, `FormConsistent`, `BookedAsShown`, `ListNamesItsOwner`, `WaitingEnds` (1,204,000) |

Bounds. *Memberships*: two users are needed for a membership to be confused with
another user's, two subscriptions of one user for the unique index to bite, two
orders for a failed attempt followed by a second one, two handlers of a kind for a
race. The instances reach all of these at once; the theorems below show that
larger ones add nothing for the safety properties. Ids are never reused, so an
instance comes to rest once its plans are all removed (`CHECK_DEADLOCK FALSE`
in the membership runs). *Bookings*: `MaxRows` bounds a trail that racing
administrators could otherwise extend for ever; the longest lifecycle has five
rows, fewer than the six of `booking_one_admin`.

*Accounts, media, catalogue*: `Slots` bounds the requests in flight, and two suffice
for a read of one to be overtaken by a write of the other. `Workloads` (the MC
modules list them) puts together the operations that share rows: {login, guess},
{login, refresh, logout, expiry}, {register, users} and {admins}; {upload, replace,
trash, restore, purge}, galleries with trash and purge, galleries with removed
talents, hero with trash, restore and purge; talents with the cap, with their
taxonomy, with their places, with the cities they prefer, and folders. What is left out is pairs that touch no
common row. `MaxWrong` is 6, one above the threshold of 5, so that a lock can
expire and be set again. Three tokens make a login and two rotations, three objects
an image, its replacement and a racing one. A cap of 1 with 3 talents lets two
racing requests exceed it and a third find it exceeded. `MCInit` starts logins with
a registered user and galleries with uploaded images, the only starts from which
they go anywhere. These instances too come to rest when their ids are used up.

*Front end*: `Pages` picks one page per behaviour, and `Init` fixes what that page
does not look at. `MaxTokens` 5 leaves room for a session, an expiry that both
fetches meet, and a new login with a refresh of its own. Two rows at one per page
make a second page, `MaxLoads` 2 an answer that is overtaken. What would make everything possible afterwards is bounded by the
page's history: a list in doubt is left alone until it is entered again, a gallery
in doubt is loaded first, one booking request is awaited at a time. Polling is at
its real bound, `MAX_POLLS` = 5.

Symmetry is used for safety only.

Fairness. *Payments*: Razorpay retries a delivery until it gets a 2xx (comment at
`payments/payments.service.ts:196-198`), hence strong fairness of `Deliver`. A
delivery in progress ends somehow (`Finish`, weak fairness, aborts included),
and not every one of infinitely many possible deliveries dies before its commit
or loses its response: strong fairness of `Accept`, which is the step that
commits *and* is acknowledged. Customers and administrators owe nothing:
nobody has to pay, and nobody has to update a booking. *Front end*: a request that a
browser has sent ends, with an answer or an error, and a timer fires: weak fairness
of `Answers`. Of the person at the screen nothing is assumed.

What the violations show:

* `membership_two_orders`: two createOrder requests of one subscription both
  look before either inserts. The comment at `payments.service.ts:79-84` claims
  one order in flight; it is true of sequential requests (theorem
  `SequentialOrders`) and nothing enforces it otherwise. The customer may then
  pay twice, which `EntitlementSafe` shows to grant one membership only.
* `membership_webhook_refused`: a user pays for two subscriptions. The capture
  of the second is refused by the index at every retry, against "Always
  resolves" at `payments.service.ts:156`.
* `booking_two_admins`: two updates that read `submitted` both commit, against
  `booking.service.ts:33-37`. In the trace TLC prints both move the booking to
  `under_review`; in another, as short, one declines it and the other moves the
  declined booking to `under_review`. `RowsAreLegal` holds all the same: each row of the
  trail looks legal, and only the gap between two rows shows what happened.

## 5. Proofs

All theorems hold for every value of the constants. Assumptions, each named in the
module that declares the constant: prices are rupees with paise in 0..99
(`PricesAssumption`, from `DECIMAL(12,2)` and non-negative); `MaxRows`, the featured
cap and the polls are naturals and the lockout threshold is at least 1
(`MaxRowsAssumption`, `CapAssumption`, `PollsAssumption`, `ThresholdAssumption`); an
absent value is none of the values there are (`NoneAssumption` in three modules,
`HeroAssumption`); slots and gallery rows are finitely many (`SlotsAssumption` in
the stores that have slots, `MediaIdsAssumption`); a workload names fields that exist (`FieldsAssumption`);
an account is neither a guest nor a marker, and somebody is a member
(`AccountsAssumption`, `MembersAssumption`); every location has its city and every
subcategory its category (`TreeAssumption`); a list's rows are numbered and finitely
many, what a filter finds are rows, a page holds at least one, the bulk actions are
the four the tables offer, and one load at least may be in flight (`RowsAssumption`,
`FoundAssumption`, `PageAssumption`, `ActionsAssumption`, `LoadsAssumption`); a
dialog's rows are told from a closed dialog, and a talent's images are finitely many
(`EntriesAssumption`, `ImagesAssumption`); the session context is not one of a page's
data calls, and two token pairs can have been issued (`FetchesAssumption`,
`TokensAssumption`). No theorem assumes anything about how many requests run at
once, except the two whose name starts with "Sequential" and
`OneRequestAtATimeIsLockout`. What the code keeps up only while its requests follow
each other is stated as such in the property (`~ overlapped => ...`, over a history
variable that every request sets when it begins beside another) and proved without
assuming it: the invariant holds in the states with overlap too, where it claims
less.

* `MembershipPayments_proofs!Invariance`: `Spec => []IInv`. Neither the types nor the
  safety properties are inductive alone. A handler that has read a row writes
  it later, and without knowing that the row still exists even `TypeOK` breaks
  (`PlanRemove` would turn an absent plan into a malformed row). `IInv` adds
  what requests, orders and webhooks remember: a request's plan exists and its
  price is still the subscription's (`MemberRequestsKnowTheirPlan`,
  `OrderRequestsKnowTheirSub`), references hold (`ReferencesHold`), a capture
  event is about an order that is paid and has its row (`WebhooksAreTruthful`,
  `PaidHasPayment`). Frame lemmas carry the parts a step does not touch; there
  is one lemma per action, and under it one step per conjunct.
  `TypeCorrect`, `OneMembership`, `NoUnpaidMembership`, `CaptureActivates`,
  `NoCaptureLost`, `OnePriceEverywhere` follow from it.
* `SequentialOrders`: assuming that any two createOrder slots are the same,
  `OneOrderInFlight` holds. The extra invariant says that between lookup and
  insert no order of the subscription is in flight.
* `MembershipPayments_refinement!ImplementsEntitlement`: `Spec => EntitlementSafe`.
  The customer's payment maps to `Pay`; the first `markCaptured` of a
  subscription to `Grant`; every other step to a stutter.
* `Booking_proofs!Invariance`, `TypeCorrect`, `TrailMatchesStatus`,
  `TrailRowsLegal`, `TrailIsWitnessed`: the same for bookings, where
  `RequestsWereLegal` says what a request remembers.
* `Booking_proofs!SequentialLifecycle`: with one updateStatus request at a time
  `Booking` implements `BookingLifecycle`, because what the request has read is
  still the status (`NothingStale`).
* `AuthSessions_proofs!Invariance`, and from it `TypeCorrect` and
  `NoLockWithoutFailures`. `RequestsSound` says what a
  request in flight still knows: the counter it is going to write is at most the
  wrong passwords tried, its own included, and the token it is about to exchange is
  revoked. Cookies and parents are tokens that were issued (`CookiesAreIssued`,
  `ParentsAreIssued`).
* `AuthSessions_sequential`: what holds while requests do not overlap and none is
  lost. The invariant (`SeqInv`) is a conditional conjunction: an account's counter
  and lock are those of the abstract `Lockout` (`AccountsInSequence`); a token is
  replaced by one issued after it, for the same account (`ChainsAreIssued`); at most
  one request is in flight, and what it read of its token and account is still so
  (`SessionsInSequence`). From it `LogoutIsFinal` and the refinement
  `LockoutIsFollowed`: each login of the code is a step of `Lockout` or a stutter.
  `OneRequestAtATimeIsLockout` is the refinement again with the condition where it
  comes from: with one slot, `Spec => L!Spec`.
* `AuthSessions_sequential!ExchangesAreBounded` and `RotationKeepsCookies`, whatever
  overlaps. The first counts: the tokens a token was exchanged for and the requests
  still about to exchange it (`Holding`) are together no more than there can be
  requests (`ExchangesCounted`). A token that has been exchanged is revoked, so no
  later request passes the read, and issuing only moves one from the second set to
  the first. The second follows a new token from its one response to its one browser
  (`ResponsesFresh`, `CookiesApart`): only requests of the browser that holds a token
  are about to revoke it (`RevokedByItsOwn`), and the one that does goes on to answer
  that browser.
* `MediaLibrary_proofs`, in three layers. `TablesInvariance`, the tables: types, usages
  as galleries, no image twice in a gallery, and what a gallery request relies on
  (`GalleryKnows`: the row it has locked is still there, the row it has found, if it
  is still there, is of the same image and talent). `TypeCorrect` and
  `GalleriesAreProtected` follow. `ImagesInvariance`, the images: one that a request
  has stored and not yet recorded is known to nobody else (`ObjectsFresh`); the one a
  request found in a row and will delete is in no other row (`OldsKnown`,
  `DestroyedUnused`, `UniqueObjects`). `RowsHaveImages` and `UploadsAreKept` follow.
  `Sequence`, what holds without overlap: one request at a time, what it has read is
  `Current`, and the galleries and the hero use live images, each gallery with one
  primary (`PlacesSound`). `UsedStaysLive` and `HeroIsProtected` follow, and
  `PrimaryIsKept` with a lemma for each action that writes a gallery.
* `Catalogue_proofs!Invariance`, and from it `TypeCorrect` and `NothingDangles`. The
  point is what is *not* needed: nothing a request has checked about places and tags
  is still true when it commits, and the foreign keys look again. It only has to
  remember that its talent's row exists (`RequestsKnow`), which soft deletion
  guarantees. `NothingDangles` says nothing of preferred cities, which have no foreign
  key.
* `Catalogue_proofs!CapHolds`: counting the featured talents and featuring one more
  are two steps, so the invariant counts the talents that requests past the check
  are about to feature with those that are (`CandidatesFit`): together they fit the
  cap, and once requests have overlapped the cap and one more for every other slot
  (`Room`). `Sequence` (without overlap one request is in flight and what it read is
  `Current`) gives `TagsAreTheSaved`, and `RemovalsUnfileNothing`: what a folder's
  removal has found empty still is when it deletes.
* `FrontEnd_proofs!FormStaysConsistent`: the locations offered are those of the city
  shown unless a list is awaited, because every older request is cancelled
  (`AskedForCity`, `OffersCity`), so a value at odds with its city or category is one
  that strayed in a way the code shows (`strays`). `BookingsAreMadeAsShown`: the token a booking was
  sent with is that of the account shown then, or expired (`SiteInv`), and with one
  list in flight at a time it was asked for with the token of the account named
  (`ListsNameTheirOwner`).
  `CallsOutlive` and `SignedOutIsClean`: the types of a tab's session hold always
  (`SessionTypes`: an id is drawn once, so a fresh token is in no session and in no
  cookie); while calls follow each other, only one is under way and its place says
  what the tab, the cookie and the API hold (`ContextSound`, `FetchSound`), and with
  none under way they agree (`Agreed`). That an administrator is admitted everywhere
  the administration asks is a lemma about the controllers (`AdminIsAdmitted`).
* `FrontEnd_proofs!PagesShowTheStored`, with three invariants. `DialogInv`: an effect
  that is due will put the row the dialog is open on into its field, whichever answer
  arrives first (`DialogsEditTheirRow`). `ListInv`: while answers come in the order
  they were asked for, the last load in flight is for the query shown or already has
  its answer, and with none in flight the table is that answer (`Upcoming`); what the
  pager counts, once the loads are in, are not too many rows (`Counted`), so the page
  number stays inside the list (`PageInside`). The middle one is what makes the last
  one inductive: the pager offers pages of the total it has, not of the total there
  is. `ListShowsItsQuery` follows, from lemmas about pages of a sorted list.
  `GalleryInv`: the handlers follow one another, so a handler comes back to the very
  list it was called with, and what it will make of that list and of its answer
  already agrees with the API's rows (`Follows`, `Outcome`); the API's order numbers
  stay below the next it will give (`Numbered`), except between the removal of an image
  and the next reordering, where the order is in doubt and the invariant claims only
  which images there are and whose the badge is. For that the proof has to know what removing, badging,
  reordering and appending do to a list that has each image once (`AgreesRemoved`,
  `AgreesPrimary`, `AgreesAdded` and the lemmas on `Ascending`).
* `FrontEnd_proofs!PagesTypeCorrect`: `TypeOK` of all the pages, from the invariants
  above, the rest of the customer tab's types (`SiteRest`: a good access token is an
  account's, so the bookings listed are an account's) and the checkout's, which are
  inductive as they stand.

Only model-checked: the liveness properties `EntitlementKept` and `WaitingEnds`, and
with them everything about fairness, which is out of the prover's reach. Every other
property that a run finds to hold is also a theorem.

## 6. Not modelled

* Membership periods (`startsAt`, `expiresAt`, billing cycle): no guard reads
  them. A second capture of one payment that passed the check before the first
  committed starts the period again; a test only covers the sequential case.
* A plan's slug (it could change to a taken one: 409, nothing changes),
  currency (always INR), the stored gateway response, pagination, the reads.
* Webhooks without an order id or with another event name: answered 200, no
  effect.
* `created_at` of a history row: it may be set before the row lock is granted,
  so the sorted history a client sees can differ from commit order.
* What a password or a file must look like, the request throttler, names, slugs and
  display orders of lookups with their unique indexes (a conflict changes nothing),
  titles, tags and alternative text of an image, texts of the hero section.
* The booking detail page, the hero settings page, the upload area, the dashboard
  and the layout of the administration front end; the filters of the customer
  site's catalogue and its static pages; the way from one page to the next.
* Configuration, CORS and utilities: pure functions on strings, called one at a time,
  covered by unit tests.
* Dashboard, health, database access and seed: reads, connection handling and a
  script for an empty database.

## 7. Plan

Done, in this order: memberships and payments with `Entitlement`; bookings with
`BookingLifecycle`; accounts and sessions with `Lockout`; the media library with
galleries and hero; the catalogue with lookups and folders; the front ends. Each
with its run, and its proofs for what survives races.

Left:

1. Membership periods with a bounded clock, and with it the order in which
   `findCurrentSubscription` and the booking history sort their rows.
2. The remaining pages of the administration front end, which would bring no new
   kind of behaviour.
