------------------------------- MODULE Access -------------------------------
(***************************************************************************)
(* Who may call which handler of the API: the guards that the controllers  *)
(* declare, and what the guards make of the bearer token of a call.  A     *)
(* controller is a function from its handlers to what guards them.         *)
(***************************************************************************)
EXTENDS FiniteSets

(* What jwt.strategy.ts makes of a call: nobody, or the payload of an      *)
(* access token that is signed and has not expired.  The roles are those   *)
(* of the login or the refresh that issued it.                             *)
Nobody == [type |-> "none", roles |-> {}]
RolesOf(type) ==
  CASE type = "admin" -> {"admin"} [] type = "user" -> {"user"} [] OTHER -> {}

JwtAuthGuard(user) == user # Nobody

(* An invalid token leaves the call without a user; it is not refused.     *)
OptionalJwtAuthGuard(user) == TRUE

RolesGuard(required, user) == required = {} \/ required \cap user.roles # {}

(* The status a guarded handler answers with, before anything of its own.  *)
Reply(route, user) ==
  CASE route.guard = "jwt" /\ ~ JwtAuthGuard(user) -> 401
    [] route.guard = "optional" /\ ~ OptionalJwtAuthGuard(user) -> 401
    [] ~ RolesGuard(route.roles, user) -> 403
    [] OTHER -> 200

Admits(route, user) == Reply(route, user) = 200
-----------------------------------------------------------------------------
Public == [guard |-> "none", roles |-> {}]
Optional == [guard |-> "optional", roles |-> {}]
SignedIn == [guard |-> "jwt", roles |-> {}]
AdminOnly == [guard |-> "jwt", roles |-> {"admin"}]

(* Guards of a class are guards of all its handlers.                       *)
All(handlers, route) == [h \in handlers |-> route]

Crud == {"create", "findAll", "findOne", "update", "remove"}
CrudAndBulk == Crud \cup {"bulkAction"}

UsersController == All(Crud, AdminOnly)
AdminsController == All(Crud, AdminOnly)
CitiesController == All(CrudAndBulk, AdminOnly)
LocationsController == All(CrudAndBulk, AdminOnly)
TalentCategoriesController == All(CrudAndBulk, AdminOnly)
TalentSubCategoriesController == All(CrudAndBulk, AdminOnly)
TalentController ==
  All(CrudAndBulk \cup {"addMedia", "reorderMedia", "setPrimaryMedia", "removeMedia"},
      AdminOnly)
MediaController ==
  All({"upload", "findAll", "reorder", "bulkDelete", "bulkMove", "getStats",
       "findAllFolders", "createFolder", "updateFolder", "removeFolder", "findOne",
       "update", "remove", "restore", "permanentDelete", "replace"}, AdminOnly)
AdminBookingController == All({"findAll", "updateStatus"}, AdminOnly)
AdminMembershipController == All({"findAll", "create", "update", "remove"}, AdminOnly)
AdminPaymentsController == All({"findAll"}, AdminOnly)
AdminHeroController == All({"getSettings", "updateSettings"}, AdminOnly)
DashboardController == All({"getStats"}, AdminOnly)

AuthController ==
  [h \in {"register", "login", "refresh", "logout", "me", "changePassword"} |->
     IF h \in {"me", "changePassword"} THEN SignedIn ELSE Public]
BookingController ==
  [h \in {"create", "findOne"} |-> IF h = "create" THEN Optional ELSE SignedIn]
MyBookingsController == All({"findAll"}, SignedIn)
MembershipController ==
  [h \in {"findAll", "subscribe"} |-> IF h = "subscribe" THEN SignedIn ELSE Public]
MySubscriptionController == All({"findCurrent"}, SignedIn)
PaymentsController ==
  [h \in {"createOrder", "webhook"} |-> IF h = "createOrder" THEN SignedIn ELSE Public]
PublicTalentController == All({"findAll"}, Public)
PublicTalentCatalogController == All({"findAll", "listCities", "findBySlug"}, Public)
PublicHeroController == All({"getSettings"}, Public)
-----------------------------------------------------------------------------
Routes(controller) == {controller[h] : h \in DOMAIN controller}

(* What an administrator may be shown by the administration front end.     *)
AdminRoutes ==
  (UNION {Routes(c) : c \in
    {UsersController, AdminsController, CitiesController, LocationsController,
     TalentCategoriesController, TalentSubCategoriesController, TalentController,
     MediaController, AdminBookingController, AdminMembershipController,
     AdminPaymentsController, AdminHeroController, DashboardController}})
  \cup {BookingController["findOne"], AuthController["changePassword"]}

(* What the customer site calls without signing in, and for who has.       *)
CatalogueRoutes ==
  Routes(PublicTalentController) \cup Routes(PublicTalentCatalogController)
    \cup Routes(PublicHeroController) \cup {MembershipController["findAll"]}

MemberRoutes ==
  Routes(MyBookingsController) \cup Routes(MySubscriptionController)
    \cup {MembershipController["subscribe"], PaymentsController["createOrder"]}
=============================================================================
