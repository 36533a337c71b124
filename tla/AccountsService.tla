-------------------------- MODULE AccountsService --------------------------
(***************************************************************************)
(* apps/api/src/users/users.service.ts and admins/admins.service.ts:       *)
(* administrators create, change and remove accounts.                      *)
(*                                                                         *)
(* Update and remove first look for a row that is not deleted.  A row      *)
(* deleted after that look is written all the same, but nobody reads it    *)
(* again, so each is one step at its write.  Names and phone numbers are   *)
(* left out.                                                               *)
(***************************************************************************)
EXTENDS AuthStore

(* UsersService.create: an account without credentials. *)
UserCreate(h, e) ==
  /\ Begin(h, "users", Idle)
  /\ \E u \in Users :
       /\ users[u] = NoAccount
       /\ UserEmailAdmitted(u, e)
       /\ users' = [users EXCEPT ![u] =
            [email |-> e, deleted |-> FALSE, password |-> None,
             failedLoginAttempts |-> 0, locked |-> FALSE]]
  /\ UNCHANGED <<admins, tokens, cookie, history>>

UserUpdate(h, u, e) ==
  /\ Begin(h, "users", Idle)
  /\ LiveUser(u)
  /\ UserEmailAdmitted(u, e)
  /\ users' = [users EXCEPT ![u].email = e]
  /\ UNCHANGED <<admins, tokens, cookie, history>>

(* remove: the address is free again; tokens and credentials stay.         *)
UserRemove(h, u) ==
  /\ Begin(h, "users", Idle)
  /\ LiveUser(u)
  /\ users' = [users EXCEPT ![u].deleted = TRUE]
  /\ UNCHANGED <<admins, tokens, cookie, history>>

AdminCreate(h, e, p) ==
  /\ Begin(h, "admins", Idle)
  /\ \E a \in Admins, isActive \in BOOLEAN :
       /\ admins[a] = NoAccount
       /\ AdminEmailAdmitted(a, e)
       /\ admins' = [admins EXCEPT ![a] =
            [email |-> e, deleted |-> FALSE, isActive |-> isActive,
             password |-> p]]
  /\ UNCHANGED <<users, tokens, cookie, history>>

(* update: any of e-mail, isActive and password, the last without asking   *)
(* for the old one.                                                        *)
AdminUpdate(h, a, e, isActive, p) ==
  /\ Begin(h, "admins", Idle)
  /\ LiveAdmin(a)
  /\ AdminEmailAdmitted(a, e)
  /\ admins' = [admins EXCEPT ![a].email = e, ![a].isActive = isActive,
                              ![a].password = p]
  /\ UNCHANGED <<users, tokens, cookie, history>>

AdminRemove(h, a) ==
  /\ Begin(h, "admins", Idle)
  /\ LiveAdmin(a)
  /\ admins' = [admins EXCEPT ![a].deleted = TRUE]
  /\ UNCHANGED <<users, tokens, cookie, history>>

AccountsNext ==
  \E h \in Slots :
    \/ \E e \in Emails :
         \/ UserCreate(h, e)
         \/ \E u \in Users : UserUpdate(h, u, e)
         \/ \E p \in Passwords :
              \/ AdminCreate(h, e, p)
              \/ \E a \in Admins, isActive \in BOOLEAN :
                   AdminUpdate(h, a, e, isActive, p)
    \/ \E u \in Users : UserRemove(h, u)
    \/ \E a \in Admins : AdminRemove(h, a)
=============================================================================
