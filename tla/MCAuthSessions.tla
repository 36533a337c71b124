--------------------------- MODULE MCAuthSessions ---------------------------
(* AuthSessions for TLC. *)
EXTENDS AuthSessions, TLC

MCWorkloads ==
  {{"login", "guess"},
   {"login", "refresh", "logout", "expiry"},
   {"register", "users"},
   {"admins"}}

(* Logins and sessions start with one registered user, everything starts   *)
(* with the seed's administrator, who has another address.                 *)
MCInit ==
  LET anEmail == CHOOSE e \in Emails : TRUE
      aPassword == CHOOSE p \in Passwords : TRUE
  IN
  /\ Init
  /\ users = [u \in Users |->
       IF u = (CHOOSE v \in Users : TRUE) /\ "login" \in workload
       THEN Registered(anEmail, aPassword) ELSE NoAccount]
  /\ admins = [a \in Admins |->
       IF a = (CHOOSE b \in Admins : TRUE)
       THEN Appointed(CHOOSE e \in Emails : e # anEmail, aPassword)
       ELSE NoAccount]

MCSpec == MCInit /\ [][Next]_authVars

Symmetry ==
  Permutations(Tokens) \cup Permutations(Browsers) \cup Permutations(Slots)
=============================================================================
