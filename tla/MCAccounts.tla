----------------------------- MODULE MCAccounts -----------------------------
(***************************************************************************)
(* Two requests at a time, two logins and one identity: two registrations  *)
(* of a login, two refreshes of a session and two callbacks of a flow      *)
(* overlap, and one flow more is started than are kept.                    *)
(***************************************************************************)
EXTENDS Accounts, TLC

Symmetry == Permutations(Requests) \cup Permutations(Logins)

=============================================================================
