------------------------------ MODULE MCAccounts ------------------------------
(***************************************************************************)
(* Sessions and credentials for TLC.  The two share no state, so that a    *)
(* behaviour follows one of them: `focus` is chosen once.                  *)
(***************************************************************************)
EXTENDS AuthSessions, Credentials, TLC

VARIABLE focus

MCSymmetry == Permutations(Requests) \cup Permutations(Users) \cup Permutations(Sessions)
                \cup Permutations(Clients) \cup Permutations(Secrets)

MCInit == focus \in {"sessions", "credentials"} /\ SessionsInit /\ CredentialsInit

MCNext ==
  \/ focus = "sessions" /\ SessionsNext /\ UNCHANGED <<cvars, focus>>
  \/ focus = "credentials" /\ CredentialsNext /\ UNCHANGED <<svars, focus>>

MCSpec == MCInit /\ [][MCNext]_<<svars, cvars, focus>>
===============================================================================
