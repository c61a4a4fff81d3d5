------------------------------ MODULE Accounts ------------------------------
(***************************************************************************)
(* AuthService and OidcService: registering, logging in, refreshing,       *)
(* logging out and the OIDC authorisation-code flow.  Every request awaits *)
(* several times, and other requests run in between: always while hashing, *)
(* verifying, signing or asking the provider, and on Postgres also between *)
(* any two statements.  JsonStore and SqliteStore do their work before the *)
(* call returns, so that reading and then writing is one step with them.   *)
(*                                                                         *)
(* A session is one refresh token and the access tokens of its sid; tokens *)
(* that expired are refused before anything happens and are left out.      *)
(***************************************************************************)
EXTENDS Naturals, Sequences, FiniteSets, SequencesExt

CONSTANTS
  Logins,      \* login names
  Subjects,    \* identities of the OIDC provider
  Requests,    \* slots for requests in progress
  FLOW_MAX,    \* authorisation flows kept
  MaxUsers,    \* bound: accounts
  MaxSessions, \* bound: sessions
  MaxFlows     \* bound: authorisation flows started

ASSUME BoundsAssumption ==
  {FLOW_MAX, MaxUsers, MaxSessions, MaxFlows} \subseteq Nat

VARIABLES
  store,    \* configuration: "json", "sqlite" or "postgres"
  users,    \* the accounts in the order of their creation
  sessions, \* the sessions in the order of their creation; a session's root
            \* is the one its login began with
  flows,    \* OidcService.pending, oldest first
  started,  \* flows started so far
  request,  \* the requests in progress
  ended     \* roots that were logged out or lost by a request that failed

vars == <<store, users, sessions, flows, started, request, ended>>

Password == "password"   \* in the place of a subject

Idle == [step |-> "idle"]

Init ==
  /\ store \in {"json", "sqlite", "postgres"}
  /\ users = <<>> /\ sessions = <<>> /\ flows = <<>> /\ started = 0
  /\ request = [r \in Requests |-> Idle]
  /\ ended = {}

\* A request that has read and has yet to write what it decided on.
Deciding(r) ==
  \/ request[r].step \in {"rotate", "revoke"}
  \/ request[r].step = "insert user" /\ request[r].user.subject # Password

\* The event loop runs r: on the stores that do not await, no other request
\* is between its reading and its writing.  Such a request awaits promises
\* that are settled, so it comes to its writing before the loop takes its
\* next callback; only one started by the same callback could come between,
\* and each request has a callback of its own.
Runs(r) == store # "postgres" => \A q \in Requests \ {r} : ~Deciding(q)

Begin(r, step) ==
  /\ request[r] = Idle /\ Runs(r)
  /\ request' = [request EXCEPT ![r] = step]

Proceed(r, step) ==
  /\ Runs(r)
  /\ request' = [request EXCEPT ![r] = step]

Issuing(u, root) == [step |-> "issue", user |-> u, root |-> root]

-----------------------------------------------------------------------------
(***************************************************************************)
(* Accounts and passwords                                                  *)
(***************************************************************************)

findByLogin(login) == {u \in DOMAIN users : users[u].login = login}
findByOidcSubject(subject) == {u \in DOMAIN users : users[u].subject = subject}
FirstOf(S) == CHOOSE u \in S : \A v \in S : u <= v

\* registerPassword up to the hashing: a login that is found is a conflict.
registerPassword(r, login) ==
  /\ findByLogin(login) = {}
  /\ Begin(r, [step |-> "insert user", user |-> [login |-> login, subject |-> Password]])
  /\ UNCHANGED <<store, users, sessions, flows, started, ended>>

\* A defect: a schema without the UNIQUE constraints.
TakenNever(user) == FALSE

\* The columns login and oidc_subject are UNIQUE; a Map has no such thing.
Taken(user) ==
  /\ store # "json"
  /\ \/ findByLogin(user.login) # {}
     \/ user.subject # Password /\ findByOidcSubject(user.subject) # {}

\* users.upsert of a new account: it ends a registration, and an OIDC login
\* goes on to the tokens.  A constraint answers with an error.
InsertUser(r) ==
  /\ request[r].step = "insert user"
  /\ LET user == request[r].user IN
     \/ Taken(user) /\ Proceed(r, Idle) /\ UNCHANGED users
     \/ /\ ~Taken(user) /\ Len(users) < MaxUsers
        /\ users' = Append(users, user)
        /\ Proceed(r, IF user.subject = Password THEN Idle ELSE Issuing(Len(users'), 0))
  /\ UNCHANGED <<store, sessions, flows, started, ended>>

\* loginPassword up to the signing, for the right password: the account is
\* the first one found.
loginPassword(r, login) ==
  /\ LET found == findByLogin(login) IN
     /\ found # {}
     /\ users[FirstOf(found)].subject = Password
     /\ Begin(r, Issuing(FirstOf(found), 0))
  /\ UNCHANGED <<store, users, sessions, flows, started, ended>>

-----------------------------------------------------------------------------
(***************************************************************************)
(* Sessions                                                                *)
(***************************************************************************)
Live(sid) == ~sessions[sid].revoked

\* issueTokenPair once both tokens are signed: a session of its own.
issueTokenPair(r) ==
  /\ request[r].step = "issue" /\ Len(sessions) < MaxSessions
  /\ LET sid == Len(sessions) + 1
         root == IF request[r].root = 0 THEN sid ELSE request[r].root
     IN sessions' = Append(sessions, [user |-> request[r].user, root |-> root, revoked |-> FALSE])
  /\ Proceed(r, Idle)
  /\ UNCHANGED <<store, users, flows, started, ended>>

\* refresh: the session is read and is not revoked.
refresh(r, sid) ==
  /\ Live(sid)
  /\ Begin(r, [step |-> "rotate", sid |-> sid])
  /\ UNCHANGED <<store, users, sessions, flows, started, ended>>

\* A defect: the old session is left to expire.
RotateUnrevoked(r) ==
  /\ request[r].step = "rotate"
  /\ LET sid == request[r].sid IN Proceed(r, Issuing(sessions[sid].user, sessions[sid].root))
  /\ UNCHANGED <<store, users, sessions, flows, started, ended>>

\* A defect: the sessions of the user are revoked, not the one refreshed.
RotateAll(r) ==
  /\ request[r].step = "rotate"
  /\ LET sid == request[r].sid IN
     /\ sessions' = [s \in DOMAIN sessions |->
          [sessions[s] EXCEPT !.revoked = @ \/ sessions[s].user = sessions[sid].user]]
     /\ Proceed(r, Issuing(sessions[sid].user, sessions[sid].root))
  /\ UNCHANGED <<store, users, flows, started, ended>>

\* refresh: the session is revoked and a pair is issued for its user.
Rotate(r) ==
  /\ request[r].step = "rotate"
  /\ LET sid == request[r].sid IN
     /\ sessions' = [sessions EXCEPT ![sid].revoked = TRUE]
     /\ Proceed(r, Issuing(sessions[sid].user, sessions[sid].root))
  /\ UNCHANGED <<store, users, flows, started, ended>>

\* POST /auth/logout: verifyAccessToken finds the session, which is then
\* revoked.
logout(r, sid) ==
  /\ Live(sid)
  /\ Begin(r, [step |-> "revoke", sid |-> sid])
  /\ UNCHANGED <<store, users, sessions, flows, started, ended>>

Revoke(r) ==
  /\ request[r].step = "revoke"
  /\ LET sid == request[r].sid IN
     /\ sessions' = [sessions EXCEPT ![sid].revoked = TRUE]
     /\ ended' = ended \cup {sessions[sid].root}
  /\ Proceed(r, Idle)
  /\ UNCHANGED <<store, users, flows, started>>

-----------------------------------------------------------------------------
(***************************************************************************)
(* The OIDC flow                                                           *)
(***************************************************************************)

\* A defect: nothing is collected.
GcNever(list, expired) == list

\* gc(): the latest FLOW_MAX flows, without those that are over their time.
Gc(list, expired) ==
  LET first == IF Len(list) > FLOW_MAX THEN Len(list) - FLOW_MAX ELSE 0
  IN SubSeq(list, 1 + (IF first > expired THEN first ELSE expired), Len(list))

\* GET /auth/oidc/start, when the oldest flows may have expired.
startAuthorizationUrl ==
  /\ started < MaxFlows
  /\ started' = started + 1
  /\ \E expired \in 0 .. Len(flows) : flows' = Append(Gc(flows, expired), started')
  /\ UNCHANGED <<store, users, sessions, request, ended>>

InFlows(f) == \E n \in DOMAIN flows : flows[n] = f

\* A defect: the flow is forgotten after the exchange, with the next start.
CallbackKeeping(r, f) ==
  /\ InFlows(f)
  /\ Begin(r, [step |-> "exchange", flow |-> f])
  /\ UNCHANGED <<store, users, sessions, flows, started, ended>>

\* GET /auth/oidc/callback: an unknown state is refused; a known one is
\* forgotten before the provider is asked.
handleCallback(r, f) ==
  /\ \E n \in DOMAIN flows : flows[n] = f /\ flows' = RemoveAt(flows, n)
  /\ Begin(r, [step |-> "exchange", flow |-> f])
  /\ UNCHANGED <<store, users, sessions, started, ended>>

\* upsertOidcUser, with what the provider says: an account is found or made.
\* The roles, which it refreshes in an account that is found, are left out.
upsertOidcUser(r, subject, login) ==
  /\ request[r].step = "exchange"
  /\ LET found == findByOidcSubject(subject) IN
     \/ found # {} /\ Proceed(r, Issuing(FirstOf(found), 0))
     \/ found = {} /\ Proceed(r, [step |-> "insert user",
                                  user |-> [login |-> login, subject |-> subject]])
  /\ UNCHANGED <<store, users, sessions, flows, started, ended>>

-----------------------------------------------------------------------------
\* A request fails at one of its awaits (the provider refuses, a statement
\* fails, the process is replaced): what it has written stays.
Fail(r) ==
  /\ request[r] # Idle
  /\ ended' = IF request[r].step = "issue" THEN ended \cup ({request[r].root} \ {0}) ELSE ended
  /\ Proceed(r, Idle)
  /\ UNCHANGED <<store, users, sessions, flows, started>>

Next ==
  \/ startAuthorizationUrl
  \/ \E r \in Requests :
       \/ \E login \in Logins : registerPassword(r, login) \/ loginPassword(r, login)
       \/ \E sid \in DOMAIN sessions : refresh(r, sid) \/ logout(r, sid)
       \/ \E f \in 1 .. MaxFlows : handleCallback(r, f)
       \/ \E s \in Subjects, login \in Logins : upsertOidcUser(r, s, login)
       \/ InsertUser(r) \/ issueTokenPair(r) \/ Rotate(r) \/ Revoke(r) \/ Fail(r)

Spec == Init /\ [][Next]_vars

-----------------------------------------------------------------------------
(***************************************************************************)
(* Properties                                                              *)
(***************************************************************************)

\* One person has one account: no two accounts share an identity of the
\* provider, and with a database no two share a login, although looking one
\* up and inserting it are apart and several requests do so together.
AccountsAreUnique ==
  \A u, v \in DOMAIN users : u # v =>
    /\ users[u].subject = users[v].subject => users[u].subject = Password
    /\ store # "json" => users[u].login # users[v].login

LiveOf(root) == {s \in DOMAIN sessions : sessions[s].root = root /\ Live(s)}
IssuingFor(root) == {r \in Requests : request[r].step = "issue" /\ request[r].root = root}

\* A login is one chain of sessions: refreshing, even several times at once
\* with the same token, never leaves two sessions of a login alive, on the
\* stores that read and revoke in one go.
RefreshNeverForks ==
  store # "postgres" =>
    \A root \in DOMAIN sessions : Cardinality(LiveOf(root)) + Cardinality(IssuingFor(root)) <= 1

\* Nobody is logged out by somebody else's request: until a login is logged
\* out itself, or a refresh of it fails half way, one of its sessions is
\* alive or about to be issued.
LoginsLast ==
  \A s \in DOMAIN sessions :
    sessions[s].root \notin ended =>
      LiveOf(sessions[s].root) \cup IssuingFor(sessions[s].root) # {}

\* The state of an authorisation flow is good for one login: nothing that
\* is being exchanged can be presented again; and flows that nobody comes
\* back to are not kept without limit.
FlowsAreUsedOnce ==
  /\ Len(flows) <= FLOW_MAX + 1
  /\ \A r \in Requests : request[r].step = "exchange" =>
       /\ ~InFlows(request[r].flow)
       /\ \A q \in Requests \ {r} : request[q] # request[r]

=============================================================================
