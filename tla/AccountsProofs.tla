--------------------------- MODULE AccountsProofs ---------------------------
(***************************************************************************)
(* One person has one account, and a login is one chain of sessions that   *)
(* lasts, for any logins, identities, requests and bounds.                 *)
(*                                                                         *)
(* The accounts: with a database the UNIQUE columns see to it.  On the     *)
(* JSON store only the event loop does: of the requests that have looked   *)
(* an identity up and have yet to insert it there is never more than one   *)
(* (Alone), and what it has not found is still not there (Absent).         *)
(*                                                                         *)
(* The sessions: a chain goes from a session that is alive to a request    *)
(* that is about to issue the next one, and back.  On the stores that do   *)
(* not await it has exactly one such end (Single), because a session that  *)
(* a request is about to rotate is still alive.                            *)
(*                                                                         *)
(* The flows: the list of pending ones names each once, and a flow that a  *)
(* request has taken out to exchange it is in it no more (FlowInv); a flow *)
(* is made with a number that no flow ever had.                            *)
(***************************************************************************)
EXTENDS Accounts, FiniteSetTheorems, SequenceTheorems, TLAPS

Persons == [login : Logins, subject : Subjects \cup {Password}]

Inserting(r) == request[r].step = "insert user"

\* Nothing is said of the requests that insert no account.
Typed ==
  /\ users \in Seq(Persons)
  /\ DOMAIN request = Requests
  /\ \A r \in Requests : Inserting(r) => request[r].user \in Persons

Alone == store # "postgres" => \A r, q \in Requests : Deciding(r) /\ Deciding(q) => r = q

Absent ==
  \A r \in Requests :
    store # "postgres" /\ Inserting(r) /\ request[r].user.subject # Password =>
      findByOidcSubject(request[r].user.subject) = {}

Inv == Typed /\ Alone /\ Absent /\ AccountsAreUnique

-----------------------------------------------------------------------------
\* A step that creates no account, and after which r does not insert one.
LEMMA OtherStep ==
  ASSUME Inv, NEW r \in Requests, NEW step,
         Runs(r), request' = [request EXCEPT ![r] = step],
         step.step # "insert user", UNCHANGED <<store, users>>
  PROVE  Inv'
<1> USE DEF Inv
<1>1. Typed'
  BY DEF Typed, Inserting
<1>2. \A q \in Requests : q # r => request'[q] = request[q]
  BY DEF Typed
<1>3. request'[r] = step
  BY DEF Typed
<1>4. Alone'
  <2>1. \A q \in Requests : q # r => (Deciding(q)' <=> Deciding(q))
    BY <1>2 DEF Deciding
  <2>2. QED
    BY <2>1 DEF Alone, Runs
<1>5. Absent'
  BY <1>2, <1>3, ZenonT(60) DEF Absent, Inserting, findByOidcSubject
<1>6. AccountsAreUnique'
  BY DEF AccountsAreUnique
<1>7. QED
  BY <1>1, <1>4, <1>5, <1>6

\* A request that has looked for the identity, or needs not to.
LEMMA LookedUp ==
  ASSUME Inv, NEW r \in Requests, NEW user \in Persons,
         Runs(r), request' = [request EXCEPT ![r] = [step |-> "insert user", user |-> user]],
         user.subject # Password => findByOidcSubject(user.subject) = {},
         UNCHANGED <<store, users>>
  PROVE  Inv'
<1> USE DEF Inv
<1>1. \A q \in Requests : q # r => request'[q] = request[q]
  BY DEF Typed
<1>2. request'[r] = [step |-> "insert user", user |-> user]
  BY DEF Typed
<1>3. Typed'
  BY <1>1, <1>2 DEF Typed, Inserting
<1>4. Alone'
  <2>1. \A q \in Requests : q # r => (Deciding(q)' <=> Deciding(q))
    BY <1>1 DEF Deciding
  <2>2. QED
    BY <2>1 DEF Alone, Runs
<1>5. Absent'
  <2>1. \A subject : findByOidcSubject(subject)' = findByOidcSubject(subject)
    BY DEF findByOidcSubject
  <2>2. [step |-> "insert user", user |-> user].user = user
    OBVIOUS
  <2>3. request'[r].user = user
    BY <1>2, <2>2
  <2>4. QED
    BY <1>1, <2>1, <2>3 DEF Absent, Inserting
<1>6. AccountsAreUnique'
  BY DEF AccountsAreUnique
<1>7. QED
  BY <1>3, <1>4, <1>5, <1>6

\* An account is inserted, or refused.
LEMMA Inserted ==
  ASSUME Inv, NEW r \in Requests, InsertUser(r) PROVE Inv'
<1> DEFINE user == request[r].user
<1> USE DEF Inv
<1>1. user \in Persons /\ Runs(r) /\ UNCHANGED store
  BY DEF InsertUser, Typed, Inserting, Proceed
<1>2. CASE UNCHANGED users /\ Proceed(r, Idle)
  <2>1. Idle.step # "insert user"
    BY DEF Idle
  <2>2. QED
    BY <1>1, <1>2, <2>1, OtherStep DEF Proceed
<1>3. CASE /\ ~Taken(user) /\ users' = Append(users, user)
           /\ Proceed(r, IF user.subject = Password THEN Idle ELSE Issuing(Len(users'), 0))
  <2>1. users' \in Seq(Persons) /\ Len(users') = Len(users) + 1 /\ users'[Len(users) + 1] = user
        /\ \A u \in DOMAIN users : users'[u] = users[u]
    BY <1>1, <1>3 DEF Typed
  <2>2. DOMAIN users' = DOMAIN users \cup {Len(users) + 1} /\ Len(users) + 1 \notin DOMAIN users
    BY <1>1, <1>3 DEF Typed
  <2>3. \A q \in Requests : q # r => request'[q] = request[q]
    BY <1>3 DEF Typed, Proceed
  <2>4. request'[r].step # "insert user" /\ ~Deciding(r)' /\ DOMAIN request' = Requests
    BY <1>3 DEF Typed, Proceed, Idle, Issuing, Deciding
  <2>5. Typed'
    BY <2>1, <2>3, <2>4 DEF Typed, Inserting
  <2>6. Alone'
    BY <1>1, <2>3, <2>4, ZenonT(60) DEF Alone, Deciding
  <2>7. Absent'
    \* Nobody else is deciding, on the stores this is about.
    BY <1>1, <2>3, <2>4 DEF Absent, Inserting, Deciding, Runs
  <2>8. user.subject # Password => \A u \in DOMAIN users : users[u].subject # user.subject
    BY <1>1, <1>3 DEF InsertUser, Absent, Inserting, Taken, findByOidcSubject
  <2>9. store # "json" => \A u \in DOMAIN users : users[u].login # user.login
    BY <1>3 DEF Taken, findByLogin
  <2>10. AccountsAreUnique'
    BY <1>1, <2>1, <2>2, <2>8, <2>9 DEF AccountsAreUnique
  <2>11. QED
    BY <2>5, <2>6, <2>7, <2>10
<1>4. QED
  BY <1>2, <1>3 DEF InsertUser

\* No interleaving of account requests lets two of them decide about one
\* identity at once, on the stores that do not see to it themselves.
THEOREM Invariance == Spec => []Inv
<1>1. Init => Inv
  <2> SUFFICES ASSUME Init PROVE Inv
    OBVIOUS
  <2>1. \A r \in Requests : request[r].step = "idle"
    BY DEF Init, Idle
  <2>2. Typed
    <3>1. users \in Seq(Persons) /\ DOMAIN request = Requests
      BY DEF Init
    <3>2. QED
      BY <2>1, <3>1 DEF Typed, Inserting
  <2>3. Alone /\ Absent
    BY <2>1 DEF Alone, Absent, Inserting, Deciding
  <2>4. AccountsAreUnique
    BY DEF Init, AccountsAreUnique
  <2>5. QED
    BY <2>2, <2>3, <2>4 DEF Inv
<1>2. Inv /\ [Next]_vars => Inv'
  <2> SUFFICES ASSUME Inv, [Next]_vars PROVE Inv'
    OBVIOUS
  <2>1. CASE UNCHANGED vars
    BY <2>1, ZenonT(60) DEF vars, Inv, Typed, Alone, Absent, AccountsAreUnique, Inserting, Deciding, findByOidcSubject
  <2>2. CASE startAuthorizationUrl
    BY <2>2, ZenonT(60) DEF startAuthorizationUrl, Inv, Typed, Alone, Absent, AccountsAreUnique, Inserting, Deciding,
                findByOidcSubject
  <2>3. ASSUME NEW r \in Requests, NEW login \in Logins, registerPassword(r, login) PROVE Inv'
    <3> DEFINE user == [login |-> login, subject |-> Password]
    <3>1. user \in Persons /\ user.subject = Password
      BY DEF Persons
    <3>2. QED
      BY <2>3, <3>1, LookedUp DEF registerPassword, Begin
  <2>4. ASSUME NEW r \in Requests, NEW login \in Logins, loginPassword(r, login) PROVE Inv'
    <3> DEFINE step == Issuing(FirstOf(findByLogin(login)), 0)
    <3>1. step.step # "insert user"
      BY DEF Issuing
    <3> HIDE DEF step
    <3>2. QED
      BY <2>4, <3>1, OtherStep DEF loginPassword, Begin, step
  <2>5. ASSUME NEW r \in Requests, NEW sid, refresh(r, sid) \/ logout(r, sid) PROVE Inv'
    <3>1. PICK name \in {"rotate", "revoke"} : Begin(r, [step |-> name, sid |-> sid])
      BY <2>5 DEF refresh, logout
    <3> DEFINE step == [step |-> name, sid |-> sid]
    <3>2. step.step # "insert user"
      OBVIOUS
    <3>3. Begin(r, step) /\ UNCHANGED <<store, users>>
      BY <2>5, <3>1 DEF refresh, logout
    <3> HIDE DEF step
    <3>4. QED
      BY <3>2, <3>3, OtherStep DEF Begin
  <2>6. ASSUME NEW r \in Requests, NEW f, handleCallback(r, f) PROVE Inv'
    <3> DEFINE step == [step |-> "exchange", flow |-> f]
    <3>1. step.step # "insert user"
      OBVIOUS
    <3>2. Begin(r, step) /\ UNCHANGED <<store, users>>
      BY <2>6 DEF handleCallback
    <3> HIDE DEF step
    <3>3. QED
      BY <3>1, <3>2, OtherStep DEF Begin
  <2>7. ASSUME NEW r \in Requests, NEW s \in Subjects, NEW login \in Logins, upsertOidcUser(r, s, login)
        PROVE Inv'
    <3> DEFINE user == [login |-> login, subject |-> s]
    <3>1. user \in Persons /\ user.subject = s
      BY DEF Persons
    <3>2. CASE findByOidcSubject(s) = {}
      BY <2>7, <3>1, <3>2, LookedUp DEF upsertOidcUser, Proceed
    <3>3. CASE findByOidcSubject(s) # {}
      BY <2>7, <3>3, OtherStep DEF upsertOidcUser, Proceed, Issuing
    <3>4. QED
      BY <3>2, <3>3
  <2>8. ASSUME NEW r \in Requests, issueTokenPair(r) \/ Rotate(r) \/ Revoke(r) \/ Fail(r) PROVE Inv'
    BY <2>8, OtherStep, ZenonT(60) DEF issueTokenPair, Rotate, Revoke, Fail, Proceed, Idle, Issuing
  <2>9. QED
    BY <2>1, <2>2, <2>3, <2>4, <2>5, <2>6, <2>7, <2>8, Inserted DEF Next
<1>3. QED
  BY <1>1, <1>2, PTL DEF Spec

\* One person has one account.
THEOREM AccountsCorrect == Spec => []AccountsAreUnique
BY Invariance, PTL DEF Inv

-----------------------------------------------------------------------------
(***************************************************************************)
(* Sessions                                                                *)
(***************************************************************************)
SessionsTyped ==
  /\ \E S : sessions \in Seq(S)
  /\ \A s \in DOMAIN sessions :
       /\ sessions[s] = [user |-> sessions[s].user, root |-> sessions[s].root, revoked |-> sessions[s].revoked]
       /\ sessions[s].root \in DOMAIN sessions
       /\ sessions[s].revoked \in BOOLEAN

IssuesFor(r) == request[r].step = "issue"
Holds(r) == request[r].step \in {"rotate", "revoke"}

\* The sessions that the requests speak of exist.
RequestsTyped ==
  /\ DOMAIN request = Requests
  /\ \A r \in Requests :
       /\ IssuesFor(r) => request[r].root \in {0} \cup DOMAIN sessions
       /\ Holds(r) => request[r].sid \in DOMAIN sessions

Single ==
  store # "postgres" =>
    /\ \A r \in Requests : Holds(r) => Live(request[r].sid)
    /\ \A s, t \in DOMAIN sessions : Live(s) /\ Live(t) /\ sessions[s].root = sessions[t].root => s = t
    /\ \A r, q \in Requests :
         IssuesFor(r) /\ IssuesFor(q) /\ request[r].root = request[q].root /\ request[r].root # 0 => r = q
    /\ \A s \in DOMAIN sessions, r \in Requests :
         Live(s) /\ IssuesFor(r) => sessions[s].root # request[r].root

\* The chain of a login has an end that is alive or about to be issued.
HasEnd(root) ==
  \/ \E s \in DOMAIN sessions : Live(s) /\ sessions[s].root = root
  \/ \E r \in Requests : IssuesFor(r) /\ request[r].root = root

Lasting == \A s \in DOMAIN sessions : sessions[s].root \notin ended => HasEnd(sessions[s].root)

SessionInv == SessionsTyped /\ RequestsTyped /\ Single /\ Lasting

\* Not a session is touched: the request that goes on was not issuing one,
\* and is now elsewhere, issues the first of a login, or holds a live one.
LEMMA SessionsLeftAlone ==
  ASSUME SessionInv, NEW r \in Requests, NEW step, request' = [request EXCEPT ![r] = step],
         ~IssuesFor(r), UNCHANGED <<store, sessions, ended>>,
         \/ step.step \notin {"issue", "rotate", "revoke"}
         \/ step.step = "issue" /\ step.root = 0
         \/ step.step \in {"rotate", "revoke"} /\ step.sid \in DOMAIN sessions /\ Live(step.sid)
  PROVE  SessionInv'
<1> USE DEF SessionInv, IssuesFor, Holds
<1>1. request'[r] = step /\ DOMAIN request' = Requests /\ \A q \in Requests : q # r => request'[q] = request[q]
  BY DEF RequestsTyped
<1>2. SessionsTyped'
  BY DEF SessionsTyped
<1>3. RequestsTyped'
  BY <1>1 DEF RequestsTyped
<1>4. \A s \in DOMAIN sessions : sessions[s].root # 0
  BY LenProperties DEF SessionsTyped
<1>5. Single'
  BY <1>1, <1>4 DEF Single, Live
<1>6. Lasting'
  BY <1>1 DEF Lasting, HasEnd, Live
<1>7. QED
  BY <1>2, <1>3, <1>5, <1>6

\* A session is added, the next of its login or the first of a new one.
LEMMA SessionIssued ==
  ASSUME SessionInv, NEW r \in Requests, issueTokenPair(r) PROVE SessionInv'
<1> USE DEF SessionInv, IssuesFor, Holds
<1> DEFINE sid == Len(sessions) + 1
           root == IF request[r].root = 0 THEN sid ELSE request[r].root
           new == [user |-> request[r].user, root |-> root, revoked |-> FALSE]
<1>1. /\ request[r].step = "issue" /\ sessions' = Append(sessions, new)
      /\ request' = [request EXCEPT ![r] = Idle] /\ UNCHANGED <<store, ended>>
  BY DEF issueTokenPair, Proceed
<1>2. PICK S : sessions \in Seq(S)
  BY DEF SessionsTyped
<1>3. sessions \in Seq(S \cup {new})
  BY <1>2, SeqMonotonic
<1>4. /\ sessions' \in Seq(S \cup {new})
      /\ DOMAIN sessions = 1 .. Len(sessions) /\ Len(sessions) \in Nat
      /\ DOMAIN sessions' = DOMAIN sessions \cup {sid} /\ sid \notin DOMAIN sessions /\ sid # 0
      /\ sessions'[sid] = new /\ \A s \in DOMAIN sessions : sessions'[s] = sessions[s]
  <2> HIDE DEF new
  <2>1. QED
    BY <1>1, <1>3
<1>5. root \in DOMAIN sessions' /\ (request[r].root # 0 => root = request[r].root /\ root \in DOMAIN sessions)
  BY <1>1, <1>4 DEF RequestsTyped
<1>6. new = [user |-> new.user, root |-> new.root, revoked |-> new.revoked] /\ new.root = root /\ new.revoked = FALSE
  OBVIOUS
<1> HIDE DEF new, sid
<1>7. Idle.step = "idle"
  BY DEF Idle
<1>8. request'[r].step = "idle" /\ DOMAIN request' = Requests /\ \A q \in Requests : q # r => request'[q] = request[q]
  BY <1>1, <1>7 DEF RequestsTyped
<1>9. SessionsTyped'
  BY <1>4, <1>5, <1>6 DEF SessionsTyped
<1>10. RequestsTyped'
  BY <1>4, <1>8 DEF RequestsTyped
<1>11. Single'
  <2>1. \A s \in DOMAIN sessions : sessions[s].root # sid
    BY <1>4 DEF SessionsTyped
  <2>2. \A q \in Requests : IssuesFor(q) => request[q].root # sid
    BY <1>4 DEF RequestsTyped
  <2>3. store # "postgres" => \A s \in DOMAIN sessions : Live(s) => sessions[s].root # root
    BY <1>1, <2>1 DEF Single
  <2>4. store # "postgres" => \A q \in Requests : q # r /\ IssuesFor(q) => request[q].root # root
    BY <1>1, <1>5, <2>2 DEF Single
  <2> HIDE DEF root
  <2>5. QED
    BY <1>1, <1>4, <1>6, <1>8, <2>3, <2>4 DEF Single, Live, RequestsTyped
<1>12. Lasting'
  <2> SUFFICES ASSUME NEW s \in DOMAIN sessions', sessions'[s].root \notin ended'
               PROVE  HasEnd(sessions[s].root)'
    BY DEF Lasting
  <2>1. CASE sessions'[s].root = root
    BY <1>4, <1>6, <2>1 DEF HasEnd, Live
  <2>2. CASE sessions'[s].root # root
    <3>1. s \in DOMAIN sessions /\ sessions'[s].root = sessions[s].root
      BY <1>4, <1>6, <2>2
    <3>2. HasEnd(sessions[s].root)
      BY <1>1, <3>1 DEF Lasting
    <3>3. request[r].root # sessions[s].root
      BY <1>4, <1>5, <2>2, <3>1 DEF SessionsTyped
    <3>4. QED
      BY <1>4, <1>8, <3>1, <3>2, <3>3 DEF HasEnd, Live
  <2>3. QED
    BY <2>1, <2>2
<1>13. QED
  BY <1>9, <1>10, <1>11, <1>12

\* What remains of the sessions when one is revoked.
LEMMA SessionRevoked ==
  ASSUME SessionInv, NEW sid \in DOMAIN sessions, sessions' = [sessions EXCEPT ![sid].revoked = TRUE]
  PROVE  /\ SessionsTyped' /\ DOMAIN sessions' = DOMAIN sessions
         /\ \A s \in DOMAIN sessions : sessions'[s].root = sessions[s].root
         /\ \A s \in DOMAIN sessions : Live(s)' <=> Live(s) /\ s # sid
<1> DEFINE new == [user |-> sessions[sid].user, root |-> sessions[sid].root, revoked |-> TRUE]
<1>1. [sessions[sid] EXCEPT !.revoked = TRUE] = new
  <2>1. sessions[sid] = [user |-> sessions[sid].user, root |-> sessions[sid].root, revoked |-> sessions[sid].revoked]
    BY DEF SessionInv, SessionsTyped
  <2>2. ASSUME NEW w
        PROVE  [sessions[sid] EXCEPT !.revoked = w]
                 = [user |-> sessions[sid].user, root |-> sessions[sid].root, revoked |-> w]
    BY <2>1
  <2>3. QED
    BY <2>2, Zenon
<1>2. sessions' = [sessions EXCEPT ![sid] = new]
  BY <1>1
<1>3. /\ new = [user |-> new.user, root |-> new.root, revoked |-> new.revoked]
      /\ new.root = sessions[sid].root /\ new.revoked = TRUE
  OBVIOUS
<1>4. PICK S : sessions \in Seq(S)
  BY DEF SessionInv, SessionsTyped
<1> HIDE DEF new
<1>5. DOMAIN sessions' = DOMAIN sessions /\ sessions'[sid] = new /\ \A s \in DOMAIN sessions : s # sid => sessions'[s] = sessions[s]
  BY <1>2
<1>6. sessions' \in Seq(S \cup {new})
  <2>1. sessions \in Seq(S \cup {new})
    BY <1>4, SeqMonotonic
  <2>2. QED
    BY <1>2, <2>1, ExceptSeq, LenProperties
<1>7. SessionsTyped'
  BY <1>3, <1>5, <1>6 DEF SessionInv, SessionsTyped
<1>8. QED
  BY <1>3, <1>5, <1>7 DEF Live

\* A session is exchanged for the promise of the next one.
LEMMA SessionRotated ==
  ASSUME SessionInv, NEW r \in Requests, Rotate(r) PROVE SessionInv'
<1> USE DEF SessionInv, IssuesFor, Holds
<1> DEFINE sid == request[r].sid
           new == Issuing(sessions[sid].user, sessions[sid].root)
<1>1. /\ request[r].step = "rotate" /\ sessions' = [sessions EXCEPT ![sid].revoked = TRUE]
      /\ request' = [request EXCEPT ![r] = new] /\ Runs(r) /\ UNCHANGED <<store, ended>>
  BY DEF Rotate, Proceed
<1>2. sid \in DOMAIN sessions
  BY <1>1 DEF RequestsTyped
<1>3. new.step = "issue" /\ new.root = sessions[sid].root
  BY DEF Issuing
<1> HIDE DEF new, sid
<1>4. request'[r] = new /\ DOMAIN request' = Requests /\ \A q \in Requests : q # r => request'[q] = request[q]
  BY <1>1 DEF RequestsTyped
<1>5. /\ SessionsTyped' /\ DOMAIN sessions' = DOMAIN sessions
      /\ \A s \in DOMAIN sessions : sessions'[s].root = sessions[s].root
      /\ \A s \in DOMAIN sessions : Live(s)' <=> Live(s) /\ s # sid
  BY <1>1, <1>2, SessionRevoked
<1>6. RequestsTyped'
  BY <1>2, <1>3, <1>4, <1>5 DEF RequestsTyped, SessionsTyped
<1>7. Single'
  <2> SUFFICES ASSUME store # "postgres" PROVE Single'
    BY <1>1 DEF Single
  <2>1. \A q \in Requests : q # r => ~Holds(q)
    BY <1>1 DEF Runs, Deciding
  <2>2. Live(sid)
    BY <1>1 DEF Single, sid
  <2>3. \A s \in DOMAIN sessions : s # sid /\ Live(s) => sessions[s].root # sessions[sid].root
    BY <1>2, <2>2 DEF Single
  <2>4. \A q \in Requests : IssuesFor(q) => request[q].root # sessions[sid].root
    BY <1>2, <2>2 DEF Single
  <2>5. \A q \in Requests : Holds(q)' => FALSE
    BY <1>3, <1>4, <2>1
  <2>6. QED
    BY <1>1, <1>3, <1>4, <1>5, <2>3, <2>4, <2>5 DEF Single
<1>8. Lasting'
  <2> SUFFICES ASSUME NEW s \in DOMAIN sessions, sessions[s].root \notin ended PROVE HasEnd(sessions[s].root)'
    BY <1>1, <1>5 DEF Lasting
  <2>1. CASE sessions[s].root = sessions[sid].root
    BY <1>3, <1>4, <1>5, <2>1 DEF HasEnd
  <2>2. CASE sessions[s].root # sessions[sid].root
    <3>1. HasEnd(sessions[s].root)
      BY DEF Lasting
    <3>2. QED
      BY <1>1, <1>4, <1>5, <2>2, <3>1 DEF HasEnd
  <2>3. QED
    BY <2>1, <2>2
<1>9. QED
  BY <1>5, <1>6, <1>7, <1>8

\* A login is ended by a request of its own.
LEMMA SessionEnded ==
  ASSUME SessionInv, NEW r \in Requests, Revoke(r) PROVE SessionInv'
<1> USE DEF SessionInv, IssuesFor, Holds
<1> DEFINE sid == request[r].sid
<1>1. /\ request[r].step = "revoke" /\ sessions' = [sessions EXCEPT ![sid].revoked = TRUE]
      /\ request' = [request EXCEPT ![r] = Idle] /\ Runs(r)
      /\ store' = store /\ ended' = ended \cup {sessions[sid].root}
  BY DEF Revoke, Proceed
<1>2. sid \in DOMAIN sessions
  BY <1>1 DEF RequestsTyped
<1>3. Idle.step = "idle"
  BY DEF Idle
<1> HIDE DEF sid
<1>4. request'[r].step = "idle" /\ DOMAIN request' = Requests /\ \A q \in Requests : q # r => request'[q] = request[q]
  BY <1>1, <1>3 DEF RequestsTyped
<1>5. /\ SessionsTyped' /\ DOMAIN sessions' = DOMAIN sessions
      /\ \A s \in DOMAIN sessions : sessions'[s].root = sessions[s].root
      /\ \A s \in DOMAIN sessions : Live(s)' <=> Live(s) /\ s # sid
  BY <1>1, <1>2, SessionRevoked
<1>6. RequestsTyped'
  BY <1>4, <1>5 DEF RequestsTyped
<1>7. Single'
  <2> SUFFICES ASSUME store # "postgres" PROVE Single'
    BY <1>1 DEF Single
  <2>1. \A q \in Requests : q # r => ~Holds(q)
    BY <1>1 DEF Runs, Deciding
  <2>2. QED
    BY <1>1, <1>4, <1>5, <2>1 DEF Single
<1>8. Lasting'
  <2> SUFFICES ASSUME NEW s \in DOMAIN sessions, sessions[s].root \notin ended, sessions[s].root # sessions[sid].root
               PROVE HasEnd(sessions[s].root)'
    BY <1>1, <1>5 DEF Lasting
  <2>1. HasEnd(sessions[s].root)
    BY DEF Lasting
  <2>2. QED
    BY <1>1, <1>4, <1>5, <2>1 DEF HasEnd
<1>9. QED
  BY <1>5, <1>6, <1>7, <1>8

\* So is one whose next session is never issued.
LEMMA SessionLost ==
  ASSUME SessionInv, NEW r \in Requests, Fail(r) PROVE SessionInv'
<1> USE DEF SessionInv, IssuesFor, Holds
<1>1. /\ request' = [request EXCEPT ![r] = Idle] /\ UNCHANGED <<store, sessions>>
      /\ IF request[r].step = "issue" THEN ended' = ended \cup ({request[r].root} \ {0}) ELSE ended' = ended
  BY DEF Fail, Proceed
<1>2. Idle.step = "idle"
  BY DEF Idle
<1>3. request'[r].step = "idle" /\ DOMAIN request' = Requests /\ \A q \in Requests : q # r => request'[q] = request[q]
  BY <1>1, <1>2 DEF RequestsTyped
<1>4. SessionsTyped' /\ RequestsTyped'
  BY <1>1, <1>3 DEF SessionsTyped, RequestsTyped
<1>5. Single'
  BY <1>1, <1>3 DEF Single, Live
<1>6. Lasting'
  <2> SUFFICES ASSUME NEW s \in DOMAIN sessions, sessions[s].root \notin ended' PROVE HasEnd(sessions[s].root)'
    BY <1>1 DEF Lasting
  <2>1. sessions[s].root # 0
    BY LenProperties DEF SessionsTyped
  <2>2. sessions[s].root \notin ended /\ ~(request[r].step = "issue" /\ request[r].root = sessions[s].root)
    BY <1>1, <2>1
  <2>3. HasEnd(sessions[s].root)
    BY <2>2 DEF Lasting
  <2>4. QED
    BY <1>1, <1>3, <2>2, <2>3 DEF HasEnd, Live
<1>7. QED
  BY <1>4, <1>5, <1>6

\* No interleaving of logins, refreshes, logouts and failures gives the chain
\* of a login a second end, or takes its only one.
THEOREM SessionInvariance == Spec => []SessionInv
<1>1. Init => SessionInv
  <2> SUFFICES ASSUME Init PROVE SessionInv
    OBVIOUS
  <2>1. \A r \in Requests : request[r].step = "idle"
    BY DEF Init, Idle
  <2>2. DOMAIN request = Requests /\ sessions \in Seq({}) /\ DOMAIN sessions = {}
    BY DEF Init
  <2>3. QED
    BY <2>1, <2>2 DEF SessionInv, SessionsTyped, RequestsTyped, Single, Lasting, IssuesFor, Holds
<1>2. SessionInv /\ [Next]_vars => SessionInv'
  <2> SUFFICES ASSUME SessionInv, [Next]_vars PROVE SessionInv'
    OBVIOUS
  <2>1. CASE UNCHANGED <<store, sessions, request, ended>>
    BY <2>1 DEF SessionInv, SessionsTyped, RequestsTyped, Single, Lasting, HasEnd, IssuesFor, Holds, Live
  <2>2. ASSUME NEW r \in Requests, NEW step, request' = [request EXCEPT ![r] = step], ~IssuesFor(r),
               UNCHANGED <<store, sessions, ended>>,
               step.step \notin {"issue", "rotate", "revoke"} \/ (step.step = "issue" /\ step.root = 0)
        PROVE  SessionInv'
    BY <2>2, SessionsLeftAlone
  <2>3. Idle.step = "idle"
    BY DEF Idle
  <2>4. \A u : Issuing(u, 0).step = "issue" /\ Issuing(u, 0).root = 0
    BY DEF Issuing
  <2>5. ASSUME NEW r \in Requests, NEW login \in Logins, registerPassword(r, login) PROVE SessionInv'
    <3> DEFINE step == [step |-> "insert user", user |-> [login |-> login, subject |-> Password]]
    <3>1. step.step = "insert user"
      OBVIOUS
    <3>2. request' = [request EXCEPT ![r] = step] /\ request[r] = Idle /\ UNCHANGED <<store, sessions, ended>>
      BY <2>5 DEF registerPassword, Begin
    <3> HIDE DEF step
    <3>3. QED
      BY <2>2, <2>3, <3>1, <3>2 DEF IssuesFor
  <2>6. ASSUME NEW r \in Requests, NEW login \in Logins, loginPassword(r, login) PROVE SessionInv'
    <3> DEFINE step == Issuing(FirstOf(findByLogin(login)), 0)
    <3>1. step.step = "issue" /\ step.root = 0
      BY <2>4
    <3>2. request' = [request EXCEPT ![r] = step] /\ request[r] = Idle /\ UNCHANGED <<store, sessions, ended>>
      BY <2>6 DEF loginPassword, Begin
    <3> HIDE DEF step
    <3>3. QED
      BY <2>2, <2>3, <3>1, <3>2 DEF IssuesFor
  <2>7. ASSUME NEW r \in Requests, NEW sid \in DOMAIN sessions, refresh(r, sid) \/ logout(r, sid) PROVE SessionInv'
    <3>1. PICK name \in {"rotate", "revoke"} : Begin(r, [step |-> name, sid |-> sid])
      BY <2>7 DEF refresh, logout
    <3> DEFINE step == [step |-> name, sid |-> sid]
    <3>2. step.step = name /\ step.sid = sid
      OBVIOUS
    <3>3. request' = [request EXCEPT ![r] = step] /\ request[r] = Idle
      BY <3>1 DEF Begin
    <3>4. UNCHANGED <<store, sessions, ended>> /\ Live(sid)
      BY <2>7 DEF refresh, logout
    <3> HIDE DEF step
    <3>5. QED
      BY <2>3, <3>2, <3>3, <3>4, SessionsLeftAlone DEF IssuesFor
  <2>8. ASSUME NEW r \in Requests, NEW f, handleCallback(r, f) PROVE SessionInv'
    <3> DEFINE step == [step |-> "exchange", flow |-> f]
    <3>1. step.step = "exchange"
      OBVIOUS
    <3>2. request' = [request EXCEPT ![r] = step] /\ request[r] = Idle /\ UNCHANGED <<store, sessions, ended>>
      BY <2>8 DEF handleCallback, Begin
    <3> HIDE DEF step
    <3>3. QED
      BY <2>2, <2>3, <3>1, <3>2 DEF IssuesFor
  <2>9. ASSUME NEW r \in Requests, NEW s \in Subjects, NEW login \in Logins, upsertOidcUser(r, s, login)
        PROVE SessionInv'
    <3>1. ~IssuesFor(r) /\ UNCHANGED <<store, sessions, ended>>
      BY <2>9 DEF upsertOidcUser, IssuesFor
    <3>2. CASE Proceed(r, Issuing(FirstOf(findByOidcSubject(s)), 0))
      BY <2>2, <2>4, <3>1, <3>2 DEF Proceed
    <3>3. CASE Proceed(r, [step |-> "insert user", user |-> [login |-> login, subject |-> s]])
      <4> DEFINE step == [step |-> "insert user", user |-> [login |-> login, subject |-> s]]
      <4>1. step.step = "insert user"
        OBVIOUS
      <4>2. request' = [request EXCEPT ![r] = step]
        BY <3>3 DEF Proceed
      <4> HIDE DEF step
      <4>3. QED
        BY <2>2, <3>1, <4>1, <4>2
    <3>4. QED
      BY <2>9, <3>2, <3>3 DEF upsertOidcUser
  <2>10. ASSUME NEW r \in Requests, InsertUser(r) PROVE SessionInv'
    <3>1. ~IssuesFor(r) /\ UNCHANGED <<store, sessions, ended>>
      BY <2>10 DEF InsertUser, IssuesFor
    <3>2. PICK step \in {Idle, Issuing(Len(users'), 0)} : request' = [request EXCEPT ![r] = step]
      BY <2>10 DEF InsertUser, Proceed
    <3>3. QED
      BY <2>2, <2>3, <2>4, <3>1, <3>2
  <2>11. QED
    BY <2>1, <2>5, <2>6, <2>7, <2>8, <2>9, <2>10, SessionIssued, SessionRotated, SessionEnded, SessionLost
    DEF Next, vars, startAuthorizationUrl
<1>3. QED
  BY <1>1, <1>2, PTL DEF Spec

\* A login is one chain of sessions, on the stores that read and revoke in
\* one go: refreshing never leaves two of its sessions alive.
THEOREM RefreshCorrect == Spec => []RefreshNeverForks
<1>1. SessionInv => RefreshNeverForks
  <2> SUFFICES ASSUME SessionInv, store # "postgres", NEW root \in DOMAIN sessions
               PROVE  Cardinality(LiveOf(root)) + Cardinality(IssuingFor(root)) <= 1
    BY DEF RefreshNeverForks
  <2>1. root # 0
    BY LenProperties DEF SessionInv, SessionsTyped
  <2>2. \A s, t \in LiveOf(root) : s = t
    BY DEF SessionInv, Single, LiveOf
  <2>3. \A r, q \in IssuingFor(root) : r = q
    BY <2>1 DEF SessionInv, Single, IssuingFor, IssuesFor
  <2>4. LiveOf(root) = {} \/ IssuingFor(root) = {}
    BY DEF SessionInv, Single, LiveOf, IssuingFor, IssuesFor
  <2>5. \A S : (\A x, y \in S : x = y) => (S = {} /\ Cardinality(S) = 0) \/ Cardinality(S) = 1
    <3> SUFFICES ASSUME NEW S, \A x, y \in S : x = y, S # {} PROVE Cardinality(S) = 1
      BY FS_EmptySet
    <3>1. PICK x \in S : TRUE
      OBVIOUS
    <3>2. S = {x}
      BY <3>1
    <3>3. QED
      BY <3>2, FS_Singleton
  <2>6. /\ Cardinality({}) = 0
        /\ Cardinality(LiveOf(root)) \in {0, 1} /\ Cardinality(IssuingFor(root)) \in {0, 1}
    BY <2>2, <2>3, <2>5, FS_EmptySet
  <2>7. QED
    BY <2>4, <2>6
<1>2. QED
  BY <1>1, SessionInvariance, PTL

\* Nobody is logged out by the request of somebody else.
THEOREM LoginsCorrect == Spec => []LoginsLast
<1>1. SessionInv => LoginsLast
  BY DEF SessionInv, Lasting, HasEnd, LoginsLast, LiveOf, IssuingFor, IssuesFor
<1>2. QED
  BY <1>1, SessionInvariance, PTL

-----------------------------------------------------------------------------
(***************************************************************************)
(* The authorisation flows                                                 *)
(***************************************************************************)

\* The flows are kept in the order they were started in, each once.
Ordered ==
  /\ flows \in Seq(Nat) /\ started \in Nat
  /\ \A m, n \in DOMAIN flows : m < n => flows[m] < flows[n]
  /\ \A n \in DOMAIN flows : flows[n] <= started

Exchanges(r) == request[r].step = "exchange"

\* A flow that is exchanged was started and is known no more, and nobody
\* else exchanges it.
Exchanged ==
  /\ DOMAIN request = Requests
  /\ \A r \in Requests : Exchanges(r) =>
       /\ request[r].flow \in Nat /\ request[r].flow <= started
       /\ ~InFlows(request[r].flow)
       /\ \A q \in Requests : Exchanges(q) /\ request[q].flow = request[r].flow => q = r

FlowInv == Ordered /\ Len(flows) <= FLOW_MAX + 1 /\ Exchanged

\* What is taken out of a list keeps its order: a part of it, or all but one.
LEMMA PartOf ==
  ASSUME NEW list \in Seq(Nat), NEW k \in 1 .. Len(list) + 1
  PROVE  /\ SubSeq(list, k, Len(list)) \in Seq(Nat)
         /\ Len(SubSeq(list, k, Len(list))) = Len(list) + 1 - k
         /\ \A n \in 1 .. Len(list) + 1 - k :
              SubSeq(list, k, Len(list))[n] = list[k + n - 1] /\ k + n - 1 \in DOMAIN list
<1>1. Len(list) \in Nat /\ DOMAIN list = 1 .. Len(list) /\ k \in Nat
  OBVIOUS
<1>2. \A n \in 1 .. Len(list) + 1 - k : k + n - 1 \in 1 .. Len(list)
  BY <1>1
<1>3. CASE k = Len(list) + 1
  <2>1. SubSeq(list, k, Len(list)) = <<>> /\ Len(list) + 1 - k = 0
    BY <1>1, <1>3
  <2>2. QED
    BY <1>1, <1>2, <2>1
<1>4. CASE k # Len(list) + 1
  BY <1>1, <1>2, <1>4
<1>5. QED
  BY <1>3, <1>4

\* A list without its k-th element.
LEMMA WithoutOne ==
  ASSUME NEW list \in Seq(Nat), NEW k \in 1 .. Len(list)
  PROVE  /\ RemoveAt(list, k) \in Seq(Nat)
         /\ Len(RemoveAt(list, k)) = Len(list) - 1
         /\ \A n \in 1 .. Len(list) - 1 :
              RemoveAt(list, k)[n] = list[IF n < k THEN n ELSE n + 1]
<1> DEFINE before == SubSeq(list, 1, k - 1)
           after == SubSeq(list, k + 1, Len(list))
<1>1. Len(list) \in Nat /\ k \in Nat /\ k <= Len(list) /\ 1 <= k
  OBVIOUS
<1>2. /\ before \in Seq(Nat) /\ Len(before) = k - 1
      /\ \A n \in 1 .. k - 1 : before[n] = list[n]
  BY <1>1
<1>3. /\ after \in Seq(Nat) /\ Len(after) = Len(list) - k
      /\ \A n \in 1 .. Len(list) - k : after[n] = list[k + n]
  <2>1. k + 1 \in 1 .. Len(list) + 1 /\ Len(list) + 1 - (k + 1) = Len(list) - k
        /\ \A n \in Nat : k + 1 + n - 1 = k + n
    BY <1>1
  <2>2. /\ after \in Seq(Nat) /\ Len(after) = Len(list) + 1 - (k + 1)
        /\ \A n \in 1 .. Len(list) + 1 - (k + 1) : after[n] = list[k + 1 + n - 1]
    BY <2>1, PartOf
  <2> HIDE DEF after
  <2>3. ASSUME NEW n \in 1 .. Len(list) - k PROVE after[n] = list[k + n]
    <3>1. n \in Nat /\ n \in 1 .. Len(list) + 1 - (k + 1)
      BY <1>1, <2>1
    <3>2. after[n] = list[k + 1 + n - 1] /\ k + 1 + n - 1 = k + n
      BY <2>1, <2>2, <3>1
    <3>3. QED
      BY <3>2
  <2>4. QED
    BY <2>1, <2>2, <2>3
<1>4. RemoveAt(list, k) = before \o after
  BY DEF RemoveAt
<1> HIDE DEF before, after
<1>5. /\ before \o after \in Seq(Nat) /\ Len(before \o after) = Len(list) - 1
      /\ \A n \in 1 .. Len(list) - 1 :
           (before \o after)[n] = IF n <= k - 1 THEN before[n] ELSE after[n - (k - 1)]
  <2>1. /\ before \o after \in Seq(Nat) /\ Len(before \o after) = Len(before) + Len(after)
        /\ \A n \in 1 .. Len(before) + Len(after) :
             (before \o after)[n] = IF n <= Len(before) THEN before[n] ELSE after[n - Len(before)]
    BY <1>2, <1>3, ConcatProperties
  <2>2. Len(before) + Len(after) = Len(list) - 1
    BY <1>1, <1>2, <1>3
  <2>3. QED
    BY <1>2, <2>1, <2>2
<1>6. ASSUME NEW n \in 1 .. Len(list) - 1
      PROVE  (before \o after)[n] = list[IF n < k THEN n ELSE n + 1]
  <2>1. CASE n < k
    BY <1>1, <1>2, <1>5, <2>1
  <2>2. CASE ~(n < k)
    <3>1. n - (k - 1) \in 1 .. Len(list) - k /\ k + (n - (k - 1)) = n + 1 /\ ~(n <= k - 1)
      BY <1>1, <2>2
    <3>2. (before \o after)[n] = after[n - (k - 1)]
      BY <1>5, <3>1
    <3>3. QED
      BY <1>3, <2>2, <3>1, <3>2
  <2>3. QED
    BY <2>1, <2>2
<1>7. QED
  BY <1>4, <1>5, <1>6

\* Collecting leaves the latest flows, at most FLOW_MAX of them.
LEMMA Collected ==
  ASSUME NEW list \in Seq(Nat), NEW expired \in 0 .. Len(list)
  PROVE  \E k \in 1 .. Len(list) + 1 :
           Gc(list, expired) = SubSeq(list, k, Len(list)) /\ Len(list) + 1 - k <= FLOW_MAX
<1> DEFINE first == IF Len(list) > FLOW_MAX THEN Len(list) - FLOW_MAX ELSE 0
           cut == IF first > expired THEN first ELSE expired
<1>1. Len(list) \in Nat /\ FLOW_MAX \in Nat /\ expired \in Nat /\ expired <= Len(list)
  BY BoundsAssumption
<1>2. first \in 0 .. Len(list) /\ Len(list) - first <= FLOW_MAX
  BY <1>1
<1>3. Gc(list, expired) = SubSeq(list, 1 + cut, Len(list))
  BY DEF Gc
<1> HIDE DEF first
<1>4. cut \in 0 .. Len(list) /\ Len(list) - cut <= FLOW_MAX
  BY <1>1, <1>2
<1> HIDE DEF cut
<1>5. 1 + cut \in 1 .. Len(list) + 1 /\ Len(list) + 1 - (1 + cut) <= FLOW_MAX
  BY <1>1, <1>4
<1>6. QED
  BY <1>3, <1>5

\* A flow is started: it is younger than all that are kept.
LEMMA FlowStarted ==
  ASSUME FlowInv, startAuthorizationUrl PROVE FlowInv'
<1> USE DEF FlowInv
<1>1. /\ started' = started + 1 /\ request' = request /\ started \in Nat /\ flows \in Seq(Nat)
      /\ Len(flows) \in Nat
  BY DEF startAuthorizationUrl, Ordered
<1>2. PICK expired \in 0 .. Len(flows) : flows' = Append(Gc(flows, expired), started')
  BY DEF startAuthorizationUrl
<1>3. PICK k \in 1 .. Len(flows) + 1 :
        Gc(flows, expired) = SubSeq(flows, k, Len(flows)) /\ Len(flows) + 1 - k <= FLOW_MAX
  BY <1>1, Collected
<1> DEFINE kept == SubSeq(flows, k, Len(flows))
           size == Len(flows) + 1 - k
<1>4. /\ kept \in Seq(Nat) /\ Len(kept) = size
      /\ \A n \in 1 .. size : kept[n] = flows[k + n - 1] /\ k + n - 1 \in DOMAIN flows
  BY <1>1, PartOf
<1>5. flows' = Append(kept, started + 1)
  BY <1>1, <1>2, <1>3
<1>6. size \in Nat /\ FLOW_MAX \in Nat /\ size <= FLOW_MAX
  BY <1>1, <1>3, BoundsAssumption
<1>7. \A m, n \in 1 .. size : m < n => kept[m] < kept[n]
  <2>1. ASSUME NEW m \in 1 .. size, NEW n \in 1 .. size, m < n PROVE kept[m] < kept[n]
    <3>1. k + m - 1 < k + n - 1
      BY <1>1, <1>6, <2>1
    <3>2. /\ kept[m] = flows[k + m - 1] /\ k + m - 1 \in DOMAIN flows
          /\ kept[n] = flows[k + n - 1] /\ k + n - 1 \in DOMAIN flows
      BY <1>4
    <3> HIDE DEF kept, size
    <3>3. QED
      BY <3>1, <3>2 DEF Ordered
  <2>2. QED
    BY <2>1
<1>8. \A n \in 1 .. size : kept[n] \in Nat /\ kept[n] <= started /\ \E i \in DOMAIN flows : kept[n] = flows[i]
  BY <1>1, <1>4 DEF Ordered
<1> HIDE DEF kept, size
<1>9. /\ flows' \in Seq(Nat) /\ Len(flows') = size + 1 /\ flows'[size + 1] = started + 1
      /\ \A n \in 1 .. size : flows'[n] = kept[n]
  BY <1>1, <1>4, <1>5, <1>6, SMTT(30)
<1>10. DOMAIN flows' = 1 .. size + 1 /\ \A n \in 1 .. size + 1 : n \in 1 .. size \/ n = size + 1
  BY <1>6, <1>9
<1>11. Len(flows') <= FLOW_MAX + 1
  BY <1>6, <1>9
<1>12. Ordered'
  <2>1. ASSUME NEW n \in 1 .. size + 1 PROVE flows'[n] \in Nat /\ flows'[n] <= started + 1
    <3>1. CASE n \in 1 .. size
      <4>1. flows'[n] = kept[n] /\ kept[n] \in Nat /\ kept[n] <= started
        BY <1>8, <1>9, <3>1
      <4>2. QED
        BY <1>1, <4>1
    <3>2. CASE n = size + 1
      BY <1>1, <1>9, <3>2
    <3>3. QED
      BY <1>10, <3>1, <3>2
  <2>2. ASSUME NEW m \in 1 .. size + 1, NEW n \in 1 .. size + 1, m < n PROVE flows'[m] < flows'[n]
    <3>1. m \in Nat /\ n \in Nat /\ 1 <= m /\ n <= size + 1 /\ m <= size /\ m \in 1 .. size
      BY <1>6, <2>2
    <3>2. CASE n \in 1 .. size
      BY <1>7, <1>9, <2>2, <3>1, <3>2
    <3>3. CASE n = size + 1
      <4>1. flows'[m] = kept[m] /\ kept[m] \in Nat /\ kept[m] <= started /\ flows'[n] = started + 1
        BY <1>8, <1>9, <3>1, <3>3
      <4>2. QED
        BY <1>1, <4>1
    <3>4. QED
      BY <1>10, <3>2, <3>3
  <2>3. QED
    BY <1>1, <1>9, <1>10, <2>1, <2>2 DEF Ordered
<1>13. Exchanged'
  <2>1. ASSUME NEW f \in Nat, f <= started, ~InFlows(f) PROVE f <= started' /\ ~InFlows(f)'
    <3>1. \A n \in 1 .. size + 1 : flows'[n] # f
      BY <1>1, <1>8, <1>9, <1>10, <2>1, SMTT(30) DEF InFlows
    <3>2. QED
      BY <1>1, <1>10, <2>1, <3>1 DEF InFlows
  <2>2. QED
    BY <1>1, <2>1 DEF Exchanged, Exchanges, InFlows
<1>14. QED
  BY <1>11, <1>12, <1>13

\* A flow is taken to be exchanged, by one request.
LEMMA FlowTaken ==
  ASSUME FlowInv, NEW r \in Requests, NEW f, handleCallback(r, f) PROVE FlowInv'
<1> USE DEF FlowInv
<1>1. PICK k \in DOMAIN flows : flows[k] = f /\ flows' = RemoveAt(flows, k)
  BY DEF handleCallback
<1>2. /\ flows \in Seq(Nat) /\ Len(flows) \in Nat /\ DOMAIN flows = 1 .. Len(flows) /\ k \in 1 .. Len(flows)
      /\ started' = started /\ started \in Nat /\ f \in Nat /\ f <= started
  BY <1>1 DEF handleCallback, Ordered
<1> DEFINE step == [step |-> "exchange", flow |-> f]
<1>3. step.step = "exchange" /\ step.flow = f
  OBVIOUS
<1>4. request' = [request EXCEPT ![r] = step] /\ request[r] = Idle
  BY DEF handleCallback, Begin
<1> HIDE DEF step
<1>5. request'[r] = step /\ DOMAIN request' = Requests /\ \A q \in Requests : q # r => request'[q] = request[q]
  BY <1>4 DEF Exchanged
<1> DEFINE old(n) == IF n < k THEN n ELSE n + 1
<1>6. /\ flows' \in Seq(Nat) /\ Len(flows') = Len(flows) - 1
      /\ \A n \in 1 .. Len(flows) - 1 : flows'[n] = flows[old(n)]
  BY <1>1, <1>2, WithoutOne
<1>7. DOMAIN flows' = 1 .. Len(flows) - 1
  BY <1>6
<1>8. \A n \in 1 .. Len(flows) - 1 : old(n) \in 1 .. Len(flows) /\ old(n) # k
  BY <1>2
<1>9. \A m, n \in 1 .. Len(flows) - 1 : m < n => old(m) < old(n)
  BY <1>2
<1> HIDE DEF old
<1>10. Len(flows') <= FLOW_MAX + 1
  <2>1. FLOW_MAX \in Nat
    BY BoundsAssumption
  <2>2. QED
    BY <1>2, <1>6, <2>1
<1>11. Ordered'
  BY <1>2, <1>6, <1>7, <1>8, <1>9 DEF Ordered
<1>12. \A m, n \in DOMAIN flows : flows[m] = flows[n] => m = n
  <2>1. \A m, n \in DOMAIN flows : m < n => flows[m] < flows[n]
    BY DEF Ordered
  <2>2. \A m \in DOMAIN flows : flows[m] \in Nat
    BY <1>2
  <2>3. QED
    BY <1>2, <2>1, <2>2
<1>13. \A g : InFlows(g)' => InFlows(g) /\ g # f
  BY <1>1, <1>2, <1>6, <1>7, <1>8, <1>12 DEF InFlows
<1>14. InFlows(f)
  BY <1>1 DEF InFlows
<1>15. Exchanged'
  BY <1>2, <1>3, <1>5, <1>13, <1>14 DEF Exchanged, Exchanges
<1>16. QED
  BY <1>10, <1>11, <1>15

\* A request that goes on, but not to exchange a flow.
LEMMA FlowsLeftAlone ==
  ASSUME FlowInv, NEW r \in Requests, NEW step, request' = [request EXCEPT ![r] = step],
         step.step # "exchange", UNCHANGED <<flows, started>>
  PROVE  FlowInv'
<1> USE DEF FlowInv
<1>1. /\ request'[r] = step /\ DOMAIN request' = Requests
      /\ \A q \in Requests : q # r => request'[q] = request[q]
  BY DEF Exchanged
<1>2. \A q \in Requests : Exchanges(q)' => Exchanges(q) /\ request'[q] = request[q]
  BY <1>1 DEF Exchanges
<1>3. Exchanged'
  BY <1>1, <1>2 DEF Exchanged, InFlows, Exchanges
<1>4. QED
  BY <1>3 DEF Ordered

\* The flows are kept in the order they were started in, and what is being
\* exchanged is not among them.
THEOREM FlowInvariance == Spec => []FlowInv
<1>1. Init => FlowInv
  <2> SUFFICES ASSUME Init PROVE FlowInv
    OBVIOUS
  <2>1. \A r \in Requests : request[r].step = "idle"
    BY DEF Init, Idle
  <2>2. /\ DOMAIN request = Requests /\ flows \in Seq(Nat) /\ Len(flows) = 0 /\ DOMAIN flows = {}
        /\ started = 0
    BY DEF Init
  <2>3. Len(flows) <= FLOW_MAX + 1
    BY <2>2, BoundsAssumption
  <2>4. QED
    BY <2>1, <2>2, <2>3 DEF FlowInv, Ordered, Exchanged, Exchanges
<1>2. FlowInv /\ [Next]_vars => FlowInv'
  <2> SUFFICES ASSUME FlowInv, [Next]_vars PROVE FlowInv'
    OBVIOUS
  <2>1. CASE UNCHANGED vars
    BY <2>1 DEF vars, FlowInv, Ordered, Exchanged, Exchanges, InFlows
  <2>2. ASSUME NEW r \in Requests, NEW step, request' = [request EXCEPT ![r] = step],
               step.step # "exchange", UNCHANGED <<flows, started>>
        PROVE  FlowInv'
    BY <2>2, FlowsLeftAlone
  <2>3. Idle.step = "idle" /\ \A u, root : Issuing(u, root).step = "issue"
    BY DEF Idle, Issuing
  <2>4. \A user : [step |-> "insert user", user |-> user].step = "insert user"
    OBVIOUS
  <2>5. ASSUME NEW r \in Requests, NEW login \in Logins, registerPassword(r, login) PROVE FlowInv'
    <3>1. /\ request' = [request EXCEPT ![r] = [step |-> "insert user", user |-> [login |-> login, subject |-> Password]]]
          /\ UNCHANGED <<flows, started>>
      BY <2>5 DEF registerPassword, Begin
    <3>2. QED
      BY <2>2, <2>4, <3>1
  <2>6. ASSUME NEW r \in Requests, NEW login \in Logins, loginPassword(r, login) PROVE FlowInv'
    <3>1. /\ request' = [request EXCEPT ![r] = Issuing(FirstOf(findByLogin(login)), 0)]
          /\ UNCHANGED <<flows, started>>
      BY <2>6 DEF loginPassword, Begin
    <3>2. QED
      BY <2>2, <2>3, <3>1
  <2>7. ASSUME NEW r \in Requests, NEW sid, refresh(r, sid) \/ logout(r, sid) PROVE FlowInv'
    <3>1. PICK name \in {"rotate", "revoke"} : Begin(r, [step |-> name, sid |-> sid])
      BY <2>7 DEF refresh, logout
    <3> DEFINE step == [step |-> name, sid |-> sid]
    <3>2. step.step # "exchange"
      OBVIOUS
    <3>3. request' = [request EXCEPT ![r] = step] /\ UNCHANGED <<flows, started>>
      BY <2>7, <3>1 DEF refresh, logout, Begin
    <3> HIDE DEF step
    <3>4. QED
      BY <2>2, <3>2, <3>3
  <2>8. ASSUME NEW r \in Requests, NEW s, NEW login, upsertOidcUser(r, s, login) PROVE FlowInv'
    <3>1. UNCHANGED <<flows, started>>
      BY <2>8 DEF upsertOidcUser
    <3>2. CASE Proceed(r, Issuing(FirstOf(findByOidcSubject(s)), 0))
      BY <2>2, <2>3, <3>1, <3>2 DEF Proceed
    <3>3. CASE Proceed(r, [step |-> "insert user", user |-> [login |-> login, subject |-> s]])
      <4> DEFINE step == [step |-> "insert user", user |-> [login |-> login, subject |-> s]]
      <4>1. step.step = "insert user"
        OBVIOUS
      <4>2. request' = [request EXCEPT ![r] = step]
        BY <3>3 DEF Proceed
      <4> HIDE DEF step
      <4>3. QED
        BY <2>2, <3>1, <4>1, <4>2
    <3>4. QED
      BY <2>8, <3>2, <3>3 DEF upsertOidcUser
  <2>9. ASSUME NEW r \in Requests, InsertUser(r) PROVE FlowInv'
    <3>1. /\ \/ request' = [request EXCEPT ![r] = Idle]
             \/ request' = [request EXCEPT ![r] = Issuing(Len(users'), 0)]
          /\ UNCHANGED <<flows, started>>
      BY <2>9 DEF InsertUser, Proceed
    <3>2. QED
      BY <2>2, <2>3, <3>1
  <2>10. ASSUME NEW r \in Requests, issueTokenPair(r) \/ Revoke(r) \/ Fail(r) PROVE FlowInv'
    <3>1. request' = [request EXCEPT ![r] = Idle] /\ UNCHANGED <<flows, started>>
      BY <2>10 DEF issueTokenPair, Revoke, Fail, Proceed
    <3>2. QED
      BY <2>2, <2>3, <3>1
  <2>11. ASSUME NEW r \in Requests, Rotate(r) PROVE FlowInv'
    <3>1. /\ request' = [request EXCEPT ![r] = Issuing(sessions[request[r].sid].user, sessions[request[r].sid].root)]
          /\ UNCHANGED <<flows, started>>
      BY <2>11 DEF Rotate, Proceed
    <3>2. QED
      BY <2>2, <2>3, <3>1
  <2>12. QED
    BY <2>1, <2>5, <2>6, <2>7, <2>8, <2>9, <2>10, <2>11, FlowStarted, FlowTaken DEF Next
<1>3. QED
  BY <1>1, <1>2, PTL DEF Spec

\* The state of an authorisation flow is good for one login, whatever comes
\* back twice, expires or is dropped, and no more than FLOW_MAX + 1 flows are
\* kept.
THEOREM FlowsCorrect == Spec => []FlowsAreUsedOnce
<1>1. FlowInv => FlowsAreUsedOnce
  BY DEF FlowInv, Exchanged, Exchanges, FlowsAreUsedOnce
<1>2. QED
  BY <1>1, FlowInvariance, PTL

=============================================================================
