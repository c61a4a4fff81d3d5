-------------------------- MODULE TaskSocketProofs --------------------------
(***************************************************************************)
(* What holds of the client's connections and of the subscriptions the     *)
(* server keeps for them, with any number of connections, tasks, messages  *)
(* under way, cuts and restarts.                                           *)
(*                                                                         *)
(* Subscriptions: a connection that is not open yet carries nothing        *)
(* (Fresh), so the subscriptions sent when it opens are all it is told,    *)
(* and from then on every change is sent as it is made; what counts is     *)
(* the last message about a task (WillHold), which handling a message      *)
(* does not change.                                                        *)
(*                                                                         *)
(* Connections: while connect() was called at most once, a second one      *)
(* could only come from the reconnect timer, which is armed only when the  *)
(* last one is gone or could not be made (Single).                         *)
(***************************************************************************)
EXTENDS TaskSocket, FiniteSetTheorems, FunctionTheorems, SequenceTheorems, TLAPS

Messages == [type : {"subscribe", "unsubscribe"}, task : Tasks]
Ends == [client : {"none", "connecting", "open", "closing"}, server : {"none", "open"},
         subs : SUBSET Tasks, refused : SUBSET Tasks, alive : BOOLEAN, up : Seq(Messages)]

Typed ==
  /\ shouldConnect \in BOOLEAN /\ reconnectTimer \in BOOLEAN
  /\ ws \in {0} \cup Connections
  /\ subscriptions \subseteq Tasks /\ IsFiniteSet(subscriptions)
  /\ conn \in [Connections -> Ends]
  /\ ws # 0 => conn[ws].client # "none"
  /\ connects \in Nat

\* Before it is open a connection has carried no message.
Fresh ==
  \A c \in Connections : conn[c].client = "connecting" =>
    conn[c].up = <<>> /\ conn[c].subs = {} /\ conn[c].refused = {}

Capped ==
  \A c \in Connections : IsFiniteSet(conn[c].subs) /\ Cardinality(conn[c].subs) <= wsMaxSubscriptions

Follows ==
  CanSend /\ conn[ws].server = "open" =>
    \A t \in Tasks : WillHold(conn[ws], t) <=> t \in subscriptions

\* While connect() was called at most once, there is at most one connection
\* with a client's end, the one the client holds as long as it wants one, and
\* the timer is armed only when there is none.
Single ==
  connects <= 1 =>
    /\ \A c, d \in Connections : conn[c].client # "none" /\ conn[d].client # "none" => c = d
    /\ \A c \in Connections : conn[c].client # "none" =>
         connects = 1 /\ ~reconnectTimer /\ (shouldConnect => ws = c)
    /\ reconnectTimer => shouldConnect /\ ws = 0
    /\ ~shouldConnect => \A c \in Connections : ~Usable(c)
    /\ connects = 0 => ~shouldConnect

-----------------------------------------------------------------------------
\* ----- the ends of one connection ----------------------------------------
LEMMA NoConnectionTyped ==
  /\ NoConnection \in Ends /\ NoConnection.client = "none" /\ NoConnection.server = "none"
  /\ NoConnection.subs = {} /\ NoConnection.refused = {} /\ NoConnection.up = <<>>
<1>1. <<>> \in Seq(Messages) /\ TRUE \in BOOLEAN
  OBVIOUS
<1>2. \A b \in BOOLEAN : LET r == [client |-> "none", server |-> "none", subs |-> {}, refused |-> {},
                                   alive |-> b, up |-> <<>>] IN
        /\ r \in Ends /\ r.client = "none" /\ r.server = "none"
        /\ r.subs = {} /\ r.refused = {} /\ r.up = <<>>
  BY <1>1 DEF Ends
<1>3. QED
  BY <1>2 DEF NoConnection

\* The types of a connection that is left.
LEMMA LeftEnds ==
  ASSUME NEW r \in Ends
  PROVE  /\ Left(r) \in Ends /\ Left(r).client = r.client /\ Left(r).server = r.server
         /\ Left(r).subs \in {r.subs, {}}
         /\ r.client # "none" => Left(r) = r
BY NoConnectionTyped DEF Left

\* The types of a connection whose client's end is gone or going.
LEMMA ClientEndEnds ==
  ASSUME NEW r \in Ends, NEW state \in {"none", "closing"}
  PROVE  /\ ClientEnd(r, state) \in Ends /\ ClientEnd(r, state).client = state
         /\ ClientEnd(r, state).subs \in {r.subs, {}}
<1> DEFINE e == [r EXCEPT !.client = state, !.up = <<>>]
<1>1. e \in Ends /\ e.client = state /\ e.subs = r.subs
  <2>1. \A list \in Seq(Messages) : LET f == [r EXCEPT !.client = state, !.up = list] IN
          f \in Ends /\ f.client = state /\ f.subs = r.subs
    BY DEF Ends
  <2>2. <<>> \in Seq(Messages)
    OBVIOUS
  <2>3. QED
    BY <2>1, <2>2
<1>2. ClientEnd(r, state) = Left(e)
  BY DEF ClientEnd
<1> HIDE DEF e
<1>3. QED
  BY <1>1, <1>2, LeftEnds

\* The types of a connection whose server's end is gone.
LEMMA ServerGoneEnds ==
  ASSUME NEW r \in Ends
  PROVE  /\ ServerGone(r) \in Ends /\ ServerGone(r).subs \in {r.subs, {}}
         /\ ServerGone(r).client = IF r.client \in {"connecting", "open"} THEN "closing" ELSE r.client
<1> DEFINE end == IF r.client \in {"connecting", "open"} THEN "closing" ELSE r.client
           e == [r EXCEPT !.server = "none", !.up = <<>>, !.client = end]
<1>1. end \in {"none", "connecting", "open", "closing"}
  BY DEF Ends
<1>2. ServerGone(r) = Left(e)
  BY DEF ServerGone
<1> HIDE DEF end
<1>3. e \in Ends /\ e.client = end /\ e.subs = r.subs
  <2>1. \A list \in Seq(Messages) :
          LET f == [r EXCEPT !.server = "none", !.up = list, !.client = end] IN
          f \in Ends /\ f.client = end /\ f.subs = r.subs
    BY <1>1 DEF Ends
  <2>2. <<>> \in Seq(Messages)
    OBVIOUS
  <2>3. QED
    BY <2>1, <2>2
<1> HIDE DEF e
<1>4. QED
  BY <1>2, <1>3, LeftEnds DEF end

\* Handling a message: the task is held afterwards if it was a subscription,
\* the others stay, and the limit is kept.
LEMMA HandledEnds ==
  ASSUME NEW r \in Ends, NEW m \in Messages,
         IsFiniteSet(r.subs), Cardinality(r.subs) <= wsMaxSubscriptions
  PROVE  LET h == Handled(r, m) IN
         /\ h \in Ends /\ h.client = r.client /\ h.server = r.server /\ h.up = r.up
         /\ m.task \in h.subs \cup h.refused <=> m.type = "subscribe"
         /\ \A t \in Tasks : t # m.task => (t \in h.subs \cup h.refused <=> t \in r.subs \cup r.refused)
         /\ IsFiniteSet(h.subs) /\ Cardinality(h.subs) <= wsMaxSubscriptions
<1> DEFINE h == Handled(r, m)
           With(S, R) == [r EXCEPT !.subs = S, !.refused = R]
<1>0. SUFFICES
         /\ h \in Ends /\ h.client = r.client /\ h.server = r.server /\ h.up = r.up
         /\ m.task \in h.subs \cup h.refused <=> m.type = "subscribe"
         /\ \A t \in Tasks : t # m.task => (t \in h.subs \cup h.refused <=> t \in r.subs \cup r.refused)
         /\ IsFiniteSet(h.subs) /\ Cardinality(h.subs) <= wsMaxSubscriptions
  OBVIOUS
<1>1. m.type \in {"subscribe", "unsubscribe"} /\ m.task \in Tasks
  BY DEF Messages
<1>2. \A S, R \in SUBSET Tasks :
        /\ With(S, R) \in Ends /\ With(S, R).client = r.client /\ With(S, R).server = r.server
        /\ With(S, R).up = r.up /\ With(S, R).subs = S /\ With(S, R).refused = R
  BY DEF Ends
<1>3. r.subs \in SUBSET Tasks /\ r.refused \in SUBSET Tasks
  BY DEF Ends
<1>4. wsMaxSubscriptions \in Nat /\ Cardinality(r.subs) \in Nat
  BY BoundsAssumption, FS_CardinalityType
<1> HIDE DEF h, With
<1>5. CASE m.type = "unsubscribe"
  <2>1. h = With(r.subs \ {m.task}, r.refused \ {m.task})
    BY <1>5 DEF Handled, h, With
  <2>2. /\ h \in Ends /\ h.client = r.client /\ h.server = r.server /\ h.up = r.up
        /\ h.subs = r.subs \ {m.task} /\ h.refused = r.refused \ {m.task}
    BY <1>2, <1>3, <2>1
  <2>3. IsFiniteSet(r.subs \ {m.task}) /\ Cardinality(r.subs \ {m.task}) <= Cardinality(r.subs)
    BY FS_Subset
  <2>4. Cardinality(r.subs \ {m.task}) \in Nat
    BY <2>3, FS_CardinalityType
  <2>5. Cardinality(r.subs \ {m.task}) <= wsMaxSubscriptions
    BY <1>4, <2>3, <2>4
  <2>6. QED
    BY <1>5, <2>2, <2>3, <2>5
<1>6. CASE m.type = "subscribe" /\ Cardinality(r.subs) >= wsMaxSubscriptions
  <2>1. h = [r EXCEPT !.refused = r.refused \cup {m.task}]
    BY <1>6 DEF Handled, h, With
  <2>2. [r EXCEPT !.refused = r.refused \cup {m.task}]
        = With(r.subs, r.refused \cup {m.task})
    BY DEF Ends, With
  <2>3. /\ h \in Ends /\ h.client = r.client /\ h.server = r.server /\ h.up = r.up
        /\ h.subs = r.subs /\ h.refused = r.refused \cup {m.task}
    BY <1>1, <1>2, <1>3, <2>1, <2>2
  <2>4. QED
    BY <1>6, <2>3
<1>7. CASE m.type = "subscribe" /\ ~(Cardinality(r.subs) >= wsMaxSubscriptions)
  <2>1. h = With(r.subs \cup {m.task}, r.refused \ {m.task})
    BY <1>7 DEF Handled, h, With
  <2>2. /\ h \in Ends /\ h.client = r.client /\ h.server = r.server /\ h.up = r.up
        /\ h.subs = r.subs \cup {m.task} /\ h.refused = r.refused \ {m.task}
    BY <1>1, <1>2, <1>3, <2>1
  <2>3. /\ IsFiniteSet(r.subs \cup {m.task})
        /\ Cardinality(r.subs \cup {m.task})
             = IF m.task \in r.subs THEN Cardinality(r.subs) ELSE Cardinality(r.subs) + 1
    BY FS_AddElement
  <2>4. Cardinality(r.subs \cup {m.task}) <= wsMaxSubscriptions
    BY <1>4, <1>7, <2>3
  <2>5. QED
    BY <1>7, <2>2, <2>3, <2>4
<1>8. QED
  BY <1>1, <1>5, <1>6, <1>7

-----------------------------------------------------------------------------
\* ----- what a connection will hold ----------------------------------------

\* Messages about other tasks change nothing.
LEMMA HoldOther ==
  ASSUME NEW r \in Ends, NEW q \in Ends, NEW new \in Seq(Messages), NEW t \in Tasks,
         q.up = r.up \o new, q.subs = r.subs, q.refused = r.refused,
         \A n \in 1 .. Len(new) : new[n].task # t
  PROVE  WillHold(q, t) <=> WillHold(r, t)
<1>1. r.up \in Seq(Messages) /\ Len(r.up) \in Nat /\ Len(new) \in Nat
  BY DEF Ends
<1>2. /\ DOMAIN r.up = 1 .. Len(r.up) /\ DOMAIN q.up = 1 .. Len(r.up) + Len(new)
      /\ \A n \in 1 .. Len(r.up) : q.up[n] = r.up[n]
      /\ \A n \in Len(r.up) + 1 .. Len(r.up) + Len(new) : q.up[n] = new[n - Len(r.up)]
  BY <1>1
<1>3. \A n \in Len(r.up) + 1 .. Len(r.up) + Len(new) : q.up[n].task # t
  <2>1. \A n \in Len(r.up) + 1 .. Len(r.up) + Len(new) : n - Len(r.up) \in 1 .. Len(new)
    BY <1>1
  <2>2. QED
    BY <1>2, <2>1
<1>4. \A n \in 1 .. Len(r.up) + Len(new) : n \in 1 .. Len(r.up) \/ n \in Len(r.up) + 1 .. Len(r.up) + Len(new)
  BY <1>1
<1>5. {n \in DOMAIN q.up : q.up[n].task = t} = {n \in DOMAIN r.up : r.up[n].task = t}
  <2>1. \A n \in 1 .. Len(r.up) : n \in 1 .. Len(r.up) + Len(new)
    BY <1>1
  <2>2. QED
    BY <1>2, <1>3, <1>4, <2>1
<1>6. QED
  BY <1>2, <1>5 DEF WillHold

\* The last of the new messages about a task decides.
LEMMA HoldLast ==
  ASSUME NEW r \in Ends, NEW q \in Ends, NEW new \in Seq(Messages), NEW t \in Tasks,
         q.up = r.up \o new, NEW last \in 1 .. Len(new), new[last].task = t,
         \A n \in 1 .. Len(new) : new[n].task = t => n <= last
  PROVE  WillHold(q, t) <=> new[last].type = "subscribe"
<1>1. r.up \in Seq(Messages) /\ Len(r.up) \in Nat /\ Len(new) \in Nat /\ last \in Nat
  BY DEF Ends
<1> DEFINE at == Len(r.up) + last
           about == {n \in DOMAIN q.up : q.up[n].task = t}
<1>2. /\ DOMAIN q.up = 1 .. Len(r.up) + Len(new)
      /\ \A n \in Len(r.up) + 1 .. Len(r.up) + Len(new) : q.up[n] = new[n - Len(r.up)]
  BY <1>1
<1>3. at \in Len(r.up) + 1 .. Len(r.up) + Len(new) /\ at - Len(r.up) = last /\ at \in 1 .. Len(r.up) + Len(new)
  BY <1>1
<1>4. at \in about /\ q.up[at] = new[last]
  BY <1>2, <1>3
<1>5. ASSUME NEW n \in about PROVE n <= at
  <2>1. n \in 1 .. Len(r.up) + Len(new)
    BY <1>2
  <2>2. CASE n <= Len(r.up)
    BY <1>1, <2>1, <2>2
  <2>3. CASE ~(n <= Len(r.up))
    <3>1. n \in Len(r.up) + 1 .. Len(r.up) + Len(new) /\ n - Len(r.up) \in 1 .. Len(new)
      BY <1>1, <2>1, <2>3, SMTT(30)
    <3>2. new[n - Len(r.up)].task = t
      BY <1>2, <3>1
    <3>3. n - Len(r.up) <= last
      BY <3>1, <3>2
    <3>4. QED
      BY <1>1, <2>1, <3>3
  <2>4. QED
    BY <2>2, <2>3
<1>6. \A n \in about : (\A other \in about : other <= n) => n = at
  <2>1. \A n \in about : n \in Nat
    BY <1>1, <1>2
  <2>2. at \in Nat
    BY <1>1
  <2> HIDE DEF at, about
  <2>3. QED
    BY <1>4, <1>5, <2>1, <2>2
<1>7. WillHold(q, t) <=> \/ about = {} /\ t \in q.subs \cup q.refused
                         \/ \E n \in about : q.up[n].type = "subscribe" /\ \A other \in about : other <= n
  BY DEF WillHold
<1> HIDE DEF at, about
<1>8. QED
  BY <1>4, <1>5, <1>6, <1>7

\* Handling the first message changes nothing of it.
LEMMA HoldHandled ==
  ASSUME NEW r \in Ends, r.up # <<>>, NEW q \in Ends, NEW t \in Tasks,
         q.up = Tail(r.up),
         r.up[1].task \in q.subs \cup q.refused <=> r.up[1].type = "subscribe",
         \A o \in Tasks : o # r.up[1].task => (o \in q.subs \cup q.refused <=> o \in r.subs \cup r.refused)
  PROVE  WillHold(q, t) <=> WillHold(r, t)
<1>1. r.up \in Seq(Messages) /\ Len(r.up) \in Nat \ {0}
  BY DEF Ends
<1> DEFINE N == Len(r.up)
           about == {n \in DOMAIN r.up : r.up[n].task = t}
           later == {n \in DOMAIN q.up : q.up[n].task = t}
<1>2. /\ DOMAIN r.up = 1 .. N /\ DOMAIN q.up = 1 .. N - 1
      /\ \A n \in 1 .. N - 1 : q.up[n] = r.up[n + 1]
  BY <1>1
<1>3. \A n \in 1 .. N - 1 : n + 1 \in 2 .. N
  BY <1>1
<1>4. \A n \in 2 .. N : n - 1 \in 1 .. N - 1 /\ n - 1 + 1 = n /\ n \in 1 .. N
  BY <1>1
<1>5. /\ \A n \in later : n + 1 \in about /\ n + 1 # 1 /\ q.up[n] = r.up[n + 1]
      /\ \A n \in about : n # 1 => n - 1 \in later /\ n - 1 + 1 = n
      /\ \A n \in about : n \in Nat /\ n >= 1
      /\ \A n \in later : n \in Nat /\ n >= 1
  <2>1. \A n \in 1 .. N : n # 1 => n \in 2 .. N
    BY <1>1
  <2>2. QED
    BY <1>1, <1>2, <1>3, <1>4, <2>1
<1>6. 1 \in about <=> r.up[1].task = t
  BY <1>1, <1>2
<1>7. /\ WillHold(q, t) <=> \/ later = {} /\ t \in q.subs \cup q.refused
                            \/ \E n \in later : q.up[n].type = "subscribe" /\ \A other \in later : other <= n
      /\ WillHold(r, t) <=> \/ about = {} /\ t \in r.subs \cup r.refused
                            \/ \E n \in about : r.up[n].type = "subscribe" /\ \A other \in about : other <= n
  BY DEF WillHold
<1> HIDE DEF N, about, later
<1>8. CASE later = {}
  <2>1. \A n \in about : n = 1
    BY <1>5, <1>8
  <2>2. CASE r.up[1].task = t
    <3>1. about = {1}
      BY <1>6, <2>1, <2>2
    <3>2. WillHold(r, t) <=> r.up[1].type = "subscribe"
      BY <1>7, <3>1
    <3>3. QED
      BY <1>7, <1>8, <2>2, <3>2
  <2>3. CASE r.up[1].task # t
    <3>1. about = {}
      BY <1>6, <2>1, <2>3
    <3>2. QED
      BY <1>7, <1>8, <2>3, <3>1
  <2>4. QED
    BY <2>2, <2>3
<1>9. CASE later # {}
  <2>1. about # {}
    BY <1>5, <1>9
  <2>2. ASSUME NEW n \in later, q.up[n].type = "subscribe", \A other \in later : other <= n
        PROVE  n + 1 \in about /\ r.up[n + 1].type = "subscribe" /\ \A other \in about : other <= n + 1
    <3>1. ASSUME NEW other \in about PROVE other <= n + 1
      <4>1. CASE other = 1
        BY <1>5, <4>1
      <4>2. CASE other # 1
        <5>1. other - 1 \in later /\ other \in Nat /\ n \in Nat
          BY <1>5, <4>2
        <5>2. other - 1 <= n
          BY <2>2, <5>1
        <5>3. QED
          BY <5>1, <5>2
      <4>3. QED
        BY <4>1, <4>2
    <3>2. QED
      BY <1>5, <2>2, <3>1
  <2>3. ASSUME NEW n \in about, r.up[n].type = "subscribe", \A other \in about : other <= n
        PROVE  n - 1 \in later /\ q.up[n - 1].type = "subscribe" /\ \A other \in later : other <= n - 1
    <3>1. PICK m \in later : TRUE
      BY <1>9
    <3>2. m + 1 \in about /\ m \in Nat /\ m >= 1 /\ n \in Nat
      BY <1>5
    <3>3. m + 1 <= n
      BY <2>3, <3>2
    <3>4. n # 1
      BY <3>2, <3>3
    <3>5. n - 1 \in later /\ n - 1 + 1 = n
      BY <1>5, <3>4
    <3>6. q.up[n - 1] = r.up[n]
      BY <1>5, <3>5
    <3>7. ASSUME NEW other \in later PROVE other <= n - 1
      <4>1. other + 1 \in about /\ other \in Nat
        BY <1>5
      <4>2. other + 1 <= n
        BY <2>3, <4>1
      <4>3. QED
        BY <3>2, <4>1, <4>2
    <3>8. QED
      BY <2>3, <3>5, <3>6, <3>7
  <2>4. QED
    BY <1>7, <1>9, <2>1, <2>2, <2>3
<1>10. QED
  BY <1>8, <1>9

\* The subscriptions in the order of the Set: each of them, once.
LEMMA Enumerated ==
  ASSUME NEW S, IsFiniteSet(S), NEW order \in SetToSeqs(S)
  PROVE  /\ order \in [1 .. Cardinality(S) -> S] /\ Cardinality(S) \in Nat
         /\ \A x \in S : \E n \in 1 .. Cardinality(S) : order[n] = x
         /\ \A m, n \in 1 .. Cardinality(S) : order[m] = order[n] => m = n
<1> DEFINE D == 1 .. Cardinality(S)
<1>1. Cardinality(S) \in Nat
  BY FS_CardinalityType
<1>2. order \in [D -> S] /\ \A m, n \in D : order[m] = order[n] => m = n
  BY DEF SetToSeqs
<1>3. \A n \in Nat : IsFiniteSet(1 .. n) /\ Cardinality(1 .. n) = n
  BY FS_Interval
<1>4. IsFiniteSet(D) /\ Cardinality(D) = Cardinality(S)
  BY <1>1, <1>3
<1>5. order \in Injection(D, S)
  BY <1>2 DEF Injection, IsInjective
<1> HIDE DEF D
<1>6. order \in Surjection(D, S)
  BY <1>4, <1>5, FS_Injection
<1>7. \A x \in S : \E n \in D : order[n] = x
  BY <1>6 DEF Surjection
<1>8. QED
  BY <1>1, <1>2, <1>7 DEF D

-----------------------------------------------------------------------------
\* ----- what a step leaves of a connection ---------------------------------

\* A connection that goes on is what it was; otherwise it is on its way out.
Kept(c) ==
  /\ conn'[c] \in Ends
  /\ conn'[c].subs \in {conn[c].subs, {}}
  /\ conn'[c].client # "none" => conn[c].client # "none"
  /\ conn'[c].client = "none" => conn[c].client = "none" \/ ws' = 0
  /\ conn'[c].client \in {"connecting", "open"} =>
       /\ conn'[c].client = conn[c].client
       /\ conn[c].client = "connecting" \/ conn'[c].server = "open" => conn'[c].up = conn[c].up
       /\ conn'[c].subs = conn[c].subs /\ conn'[c].refused = conn[c].refused
       /\ conn[c].client = "open" /\ conn'[c].server = "open" => conn[c].server = "open"

\* A connection that stays as it is.
LEMMA KeptSame ==
  ASSUME Typed, NEW c \in Connections, conn'[c] = conn[c] PROVE Kept(c)
BY DEF Typed, Kept

\* A connection whose client's end is gone or going.
LEMMA KeptEnded ==
  ASSUME Typed, NEW c \in Connections, NEW state \in {"none", "closing"}, conn[c].client # "none",
         state = "none" => ws' = 0, conn'[c] = ClientEnd(conn[c], state)
  PROVE  Kept(c)
<1>1. conn[c] \in Ends
  BY DEF Typed
<1>2. QED
  BY <1>1, ClientEndEnds DEF Kept

\* A connection whose server's end is gone.
LEMMA KeptGone ==
  ASSUME Typed, NEW c \in Connections, conn'[c] = ServerGone(conn[c])
  PROVE  Kept(c)
<1>1. conn[c] \in Ends
  BY DEF Typed
<1>2. QED
  BY <1>1, ServerGoneEnds DEF Kept

\* A connection that is marked alive or not.
LEMMA KeptMarked ==
  ASSUME Typed, NEW c \in Connections, NEW b \in BOOLEAN, conn'[c] = [conn[c] EXCEPT !.alive = b]
  PROVE  Kept(c)
<1>1. conn[c] \in Ends
  BY DEF Typed
<1>2. /\ conn'[c] \in Ends /\ conn'[c].subs = conn[c].subs /\ conn'[c].client = conn[c].client
      /\ conn'[c].up = conn[c].up /\ conn'[c].refused = conn[c].refused /\ conn'[c].server = conn[c].server
  BY <1>1 DEF Ends
<1>3. QED
  BY <1>2 DEF Kept

\* A connection that the server takes.
LEMMA KeptUpgraded ==
  ASSUME Typed, NEW c \in Connections, conn[c].client = "connecting", NEW b \in BOOLEAN,
         conn'[c] = [conn[c] EXCEPT !.server = "open", !.alive = b]
  PROVE  Kept(c)
<1>1. conn[c] \in Ends
  BY DEF Typed
<1>2. /\ conn'[c] \in Ends /\ conn'[c].subs = conn[c].subs /\ conn'[c].client = conn[c].client
      /\ conn'[c].up = conn[c].up /\ conn'[c].refused = conn[c].refused
  BY <1>1 DEF Ends
<1>3. QED
  BY <1>2 DEF Kept

\* A connection that is lost, open on the client's side only.
LEMMA KeptLost ==
  ASSUME Typed, NEW c \in Connections, conn[c].client = "open",
         conn'[c] = [conn[c] EXCEPT !.server = "none", !.up = <<>>]
  PROVE  Kept(c)
<1>1. conn[c] \in Ends /\ <<>> \in Seq(Messages)
  BY DEF Typed
<1>2. \A list \in Seq(Messages) : LET r == [conn[c] EXCEPT !.server = "none", !.up = list] IN
        r \in Ends /\ r.client = "open" /\ r.server = "none"
        /\ r.subs = conn[c].subs /\ r.refused = conn[c].refused
  BY <1>1 DEF Ends
<1>3. /\ conn'[c] \in Ends /\ conn'[c].client = "open" /\ conn'[c].server = "none"
      /\ conn'[c].subs = conn[c].subs /\ conn'[c].refused = conn[c].refused
  BY <1>1, <1>2
<1>4. QED
  BY <1>3 DEF Kept

\* A connection that the server refuses or the client gives up.
LEMMA KeptRefused ==
  ASSUME Typed, NEW c \in Connections, conn[c].client \in {"connecting", "open"},
         conn'[c] = [conn[c] EXCEPT !.client = "closing"]
  PROVE  Kept(c)
<1>1. conn[c] \in Ends
  BY DEF Typed
<1>2. conn'[c] \in Ends /\ conn'[c].subs = conn[c].subs /\ conn'[c].client = "closing"
  BY <1>1 DEF Ends
<1>3. QED
  BY <1>2 DEF Kept

\* The steps that take connections away or leave them: nothing is said on a
\* connection and the client wants what it wanted.
LEMMA AllKept ==
  ASSUME Typed,
         \/ close \/ Heartbeat \/ Expire \/ Restart \/ UNCHANGED vars
         \/ \E c \in Connections : Closed(c) \/ Upgrade(c) \/ Pong(c)
         \/ \E c \in Connections : Drop(c) \/ Lose(c) \/ ClientNotices(c) \/ ServerNotices(c)
  PROVE  /\ \A c \in Connections : Kept(c)
         /\ conn' \in [Connections -> Ends] /\ ws' \in {ws, 0}
         /\ UNCHANGED <<subscriptions, connects>>
         /\ shouldConnect' \in BOOLEAN /\ reconnectTimer' \in BOOLEAN
<1> DEFINE Goal == /\ \A c \in Connections : Kept(c)
                   /\ conn' \in [Connections -> Ends] /\ ws' \in {ws, 0}
                   /\ UNCHANGED <<subscriptions, connects>>
                   /\ shouldConnect' \in BOOLEAN /\ reconnectTimer' \in BOOLEAN
<1>1. conn \in [Connections -> Ends] /\ shouldConnect \in BOOLEAN /\ reconnectTimer \in BOOLEAN
  BY DEF Typed
<1>2. ASSUME UNCHANGED client, conn' = [c \in Connections |-> conn'[c]], \A c \in Connections : Kept(c) PROVE Goal
  <2>1. \A c \in Connections : conn'[c] \in Ends
    BY <1>2 DEF Kept
  <2>2. conn' \in [Connections -> Ends]
    BY <1>2, <2>1
  <2>3. QED
    BY <1>1, <1>2, <2>2 DEF client
<1>3. ASSUME NEW c \in Connections, NEW r, conn' = [conn EXCEPT ![c] = r]
      PROVE  /\ conn' = [d \in Connections |-> conn'[d]] /\ conn'[c] = r
             /\ \A d \in Connections : d # c => conn'[d] = conn[d]
  BY <1>1, <1>3
<1>4. ASSUME NEW c \in Connections, NEW r, conn' = [conn EXCEPT ![c] = r], Kept(c)
      PROVE  \A d \in Connections : Kept(d)
  BY <1>3, <1>4, KeptSame
<1>5. CASE close
  <2>1. /\ ws' = 0 /\ shouldConnect' \in BOOLEAN /\ reconnectTimer' \in BOOLEAN
        /\ UNCHANGED <<subscriptions, connects>>
    BY <1>5 DEF close
  <2>2. CASE ws = 0
    <3>1. conn' = conn
      BY <1>5, <2>2 DEF close
    <3>2. QED
      BY <1>1, <2>1, <3>1, KeptSame
  <2>3. CASE ws # 0
    <3>1. conn' = [conn EXCEPT ![ws] = ClientEnd(conn[ws], "closing")]
      BY <1>5, <2>3 DEF close
    <3>2. ws \in Connections /\ conn[ws].client # "none"
      BY <2>3 DEF Typed
    <3>3. conn'[ws] = ClientEnd(conn[ws], "closing") /\ conn' = [d \in Connections |-> conn'[d]]
      BY <1>3, <3>1, <3>2
    <3>4. Kept(ws)
      BY <3>2, <3>3, KeptEnded
    <3>5. \A d \in Connections : Kept(d)
      BY <1>4, <3>1, <3>2, <3>4
    <3>6. \A d \in Connections : conn'[d] \in Ends
      BY <3>5 DEF Kept
    <3>7. conn' \in [Connections -> Ends]
      BY <3>3, <3>6
    <3>8. QED
      BY <2>1, <3>5, <3>7
  <2>4. QED
    BY <2>2, <2>3
<1>6. CASE Heartbeat
  <2>1. /\ conn' = [c \in Connections |-> IF conn[c].server = "open" THEN Beat(conn[c]) ELSE conn[c]]
        /\ UNCHANGED client
    BY <1>6 DEF Heartbeat
  <2>2. ASSUME NEW c \in Connections PROVE Kept(c)
    <3>1. conn'[c] \in {ServerGone(conn[c]), [conn[c] EXCEPT !.alive = FALSE], conn[c]}
      BY <2>1 DEF Beat
    <3>2. QED
      BY <3>1, KeptGone, KeptMarked, KeptSame
  <2>3. QED
    BY <1>2, <2>1, <2>2
<1>7. CASE Expire \/ UNCHANGED vars
  <2>1. conn' = conn /\ UNCHANGED client
    BY <1>7 DEF Expire, vars
  <2>2. QED
    BY <1>1, <1>2, <2>1, KeptSame
<1>8. CASE Restart
  <2>1. conn' = [c \in Connections |-> ServerGone(conn[c])] /\ UNCHANGED client
    BY <1>8 DEF Restart
  <2>2. QED
    BY <1>2, <2>1, KeptGone
<1>9. ASSUME NEW c \in Connections, Closed(c) PROVE Goal
  <2>1. /\ conn[c].client = "closing" /\ ws' = 0 /\ conn' = [conn EXCEPT ![c] = ClientEnd(conn[c], "none")]
        /\ UNCHANGED <<subscriptions, connects, shouldConnect>>
        /\ reconnectTimer' = (reconnectTimer \/ shouldConnect')
    BY <1>9 DEF Closed, scheduleReconnect
  <2>2. conn'[c] = ClientEnd(conn[c], "none") /\ conn' = [d \in Connections |-> conn'[d]]
    BY <1>3, <2>1
  <2>3. Kept(c)
    BY <2>1, <2>2, KeptEnded
  <2>4. \A d \in Connections : Kept(d)
    BY <1>4, <2>1, <2>3
  <2>5. \A d \in Connections : conn'[d] \in Ends
    BY <2>4 DEF Kept
  <2>6. conn' \in [Connections -> Ends]
    BY <2>2, <2>5
  <2>7. QED
    BY <1>1, <2>1, <2>4, <2>6
<1>10. ASSUME NEW c \in Connections, NEW r, UNCHANGED client, conn' = [conn EXCEPT ![c] = r],
              conn'[c] = r => Kept(c)
       PROVE  Goal
  <2>1. conn'[c] = r /\ conn' = [d \in Connections |-> conn'[d]]
    BY <1>3, <1>10
  <2>2. Kept(c)
    BY <1>10, <2>1
  <2>3. \A d \in Connections : Kept(d)
    BY <1>4, <1>10, <2>2
  <2>4. QED
    BY <1>2, <1>10, <2>1, <2>3
<1>11. ASSUME NEW c \in Connections, Upgrade(c) PROVE Goal
  <2>1. CASE session # "gone"
    <3>1. /\ conn' = [conn EXCEPT ![c] = [conn[c] EXCEPT !.server = "open", !.alive = TRUE]]
          /\ conn[c].client = "connecting" /\ UNCHANGED client
      BY <1>11, <2>1 DEF Upgrade
    <3>2. conn'[c] = [conn[c] EXCEPT !.server = "open", !.alive = TRUE] => Kept(c)
      BY <3>1, KeptUpgraded
    <3>3. QED
      BY <1>10, <3>1, <3>2
  <2>2. CASE session = "gone"
    <3>1. /\ conn' = [conn EXCEPT ![c] = [conn[c] EXCEPT !.client = "closing"]]
          /\ conn[c].client = "connecting" /\ UNCHANGED client
      BY <1>11, <2>2 DEF Upgrade
    <3>2. conn'[c] = [conn[c] EXCEPT !.client = "closing"] => Kept(c)
      BY <3>1, KeptRefused
    <3>3. QED
      BY <1>10, <3>1, <3>2
  <2>3. QED
    BY <2>1, <2>2
<1>12. ASSUME NEW c \in Connections, Pong(c) PROVE Goal
  <2>1. conn' = [conn EXCEPT ![c] = [conn[c] EXCEPT !.alive = TRUE]] /\ UNCHANGED client
    BY <1>12 DEF Pong
  <2>2. conn'[c] = [conn[c] EXCEPT !.alive = TRUE] => Kept(c)
    BY KeptMarked
  <2>3. QED
    BY <1>10, <2>1, <2>2
<1>13. ASSUME NEW c \in Connections, Drop(c) PROVE Goal
  <2>1. /\ conn' = [conn EXCEPT ![c] = ClientEnd(conn[c], "closing")] /\ UNCHANGED client
        /\ conn[c].client # "none"
    BY <1>13 DEF Drop, Usable
  <2>2. conn'[c] = ClientEnd(conn[c], "closing") => Kept(c)
    BY <2>1, KeptEnded
  <2>3. QED
    BY <1>10, <2>1, <2>2
<1>14. ASSUME NEW c \in Connections, ServerNotices(c) PROVE Goal
  <2>1. conn' = [conn EXCEPT ![c] = ServerGone(conn[c])] /\ UNCHANGED client
    BY <1>14 DEF ServerNotices
  <2>2. conn'[c] = ServerGone(conn[c]) => Kept(c)
    BY KeptGone
  <2>3. QED
    BY <1>10, <2>1, <2>2
<1>15. ASSUME NEW c \in Connections, Lose(c) PROVE Goal
  <2>1. conn' = [conn EXCEPT ![c] = [conn[c] EXCEPT !.server = "none", !.up = <<>>]] /\ UNCHANGED client
        /\ conn[c].client = "open"
    BY <1>15 DEF Lose
  <2>2. conn'[c] = [conn[c] EXCEPT !.server = "none", !.up = <<>>] => Kept(c)
    BY <2>1, KeptLost
  <2>3. QED
    BY <1>10, <2>1, <2>2
<1>16. ASSUME NEW c \in Connections, ClientNotices(c) PROVE Goal
  <2>1. conn' = [conn EXCEPT ![c] = [conn[c] EXCEPT !.client = "closing"]] /\ UNCHANGED client
        /\ conn[c].client = "open"
    BY <1>16 DEF ClientNotices
  <2>2. conn'[c] = [conn[c] EXCEPT !.client = "closing"] => Kept(c)
    BY <2>1, KeptRefused
  <2>3. QED
    BY <1>10, <2>1, <2>2
<1>17. QED
  BY <1>5, <1>6, <1>7, <1>8, <1>9, <1>11, <1>12, <1>13, <1>14, <1>15, <1>16

\* A client opens a socket only when it has no usable one, and arms the timer
\* when it gets none.
LEMMA EffectOfSocket ==
  ASSUME Typed, NEW armed \in BOOLEAN, shouldConnect' \in BOOLEAN, openSocket(armed)
  PROVE  \/ Usable(ws) /\ ws' = ws /\ conn' = conn /\ reconnectTimer' = armed
         \/ ~Usable(ws) /\ ws' = ws /\ conn' = conn /\ reconnectTimer' = (armed \/ shouldConnect')
         \/ \E c \in Connections :
              /\ ~Usable(ws) /\ ws' = c /\ c # 0 /\ reconnectTimer' = armed
              /\ conn[c] = NoConnection /\ conn' \in [Connections -> Ends]
              /\ conn'[c].client = "connecting" /\ conn'[c].server = "none"
              /\ conn'[c].up = <<>> /\ conn'[c].subs = {} /\ conn'[c].refused = {}
              /\ \A d \in Connections : d # c => conn'[d] = conn[d]
<1>1. CASE Usable(ws)
  BY <1>1 DEF openSocket
<1>2. CASE ~Usable(ws) /\ ~(UNCHANGED <<ws, conn>> /\ scheduleReconnect(armed))
  <2>1. PICK c \in Connections :
          /\ conn[c] = NoConnection /\ ws' = c /\ reconnectTimer' = armed
          /\ conn' = [conn EXCEPT ![c] = [conn[c] EXCEPT !.client = "connecting"]]
    BY <1>2 DEF openSocket
  <2> DEFINE r == [conn[c] EXCEPT !.client = "connecting"]
  <2>2. /\ r \in Ends /\ r.client = "connecting" /\ r.server = conn[c].server /\ r.up = conn[c].up
        /\ r.subs = conn[c].subs /\ r.refused = conn[c].refused
    BY DEF Typed, Ends
  <2>3. conn' = [conn EXCEPT ![c] = r]
    BY <2>1
  <2> HIDE DEF r
  <2>4. /\ conn' \in [Connections -> Ends] /\ conn'[c] = r
        /\ \A d \in Connections : d # c => conn'[d] = conn[d]
    BY <2>2, <2>3 DEF Typed
  <2>5. c # 0
    BY DEF Connections
  <2>6. QED
    BY <1>2, <2>1, <2>2, <2>4, <2>5, NoConnectionTyped
<1>3. CASE ~Usable(ws) /\ UNCHANGED <<ws, conn>> /\ scheduleReconnect(armed)
  BY <1>3 DEF scheduleReconnect
<1>4. QED
  BY <1>1, <1>2, <1>3

\* Messages go to the connection the client holds, once it is open.
LEMMA EffectOfSend ==
  ASSUME Typed, NEW type \in {"subscribe", "unsubscribe"}, NEW t \in Tasks, Send(type, t)
  PROVE  LET m == [type |-> type, task |-> t] IN
         /\ m \in Messages /\ m.type = type /\ m.task = t
         /\ conn' \in [Connections -> Ends]
         /\ ~CanSend => conn' = conn
         /\ CanSend => /\ \A d \in Connections : d # ws => conn'[d] = conn[d]
                       /\ conn'[ws].client = "open" /\ conn'[ws].server = conn[ws].server
                       /\ conn'[ws].subs = conn[ws].subs /\ conn'[ws].refused = conn[ws].refused
                       /\ conn'[ws].up = IF conn[ws].server = "open" THEN conn[ws].up \o <<m>>
                                         ELSE conn[ws].up
<1> DEFINE m == [type |-> type, task |-> t]
<1>1. m \in Messages /\ m.type = type /\ m.task = t
  BY DEF Messages
<1>2. CASE ~CanSend
  BY <1>1, <1>2 DEF Send, Typed
<1>3. CASE CanSend
  <2> DEFINE list == IF conn[ws].server = "open" THEN conn[ws].up \o <<m>> ELSE conn[ws].up
             r == [conn[ws] EXCEPT !.up = list]
  <2>1. ws \in Connections /\ conn[ws] \in Ends /\ conn[ws].client = "open"
    BY <1>3 DEF CanSend, Typed
  <2>2. conn' = [conn EXCEPT ![ws] = r]
    BY <1>3 DEF Send, Sent
  <2>3. conn[ws].up \in Seq(Messages)
    BY <2>1 DEF Ends
  <2>4. list \in Seq(Messages)
    <3>1. <<m>> \in Seq(Messages)
      BY <1>1
    <3> HIDE DEF m
    <3>2. QED
      BY <2>3, <3>1
  <2> HIDE DEF list
  <2>5. /\ r \in Ends /\ r.client = conn[ws].client /\ r.server = conn[ws].server
        /\ r.subs = conn[ws].subs /\ r.refused = conn[ws].refused /\ r.up = list
    BY <2>1, <2>4 DEF Ends
  <2> HIDE DEF r
  <2>6. /\ conn' \in [Connections -> Ends] /\ conn'[ws] = r
        /\ \A d \in Connections : d # ws => conn'[d] = conn[d]
    BY <2>1, <2>2, <2>5 DEF Typed
  <2>7. QED
    BY <1>1, <1>3, <2>1, <2>5, <2>6 DEF list
<1>4. QED
  BY <1>2, <1>3

-----------------------------------------------------------------------------
Inv == Typed /\ Fresh /\ Capped /\ Follows

\* A step in which every connection is what it was or on its way out.
LEMMA KeptStep ==
  ASSUME Inv, \A c \in Connections : Kept(c), conn' \in [Connections -> Ends], ws' \in {ws, 0},
         UNCHANGED <<subscriptions, connects>>, shouldConnect' \in BOOLEAN, reconnectTimer' \in BOOLEAN
  PROVE  Inv'
<1> USE DEF Inv
<1>1. Typed'
  BY DEF Typed, Kept
<1>2. Fresh'
  BY DEF Fresh, Kept
<1>3. Capped'
  <2>1. IsFiniteSet({}) /\ Cardinality({}) = 0 /\ wsMaxSubscriptions \in Nat
    BY FS_EmptySet, BoundsAssumption
  <2>2. 0 <= wsMaxSubscriptions
    BY <2>1
  <2>3. QED
    BY <2>1, <2>2 DEF Capped, Kept
<1>4. Follows'
  <2> SUFFICES ASSUME CanSend', conn'[ws'].server = "open", NEW t \in Tasks
               PROVE  WillHold(conn'[ws'], t) <=> t \in subscriptions
    BY DEF Follows
  <2>1. ws' = ws /\ ws \in Connections /\ conn'[ws].client = "open"
    BY DEF CanSend, Typed
  <2>2. /\ conn[ws].client = "open" /\ conn[ws].server = "open" /\ conn'[ws].up = conn[ws].up
        /\ conn'[ws].subs = conn[ws].subs /\ conn'[ws].refused = conn[ws].refused
    BY <2>1 DEF Kept
  <2>3. WillHold(conn'[ws], t) <=> WillHold(conn[ws], t)
    BY <2>2 DEF WillHold
  <2>4. CanSend
    BY <2>1, <2>2 DEF CanSend, Typed
  <2>5. QED
    BY <2>1, <2>2, <2>3, <2>4 DEF Follows
<1>5. QED
  BY <1>1, <1>2, <1>3, <1>4

\* A new socket keeps the invariant.
LEMMA SocketStep ==
  ASSUME Inv, NEW armed \in BOOLEAN, shouldConnect' \in BOOLEAN, openSocket(armed),
         UNCHANGED subscriptions, connects' \in Nat
  PROVE  Inv'
<1> USE DEF Inv
<1>0. reconnectTimer' \in BOOLEAN
  BY EffectOfSocket
<1>1. CASE ws' = ws /\ conn' = conn
  BY <1>0, <1>1 DEF Typed, Fresh, Capped, Follows, CanSend
<1>2. CASE ~(ws' = ws /\ conn' = conn)
  <2>1. PICK c \in Connections :
              /\ ws' = c /\ c # 0
              /\ conn[c] = NoConnection /\ conn' \in [Connections -> Ends]
              /\ conn'[c].client = "connecting"
              /\ conn'[c].up = <<>> /\ conn'[c].subs = {} /\ conn'[c].refused = {}
              /\ \A d \in Connections : d # c => conn'[d] = conn[d]
    BY <1>2, EffectOfSocket
  <2>2. Typed'
    BY <1>0, <2>1 DEF Typed
  <2>3. Fresh'
    BY <2>1 DEF Fresh
  <2>4. Capped'
    <3>1. conn'[c].subs = conn[c].subs
      BY <2>1, NoConnectionTyped
    <3>2. QED
      BY <2>1, <3>1 DEF Capped
  <2>5. Follows'
    BY <2>1 DEF Follows, CanSend
  <2>6. QED
    BY <2>2, <2>3, <2>4, <2>5
<1>3. QED
  BY <1>1, <1>2

\* A subscription, sent at once if the socket is open, keeps the invariant.
LEMMA SendStep ==
  ASSUME Inv, NEW t \in Tasks, NEW type \in {"subscribe", "unsubscribe"}, Send(type, t),
         subscriptions' = IF type = "subscribe" THEN subscriptions \cup {t} ELSE subscriptions \ {t},
         UNCHANGED <<shouldConnect, ws, reconnectTimer, connects>>
  PROVE  Inv'
<1> USE DEF Inv
<1> DEFINE m == [type |-> type, task |-> t]
<1>1. /\ m \in Messages /\ m.type = type /\ m.task = t
      /\ conn' \in [Connections -> Ends]
      /\ ~CanSend => conn' = conn
      /\ CanSend => /\ \A d \in Connections : d # ws => conn'[d] = conn[d]
                    /\ conn'[ws].client = "open" /\ conn'[ws].server = conn[ws].server
                    /\ conn'[ws].subs = conn[ws].subs /\ conn'[ws].refused = conn[ws].refused
                    /\ conn'[ws].up = IF conn[ws].server = "open" THEN conn[ws].up \o <<m>>
                                      ELSE conn[ws].up
  BY EffectOfSend
<1> HIDE DEF m
<1>2. subscriptions' \subseteq Tasks /\ IsFiniteSet(subscriptions')
  <2>1. IsFiniteSet(subscriptions \cup {t}) /\ IsFiniteSet(subscriptions \ {t})
    BY FS_AddElement, FS_Subset DEF Typed
  <2>2. QED
    BY <2>1 DEF Typed
<1>3. CanSend => ws \in Connections /\ conn[ws].client = "open"
  BY DEF CanSend, Typed
<1>4. Typed'
  BY <1>1, <1>2, <1>3 DEF Typed
<1>5. Fresh' /\ Capped'
  BY <1>1, <1>3 DEF Fresh, Capped
<1>6. Follows'
  <2> SUFFICES ASSUME CanSend', conn'[ws].server = "open", NEW o \in Tasks
               PROVE  WillHold(conn'[ws], o) <=> o \in subscriptions'
    BY DEF Follows
  <2>1. CanSend
    BY <1>1 DEF CanSend
  <2>2. conn[ws].server = "open" /\ conn'[ws].up = conn[ws].up \o <<m>>
    BY <1>1, <2>1
  <2>3. conn[ws] \in Ends /\ conn'[ws] \in Ends
    BY <1>1, <1>3, <2>1 DEF Typed
  <2>4. <<m>> \in Seq(Messages) /\ Len(<<m>>) = 1 /\ <<m>>[1] = m
    BY <1>1
  <2>5. CASE o = t
    <3>1. WillHold(conn'[ws], o) <=> <<m>>[1].type = "subscribe"
      <4>1. 1 \in 1 .. Len(<<m>>) /\ <<m>>[1].task = o /\ \A n \in 1 .. Len(<<m>>) : n <= 1
        BY <1>1, <2>4, <2>5
      <4>2. QED
        BY <2>2, <2>3, <2>4, <4>1, HoldLast, ZenonT(60)
    <3>2. QED
      BY <1>1, <2>4, <2>5, <3>1
  <2>6. CASE o # t
    <3>1. \A n \in 1 .. Len(<<m>>) : <<m>>[n].task # o
      BY <1>1, <2>4, <2>6
    <3>2. WillHold(conn'[ws], o) <=> WillHold(conn[ws], o)
      BY <1>1, <2>1, <2>2, <2>3, <2>4, <3>1, HoldOther
    <3>3. QED
      BY <2>1, <2>2, <2>6, <3>2 DEF Follows
  <2>7. QED
    BY <2>5, <2>6
<1>7. QED
  BY <1>4, <1>5, <1>6

\* What is sent when a socket opens: all that is wanted, in some order.
LEMMA EffectOfOpened ==
  ASSUME Typed, NEW c \in Connections, Opened(c)
  PROVE  \E again \in Seq(Messages) :
           /\ \A n \in 1 .. Len(again) : again[n].type = "subscribe" /\ again[n].task \in subscriptions
           /\ \A t \in subscriptions : \E n \in 1 .. Len(again) :
                again[n].task = t /\ \A o \in 1 .. Len(again) : again[o].task = t => o <= n
           /\ conn' \in [Connections -> Ends]
           /\ \A d \in Connections :
                /\ conn'[d].client = IF d = c THEN "open" ELSE conn[d].client
                /\ conn'[d].server = conn[d].server
                /\ conn'[d].subs = conn[d].subs /\ conn'[d].refused = conn[d].refused
                /\ conn'[d].up = IF d = ws /\ (d = c \/ conn[d].client = "open") /\ conn[d].server = "open"
                                 THEN conn[d].up \o again ELSE conn[d].up
<1>1. PICK order \in SetToSeqs(subscriptions) :
        LET again == [n \in DOMAIN order |-> [type |-> "subscribe", task |-> order[n]]]
        IN conn' = [d \in Connections |->
                      [conn[d] EXCEPT
                         !.client = IF d = c THEN "open" ELSE @,
                         !.up = IF d = ws /\ (d = c \/ conn[d].client = "open")
                                    /\ conn[d].server = "open"
                                THEN @ \o again ELSE @]]
  BY DEF Opened
<1> DEFINE N == Cardinality(subscriptions)
           again == [n \in DOMAIN order |-> [type |-> "subscribe", task |-> order[n]]]
<1>2. /\ order \in [1 .. N -> subscriptions] /\ N \in Nat
      /\ \A x \in subscriptions : \E n \in 1 .. N : order[n] = x
      /\ \A m, n \in 1 .. N : order[m] = order[n] => m = n
  BY Enumerated DEF Typed
<1> HIDE DEF N
<1>3. again = [n \in 1 .. N |-> [type |-> "subscribe", task |-> order[n]]]
  BY <1>2
<1>4. conn' = [d \in Connections |->
                 [conn[d] EXCEPT
                    !.client = IF d = c THEN "open" ELSE conn[d].client,
                    !.up = IF d = ws /\ (d = c \/ conn[d].client = "open") /\ conn[d].server = "open"
                           THEN conn[d].up \o again ELSE conn[d].up]]
  BY <1>1
<1> HIDE DEF again
<1>5. \A n \in 1 .. N : [type |-> "subscribe", task |-> order[n]] \in Messages
  BY <1>2 DEF Messages, Typed
<1>6. again \in Seq(Messages) /\ Len(again) = N
  BY <1>2, <1>3, <1>5
<1>7. \A n \in 1 .. N : again[n].type = "subscribe" /\ again[n].task = order[n]
  BY <1>3
<1>8. \A t \in subscriptions : \E n \in 1 .. N :
        again[n].task = t /\ \A o \in 1 .. N : again[o].task = t => o <= n
  BY <1>2, <1>7
<1>9. ASSUME NEW d \in Connections
      PROVE  /\ conn'[d] \in Ends
             /\ conn'[d].client = IF d = c THEN "open" ELSE conn[d].client
             /\ conn'[d].server = conn[d].server
             /\ conn'[d].subs = conn[d].subs /\ conn'[d].refused = conn[d].refused
             /\ conn'[d].up = IF d = ws /\ (d = c \/ conn[d].client = "open") /\ conn[d].server = "open"
                              THEN conn[d].up \o again ELSE conn[d].up
  <2> DEFINE end == IF d = c THEN "open" ELSE conn[d].client
             list == IF d = ws /\ (d = c \/ conn[d].client = "open") /\ conn[d].server = "open"
                     THEN conn[d].up \o again ELSE conn[d].up
  <2>1. conn[d] \in Ends /\ conn'[d] = [conn[d] EXCEPT !.client = end, !.up = list]
    BY <1>4 DEF Typed
  <2>2. end \in {"none", "connecting", "open", "closing"} /\ list \in Seq(Messages)
    BY <1>6, <2>1 DEF Ends
  <2> HIDE DEF end, list
  <2>3. /\ conn'[d] \in Ends /\ conn'[d].client = end /\ conn'[d].server = conn[d].server
        /\ conn'[d].subs = conn[d].subs /\ conn'[d].refused = conn[d].refused /\ conn'[d].up = list
    BY <2>1, <2>2 DEF Ends
  <2>4. QED
    BY <2>3 DEF end, list
<1>10. conn' \in [Connections -> Ends]
  BY <1>4, <1>9
<1>11. \A n \in 1 .. N : order[n] \in subscriptions
  BY <1>2
<1>12. QED
  BY <1>6, <1>7, <1>8, <1>9, <1>10, <1>11

\* The socket that opens keeps the invariant.
LEMMA OpenedStep ==
  ASSUME Inv, NEW c \in Connections, Opened(c) PROVE Inv'
<1> USE DEF Inv
<1>1. /\ conn[c].client = "connecting" /\ conn[c].server = "open"
      /\ UNCHANGED <<shouldConnect, ws, subscriptions, reconnectTimer, connects>>
  BY DEF Opened
<1>2. PICK again \in Seq(Messages) :
           /\ \A n \in 1 .. Len(again) : again[n].type = "subscribe" /\ again[n].task \in subscriptions
           /\ \A t \in subscriptions : \E n \in 1 .. Len(again) :
                again[n].task = t /\ \A o \in 1 .. Len(again) : again[o].task = t => o <= n
           /\ conn' \in [Connections -> Ends]
           /\ \A d \in Connections :
                /\ conn'[d].client = IF d = c THEN "open" ELSE conn[d].client
                /\ conn'[d].server = conn[d].server
                /\ conn'[d].subs = conn[d].subs /\ conn'[d].refused = conn[d].refused
                /\ conn'[d].up = IF d = ws /\ (d = c \/ conn[d].client = "open") /\ conn[d].server = "open"
                                 THEN conn[d].up \o again ELSE conn[d].up
  BY EffectOfOpened
<1>3. Typed'
  BY <1>1, <1>2 DEF Typed
<1>4. Fresh' /\ Capped'
  BY <1>1, <1>2 DEF Fresh, Capped
<1>5. Follows'
  <2> SUFFICES ASSUME CanSend', conn'[ws].server = "open", NEW t \in Tasks
               PROVE  WillHold(conn'[ws], t) <=> t \in subscriptions
    BY <1>1 DEF Follows
  <2>1. ws \in Connections /\ conn'[ws].client = "open"
    BY <1>1 DEF CanSend, Typed
  <2>2. /\ conn[ws].server = "open" /\ conn'[ws].up = conn[ws].up \o again
        /\ conn'[ws].subs = conn[ws].subs /\ conn'[ws].refused = conn[ws].refused
        /\ ws = c \/ conn[ws].client = "open"
    BY <1>2, <2>1
  <2>3. conn[ws] \in Ends /\ conn'[ws] \in Ends
    BY <1>2, <2>1 DEF Typed
  <2>4. CASE t \in subscriptions
    <3>1. PICK n \in 1 .. Len(again) :
            again[n].task = t /\ \A o \in 1 .. Len(again) : again[o].task = t => o <= n
      BY <1>2, <2>4
    <3>2. WillHold(conn'[ws], t) <=> again[n].type = "subscribe"
      BY <2>2, <2>3, <3>1, HoldLast
    <3>3. QED
      BY <1>2, <2>4, <3>2
  <2>5. CASE t \notin subscriptions
    <3>1. \A n \in 1 .. Len(again) : again[n].task # t
      BY <1>2, <2>5
    <3>2. WillHold(conn'[ws], t) <=> WillHold(conn[ws], t)
      BY <2>2, <2>3, <3>1, HoldOther
    <3>3. CASE ws = c
      <4>1. conn[ws].up = <<>> /\ conn[ws].subs = {} /\ conn[ws].refused = {}
        BY <1>1, <3>3 DEF Fresh
      <4>2. ~WillHold(conn[ws], t)
        BY <4>1 DEF WillHold
      <4>3. QED
        BY <2>5, <3>2, <4>2
    <3>4. CASE ws # c
      <4>1. CanSend
        BY <2>1, <2>2, <3>4, <1>1 DEF CanSend
      <4>2. QED
        BY <2>2, <3>2, <4>1 DEF Follows
    <3>5. QED
      BY <3>3, <3>4
  <2>6. QED
    BY <2>4, <2>5
<1>6. QED
  BY <1>3, <1>4, <1>5

\* What the server does with the first message.
LEMMA EffectOfReceive ==
  ASSUME Inv, NEW c \in Connections, Receive(c)
  PROVE  /\ conn[c].up # <<>> /\ conn[c] \in Ends
         /\ UNCHANGED <<shouldConnect, ws, subscriptions, reconnectTimer, connects>>
         /\ conn' \in [Connections -> Ends]
         /\ \A d \in Connections : d # c => conn'[d] = conn[d]
         /\ conn'[c].client = conn[c].client /\ conn'[c].server = conn[c].server
         /\ conn'[c].up = Tail(conn[c].up)
         /\ conn[c].up[1].task \in conn'[c].subs \cup conn'[c].refused <=> conn[c].up[1].type = "subscribe"
         /\ \A t \in Tasks : t # conn[c].up[1].task =>
              (t \in conn'[c].subs \cup conn'[c].refused <=> t \in conn[c].subs \cup conn[c].refused)
         /\ IsFiniteSet(conn'[c].subs) /\ Cardinality(conn'[c].subs) <= wsMaxSubscriptions
<1> USE DEF Inv
<1> DEFINE r == [conn[c] EXCEPT !.up = Tail(conn[c].up)]
           m == Head(conn[c].up)
           h == Handled(r, m)
<1>1. /\ conn[c].server = "open" /\ conn[c].up # <<>> /\ conn' = [conn EXCEPT ![c] = h]
      /\ UNCHANGED <<shouldConnect, ws, subscriptions, reconnectTimer, connects>>
  <2>1. /\ conn[c].server = "open" /\ conn[c].up # <<>>
        /\ UNCHANGED <<shouldConnect, ws, subscriptions, reconnectTimer, connects>>
    BY DEF Receive, client
  <2>2. conn' = [conn EXCEPT ![c] = h]
    BY DEF Receive
  <2>3. QED
    BY <2>1, <2>2
<1>2. conn[c] \in Ends /\ conn[c].up \in Seq(Messages) /\ IsFiniteSet(conn[c].subs)
      /\ Cardinality(conn[c].subs) <= wsMaxSubscriptions
  BY DEF Typed, Capped, Ends
<1>3. Tail(conn[c].up) \in Seq(Messages) /\ m \in Messages /\ m = conn[c].up[1]
  BY <1>1, <1>2
<1>4. /\ r \in Ends /\ r.client = conn[c].client /\ r.server = conn[c].server
      /\ r.subs = conn[c].subs /\ r.refused = conn[c].refused /\ r.up = Tail(conn[c].up)
  BY <1>2, <1>3 DEF Ends
<1> HIDE DEF r, m
<1>5. /\ h \in Ends /\ h.client = r.client /\ h.server = r.server /\ h.up = r.up
      /\ m.task \in h.subs \cup h.refused <=> m.type = "subscribe"
      /\ \A t \in Tasks : t # m.task => (t \in h.subs \cup h.refused <=> t \in r.subs \cup r.refused)
      /\ IsFiniteSet(h.subs) /\ Cardinality(h.subs) <= wsMaxSubscriptions
  BY <1>2, <1>3, <1>4, HandledEnds, ZenonT(60)
<1> HIDE DEF h
<1>6. /\ conn' \in [Connections -> Ends] /\ conn'[c] = h
      /\ \A d \in Connections : d # c => conn'[d] = conn[d]
  <2>1. conn' = [conn EXCEPT ![c] = h] /\ h \in Ends
    BY <1>1, <1>5
  <2>2. QED
    BY <2>1 DEF Typed
<1>7. QED
  BY <1>1, <1>2, <1>3, <1>4, <1>5, <1>6

\* A message that arrives keeps the invariant.
LEMMA ReceiveStep ==
  ASSUME Inv, NEW c \in Connections, Receive(c) PROVE Inv'
<1> USE DEF Inv
<1>1. /\ conn[c].up # <<>> /\ conn[c] \in Ends
      /\ UNCHANGED <<shouldConnect, ws, subscriptions, reconnectTimer, connects>>
      /\ conn' \in [Connections -> Ends]
      /\ \A d \in Connections : d # c => conn'[d] = conn[d]
      /\ conn'[c].client = conn[c].client /\ conn'[c].server = conn[c].server
      /\ conn'[c].up = Tail(conn[c].up)
      /\ IsFiniteSet(conn'[c].subs) /\ Cardinality(conn'[c].subs) <= wsMaxSubscriptions
  BY EffectOfReceive
<1>2. Typed'
  BY <1>1 DEF Typed
<1>3. Fresh' /\ Capped'
  BY <1>1 DEF Fresh, Capped
<1>4. Follows'
  <2> SUFFICES ASSUME CanSend', conn'[ws].server = "open", NEW t \in Tasks
               PROVE  WillHold(conn'[ws], t) <=> t \in subscriptions
    BY <1>1 DEF Follows
  <2>1. ws \in Connections /\ conn'[ws].client = "open"
    BY <1>1 DEF CanSend, Typed
  <2>2. conn[ws].client = "open" /\ conn[ws].server = "open"
    BY <1>1, <2>1
  <2>3. CanSend
    BY <1>1, <2>2 DEF CanSend
  <2>4. WillHold(conn'[ws], t) <=> WillHold(conn[ws], t)
    <3>1. CASE ws = c
      <4>1. conn'[c] \in Ends
        BY <1>1
      <4>2. WillHold(conn'[c], t) <=> WillHold(conn[c], t)
        BY <1>1, <4>1, EffectOfReceive, HoldHandled
      <4>3. QED
        BY <3>1, <4>2
    <3>2. CASE ws # c
      BY <1>1, <2>1, <3>2
    <3>3. QED
      BY <3>1, <3>2
  <2>5. QED
    BY <2>2, <2>3, <2>4 DEF Follows
<1>5. QED
  BY <1>2, <1>3, <1>4

\* Types, and the last word on every task: what the server holds once the
\* messages under way have arrived is what the client wants.
THEOREM InvCorrect == Spec => []Inv
<1>1. Init => Inv
  <2> SUFFICES ASSUME Init PROVE Inv
    OBVIOUS
  <2>1. IsFiniteSet({}) /\ Cardinality({}) = 0 /\ wsMaxSubscriptions \in Nat
    BY FS_EmptySet, BoundsAssumption
  <2>2. Typed
    BY <2>1, NoConnectionTyped DEF Init, Typed
  <2>3. Fresh
    BY NoConnectionTyped DEF Init, Fresh
  <2>4. Capped
    <3>1. 0 <= wsMaxSubscriptions
      BY <2>1
    <3>2. QED
      BY <2>1, <3>1, NoConnectionTyped DEF Init, Capped
  <2>5. Follows
    BY DEF Init, Follows, CanSend
  <2>6. QED
    BY <2>2, <2>3, <2>4, <2>5 DEF Inv
<1>2. Inv /\ [Next]_vars => Inv'
  <2> SUFFICES ASSUME Inv, [Next]_vars PROVE Inv'
    OBVIOUS
  <2>1. CASE connect
    BY <2>1, SocketStep DEF connect, Inv, Typed
  <2>2. CASE ReconnectTimer
    <3>1. /\ shouldConnect' \in BOOLEAN /\ FALSE \in BOOLEAN /\ openSocket(FALSE)
          /\ UNCHANGED subscriptions /\ connects' \in Nat
      BY <2>2 DEF ReconnectTimer, Inv, Typed
    <3>2. QED
      BY <3>1, SocketStep
  <2>3. ASSUME NEW t \in Tasks, subscribe(t) PROVE Inv'
    BY <2>3, SendStep DEF subscribe
  <2>4. ASSUME NEW t \in Tasks, unsubscribe(t) PROVE Inv'
    BY <2>4, SendStep DEF unsubscribe
  <2>5. ASSUME NEW c \in Connections, Opened(c) PROVE Inv'
    BY <2>5, OpenedStep
  <2>6. ASSUME NEW c \in Connections, Receive(c) PROVE Inv'
    BY <2>6, ReceiveStep
  <2>7. CASE \/ close \/ Heartbeat \/ Expire \/ Restart \/ UNCHANGED vars
             \/ \E c \in Connections : Closed(c) \/ Upgrade(c) \/ Pong(c)
             \/ \E c \in Connections : Drop(c) \/ Lose(c) \/ ClientNotices(c) \/ ServerNotices(c)
    BY <2>7, AllKept, KeptStep DEF Inv
  <2>8. QED
    BY <2>1, <2>2, <2>3, <2>4, <2>5, <2>6, <2>7 DEF Next
<1>3. QED
  BY <1>1, <1>2, PTL DEF Spec

\* The server follows the client through whatever happens to connections.
THEOREM FollowsCorrect == Spec => []ServerFollowsClient
<1>1. Inv => ServerFollowsClient
  BY DEF Inv, Follows, Capped, ServerFollowsClient
<1>2. QED
  BY <1>1, InvCorrect, PTL

-----------------------------------------------------------------------------
\* Every step of a client that connects once keeps its connections to one.
LEMMA SingleStep ==
  ASSUME Inv, Single, [Next]_vars PROVE Single'
<1>0. Typed
  BY DEF Inv
<1>1. connects \in Nat /\ (ws # 0 => ws \in Connections) /\ conn \in [Connections -> Ends]
  BY <1>0 DEF Typed
<1>2. ASSUME UNCHANGED <<shouldConnect, ws, reconnectTimer, connects>>,
             \A c \in Connections : conn'[c].client = conn[c].client
      PROVE  Single'
  BY <1>2 DEF Single, Usable
<1>3. ASSUME UNCHANGED client, \A c \in Connections : Kept(c) PROVE Single'
  <2>1. UNCHANGED <<shouldConnect, ws, reconnectTimer, connects>>
    BY <1>3 DEF client
  <2>2. \A c \in Connections : /\ conn'[c].client # "none" => conn[c].client # "none"
                               /\ Usable(c)' => Usable(c)
    BY <1>3 DEF Kept, Usable
  <2>3. QED
    BY <2>1, <2>2 DEF Single
<1>4. CASE close
  <2>1. \A c \in Connections : Kept(c)
    BY <1>0, <1>4, AllKept
  <2>2. shouldConnect' = FALSE /\ reconnectTimer' = FALSE /\ UNCHANGED connects
    BY <1>4 DEF close
  <2>3. ASSUME connects <= 1, NEW c \in Connections PROVE ~Usable(c)'
    <3>1. CASE ~Usable(c)
      BY <2>1, <3>1 DEF Kept, Usable
    <3>2. CASE Usable(c)
      <4>1. ws = c /\ c # 0 /\ conn[c] \in Ends
        BY <1>1, <2>3, <3>2 DEF Single, Usable
      <4>2. conn' = [conn EXCEPT ![c] = ClientEnd(conn[c], "closing")]
        BY <1>4, <4>1 DEF close
      <4>3. conn'[c].client = "closing"
        BY <1>1, <4>1, <4>2, ClientEndEnds
      <4>4. QED
        BY <4>3 DEF Usable
    <3>3. QED
      BY <3>1, <3>2
  <2>4. \A c \in Connections : conn'[c].client # "none" => conn[c].client # "none"
    BY <2>1 DEF Kept
  <2>5. QED
    BY <2>2, <2>3, <2>4 DEF Single
<1>5. ASSUME NEW c \in Connections, Closed(c) PROVE Single'
  <2>1. /\ conn[c].client = "closing" /\ ws' = 0 /\ conn' = [conn EXCEPT ![c] = ClientEnd(conn[c], "none")]
        /\ UNCHANGED <<connects, shouldConnect>>
        /\ reconnectTimer' = (reconnectTimer \/ shouldConnect')
    BY <1>5 DEF Closed, scheduleReconnect
  <2>2. conn[c] \in Ends
    BY <1>1
  <2>3. conn'[c].client = "none" /\ \A d \in Connections : d # c => conn'[d] = conn[d]
    BY <1>1, <2>1, <2>2, ClientEndEnds
  <2>4. connects <= 1 => \A d \in Connections : conn'[d].client = "none"
    BY <2>1, <2>3 DEF Single
  <2>5. QED
    BY <2>1, <2>4 DEF Single, Usable
<1>6. ASSUME NEW armed \in BOOLEAN, ~armed, shouldConnect', openSocket(armed),
             \A c \in Connections : conn[c].client = "none"
      PROVE  \/ reconnectTimer' /\ ws' = 0 /\ \A d \in Connections : conn'[d].client = "none"
             \/ ~reconnectTimer' /\ ws' # 0 /\ \A d \in Connections : conn'[d].client # "none" => d = ws'
  <2>1. ws = 0 /\ ~Usable(ws)
    BY <1>0, <1>6 DEF Typed, Usable
  <2>2. CASE ws' = ws /\ conn' = conn
    BY <1>0, <1>6, <2>1, <2>2, EffectOfSocket
  <2>3. CASE ~(ws' = ws /\ conn' = conn)
    <3>1. PICK c \in Connections : /\ ws' = c /\ c # 0 /\ reconnectTimer' = armed
                                   /\ \A d \in Connections : d # c => conn'[d] = conn[d]
      BY <1>0, <1>6, <2>1, <2>3, EffectOfSocket
    <3>2. QED
      BY <1>6, <3>1
  <2>4. QED
    BY <2>2, <2>3
<1>7. CASE connect
  <2>1. openSocket(reconnectTimer) /\ connects' = connects + 1 /\ shouldConnect' = TRUE
    BY <1>7 DEF connect
  <2>2. ASSUME connects' <= 1 PROVE Single'
    <3>1. connects = 0 /\ connects' = 1
      BY <1>1, <2>1, <2>2
    <3>2. ~shouldConnect /\ ~reconnectTimer /\ \A c \in Connections : conn[c].client = "none"
      BY <3>1 DEF Single
    <3>3. \/ reconnectTimer' /\ ws' = 0 /\ \A d \in Connections : conn'[d].client = "none"
          \/ ~reconnectTimer' /\ ws' # 0 /\ \A d \in Connections : conn'[d].client # "none" => d = ws'
      BY <1>0, <1>6, <2>1, <3>2 DEF Typed
    <3>4. QED
      BY <2>1, <3>1, <3>3 DEF Single
  <2>3. QED
    BY <2>2 DEF Single
<1>8. CASE ReconnectTimer
  <2>1. openSocket(FALSE) /\ reconnectTimer /\ UNCHANGED <<shouldConnect, connects>>
    BY <1>8 DEF ReconnectTimer
  <2>2. ASSUME connects' <= 1 PROVE Single'
    <3>1. /\ shouldConnect /\ \A c \in Connections : conn[c].client = "none"
          /\ connects = 1
      BY <1>1, <2>1, <2>2 DEF Single
    <3>2. \/ reconnectTimer' /\ ws' = 0 /\ \A d \in Connections : conn'[d].client = "none"
          \/ ~reconnectTimer' /\ ws' # 0 /\ \A d \in Connections : conn'[d].client # "none" => d = ws'
      BY <1>6, <2>1, <3>1
    <3>3. QED
      BY <2>1, <3>1, <3>2 DEF Single
  <2>3. QED
    BY <2>2 DEF Single
<1>9. ASSUME NEW t \in Tasks, NEW type \in {"subscribe", "unsubscribe"}, Send(type, t),
             UNCHANGED <<shouldConnect, ws, reconnectTimer, connects>>
      PROVE  Single'
  <2>1. \A c \in Connections : conn'[c].client = conn[c].client
    BY <1>0, <1>9, EffectOfSend DEF CanSend
  <2>2. QED
    BY <1>2, <1>9, <2>1
<1>10. ASSUME NEW t \in Tasks, subscribe(t) \/ unsubscribe(t) PROVE Single'
  BY <1>9, <1>10 DEF subscribe, unsubscribe
<1>11. ASSUME NEW c \in Connections, Opened(c) PROVE Single'
  <2>1. /\ conn[c].client = "connecting"
        /\ UNCHANGED <<shouldConnect, ws, reconnectTimer, connects>>
    BY <1>11 DEF Opened
  <2>2. \A d \in Connections : conn'[d].client = IF d = c THEN "open" ELSE conn[d].client
    BY <1>0, <1>11, EffectOfOpened
  <2>3. \A d \in Connections : /\ conn'[d].client = "none" <=> conn[d].client = "none"
                               /\ Usable(d)' <=> Usable(d)
    BY <2>1, <2>2 DEF Usable
  <2>4. QED
    BY <2>1, <2>3 DEF Single
<1>12. ASSUME NEW c \in Connections, Receive(c) PROVE Single'
  <2>1. UNCHANGED <<shouldConnect, ws, reconnectTimer, connects>>
        /\ \A d \in Connections : conn'[d].client = conn[d].client
    BY <1>12, EffectOfReceive
  <2>2. QED
    BY <1>2, <2>1
<1>13. CASE \/ Heartbeat \/ Expire \/ Restart \/ UNCHANGED vars
            \/ \E c \in Connections : Upgrade(c) \/ Pong(c)
            \/ \E c \in Connections : Drop(c) \/ Lose(c) \/ ClientNotices(c) \/ ServerNotices(c)
  <2>1. UNCHANGED client
    BY <1>13 DEF Heartbeat, Expire, Restart, Upgrade, Pong, Drop, Lose, ClientNotices,
              ServerNotices, vars
  <2>2. QED
    BY <1>0, <1>3, <1>13, <2>1, AllKept
<1>14. QED
  BY <1>4, <1>5, <1>7, <1>8, <1>10, <1>11, <1>12, <1>13 DEF Next

\* A client that called connect() once never has a second connection.
THEOREM OneConnectionCorrect == Spec => []OneConnection
<1>1. Init => Single
  BY NoConnectionTyped DEF Init, Single, Usable
<1>2. Inv /\ Single /\ [Next]_vars => Single'
  BY SingleStep
<1>3. Inv /\ Single => OneConnection
  BY DEF Inv, Typed, Single, OneConnection, Usable
<1>4. QED
  BY <1>1, <1>2, <1>3, InvCorrect, PTL DEF Spec

=============================================================================
