------------------------- MODULE MigrationApiProofs -------------------------
(***************************************************************************)
(* For any tasks, requests, sizes, speeds and bounds: types, checkpoints   *)
(* that a resume can trust, injections that end COMPLETED, and mappings    *)
(* that can be completed and are carried by their task.                    *)
(*                                                                         *)
(* What is kept about the checkpoints (Trusted) is that every one of them  *)
(* is at most the offset of the task, and that offset at most the whole    *)
(* blocks of what was copied: rounding down is monotone, so copying more   *)
(* keeps it, and so does a new checkpoint.                                 *)
(*                                                                         *)
(* The network mapping can be completed because a bridge is used once: the *)
(* bridges in use are as many as the mappings (Fits).                      *)
(***************************************************************************)
EXTENDS TaskMappings, FiniteSetTheorems, TLAPS

\* How far a request in progress can have come when it is not answered.
Steps(kind) ==
  CASE kind = "incremental" -> MaxRounds
    [] kind = "drivers"     -> DriverSteps
    [] OTHER                -> CutoverSteps

Unfinished == \A r \in Requests : request[r] # Idle => request[r].step < Steps(request[r].kind)

Trusted ==
  \A t \in TaskIds :
    /\ Len(history[t]) <= MAX_HISTORY
    /\ history[t] = <<>> => checkpointOffset[t] = 0
    /\ history[t] # <<>> => checkpointOffset[t] = history[t][Len(history[t])]
    /\ \A i \in 1 .. Len(history[t]) : history[t][i] <= checkpointOffset[t]
    /\ checkpointOffset[t] <= OffsetOf(transferred[t])

Inv == TypeOK /\ Unfinished /\ Trusted

-----------------------------------------------------------------------------
\* Rounding down to whole blocks.
LEMMA OffsetRounds ==
  ASSUME NEW data \in Nat
  PROVE  OffsetOf(data) \in Nat /\ OffsetOf(data) <= data
<1>1. Block \in Nat \ {0}
  BY SizesAssumption
<1>2. data \div Block \in Nat
  BY <1>1
<1>3. (data \div Block) * Block \in Nat
  BY <1>1, <1>2
<1>4. (data \div Block) * Block <= data
  BY <1>1
<1>5. QED
  BY <1>3, <1>4 DEF OffsetOf

\* Rounding down is monotone.
LEMMA OffsetGrows ==
  ASSUME NEW data \in Nat, NEW more \in Nat, data <= more
  PROVE  OffsetOf(data) <= OffsetOf(more)
<1>1. Block \in Nat \ {0}
  BY SizesAssumption
<1>2. data \div Block \in Nat /\ more \div Block \in Nat /\ data \div Block <= more \div Block
  BY <1>1
<1>3. \A p, q, b \in Nat : p <= q => p * b <= q * b
  OBVIOUS
<1>4. QED
  BY <1>1, <1>2, <1>3 DEF OffsetOf

\* The cut to the latest checkpoints keeps the last one, and only cuts.
LEMMA LatestKept ==
  ASSUME NEW list \in Seq(Nat), list # <<>>
  PROVE  /\ KeepLatest(list) \in Seq(Nat)
         /\ Len(KeepLatest(list)) <= MAX_HISTORY
         /\ KeepLatest(list) # <<>>
         /\ KeepLatest(list)[Len(KeepLatest(list))] = list[Len(list)]
         /\ \A i \in 1 .. Len(KeepLatest(list)) : \E j \in 1 .. Len(list) : KeepLatest(list)[i] = list[j]
<1> DEFINE kept == LeastOf(Len(list), MAX_HISTORY)
           first == 1 + Len(list) - kept
<1>1. Len(list) \in Nat \ {0} /\ MAX_HISTORY \in Nat \ {0}
  BY SizesAssumption
<1>2. kept \in 1 .. Len(list) /\ kept <= MAX_HISTORY
  BY <1>1 DEF LeastOf
<1>3. first \in 1 .. Len(list) /\ Len(list) - first + 1 = kept
  BY <1>1, <1>2
<1>4. KeepLatest(list) = SubSeq(list, first, Len(list))
  BY DEF KeepLatest
<1> HIDE DEF kept, first
<1>5. /\ SubSeq(list, first, Len(list)) \in Seq(Nat)
      /\ Len(SubSeq(list, first, Len(list))) = kept
      /\ \A i \in 1 .. kept : SubSeq(list, first, Len(list))[i] = list[first + i - 1]
  BY <1>1, <1>2, <1>3
<1>6. \A i \in 1 .. kept : first + i - 1 \in 1 .. Len(list)
  BY <1>1, <1>2, <1>3
<1>7. first + kept - 1 = Len(list)
  BY <1>1, <1>2, <1>3
<1> DEFINE cut == SubSeq(list, first, Len(list))
<1>8. cut # <<>> /\ cut[Len(cut)] = list[Len(list)]
  BY <1>1, <1>2, <1>5, <1>7
<1>9. \A i \in 1 .. Len(cut) : \E j \in 1 .. Len(list) : cut[i] = list[j]
  BY <1>5, <1>6
<1>10. cut \in Seq(Nat) /\ Len(cut) <= MAX_HISTORY
  BY <1>2, <1>5
<1> HIDE DEF cut
<1>11. KeepLatest(list) = cut
  BY <1>4 DEF cut
<1>12. QED
  BY <1>8, <1>9, <1>10, <1>11

-----------------------------------------------------------------------------
\* A call that leaves the task alone, but for its state and its timer.
LEMMA Elsewhere ==
  ASSUME Inv, UNCHANGED <<transferred, checkpointOffset, history>> PROVE Trusted'
BY DEF Inv, Trusted

\* Who touches no request leaves them unfinished.
LEMMA SameRequests ==
  ASSUME Inv, UNCHANGED request PROVE Unfinished'
BY DEF Inv, Unfinished

\* The bound on the calls holds.
LEMMA CallsCounted ==
  ASSUME Inv, Call PROVE calls' \in 0 .. MaxCalls
BY SizesAssumption DEF Inv, TypeOK, Call

\* ----- the sync --------------------------------------------------------
LEMMA TickKeepsInv ==
  ASSUME Inv, NEW t \in TaskIds, Tick(t) PROVE Inv'
<1>1. transferred[t] \in 0 .. Total /\ timer[t] \in Nat /\ Total \in Nat
  <2>1. transferred[t] \in 0 .. Total /\ timer[t] \in {0} \cup Speeds
    BY DEF Inv, TypeOK
  <2>2. Speeds \subseteq Nat /\ Total \in Nat
    BY SizesAssumption
  <2>3. \A units \in {0} \cup Speeds : units \in Nat
    BY <2>2
  <2>4. QED
    BY <2>1, <2>2, <2>3
<1>2. AfterTick(t) \in 0 .. Total /\ transferred[t] <= AfterTick(t)
  BY <1>1 DEF AfterTick, LeastOf
<1>3. transferred' = [transferred EXCEPT ![t] = AfterTick(t)]
  BY DEF Tick
<1>4. TypeOK'
  BY <1>2 DEF Tick, Inv, TypeOK
<1>5. \A u \in TaskIds : OffsetOf(transferred[u]) <= OffsetOf(transferred'[u])
  <2> TAKE u \in TaskIds
  <2>1. transferred[u] \in Nat /\ transferred'[u] \in Nat /\ transferred[u] <= transferred'[u]
    BY <1>1, <1>2, <1>3 DEF Inv, TypeOK
  <2>2. QED
    BY <2>1, OffsetGrows
<1>6. Trusted'
  <2>1. \A u \in TaskIds : /\ checkpointOffset[u] \in Nat
                           /\ OffsetOf(transferred[u]) \in Nat /\ OffsetOf(transferred'[u]) \in Nat
    <3> TAKE u \in TaskIds
    <3>1. checkpointOffset[u] \in Nat /\ transferred[u] \in Nat /\ transferred'[u] \in Nat
      BY <1>4 DEF Inv, TypeOK
    <3>2. QED
      BY <3>1, OffsetRounds
  <2>2. QED
    BY <1>5, <2>1 DEF Tick, Inv, Trusted
<1>7. QED
  BY <1>4, <1>6, SameRequests DEF Tick, Inv

\* ----- checkpoints -----------------------------------------------------
LEMMA CheckpointKeepsInv ==
  ASSUME Inv, NEW t \in TaskIds, PostCheckpoint(t) PROVE Inv'
<1> DEFINE offset == OffsetOf(transferred[t])
           list == Append(history[t], offset)
<1>1. offset \in Nat /\ checkpointOffset[t] \in Nat /\ checkpointOffset[t] <= offset
  BY OffsetRounds DEF Inv, TypeOK, Trusted
<1>2. history[t] \in Seq(Nat)
  BY DEF Inv, TypeOK
<1>3. /\ history' = [history EXCEPT ![t] = KeepLatest(list)]
      /\ checkpointOffset' = [checkpointOffset EXCEPT ![t] = offset]
      /\ UNCHANGED <<state, transferred, rounds, drivers, timer, request>>
  BY DEF PostCheckpoint
<1> HIDE DEF offset
<1>4. list \in Seq(Nat) /\ list # <<>> /\ list[Len(list)] = offset
  BY <1>1, <1>2
<1>5. \A j \in 1 .. Len(list) : list[j] <= offset
  <2>1. \A j \in 1 .. Len(history[t]) : history[t][j] \in Nat /\ history[t][j] <= offset
    BY <1>1, <1>2 DEF Inv, Trusted
  <2>2. QED
    BY <1>1, <1>2, <2>1
<1> DEFINE kept == KeepLatest(list)
<1>6. /\ kept \in Seq(Nat) /\ Len(kept) <= MAX_HISTORY /\ kept # <<>> /\ kept[Len(kept)] = offset
      /\ \A i \in 1 .. Len(kept) : kept[i] <= offset
  <2> HIDE DEF list
  <2>1. QED
    BY <1>4, <1>5, LatestKept
<1> HIDE DEF kept
<1>7. TypeOK'
  <2>1. history' \in [TaskIds -> Seq(Nat)]
    BY <1>3, <1>6 DEF Inv, TypeOK, kept
  <2>2. checkpointOffset' \in [TaskIds -> Nat]
    BY <1>1, <1>3 DEF Inv, TypeOK
  <2>3. QED
    BY <1>3, <2>1, <2>2, CallsCounted DEF Inv, TypeOK, PostCheckpoint
<1>8. Trusted'
  <2>1. history'[t] = kept /\ checkpointOffset'[t] = offset
    BY <1>3 DEF Inv, TypeOK, kept
  <2>2. \A u \in TaskIds : u # t => history'[u] = history[u] /\ checkpointOffset'[u] = checkpointOffset[u]
    BY <1>3 DEF Inv, TypeOK
  <2>3. offset <= OffsetOf(transferred[t])
    BY <1>1 DEF offset
  <2>4. QED
    BY <1>3, <1>6, <2>1, <2>2, <2>3 DEF Inv, Trusted
<1>9. QED
  BY <1>3, <1>7, <1>8, SameRequests DEF Inv

\* The offset of the task is already that of the latest checkpoint.
LEMMA ResumeKeepsInv ==
  ASSUME Inv, NEW t \in TaskIds, PostResume(t) PROVE Inv'
<1>1. checkpointOffset' = checkpointOffset
  BY DEF PostResume, Inv, TypeOK, Trusted
<1>2. TypeOK'
  BY <1>1, CallsCounted DEF PostResume, Inv, TypeOK
<1>3. QED
  BY <1>1, <1>2, Elsewhere, SameRequests DEF PostResume, Inv

\* ----- asynchronous requests -------------------------------------------
\* What a request in progress is made of.
LEMMA Shape ==
  ASSUME TypeOK, NEW r \in Requests, request[r] # Idle
  PROVE  /\ request[r].kind \in {"incremental", "drivers", "cutover"}
         /\ request[r].task \in TaskIds
         /\ request[r].step \in Nat
         /\ request[r] = [kind |-> request[r].kind, task |-> request[r].task, step |-> request[r].step]
BY DEF TypeOK, Request, InProgress

\* A request that is not at its end is a request.
LEMMA Taken ==
  ASSUME NEW kind \in {"incremental", "drivers", "cutover"}, NEW t \in TaskIds,
         NEW n \in Nat, n < Steps(kind)
  PROVE  [kind |-> kind, task |-> t, step |-> n] \in Request
BY SizesAssumption DEF Request, InProgress, Steps

\* A request of a kind begins.
LEMMA BeginKeeps ==
  ASSUME Inv, NEW r \in Requests, NEW t \in TaskIds,
         NEW kind \in {"incremental", "drivers", "cutover"}, Begin(r, kind, t)
  PROVE  /\ request' \in [Requests -> Request] /\ Unfinished'
         /\ \A u \in TaskIds : Running("drivers", u) => Running("drivers", u)'
         /\ kind = "drivers" => Running("drivers", t)'
<1> DEFINE new == [kind |-> kind, task |-> t, step |-> 0]
<1>1. 0 < Steps(kind)
  BY SizesAssumption DEF Steps
<1>2. new \in Request /\ new # Idle
  BY <1>1, Taken DEF Idle
<1>3. request[r] = Idle /\ request' = [request EXCEPT ![r] = new] /\ request \in [Requests -> Request]
  BY DEF Begin, Inv, TypeOK
<1>4. request'[r] = new /\ \A q \in Requests : q # r => request'[q] = request[q]
  BY <1>3
<1>5. new.kind = kind /\ new.task = t /\ new.step = 0
  OBVIOUS
<1> HIDE DEF new
<1>6. request' \in [Requests -> Request]
  BY <1>2, <1>3
<1>7. Unfinished'
  BY <1>1, <1>4, <1>5 DEF Unfinished, Inv, Steps
<1>8. \A u \in TaskIds : Running("drivers", u) => Running("drivers", u)'
  <2>1. Idle.kind = "idle"
    BY DEF Idle
  <2>2. QED
    BY <1>3, <1>4, <2>1 DEF Running
<1>9. kind = "drivers" => Running("drivers", t)'
  BY <1>4, <1>5 DEF Running
<1>10. QED
  BY <1>6, <1>7, <1>8, <1>9

\* A request goes on, and is answered with its last step at the latest.
LEMMA ProceedKeeps ==
  ASSUME Inv, NEW r \in Requests, request[r] # Idle, NEW last \in BOOLEAN, Proceed(r, last),
         request[r].step + 1 = Steps(request[r].kind) => last
  PROVE  /\ request' \in [Requests -> Request] /\ Unfinished'
         /\ \A q \in Requests : q # r => request'[q] = request[q]
         /\ ~last => request'[r].kind = request[r].kind /\ request'[r].task = request[r].task
<1> DEFINE kind == request[r].kind
           n == request[r].step
           new == [kind |-> kind, task |-> request[r].task, step |-> n + 1]
<1>1. /\ kind \in {"incremental", "drivers", "cutover"} /\ request[r].task \in TaskIds /\ n \in Nat
      /\ request[r] = [kind |-> kind, task |-> request[r].task, step |-> n]
  BY Shape DEF Inv
<1>2. Steps(kind) \in Nat /\ n < Steps(kind)
  BY SizesAssumption DEF Inv, Unfinished, Steps
<1>3. request \in [Requests -> Request]
  BY DEF Inv, TypeOK
<1>4. CASE last
  <2>1. request' = [request EXCEPT ![r] = Idle]
    BY <1>4 DEF Proceed
  <2>2. QED
    BY <1>3, <1>4, <2>1 DEF Request, Unfinished, Inv
<1>5. CASE ~last
  <2>1. [request[r] EXCEPT !.step = @ + 1] = new
    BY <1>1
  <2>2. request' = [request EXCEPT ![r] = new]
    <3>1. request' = [request EXCEPT ![r] = [request[r] EXCEPT !.step = @ + 1]]
      BY <1>5 DEF Proceed
    <3>2. QED
      BY <2>1, <3>1
  <2>3. n + 1 \in Nat /\ n + 1 < Steps(kind)
    BY <1>1, <1>2, <1>5
  <2>4. new \in Request
    BY <1>1, <2>3, Taken
  <2>5. new.kind = kind /\ new.task = request[r].task /\ new.step = n + 1
    OBVIOUS
  <2> HIDE DEF new
  <2>6. request'[r] = new /\ \A q \in Requests : q # r => request'[q] = request[q]
    BY <1>3, <2>2
  <2>7. request' \in [Requests -> Request]
    BY <1>3, <2>2, <2>4
  <2>8. Unfinished'
    BY <2>3, <2>5, <2>6 DEF Unfinished, Inv
  <2>9. QED
    BY <1>5, <2>5, <2>6, <2>7, <2>8
<1>6. QED
  BY <1>4, <1>5

\* A step of an asynchronous request keeps the invariant.
LEMMA ProceedingKeepsInv ==
  ASSUME Inv, NEW r \in Requests, Proceeding(r) PROVE Inv'
<1> DEFINE n == request[r].step + 1
<1>1. request[r] # Idle
  BY DEF Proceeding, IncrementalRound, DriverInjectionStep, CutoverStep, InStep, Idle
<1>2. request[r].task \in TaskIds /\ request[r].step \in Nat
  BY <1>1, Shape DEF Inv
<1>3. n \in Nat /\ n <= Steps(request[r].kind) /\ Steps(request[r].kind) \in Nat
  BY <1>1, <1>2, SizesAssumption DEF Inv, Unfinished, Steps
<1>4. Trusted'
  BY Elsewhere DEF Proceeding, IncrementalRound, DriverInjectionStep, CutoverStep, taskVars
<1>5. CASE IncrementalRound(r)
  <2>1. request[r].kind = "incremental" /\ Steps(request[r].kind) = MaxRounds
    BY <1>5 DEF IncrementalRound, InStep, Steps
  <2>2. LastRound(n) \in BOOLEAN /\ (n = MaxRounds => LastRound(n)) /\ Proceed(r, LastRound(n))
    BY <1>5 DEF IncrementalRound, LastRound
  <2>3. /\ request' \in [Requests -> Request] /\ Unfinished'
        /\ \A q \in Requests : q # r => request'[q] = request[q]
    <3> HIDE DEF n
    <3>1. \A last \in BOOLEAN : Proceed(r, last) /\ (n = MaxRounds => last) =>
            /\ request' \in [Requests -> Request] /\ Unfinished'
            /\ \A q \in Requests : q # r => request'[q] = request[q]
      BY <1>1, <2>1, ProceedKeeps DEF n
    <3>2. QED
      BY <2>2, <3>1
  <2>4. rounds' \in [TaskIds -> 0 .. MaxRounds]
    BY <1>2, <1>3, <1>5, <2>1 DEF IncrementalRound, Inv, TypeOK
  <2>5. TypeOK'
    BY <1>5, <2>3, <2>4 DEF IncrementalRound, Inv, TypeOK
  <2>6. QED
    BY <1>4, <2>3, <2>5 DEF Inv
<1>6. CASE DriverInjectionStep(r)
  <2>1. request[r].kind = "drivers" /\ Steps(request[r].kind) = DriverSteps
    BY <1>6 DEF DriverInjectionStep, InStep, Steps
  <2>2. Proceed(r, n = DriverSteps)
    BY <1>6 DEF DriverInjectionStep
  <2>3. /\ request' \in [Requests -> Request] /\ Unfinished'
        /\ \A q \in Requests : q # r => request'[q] = request[q]
    BY <1>1, <2>1, <2>2, ProceedKeeps
  <2>4. drivers' = IF n = DriverSteps THEN [drivers EXCEPT ![request[r].task] = "COMPLETED"] ELSE drivers
    BY <1>6 DEF DriverInjectionStep
  <2>5. TypeOK'
    BY <1>2, <1>6, <2>3, <2>4 DEF DriverInjectionStep, Inv, TypeOK
  <2>6. QED
    BY <1>4, <2>3, <2>5 DEF Inv
<1>7. CASE CutoverStep(r)
  <2>1. request[r].kind = "cutover" /\ Steps(request[r].kind) = CutoverSteps
    BY <1>7 DEF CutoverStep, InStep, Steps
  <2>2. Proceed(r, n = CutoverSteps)
    BY <1>7 DEF CutoverStep
  <2>3. /\ request' \in [Requests -> Request] /\ Unfinished'
        /\ \A q \in Requests : q # r => request'[q] = request[q]
    BY <1>1, <2>1, <2>2, ProceedKeeps
  <2>4. TypeOK'
    BY <1>7, <2>3 DEF CutoverStep, taskVars, Inv, TypeOK
  <2>5. QED
    BY <1>4, <2>3, <2>4 DEF Inv
<1>8. QED
  BY <1>5, <1>6, <1>7 DEF Proceeding

\* ----- calls -----------------------------------------------------------
LEMMA ClientsKeepInv ==
  ASSUME Inv, Clients PROVE Inv'
<1> SUFFICES ASSUME NEW t \in TaskIds,
                    \/ \E s \in MigrationState : PostTransition(t, s)
                    \/ \E speed \in Speeds : PostSyncStart(t, speed)
                    \/ PostSyncStop(t)
                    \/ PostCheckpoint(t)
                    \/ PostResume(t)
                    \/ \E r \in Requests :
                         IncrementalBegin(r, t) \/ DriverInjectionBegin(r, t) \/ CutoverBegin(r, t)
             PROVE  Inv'
  BY DEF Clients
<1>1. CASE \E s \in MigrationState : PostTransition(t, s)
  <2>1. TypeOK'
    BY <1>1, CallsCounted DEF PostTransition, Inv, TypeOK
  <2>2. QED
    BY <1>1, <2>1, Elsewhere, SameRequests DEF PostTransition, Inv
<1>2. CASE (\E speed \in Speeds : PostSyncStart(t, speed)) \/ PostSyncStop(t)
  <2>1. TypeOK'
    BY <1>2, CallsCounted DEF PostSyncStart, PostSyncStop, taskVars, Inv, TypeOK
  <2>2. QED
    BY <1>2, <2>1, Elsewhere, SameRequests DEF PostSyncStart, PostSyncStop, taskVars, Inv
<1>3. ASSUME NEW r \in Requests, IncrementalBegin(r, t) \/ CutoverBegin(r, t) PROVE Inv'
  <2>1. PICK kind \in {"incremental", "cutover"} : Begin(r, kind, t)
    BY <1>3 DEF IncrementalBegin, CutoverBegin
  <2>2. UNCHANGED <<state, transferred, rounds, checkpointOffset, drivers, timer, history>>
    BY <1>3 DEF IncrementalBegin, CutoverBegin, taskVars
  <2>3. TypeOK'
    BY <2>1, <2>2, BeginKeeps, CallsCounted DEF Begin, Inv, TypeOK
  <2>4. QED
    BY <2>1, <2>2, <2>3, BeginKeeps, Elsewhere DEF Inv
<1>4. ASSUME NEW r \in Requests, DriverInjectionBegin(r, t) PROVE Inv'
  <2>1. /\ Begin(r, "drivers", t) /\ drivers' = [drivers EXCEPT ![t] = "INJECTING"]
        /\ UNCHANGED <<state, transferred, rounds, checkpointOffset, timer, history>>
    BY <1>4 DEF DriverInjectionBegin
  <2>2. TypeOK'
    BY <2>1, BeginKeeps, CallsCounted DEF Begin, Inv, TypeOK
  <2>3. QED
    BY <2>1, <2>2, BeginKeeps, Elsewhere DEF Inv
<1>5. QED
  BY <1>1, <1>2, <1>3, <1>4, CheckpointKeepsInv, ResumeKeepsInv

\* A mapping touches nothing else of the task.
LEMMA MappingsKeepInv ==
  ASSUME Inv, Call, UNCHANGED <<taskVars, timer, history, request>> PROVE Inv'
<1>1. TypeOK'
  BY CallsCounted DEF taskVars, Inv, TypeOK
<1>2. QED
  BY <1>1, Elsewhere, SameRequests DEF taskVars, Inv

\* A restart ends every request and disarms every timer.
LEMMA RestartKeepsInv ==
  ASSUME Inv, Restart PROVE Inv'
<1>1. /\ timer' = [t \in TaskIds |-> 0] /\ request' = [r \in Requests |-> Idle]
      /\ UNCHANGED <<state, transferred, rounds, checkpointOffset, drivers, history, calls>>
  BY DEF Restart, taskVars
<1>2. TypeOK'
  BY <1>1 DEF Inv, TypeOK, Request
<1>3. Unfinished'
  BY <1>1 DEF Unfinished
<1>4. QED
  BY <1>1, <1>2, <1>3, Elsewhere DEF Inv

-----------------------------------------------------------------------------
\* No interleaving of the handlers, the sync timers, the asynchronous phases,
\* the mappings and restarts breaks the types, the checkpoints or the requests.
THEOREM Invariance == SpecMappings => []Inv
<1>1. InitMappings => Inv
  <2> SUFFICES ASSUME Init PROVE Inv
    BY DEF InitMappings
  <2>1. TypeOK
    BY SizesAssumption DEF Init, TypeOK, Request
  <2>2. Unfinished
    BY DEF Init, Unfinished
  <2>3. Trusted
    <3>1. OffsetOf(0) \in Nat
      BY OffsetRounds
    <3>2. QED
      BY <3>1, SizesAssumption DEF Init, Trusted
  <2>4. QED
    BY <2>1, <2>2, <2>3 DEF Inv
<1>2. Inv /\ [NextMappings]_<<vars, networkVars, storageVars>> => Inv'
  <2> SUFFICES ASSUME Inv, [NextMappings]_<<vars, networkVars, storageVars>> PROVE Inv'
    OBVIOUS
  <2>1. CASE UNCHANGED vars
    BY <2>1, Elsewhere, SameRequests DEF vars, taskVars, Inv, TypeOK
  <2>2. CASE Next
    BY <2>2, ClientsKeepInv, TickKeepsInv, ProceedingKeepsInv, RestartKeepsInv DEF Next, Working
  <2>3. ASSUME NEW t, NEW sources, NEW s, NEW b, PostNetworkMapping(t, sources, s, b) PROVE Inv'
    BY <2>3, MappingsKeepInv DEF PostNetworkMapping
  <2>4. ASSUME NEW t, NEW pools, NEW vm, NEW pool, PostStorageMapping(t, pools, vm, pool) PROVE Inv'
    BY <2>4, MappingsKeepInv DEF PostStorageMapping
  <2>5. QED
    BY <2>1, <2>2, <2>3, <2>4 DEF NextMappings, Next, RestartMappings
<1>3. QED
  BY <1>1, <1>2, PTL DEF SpecMappings

\* The variables keep their types.
THEOREM TypeCorrect == SpecMappings => []TypeOK
BY Invariance, PTL DEF Inv

\* Resuming from a checkpoint never skips data, whatever the order of
\* ticks, checkpoints and resumes.
THEOREM ResumeCorrect == SpecMappings => []ResumeNeverSkipsData
<1>1. Inv => ResumeNeverSkipsData
  <2> SUFFICES ASSUME Inv, NEW t \in TaskIds
               PROVE  /\ checkpointOffset[t] <= transferred[t]
                      /\ \A i \in 1 .. Len(history[t]) : history[t][i] <= transferred[t]
    BY DEF ResumeNeverSkipsData
  <2>1. transferred[t] \in Nat /\ checkpointOffset[t] \in Nat /\ history[t] \in Seq(Nat)
    BY DEF Inv, TypeOK
  <2>2. OffsetOf(transferred[t]) \in Nat /\ OffsetOf(transferred[t]) <= transferred[t]
    BY <2>1, OffsetRounds
  <2>3. \A i \in 1 .. Len(history[t]) : history[t][i] \in Nat
    BY <2>1
  <2>4. QED
    BY <2>1, <2>2, <2>3 DEF Inv, Trusted
<1>2. QED
  BY <1>1, Invariance, PTL

\* The offset of a task is that of its latest checkpoint, which is the
\* furthest of at most MAX_HISTORY.
THEOREM OffsetCorrect == SpecMappings => []OffsetIsLatestCheckpoint
<1>1. Inv => OffsetIsLatestCheckpoint
  BY DEF Inv, Trusted, OffsetIsLatestCheckpoint
<1>2. QED
  BY <1>1, Invariance, PTL

\* What a step does to the injections of a task: with the last one at work to
\* be answered it completes them, unless the process ends.
LEMMA InjectionsStep ==
  ASSUME Inv, NextMappings \/ UNCHANGED vars, NEW t \in TaskIds
  PROVE  /\ Running("drivers", t) /\ ~Running("drivers", t)' =>
              drivers'[t] = "COMPLETED" \/ Restart
         /\ drivers'[t] # drivers[t] =>
              Running("drivers", t) \/ Running("drivers", t)'
<1>1. CASE drivers' = drivers /\ request' = request
  BY <1>1 DEF Running
<1>2. CASE Restart
  BY <1>2 DEF Restart, taskVars
<1>3. ASSUME NEW r \in Requests, NEW u \in TaskIds, IncrementalBegin(r, u) \/ CutoverBegin(r, u)
      PROVE  drivers' = drivers /\ (Running("drivers", t) => Running("drivers", t)')
  <2>1. PICK kind \in {"incremental", "cutover"} : Begin(r, kind, u)
    BY <1>3 DEF IncrementalBegin, CutoverBegin
  <2>2. QED
    BY <1>3, <2>1, BeginKeeps DEF IncrementalBegin, CutoverBegin, taskVars
<1>4. ASSUME NEW r \in Requests, NEW u \in TaskIds, DriverInjectionBegin(r, u)
      PROVE  /\ Running("drivers", t) => Running("drivers", t)'
             /\ drivers'[t] # drivers[t] => Running("drivers", t)'
  <2>1. Begin(r, "drivers", u) /\ drivers' = [drivers EXCEPT ![u] = "INJECTING"]
    BY <1>4 DEF DriverInjectionBegin
  <2>2. /\ Running("drivers", t) => Running("drivers", t)'
        /\ Running("drivers", u)'
    BY <2>1, BeginKeeps
  <2>3. t # u => drivers'[t] = drivers[t]
    BY <2>1 DEF Inv, TypeOK
  <2>4. CASE t = u
    BY <2>2, <2>4
  <2>5. CASE t # u
    BY <2>2, <2>3, <2>5
  <2>6. QED
    BY <2>4, <2>5
<1>5. ASSUME NEW r \in Requests, IncrementalRound(r) \/ CutoverStep(r)
      PROVE  drivers' = drivers /\ (Running("drivers", t) => Running("drivers", t)')
  <2>1. request[r].kind # "drivers" /\ drivers' = drivers
    BY <1>5 DEF IncrementalRound, CutoverStep, InStep, taskVars
  <2>2. \A q \in Requests : q # r => request'[q] = request[q]
    BY <1>5 DEF IncrementalRound, CutoverStep, Proceed, Inv, TypeOK
  <2>3. QED
    BY <2>1, <2>2 DEF Running
<1>6. ASSUME NEW r \in Requests, DriverInjectionStep(r)
      PROVE  /\ Running("drivers", t) /\ ~Running("drivers", t)' => drivers'[t] = "COMPLETED"
             /\ drivers'[t] # drivers[t] => Running("drivers", t)
  <2> DEFINE n == request[r].step + 1
             u == request[r].task
  <2>1. request[r].kind = "drivers" /\ request[r] # Idle /\ Steps(request[r].kind) = DriverSteps
    BY <1>6 DEF DriverInjectionStep, InStep, Steps, Idle
  <2>2. u \in TaskIds
    BY <2>1, Shape DEF Inv
  <2>3. /\ Proceed(r, n = DriverSteps)
        /\ drivers' = IF n = DriverSteps THEN [drivers EXCEPT ![u] = "COMPLETED"] ELSE drivers
    BY <1>6 DEF DriverInjectionStep
  <2>4. /\ \A q \in Requests : q # r => request'[q] = request[q]
        /\ n # DriverSteps => request'[r].kind = request[r].kind /\ request'[r].task = u
    BY <2>1, <2>3, ProceedKeeps
  <2> HIDE DEF n, u
  <2>5. ASSUME Running("drivers", t), ~Running("drivers", t)' PROVE n = DriverSteps /\ t = u
    <3>1. PICK q \in Requests : request[q].kind = "drivers" /\ request[q].task = t
      BY <2>5 DEF Running
    <3>2. q = r
      BY <2>4, <2>5, <3>1 DEF Running
    <3>3. t = u
      BY <3>1, <3>2 DEF u
    <3>4. n = DriverSteps
      BY <2>1, <2>4, <2>5, <3>3 DEF Running
    <3>5. QED
      BY <3>3, <3>4
  <2>6. drivers'[t] # drivers[t] => t = u
    BY <2>2, <2>3 DEF Inv, TypeOK
  <2>7. t = u => Running("drivers", t)
    BY <2>1 DEF Running, u
  <2>8. n = DriverSteps => drivers'[u] = "COMPLETED"
    BY <2>2, <2>3 DEF Inv, TypeOK
  <2>9. QED
    BY <2>5, <2>6, <2>7, <2>8
<1>7. CASE Working
  <2>1. CASE Clients
    <3> SUFFICES ASSUME NEW u \in TaskIds,
                        ~(drivers' = drivers /\ request' = request),
                        \E r \in Requests :
                          IncrementalBegin(r, u) \/ DriverInjectionBegin(r, u) \/ CutoverBegin(r, u)
                 PROVE  /\ Running("drivers", t) => Running("drivers", t)'
                        /\ drivers'[t] # drivers[t] => Running("drivers", t)'
      BY <1>1, <2>1 DEF Clients, PostTransition, PostSyncStart, PostSyncStop, PostCheckpoint,
           PostResume, taskVars
    <3>1. QED
      BY <1>3, <1>4
  <2>2. CASE \E u \in TaskIds : Tick(u)
    BY <1>1, <2>2 DEF Tick
  <2>3. CASE \E r \in Requests : Proceeding(r)
    BY <1>5, <1>6, <2>3 DEF Proceeding
  <2>4. QED
    BY <1>7, <2>1, <2>2, <2>3 DEF Working
<1>8. CASE \/ UNCHANGED vars
           \/ \E u, sources, s, b : PostNetworkMapping(u, sources, s, b)
           \/ \E u, pools, vm, pool : PostStorageMapping(u, pools, vm, pool)
  BY <1>1, <1>8 DEF PostNetworkMapping, PostStorageMapping, taskVars, vars
<1>9. QED
  BY <1>2, <1>7, <1>8 DEF NextMappings, RestartMappings

\* However the injection requests of a task overlap and whatever a restart
\* finds, the last one to be answered leaves the task COMPLETED, and only a
\* request at work changes its driver status.
THEOREM InjectionsCorrect == SpecMappings => InjectionsEndCompleted
<1>1. Inv /\ [NextMappings]_<<vars, networkVars, storageVars>> =>
        [\A t \in TaskIds :
           /\ Running("drivers", t) /\ ~Running("drivers", t)' =>
                drivers'[t] = "COMPLETED" \/ Restart
           /\ drivers'[t] # drivers[t] =>
                Running("drivers", t) \/ Running("drivers", t)']_vars
  BY InjectionsStep
<1>2. QED
  BY <1>1, Invariance, PTL DEF SpecMappings, InjectionsEndCompleted

\* Copied data only grows, and only under an armed timer of a task that is
\* not paused.
THEOREM ProgressCorrect == SpecMappings => ProgressIsSafe
<1>1. TypeOK /\ [NextMappings]_<<vars, networkVars, storageVars>> =>
        [\A t \in TaskIds :
           transferred'[t] # transferred[t] =>
             /\ transferred'[t] > transferred[t]
             /\ timer[t] # 0
             /\ state[t] \notin Paused]_vars
  <2> SUFFICES ASSUME TypeOK, [NextMappings]_<<vars, networkVars, storageVars>>, transferred' # transferred,
                      NEW t \in TaskIds, transferred'[t] # transferred[t]
               PROVE  transferred'[t] > transferred[t] /\ timer[t] # 0 /\ state[t] \notin Paused
    OBVIOUS
  <2>1. PICK u \in TaskIds : Tick(u)
    BY ZenonT(60) DEF NextMappings, Working, Restart, RestartMappings, Clients, PostTransition, PostSyncStart, PostSyncStop, PostCheckpoint, PostResume,
           IncrementalBegin, DriverInjectionBegin, CutoverBegin, Proceeding, IncrementalRound,
           DriverInjectionStep, CutoverStep, PostNetworkMapping, PostStorageMapping, taskVars, vars
  <2>2. transferred[u] \in Nat /\ timer[u] \in Nat /\ Total \in Nat /\ transferred[u] <= Total
    <3>1. transferred[u] \in 0 .. Total /\ timer[u] \in {0} \cup Speeds
      BY DEF TypeOK
    <3>2. Speeds \subseteq Nat /\ Total \in Nat
      BY SizesAssumption
    <3>3. \A units \in {0} \cup Speeds : units \in Nat
      BY <3>2
    <3>4. timer[u] \in Nat
      BY <3>1, <3>3
    <3>5. QED
      BY <3>1, <3>2, <3>4
  <2>3. AfterTick(u) \in Nat /\ transferred[u] <= AfterTick(u)
    BY <2>2 DEF AfterTick, LeastOf
  <2>4. transferred'[t] = IF t = u THEN AfterTick(u) ELSE transferred[t]
    BY <2>1 DEF Tick, TypeOK
  <2>5. QED
    BY <2>1, <2>2, <2>3, <2>4 DEF Tick
<1>2. QED
  BY <1>1, TypeCorrect, PTL DEF SpecMappings, ProgressIsSafe

-----------------------------------------------------------------------------
(***************************************************************************)
(* The network mapping                                                     *)
(***************************************************************************)

\* A phase of the network mapping: a bridge is used once, so there are as many
\* in use as there are mappings, and pending is what has none.
Fits(phase) ==
  /\ phase.kind = "phase"
  /\ phase.sources \subseteq VSwitches
  /\ phase.completed \in Seq([kind : {"mapping"}, source : phase.sources, target : Bridges])
  /\ Cardinality(Occupied(phase)) = Len(phase.completed)
  /\ phase.pending = phase.sources \ Connected(phase)

NetworkInv ==
  /\ DOMAIN network = TaskIds
  /\ \A t \in TaskIds : network[t] # None => Fits(network[t])

\* All these sets are finite, since the lists of a request are.
LEMMA Occupying ==
  ASSUME NEW phase, Fits(phase)
  PROVE  /\ Occupied(phase) \subseteq Bridges /\ Connected(phase) \subseteq phase.sources
         /\ IsFiniteSet(Occupied(phase)) /\ IsFiniteSet(Connected(phase)) /\ IsFiniteSet(phase.sources)
<1> DEFINE Maps == [kind : {"mapping"}, source : phase.sources, target : Bridges]
<1>0. /\ phase.completed \in Seq(Maps)
      /\ \A map \in Maps : map.target \in Bridges /\ map.source \in phase.sources
  BY DEF Fits
<1> HIDE DEF Maps
<1>1. \A i \in DOMAIN phase.completed : phase.completed[i].target \in Bridges /\ phase.completed[i].source \in phase.sources
  BY <1>0
<1>2. Occupied(phase) \subseteq Bridges /\ Connected(phase) \subseteq phase.sources
  BY <1>1 DEF Occupied, Connected
<1>3. IsFiniteSet(phase.sources)
  BY FS_Subset, ListsAssumption DEF Fits
<1>4. QED
  BY <1>2, <1>3, FS_Subset, ListsAssumption

\* A request finds a phase that fits, or makes one.
LEMMA FoundOrMade ==
  ASSUME NetworkInv, NEW t \in TaskIds, NEW sources \in SUBSET VSwitches
  PROVE  Fits(NetworkPhase(t, sources))
<1>1. CASE network[t] # None
  BY <1>1 DEF NetworkInv, NetworkPhase
<1>2. CASE network[t] = None
  <2> DEFINE made == [kind |-> "phase", sources |-> sources, pending |-> sources, completed |-> <<>>]
  <2>1. /\ made.kind = "phase" /\ made.sources = sources /\ made.pending = sources /\ made.completed = <<>>
    OBVIOUS
  <2>2. NetworkPhase(t, sources) = made
    BY <1>2 DEF NetworkPhase
  <2> HIDE DEF made
  <2>3. Occupied(made) = {} /\ Connected(made) = {}
    BY <2>1 DEF Occupied, Connected
  <2>4. Fits(made)
    BY <2>1, <2>3, FS_EmptySet DEF Fits
  <2>5. QED
    BY <2>2, <2>4
<1>3. QED
  BY <1>1, <1>2

\* An accepted attempt occupies one more bridge, for its source.
LEMMA AttemptFits ==
  ASSUME NEW phase, Fits(phase), NEW s, NEW b \in Bridges, Accepted(phase, s, b)
  PROVE  Fits(attemptMapping(phase, s, b))
<1> DEFINE next == attemptMapping(phase, s, b)
           m    == Mapping(s, b)
           n    == Len(phase.completed)
           Maps == [kind : {"mapping"}, source : phase.sources, target : Bridges]
<1>1. /\ m \in Maps /\ m.source = s /\ m.target = b
  BY DEF Accepted, Mapping
<1> HIDE DEF m, Maps
<1>2. phase.completed \in Seq(Maps) /\ n \in Nat /\ DOMAIN phase.completed = 1 .. n
  BY DEF Fits, Maps
<1>3. /\ Append(phase.completed, m) \in Seq(Maps) /\ Len(Append(phase.completed, m)) = n + 1
      /\ DOMAIN Append(phase.completed, m) = 1 .. n + 1
      /\ \A i \in 1 .. n : Append(phase.completed, m)[i] = phase.completed[i]
      /\ Append(phase.completed, m)[n + 1] = m
  BY <1>1, <1>2
<1>4. /\ next.kind = phase.kind /\ next.sources = phase.sources
      /\ next.completed = Append(phase.completed, m) /\ next.pending = phase.pending \ {s}
  BY DEF attemptMapping, m, Fits
<1> HIDE DEF next, n
<1>5. 1 .. n + 1 = (1 .. n) \cup {n + 1}
  BY <1>2
<1>6. Occupied(next) = Occupied(phase) \cup {b}
  BY <1>1, <1>2, <1>3, <1>4, <1>5 DEF Occupied
<1>7. Connected(next) = Connected(phase) \cup {s}
  BY <1>1, <1>2, <1>3, <1>4, <1>5 DEF Connected
<1>8. Cardinality(Occupied(next)) = Cardinality(Occupied(phase)) + 1
  BY <1>6, Occupying, FS_AddElement DEF Accepted
<1>9. Cardinality(Occupied(next)) = Len(next.completed)
  BY <1>3, <1>4, <1>8 DEF Fits, n
<1>10. next.pending = next.sources \ Connected(next)
  BY <1>4, <1>7 DEF Fits
<1>11. Fits(next)
  BY <1>3, <1>4, <1>9, <1>10 DEF Fits, Maps
<1>12. QED
  BY <1>11 DEF next

\* Whatever was refused and whatever lists the requests carried, a phase fits.
THEOREM NetworkInvariance == SpecMappings => []NetworkInv
<1>1. InitMappings => NetworkInv
  BY DEF InitMappings, NetworkInv
<1>2. NetworkInv /\ [NextMappings]_<<vars, networkVars, storageVars>> => NetworkInv'
  <2> SUFFICES ASSUME NetworkInv, [NextMappings]_<<vars, networkVars, storageVars>> PROVE NetworkInv'
    OBVIOUS
  <2>1. CASE UNCHANGED network
    BY <2>1 DEF NetworkInv
  <2>2. ASSUME NEW t \in TaskIds, NEW sources \in SUBSET VSwitches, NEW s \in VSwitches, NEW b \in Bridges,
               PostNetworkMapping(t, sources, s, b)
        PROVE  NetworkInv'
    <3> DEFINE phase == NetworkPhase(t, sources)
    <3>1. Fits(phase)
      BY FoundOrMade
    <3>2. PICK next : network' = [network EXCEPT ![t] = next] /\ Fits(next)
      <4>1. CASE Accepted(phase, s, b)
        BY <2>2, <3>1, <4>1, AttemptFits DEF PostNetworkMapping
      <4>2. CASE ~Accepted(phase, s, b)
        BY <2>2, <3>1, <4>2 DEF PostNetworkMapping
      <4>3. QED
        BY <4>1, <4>2
    <3>3. QED
      BY <3>2 DEF NetworkInv
  <2>3. CASE RestartMappings
    BY <2>3 DEF RestartMappings, NetworkInv
  <2>4. QED
    BY <2>1, <2>2, <2>3 DEF NextMappings, PostStorageMapping, networkVars
<1>3. QED
  BY <1>1, <1>2, PTL DEF SpecMappings

\* Two sources never share a bridge, and a client that connects no source
\* twice is never left without one: every source that has its bridge has just
\* one, so as many bridges are free for the others as there can be.
THEOREM NetworkCorrect == SpecMappings => []NetworkCanBeCompleted
<1>1. NetworkInv => NetworkCanBeCompleted
  <2> SUFFICES ASSUME NetworkInv, NEW t \in TaskIds, network[t] # None,
                      NEW phase, phase = network[t]
               PROVE  /\ Cardinality(Occupied(phase)) = Len(phase.completed)
                      /\ Len(phase.completed) = Cardinality(Connected(phase))
                           /\ Cardinality(phase.sources) <= Cardinality(Bridges) =>
                         Cardinality(phase.pending) <= Cardinality(Bridges \ Occupied(phase))
    BY DEF NetworkCanBeCompleted
  <2>1. Fits(phase)
    BY DEF NetworkInv
  <2> SUFFICES ASSUME Len(phase.completed) = Cardinality(Connected(phase)),
                      Cardinality(phase.sources) <= Cardinality(Bridges)
               PROVE  Cardinality(phase.pending) <= Cardinality(Bridges \ Occupied(phase))
    BY <2>1 DEF Fits
  <2>2. /\ phase.sources \cap Connected(phase) = Connected(phase)
        /\ Bridges \cap Occupied(phase) = Occupied(phase)
    BY <2>1, Occupying
  <2>3. Cardinality(phase.pending) = Cardinality(phase.sources) - Cardinality(Connected(phase))
    <3>1. IsFiniteSet(phase.sources)
      BY <2>1, Occupying
    <3>2. Cardinality(phase.sources \ Connected(phase)) =
            Cardinality(phase.sources) - Cardinality(phase.sources \cap Connected(phase))
      BY <3>1, FS_Difference
    <3>3. QED
      BY <2>1, <2>2, <3>2 DEF Fits
  <2>4. Cardinality(Bridges \ Occupied(phase)) = Cardinality(Bridges) - Cardinality(Occupied(phase))
    <3>1. Cardinality(Bridges \ Occupied(phase)) = Cardinality(Bridges) - Cardinality(Bridges \cap Occupied(phase))
      BY FS_Difference, ListsAssumption
    <3>2. QED
      BY <2>2, <3>1
  <2>5. /\ Cardinality(phase.sources) \in Nat /\ Cardinality(Bridges) \in Nat
        /\ Cardinality(Connected(phase)) \in Nat /\ Cardinality(Occupied(phase)) \in Nat
    BY <2>1, Occupying, FS_CardinalityType, ListsAssumption
  <2>6. Cardinality(Occupied(phase)) = Cardinality(Connected(phase))
    BY <2>1 DEF Fits
  <2>7. QED
    BY <2>3, <2>4, <2>5, <2>6
<1>2. QED
  BY <1>1, NetworkInvariance, PTL

-----------------------------------------------------------------------------
(***************************************************************************)
(* What the task carries of its mappings                                   *)
(***************************************************************************)

\* A phase of the storage mapping.
Assigned(phase) ==
  /\ phase.kind = "phase"
  /\ phase.pools \subseteq Pools
  /\ \A g \in phase.completed : g.pool \in phase.pools
  /\ \A g, h \in phase.completed : g.vm = h.vm => g = h

CarriedInv ==
  /\ DOMAIN networkMapping = TaskIds /\ DOMAIN storage = TaskIds /\ DOMAIN storageMapping = TaskIds
  /\ \A t \in TaskIds :
       /\ network[t] # None => LET done == network[t].completed
                              IN done # <<>> => networkMapping[t] = done[Len(done)]
       /\ storage[t] # None =>
            /\ Assigned(storage[t])
            /\ LET given == storage[t].completed
               IN given # {} => \E g \in given : storageMapping[t] = Mapping(g.vm, g.pool)

\* A new pool replaces the old one of the machine.
LEMMA AssignAssigns ==
  ASSUME NEW phase, Assigned(phase), NEW vm, NEW pool \in phase.pools
  PROVE  /\ Assigned(assign(phase, vm, pool))
         /\ \E g \in assign(phase, vm, pool).completed : Mapping(vm, pool) = Mapping(g.vm, g.pool)
<1> DEFINE next  == assign(phase, vm, pool)
           given == [vm |-> vm, pool |-> pool]
           kept  == {g \in phase.completed : g.vm # vm}
<1>1. /\ next.kind = "phase" /\ next.pools = phase.pools
      /\ next.completed = kept \cup {given}
  BY DEF assign
<1>2. given.vm = vm /\ given.pool = pool
  OBVIOUS
<1>3. \A g \in kept : g \in phase.completed /\ g.vm # vm
  OBVIOUS
<1> HIDE DEF next, given, kept
<1>4. Assigned(next)
  BY <1>1, <1>2, <1>3 DEF Assigned
<1>5. given \in next.completed
  BY <1>1
<1>6. \E g \in next.completed : Mapping(vm, pool) = Mapping(g.vm, g.pool)
  BY <1>2, <1>5
<1>7. QED
  BY <1>4, <1>6 DEF next

\* A network request keeps what the tasks carry.
LEMMA NetworkKeepsCarried ==
  ASSUME NetworkInv, CarriedInv, NEW t \in TaskIds, NEW sources \in SUBSET VSwitches,
         NEW s \in VSwitches, NEW b \in Bridges, PostNetworkMapping(t, sources, s, b)
  PROVE  CarriedInv'
<1> DEFINE phase == NetworkPhase(t, sources)
<1>1. /\ Fits(phase)
      /\ UNCHANGED storageVars
      /\ DOMAIN network = TaskIds /\ DOMAIN networkMapping = TaskIds
  BY FoundOrMade DEF PostNetworkMapping, NetworkInv, CarriedInv
<1>2. network[t] # None => phase = network[t]
  BY DEF NetworkPhase
<1>3. network[t] = None => phase.completed = <<>>
  BY DEF NetworkPhase
<1> HIDE DEF phase
<1>4. CASE Accepted(phase, s, b)
  <2> DEFINE next == attemptMapping(phase, s, b)
  <2>1. /\ network' = [network EXCEPT ![t] = next]
        /\ networkMapping' = [networkMapping EXCEPT ![t] = Mapping(s, b)]
    BY <1>4 DEF PostNetworkMapping, phase
  <2>2. phase.completed \in Seq([kind : {"mapping"}, source : phase.sources, target : Bridges])
    BY <1>1 DEF Fits
  <2>3. Mapping(s, b) \in [kind : {"mapping"}, source : phase.sources, target : Bridges]
    BY <1>4 DEF Accepted, Mapping
  <2>4. next.completed = Append(phase.completed, Mapping(s, b))
    <3>1. next = [phase EXCEPT !.completed = Append(phase.completed, Mapping(s, b)),
                               !.pending = phase.pending \ {s}]
      BY DEF attemptMapping
    <3>2. QED
      BY <1>1, <3>1 DEF Fits
  <2>5. next.completed # <<>> /\ next.completed[Len(next.completed)] = Mapping(s, b)
    BY <2>2, <2>3, <2>4
  <2> HIDE DEF next
  <2>6. QED
    BY <1>1, <2>1, <2>5 DEF CarriedInv, storageVars
<1>5. CASE ~Accepted(phase, s, b)
  <2>1. network' = [network EXCEPT ![t] = phase] /\ networkMapping' = networkMapping
    BY <1>5 DEF PostNetworkMapping, phase
  <2>2. QED
    BY <1>1, <1>2, <1>3, <2>1 DEF CarriedInv, storageVars
<1>6. QED
  BY <1>4, <1>5

\* A storage request keeps what the tasks carry.
LEMMA StorageKeepsCarried ==
  ASSUME CarriedInv, NEW t \in TaskIds, NEW pools \in SUBSET Pools, NEW vm \in VMs, NEW pool \in Pools,
         PostStorageMapping(t, pools, vm, pool)
  PROVE  CarriedInv'
<1> DEFINE phase == StoragePhase(t, pools)
<1>1. /\ UNCHANGED networkVars
      /\ DOMAIN storage = TaskIds /\ DOMAIN storageMapping = TaskIds
  BY DEF PostStorageMapping, CarriedInv
<1>2. storage[t] # None => phase = storage[t]
  BY DEF StoragePhase
<1>3. storage[t] = None => phase.completed = {}
  BY DEF StoragePhase
<1>4. Assigned(phase)
  <2>1. CASE storage[t] # None
    BY <1>2, <2>1 DEF CarriedInv
  <2>2. CASE storage[t] = None
    BY <2>2 DEF StoragePhase, Assigned
  <2>3. QED
    BY <2>1, <2>2
<1> HIDE DEF phase
<1>5. CASE pool \in phase.pools
  <2> DEFINE next == assign(phase, vm, pool)
  <2>1. /\ storage' = [storage EXCEPT ![t] = next]
        /\ storageMapping' = [storageMapping EXCEPT ![t] = Mapping(vm, pool)]
    BY <1>5 DEF PostStorageMapping, phase
  <2>2. /\ Assigned(next)
        /\ \E g \in next.completed : Mapping(vm, pool) = Mapping(g.vm, g.pool)
    BY <1>4, <1>5, AssignAssigns
  <2> HIDE DEF next
  <2>3. QED
    BY <1>1, <2>1, <2>2 DEF CarriedInv, networkVars
<1>6. CASE pool \notin phase.pools
  <2>1. storage' = [storage EXCEPT ![t] = phase] /\ storageMapping' = storageMapping
    BY <1>6 DEF PostStorageMapping, phase
  <2>2. QED
    BY <1>1, <1>2, <1>3, <1>4, <2>1 DEF CarriedInv, networkVars
<1>7. QED
  BY <1>5, <1>6

\* The mappings a task carries are those its phases gave it, whatever lists
\* the requests carried, whatever was refused and wherever restarts came.
THEOREM MappingsCarried == SpecMappings => []TaskCarriesItsMappings
<1>1. InitMappings => CarriedInv
  BY DEF InitMappings, CarriedInv
<1>2. NetworkInv /\ CarriedInv /\ [NextMappings]_<<vars, networkVars, storageVars>> => CarriedInv'
  <2> SUFFICES ASSUME NetworkInv, CarriedInv, [NextMappings]_<<vars, networkVars, storageVars>>
               PROVE  CarriedInv'
    OBVIOUS
  <2>1. CASE UNCHANGED <<networkVars, storageVars>>
    BY <2>1 DEF CarriedInv, networkVars, storageVars
  <2>2. CASE RestartMappings
    BY <2>2 DEF RestartMappings, CarriedInv
  <2>3. QED
    BY <2>1, <2>2, NetworkKeepsCarried, StorageKeepsCarried DEF NextMappings
<1>3. CarriedInv => TaskCarriesItsMappings
  BY DEF CarriedInv, TaskCarriesItsMappings, Assigned
<1>4. QED
  BY <1>1, <1>2, <1>3, NetworkInvariance, PTL DEF SpecMappings

=============================================================================
