---------------------------- MODULE TaskMappings ----------------------------
(***************************************************************************)
(* The handlers of the network and the storage mapping beside those of     *)
(* MigrationApi.  A task's phase object is made by the first request that  *)
(* comes, refused or not, from the lists that this request carries; later  *)
(* requests work on it whatever lists they carry.  Warnings (a VLAN used   *)
(* twice, a pool of the wrong tier) refuse nothing and are left out.       *)
(***************************************************************************)
EXTENDS MigrationApi, FiniteSets, SequencesExt

CONSTANTS
  VSwitches, \* sources of the network
  Bridges,   \* their targets
  Pools,     \* storage pools
  VMs        \* machines that are given a pool

\* A request carries its lists: they are finite.
ASSUME ListsAssumption == IsFiniteSet(VSwitches) /\ IsFiniteSet(Bridges)

VARIABLES
  network,        \* networkMappings: the phase of each task, or None
  networkMapping, \* task.networkMapping, or None
  storage,        \* storageMappings: the phase of each task, or None
  storageMapping  \* task.storageMapping, or None

networkVars == <<network, networkMapping>>
storageVars == <<storage, storageMapping>>
None == [kind |-> "none"]

InitMappings ==
  /\ Init
  /\ network = [t \in TaskIds |-> None] /\ networkMapping = [t \in TaskIds |-> None]
  /\ storage = [t \in TaskIds |-> None] /\ storageMapping = [t \in TaskIds |-> None]

\* The phase that a request finds, or makes of its sources and all bridges.
NetworkPhase(t, sources) ==
  IF network[t] # None THEN network[t]
  ELSE [kind |-> "phase", sources |-> sources, pending |-> sources, completed |-> <<>>]

Mapping(source, target) == [kind |-> "mapping", source |-> source, target |-> target]
Occupied(phase) == {phase.completed[i].target : i \in DOMAIN phase.completed}
Connected(phase) == {phase.completed[i].source : i \in DOMAIN phase.completed}

\* A defect: an occupied bridge is looked for among those of the same source.
AcceptedTwice(phase, s, b) == s \in phase.sources /\ Mapping(s, b) \notin ToSet(phase.completed)

\* validateNetworkMapping: a bridge is given once; a source may come again.
Accepted(phase, s, b) == s \in phase.sources /\ b \notin Occupied(phase)

attemptMapping(phase, s, b) ==
  [phase EXCEPT !.completed = Append(@, Mapping(s, b)), !.pending = @ \ {s}]

\* POST .../network-mapping; a refused request may still make the phase.
PostNetworkMapping(t, sources, s, b) ==
  /\ Call
  /\ LET phase == NetworkPhase(t, sources) IN
     \/ /\ Accepted(phase, s, b)
        /\ network' = [network EXCEPT ![t] = attemptMapping(phase, s, b)]
        /\ networkMapping' = [networkMapping EXCEPT ![t] = Mapping(s, b)]
     \/ /\ ~Accepted(phase, s, b)
        /\ network' = [network EXCEPT ![t] = phase]
        /\ UNCHANGED networkMapping
  /\ UNCHANGED <<taskVars, timer, history, request, storageVars>>

\* The phase that a request finds, or makes of its pools.
StoragePhase(t, pools) ==
  IF storage[t] # None THEN storage[t]
  ELSE [kind |-> "phase", pools |-> pools, completed |-> {}]

\* A machine that comes again is given the new pool instead.
assign(phase, vm, pool) ==
  [kind |-> "phase", pools |-> phase.pools,
   completed |-> {g \in phase.completed : g.vm # vm} \cup {[vm |-> vm, pool |-> pool]}]

\* A defect: the pool is looked up in the list of this request.
PostStorageMappingOfRequest(t, pools, vm, pool) ==
  /\ Call
  /\ IF pool \in pools
     THEN /\ storage' = [storage EXCEPT ![t] = assign(StoragePhase(t, pools), vm, pool)]
          /\ storageMapping' = [storageMapping EXCEPT ![t] = Mapping(vm, pool)]
     ELSE /\ storage' = [storage EXCEPT ![t] = StoragePhase(t, pools)]
          /\ UNCHANGED storageMapping
  /\ UNCHANGED <<taskVars, timer, history, request, networkVars>>

\* POST .../storage-mapping: an unknown pool is refused after the phase was
\* made.
PostStorageMapping(t, pools, vm, pool) ==
  /\ Call
  /\ LET phase == StoragePhase(t, pools) IN
     \/ /\ pool \in phase.pools
        /\ storage' = [storage EXCEPT ![t] = assign(phase, vm, pool)]
        /\ storageMapping' = [storageMapping EXCEPT ![t] = Mapping(vm, pool)]
     \/ /\ pool \notin phase.pools
        /\ storage' = [storage EXCEPT ![t] = phase]
        /\ UNCHANGED storageMapping
  /\ UNCHANGED <<taskVars, timer, history, request, networkVars>>

\* The phases are kept in memory only; what the task carries is saved.
RestartMappings ==
  /\ Restart
  /\ network' = [t \in TaskIds |-> None]
  /\ storage' = [t \in TaskIds |-> None]
  /\ UNCHANGED <<networkMapping, storageMapping>>

NextMappings ==
  \/ Working /\ UNCHANGED <<networkVars, storageVars>>
  \/ RestartMappings
  \/ \E t \in TaskIds :
       \/ \E sources \in SUBSET VSwitches, s \in VSwitches, b \in Bridges :
            PostNetworkMapping(t, sources, s, b)
       \/ \E pools \in SUBSET Pools, vm \in VMs, pool \in Pools :
            PostStorageMapping(t, pools, vm, pool)

SpecMappings ==
  InitMappings /\ [][NextMappings]_<<vars, networkVars, storageVars>> /\ Fairness

-----------------------------------------------------------------------------
(***************************************************************************)
(* Properties                                                              *)
(***************************************************************************)

\* Two sources never share a bridge, and a task's network can always be
\* completed by a client that offers enough bridges and connects no source
\* twice, whatever was refused and whatever lists the requests carried.  (A
\* source that is connected twice keeps both bridges, and another one may
\* then be left without.)
NetworkCanBeCompleted ==
  \A t \in TaskIds : network[t] # None =>
    LET phase == network[t]
        once == Len(phase.completed) = Cardinality(Connected(phase))
    IN /\ Cardinality(Occupied(phase)) = Len(phase.completed)
       /\ once /\ Cardinality(phase.sources) <= Cardinality(Bridges) =>
            Cardinality(phase.pending) <= Cardinality(Bridges \ Occupied(phase))

\* The mappings a task carries are those its phases gave it, in whatever order
\* accepted and refused requests and restarts come, and whatever lists they
\* carry: its network mapping is the last one completed; a machine has one
\* pool, of the list the phase was made of, and the task carries the mapping
\* of one of them.  (After a restart a phase starts empty again, beside the
\* mappings the task still carries.)
TaskCarriesItsMappings ==
  \A t \in TaskIds :
    /\ network[t] # None =>
         LET done == network[t].completed
         IN done # <<>> => networkMapping[t] = done[Len(done)]
    /\ storage[t] # None =>
         LET given == storage[t].completed
         IN /\ \A g \in given : g.pool \in storage[t].pools
            /\ \A g, h \in given : g.vm = h.vm => g = h
            /\ given # {} => \E g \in given : storageMapping[t] = Mapping(g.vm, g.pool)

=============================================================================
