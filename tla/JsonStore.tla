------------------------------ MODULE JsonStore ------------------------------
(***************************************************************************)
(* The JSON store: every change of the memory schedules a save (debounced  *)
(* by a timer), a save captures references to the memory, makes the        *)
(* directory, serialises, writes <path>.tmp and renames it over the state  *)
(* file.  The process may crash between any two steps, a step may fail,    *)
(* and a restart loads the file.                                           *)
(*                                                                         *)
(* The memory is reduced to what is copied at different moments:           *)
(*   entries   records added to or replaced in a Map (tasks created, users *)
(*             and sessions upserted): the Map is copied at the capture    *)
(*   progress  dataTransferredGB of a task, changed in place by the sync   *)
(*             timer without scheduling a save: read when serialising      *)
(*   offset    checkpointOffset of the same task: read when serialising    *)
(*   history   the task's list of checkpoints: saveCheckpoint pushes to    *)
(*             the list in the Map and then puts a cut copy in its place,  *)
(*             so a captured list sees one more push and no more           *)
(***************************************************************************)
EXTENDS Naturals, Sequences, FiniteSets

CONSTANTS
  Saves,       \* slots for saveNow calls in progress
  MAX_HISTORY, \* checkpoints kept by CheckpointSystem
  MaxEntries,  \* bound: map-level changes
  MaxProgress, \* bound: units of data copied
  MaxSaved,    \* bound: checkpoints taken since the process started
  NoOverlap    \* TRUE: a save is over before the next one begins, be it
               \* after the 200 ms of the debounce or at a stop with a noted
               \* change.  A stop without one begins no save: it may come
               \* while a save is running.

ASSUME BoundsAssumption ==
  /\ MAX_HISTORY \in Nat \ {0} /\ MaxEntries \in Nat /\ MaxProgress \in Nat
  /\ MaxSaved \in Nat /\ NoOverlap \in BOOLEAN
  /\ Saves # {} /\ IsFiniteSet(Saves)

VARIABLES
  phase,    \* "up", "closing" (shutdown awaits its save), "stopped", "crashed"
  mem,      \* the memory
  taken,    \* checkpoints taken since the process started
  pending,  \* JsonStore.pending
  timer,    \* saveTimer is armed
  readOnly, \* JsonStore.readOnly
  save,     \* the saveNow calls in progress
  inode,    \* contents of the inodes
  file,     \* inode of the state file, 0 when there is none
  tmp,      \* inode of <path>.tmp, 0 when there is none
  failed    \* the last saves did not reach the file and nothing will retry

process == <<phase, mem, taken, pending, timer, readOnly>>
disk == <<inode, file, tmp>>
vars == <<process, save, disk, failed>>

EmptyMemory == [entries |-> 0, progress |-> 0, offset |-> 0, history |-> <<>>]

\* A file is being written or was cut short; it is complete; or it was
\* written by a newer version of the program.
Torn == [kind |-> "torn"]
Newer == [kind |-> "newer"]
Complete(m) == [kind |-> "complete", content |-> m]
\* One inode per save that has a file open, one for the state file and one
\* for the temporary file.
Inodes == 1 .. Cardinality(Saves) + 2

NoSave == [pc |-> "idle"]
Captured(m, wait) == [pc |-> "mkdir", snap |-> m, shared |-> m.history # <<>>,
                      ino |-> 0, awaited |-> wait]

Running(s) == save[s].pc # "idle"

KeepLatest(list) ==
  IF Len(list) <= MAX_HISTORY THEN list
  ELSE SubSeq(list, Len(list) - MAX_HISTORY + 1, Len(list))

FileContent == IF file = 0 THEN Torn ELSE inode[file]

\* load(): no file and an unreadable file leave the memory empty; a file of a
\* newer schema is not loaded and must not be replaced.
LoadedMemory(c) ==
  IF c.kind = "complete" THEN [c.content EXCEPT !.history = KeepLatest(@)] ELSE EmptyMemory

\* A defect: the version of the file is not looked at.
LoadedReadOnlyNever(c) == FALSE

LoadedReadOnly(c) == c.kind = "newer"

\* The process is started on an empty directory or beside a file of a newer
\* program.
Init ==
  /\ phase = "up" /\ mem = EmptyMemory /\ taken = 0
  /\ pending = FALSE /\ timer = FALSE
  /\ save = [s \in Saves |-> NoSave]
  /\ \/ file = 0 /\ inode = [i \in Inodes |-> Torn]
     \/ file = 1 /\ inode = [i \in Inodes |-> IF i = 1 THEN Newer ELSE Torn]
  /\ readOnly = LoadedReadOnly(FileContent)
  /\ tmp = 0 /\ failed = FALSE

-----------------------------------------------------------------------------
(***************************************************************************)
(* Changes of the memory and the saves they schedule                       *)
(***************************************************************************)

\* A defect: while a save is running, a change is taken to be part of it.
ScheduleOnce ==
  IF readOnly THEN UNCHANGED <<pending, timer>>
  ELSE pending' = ~(\E s \in Saves : Running(s)) /\ timer' = (timer \/ pending')

\* scheduleSave(): notes the change and arms the timer if it is not.
scheduleSave ==
  IF readOnly THEN UNCHANGED <<pending, timer>> ELSE pending' = TRUE /\ timer' = TRUE

\* A task is created, a user or a session is upserted, an audit entry added.
ChangeEntries ==
  /\ phase = "up" /\ mem.entries < MaxEntries
  /\ mem' = [mem EXCEPT !.entries = @ + 1]
  /\ scheduleSave
  /\ UNCHANGED <<phase, taken, readOnly, save, disk, failed>>

\* The sync timer ticks: no event the store listens to.  It goes on while
\* the server closes.
Progress ==
  /\ phase \in {"up", "closing"} /\ mem.progress < MaxProgress
  /\ mem' = [mem EXCEPT !.progress = @ + 1]
  /\ UNCHANGED <<phase, taken, pending, timer, readOnly, save, disk, failed>>

\* saveCheckpoint.  A save whose captured list is still the one in the Map
\* sees the push; after it the Map holds another list.
PushToCaptured(s, offset) ==
  IF save[s].pc = "mkdir" /\ save[s].shared
  THEN [save[s] EXCEPT !.snap.history = Append(@, offset), !.shared = FALSE]
  ELSE save[s]

saveCheckpoint ==
  /\ phase = "up" /\ taken < MaxSaved
  /\ mem' = [mem EXCEPT !.offset = mem.progress,
                        !.history = KeepLatest(Append(@, mem.progress))]
  /\ save' = [s \in Saves |-> PushToCaptured(s, mem.progress)]
  /\ taken' = taken + 1
  /\ scheduleSave
  /\ UNCHANGED <<phase, readOnly, disk, failed>>

-----------------------------------------------------------------------------
(***************************************************************************)
(* saveNow                                                                 *)
(***************************************************************************)

\* The synchronous beginning of saveNow, in a free slot.
Capture(s, wait) ==
  /\ ~Running(s)
  /\ NoOverlap => \A other \in Saves : ~Running(other)
  /\ save' = [save EXCEPT ![s] = Captured(mem, wait)]
  /\ failed' = FALSE

\* A defect: the note of the change is dropped and no save is begun.
TimerFiresForgetting(s) ==
  /\ phase = "up" /\ timer /\ pending
  /\ timer' = FALSE /\ pending' = FALSE
  /\ ~Running(s) /\ UNCHANGED save /\ failed' = FALSE
  /\ UNCHANGED <<phase, mem, taken, readOnly, disk>>

TimerFires(s) ==
  /\ phase = "up" /\ timer /\ pending
  /\ timer' = FALSE /\ pending' = FALSE
  /\ Capture(s, FALSE)
  /\ UNCHANGED <<phase, mem, taken, readOnly, disk>>

\* A defect: the tasks are copied when the save begins, the checkpoints when
\* it serialises.
SerialisedCheckpointsLater(s) == [save[s].snap EXCEPT !.history = mem.history]

\* What is serialised: the captured Map and list, the live task object.
Serialised(s) ==
  [save[s].snap EXCEPT !.progress = mem.progress, !.offset = mem.offset]

\* A defect: the state file itself is opened and truncated.
OpenInPlace(s) ==
  /\ save[s].pc = "mkdir"
  /\ LET i == IF file # 0 THEN file ELSE CHOOSE j \in Inodes : TRUE IN
     /\ inode' = [inode EXCEPT ![i] = Torn]
     /\ file' = i
     /\ save' = [save EXCEPT ![s].pc = "opened", ![s].snap = Serialised(s), ![s].ino = i]
  /\ tmp' = tmp
  /\ UNCHANGED <<process, failed>>

InUse == {file, tmp} \cup {save[s].ino : s \in {x \in Saves : Running(x)}}

\* mkdir is done: the memory is serialised and <path>.tmp opened, which
\* truncates the one that is there.
Open(s) ==
  /\ save[s].pc = "mkdir"
  /\ LET i == IF tmp # 0 THEN tmp ELSE CHOOSE j \in Inodes : j \notin InUse IN
     /\ inode' = [inode EXCEPT ![i] = Torn]
     /\ tmp' = i
     /\ save' = [save EXCEPT ![s].pc = "opened", ![s].snap = Serialised(s), ![s].ino = i]
  /\ UNCHANGED <<process, file, failed>>

\* The text is written from the start of the file.  Over the text of another
\* save, or beside another save that writes, it may come out mixed.
Write(s) ==
  /\ save[s].pc = "opened"
  /\ LET i == save[s].ino
         mixed == \/ inode[i].kind = "complete"
                  \/ \E other \in Saves \ {s} : save[other].pc = "opened" /\ save[other].ino = i
     IN \E c \in {Complete(save[s].snap)} \cup (IF mixed THEN {Torn} ELSE {}) :
          inode' = [inode EXCEPT ![i] = c]
  /\ save' = [save EXCEPT ![s].pc = "written"]
  /\ UNCHANGED <<process, file, tmp, failed>>

\* rename(tmp, path): fails when another save has already renamed it.  The
\* inode it replaces is gone unless another save has it open.
Rename(s) ==
  /\ save[s].pc = "written"
  /\ save' = [save EXCEPT ![s] = NoSave]
  /\ \/ tmp # 0 /\ file' = tmp /\ tmp' = 0 /\ UNCHANGED failed
     \/ tmp = 0 /\ failed' = TRUE /\ UNCHANGED <<file, tmp>>
  /\ inode' = [i \in Inodes |->
       IF i \in {file', tmp'} \cup {save'[x].ino : x \in {y \in Saves : save'[y].pc # "idle"}}
       THEN inode[i] ELSE Torn]
  /\ UNCHANGED process

\* A step fails (disk full, no permission): logged, and not tried again.
Fail(s) ==
  /\ Running(s)
  /\ save' = [save EXCEPT ![s] = NoSave]
  /\ failed' = TRUE
  /\ UNCHANGED <<process, disk>>

-----------------------------------------------------------------------------
(***************************************************************************)
(* Stopping, crashing, starting                                            *)
(***************************************************************************)

\* A defect: the timer is cleared and nothing is saved.
ShutdownWithoutSave ==
  /\ phase = "up"
  /\ phase' = "closing"
  /\ timer' = FALSE
  /\ UNCHANGED <<save, failed>>
  /\ UNCHANGED <<mem, taken, pending, readOnly, disk>>

\* shutdown(): the timer is cleared; a noted change is saved and awaited.  A
\* save that is already running is not.
Shutdown ==
  /\ phase = "up"
  /\ phase' = "closing"
  /\ timer' = FALSE
  /\ IF pending THEN \E s \in Saves : Capture(s, TRUE)
     ELSE UNCHANGED <<save, failed>>
  /\ UNCHANGED <<mem, taken, pending, readOnly, disk>>

\* process.exit(0) once shutdown() has resolved: a save it did not await ends
\* where it is.
Exit ==
  /\ phase = "closing"
  /\ \A s \in Saves : Running(s) => ~save[s].awaited
  /\ phase' = "stopped"
  /\ save' = [s \in Saves |-> NoSave]
  /\ UNCHANGED <<mem, taken, pending, timer, readOnly, disk, failed>>

\* The memory, the timer and the saves in progress are gone.
Crash ==
  /\ phase \in {"up", "closing"}
  /\ phase' = "crashed"
  /\ mem' = EmptyMemory /\ pending' = FALSE /\ timer' = FALSE
  /\ save' = [s \in Saves |-> NoSave]
  /\ UNCHANGED <<taken, readOnly, disk, failed>>

\* A defect: requests are served before the file is read.
StartUnloaded ==
  /\ phase \in {"stopped", "crashed"}
  /\ phase' = "up"
  /\ mem' = EmptyMemory
  /\ readOnly' = LoadedReadOnly(FileContent)
  /\ taken' = 0 /\ pending' = FALSE /\ timer' = FALSE /\ failed' = FALSE
  /\ UNCHANGED <<save, disk>>

\* A new process: load() before anything is served.
Start ==
  /\ phase \in {"stopped", "crashed"}
  /\ phase' = "up"
  /\ mem' = LoadedMemory(FileContent)
  /\ readOnly' = LoadedReadOnly(FileContent)
  /\ taken' = 0 /\ pending' = FALSE /\ timer' = FALSE /\ failed' = FALSE
  /\ UNCHANGED <<save, disk>>

-----------------------------------------------------------------------------
SaveStep(s) == Open(s) \/ Write(s) \/ Rename(s)

Next ==
  \/ ChangeEntries \/ Progress \/ saveCheckpoint
  \/ \E s \in Saves : TimerFires(s) \/ SaveStep(s) \/ Fail(s)
  \/ Shutdown \/ Exit \/ Crash \/ Start

\* The event loop fires an armed timer and a file operation ends.
Fairness == \A s \in Saves : WF_vars(TimerFires(s)) /\ WF_vars(SaveStep(s))

Spec == Init /\ [][Next]_vars /\ Fairness

-----------------------------------------------------------------------------
(***************************************************************************)
(* Properties                                                              *)
(***************************************************************************)

\* The state file is never seen half written: with saves that do not
\* overlap, a crash at any point leaves the old file or the new one.
FileIsWhole == file # 0 => inode[file].kind # "torn"

Scheduled(m) == [entries |-> m.entries, offset |-> m.offset, history |-> m.history]

\* A file of a newer schema is never replaced or changed.
NewerFileIsKept == [][FileContent = Newer => FileContent' = Newer]_vars

\* After any crash the restored task can be resumed safely: its offset and
\* its checkpoints lie within the progress restored with it, and no restored
\* checkpoint is beyond the restored offset.
ResumeIsSafeAfterRestart ==
  /\ mem.offset <= mem.progress
  /\ \A i \in 1 .. Len(mem.history) : mem.history[i] <= mem.offset

\* Every scheduled change reaches the file, unless the server stops or fails
\* to write.
ChangesReachTheFile ==
  \A n \in 1 .. MaxEntries :
    phase = "up" /\ ~readOnly /\ mem.entries >= n ~>
      \/ phase # "up" \/ failed
      \/ LoadedMemory(FileContent).entries >= n

Register == INSTANCE SnapshotRegister WITH
  live <- IF phase \in {"stopped", "crashed"} THEN LoadedMemory(FileContent).entries
          ELSE mem.entries,
  disk <- LoadedMemory(FileContent).entries

\* For the entries, the store is the register of SnapshotRegister: the file
\* only moves forward and a restart goes back to the file.
ImplementsRegister == Register!Spec

\* "Single-file in-memory, no concurrent writers within one process"
\* (JsonStore.ts, tx): at most one saveNow is past its capture.
NoConcurrentWriters == Cardinality({s \in Saves : Running(s)}) <= 1

\* A change a save was scheduled for is always either noted, or on its way in
\* a running save, or in the file: between saves of a process that is up or
\* closing, and after a stop that had a noted change, the file holds the
\* memory's entries, offset and checkpoints, unless a write failed.  A stop
\* with nothing noted does not wait for a running save (shutdown,
\* JsonStore.ts): what that save carries is lost with the exit, so of such a
\* stop nothing is said here.
ChangesAreNotedOrSaved ==
  /\ ~readOnly /\ ~failed
  /\ \A s \in Saves : ~Running(s)
  /\ \/ phase = "up" /\ ~pending
     \/ phase = "closing"
     \/ phase = "stopped" /\ pending
  => Scheduled(LoadedMemory(FileContent)) = Scheduled(mem)

=============================================================================
