--------------------------- MODULE JsonStoreProofs ---------------------------
(***************************************************************************)
(* What the state file promises.                                           *)
(*                                                                         *)
(* Whatever overlaps: a restored task can be resumed (Trusted says that    *)
(* every memory there is, in the process, in a file or on its way to one,  *)
(* has its checkpoints within its offset and its offset within its         *)
(* progress), and a file of a newer program is kept (Guarded).             *)
(*                                                                         *)
(* When a save is over before the next one begins: there is one save, and  *)
(* what it has written is in the temporary file (Alone), so the state file *)
(* is whole.  The entries of the file, of the save and of the memory then  *)
(* stay in order (Forward), which makes every step one of                  *)
(* SnapshotRegister; and what is not noted as pending is on its way or in  *)
(* the file (Lossless).  A stop waits for the save it begins, so it leaves *)
(* what was noted in the file; a save it finds running is not waited for,  *)
(* and what that carries may be lost.                                      *)
(***************************************************************************)
EXTENDS JsonStore, FiniteSetTheorems, SequenceTheorems, TLAPS

Memory == [entries : Nat, progress : Nat, offset : Nat, history : Seq(Nat)]
Contents == {Torn, Newer} \cup [kind : {"complete"}, content : Memory]
InProgress == [pc : {"mkdir", "opened", "written"}, snap : Memory, shared : BOOLEAN,
               ino : {0} \cup Inodes, awaited : BOOLEAN]

Typed ==
  /\ phase \in {"up", "closing", "stopped", "crashed"}
  /\ mem \in Memory /\ Len(mem.history) <= MAX_HISTORY
  /\ save \in [Saves -> {NoSave} \cup InProgress]
  /\ inode \in [Inodes -> Contents]
  /\ file \in {0} \cup Inodes /\ tmp \in {0} \cup Inodes
  /\ phase \in {"stopped", "crashed"} => \A s \in Saves : ~Running(s)

\* No list of checkpoints, wherever it is, goes beyond the offset beside it,
\* and no offset beyond the progress.  Of a save that has not serialised yet
\* only the list counts, because its offset will be the one of the memory.
Resumable(m) == m.offset <= m.progress /\ \A i \in 1 .. Len(m.history) : m.history[i] <= m.offset

Trusted ==
  /\ Resumable(mem)
  /\ \A i \in Inodes : inode[i].kind = "complete" => Resumable(inode[i].content)
  /\ \A s \in Saves : save[s].pc = "mkdir" =>
       \A i \in 1 .. Len(save[s].snap.history) : save[s].snap.history[i] <= mem.offset
  /\ \A s \in Saves : save[s].pc \in {"opened", "written"} => Resumable(save[s].snap)

\* A file of a newer program is the state file, and nothing is going to be
\* saved beside it.
Guarded ==
  /\ \A i \in Inodes : inode[i].kind = "newer" => i = file /\ readOnly
  /\ readOnly => ~pending /\ \A s \in Saves : ~Running(s)

\* One save at a time: what it has written is in the temporary file.
Alone ==
  /\ \A s, o \in Saves : Running(s) /\ Running(o) => s = o
  /\ tmp # 0 => tmp # file
  /\ \A s \in Saves : save[s].pc \in {"opened", "written"} => tmp # 0 /\ save[s].ino = tmp
  /\ \A s \in Saves : save[s].pc = "opened" => inode[tmp] = Torn
  /\ \A s \in Saves : save[s].pc = "written" => inode[tmp] = Complete(save[s].snap)
  /\ phase = "closing" /\ pending => \A s \in Saves : Running(s) => save[s].awaited
  /\ FileIsWhole

\* The entries of the file, of the save in progress and of the memory come
\* in this order.
Restored == LoadedMemory(FileContent)

Forward ==
  phase \in {"up", "closing"} =>
    /\ Restored.entries <= mem.entries
    /\ \A s \in Saves : Running(s) =>
         Restored.entries <= save[s].snap.entries /\ save[s].snap.entries <= mem.entries

\* When no change is noted, the save in progress has them all, and if there
\* is none the file does.  A save that has not serialised yet takes the
\* offset then.
Carries(s) ==
  /\ save[s].snap.entries = mem.entries /\ save[s].snap.history = mem.history
  /\ save[s].pc # "mkdir" => save[s].snap.offset = mem.offset

Settled ==
  \/ phase = "up" /\ ~pending
  \/ phase = "closing"
  \/ phase = "stopped" /\ pending

Lossless ==
  Settled /\ ~readOnly =>
    /\ \A s \in Saves : Running(s) => Carries(s)
    /\ (\A s \in Saves : ~Running(s)) /\ ~failed => Scheduled(Restored) = Scheduled(mem)

-----------------------------------------------------------------------------
\* The cut to the latest checkpoints.
LEMMA LatestKept ==
  ASSUME NEW list \in Seq(Nat)
  PROVE  /\ KeepLatest(list) \in Seq(Nat)
         /\ Len(KeepLatest(list)) <= MAX_HISTORY
         /\ Len(list) <= MAX_HISTORY => KeepLatest(list) = list
         /\ \A i \in 1 .. Len(KeepLatest(list)) : \E j \in 1 .. Len(list) : KeepLatest(list)[i] = list[j]
<1>1. Len(list) \in Nat /\ MAX_HISTORY \in Nat \ {0}
  BY BoundsAssumption
<1>2. CASE Len(list) <= MAX_HISTORY
  BY <1>1, <1>2 DEF KeepLatest
<1>3. CASE ~(Len(list) <= MAX_HISTORY)
  <2> DEFINE first == Len(list) - MAX_HISTORY + 1
             cut == SubSeq(list, first, Len(list))
  <2>1. first \in 1 .. Len(list) /\ Len(list) - first + 1 = MAX_HISTORY
    BY <1>1, <1>3
  <2> HIDE DEF first
  <2>2. /\ cut \in Seq(Nat) /\ Len(cut) = MAX_HISTORY
        /\ \A i \in 1 .. MAX_HISTORY : cut[i] = list[first + i - 1]
    BY <1>1, <2>1
  <2>3. \A i \in 1 .. MAX_HISTORY : first + i - 1 \in 1 .. Len(list)
    BY <1>1, <2>1
  <2>4. KeepLatest(list) = cut
    BY <1>3 DEF KeepLatest, first
  <2> HIDE DEF cut
  <2>5. QED
    BY <1>1, <1>3, <2>2, <2>3, <2>4, SMTT(30)
<1>4. QED
  BY <1>2, <1>3

\* What a start makes of a file is a memory.
LEMMA MemoryLoaded ==
  ASSUME NEW c \in Contents
  PROVE  LoadedMemory(c) \in Memory /\ Len(LoadedMemory(c).history) <= MAX_HISTORY
<1>1. CASE c.kind = "complete"
  <2>1. c.content \in Memory
    BY <1>1 DEF Contents, Torn, Newer
  <2> DEFINE kept == KeepLatest(c.content.history)
  <2>2. LoadedMemory(c) = [c.content EXCEPT !.history = kept]
    BY <1>1 DEF LoadedMemory
  <2>3. c.content.history \in Seq(Nat)
    BY <2>1 DEF Memory
  <2>4. kept \in Seq(Nat) /\ Len(kept) <= MAX_HISTORY
    BY <2>3, LatestKept
  <2> HIDE DEF kept
  <2>5. QED
    BY <2>1, <2>2, <2>4 DEF Memory
<1>2. CASE c.kind # "complete"
  BY <1>2, BoundsAssumption DEF LoadedMemory, EmptyMemory, Memory
<1>3. QED
  BY <1>1, <1>2

\* The file that a start reads has contents.
LEMMA FileContentTyped ==
  ASSUME Typed PROVE FileContent \in Contents
BY DEF Typed, FileContent, Contents

\* A save that opens a file while there is no temporary one finds a free
\* inode: one is the state file's, and fewer than there are saves are open.
LEMMA FreeInode ==
  ASSUME Typed, tmp = 0 PROVE (CHOOSE j \in Inodes : j \notin InUse) \in Inodes \ InUse
<1> DEFINE Active == {s \in Saves : Running(s)}
           Open1 == {save[s].ino : s \in Active}
           ino == [s \in Active |-> save[s].ino]
<1>1. IsFiniteSet(Active) /\ Cardinality(Active) <= Cardinality(Saves)
  BY BoundsAssumption, FS_Subset
<1>2. ino \in Surjection(Active, Open1)
  BY DEF Surjection
<1>3. IsFiniteSet(Open1) /\ Cardinality(Open1) <= Cardinality(Active)
  <2> HIDE DEF Active, Open1, ino
  <2>1. QED
    BY <1>1, <1>2, FS_Surjection
<1>4. InUse = {file, 0} \cup Open1
  BY DEF InUse
<1>5. /\ Cardinality(Saves) \in Nat /\ Cardinality(Active) \in Nat /\ Cardinality(Open1) \in Nat
  BY <1>1, <1>3, BoundsAssumption, FS_CardinalityType
<1> DEFINE Used == (Open1 \cup {file}) \ {0}
<1>6. IsFiniteSet(Used) /\ Cardinality(Used) <= Cardinality(Saves) + 1
  <2> HIDE DEF Open1, Active
  <2>1. IsFiniteSet(Open1 \cup {file}) /\ Cardinality(Open1 \cup {file}) \in Nat
        /\ Cardinality(Open1 \cup {file}) <= Cardinality(Saves) + 1
    <3>1. IsFiniteSet(Open1 \cup {file})
          /\ Cardinality(Open1 \cup {file}) = IF file \in Open1 THEN Cardinality(Open1) ELSE Cardinality(Open1) + 1
      BY <1>3, FS_AddElement
    <3>2. QED
      BY <1>1, <1>3, <1>5, <3>1
  <2>2. IsFiniteSet(Used) /\ Cardinality(Used) <= Cardinality(Open1 \cup {file})
    BY <2>1, FS_Subset
  <2> HIDE DEF Used
  <2>3. Cardinality(Used) \in Nat
    BY <2>2, FS_CardinalityType
  <2>4. QED
    BY <1>5, <2>1, <2>2, <2>3
<1>7. IsFiniteSet(Inodes) /\ Cardinality(Inodes) = Cardinality(Saves) + 2
  <2>1. \A n \in Nat : IsFiniteSet(1 .. n + 2) /\ Cardinality(1 .. n + 2) = n + 2
    BY FS_Interval
  <2>2. QED
    BY <1>5, <2>1 DEF Inodes
<1>8. ~(Inodes \subseteq Used)
  <2> HIDE DEF Used
  <2>1. SUFFICES ASSUME Inodes \subseteq Used PROVE FALSE
    OBVIOUS
  <2>2. Cardinality(Inodes) <= Cardinality(Used) /\ Cardinality(Used) \in Nat
    BY <1>6, <2>1, FS_Subset, FS_CardinalityType
  <2>3. QED
    BY <1>5, <1>6, <1>7, <2>2
<1>9. \E j \in Inodes : j \notin InUse
  BY <1>4, <1>5, <1>8 DEF Inodes
<1>10. QED
  BY <1>9

-----------------------------------------------------------------------------
\* ----- what a step leaves of a save -------------------------------------
LEMMA SaveCaptured ==
  ASSUME Typed, NEW wait \in BOOLEAN
  PROVE  /\ Captured(mem, wait) \in InProgress
         /\ Captured(mem, wait).pc = "mkdir" /\ Captured(mem, wait).snap = mem
         /\ Captured(mem, wait).awaited = wait
BY DEF Typed, Captured, InProgress, Memory

\* A push to the captured list changes a save only before it is written.
LEMMA SavePushed ==
  ASSUME Typed, NEW s \in Saves, NEW offset \in Nat
  PROVE  LET r == PushToCaptured(s, offset) IN
         /\ r \in {NoSave} \cup InProgress /\ r.pc = save[s].pc
         /\ Running(s) => r.ino = save[s].ino /\ r.awaited = save[s].awaited
         /\ Running(s) => \/ r.snap = save[s].snap
                          \/ /\ save[s].pc = "mkdir"
                             /\ r.snap.entries = save[s].snap.entries
                             /\ r.snap.history = Append(save[s].snap.history, offset)
<1>1. CASE ~(save[s].pc = "mkdir" /\ save[s].shared)
  BY <1>1 DEF PushToCaptured, Typed
<1>2. CASE save[s].pc = "mkdir" /\ save[s].shared
  <2>1. save[s] \in InProgress
    BY <1>2 DEF Typed, NoSave
  <2> DEFINE snap == [save[s].snap EXCEPT !.history = Append(@, offset)]
  <2>2. snap \in Memory /\ snap.entries = save[s].snap.entries
        /\ snap.history = Append(save[s].snap.history, offset)
    <3>1. save[s].snap \in Memory
      BY <2>1 DEF InProgress
    <3>2. save[s].snap.history \in Seq(Nat)
      BY <3>1 DEF Memory
    <3>3. Append(save[s].snap.history, offset) \in Seq(Nat)
      BY <3>2
    <3>4. \A list \in Seq(Nat) :
            LET m == [save[s].snap EXCEPT !.history = list] IN
            m \in Memory /\ m.entries = save[s].snap.entries /\ m.history = list
      BY <3>1 DEF Memory
    <3>5. QED
      BY <3>3, <3>4
  <2>3. PushToCaptured(s, offset) = [save[s] EXCEPT !.snap = snap, !.shared = FALSE]
    BY <1>2 DEF PushToCaptured
  <2> HIDE DEF snap
  <2>4. ASSUME NEW b \in BOOLEAN
        PROVE  LET r == [save[s] EXCEPT !.snap = snap, !.shared = b] IN
               /\ r \in InProgress /\ r.pc = save[s].pc /\ r.snap = snap
               /\ r.ino = save[s].ino /\ r.awaited = save[s].awaited
    BY <2>1, <2>2 DEF InProgress
  <2>5. QED
    BY <1>2, <2>2, <2>3, <2>4
<1>3. QED
  BY <1>1, <1>2

\* A save that has opened its file: the pieces that are read late are those of now.
LEMMA SaveOpened ==
  ASSUME Typed, NEW s \in Saves, save[s].pc = "mkdir", NEW i \in Inodes
  PROVE  LET r == [save[s] EXCEPT !.pc = "opened", !.snap = Serialised(s), !.ino = i] IN
         /\ Serialised(s) \in Memory
         /\ Serialised(s).entries = save[s].snap.entries /\ Serialised(s).history = save[s].snap.history
         /\ Serialised(s).progress = mem.progress /\ Serialised(s).offset = mem.offset
         /\ r \in InProgress /\ r.pc = "opened" /\ r.snap = Serialised(s) /\ r.ino = i
         /\ r.awaited = save[s].awaited
<1>1. save[s] \in InProgress
  BY DEF Typed, NoSave
<1>2. /\ Serialised(s) \in Memory
      /\ Serialised(s).entries = save[s].snap.entries /\ Serialised(s).history = save[s].snap.history
      /\ Serialised(s).progress = mem.progress /\ Serialised(s).offset = mem.offset
  BY <1>1 DEF Serialised, InProgress, Memory, Typed
<1>3. QED
  BY <1>1, <1>2 DEF InProgress

\* A save that has written keeps what it has serialised.
LEMMA SaveWritten ==
  ASSUME Typed, NEW s \in Saves, save[s].pc = "opened"
  PROVE  LET r == [save[s] EXCEPT !.pc = "written"] IN
         /\ r \in InProgress /\ r.pc = "written" /\ r.snap = save[s].snap /\ r.ino = save[s].ino
         /\ r.awaited = save[s].awaited
BY DEF Typed, NoSave, InProgress

\* Opening truncates the temporary file, a new one or the one that is there.
LEMMA EffectOfOpen ==
  ASSUME Typed, NEW s \in Saves, Open(s)
  PROVE  /\ save[s].pc = "mkdir" /\ save' \in [Saves -> {NoSave} \cup InProgress]
         /\ \A o \in Saves : o # s => save'[o] = save[o]
         /\ save'[s].pc = "opened" /\ save'[s].snap = Serialised(s) /\ save'[s].ino = tmp'
         /\ save'[s].awaited = save[s].awaited
         /\ tmp' \in Inodes /\ inode' = [inode EXCEPT ![tmp'] = Torn]
         /\ tmp # 0 => tmp' = tmp
         /\ tmp = 0 => tmp' \notin InUse
         /\ UNCHANGED <<process, file, failed>>
<1> DEFINE i == IF tmp # 0 THEN tmp ELSE CHOOSE j \in Inodes : j \notin InUse
<1>1. i \in Inodes /\ (tmp = 0 => i \notin InUse)
  BY FreeInode DEF Typed
<1>2. /\ save[s].pc = "mkdir" /\ inode' = [inode EXCEPT ![i] = Torn] /\ tmp' = i
      /\ save' = [save EXCEPT ![s].pc = "opened", ![s].snap = Serialised(s), ![s].ino = i]
      /\ UNCHANGED <<process, file, failed>>
  BY DEF Open
<1>3. tmp # 0 => i = tmp
  OBVIOUS
<1> HIDE DEF i
<1> DEFINE r == [save[s] EXCEPT !.pc = "opened", !.snap = Serialised(s), !.ino = i]
<1>4. r \in InProgress /\ r.pc = "opened" /\ r.snap = Serialised(s) /\ r.ino = i
      /\ r.awaited = save[s].awaited
  BY <1>1, <1>2, SaveOpened
<1>5. save' = [save EXCEPT ![s] = r]
  BY <1>2
<1> HIDE DEF r
<1>6. QED
  BY <1>1, <1>2, <1>3, <1>4, <1>5, ZenonT(60) DEF Typed

\* Writing fills the inode that was opened, or tears it by a failure.
LEMMA EffectOfWrite ==
  ASSUME Typed, NEW s \in Saves, Write(s)
  PROVE  /\ save[s].pc = "opened" /\ save' \in [Saves -> {NoSave} \cup InProgress]
         /\ \A o \in Saves : o # s => save'[o] = save[o]
         /\ save'[s].pc = "written" /\ save'[s].snap = save[s].snap /\ save'[s].ino = save[s].ino
         /\ save'[s].awaited = save[s].awaited
         /\ \E c \in {Complete(save[s].snap), Torn} :
              /\ inode' = [inode EXCEPT ![save[s].ino] = c]
              /\ c = Torn => \/ inode[save[s].ino].kind = "complete"
                             \/ \E o \in Saves \ {s} : save[o].pc = "opened"
         /\ Complete(save[s].snap) \in Contents
         /\ UNCHANGED <<process, file, tmp, failed>>
<1>1. save[s].pc = "opened" /\ save' = [save EXCEPT ![s].pc = "written"] /\ UNCHANGED <<process, file, tmp, failed>>
  BY DEF Write
<1> DEFINE r == [save[s] EXCEPT !.pc = "written"]
<1>2. r \in InProgress /\ r.pc = "written" /\ r.snap = save[s].snap /\ r.ino = save[s].ino
      /\ r.awaited = save[s].awaited
  BY <1>1, SaveWritten
<1>3. save' = [save EXCEPT ![s] = r]
  BY <1>1
<1> HIDE DEF r
<1>4. /\ save' \in [Saves -> {NoSave} \cup InProgress]
      /\ \A o \in Saves : o # s => save'[o] = save[o]
      /\ save'[s] = r
  BY <1>2, <1>3 DEF Typed
<1>5. Complete(save[s].snap) \in Contents /\ Complete(save[s].snap).kind = "complete"
  <2>1. save[s].snap \in Memory
    BY <1>1 DEF Typed, NoSave, InProgress
  <2>2. QED
    BY <2>1 DEF Contents, Complete
<1>6. \E c \in {Complete(save[s].snap), Torn} :
        /\ inode' = [inode EXCEPT ![save[s].ino] = c]
        /\ c = Torn => \/ inode[save[s].ino].kind = "complete"
                       \/ \E o \in Saves \ {s} : save[o].pc = "opened"
  <2> DEFINE mixed == \/ inode[save[s].ino].kind = "complete"
                      \/ \E o \in Saves \ {s} : save[o].pc = "opened" /\ save[o].ino = save[s].ino
  <2>1. PICK c \in {Complete(save[s].snap)} \cup (IF mixed THEN {Torn} ELSE {}) :
              inode' = [inode EXCEPT ![save[s].ino] = c]
    BY DEF Write
  <2>2. Complete(save[s].snap) # Torn
    BY <1>5 DEF Torn
  <2>3. c \in {Complete(save[s].snap), Torn} /\ (c = Torn => mixed)
    BY <2>2
  <2>4. QED
    BY <2>1, <2>3
<1>7. QED
  BY <1>1, <1>2, <1>4, <1>5, <1>6

\* Renaming makes the temporary file the file, if it is still there.
LEMMA EffectOfRename ==
  ASSUME Typed, NEW s \in Saves, Rename(s)
  PROVE  /\ save[s].pc = "written" /\ save' = [save EXCEPT ![s] = NoSave]
         /\ IF tmp # 0 THEN file' = tmp /\ tmp' = 0 /\ failed' = failed
            ELSE file' = file /\ tmp' = tmp /\ failed' = TRUE
         /\ inode' \in [Inodes -> Contents]
         /\ \A i \in Inodes : inode'[i] = inode[i] \/ (inode'[i] = Torn /\ i # file' /\ i # tmp')
         /\ UNCHANGED process
<1>1. /\ save[s].pc = "written" /\ save' = [save EXCEPT ![s] = NoSave] /\ UNCHANGED process
      /\ IF tmp # 0 THEN file' = tmp /\ tmp' = 0 /\ failed' = failed
         ELSE file' = file /\ tmp' = tmp /\ failed' = TRUE
  BY DEF Rename
<1> DEFINE Kept == {file', tmp'} \cup {save'[x].ino : x \in {y \in Saves : save'[y].pc # "idle"}}
<1>2. inode' = [i \in Inodes |-> IF i \in Kept THEN inode[i] ELSE Torn]
  BY DEF Rename
<1>3. file' \in Kept /\ tmp' \in Kept
  OBVIOUS
<1> HIDE DEF Kept
<1>4. inode' \in [Inodes -> Contents]
  BY <1>2 DEF Typed, Contents
<1>5. QED
  BY <1>1, <1>2, <1>3, <1>4

\* A checkpoint is at the progress of now, and the others were there.
LEMMA EffectOfCheckpoint ==
  ASSUME Typed, saveCheckpoint
  PROVE  /\ phase = "up" /\ mem' \in Memory /\ mem'.entries = mem.entries /\ mem'.progress = mem.progress
         /\ mem'.offset = mem.progress /\ Len(mem'.history) <= MAX_HISTORY
         /\ \A i \in 1 .. Len(mem'.history) :
              \/ mem'.history[i] = mem.progress
              \/ \E j \in 1 .. Len(mem.history) : mem'.history[i] = mem.history[j]
         /\ save' \in [Saves -> {NoSave} \cup InProgress]
         /\ \A s \in Saves : save'[s] = PushToCaptured(s, mem.progress)
         /\ scheduleSave /\ UNCHANGED <<phase, readOnly, disk, failed>>
<1>1. mem.progress \in Nat /\ mem.history \in Seq(Nat)
  BY DEF Typed, Memory
<1> DEFINE list == Append(mem.history, mem.progress)
<1>2. list \in Seq(Nat)
      /\ \A j \in 1 .. Len(list) : list[j] = mem.progress \/ \E k \in 1 .. Len(mem.history) : list[j] = mem.history[k]
  BY <1>1
<1>3. mem' = [mem EXCEPT !.offset = mem.progress, !.history = KeepLatest(list)]
  BY DEF saveCheckpoint
<1> HIDE DEF list
<1>4. /\ KeepLatest(list) \in Seq(Nat) /\ Len(KeepLatest(list)) <= MAX_HISTORY
      /\ \A i \in 1 .. Len(KeepLatest(list)) : \E j \in 1 .. Len(list) : KeepLatest(list)[i] = list[j]
  BY <1>2, LatestKept
<1> DEFINE kept == KeepLatest(list)
<1>5. \A i \in 1 .. Len(kept) :
        kept[i] = mem.progress \/ \E j \in 1 .. Len(mem.history) : kept[i] = mem.history[j]
  BY <1>2, <1>4, SMTT(30)
<1>6. mem' = [mem EXCEPT !.offset = mem.progress, !.history = kept]
  BY <1>3
<1>7. kept \in Seq(Nat) /\ Len(kept) <= MAX_HISTORY
  BY <1>4
<1> HIDE DEF kept
<1>8. /\ mem' \in Memory /\ mem'.entries = mem.entries /\ mem'.progress = mem.progress
      /\ mem'.offset = mem.progress /\ mem'.history = kept
  BY <1>1, <1>6, <1>7 DEF Typed, Memory
<1>9. \A s \in Saves : PushToCaptured(s, mem.progress) \in {NoSave} \cup InProgress
  BY <1>1, SavePushed
<1>10. save' = [s \in Saves |-> PushToCaptured(s, mem.progress)] /\ phase = "up"
       /\ scheduleSave /\ UNCHANGED <<phase, readOnly, disk, failed>>
  BY DEF saveCheckpoint
<1>11. QED
  BY <1>5, <1>7, <1>8, <1>9, <1>10

\* A capture starts a save with the memory as it is.
LEMMA EffectOfCapture ==
  ASSUME Typed, NEW s \in Saves, NEW wait \in BOOLEAN, Capture(s, wait)
  PROVE  /\ save' \in [Saves -> {NoSave} \cup InProgress]
         /\ \A o \in Saves : o # s => save'[o] = save[o]
         /\ save'[s].pc = "mkdir" /\ save'[s].snap = mem /\ save'[s].awaited = wait
         /\ ~Running(s) /\ (NoOverlap => \A o \in Saves : ~Running(o)) /\ failed' = FALSE
BY SaveCaptured DEF Capture, Typed

\* A server without a file starts empty.
LEMMA EmptyMemoryTyped == EmptyMemory \in Memory /\ Len(EmptyMemory.history) = 0
BY DEF EmptyMemory, Memory

\* A change of the entries is a change of nothing else.
LEMMA EffectOfChange ==
  ASSUME Typed, ChangeEntries
  PROVE  /\ mem' \in Memory /\ mem'.entries = mem.entries + 1
         /\ mem'.progress = mem.progress /\ mem'.offset = mem.offset /\ mem'.history = mem.history
<1>1. mem \in Memory /\ mem' = [mem EXCEPT !.entries = mem.entries + 1]
  BY DEF Typed, ChangeEntries
<1>2. \A n \in Nat : LET m == [mem EXCEPT !.entries = n] IN
        /\ m \in Memory /\ m.entries = n
        /\ m.progress = mem.progress /\ m.offset = mem.offset /\ m.history = mem.history
  BY <1>1 DEF Memory
<1>3. mem.entries + 1 \in Nat
  BY <1>1 DEF Memory
<1>4. QED
  BY <1>1, <1>2, <1>3

\* Progress moves the progress only.
LEMMA EffectOfProgress ==
  ASSUME Typed, Progress
  PROVE  /\ mem' \in Memory /\ mem'.progress = mem.progress + 1
         /\ mem'.entries = mem.entries /\ mem'.offset = mem.offset /\ mem'.history = mem.history
<1>1. mem \in Memory /\ mem' = [mem EXCEPT !.progress = mem.progress + 1]
  BY DEF Typed, Progress
<1>2. \A n \in Nat : LET m == [mem EXCEPT !.progress = n] IN
        /\ m \in Memory /\ m.progress = n
        /\ m.entries = mem.entries /\ m.offset = mem.offset /\ m.history = mem.history
  BY <1>1 DEF Memory
<1>3. mem.progress + 1 \in Nat
  BY <1>1 DEF Memory
<1>4. QED
  BY <1>1, <1>2, <1>3

\* What is loaded is a memory with a history inside the limit.
LEMMA EffectOfLoad ==
  ASSUME Typed
  PROVE  LoadedMemory(FileContent) \in Memory /\ Len(LoadedMemory(FileContent).history) <= MAX_HISTORY
BY FileContentTyped, MemoryLoaded

-----------------------------------------------------------------------------
\* The memory, the file and the saves in progress keep their types.
THEOREM TypeCorrect == Spec => []Typed
<1>1. Init => Typed
  <2> SUFFICES ASSUME Init PROVE Typed
    OBVIOUS
  <2>1. Cardinality(Saves) \in Nat
    BY BoundsAssumption, FS_CardinalityType
  <2>2. 1 \in Inodes
    BY <2>1 DEF Inodes
  <2>3. MAX_HISTORY \in Nat
    BY BoundsAssumption
  <2>4. mem \in Memory /\ Len(mem.history) <= MAX_HISTORY
    BY <2>3, EmptyMemoryTyped DEF Init
  <2>5. inode \in [Inodes -> Contents]
    BY DEF Init, Contents
  <2>6. \A s \in Saves : ~Running(s)
    BY DEF Init, Running, NoSave
  <2>7. QED
    BY <2>2, <2>4, <2>5, <2>6 DEF Init, Typed
<1>2. Typed /\ [Next]_vars => Typed'
  <2> SUFFICES ASSUME Typed, [Next]_vars PROVE Typed'
    OBVIOUS
  <2>1. CASE UNCHANGED vars
    BY <2>1 DEF vars, process, disk, Typed, Running
  <2>2. CASE ChangeEntries
    BY <2>2, EffectOfChange DEF ChangeEntries, Typed, Running, disk
  <2>3. CASE Progress
    BY <2>3, EffectOfProgress DEF Progress, Typed, Running, disk
  <2>4. CASE saveCheckpoint
    BY <2>4, EffectOfCheckpoint DEF Typed, disk
  <2>5. ASSUME NEW s \in Saves, TimerFires(s) PROVE Typed'
    BY <2>5, EffectOfCapture DEF TimerFires, Typed, disk
  <2>6. ASSUME NEW s \in Saves, Open(s) PROVE Typed'
    <3>1. inode' \in [Inodes -> Contents]
      BY <2>6, EffectOfOpen DEF Typed, Contents
    <3>2. phase \notin {"stopped", "crashed"}
      BY <2>6 DEF Open, Typed, Running
    <3>3. QED
      BY <2>6, <3>1, <3>2, EffectOfOpen DEF Typed, process
  <2>7. ASSUME NEW s \in Saves, Write(s) PROVE Typed'
    <3>1. inode' \in [Inodes -> Contents]
      BY <2>7, EffectOfWrite DEF Typed, Contents
    <3>2. phase \notin {"stopped", "crashed"}
      BY <2>7 DEF Write, Typed, Running
    <3>3. QED
      BY <2>7, <3>1, <3>2, EffectOfWrite DEF Typed, process
  <2>8. ASSUME NEW s \in Saves, Rename(s) PROVE Typed'
    <3>1. phase \notin {"stopped", "crashed"}
      BY <2>8 DEF Rename, Typed, Running
    <3>2. QED
      BY <2>8, <3>1, EffectOfRename DEF Typed, process
  <2>9. ASSUME NEW s \in Saves, Fail(s) PROVE Typed'
    BY <2>9 DEF Fail, Typed, process, disk, Running
  <2>10. CASE Shutdown
    <3>1. save' \in [Saves -> {NoSave} \cup InProgress]
      BY <2>10, EffectOfCapture DEF Shutdown, Typed
    <3>2. QED
      BY <2>10, <3>1 DEF Shutdown, Typed, disk
  <2>11. CASE Exit
    BY <2>11 DEF Exit, Typed, disk, Running, NoSave
  <2>12. CASE Crash
    <3>1. MAX_HISTORY \in Nat
      BY BoundsAssumption
    <3>2. QED
      BY <2>12, <3>1, EmptyMemoryTyped DEF Crash, Typed, disk, Running, NoSave
  <2>13. CASE Start
    BY <2>13, EffectOfLoad DEF Start, Typed, disk
  <2>14. QED
    BY <2>1, <2>2, <2>3, <2>4, <2>5, <2>6, <2>7, <2>8, <2>9, <2>10, <2>11, <2>12, <2>13 DEF Next, SaveStep
<1>3. QED
  BY <1>1, <1>2, PTL DEF Spec

-----------------------------------------------------------------------------
\* A bound on a list may be raised.
LEMMA ListWithin ==
  ASSUME NEW list \in Seq(Nat), NEW a \in Nat, NEW b \in Nat, a <= b,
         \A i \in 1 .. Len(list) : list[i] <= a
  PROVE  \A i \in 1 .. Len(list) : list[i] <= b
OBVIOUS

\* The parts of a memory.
LEMMA MemoryFields ==
  ASSUME NEW m \in Memory
  PROVE  m.entries \in Nat /\ m.progress \in Nat /\ m.offset \in Nat /\ m.history \in Seq(Nat)
BY DEF Memory

\* What is safe to resume from in the file is so when it is loaded.
LEMMA LoadedResumable ==
  ASSUME NEW c \in Contents, c.kind = "complete" => Resumable(c.content)
  PROVE  Resumable(LoadedMemory(c))
<1>1. CASE c.kind = "complete"
  <2> DEFINE m == c.content
             kept == KeepLatest(m.history)
  <2>1. m \in Memory
    BY <1>1 DEF Contents, Torn, Newer
  <2>2. m.history \in Seq(Nat) /\ m.offset \in Nat /\ m.progress \in Nat
    BY <2>1, MemoryFields
  <2>3. LoadedMemory(c) = [m EXCEPT !.history = kept]
    BY <1>1 DEF LoadedMemory
  <2>4. m.offset <= m.progress /\ \A j \in 1 .. Len(m.history) : m.history[j] <= m.offset
    BY <1>1 DEF Resumable
  <2> HIDE DEF m
  <2>5. \A i \in 1 .. Len(kept) : \E j \in 1 .. Len(m.history) : kept[i] = m.history[j]
    BY <2>2, LatestKept
  <2> HIDE DEF kept
  <2>6. [m EXCEPT !.history = kept].offset = m.offset /\ [m EXCEPT !.history = kept].progress = m.progress
        /\ [m EXCEPT !.history = kept].history = kept
    BY <2>1 DEF Memory
  <2>7. QED
    BY <2>3, <2>4, <2>5, <2>6 DEF Resumable
<1>2. CASE c.kind # "complete"
  BY <1>2 DEF LoadedMemory, EmptyMemory, Resumable
<1>3. QED
  BY <1>1, <1>2

\* Every step keeps what a restart can trust.
LEMMA TrustedStep ==
  ASSUME Typed, Trusted, [Next]_vars PROVE Trusted'
<1>1. CASE UNCHANGED vars
  BY <1>1 DEF vars, process, disk, Trusted, Resumable
<1>2. ASSUME UNCHANGED <<save, inode>>,
             mem'.offset = mem.offset, mem'.history = mem.history,
             mem'.progress \in Nat, mem.progress <= mem'.progress
      PROVE  Trusted'
  <2>1. mem.offset \in Nat /\ mem.progress \in Nat
    BY MemoryFields DEF Typed
  <2>2. QED
    BY <1>2, <2>1 DEF Trusted, Resumable
<1>3. CASE ChangeEntries
  <2>1. mem.progress \in Nat
    BY MemoryFields DEF Typed
  <2>2. QED
    BY <1>2, <1>3, <2>1, EffectOfChange DEF ChangeEntries, disk
<1>4. CASE Progress
  <2>1. mem.progress \in Nat
    BY MemoryFields DEF Typed
  <2>2. QED
    BY <1>2, <1>4, <2>1, EffectOfProgress DEF Progress, disk
<1>5. CASE saveCheckpoint
  <2>1. /\ mem.offset \in Nat /\ mem.progress \in Nat /\ mem.history \in Seq(Nat)
        /\ mem.offset <= mem.progress
    BY MemoryFields DEF Typed, Trusted, Resumable
  <2>2. Resumable(mem')
    <3>1. \A j \in 1 .. Len(mem.history) : mem.history[j] <= mem.progress
      BY <2>1, ListWithin DEF Trusted, Resumable
    <3>2. /\ mem'.offset = mem.progress /\ mem'.progress = mem.progress
          /\ \A i \in 1 .. Len(mem'.history) :
               \/ mem'.history[i] = mem.progress
               \/ \E j \in 1 .. Len(mem.history) : mem'.history[i] = mem.history[j]
      BY <1>5, EffectOfCheckpoint
    <3>3. \A i \in 1 .. Len(mem'.history) : mem'.history[i] <= mem.progress
      BY <2>1, <3>1, <3>2
    <3>4. QED
      BY <2>1, <3>2, <3>3 DEF Resumable
  <2>3. ASSUME NEW s \in Saves, save'[s].pc = "mkdir"
        PROVE  \A i \in 1 .. Len(save'[s].snap.history) : save'[s].snap.history[i] <= mem'.offset
    <3>1. save'[s] = PushToCaptured(s, mem.progress) /\ mem'.offset = mem.progress
      BY <1>5, EffectOfCheckpoint
    <3>2. save[s].pc = "mkdir" /\ Running(s)
      BY <2>1, <2>3, <3>1, SavePushed DEF Running
    <3> DEFINE list == save[s].snap.history
    <3>3. list \in Seq(Nat)
      BY <3>2, MemoryFields DEF Typed, NoSave, InProgress
    <3>4. \A i \in 1 .. Len(list) : list[i] <= mem.progress
      BY <2>1, <3>2, <3>3, ListWithin DEF Trusted
    <3>5. save'[s].snap.history \in {list, Append(list, mem.progress)}
      BY <2>1, <3>1, <3>2, SavePushed
    <3> HIDE DEF list
    <3>6. \A i \in 1 .. Len(Append(list, mem.progress)) : Append(list, mem.progress)[i] <= mem.progress
      BY <2>1, <3>3, <3>4
    <3>7. QED
      BY <3>1, <3>4, <3>5, <3>6
  <2>4. ASSUME NEW s \in Saves, save'[s].pc \in {"opened", "written"} PROVE Resumable(save'[s].snap)
    <3>1. save'[s] = PushToCaptured(s, mem.progress)
      BY <1>5, EffectOfCheckpoint
    <3>2. save[s].pc \in {"opened", "written"} /\ save'[s].snap = save[s].snap
      BY <2>1, <2>4, <3>1, SavePushed DEF Running
    <3>3. QED
      BY <3>2 DEF Trusted
  <2>5. UNCHANGED inode
    BY <1>5, EffectOfCheckpoint DEF disk
  <2>6. QED
    BY <2>2, <2>3, <2>4, <2>5 DEF Trusted
<1>6. ASSUME NEW s \in Saves, NEW wait \in BOOLEAN, Capture(s, wait), UNCHANGED <<mem, inode>> PROVE Trusted'
  BY <1>6, EffectOfCapture DEF Trusted, Resumable
<1>7. ASSUME NEW s \in Saves, TimerFires(s) PROVE Trusted'
  BY <1>6, <1>7 DEF TimerFires, disk
<1>8. ASSUME NEW s \in Saves, Open(s) PROVE Trusted'
  <2>1. Resumable(Serialised(s))
    BY <1>8, SaveOpened, EffectOfOpen DEF Trusted, Resumable
  <2>2. \A i \in Inodes : inode'[i] = inode[i] \/ inode'[i] = Torn
    BY <1>8, EffectOfOpen DEF Typed
  <2>3. Torn.kind # "complete" /\ UNCHANGED mem
    BY <1>8, EffectOfOpen DEF Torn, process
  <2>4. QED
    BY <1>8, <2>1, <2>2, <2>3, EffectOfOpen DEF Trusted
<1>9. ASSUME NEW s \in Saves, Write(s) PROVE Trusted'
  <2>1. Resumable(save[s].snap) /\ UNCHANGED mem
    BY <1>9, EffectOfWrite DEF Trusted, process
  <2>2. \A i \in Inodes : inode'[i] = inode[i] \/ inode'[i] = Torn \/ inode'[i] = Complete(save[s].snap)
    BY <1>9, EffectOfWrite DEF Typed
  <2>3. Torn.kind # "complete" /\ Complete(save[s].snap).content = save[s].snap
    BY DEF Torn, Complete
  <2>4. \A i \in Inodes : inode'[i].kind = "complete" => Resumable(inode'[i].content)
    BY <2>1, <2>2, <2>3 DEF Trusted
  <2>5. QED
    BY <1>9, <2>1, <2>4, EffectOfWrite DEF Trusted
<1>10. ASSUME NEW s \in Saves, Rename(s) PROVE Trusted'
  <2>1. Torn.kind # "complete" /\ NoSave.pc = "idle"
    BY DEF Torn, NoSave
  <2>2. QED
    BY <1>10, <2>1, EffectOfRename DEF Trusted, process, Typed
<1>11. ASSUME NEW s \in Saves, Fail(s) PROVE Trusted'
  BY <1>11 DEF Fail, Trusted, process, disk, NoSave, Typed
<1>12. CASE Shutdown
  <2>1. UNCHANGED <<mem, inode>>
    BY <1>12 DEF Shutdown, disk
  <2>2. CASE UNCHANGED save
    BY <2>1, <2>2 DEF Trusted
  <2>3. CASE \E s \in Saves : Capture(s, TRUE)
    BY <1>6, <2>1, <2>3
  <2>4. QED
    BY <1>12, <2>2, <2>3 DEF Shutdown
<1>13. CASE Exit
  BY <1>13 DEF Exit, Trusted, disk, NoSave
<1>14. CASE Crash
  <2>1. Resumable(EmptyMemory)
    BY DEF EmptyMemory, Resumable
  <2>2. QED
    BY <1>14, <2>1 DEF Crash, Trusted, disk, NoSave
<1>15. CASE Start
  <2>1. FileContent.kind = "complete" => Resumable(FileContent.content)
    BY DEF FileContent, Torn, Typed, Trusted
  <2>2. Resumable(LoadedMemory(FileContent))
    BY <2>1, FileContentTyped, LoadedResumable
  <2>3. \A s \in Saves : save[s].pc = "idle"
    BY <1>15 DEF Start, Typed, Running
  <2>4. QED
    BY <1>15, <2>2, <2>3 DEF Start, Trusted, disk
<1>16. QED
  BY <1>1, <1>3, <1>4, <1>5, <1>7, <1>8, <1>9, <1>10, <1>11, <1>12, <1>13, <1>14, <1>15 DEF Next, SaveStep

\* Whatever overlaps, fails or crashes, and even with several saves writing
\* one temporary file, what is restored can be resumed.
THEOREM ResumeCorrect == Spec => []ResumeIsSafeAfterRestart
<1>1. Init => Trusted
  <2> SUFFICES ASSUME Init PROVE Trusted
    OBVIOUS
  <2>1. Resumable(mem)
    BY DEF Init, EmptyMemory, Resumable
  <2>2. \A i \in Inodes : inode[i].kind # "complete"
    BY DEF Init, Torn, Newer
  <2>3. QED
    BY <2>1, <2>2 DEF Init, Trusted, NoSave
<1>2. Trusted => ResumeIsSafeAfterRestart
  BY DEF Trusted, Resumable, ResumeIsSafeAfterRestart
<1>3. QED
  BY <1>1, <1>2, TrustedStep, TypeCorrect, PTL DEF Spec

-----------------------------------------------------------------------------
\* Every step keeps a newer file away from the saves.
LEMMA GuardedStep ==
  ASSUME Typed, Guarded, [Next]_vars PROVE Guarded'
<1> USE DEF Guarded
<1>1. ASSUME UNCHANGED <<disk, readOnly>>,
             readOnly => UNCHANGED pending /\ (\A s \in Saves : ~Running(s)')
      PROVE  Guarded'
  BY <1>1 DEF disk
<1>2. ASSUME NEW s \in Saves, Running(s), UNCHANGED <<process, readOnly>>,
             \A i \in Inodes : inode'[i].kind # "newer" \/ inode'[i] = inode[i]
      PROVE  Guarded'
  BY <1>2
<1>3. CASE UNCHANGED vars
  BY <1>3 DEF vars, process, disk, Running
<1>4. CASE ChangeEntries
  BY <1>4, <1>1 DEF ChangeEntries, scheduleSave, Running
<1>5. CASE Progress
  BY <1>5, <1>1 DEF Progress, Running
<1>6. CASE saveCheckpoint
  <2>1. mem.progress \in Nat
    BY MemoryFields DEF Typed
  <2>2. \A s \in Saves : ~Running(s) => ~Running(s)'
    BY <1>6, <2>1, EffectOfCheckpoint, SavePushed DEF Running
  <2>3. QED
    BY <1>6, <2>2, <1>1, EffectOfCheckpoint DEF scheduleSave
<1>7. ASSUME NEW s \in Saves, TimerFires(s) PROVE Guarded'
  BY <1>7 DEF TimerFires, disk
<1>8. ASSUME NEW s \in Saves, Open(s) PROVE Guarded'
  <2>1. \A i \in Inodes : inode'[i] = inode[i] \/ inode'[i] = Torn
    BY <1>8, EffectOfOpen DEF Typed
  <2>2. QED
    BY <1>8, <1>2, <2>1, EffectOfOpen DEF Running, Torn, process
<1>9. ASSUME NEW s \in Saves, Write(s) PROVE Guarded'
  <2>1. \A i \in Inodes : inode'[i] = inode[i] \/ inode'[i] = Torn \/ inode'[i] = Complete(save[s].snap)
    BY <1>9, EffectOfWrite DEF Typed
  <2>2. QED
    BY <1>9, <1>2, <2>1, EffectOfWrite DEF Running, Torn, Complete, process
<1>10. ASSUME NEW s \in Saves, Rename(s) PROVE Guarded'
  <2>1. Running(s) /\ UNCHANGED process
    BY <1>10, EffectOfRename DEF Running
  <2>2. \A i \in Inodes : inode'[i] = inode[i] \/ inode'[i] = Torn
    BY <1>10, EffectOfRename
  <2>3. Torn.kind # "newer"
    BY DEF Torn
  <2>4. UNCHANGED readOnly
    BY <2>1 DEF process
  <2>5. QED
    BY <1>2, <2>1, <2>2, <2>3, <2>4
<1>11. ASSUME NEW s \in Saves, Fail(s) PROVE Guarded'
  <2>1. Running(s) /\ UNCHANGED <<process, readOnly, inode>>
    BY <1>11 DEF Fail, disk, process
  <2>2. QED
    BY <1>2, <2>1
<1>12. CASE Shutdown
  BY <1>12, <1>1 DEF Shutdown, Running
<1>13. CASE Exit
  BY <1>13, <1>1 DEF Exit, Running, NoSave
<1>14. CASE Crash
  <2>1. \A s \in Saves : ~Running(s)'
    BY <1>14 DEF Crash, Running, NoSave
  <2>2. ~pending' /\ UNCHANGED <<readOnly, inode, file>>
    BY <1>14 DEF Crash, disk
  <2>3. QED
    BY <2>1, <2>2
<1>15. CASE Start
  <2>1. \A s \in Saves : ~Running(s)'
    BY <1>15 DEF Start, Typed, Running
  <2>2. file \in Inodes /\ inode[file].kind = "newer" => readOnly'
    <3>1. Cardinality(Saves) \in Nat
      BY BoundsAssumption, FS_CardinalityType
    <3>2. 0 \notin Inodes
      BY <3>1 DEF Inodes
    <3>3. QED
      BY <1>15, <3>2 DEF Start, LoadedReadOnly, FileContent
  <2>3. UNCHANGED <<inode, file>>
    BY <1>15 DEF Start, disk
  <2>4. ~pending'
    BY <1>15 DEF Start
  <2>5. QED
    BY <2>1, <2>2, <2>3, <2>4
<1>16. QED
  BY <1>3, <1>4, <1>5, <1>6, <1>7, <1>8, <1>9, <1>10, <1>11, <1>12, <1>13, <1>14, <1>15 DEF Next, SaveStep

\* A file of a newer version makes the store read-only: no save is scheduled or
\* under way, however the server got there.
THEOREM GuardedCorrect == Spec => []Guarded
<1>1. Init => Guarded
  <2> SUFFICES ASSUME Init PROVE Guarded
    OBVIOUS
  <2>1. Cardinality(Saves) \in Nat
    BY BoundsAssumption, FS_CardinalityType
  <2>2. 1 \in Inodes
    BY <2>1 DEF Inodes
  <2>3. \A s \in Saves : ~Running(s)
    BY DEF Init, Running, NoSave
  <2>4. \A i \in Inodes : inode[i].kind = "newer" => i = file /\ readOnly
    <3>1. Torn.kind # "newer" /\ Newer.kind = "newer" /\ 1 # 0
      BY DEF Torn, Newer
    <3>2. CASE file = 0 /\ inode = [i \in Inodes |-> Torn]
      BY <3>1, <3>2
    <3>3. CASE file = 1 /\ inode = [i \in Inodes |-> IF i = 1 THEN Newer ELSE Torn]
      <4>1. readOnly
        BY <2>2, <3>1, <3>3 DEF Init, LoadedReadOnly, FileContent
      <4>2. QED
        BY <3>1, <3>3, <4>1
    <3>4. QED
      BY <3>2, <3>3 DEF Init
  <2>5. QED
    BY <2>3, <2>4 DEF Init, Guarded
<1>2. QED
  BY <1>1, GuardedStep, TypeCorrect, PTL DEF Spec

\* A file of a newer program stays what it is: the store that found it is
\* read-only and no save runs beside it.
THEOREM NewerFileKept == Spec => NewerFileIsKept
<1>1. ASSUME Typed, Guarded, [Next]_vars, FileContent = Newer PROVE FileContent' = Newer
  <2>1. file \in Inodes /\ inode[file] = Newer /\ Newer.kind = "newer"
    BY <1>1 DEF FileContent, Typed, Newer, Torn
  <2>2. \A s \in Saves : ~Running(s)
    BY <1>1, <2>1 DEF Guarded
  <2>3. UNCHANGED <<file, inode>>
    BY <1>1, <2>2 DEF vars, disk, Next, ChangeEntries, Progress, saveCheckpoint, TimerFires, SaveStep,
       Open, Write, Rename, Fail, Shutdown, Exit, Crash, Start, Running
  <2>4. QED
    BY <1>1, <2>3 DEF FileContent
<1>2. QED
  BY <1>1, TypeCorrect, GuardedCorrect, PTL DEF Spec, NewerFileIsKept

-----------------------------------------------------------------------------
(***************************************************************************)
(* Saves that do not overlap                                               *)
(***************************************************************************)

\* A checkpoint leaves every save where it is.
LEMMA PushKept ==
  ASSUME Typed, saveCheckpoint, NEW s \in Saves
  PROVE  /\ save'[s].pc = save[s].pc /\ Running(s)' = Running(s)
         /\ Running(s) => save'[s].ino = save[s].ino /\ save'[s].awaited = save[s].awaited
                          /\ save'[s].snap.entries = save[s].snap.entries
         /\ Running(s) /\ save[s].pc # "mkdir" => save'[s].snap = save[s].snap
<1>1. mem.progress \in Nat
  BY MemoryFields DEF Typed
<1>2. save'[s] = PushToCaptured(s, mem.progress)
  BY EffectOfCheckpoint
<1>3. QED
  BY <1>1, <1>2, SavePushed DEF Running

\* What the steps of a save do to the files when it is the only one.
LEMMA AloneOpen ==
  ASSUME Typed, Alone, NEW s \in Saves, Open(s)
  PROVE  tmp' # 0 /\ tmp' # file' /\ inode'[tmp'] = Torn /\ FileContent' = FileContent
<1>1. /\ tmp' \in Inodes /\ inode' = [inode EXCEPT ![tmp'] = Torn]
      /\ tmp # 0 => tmp' = tmp
      /\ tmp = 0 => tmp' \notin InUse
      /\ file' = file
  BY EffectOfOpen
<1>2. Cardinality(Saves) \in Nat
  BY BoundsAssumption, FS_CardinalityType
<1>3. tmp' # 0
  BY <1>1, <1>2 DEF Inodes
<1>4. tmp' # file
  BY <1>1 DEF Alone, InUse
<1>5. QED
  BY <1>1, <1>3, <1>4 DEF FileContent, Typed

\* The only save writes a file that nobody reads.
LEMMA AloneWrite ==
  ASSUME Typed, Alone, NEW s \in Saves, Write(s)
  PROVE  /\ save[s].ino = tmp /\ inode'[tmp] = Complete(save[s].snap)
         /\ tmp # 0 /\ tmp # file /\ FileContent' = FileContent
<1>1. save[s].pc = "opened" /\ UNCHANGED <<file, tmp>>
  BY EffectOfWrite
<1>2. /\ save[s].ino = tmp /\ tmp # 0 /\ tmp # file /\ inode[tmp] = Torn
      /\ \A o \in Saves \ {s} : save[o].pc # "opened"
  BY <1>1 DEF Alone, Running
<1>3. Torn.kind # "complete"
  BY DEF Torn
<1>4. inode' = [inode EXCEPT ![tmp] = Complete(save[s].snap)]
  BY <1>2, <1>3, EffectOfWrite
<1>5. tmp \in Inodes
  BY <1>2 DEF Typed
<1>6. QED
  BY <1>1, <1>2, <1>4, <1>5 DEF FileContent, Typed

\* The only save leaves its own snapshot as the file.
LEMMA AloneRename ==
  ASSUME Typed, Alone, NEW s \in Saves, Rename(s)
  PROVE  /\ tmp' = 0 /\ file' # 0 /\ failed' = failed /\ FileContent' = Complete(save[s].snap)
         /\ \A o \in Saves : ~Running(o)'
<1>1. save[s].pc = "written" /\ save' = [save EXCEPT ![s] = NoSave]
  BY EffectOfRename
<1>2. tmp # 0 /\ inode[tmp] = Complete(save[s].snap) /\ \A o \in Saves : o # s => ~Running(o)
  BY <1>1 DEF Alone, Running
<1>3. file' = tmp /\ tmp' = 0 /\ failed' = failed
  BY <1>2, EffectOfRename
<1>4. tmp \in Inodes
  BY <1>2 DEF Typed
<1>5. inode'[tmp] = inode[tmp]
  BY <1>3, <1>4, EffectOfRename
<1>6. FileContent' = Complete(save[s].snap)
  BY <1>2, <1>3, <1>5 DEF FileContent
<1>7. \A o \in Saves : ~Running(o)'
  BY <1>1, <1>2 DEF Running, NoSave, Typed
<1>8. QED
  BY <1>2, <1>3, <1>6, <1>7

\* Every step keeps the saves apart, as long as they do not overlap.
LEMMA AloneStep ==
  ASSUME NoOverlap, Typed, Alone, [Next]_vars PROVE Alone'
<1>1. ASSUME UNCHANGED <<save, disk>>, phase' = "closing" /\ pending' => phase = "closing" /\ pending
      PROVE  Alone'
  BY <1>1 DEF Alone, Running, FileIsWhole, disk
<1>2. ASSUME \A s \in Saves : ~Running(s)', UNCHANGED disk PROVE Alone'
  BY <1>2 DEF Alone, Running, FileIsWhole, disk
<1>3. ASSUME NEW s \in Saves, NEW wait \in BOOLEAN, Capture(s, wait), UNCHANGED disk,
             phase' = "closing" => wait
      PROVE  Alone'
  <2>1. /\ \A o \in Saves : o # s => ~Running(o)'
        /\ save'[s].pc = "mkdir" /\ save'[s].awaited = wait
    BY <1>3, EffectOfCapture DEF Running
  <2>2. QED
    BY <1>3, <2>1 DEF Alone, Running, FileIsWhole, disk
<1>4. CASE UNCHANGED vars
  BY <1>1, <1>4 DEF vars, process
<1>5. CASE ChangeEntries
  BY <1>1, <1>5 DEF ChangeEntries
<1>6. CASE Progress
  BY <1>1, <1>6 DEF Progress
<1>7. CASE saveCheckpoint
  <2>1. phase = "up" /\ UNCHANGED <<phase, disk>>
    BY <1>7, EffectOfCheckpoint
  <2>2. QED
    BY <1>7, <2>1, PushKept DEF Alone, Running, FileIsWhole, disk
<1>8. ASSUME NEW s \in Saves, TimerFires(s) PROVE Alone'
  <2>1. Capture(s, FALSE) /\ UNCHANGED disk /\ phase' # "closing"
    BY <1>8 DEF TimerFires
  <2>2. QED
    BY <1>3, <2>1
<1>9. ASSUME NEW s \in Saves, Open(s) PROVE Alone'
  <2>1. tmp' # 0 /\ tmp' # file' /\ inode'[tmp'] = Torn /\ FileContent' = FileContent
    BY <1>9, AloneOpen
  <2>2. /\ save[s].pc = "mkdir" /\ \A o \in Saves : o # s => save'[o] = save[o]
        /\ save'[s].pc = "opened" /\ save'[s].ino = tmp' /\ save'[s].awaited = save[s].awaited
        /\ UNCHANGED <<phase, pending, file>>
    BY <1>9, EffectOfOpen DEF process
  <2>3. \A o \in Saves : o # s => ~Running(o)
    BY <2>2 DEF Alone, Running
  <2>4. FileIsWhole'
    BY <2>1, <2>2 DEF Alone, FileIsWhole, FileContent
  <2>5. QED
    BY <2>1, <2>2, <2>3, <2>4 DEF Alone, Running
<1>10. ASSUME NEW s \in Saves, Write(s) PROVE Alone'
  <2>1. /\ save[s].ino = tmp /\ inode'[tmp] = Complete(save[s].snap)
        /\ tmp # 0 /\ tmp # file /\ FileContent' = FileContent
    BY <1>10, AloneWrite
  <2>2. /\ save[s].pc = "opened" /\ \A o \in Saves : o # s => save'[o] = save[o]
        /\ save'[s].pc = "written" /\ save'[s].ino = save[s].ino /\ save'[s].snap = save[s].snap
        /\ save'[s].awaited = save[s].awaited
        /\ UNCHANGED <<phase, pending, file, tmp>>
    BY <1>10, EffectOfWrite DEF process
  <2>3. \A o \in Saves : o # s => ~Running(o)
    BY <2>2 DEF Alone, Running
  <2>4. FileIsWhole'
    BY <2>1, <2>2 DEF Alone, FileIsWhole, FileContent
  <2>5. QED
    BY <2>1, <2>2, <2>3, <2>4 DEF Alone, Running
<1>11. ASSUME NEW s \in Saves, Rename(s) PROVE Alone'
  <2>1. /\ tmp' = 0 /\ file' # 0 /\ FileContent' = Complete(save[s].snap)
        /\ \A o \in Saves : ~Running(o)'
    BY <1>11, AloneRename
  <2>2. FileIsWhole'
    BY <2>1 DEF FileIsWhole, FileContent, Complete
  <2>3. QED
    BY <2>1, <2>2 DEF Alone, Running
<1>12. ASSUME NEW s \in Saves, Fail(s) PROVE Alone'
  <2>1. Running(s) /\ save' = [save EXCEPT ![s] = NoSave] /\ UNCHANGED disk
    BY <1>12 DEF Fail
  <2>2. \A o \in Saves : ~Running(o)'
    BY <2>1 DEF Alone, Running, NoSave, Typed
  <2>3. QED
    BY <1>2, <2>1, <2>2
<1>13. CASE Shutdown
  <2>1. CASE pending
    BY <1>3, <1>13, <2>1 DEF Shutdown
  <2>2. CASE ~pending
    BY <1>1, <1>13, <2>2 DEF Shutdown
  <2>3. QED
    BY <2>1, <2>2
<1>14. CASE Exit
  BY <1>2, <1>14 DEF Exit, Running, NoSave
<1>15. CASE Crash
  BY <1>2, <1>15 DEF Crash, Running, NoSave
<1>16. CASE Start
  BY <1>1, <1>16 DEF Start
<1>17. QED
  BY <1>4, <1>5, <1>6, <1>7, <1>8, <1>9, <1>10, <1>11, <1>12, <1>13, <1>14, <1>15, <1>16 DEF Next, SaveStep

\* What Alone says is true of every state, when a save is over before the
\* next one begins.
THEOREM AloneCorrect == ASSUME NoOverlap PROVE Spec => []Alone
<1>1. Init => Alone
  <2> SUFFICES ASSUME Init PROVE Alone
    OBVIOUS
  <2>1. \A s \in Saves : save[s].pc = "idle"
    BY DEF Init, NoSave
  <2>2. FileIsWhole
    <3>1. Cardinality(Saves) \in Nat
      BY BoundsAssumption, FS_CardinalityType
    <3>2. 1 \in Inodes
      BY <3>1 DEF Inodes
    <3>3. QED
      BY <3>2 DEF Init, FileIsWhole, Newer
  <2>3. QED
    BY <2>1, <2>2 DEF Init, Alone, Running
<1>2. Typed /\ Alone /\ [Next]_vars => Alone'
  BY AloneStep
<1>3. QED
  BY <1>1, <1>2, TypeCorrect, PTL DEF Spec

\* A crash at any point leaves the old state file or the new one.
THEOREM FileWhole == ASSUME NoOverlap PROVE Spec => []FileIsWhole
<1>1. Alone => FileIsWhole
  BY DEF Alone
<1>2. QED
  BY <1>1, AloneCorrect, PTL

-----------------------------------------------------------------------------
(***************************************************************************)
(* The file, the save in progress and the memory                           *)
(***************************************************************************)

\* Only a rename changes what a new process would load.
LEMMA FileKept ==
  ASSUME Typed, Alone, [Next]_vars
  PROVE  FileContent' = FileContent \/ \E s \in Saves : Rename(s)
<1>1. ASSUME UNCHANGED disk PROVE FileContent' = FileContent
  BY <1>1 DEF disk, FileContent
<1>2. CASE ChangeEntries \/ Progress \/ saveCheckpoint \/ Shutdown \/ Exit \/ Crash \/ Start \/ UNCHANGED vars
  BY <1>1, <1>2 DEF ChangeEntries, Progress, saveCheckpoint, Shutdown, Exit, Crash, Start, vars
<1>3. ASSUME NEW s \in Saves, TimerFires(s) \/ Fail(s) PROVE UNCHANGED disk
  BY <1>3 DEF TimerFires, Fail
<1>4. ASSUME NEW s \in Saves, Open(s) \/ Write(s) PROVE FileContent' = FileContent
  BY <1>4, AloneOpen, AloneWrite
<1>5. ASSUME NEW s \in Saves, TimerFires(s) \/ Fail(s) PROVE FileContent' = FileContent
  BY <1>1, <1>5, <1>3
<1>6. QED
  BY <1>1, <1>2, <1>4, <1>5 DEF Next, SaveStep

\* A complete file is loaded as what was saved.
LEMMA LoadedComplete ==
  ASSUME NEW m \in Memory
  PROVE  LET r == LoadedMemory(Complete(m)) IN
         /\ r.entries = m.entries /\ r.offset = m.offset
         /\ Len(m.history) <= MAX_HISTORY => r.history = m.history
<1>1. m.history \in Seq(Nat)
  BY MemoryFields
<1> DEFINE kept == KeepLatest(m.history)
<1>2. LoadedMemory(Complete(m)) = [m EXCEPT !.history = kept]
  BY DEF LoadedMemory, Complete
<1>3. Len(m.history) <= MAX_HISTORY => kept = m.history
  BY <1>1, LatestKept
<1> HIDE DEF kept
<1>4. [m EXCEPT !.history = kept].entries = m.entries /\ [m EXCEPT !.history = kept].offset = m.offset
      /\ [m EXCEPT !.history = kept].history = kept
  BY DEF Memory
<1>5. QED
  BY <1>2, <1>3, <1>4

\* The counters that the register compares.
LEMMA EntriesTyped ==
  ASSUME Typed
  PROVE  /\ mem.entries \in Nat /\ Restored.entries \in Nat
         /\ \A s \in Saves : Running(s) => save[s].snap \in Memory /\ save[s].snap.entries \in Nat
<1>1. mem.entries \in Nat /\ Restored.entries \in Nat
  BY MemoryFields, EffectOfLoad DEF Typed, Restored
<1>2. \A s \in Saves : Running(s) => save[s].snap \in Memory
  BY DEF Typed, Running, NoSave, InProgress
<1>3. QED
  BY <1>1, <1>2, MemoryFields

\* Every step keeps the file behind the save, and the save behind the memory.
LEMMA ForwardStep ==
  ASSUME NoOverlap, Typed, Alone, Forward, [Next]_vars PROVE Forward'
<1>1. /\ mem.entries \in Nat /\ Restored.entries \in Nat
      /\ \A s \in Saves : Running(s) => save[s].snap \in Memory /\ save[s].snap.entries \in Nat
  BY EntriesTyped
<1>2. Restored' = Restored \/ \E s \in Saves : Rename(s)
  BY FileKept DEF Restored
<1>3. ASSUME Restored' = Restored, UNCHANGED save, phase' \in {"up", "closing"} => phase \in {"up", "closing"},
             mem'.entries \in {mem.entries, mem.entries + 1}
      PROVE  Forward'
  BY <1>1, <1>3 DEF Forward, Running
<1>4. ASSUME NEW s \in Saves, NEW wait \in BOOLEAN, Capture(s, wait), phase = "up",
             Restored' = Restored, UNCHANGED mem
      PROVE  Forward'
  <2>1. /\ \A o \in Saves : o # s => ~Running(o)'
        /\ save'[s].snap = mem
    BY <1>4, EffectOfCapture DEF Running
  <2>2. QED
    BY <1>1, <1>4, <2>1 DEF Forward
<1>5. CASE UNCHANGED vars
  BY <1>3, <1>5 DEF vars, process, disk, Restored, FileContent
<1>6. CASE ChangeEntries
  <2>1. mem'.entries = mem.entries + 1 /\ UNCHANGED <<save, phase>> /\ Restored' = Restored
    BY <1>6, EffectOfChange DEF ChangeEntries, disk, Restored, FileContent
  <2>2. QED
    BY <1>3, <2>1
<1>7. CASE Progress
  <2>1. UNCHANGED <<save, phase>> /\ Restored' = Restored
    BY <1>7 DEF Progress, disk, Restored, FileContent
  <2>2. mem'.entries = mem.entries
    BY <1>7, EffectOfProgress
  <2>3. QED
    BY <1>3, <2>1, <2>2
<1>8. CASE saveCheckpoint
  <2>1. mem'.entries = mem.entries /\ UNCHANGED phase /\ Restored' = Restored
    BY <1>8, EffectOfCheckpoint DEF disk, Restored, FileContent
  <2>2. QED
    BY <1>8, <2>1, PushKept DEF Forward
<1>9. ASSUME NEW s \in Saves, TimerFires(s) PROVE Forward'
  <2>1. Capture(s, FALSE) /\ phase = "up" /\ UNCHANGED mem /\ Restored' = Restored
    BY <1>9 DEF TimerFires, disk, Restored, FileContent
  <2>2. QED
    BY <1>4, <2>1
<1>10. ASSUME NEW s \in Saves, Open(s) PROVE Forward'
  <2>1. Restored' = Restored /\ UNCHANGED <<mem, phase>>
    BY <1>10, AloneOpen, EffectOfOpen DEF process, Restored
  <2>2. /\ save[s].pc = "mkdir" /\ \A o \in Saves : o # s => save'[o] = save[o]
        /\ save'[s].snap.entries = save[s].snap.entries
    <3>1. save[s].pc = "mkdir" /\ save'[s].snap = Serialised(s) /\ \A o \in Saves : o # s => save'[o] = save[o]
      BY <1>10, EffectOfOpen
    <3>2. Cardinality(Saves) \in Nat
      BY BoundsAssumption, FS_CardinalityType
    <3>3. 1 \in Inodes
      BY <3>2 DEF Inodes
    <3>4. Serialised(s).entries = save[s].snap.entries
      BY <3>1, <3>3, SaveOpened
    <3>5. QED
      BY <3>1, <3>4
  <2>3. QED
    BY <2>1, <2>2 DEF Forward, Running
<1>11. ASSUME NEW s \in Saves, Write(s) PROVE Forward'
  <2>1. Restored' = Restored /\ UNCHANGED <<mem, phase>>
    BY <1>11, AloneWrite, EffectOfWrite DEF process, Restored
  <2>2. /\ save[s].pc = "opened" /\ \A o \in Saves : o # s => save'[o] = save[o]
        /\ save'[s].snap = save[s].snap
    BY <1>11, EffectOfWrite
  <2>3. QED
    BY <2>1, <2>2 DEF Forward, Running
<1>12. ASSUME NEW s \in Saves, Rename(s) PROVE Forward'
  <2>1. /\ Restored' = LoadedMemory(Complete(save[s].snap)) /\ UNCHANGED <<mem, phase>>
        /\ \A o \in Saves : ~Running(o)'
    BY <1>12, AloneRename, EffectOfRename DEF process, Restored
  <2>2. Running(s)
    BY <1>12 DEF Rename, Running
  <2>3. Restored'.entries = save[s].snap.entries
    BY <1>1, <2>1, <2>2, LoadedComplete
  <2>4. QED
    BY <2>1, <2>2, <2>3 DEF Forward
<1>13. ASSUME NEW s \in Saves, Fail(s) PROVE Forward'
  <2>1. /\ \A o \in Saves : Running(o)' => Running(o) /\ save'[o] = save[o]
        /\ UNCHANGED <<mem, phase>> /\ Restored' = Restored
    BY <1>13 DEF Fail, Running, NoSave, process, disk, Restored, FileContent, Typed
  <2>2. QED
    BY <2>1 DEF Forward
<1>14. CASE Shutdown
  <2>1. phase = "up" /\ UNCHANGED mem /\ Restored' = Restored
    BY <1>14 DEF Shutdown, disk, Restored, FileContent
  <2>2. CASE pending
    BY <1>4, <1>14, <2>1, <2>2 DEF Shutdown
  <2>3. CASE ~pending
    BY <1>3, <1>14, <2>1, <2>3 DEF Shutdown
  <2>4. QED
    BY <2>2, <2>3
<1>15. CASE Exit \/ Crash
  BY <1>15 DEF Exit, Crash, Forward
<1>16. CASE Start
  <2>1. mem' = Restored /\ Restored' = Restored /\ \A s \in Saves : ~Running(s)'
    BY <1>16 DEF Start, disk, Restored, FileContent, Typed, Running
  <2>2. QED
    BY <1>1, <2>1 DEF Forward
<1>17. QED
  BY <1>5, <1>6, <1>7, <1>8, <1>9, <1>10, <1>11, <1>12, <1>13, <1>14, <1>15, <1>16 DEF Next, SaveStep

\* At first there is nothing to restore.
LEMMA FirstFile ==
  ASSUME Init PROVE Restored = EmptyMemory /\ mem = EmptyMemory /\ \A s \in Saves : ~Running(s)
<1>1. Cardinality(Saves) \in Nat
  BY BoundsAssumption, FS_CardinalityType
<1>2. 1 \in Inodes
  BY <1>1 DEF Inodes
<1>3. FileContent \in {Torn, Newer}
  BY <1>2 DEF Init, FileContent
<1>4. FileContent.kind # "complete"
  BY <1>3 DEF Torn, Newer
<1>5. \A s \in Saves : ~Running(s)
  BY DEF Init, Running, NoSave
<1>6. QED
  BY <1>4, <1>5 DEF Init, Restored, LoadedMemory

\* The revisions of the file, of the save and of the memory stay in order.
THEOREM ForwardCorrect == ASSUME NoOverlap PROVE Spec => []Forward
<1>1. Init => Forward
  BY FirstFile DEF Forward, EmptyMemory
<1>2. Typed /\ Alone /\ Forward /\ [Next]_vars => Forward'
  BY ForwardStep
<1>3. QED
  BY <1>1, <1>2, TypeCorrect, AloneCorrect, PTL DEF Spec

\* Every step keeps: without a noted change the save, or the file, has it all.
LEMMA LosslessStep ==
  ASSUME NoOverlap, Typed, Alone, Guarded, Lossless, [Next]_vars PROVE Lossless'
<1>1. ASSUME UNCHANGED <<save, failed, readOnly>>, Restored' = Restored, Settled' => Settled,
             mem'.entries = mem.entries, mem'.offset = mem.offset, mem'.history = mem.history
      PROVE  Lossless'
  BY <1>1 DEF Lossless, Carries, Running, Scheduled
<1>2. ASSUME pending' \/ readOnly', phase' = "up" PROVE Lossless'
  BY <1>2 DEF Lossless, Settled
<1>3. ASSUME NEW s \in Saves, NEW wait \in BOOLEAN, Capture(s, wait), UNCHANGED mem PROVE Lossless'
  <2>1. /\ \A o \in Saves : o # s => ~Running(o)'
        /\ save'[s].pc = "mkdir" /\ save'[s].snap = mem
    BY <1>3, EffectOfCapture DEF Running
  <2>2. Running(s)' /\ Carries(s)'
    BY <1>3, <2>1 DEF Running, Carries
  <2>3. \A o \in Saves : Running(o)' => Carries(o)'
    BY <2>1, <2>2
  <2>4. QED
    BY <2>2, <2>3 DEF Lossless, Running, Carries
<1>4. CASE UNCHANGED vars
  BY <1>1, <1>4 DEF vars, process, disk, Restored, FileContent, Settled
<1>5. CASE ChangeEntries
  BY <1>2, <1>5 DEF ChangeEntries, scheduleSave
<1>6. CASE Progress
  <2>1. UNCHANGED <<save, failed, readOnly, phase, pending>> /\ Restored' = Restored
    BY <1>6 DEF Progress, disk, Restored, FileContent
  <2>2. mem'.entries = mem.entries /\ mem'.offset = mem.offset /\ mem'.history = mem.history
    BY <1>6, EffectOfProgress
  <2>3. QED
    BY <1>1, <2>1, <2>2 DEF Settled
<1>7. CASE saveCheckpoint
  <2>1. phase' = "up" /\ scheduleSave /\ readOnly' = readOnly
    BY <1>7, EffectOfCheckpoint
  <2>2. pending' \/ readOnly'
    BY <2>1 DEF scheduleSave
  <2>3. QED
    BY <1>2, <2>1, <2>2
<1>8. ASSUME NEW s \in Saves, TimerFires(s) PROVE Lossless'
  <2>1. Capture(s, FALSE) /\ UNCHANGED mem
    BY <1>8 DEF TimerFires
  <2>2. QED
    BY <1>3, <2>1
<1>9. ASSUME NEW s \in Saves, Open(s) PROVE Lossless'
  <2>1. /\ save[s].pc = "mkdir" /\ save'[s].snap = Serialised(s)
        /\ \A o \in Saves : o # s => save'[o] = save[o]
        /\ save'[s].pc = "opened" /\ UNCHANGED process
    BY <1>9, EffectOfOpen
  <2>2. UNCHANGED <<mem, phase, pending, readOnly>>
    BY <2>1 DEF process
  <2>3. Cardinality(Saves) \in Nat
    BY BoundsAssumption, FS_CardinalityType
  <2>4. 1 \in Inodes
    BY <2>3 DEF Inodes
  <2>5. /\ Serialised(s).entries = save[s].snap.entries /\ Serialised(s).history = save[s].snap.history
        /\ Serialised(s).offset = mem.offset
    BY <2>1, <2>4, SaveOpened
  <2>6. ASSUME Settled, ~readOnly PROVE \A o \in Saves : Running(o)' => Carries(o)'
    BY <2>1, <2>2, <2>5, <2>6 DEF Lossless, Carries, Running
  <2>7. QED
    BY <2>1, <2>2, <2>6 DEF Lossless, Running, Settled
<1>10. ASSUME NEW s \in Saves, Write(s) PROVE Lossless'
  <2>1. /\ save[s].pc = "opened" /\ save'[s].snap = save[s].snap
        /\ \A o \in Saves : o # s => save'[o] = save[o]
        /\ save'[s].pc = "written" /\ UNCHANGED process
    BY <1>10, EffectOfWrite
  <2>2. UNCHANGED <<mem, phase, pending, readOnly>>
    BY <2>1 DEF process
  <2>3. ASSUME Settled, ~readOnly PROVE \A o \in Saves : Running(o)' => Carries(o)'
    BY <2>1, <2>2, <2>3 DEF Lossless, Carries, Running
  <2>4. QED
    BY <2>1, <2>2, <2>3 DEF Lossless, Running, Settled
<1>11. ASSUME NEW s \in Saves, Rename(s) PROVE Lossless'
  <2>1. /\ Restored' = LoadedMemory(Complete(save[s].snap)) /\ UNCHANGED process
        /\ \A o \in Saves : ~Running(o)'
    BY <1>11, AloneRename, EffectOfRename DEF Restored
  <2>2. UNCHANGED <<mem, phase, pending, readOnly>>
    BY <2>1 DEF process
  <2>3. Running(s) /\ save[s].pc # "mkdir" /\ save[s].snap \in Memory
    BY <1>11, EntriesTyped DEF Rename, Running
  <2>4. ASSUME Settled, ~readOnly PROVE Scheduled(Restored') = Scheduled(mem)
    <3>1. save[s].snap.entries = mem.entries /\ save[s].snap.history = mem.history
          /\ save[s].snap.offset = mem.offset
      BY <2>3, <2>4 DEF Lossless, Carries
    <3>2. Len(mem.history) <= MAX_HISTORY
      BY DEF Typed
    <3>3. QED
      BY <2>1, <2>3, <3>1, <3>2, LoadedComplete DEF Scheduled
  <2>5. QED
    BY <2>1, <2>2, <2>4 DEF Lossless, Settled
<1>12. ASSUME NEW s \in Saves, Fail(s) PROVE Lossless'
  <2>1. Running(s) /\ save' = [save EXCEPT ![s] = NoSave] /\ failed'
    BY <1>12 DEF Fail
  <2>2. \A o \in Saves : ~Running(o)'
    BY <2>1 DEF Alone, Running, NoSave, Typed
  <2>3. QED
    BY <2>1, <2>2 DEF Lossless
<1>13. CASE Shutdown
  <2>1. phase = "up" /\ UNCHANGED <<mem, readOnly, pending>> /\ Restored' = Restored
    BY <1>13 DEF Shutdown, disk, Restored, FileContent
  <2>2. CASE pending
    BY <1>3, <1>13, <2>1, <2>2 DEF Shutdown
  <2>3. CASE ~pending
    BY <1>1, <1>13, <2>1, <2>3 DEF Shutdown, Settled
  <2>4. QED
    BY <2>2, <2>3
<1>14. CASE Exit
  <2>1. /\ phase = "closing" /\ UNCHANGED <<mem, failed, readOnly>> /\ Restored' = Restored
        /\ \A s \in Saves : Running(s) => ~save[s].awaited
        /\ \A s \in Saves : ~Running(s)'
    BY <1>14 DEF Exit, disk, Restored, FileContent, Running, NoSave
  <2>2. pending => \A s \in Saves : ~Running(s)
    BY <2>1 DEF Alone
  <2>3. pending' = pending /\ phase' = "stopped"
    BY <1>14 DEF Exit
  <2>4. QED
    BY <2>1, <2>2, <2>3 DEF Lossless, Settled
<1>15. CASE Crash
  BY <1>15 DEF Crash, Lossless, Settled
<1>16. CASE Start
  <2>1. mem' = Restored /\ Restored' = Restored /\ \A s \in Saves : ~Running(s)'
    BY <1>16 DEF Start, disk, Restored, FileContent, Typed, Running
  <2>2. QED
    BY <2>1 DEF Lossless
<1>17. QED
  BY <1>4, <1>5, <1>6, <1>7, <1>8, <1>9, <1>10, <1>11, <1>12, <1>13, <1>14, <1>15, <1>16 DEF Next, SaveStep

\* A change a save was scheduled for is noted, on its way or in the file, and
\* what was noted when the server was told to stop is in the file.
THEOREM NothingForgotten == ASSUME NoOverlap PROVE Spec => []ChangesAreNotedOrSaved
<1>1. Init => Lossless
  BY FirstFile DEF Lossless
<1>2. Typed /\ Alone /\ Guarded /\ Lossless /\ [Next]_vars => Lossless'
  BY LosslessStep
<1>3. Lossless => ChangesAreNotedOrSaved
  BY DEF Lossless, ChangesAreNotedOrSaved, Settled, Restored
<1>4. QED
  BY <1>1, <1>2, <1>3, TypeCorrect, AloneCorrect, GuardedCorrect, PTL DEF Spec

-----------------------------------------------------------------------------
\* Of the entries the file and the memory are the two revisions of
\* SnapshotRegister: a change counts the memory up, a rename publishes the
\* revision of its save, and an end of the process goes back to the file.
THEOREM RegisterImplemented == ASSUME NoOverlap PROVE Spec => ImplementsRegister
<1> DEFINE copy == LoadedMemory(FileContent).entries
           live == IF phase \in {"stopped", "crashed"} THEN copy ELSE mem.entries
<1>1. Init => Register!Init
  <2> SUFFICES ASSUME Init PROVE live = 0 /\ copy = 0
    BY DEF Register!Init
  <2>1. QED
    BY FirstFile DEF Restored, EmptyMemory
<1>2. ASSUME Typed, Alone, Forward, [Next]_vars PROVE [Register!Next]_(Register!vars)
  <2>1. /\ mem.entries \in Nat /\ copy \in Nat
        /\ \A s \in Saves : Running(s) => save[s].snap \in Memory /\ save[s].snap.entries \in Nat
    BY <1>2, EntriesTyped DEF Restored
  <2> HIDE DEF copy
  <2>2. ASSUME live' = live, copy' = copy PROVE UNCHANGED Register!vars
    BY <2>2 DEF Register!vars, copy
  <2>3. ASSUME live' = live + 1, copy' = copy PROVE Register!Change
    BY <2>3 DEF Register!Change, copy
  <2>4. ASSUME live' = copy, copy' = copy PROVE Register!Crash
    BY <2>4 DEF Register!Crash, copy
  <2>5. ASSUME live' = live, live \in Nat, copy' \in copy + 1 .. live PROVE Register!Next
    <3>1. copy' \in copy .. live
      BY <2>1, <2>5
    <3>2. Register!Publish(copy')
      BY <2>5 DEF Register!Publish, copy
    <3>3. QED
      BY <3>1, <3>2 DEF Register!Next, copy
  <2>6. ASSUME UNCHANGED disk PROVE copy' = copy
    BY <2>6 DEF copy, FileContent, disk
  <2>7. CASE UNCHANGED vars
    BY <2>2, <2>6, <2>7 DEF vars, process
  <2>8. CASE ChangeEntries
    <3>1. mem'.entries = mem.entries + 1
      BY <1>2, <2>8, EffectOfChange
    <3>2. QED
      BY <2>3, <2>6, <2>8, <3>1 DEF ChangeEntries, Register!Next
  <2>9. CASE Progress
    <3>1. mem'.entries = mem.entries
      BY <1>2, <2>9, EffectOfProgress
    <3>2. QED
      BY <2>2, <2>6, <2>9, <3>1 DEF Progress
  <2>10. CASE saveCheckpoint
    BY <1>2, <2>2, <2>6, <2>10, EffectOfCheckpoint
  <2>11. ASSUME NEW s \in Saves, TimerFires(s) \/ Fail(s) PROVE UNCHANGED Register!vars
    BY <2>2, <2>6, <2>11 DEF TimerFires, Fail, process
  <2>12. ASSUME NEW s \in Saves, Open(s) PROVE UNCHANGED Register!vars
    <3>1. copy' = copy
      BY <1>2, <2>12, AloneOpen DEF copy
    <3>2. UNCHANGED process
      BY <1>2, <2>12, EffectOfOpen
    <3>3. QED
      BY <2>2, <3>1, <3>2 DEF process
  <2>13. ASSUME NEW s \in Saves, Write(s) PROVE UNCHANGED Register!vars
    <3>1. copy' = copy
      BY <1>2, <2>13, AloneWrite DEF copy
    <3>2. UNCHANGED process
      BY <1>2, <2>13, EffectOfWrite
    <3>3. QED
      BY <2>2, <3>1, <3>2 DEF process
  <2>14. ASSUME NEW s \in Saves, Rename(s) PROVE [Register!Next]_(Register!vars)
    <3>1. Running(s) /\ UNCHANGED <<phase, mem>>
      BY <2>14 DEF Rename, Running, process
    <3>2. phase \in {"up", "closing"}
      BY <1>2, <3>1 DEF Typed
    <3>3. FileContent' = Complete(save[s].snap)
      BY <1>2, <2>14, AloneRename
    <3>4. copy' = save[s].snap.entries
      BY <2>1, <3>1, <3>3, LoadedComplete DEF copy
    <3>5. copy <= copy' /\ copy' <= mem.entries
      BY <1>2, <3>1, <3>2, <3>4 DEF Forward, Restored, copy
    <3>6. live = mem.entries /\ live' = mem.entries
      BY <3>1, <3>2
    <3>7. CASE copy' = copy
      BY <2>2, <3>6, <3>7
    <3>8. CASE copy' # copy
      <4>1. copy' \in copy + 1 .. live
        BY <2>1, <3>1, <3>4, <3>5, <3>6, <3>8
      <4>2. QED
        BY <2>1, <2>5, <3>6, <4>1
    <3>9. QED
      BY <3>7, <3>8
  <2>15. CASE Shutdown
    BY <1>2, <2>2, <2>6, <2>15 DEF Shutdown
  <2>16. CASE Exit
    BY <2>4, <2>6, <2>16 DEF Exit, Register!Next
  <2>17. CASE Crash
    BY <2>4, <2>6, <2>17 DEF Crash, Register!Next
  <2>18. CASE Start
    <3>1. copy' = copy /\ mem'.entries = copy
      BY <2>6, <2>18 DEF Start, copy
    <3>2. QED
      BY <2>2, <2>18, <3>1 DEF Start
  <2>19. QED
    BY <1>2, <2>7, <2>8, <2>9, <2>10, <2>11, <2>12, <2>13, <2>14, <2>15, <2>16, <2>17, <2>18 DEF Next, SaveStep
<1>3. QED
  BY <1>1, <1>2, TypeCorrect, AloneCorrect, ForwardCorrect, PTL DEF Spec, ImplementsRegister, Register!Spec

=============================================================================
