------------------------- MODULE CfsDirectoryProofs -------------------------
(***************************************************************************)
(* Proofs about CfsDirectory, for every number of drives, slots, texts and *)
(* failures: type correctness, and, as long as no transfer has failed,     *)
(* that files share no sectors and that saved texts are kept.              *)
(*                                                                         *)
(* The argument: on a clean drive an entry names no sector but its slot's  *)
(* own (SoundDirectory), because every operation either takes the sector   *)
(* from the slot number or keeps what the entry had; and between the       *)
(* writes of a save the buffer still equals the sector (JobKnowsSector),   *)
(* because nothing runs in between but the loss of power.                  *)
(***************************************************************************)
EXTENDS CfsDirectory, TLAPS

(* An entry that names no sector but its slot's own.                       *)
Sound(e, i) == e.lba \in {0, DataSector(i)} /\ (e.type = 1 => e.lba # 0)

SoundDirectory ==
  \A d \in Drives : clean[d] = 1 => \A i \in OnDisk : Sound(dir[d][i], i)

JobKnowsSector ==
  job.pc \in {"data", "entry"} =>
    /\ bufs["edit"][job.slot].type = 0
    /\ \A i \in OnDisk : bufs["edit"][i] = dir[job.drive][i]

TextIsWritten ==
  job.pc = "entry" => data[job.drive][DataSector(job.slot)] = job.text

ToldIsKept ==
  \A d \in Drives : clean[d] = 1 =>
    \A i \in OnDisk : told[d][i] # 0 => Holds(d, i, told[d][i])

NothingFailed ==
  failures = 0 => SoundDirectory /\ JobKnowsSector /\ TextIsWritten /\ ToldIsKept

(* A drive that is being cleared promises nothing.                         *)
ClearForgets ==
  job.pc = "clear" => \A i \in Slots : told[job.drive][i] = 0

IInv == TypeOK /\ NothingFailed /\ ClearForgets

-----------------------------------------------------------------------------
(* Facts about the data *)

LEMMA SlotFacts ==
  /\ OnDisk \subseteq Slots
  /\ Slots # {} /\ 0 \in Slots
  /\ \A i \in Slots : DataSector(i) \in Sectors
  /\ \A i \in Slots : DataSector(i) \in 0 .. TableSlots /\ DataSector(i) # 0
  /\ \A i, j \in Slots : i # j => DataSector(i) # DataSector(j)
  /\ Drives # {}
BY CfsConstants DEF Slots, OnDisk, DataSector, Sectors

LEMMA EntryFacts ==
  /\ NoEntry \in Entry
  /\ \A i \in Slots : NewFileEntry(i) \in Entry
  /\ \A n \in Bit : [FolderEntry EXCEPT !.named = n] \in Entry
  /\ \A e \in Entry : Deleted(e) \in Entry /\ Recovered(e) \in Entry
  /\ \A e \in Entry, n \in Bit : Renamed(e, n) \in Entry
<1>1. NoEntry \in Entry
  BY CfsConstants DEF NoEntry, Entry, Bit
<1>2. \A i \in Slots : NewFileEntry(i) \in Entry
  BY SlotFacts DEF NewFileEntry, Entry, Bit
<1>3. \A n \in Bit : [FolderEntry EXCEPT !.named = n] \in Entry
  BY CfsConstants DEF FolderEntry, Entry
<1>4. ASSUME NEW e \in Entry
      PROVE  Deleted(e) \in Entry /\ Recovered(e) \in Entry
  BY <1>4 DEF Deleted, Recovered, Entry
<1>5. ASSUME NEW e \in Entry, NEW n \in Bit
      PROVE  Renamed(e, n) \in Entry
  BY <1>5 DEF Renamed, Entry
<1> QED BY <1>1, <1>2, <1>3, <1>4, <1>5

(* What the edits keep of an entry that names no foreign sector.           *)
LEMMA SoundEdits ==
  /\ \A i \in Slots : Sound(NoEntry, i) /\ Sound(NewFileEntry(i), i)
  /\ \A i \in Slots, n \in Bit : Sound([FolderEntry EXCEPT !.named = n], i)
  /\ \A i \in Slots, e \in Entry : Sound(e, i) =>
       /\ Sound(Deleted(e), i) /\ Sound(Recovered(e), i)
       /\ \A n \in Bit : Sound(Renamed(e, n), i)
<1>1. \A i \in Slots : Sound(NoEntry, i) /\ Sound(NewFileEntry(i), i)
  BY SlotFacts DEF Sound, NoEntry, NewFileEntry
<1>2. \A i \in Slots, n \in Bit : Sound([FolderEntry EXCEPT !.named = n], i)
  BY DEF Sound, FolderEntry
<1>3. ASSUME NEW i \in Slots, NEW e \in Entry, Sound(e, i)
      PROVE  Sound(Deleted(e), i) /\ Sound(Recovered(e), i)
  BY <1>3, SlotFacts DEF Sound, Deleted, Recovered, Entry
<1>4. ASSUME NEW i \in Slots, NEW e \in Entry, Sound(e, i), NEW n \in Bit
      PROVE  Sound(Renamed(e, n), i)
  BY <1>4 DEF Sound, Renamed, Entry
<1> QED BY <1>1, <1>2, <1>3, <1>4

LEMMA IdleType == Idle \in Job
<1>1. (CHOOSE d \in Drives : TRUE) \in Drives
  BY SlotFacts
<1> QED BY <1>1, SlotFacts, CfsConstants DEF Idle, Job, Texts, Bit

(* A transfer was counted: the count stays in its range, and it is zero    *)
(* only if it was zero and the transfer succeeded.                         *)
LEMMA FailsCounts ==
  ASSUME TypeOK, NEW n \in 0 .. 2, Fails(n)
  PROVE  /\ failures' \in 0 .. MaxFailures
         /\ failures' = 0 => failures = 0 /\ n = 0
BY CfsConstants DEF TypeOK, Fails

LEMMA LoadedFacts ==
  ASSUME TypeOK, NEW d \in Drives, NEW b \in Buffers, NEW r \in Bit
  PROVE  /\ Loaded(d, b, r) \in [Slots -> Entry]
         /\ r = 1 => \A i \in OnDisk : Loaded(d, b, r)[i] = dir[d][i]
BY SlotFacts DEF TypeOK, Loaded

LEMMA DirWrittenFacts ==
  ASSUME TypeOK, NEW d \in Drives, NEW es \in [Slots -> Entry], NEW w \in Bit
  PROVE  /\ DirWritten(d, es, w) \in [Drives -> [OnDisk -> Entry]]
         /\ w = 1 => \A c \in Drives, j \in OnDisk :
              DirWritten(d, es, w)[c][j] = IF c = d THEN es[j] ELSE dir[c][j]
BY SlotFacts DEF TypeOK, DirWritten

(* Exactly one entry of one drive became e, if its slot is in the sector.  *)
OneEntry(d, i, e) ==
  \A c \in Drives, j \in OnDisk :
    dir'[c][j] = IF c = d /\ j = i THEN e ELSE dir[c][j]

LEMMA PutEntryFacts ==
  ASSUME TypeOK, NEW d \in Drives, NEW b \in Buffers, NEW r \in Bit,
         NEW w \in Bit, NEW i \in Slots, NEW e \in Entry,
         PutEntry(d, b, r, w, i, e)
  PROVE  /\ dir' \in [Drives -> [OnDisk -> Entry]]
         /\ bufs' \in [Buffers -> [Slots -> Entry]]
         /\ failures' \in 0 .. MaxFailures
         /\ failures' = 0 => failures = 0 /\ r = 1 /\ OneEntry(d, i, e)
<1> DEFINE es == [Loaded(d, b, r) EXCEPT ![i] = e]
<1>1. es \in [Slots -> Entry]
  BY LoadedFacts
<1>2. /\ bufs' = [bufs EXCEPT ![b] = es]
      /\ dir' = DirWritten(d, es, w)
      /\ Fails((1 - r) + (1 - w))
  BY DEF PutEntry
<1>3. (1 - r) + (1 - w) \in 0 .. 2
  BY DEF Bit
<1>4. /\ failures' \in 0 .. MaxFailures
      /\ failures' = 0 => failures = 0 /\ (1 - r) + (1 - w) = 0
  BY <1>2, <1>3, FailsCounts
<1>5. dir' \in [Drives -> [OnDisk -> Entry]]
  BY <1>1, <1>2, DirWrittenFacts
<1>6. bufs' \in [Buffers -> [Slots -> Entry]]
  BY <1>1, <1>2 DEF TypeOK
<1>7. ASSUME r = 1, w = 1
      PROVE  OneEntry(d, i, e)
  <2>1. \A j \in OnDisk : es[j] = IF j = i THEN e ELSE dir[d][j]
    BY <1>7, LoadedFacts, SlotFacts
  <2> HIDE DEF es
  <2> QED BY <1>1, <1>2, <1>7, <2>1, DirWrittenFacts DEF OneEntry
<1> QED BY <1>4, <1>5, <1>6, <1>7 DEF Bit

(* The directory was read, and nothing else happened.                      *)
LEMMA OnlyRead ==
  ASSUME TypeOK, NEW d \in Drives, FoundFull(d) \/ Look(d)
  PROVE  /\ bufs' \in [Buffers -> [Slots -> Entry]]
         /\ failures' \in 0 .. MaxFailures
         /\ failures' = 0 => failures = 0
<1>1. PICK r \in Bit :
        /\ bufs' = [bufs EXCEPT !["edit"] = Loaded(d, "edit", r)]
        /\ Fails(1 - r)
  BY DEF FoundFull, Look
<1>2. Loaded(d, "edit", r) \in [Slots -> Entry]
  BY LoadedFacts DEF Buffers
<1>3. 1 - r \in 0 .. 2
  BY DEF Bit
<1> QED BY <1>1, <1>2, <1>3, FailsCounts DEF TypeOK

-----------------------------------------------------------------------------
(* The initial state *)

THEOREM Initially == Init => IInv
<1> SUFFICES ASSUME Init PROVE IInv
  OBVIOUS
<1>1. TypeOK
  <2>1. dir \in [Drives -> [OnDisk -> Entry]]
    <3>1. Blank \in [OnDisk -> Entry]
      BY EntryFacts DEF Blank
    <3>2. Junk \in [OnDisk -> Entry]
      BY CfsConstants DEF Junk, Entry, Bit
    <3> QED BY <3>1, <3>2 DEF Init
  <2>2. bufs \in [Buffers -> [Slots -> Entry]]
    BY EntryFacts DEF Init
  <2>3. job \in Job
    BY IdleType DEF Init
  <2>4. told \in [Drives -> [Slots -> Texts]] /\ data \in [Drives -> [Sectors -> Texts]]
    BY CfsConstants DEF Init, Texts
  <2>5. texts \in Texts /\ failures \in 0 .. MaxFailures
    BY CfsConstants DEF Init, Texts
  <2> QED BY <2>1, <2>2, <2>3, <2>4, <2>5 DEF Init, TypeOK, Bit
<1>2. NothingFailed
  BY DEF Init, Idle, NothingFailed, SoundDirectory, JobKnowsSector,
         TextIsWritten, ToldIsKept
<1>3. ClearForgets
  BY DEF Init, Idle, ClearForgets
<1> QED BY <1>1, <1>2, <1>3 DEF IInv

-----------------------------------------------------------------------------
(* Steps that change one entry *)

(* The directory was read, and nothing but the buffer changed.             *)
LEMMA FullStep ==
  ASSUME IInv, NEW d \in Drives, FoundFull(d) \/ Look(d), job = Idle,
         UNCHANGED <<signature, dir, data, clean, label, job, texts, told>>
  PROVE  IInv'
<1>1. TypeOK'
  BY OnlyRead DEF IInv, TypeOK
<1>2. failures' = 0 => failures = 0
  BY OnlyRead DEF IInv
<1>3. NothingFailed'
  BY <1>2 DEF IInv, NothingFailed, SoundDirectory, JobKnowsSector, Idle,
              TextIsWritten, ToldIsKept, Holds, IsFile, Sound
<1>4. ClearForgets'
  BY DEF IInv, ClearForgets
<1> QED BY <1>1, <1>3, <1>4 DEF IInv

LEMMA LookKeeps == ASSUME IInv, NEW d \in Drives, Look(d) PROVE IInv'
BY FullStep DEF Look

LEMMA OneEntryKeepsSound ==
  ASSUME NEW d \in Drives, NEW i \in Slots, NEW e \in Entry,
         OneEntry(d, i, e), SoundDirectory, UNCHANGED clean,
         clean[d] = 1 /\ i \in OnDisk => Sound(e, i)
  PROVE  SoundDirectory'
<1> SUFFICES ASSUME NEW c \in Drives, clean'[c] = 1, NEW j \in OnDisk
             PROVE  Sound(dir'[c][j], j)
  BY DEF SoundDirectory, Sound
<1>1. CASE c = d /\ j = i
  <2>1. dir'[c][j] = e
    BY <1>1 DEF OneEntry
  <2> QED BY <1>1, <2>1
<1>2. CASE ~(c = d /\ j = i)
  <2>1. dir'[c][j] = dir[c][j]
    BY <1>2 DEF OneEntry
  <2> QED BY <2>1 DEF SoundDirectory
<1> QED BY <1>1, <1>2

LEMMA OneEntryKeepsTold ==
  ASSUME NEW d \in Drives, NEW i \in Slots, NEW e \in Entry,
         OneEntry(d, i, e), ToldIsKept, UNCHANGED <<clean, data>>,
         \A c \in Drives, j \in OnDisk : told'[c][j] \in {0, told[c][j]},
         clean[d] = 1 /\ i \in OnDisk =>
           \/ dir[d][i].type = 0
           \/ told'[d][i] = 0
           \/ e.type = dir[d][i].type /\ e.lba = dir[d][i].lba
  PROVE  ToldIsKept'
<1> SUFFICES ASSUME NEW c \in Drives, clean'[c] = 1, NEW j \in OnDisk,
                    told'[c][j] # 0
             PROVE  Holds(c, j, told[c][j])'
  BY DEF ToldIsKept, Holds, IsFile
<1>1. told'[c][j] = told[c][j]
  OBVIOUS
<1>2. Holds(c, j, told[c][j])
  BY <1>1 DEF ToldIsKept
<1>3. dir'[c][j].type = dir[c][j].type /\ dir'[c][j].lba = dir[c][j].lba
  <2>1. CASE c = d /\ j = i
    BY <1>2, <2>1 DEF OneEntry, Holds, IsFile
  <2>2. CASE ~(c = d /\ j = i)
    BY <2>2 DEF OneEntry
  <2> QED BY <2>1, <2>2
<1> QED BY <1>1, <1>2, <1>3 DEF Holds, IsFile

LEMMA EntryStep ==
  ASSUME IInv, NEW d \in Drives, NEW b \in Buffers, NEW r \in Bit,
         NEW w \in Bit, NEW i \in Slots, NEW e \in Entry,
         PutEntry(d, b, r, w, i, e), job = Idle,
         UNCHANGED <<signature, data, clean, label, job, texts>>,
         told' \in [Drives -> [Slots -> Texts]],
         \A c \in Drives, j \in Slots : told'[c][j] \in {0, told[c][j]},
         r = 1 /\ i \in OnDisk =>
           /\ Sound(dir[d][i], i) => Sound(e, i)
           /\ \/ dir[d][i].type = 0
              \/ told'[d][i] = 0
              \/ e.type = dir[d][i].type /\ e.lba = dir[d][i].lba
  PROVE  IInv'
<1>1. TypeOK'
  BY PutEntryFacts DEF IInv, TypeOK
<1>2. ASSUME failures' = 0
      PROVE  SoundDirectory' /\ ToldIsKept'
  <2>1. failures = 0 /\ r = 1 /\ OneEntry(d, i, e)
    BY <1>2, PutEntryFacts DEF IInv
  <2>2. SoundDirectory /\ ToldIsKept
    BY <2>1 DEF IInv, NothingFailed
  <2>3. SoundDirectory'
    <3>1. clean[d] = 1 /\ i \in OnDisk => Sound(e, i)
      BY <2>1, <2>2 DEF SoundDirectory
    <3> QED BY <2>1, <2>2, <3>1, OneEntryKeepsSound
  <2>4. ToldIsKept'
    <3>1. \A c \in Drives, j \in OnDisk : told'[c][j] \in {0, told[c][j]}
      BY SlotFacts
    <3> QED BY <2>1, <2>2, <3>1, OneEntryKeepsTold
  <2> QED BY <2>3, <2>4
<1>3. NothingFailed'
  BY <1>2 DEF NothingFailed, JobKnowsSector, TextIsWritten, Idle
<1>4. ClearForgets'
  BY DEF ClearForgets, Idle
<1> QED BY <1>1, <1>3, <1>4 DEF IInv

(* The slot that a search of the freshly read directory finds is free.     *)
LEMMA FreeOnDisk ==
  ASSUME TypeOK, NEW d \in Drives, NEW i \in Slots,
         IsFreeSlot(Loaded(d, "edit", 1), i), i \in OnDisk
  PROVE  dir[d][i].type = 0
BY LoadedFacts DEF IsFreeSlot, Buffers, Bit

LEMMA ToldTyped ==
  ASSUME TypeOK
  PROVE  /\ told \in [Drives -> [Slots -> Texts]]
         /\ \A d \in Drives, i \in Slots :
              [told EXCEPT ![d][i] = 0] \in [Drives -> [Slots -> Texts]]
         /\ 0 \in Texts
BY CfsConstants DEF TypeOK, Texts

LEMMA NewFileKeeps == ASSUME IInv, NEW d \in Drives, NewFile(d) PROVE IInv'
<1>1. CASE FoundFull(d) /\ UNCHANGED dir
  BY <1>1, FullStep DEF NewFile
<1>2. CASE \E r, w \in Bit, i \in Slots :
             /\ IsFreeSlot(Loaded(d, "edit", r), i)
             /\ PutEntry(d, "edit", r, w, i, NewFileEntry(i))
  <2>1. PICK r \in Bit, w \in Bit, i \in Slots :
             /\ IsFreeSlot(Loaded(d, "edit", r), i)
             /\ PutEntry(d, "edit", r, w, i, NewFileEntry(i))
    BY <1>2
  <2>2. r = 1 /\ i \in OnDisk => dir[d][i].type = 0
    BY <2>1, FreeOnDisk DEF IInv
  <2>3. NewFileEntry(i) \in Entry /\ Sound(NewFileEntry(i), i)
    BY EntryFacts, SoundEdits
  <2>4. told' \in [Drives -> [Slots -> Texts]]
    BY ToldTyped DEF NewFile, IInv
  <2>5. /\ job = Idle
        /\ UNCHANGED <<signature, data, clean, label, job, texts, told>>
    BY DEF NewFile
  <2> QED BY <2>1, <2>2, <2>3, <2>4, <2>5, EntryStep DEF Buffers
<1> QED BY <1>1, <1>2 DEF NewFile

LEMMA NewFolderKeeps == ASSUME IInv, NEW d \in Drives, NewFolder(d) PROVE IInv'
<1>1. CASE FoundFull(d) /\ UNCHANGED dir
  BY <1>1, FullStep DEF NewFolder
<1>2. CASE \E r, w \in Bit, i \in Slots, n \in Bit :
             /\ IsFreeSlot(Loaded(d, "edit", r), i)
             /\ PutEntry(d, "edit", r, w, i, [FolderEntry EXCEPT !.named = n])
  <2>1. PICK r \in Bit, w \in Bit, i \in Slots, n \in Bit :
             /\ IsFreeSlot(Loaded(d, "edit", r), i)
             /\ PutEntry(d, "edit", r, w, i, [FolderEntry EXCEPT !.named = n])
    BY <1>2
  <2> DEFINE e == [FolderEntry EXCEPT !.named = n]
  <2>2. r = 1 /\ i \in OnDisk => dir[d][i].type = 0
    BY <2>1, FreeOnDisk DEF IInv
  <2>3. e \in Entry /\ Sound(e, i)
    BY EntryFacts, SoundEdits
  <2>4. told' \in [Drives -> [Slots -> Texts]]
    BY ToldTyped DEF NewFolder, IInv
  <2>5. /\ job = Idle
        /\ UNCHANGED <<signature, data, clean, label, job, texts, told>>
    BY DEF NewFolder
  <2>6. PutEntry(d, "edit", r, w, i, e)
    BY <2>1
  <2> HIDE DEF e
  <2> QED BY <2>2, <2>3, <2>4, <2>5, <2>6, EntryStep DEF Buffers
<1> QED BY <1>1, <1>2 DEF NewFolder

(* Delete, Rename and Recover edit the entry that the sector has.          *)
LEMMA EditedEntry ==
  ASSUME TypeOK, NEW d \in Drives, NEW b \in Buffers, NEW r \in Bit,
         NEW i \in Slots
  PROVE  /\ Loaded(d, b, r)[i] \in Entry
         /\ r = 1 /\ i \in OnDisk => Loaded(d, b, r)[i] = dir[d][i]
BY LoadedFacts

LEMMA DeleteKeeps ==
  ASSUME IInv, NEW d \in Drives, NEW i \in Slots, Delete(d, i) PROVE IInv'
<1>1. PICK r \in Bit, w \in Bit :
        PutEntry(d, "edit", r, w, i, Deleted(Loaded(d, "edit", r)[i]))
  BY DEF Delete
<1> DEFINE old == Loaded(d, "edit", r)[i]
<1>2. old \in Entry /\ (r = 1 /\ i \in OnDisk => old = dir[d][i])
  BY EditedEntry DEF IInv, Buffers
<1>3. told' = [told EXCEPT ![d][i] = 0]
  BY DEF Delete
<1>4. told' \in [Drives -> [Slots -> Texts]]
  BY <1>3, ToldTyped DEF IInv
<1>5. /\ \A c \in Drives, j \in Slots : told'[c][j] \in {0, told[c][j]}
      /\ told'[d][i] = 0
  BY <1>3, ToldTyped DEF IInv
<1>6. /\ Deleted(old) \in Entry
      /\ Sound(old, i) => Sound(Deleted(old), i)
  BY <1>2, EntryFacts, SoundEdits
<1>7. job = Idle /\ UNCHANGED <<signature, data, clean, label, job, texts>>
  BY DEF Delete
<1>8. PutEntry(d, "edit", r, w, i, Deleted(old))
  BY <1>1
<1> HIDE DEF old
<1> QED BY <1>2, <1>4, <1>5, <1>6, <1>7, <1>8, EntryStep DEF Buffers

LEMMA RenameKeeps ==
  ASSUME IInv, NEW d \in Drives, NEW i \in Slots, Rename(d, i) PROVE IInv'
<1>1. PICK r \in Bit, w \in Bit, n \in Bit :
        PutEntry(d, "edit", r, w, i, Renamed(Loaded(d, "edit", r)[i], n))
  BY DEF Rename
<1> DEFINE old == Loaded(d, "edit", r)[i]
<1>2. old \in Entry /\ (r = 1 /\ i \in OnDisk => old = dir[d][i])
  BY EditedEntry DEF IInv, Buffers
<1>3. told' = told /\ told' \in [Drives -> [Slots -> Texts]]
  BY ToldTyped DEF IInv, Rename
<1>4. /\ Renamed(old, n) \in Entry
      /\ Sound(old, i) => Sound(Renamed(old, n), i)
      /\ Renamed(old, n).type = old.type /\ Renamed(old, n).lba = old.lba
  BY <1>2, EntryFacts, SoundEdits DEF Renamed, Entry
<1>5. job = Idle /\ UNCHANGED <<signature, data, clean, label, job, texts>>
  BY DEF Rename
<1>6. PutEntry(d, "edit", r, w, i, Renamed(old, n))
  BY <1>1
<1> HIDE DEF old
<1> QED BY <1>2, <1>3, <1>4, <1>5, <1>6, EntryStep DEF Buffers

LEMMA RecoverKeeps ==
  ASSUME IInv, NEW d \in Drives, NEW i \in Slots, Recover(d, i) PROVE IInv'
<1>1. PICK r \in Bit, w \in Bit :
        /\ Loaded(d, "ghost", r)[i].type = 0
        /\ PutEntry(d, "ghost", r, w, i, Recovered(Loaded(d, "ghost", r)[i]))
  BY DEF Recover
<1> DEFINE old == Loaded(d, "ghost", r)[i]
<1>2. /\ old \in Entry /\ old.type = 0
      /\ r = 1 /\ i \in OnDisk => old = dir[d][i]
  BY <1>1, EditedEntry DEF IInv, Buffers
<1>3. told' = told /\ told' \in [Drives -> [Slots -> Texts]]
  BY ToldTyped DEF IInv, Recover
<1>4. /\ Recovered(old) \in Entry
      /\ Sound(old, i) => Sound(Recovered(old), i)
  BY <1>2, EntryFacts, SoundEdits
<1>5. job = Idle /\ UNCHANGED <<signature, data, clean, label, job, texts>>
  BY DEF Recover
<1>6. PutEntry(d, "ghost", r, w, i, Recovered(old))
  BY <1>1
<1> HIDE DEF old
<1> QED BY <1>2, <1>3, <1>4, <1>5, <1>6, EntryStep DEF Buffers

-----------------------------------------------------------------------------
(* Steps of the operations that write several sectors                      *)

LEMMA StartWritingKeeps ==
  ASSUME IInv, NEW d \in Drives, NEW says \in Bit, job = Idle,
         StartWriting(d, says),
         UNCHANGED <<signature, dir, data, clean, label, told>>
  PROVE  IInv'
<1>1. CASE FoundFull(d) /\ UNCHANGED <<job, texts>>
  BY <1>1, FullStep
<1>2. ASSUME NEW r \in Bit, NEW i \in Slots,
             IsFreeSlot(Loaded(d, "edit", r), i),
             bufs' = [bufs EXCEPT !["edit"] = Loaded(d, "edit", r)],
             Fails(1 - r), NewText,
             job' = [pc |-> "data", drive |-> d, slot |-> i,
                     text |-> texts + 1, says |-> says]
      PROVE  IInv'
  <2>1. 1 - r \in 0 .. 2
    BY DEF Bit
  <2>2. /\ failures' \in 0 .. MaxFailures
        /\ failures' = 0 => failures = 0 /\ r = 1
    BY <1>2, <2>1, FailsCounts DEF IInv, Bit
  <2>3. /\ Loaded(d, "edit", r) \in [Slots -> Entry]
        /\ r = 1 => \A j \in OnDisk : Loaded(d, "edit", r)[j] = dir[d][j]
    BY LoadedFacts DEF IInv, Buffers
  <2>4. /\ bufs' \in [Buffers -> [Slots -> Entry]]
        /\ bufs'["edit"] = Loaded(d, "edit", r)
    BY <1>2, <2>3 DEF IInv, TypeOK, Buffers
  <2>5. texts' \in Texts /\ texts + 1 \in Texts
    BY <1>2, CfsConstants DEF NewText, Texts, IInv, TypeOK
  <2>6. job' \in Job
    BY <1>2, <2>5 DEF Job
  <2>7. TypeOK'
    BY <2>2, <2>4, <2>5, <2>6 DEF IInv, TypeOK
  <2>8. failures' = 0 => JobKnowsSector'
    BY <1>2, <2>2, <2>3, <2>4 DEF JobKnowsSector, IsFreeSlot
  <2>9. NothingFailed'
    BY <1>2, <2>2, <2>8 DEF IInv, NothingFailed, SoundDirectory, Sound,
                          TextIsWritten, ToldIsKept, Holds, IsFile
  <2>10. ClearForgets'
    BY <1>2 DEF ClearForgets
  <2> QED BY <2>7, <2>9, <2>10 DEF IInv
<1> QED BY <1>1, <1>2 DEF StartWriting

LEMMA SaveAsKeeps == ASSUME IInv, NEW d \in Drives, SaveAs(d) PROVE IInv'
BY StartWritingKeeps DEF SaveAs, Bit

LEMMA CopyKeeps == ASSUME IInv, NEW d \in Drives, CopyToCfs(d) PROVE IInv'
BY StartWritingKeeps DEF CopyToCfs, Bit

(* On a clean drive a file lies in its own slot's sector.                  *)
LEMMA OwnSector ==
  ASSUME SoundDirectory, NEW d \in Drives, clean[d] = 1, NEW i \in OnDisk,
         IsFile(d, i)
  PROVE  dir[d][i].lba = DataSector(i)
BY DEF SoundDirectory, Sound, IsFile

(* One data sector of drive d became t, or none did.                       *)
OneText(d, x, t) ==
  \A c \in Drives, y \in Sectors :
    data'[c][y] = IF c = d /\ y = x THEN t ELSE data[c][y]

LEMMA DataWrittenFacts ==
  ASSUME TypeOK, NEW d \in Drives, NEW x \in Sectors, NEW t \in Texts,
         NEW w \in Bit, data' = DataWritten(d, x, t, w)
  PROVE  /\ data' \in [Drives -> [Sectors -> Texts]]
         /\ w = 1 => OneText(d, x, t)
BY DEF TypeOK, DataWritten, OneText

LEMMA WriteDataKeeps == ASSUME IInv, WriteData PROVE IInv'
<1> DEFINE d == job.drive
           i == job.slot
<1>1. PICK w \in Bit : /\ data' = DataWritten(d, DataSector(i), job.text, w)
                       /\ Fails(1 - w)
  BY DEF WriteData
<1>2. /\ job.pc = "data" /\ job' = [job EXCEPT !.pc = "entry"]
      /\ UNCHANGED <<signature, dir, clean, label, bufs, texts, told>>
  BY DEF WriteData
<1>3. /\ job \in Job /\ d \in Drives /\ i \in Slots /\ job.text \in Texts
      /\ DataSector(i) \in Sectors
  BY SlotFacts DEF IInv, TypeOK, Job
<1>4. /\ job' \in Job /\ job'.pc = "entry" /\ job'.drive = d
      /\ job'.slot = i /\ job'.text = job.text
  BY <1>2, <1>3 DEF Job
<1>5. /\ data' \in [Drives -> [Sectors -> Texts]]
      /\ w = 1 => OneText(d, DataSector(i), job.text)
  BY <1>1, <1>3, DataWrittenFacts DEF IInv
<1>6. 1 - w \in 0 .. 2
  BY DEF Bit
<1>7. /\ failures' \in 0 .. MaxFailures
      /\ failures' = 0 => failures = 0 /\ w = 1
  BY <1>1, <1>6, FailsCounts DEF IInv, Bit
<1> HIDE DEF d, i
<1>8. TypeOK'
  BY <1>2, <1>4, <1>5, <1>7 DEF IInv, TypeOK
<1>9. ASSUME failures' = 0
      PROVE  /\ SoundDirectory' /\ JobKnowsSector' /\ TextIsWritten'
             /\ ToldIsKept'
  <2>1. /\ failures = 0 /\ OneText(d, DataSector(i), job.text)
        /\ SoundDirectory /\ JobKnowsSector /\ ToldIsKept
    BY <1>5, <1>7, <1>9 DEF IInv, NothingFailed
  <2>2. SoundDirectory'
    BY <1>2, <2>1 DEF SoundDirectory, Sound
  <2>3. /\ bufs["edit"][i].type = 0
        /\ \A j \in OnDisk : bufs["edit"][j] = dir[d][j]
    BY <1>2, <2>1 DEF JobKnowsSector, d, i
  <2>4. JobKnowsSector'
    BY <1>2, <1>4, <2>3 DEF JobKnowsSector
  <2>5. TextIsWritten'
    BY <1>3, <1>4, <2>1 DEF TextIsWritten, OneText
  <2>6. ASSUME NEW c \in Drives, clean'[c] = 1, NEW j \in OnDisk,
               told'[c][j] # 0
        PROVE  Holds(c, j, told[c][j])'
    <3>1. Holds(c, j, told[c][j])
      BY <1>2, <2>1, <2>6 DEF ToldIsKept
    <3>2. dir[c][j].lba = DataSector(j)
      BY <1>2, <2>1, <2>6, <3>1, OwnSector DEF Holds
    <3>3. ~ (c = d /\ j = i)
      BY <2>3, <3>1 DEF Holds, IsFile
    <3>4. j \in Slots /\ DataSector(j) \in Sectors
      BY SlotFacts
    <3>5. c = d => DataSector(j) # DataSector(i)
      BY <1>3, <3>3, <3>4, SlotFacts
    <3>6. data'[c][DataSector(j)] = data[c][DataSector(j)]
      BY <2>1, <3>4, <3>5 DEF OneText
    <3> QED BY <1>2, <3>1, <3>2, <3>6 DEF Holds, IsFile
  <2>7. ToldIsKept'
    BY <1>2, <2>6 DEF ToldIsKept, Holds, IsFile
  <2> QED BY <2>2, <2>4, <2>5, <2>7
<1>10. NothingFailed'
  BY <1>9 DEF NothingFailed
<1>11. ClearForgets'
  BY <1>4 DEF ClearForgets
<1> QED BY <1>8, <1>10, <1>11 DEF IInv

LEMMA WriteEntryKeeps == ASSUME IInv, WriteEntry PROVE IInv'
<1> DEFINE d == job.drive
           i == job.slot
           e == [type |-> 1, named |-> 1, lba |-> DataSector(i)]
           es == [bufs["edit"] EXCEPT ![i] = e]
<1>1. PICK w \in Bit : dir' = DirWritten(d, es, w) /\ Fails(1 - w)
  BY DEF WriteEntry
<1>2. /\ job.pc = "entry" /\ job' = Idle
      /\ bufs' = [bufs EXCEPT !["edit"] = es]
      /\ told' = IF job.says = 1 THEN [told EXCEPT ![d][i] = job.text] ELSE told
      /\ UNCHANGED <<signature, data, clean, label, texts>>
  BY DEF WriteEntry
<1>3. /\ d \in Drives /\ i \in Slots /\ job.text \in Texts
      /\ DataSector(i) \in Sectors /\ DataSector(i) # 0
  BY SlotFacts DEF IInv, TypeOK, Job
<1>4. e \in Entry /\ Sound(e, i)
  BY <1>3, SlotFacts DEF Entry, Bit, Sound
<1>5. es \in [Slots -> Entry]
  BY <1>3, <1>4 DEF IInv, TypeOK, Buffers
<1>6. bufs' \in [Buffers -> [Slots -> Entry]]
  BY <1>2, <1>5 DEF IInv, TypeOK
<1>7. dir' \in [Drives -> [OnDisk -> Entry]]
  BY <1>1, <1>3, <1>5, DirWrittenFacts DEF IInv
<1>8. told' \in [Drives -> [Slots -> Texts]]
  BY <1>2, <1>3 DEF IInv, TypeOK
<1>9. 1 - w \in 0 .. 2
  BY DEF Bit
<1>10. /\ failures' \in 0 .. MaxFailures
       /\ failures' = 0 => failures = 0 /\ w = 1
  BY <1>1, <1>9, FailsCounts DEF IInv, Bit
<1>11. TypeOK'
  BY <1>2, <1>6, <1>7, <1>8, <1>10, IdleType DEF IInv, TypeOK
<1>12. ASSUME failures' = 0
       PROVE  SoundDirectory' /\ ToldIsKept'
  <2>1. /\ failures = 0 /\ w = 1
        /\ SoundDirectory /\ JobKnowsSector /\ TextIsWritten /\ ToldIsKept
    BY <1>10, <1>12 DEF IInv, NothingFailed
  <2>2. /\ bufs["edit"][i].type = 0
        /\ \A j \in OnDisk : bufs["edit"][j] = dir[d][j]
    BY <1>2, <2>1 DEF JobKnowsSector
  <2>3. \A j \in OnDisk : es[j] = IF j = i THEN e ELSE dir[d][j]
    BY <2>2, <1>3, SlotFacts DEF IInv, TypeOK, Buffers
  <2>4. data[d][DataSector(i)] = job.text
    BY <1>2, <2>1 DEF TextIsWritten
  <2> HIDE DEF es, e, d, i
  <2>5. OneEntry(d, i, e)
    BY <1>1, <1>3, <1>5, <2>1, <2>3, DirWrittenFacts DEF OneEntry, IInv
  <2>6. SoundDirectory'
    BY <1>2, <1>3, <1>4, <2>1, <2>5, OneEntryKeepsSound
  <2>7. ASSUME NEW c \in Drives, clean'[c] = 1, NEW j \in OnDisk,
               told'[c][j] # 0
        PROVE  Holds(c, j, told[c][j])'
    <3> j \in Slots
      BY SlotFacts
    <3>1. CASE c = d /\ j = i
      <4>1. dir'[c][j] = e
        BY <2>5, <3>1 DEF OneEntry
      <4>2. told'[c][j] = job.text
        <5>1. CASE job.says = 1
          BY <1>2, <1>3, <3>1, <5>1 DEF IInv, TypeOK
        <5>2. CASE job.says # 1
          <6>1. Holds(c, j, told[c][j])
            BY <1>2, <2>1, <2>7, <5>2 DEF ToldIsKept
          <6> QED BY <2>2, <3>1, <6>1 DEF Holds, IsFile
        <5> QED BY <5>1, <5>2
      <4>3. e.type = 1 /\ e.lba = DataSector(i)
        BY DEF e
      <4> QED BY <1>2, <1>3, <2>4, <3>1, <4>1, <4>2, <4>3 DEF Holds, IsFile
    <3>2. CASE ~ (c = d /\ j = i)
      <4>1. dir'[c][j] = dir[c][j]
        BY <2>5, <3>2 DEF OneEntry
      <4>2. told'[c][j] = told[c][j]
        BY <1>2, <1>3, <3>2 DEF IInv, TypeOK
      <4>3. Holds(c, j, told[c][j])
        BY <1>2, <2>1, <2>7, <4>2 DEF ToldIsKept
      <4> QED BY <1>2, <4>1, <4>2, <4>3 DEF Holds, IsFile
    <3> QED BY <3>1, <3>2
  <2>8. ToldIsKept'
    BY <1>2, <2>7 DEF ToldIsKept, Holds, IsFile
  <2> QED BY <2>6, <2>8
<1>13. NothingFailed'
  BY <1>2, <1>12 DEF NothingFailed, JobKnowsSector, TextIsWritten, Idle
<1>14. ClearForgets'
  BY <1>2 DEF ClearForgets, Idle
<1> QED BY <1>11, <1>13, <1>14 DEF IInv

LEMMA SaveKeeps ==
  ASSUME IInv, NEW d \in Drives, NEW x \in Sectors, Save(d, x) PROVE IInv'
<1> DEFINE t == texts + 1
<1>1. PICK w \in Bit : data' = DataWritten(d, x, t, w) /\ Fails(1 - w)
  BY DEF Save
<1>2. /\ job = Idle /\ NewText
      /\ told' = IF x - 1 \in OnDisk /\ dir[d][x - 1].type = 1
                 THEN [told EXCEPT ![d][x - 1] = t] ELSE told
      /\ UNCHANGED <<signature, dir, clean, label, bufs, job>>
  BY DEF Save
<1>3. t \in Texts /\ texts' \in Texts
  BY <1>2, CfsConstants DEF NewText, Texts, IInv, TypeOK
<1> HIDE DEF t
<1>4. /\ data' \in [Drives -> [Sectors -> Texts]]
      /\ w = 1 => OneText(d, x, t)
  BY <1>1, <1>3, DataWrittenFacts DEF IInv
<1>5. told' \in [Drives -> [Slots -> Texts]]
  BY <1>2, <1>3 DEF IInv, TypeOK
<1>6. 1 - w \in 0 .. 2
  BY DEF Bit
<1>7. /\ failures' \in 0 .. MaxFailures
      /\ failures' = 0 => failures = 0 /\ w = 1
  BY <1>1, <1>6, FailsCounts DEF IInv, Bit
<1>8. TypeOK'
  BY <1>2, <1>3, <1>4, <1>5, <1>7 DEF IInv, TypeOK
<1>9. ASSUME failures' = 0
      PROVE  SoundDirectory' /\ ToldIsKept'
  <2>1. OneText(d, x, t) /\ SoundDirectory /\ ToldIsKept
    BY <1>4, <1>7, <1>9 DEF IInv, NothingFailed
  <2>2. SoundDirectory'
    BY <1>2, <2>1 DEF SoundDirectory, Sound
  <2>3. ASSUME NEW c \in Drives, clean'[c] = 1, NEW j \in OnDisk,
               told'[c][j] # 0
        PROVE  Holds(c, j, told[c][j])'
    <3>1. j \in Slots /\ DataSector(j) \in Sectors /\ DataSector(j) # 0
          /\ DataSector(j) = j + 1
      BY SlotFacts DEF DataSector
    <3>2. IsFile(c, j)
      <4>1. CASE told'[c][j] = told[c][j]
        BY <1>2, <2>1, <2>3, <4>1 DEF ToldIsKept, Holds
      <4>2. CASE told'[c][j] # told[c][j]
        <5>1. c = d /\ j = x - 1 /\ dir[d][x - 1].type = 1
          BY <1>2, <3>1, <4>2 DEF IInv, TypeOK
        <5> QED BY <5>1 DEF IsFile
      <4> QED BY <4>1, <4>2
    <3>3. dir[c][j].lba = DataSector(j)
      BY <1>2, <2>1, <2>3, <3>2, OwnSector
    <3>4. CASE c = d /\ j = x - 1
      <4>1. told'[c][j] = t
        BY <1>2, <1>3, <3>1, <3>2, <3>4 DEF IsFile, IInv, TypeOK
      <4>2. data'[c][DataSector(j)] = t
        BY <2>1, <3>1, <3>4 DEF OneText, Sectors
      <4> QED BY <1>2, <3>1, <3>2, <3>3, <4>1, <4>2 DEF Holds, IsFile
    <3>5. CASE ~ (c = d /\ j = x - 1)
      <4>1. told'[c][j] = told[c][j]
        BY <1>2, <3>1, <3>5 DEF IInv, TypeOK
      <4>2. data'[c][DataSector(j)] = data[c][DataSector(j)]
        BY <2>1, <3>1, <3>5 DEF OneText, Sectors, OnDisk
      <4>3. Holds(c, j, told[c][j])
        BY <1>2, <2>1, <2>3, <4>1 DEF ToldIsKept
      <4> QED BY <1>2, <3>3, <4>1, <4>2, <4>3 DEF Holds, IsFile
    <3> QED BY <3>4, <3>5
  <2>4. ToldIsKept'
    BY <1>2, <2>3 DEF ToldIsKept, Holds, IsFile
  <2> QED BY <2>2, <2>4
<1>10. NothingFailed'
  BY <1>2, <1>9 DEF NothingFailed, JobKnowsSector, TextIsWritten, Idle
<1>11. ClearForgets'
  BY <1>2 DEF ClearForgets, Idle
<1> QED BY <1>8, <1>10, <1>11 DEF IInv

LEMMA FormatKeeps == ASSUME IInv, NEW d \in Drives, Format(d) PROVE IInv'
<1>1. PICK w \in Bit :
        /\ signature' = IF w = 1 THEN [signature EXCEPT ![d] = 1] ELSE signature
        /\ Fails(1 - w)
  BY DEF Format
<1>2. /\ clean' = [clean EXCEPT ![d] = 0]
      /\ told' = [told EXCEPT ![d] = [i \in Slots |-> 0]]
      /\ job' = [Idle EXCEPT !.pc = "clear", !.drive = d]
      /\ UNCHANGED <<dir, data, label, bufs, texts>>
  BY DEF Format
<1>3. 1 - w \in 0 .. 2
  BY DEF Bit
<1>4. /\ failures' \in 0 .. MaxFailures
      /\ failures' = 0 => failures = 0
  BY <1>1, <1>3, FailsCounts DEF IInv
<1>5. job' \in Job /\ job'.pc = "clear" /\ job'.drive = d
  BY <1>2, IdleType DEF Job
<1>6. signature' \in [Drives -> Bit] /\ clean' \in [Drives -> Bit]
  BY <1>1, <1>2 DEF IInv, TypeOK, Bit
<1>7. told' \in [Drives -> [Slots -> Texts]]
  BY <1>2, CfsConstants DEF IInv, TypeOK, Texts
<1>8. TypeOK'
  BY <1>2, <1>4, <1>5, <1>6, <1>7 DEF IInv, TypeOK
<1>9. \A c \in Drives : clean'[c] = 1 => c # d /\ clean[c] = 1
  BY <1>2 DEF IInv, TypeOK
<1>10. \A c \in Drives : c # d => told'[c] = told[c]
  BY <1>2 DEF IInv, TypeOK
<1>11. ASSUME failures' = 0
       PROVE  SoundDirectory' /\ ToldIsKept'
  <2>1. SoundDirectory /\ ToldIsKept
    BY <1>4, <1>11 DEF IInv, NothingFailed
  <2> QED BY <1>2, <1>9, <1>10, <2>1
          DEF SoundDirectory, Sound, ToldIsKept, Holds, IsFile
<1>12. NothingFailed'
  BY <1>5, <1>11 DEF NothingFailed, JobKnowsSector, TextIsWritten
<1>13. ClearForgets'
  BY <1>2, <1>5 DEF ClearForgets, IInv, TypeOK
<1> QED BY <1>8, <1>12, <1>13 DEF IInv

LEMMA ClearDirectoryKeeps == ASSUME IInv, ClearDirectory PROVE IInv'
<1> DEFINE d == job.drive
<1>1. PICK w \in Bit :
        /\ dir' = IF w = 1 THEN [dir EXCEPT ![d] = Blank] ELSE dir
        /\ clean' = IF w = 1 THEN [clean EXCEPT ![d] = signature[d]] ELSE clean
        /\ Fails(1 - w)
  BY DEF ClearDirectory
<1>2. /\ job.pc = "clear" /\ job' = Idle
      /\ label' = [label EXCEPT ![d] = 1]
      /\ UNCHANGED <<signature, data, bufs, texts, told>>
  BY DEF ClearDirectory
<1>3. d \in Drives
  BY DEF IInv, TypeOK, Job
<1>4. \A i \in Slots : told[d][i] = 0
  BY <1>2 DEF IInv, ClearForgets
<1> HIDE DEF d
<1>5. 1 - w \in 0 .. 2
  BY DEF Bit
<1>6. /\ failures' \in 0 .. MaxFailures
      /\ failures' = 0 => failures = 0 /\ w = 1
  BY <1>1, <1>5, FailsCounts DEF IInv, Bit
<1>7. Blank \in [OnDisk -> Entry] /\ \A i \in OnDisk : Blank[i] = NoEntry
  BY EntryFacts DEF Blank
<1>8. dir' \in [Drives -> [OnDisk -> Entry]] /\ clean' \in [Drives -> Bit]
      /\ label' \in [Drives -> Bit]
  BY <1>1, <1>2, <1>3, <1>7 DEF IInv, TypeOK, Bit
<1>9. TypeOK'
  BY <1>2, <1>6, <1>8, IdleType DEF IInv, TypeOK
<1>10. ASSUME failures' = 0
       PROVE  SoundDirectory' /\ ToldIsKept'
  <2>1. SoundDirectory /\ ToldIsKept /\ w = 1
    BY <1>6, <1>10 DEF IInv, NothingFailed
  <2>2. \A c \in Drives : c # d => dir'[c] = dir[c] /\ clean'[c] = clean[c]
    BY <1>1, <1>3 DEF IInv, TypeOK
  <2>3. dir'[d] = Blank
    BY <1>1, <1>3, <2>1 DEF IInv, TypeOK
  <2>4. SoundDirectory'
    BY <1>7, <2>1, <2>2, <2>3, SoundEdits, SlotFacts DEF SoundDirectory, Sound
  <2>5. ToldIsKept'
    BY <1>2, <1>4, <2>1, <2>2, SlotFacts DEF ToldIsKept, Holds, IsFile
  <2> QED BY <2>4, <2>5
<1>11. NothingFailed'
  BY <1>2, <1>10 DEF NothingFailed, JobKnowsSector, TextIsWritten, Idle
<1>12. ClearForgets'
  BY <1>2 DEF ClearForgets, Idle
<1> QED BY <1>9, <1>11, <1>12 DEF IInv

LEMMA MountAllFacts ==
  ASSUME TypeOK, MountAll
  PROVE  /\ label' \in [Drives -> Bit]
         /\ failures' \in 0 .. MaxFailures
         /\ failures' = 0 => failures = 0
<1>1. PICK bad \in {{}} \cup {{d} : d \in Drives} :
        /\ label' = Mounted([d \in Drives |-> IF d \in bad THEN 0 ELSE 1])
        /\ Fails(IF bad = {} THEN 0 ELSE 1)
  BY DEF MountAll
<1>2. label' \in [Drives -> Bit]
  BY <1>1 DEF Mounted, TypeOK, Bit
<1>3. (IF bad = {} THEN 0 ELSE 1) \in 0 .. 2
  OBVIOUS
<1> QED BY <1>1, <1>2, <1>3, FailsCounts

(* Mounting, and power-up: the disks and the user's memory are unchanged.  *)
LEMMA RestartKeeps ==
  ASSUME IInv, MountAll, job' = Idle, bufs' \in [Buffers -> [Slots -> Entry]],
         UNCHANGED <<signature, dir, data, clean, texts, told>>
  PROVE  IInv'
<1>1. TypeOK'
  BY MountAllFacts, IdleType DEF IInv, TypeOK
<1>2. failures' = 0 => failures = 0
  BY MountAllFacts DEF IInv
<1>3. NothingFailed'
  BY <1>2 DEF IInv, NothingFailed, SoundDirectory, Sound, JobKnowsSector, Idle,
              TextIsWritten, ToldIsKept, Holds, IsFile
<1>4. ClearForgets'
  BY DEF ClearForgets, Idle
<1> QED BY <1>1, <1>3, <1>4 DEF IInv

LEMMA MountKeeps == ASSUME IInv, Mount PROVE IInv'
BY RestartKeeps DEF Mount, IInv, TypeOK

LEMMA PowerLossKeeps == ASSUME IInv, PowerLoss PROVE IInv'
<1>1. bufs' \in [Buffers -> [Slots -> Entry]]
  BY EntryFacts DEF PowerLoss
<1> QED BY <1>1, RestartKeeps DEF PowerLoss

LEMMA StutterKeeps == ASSUME IInv, UNCHANGED cfsVars PROVE IInv'
BY DEF IInv, TypeOK, NothingFailed, SoundDirectory, Sound, JobKnowsSector,
       TextIsWritten, ToldIsKept, Holds, IsFile, ClearForgets, cfsVars

THEOREM Preserved == IInv /\ [Next]_cfsVars => IInv'
<1> SUFFICES ASSUME IInv, [Next]_cfsVars PROVE IInv'
  OBVIOUS
<1>1. ASSUME NEW d \in Drives,
             \/ NewFile(d) \/ NewFolder(d) \/ SaveAs(d) \/ CopyToCfs(d)
             \/ Format(d) \/ Look(d)
      PROVE  IInv'
  BY <1>1, NewFileKeeps, NewFolderKeeps, SaveAsKeeps, CopyKeeps, FormatKeeps,
     LookKeeps
<1>2. ASSUME NEW d \in Drives, NEW i \in Slots,
             Delete(d, i) \/ Rename(d, i) \/ Recover(d, i)
      PROVE  IInv'
  BY <1>2, DeleteKeeps, RenameKeeps, RecoverKeeps
<1>3. ASSUME NEW d \in Drives, NEW x \in Sectors, Save(d, x)
      PROVE  IInv'
  BY <1>3, SaveKeeps
<1>4. CASE WriteData
  BY <1>4, WriteDataKeeps
<1>5. CASE WriteEntry
  BY <1>5, WriteEntryKeeps
<1>6. CASE ClearDirectory
  BY <1>6, ClearDirectoryKeeps
<1>7. CASE Mount
  BY <1>7, MountKeeps
<1>8. CASE PowerLoss
  BY <1>8, PowerLossKeeps
<1>9. CASE UNCHANGED cfsVars
  BY <1>9, StutterKeeps
<1> QED BY <1>1, <1>2, <1>3, <1>4, <1>5, <1>6, <1>7, <1>8, <1>9 DEF Next

(* The inductive invariant holds in every reachable state.                 *)
THEOREM Invariance == Spec => []IInv
BY Initially, Preserved, PTL DEF Spec

(* Every variable keeps its type, whatever fails and whenever power goes.  *)
THEOREM TypeCorrect == Spec => []TypeOK
<1>1. IInv => TypeOK
  BY DEF IInv
<1> QED BY <1>1, Invariance, PTL

(* Without an allocation map, files never share a data sector.             *)
THEOREM SectorsAreNotShared == Spec => []NoSharedSector
<1>1. ASSUME IInv
      PROVE  NoSharedSector
  <2> SUFFICES ASSUME failures = 0, NEW d \in Drives, clean[d] = 1,
                      NEW i \in OnDisk, NEW j \in OnDisk,
                      IsFile(d, i), IsFile(d, j), i # j
               PROVE  dir[d][i].lba # dir[d][j].lba
    BY DEF NoSharedSector
  <2>1. /\ dir[d][i].lba = DataSector(i)
        /\ dir[d][j].lba = DataSector(j)
    BY <1>1, OwnSector DEF IInv, NothingFailed
  <2> QED BY <2>1, SlotFacts
<1> QED BY <1>1, Invariance, PTL

(* What the user was told to be saved stays where a reader looks for it.   *)
THEOREM SavedTextsStay == Spec => []SavedTextIsKept
<1>1. IInv => SavedTextIsKept
  BY DEF IInv, NothingFailed, ToldIsKept, SavedTextIsKept
<1> QED BY <1>1, Invariance, PTL

-----------------------------------------------------------------------------
(* Refinement: the clean drives implement FileStore                        *)

(* A finished format left its signature; a drive being cleared is not      *)
(* clean; and as long as nothing failed the label knows about the former,  *)
(* which is what locks FORMAT.                                             *)
LInv ==
  /\ \A d \in Drives : clean[d] = 1 => signature[d] = 1
  /\ job.pc = "clear" => clean[job.drive] = 0
  /\ failures = 0 => FormatIsProtected

LEMMA LabelsInitially == Init => LInv
BY DEF Init, LInv, Idle, FormatIsProtected

LEMMA FailsMonotone ==
  ASSUME TypeOK, NEW n \in 0 .. 2, Fails(n)
  PROVE  failures' = 0 => failures = 0
BY FailsCounts

(* Steps of every other operation touch none of what LInv speaks about.    *)
LEMMA LabelsQuiet ==
  ASSUME LInv, UNCHANGED <<signature, clean, label>>, job'.pc # "clear",
         failures' = 0 => failures = 0
  PROVE  LInv'
BY DEF LInv, FormatIsProtected

LEMMA StartWritingQuiet ==
  ASSUME TypeOK, LInv, NEW d \in Drives, NEW says \in Bit, job = Idle,
         StartWriting(d, says), UNCHANGED <<signature, clean, label>>
  PROVE  LInv'
<1>1. CASE FoundFull(d) /\ UNCHANGED <<job, texts>>
  BY <1>1, OnlyRead, LabelsQuiet DEF Idle
<1>2. ASSUME NEW r \in Bit, NEW i \in Slots, Fails(1 - r),
             job' = [pc |-> "data", drive |-> d, slot |-> i,
                     text |-> texts + 1, says |-> says]
      PROVE  LInv'
  <2>1. 1 - r \in 0 .. 2
    BY DEF Bit
  <2>2. job'.pc # "clear"
    BY <1>2
  <2> QED BY <1>2, <2>1, <2>2, FailsMonotone, LabelsQuiet
<1> QED BY <1>1, <1>2 DEF StartWriting

LEMMA LabelsMounted ==
  ASSUME TypeOK, LInv, MountAll, UNCHANGED <<signature, clean>>, job' = Idle
  PROVE  LInv'
<1>1. PICK bad \in {{}} \cup {{d} : d \in Drives} :
        /\ label' = Mounted([d \in Drives |-> IF d \in bad THEN 0 ELSE 1])
        /\ Fails(IF bad = {} THEN 0 ELSE 1)
  BY DEF MountAll
<1>2. (IF bad = {} THEN 0 ELSE 1) \in 0 .. 2
  OBVIOUS
<1>3. failures' = 0 => failures = 0 /\ bad = {}
  BY <1>1, <1>2, FailsCounts
<1>4. ASSUME failures' = 0, NEW d \in Drives, clean[d] = 1
      PROVE  label'[d] = 1
  BY <1>1, <1>3, <1>4 DEF LInv, Mounted
<1> QED BY <1>4 DEF LInv, FormatIsProtected, Idle

LEMMA LabelsFormat ==
  ASSUME TypeOK, LInv, NEW d \in Drives, Format(d) PROVE LInv'
<1>1. PICK w \in Bit :
        /\ signature' = IF w = 1 THEN [signature EXCEPT ![d] = 1] ELSE signature
        /\ Fails(1 - w)
  BY DEF Format
<1>2. /\ clean' = [clean EXCEPT ![d] = 0] /\ label' = label
      /\ job' = [Idle EXCEPT !.pc = "clear", !.drive = d]
  BY DEF Format
<1>3. 1 - w \in 0 .. 2
  BY DEF Bit
<1>4. failures' = 0 => failures = 0
  BY <1>1, <1>3, FailsMonotone
<1>5. job'.drive = d
  BY <1>2, IdleType DEF Idle
<1>6. clean'[d] = 0 /\ \A c \in Drives : clean'[c] = 1 => clean[c] = 1
  BY <1>2 DEF TypeOK
<1>7. \A c \in Drives : signature[c] = 1 => signature'[c] = 1
  BY <1>1 DEF TypeOK
<1> QED BY <1>2, <1>4, <1>5, <1>6, <1>7 DEF LInv, FormatIsProtected

LEMMA LabelsClear == ASSUME TypeOK, LInv, ClearDirectory PROVE LInv'
<1> DEFINE d == job.drive
<1>1. PICK w \in Bit :
        /\ clean' = IF w = 1 THEN [clean EXCEPT ![d] = signature[d]] ELSE clean
        /\ Fails(1 - w)
  BY DEF ClearDirectory
<1>2. /\ job' = Idle /\ label' = [label EXCEPT ![d] = 1]
      /\ signature' = signature /\ d \in Drives
  BY DEF ClearDirectory, TypeOK, Job
<1> HIDE DEF d
<1>3. 1 - w \in 0 .. 2
  BY DEF Bit
<1>4. failures' = 0 => failures = 0
  BY <1>1, <1>3, FailsMonotone
<1>5. \A c \in Drives : clean'[c] = 1 => signature'[c] = 1
  BY <1>1, <1>2 DEF LInv, TypeOK
<1>6. label'[d] = 1
        /\ \A c \in Drives : c # d => label'[c] = label[c] /\ clean'[c] = clean[c]
  BY <1>1, <1>2 DEF TypeOK
<1> QED BY <1>2, <1>4, <1>5, <1>6 DEF LInv, FormatIsProtected, Idle

LEMMA PutEntryQuiet ==
  ASSUME TypeOK, LInv, NEW d \in Drives, NEW b \in Buffers, NEW r \in Bit,
         NEW w \in Bit, NEW i \in Slots, NEW e, PutEntry(d, b, r, w, i, e),
         UNCHANGED <<signature, clean, label, job>>, job = Idle
  PROVE  LInv'
<1>1. Fails((1 - r) + (1 - w)) /\ (1 - r) + (1 - w) \in 0 .. 2
  BY DEF PutEntry, Bit
<1> QED BY <1>1, FailsMonotone, LabelsQuiet DEF Idle

LEMMA LabelsPreserved ==
  ASSUME TypeOK, LInv, [Next]_cfsVars PROVE LInv'
<1>1. ASSUME NEW d \in Drives, NewFile(d) PROVE LInv'
  <2>1. CASE FoundFull(d)
    BY <1>1, <2>1, OnlyRead, LabelsQuiet DEF NewFile, Idle
  <2>2. CASE \E r, w \in Bit, i \in Slots :
               PutEntry(d, "edit", r, w, i, NewFileEntry(i))
    BY <1>1, <2>2, PutEntryQuiet DEF NewFile, Buffers
  <2> QED BY <1>1, <2>1, <2>2 DEF NewFile
<1>2. ASSUME NEW d \in Drives, NewFolder(d) PROVE LInv'
  <2>1. CASE FoundFull(d)
    BY <1>2, <2>1, OnlyRead, LabelsQuiet DEF NewFolder, Idle
  <2>2. CASE \E r, w \in Bit, i \in Slots, n \in Bit :
               PutEntry(d, "edit", r, w, i, [FolderEntry EXCEPT !.named = n])
    BY <1>2, <2>2, PutEntryQuiet DEF NewFolder, Buffers
  <2> QED BY <1>2, <2>1, <2>2 DEF NewFolder
<1>3. ASSUME NEW d \in Drives, NEW i \in Slots,
             Delete(d, i) \/ Rename(d, i) \/ Recover(d, i)
      PROVE  LInv'
  <2>1. CASE Delete(d, i)
    BY <2>1, PutEntryQuiet DEF Delete, Buffers
  <2>2. CASE Rename(d, i)
    BY <2>2, PutEntryQuiet DEF Rename, Buffers
  <2>3. CASE Recover(d, i)
    <3>1. \E r, w \in Bit : \E e : PutEntry(d, "ghost", r, w, i, e)
      BY <2>3 DEF Recover
    <3> QED BY <2>3, <3>1, PutEntryQuiet DEF Recover, Buffers
  <2> QED BY <1>3, <2>1, <2>2, <2>3
<1>4. ASSUME NEW d \in Drives, SaveAs(d) \/ CopyToCfs(d) PROVE LInv'
  BY <1>4, StartWritingQuiet DEF SaveAs, CopyToCfs, Bit
<1>5. ASSUME NEW d \in Drives, Format(d) PROVE LInv'
  BY <1>5, LabelsFormat
<1>6. ASSUME NEW d \in Drives, NEW x \in Sectors, Save(d, x) PROVE LInv'
  <2>1. \E w \in Bit : Fails(1 - w) /\ 1 - w \in 0 .. 2
    BY <1>6 DEF Save, Bit
  <2> QED BY <1>6, <2>1, FailsMonotone, LabelsQuiet DEF Save, Idle
<1>7. CASE WriteData
  <2>1. \E w \in Bit : Fails(1 - w) /\ 1 - w \in 0 .. 2
    BY <1>7 DEF WriteData, Bit
  <2>2. job'.pc # "clear"
    BY <1>7 DEF WriteData, TypeOK, Job
  <2> QED BY <1>7, <2>1, <2>2, FailsMonotone, LabelsQuiet DEF WriteData
<1>8. CASE WriteEntry
  <2>1. \E w \in Bit : Fails(1 - w) /\ 1 - w \in 0 .. 2
    BY <1>8 DEF WriteEntry, Bit
  <2> QED BY <1>8, <2>1, FailsMonotone, LabelsQuiet DEF WriteEntry, Idle
<1>9. CASE ClearDirectory
  BY <1>9, LabelsClear
<1>10. CASE Mount \/ PowerLoss
  BY <1>10, LabelsMounted DEF Mount, PowerLoss
<1>11. CASE UNCHANGED cfsVars
  BY <1>11 DEF LInv, FormatIsProtected, cfsVars
<1>12. ASSUME NEW d \in Drives, Look(d) PROVE LInv'
  <2>1. job'.pc # "clear" /\ UNCHANGED <<signature, clean, label>>
    BY <1>12 DEF Look, Idle
  <2>2. failures' = 0 => failures = 0
    BY <1>12, OnlyRead
  <2> QED BY <2>1, <2>2, LabelsQuiet
<1> QED BY <1>1, <1>2, <1>3, <1>4, <1>5, <1>6, <1>7, <1>8, <1>9, <1>10, <1>11,
           <1>12 DEF Next

Files == [d \in Drives |-> [i \in OnDisk |-> Shown(d, i)]]

LEMMA FilesAre ==
  /\ FS!Init <=> Files = [d \in Drives |-> [i \in OnDisk |-> Free]]
  /\ \A d, i, c : FS!Shows(d, i, c) <=> Files' = [Files EXCEPT ![d][i] = c]
BY DEF FS!Init, FS!Shows, Files

(* Nothing that is shown changed.                                          *)
LEMMA SameShown ==
  ASSUME \A c \in Drives, j \in OnDisk : Shown(c, j)' = Shown(c, j)
  PROVE  Files' = Files
BY DEF Files

(* One slot changed in a way that FileStore allows.                        *)
LEMMA OneShown ==
  ASSUME NEW d \in Drives, NEW i \in OnDisk, NEW v,
         \A c \in Drives, j \in OnDisk :
           Shown(c, j)' = IF c = d /\ j = i THEN v ELSE Shown(c, j),
         \/ Shown(d, i) = Free /\ v \in Texts \cup {Folder}
         \/ Shown(d, i) # Free /\ v = Free
         \/ Shown(d, i) \notin {Free, Folder} /\ v \in Texts
  PROVE  FS!Next
<1>1. Files' = [Files EXCEPT ![d][i] = v] /\ Files[d][i] = Shown(d, i)
  BY DEF Files
<1>2. FS!Shows(d, i, v)
  BY <1>1, FilesAre
<1>3. Files[d][i] = Shown(d, i)
  BY DEF Files
<1>4. FS!Appear(d, i) \/ FS!Vanish(d, i) \/ FS!Overwrite(d, i)
  BY <1>2, <1>3 DEF FS!Appear, FS!Vanish, FS!Overwrite, Files
<1> QED BY <1>4 DEF FS!Next

(* What an entry shows.                                                    *)
EntryShows(d, e) == IF e.type = 0 THEN Free
                    ELSE IF e.type = 2 THEN Folder ELSE data[d][e.lba]

LEMMA FileShowsText ==
  ASSUME TypeOK, NEW d \in Drives, NEW i \in OnDisk, NEW e \in Entry,
         Sound(e, i), e.type = 1
  PROVE  EntryShows(d, e) \in Texts /\ e.lba = DataSector(i)
BY SlotFacts DEF Sound, EntryShows, TypeOK

LEMMA EntryStepShown ==
  ASSUME TypeOK, SoundDirectory, NEW d \in Drives, NEW i \in Slots,
         NEW e \in Entry, OneEntry(d, i, e), UNCHANGED <<clean, data>>,
         i \in OnDisk => (Sound(dir[d][i], i) => Sound(e, i)),
         i \in OnDisk => \/ dir[d][i].type = 0
                         \/ e.type = 0
                         \/ e.type = dir[d][i].type /\ e.lba = dir[d][i].lba
  PROVE  FS!Next \/ Files' = Files
<1>1. \A c \in Drives, j \in OnDisk :
        ~ (c = d /\ j = i) => Shown(c, j)' = Shown(c, j)
  BY DEF OneEntry, Shown
<1>2. CASE i \notin OnDisk \/ clean[d] = 0
  <2>1. \A c \in Drives, j \in OnDisk : Shown(c, j)' = Shown(c, j)
    BY <1>1, <1>2 DEF Shown
  <2> QED BY <2>1, SameShown
<1>3. CASE i \in OnDisk /\ clean[d] # 0
  <2>1. clean[d] = 1 /\ Sound(dir[d][i], i) /\ Sound(e, i)
    BY <1>3 DEF TypeOK, SoundDirectory, Bit
  <2>2. dir'[d][i] = e /\ dir[d][i] \in Entry
    BY <1>3 DEF OneEntry, TypeOK
  <2>3. Shown(d, i) = EntryShows(d, dir[d][i])
    BY <1>3 DEF Shown, EntryShows
  <2>4. Shown(d, i)' = EntryShows(d, e)
    BY <1>3, <2>2 DEF Shown, EntryShows, Free, Folder
  <2>5. CASE EntryShows(d, e) = Shown(d, i)
    BY <1>1, <2>4, <2>5, SameShown
  <2>6. CASE EntryShows(d, e) # Shown(d, i)
    <3>1. \A c \in Drives, j \in OnDisk :
            Shown(c, j)' = IF c = d /\ j = i THEN EntryShows(d, e)
                           ELSE Shown(c, j)
      BY <1>1, <2>4
    <3>2. e.type # 0 => EntryShows(d, e) \in Texts \cup {Folder}
      BY <1>3, <2>1, FileShowsText DEF EntryShows, Entry
    <3>3. CASE dir[d][i].type = 0
      BY <1>3, <2>3, <2>6, <3>1, <3>2, <3>3, OneShown DEF EntryShows
    <3>4. CASE e.type = 0
      BY <1>3, <2>6, <3>1, <3>4, OneShown DEF EntryShows
    <3>5. CASE e.type = dir[d][i].type /\ e.lba = dir[d][i].lba
      BY <2>3, <2>6, <3>5 DEF EntryShows
    <3> QED BY <1>3, <3>3, <3>4, <3>5
  <2> QED BY <2>5, <2>6
<1> QED BY <1>2, <1>3

(* Without failures every transfer of a step succeeds.                     *)
LEMMA AllSucceed ==
  ASSUME MaxFailures = 0, IInv
  PROVE  /\ failures = 0 /\ SoundDirectory /\ JobKnowsSector
         /\ \A n \in 0 .. 2 : Fails(n) => n = 0
         /\ \A w \in Bit : Fails(1 - w) => w = 1
<1>1. failures = 0
  BY DEF IInv, TypeOK
<1>2. \A n \in 0 .. 2 : Fails(n) => n = 0
  BY <1>1 DEF Fails
<1>3. \A w \in Bit : Fails(1 - w) => w = 1
  BY <1>1 DEF Fails, Bit
<1> QED BY <1>1, <1>2, <1>3 DEF IInv, NothingFailed

LEMMA PutEntrySucceeds ==
  ASSUME MaxFailures = 0, IInv, NEW d \in Drives, NEW b \in Buffers,
         NEW r \in Bit, NEW w \in Bit, NEW i \in Slots, NEW e \in Entry,
         PutEntry(d, b, r, w, i, e)
  PROVE  r = 1 /\ OneEntry(d, i, e)
<1>1. failures' = 0
  BY PutEntryFacts DEF IInv
<1> QED BY <1>1, PutEntryFacts DEF IInv

LEMMA NewFileShown ==
  ASSUME MaxFailures = 0, IInv, NEW d \in Drives, NewFile(d)
  PROVE  FS!Next \/ Files' = Files
<1>1. UNCHANGED <<clean, data>>
  BY DEF NewFile
<1>2. CASE UNCHANGED dir
  BY <1>1, <1>2, SameShown DEF Shown
<1>3. CASE \E r, w \in Bit, i \in Slots :
             /\ IsFreeSlot(Loaded(d, "edit", r), i)
             /\ PutEntry(d, "edit", r, w, i, NewFileEntry(i))
  <2>1. PICK r \in Bit, w \in Bit, i \in Slots :
             /\ IsFreeSlot(Loaded(d, "edit", r), i)
             /\ PutEntry(d, "edit", r, w, i, NewFileEntry(i))
    BY <1>3
  <2>2. NewFileEntry(i) \in Entry /\ Sound(NewFileEntry(i), i)
    BY EntryFacts, SoundEdits
  <2>3. r = 1 /\ OneEntry(d, i, NewFileEntry(i))
    BY <2>1, <2>2, PutEntrySucceeds DEF Buffers
  <2>4. i \in OnDisk => dir[d][i].type = 0
    BY <2>1, <2>3, FreeOnDisk DEF IInv
  <2>5. TypeOK /\ SoundDirectory
    BY AllSucceed DEF IInv
  <2> QED BY <1>1, <2>2, <2>3, <2>4, <2>5, EntryStepShown
<1> QED BY <1>2, <1>3 DEF NewFile

LEMMA NewFolderShown ==
  ASSUME MaxFailures = 0, IInv, NEW d \in Drives, NewFolder(d)
  PROVE  FS!Next \/ Files' = Files
<1>1. UNCHANGED <<clean, data>>
  BY DEF NewFolder
<1>2. CASE UNCHANGED dir
  BY <1>1, <1>2, SameShown DEF Shown
<1>3. CASE \E r, w \in Bit, i \in Slots, n \in Bit :
             /\ IsFreeSlot(Loaded(d, "edit", r), i)
             /\ PutEntry(d, "edit", r, w, i, [FolderEntry EXCEPT !.named = n])
  <2>1. PICK r \in Bit, w \in Bit, i \in Slots, n \in Bit :
             /\ IsFreeSlot(Loaded(d, "edit", r), i)
             /\ PutEntry(d, "edit", r, w, i, [FolderEntry EXCEPT !.named = n])
    BY <1>3
  <2> DEFINE e == [FolderEntry EXCEPT !.named = n]
  <2>2. e \in Entry /\ Sound(e, i) /\ PutEntry(d, "edit", r, w, i, e)
    BY <2>1, EntryFacts, SoundEdits
  <2> HIDE DEF e
  <2>3. r = 1 /\ OneEntry(d, i, e)
    BY <2>2, PutEntrySucceeds DEF Buffers
  <2>4. i \in OnDisk => dir[d][i].type = 0
    BY <2>1, <2>3, FreeOnDisk DEF IInv
  <2>5. TypeOK /\ SoundDirectory
    BY AllSucceed DEF IInv
  <2> QED BY <1>1, <2>2, <2>3, <2>4, <2>5, EntryStepShown
<1> QED BY <1>2, <1>3 DEF NewFolder

LEMMA EditShown ==
  ASSUME MaxFailures = 0, IInv, NEW d \in Drives, NEW i \in Slots,
         Delete(d, i) \/ Rename(d, i) \/ Recover(d, i)
  PROVE  FS!Next \/ Files' = Files
<1>1. TypeOK /\ SoundDirectory /\ UNCHANGED <<clean, data>>
  BY AllSucceed DEF IInv, Delete, Rename, Recover
<1>2. CASE Delete(d, i)
  <2>1. PICK r \in Bit, w \in Bit :
          PutEntry(d, "edit", r, w, i, Deleted(Loaded(d, "edit", r)[i]))
    BY <1>2 DEF Delete
  <2> DEFINE old == Loaded(d, "edit", r)[i]
  <2>2. old \in Entry /\ (r = 1 /\ i \in OnDisk => old = dir[d][i])
    BY <1>1, EditedEntry DEF Buffers
  <2>3. /\ Deleted(old) \in Entry /\ Deleted(old).type = 0
        /\ Sound(old, i) => Sound(Deleted(old), i)
        /\ PutEntry(d, "edit", r, w, i, Deleted(old))
    BY <2>1, <2>2, EntryFacts, SoundEdits DEF Deleted, Entry
  <2> HIDE DEF old
  <2>4. r = 1 /\ OneEntry(d, i, Deleted(old))
    BY <2>3, PutEntrySucceeds DEF Buffers
  <2> QED BY <1>1, <2>2, <2>3, <2>4, EntryStepShown
<1>3. CASE Rename(d, i)
  <2>1. PICK r \in Bit, w \in Bit, n \in Bit :
          PutEntry(d, "edit", r, w, i, Renamed(Loaded(d, "edit", r)[i], n))
    BY <1>3 DEF Rename
  <2> DEFINE old == Loaded(d, "edit", r)[i]
  <2>2. old \in Entry /\ (r = 1 /\ i \in OnDisk => old = dir[d][i])
    BY <1>1, EditedEntry DEF Buffers
  <2>3. /\ Renamed(old, n) \in Entry
        /\ Renamed(old, n).type = old.type /\ Renamed(old, n).lba = old.lba
        /\ Sound(old, i) => Sound(Renamed(old, n), i)
        /\ PutEntry(d, "edit", r, w, i, Renamed(old, n))
    BY <2>1, <2>2, EntryFacts, SoundEdits DEF Renamed, Entry
  <2> HIDE DEF old
  <2>4. r = 1 /\ OneEntry(d, i, Renamed(old, n))
    BY <2>3, PutEntrySucceeds DEF Buffers
  <2> QED BY <1>1, <2>2, <2>3, <2>4, EntryStepShown
<1>4. CASE Recover(d, i)
  <2>1. PICK r \in Bit, w \in Bit :
          /\ Loaded(d, "ghost", r)[i].type = 0
          /\ PutEntry(d, "ghost", r, w, i, Recovered(Loaded(d, "ghost", r)[i]))
    BY <1>4 DEF Recover
  <2> DEFINE old == Loaded(d, "ghost", r)[i]
  <2>2. /\ old \in Entry /\ old.type = 0
        /\ r = 1 /\ i \in OnDisk => old = dir[d][i]
    BY <1>1, <2>1, EditedEntry DEF Buffers
  <2>3. /\ Recovered(old) \in Entry
        /\ Sound(old, i) => Sound(Recovered(old), i)
        /\ PutEntry(d, "ghost", r, w, i, Recovered(old))
    BY <2>1, <2>2, EntryFacts, SoundEdits
  <2> HIDE DEF old
  <2>4. r = 1 /\ OneEntry(d, i, Recovered(old))
    BY <2>3, PutEntrySucceeds DEF Buffers
  <2> QED BY <1>1, <2>2, <2>3, <2>4, EntryStepShown
<1> QED BY <1>2, <1>3, <1>4

(* The data sector of a free slot is invisible.                            *)
LEMMA WriteDataShown ==
  ASSUME MaxFailures = 0, IInv, WriteData
  PROVE  FS!Next \/ Files' = Files
<1> DEFINE d == job.drive
           i == job.slot
<1>1. PICK w \in Bit : /\ data' = DataWritten(d, DataSector(i), job.text, w)
                       /\ Fails(1 - w)
  BY DEF WriteData
<1>2. /\ d \in Drives /\ i \in Slots /\ job.text \in Texts
      /\ DataSector(i) \in Sectors
  BY SlotFacts DEF IInv, TypeOK, Job
<1>3. OneText(d, DataSector(i), job.text)
  BY <1>1, <1>2, AllSucceed, DataWrittenFacts DEF IInv
<1>4. /\ bufs["edit"][i].type = 0
      /\ \A j \in OnDisk : bufs["edit"][j] = dir[d][j]
  BY AllSucceed DEF WriteData, JobKnowsSector
<1>5. UNCHANGED <<clean, dir>>
  BY DEF WriteData
<1> HIDE DEF d, i
<1>6. ASSUME NEW c \in Drives, NEW j \in OnDisk
      PROVE  Shown(c, j)' = Shown(c, j)
  <2>1. j \in Slots /\ DataSector(j) \in Sectors
    BY SlotFacts
  <2>2. CASE clean[c] = 1 /\ dir[c][j].type = 1
    <3>1. dir[c][j].lba = DataSector(j)
      BY <2>2, AllSucceed, OwnSector DEF IsFile
    <3>2. ~ (c = d /\ j = i)
      BY <1>4, <2>2
    <3>3. c = d => DataSector(j) # DataSector(i)
      BY <1>2, <2>1, <3>2, SlotFacts
    <3>4. data'[c][DataSector(j)] = data[c][DataSector(j)]
      BY <1>3, <2>1, <3>3 DEF OneText
    <3> QED BY <1>5, <3>1, <3>4 DEF Shown, Free, Folder
  <2>3. CASE clean[c] # 1 \/ dir[c][j].type # 1
    <3>1. clean[c] = 0 \/ dir[c][j].type = 0 \/ dir[c][j].type = 2
      BY <2>3 DEF IInv, TypeOK, Bit, Entry
    <3> QED BY <1>5, <3>1 DEF Shown, Free, Folder
  <2> QED BY <2>2, <2>3
<1> QED BY <1>6, SameShown

LEMMA WriteEntryShown ==
  ASSUME MaxFailures = 0, IInv, WriteEntry
  PROVE  FS!Next \/ Files' = Files
<1> DEFINE d == job.drive
           i == job.slot
           e == [type |-> 1, named |-> 1, lba |-> DataSector(i)]
           es == [bufs["edit"] EXCEPT ![i] = e]
<1>1. PICK w \in Bit : dir' = DirWritten(d, es, w) /\ Fails(1 - w)
  BY DEF WriteEntry
<1>2. d \in Drives /\ i \in Slots /\ UNCHANGED <<clean, data>>
  BY DEF IInv, TypeOK, Job, WriteEntry
<1>3. e \in Entry /\ Sound(e, i)
  BY <1>2, SlotFacts DEF Entry, Bit, Sound
<1>4. es \in [Slots -> Entry]
  BY <1>2, <1>3 DEF IInv, TypeOK, Buffers
<1>5. /\ bufs["edit"][i].type = 0
      /\ \A j \in OnDisk : bufs["edit"][j] = dir[d][j]
  BY AllSucceed DEF WriteEntry, JobKnowsSector
<1>6. \A j \in OnDisk : es[j] = IF j = i THEN e ELSE dir[d][j]
  BY <1>2, <1>5, SlotFacts DEF IInv, TypeOK, Buffers
<1> HIDE DEF es, e, d, i
<1>7. w = 1 /\ TypeOK /\ SoundDirectory
  BY <1>1, AllSucceed DEF IInv
<1>8. OneEntry(d, i, e)
  BY <1>1, <1>2, <1>4, <1>6, <1>7, DirWrittenFacts DEF OneEntry
<1>9. i \in OnDisk => dir[d][i].type = 0
  BY <1>5
<1> QED BY <1>2, <1>3, <1>7, <1>8, <1>9, EntryStepShown

LEMMA SaveShown ==
  ASSUME MaxFailures = 0, IInv, NEW d \in Drives, NEW x \in Sectors, Save(d, x)
  PROVE  FS!Next \/ Files' = Files
<1> DEFINE t == texts + 1
<1>1. PICK w \in Bit : data' = DataWritten(d, x, t, w) /\ Fails(1 - w)
  BY DEF Save
<1>2. UNCHANGED <<clean, dir>>
  BY DEF Save
<1>3. t \in Texts
  BY CfsConstants DEF Save, NewText, Texts, IInv, TypeOK
<1> HIDE DEF t
<1>4. OneText(d, x, t)
  BY <1>1, <1>3, AllSucceed, DataWrittenFacts DEF IInv
<1>5. ASSUME NEW c \in Drives, NEW j \in OnDisk
      PROVE  Shown(c, j)' = IF c = d /\ j + 1 = x /\ clean[c] = 1
                               /\ dir[c][j].type = 1
                            THEN t ELSE Shown(c, j)
  <2>1. j \in Slots /\ DataSector(j) \in Sectors /\ DataSector(j) = j + 1
    BY SlotFacts DEF DataSector
  <2>2. CASE clean[c] = 1 /\ dir[c][j].type = 1
    <3>1. dir[c][j].lba = DataSector(j)
      BY <2>2, AllSucceed, OwnSector DEF IsFile
    <3>2. data'[c][DataSector(j)] = IF c = d /\ j + 1 = x THEN t
                                    ELSE data[c][DataSector(j)]
      BY <1>4, <2>1 DEF OneText
    <3> QED BY <1>2, <2>2, <3>1, <3>2 DEF Shown, Free, Folder
  <2>3. CASE clean[c] # 1 \/ dir[c][j].type # 1
    <3>1. clean[c] = 0 \/ dir[c][j].type = 0 \/ dir[c][j].type = 2
      BY <2>3 DEF IInv, TypeOK, Bit, Entry
    <3> QED BY <1>2, <2>3, <3>1 DEF Shown, Free, Folder
  <2> QED BY <2>2, <2>3
<1>6. CASE x - 1 \in OnDisk /\ clean[d] = 1 /\ dir[d][x - 1].type = 1
  <2> DEFINE i == x - 1
  <2>1. i \in OnDisk /\ i + 1 = x
    BY <1>6 DEF Sectors
  <2>2. \A c \in Drives, j \in OnDisk :
          Shown(c, j)' = IF c = d /\ j = i THEN t ELSE Shown(c, j)
    BY <1>5, <1>6, <2>1 DEF OnDisk
  <2>3. Shown(d, i) \notin {Free, Folder}
    <3>1. Sound(dir[d][i], i) /\ dir[d][i] \in Entry
      BY <1>6, AllSucceed DEF SoundDirectory, IInv, TypeOK
    <3>2. EntryShows(d, dir[d][i]) \in Texts
      BY <1>6, <2>1, <3>1, FileShowsText DEF IInv
    <3>3. Shown(d, i) = EntryShows(d, dir[d][i])
      BY <1>6 DEF Shown, EntryShows
    <3> QED BY <3>2, <3>3 DEF Texts, Free, Folder
  <2> HIDE DEF i
  <2> QED BY <1>3, <2>1, <2>2, <2>3, OneShown
<1>7. CASE ~ (x - 1 \in OnDisk /\ clean[d] = 1 /\ dir[d][x - 1].type = 1)
  <2>1. \A c \in Drives, j \in OnDisk : Shown(c, j)' = Shown(c, j)
    BY <1>5, <1>7 DEF OnDisk
  <2> QED BY <2>1, SameShown
<1> QED BY <1>6, <1>7

(* A format works on a drive that is not clean, and leaves it blank.       *)
LEMMA FormatShown ==
  ASSUME MaxFailures = 0, IInv, LInv, NEW d \in Drives, Format(d)
  PROVE  Files' = Files
<1>1. clean[d] = 0
  BY AllSucceed DEF LInv, FormatIsProtected, Format, IInv, TypeOK, Bit
<1>2. \A c \in Drives : clean'[c] = clean[c]
  BY <1>1 DEF Format, IInv, TypeOK
<1> QED BY <1>2, SameShown DEF Format, Shown, Free, Folder

LEMMA ClearShown ==
  ASSUME MaxFailures = 0, IInv, LInv, ClearDirectory
  PROVE  Files' = Files
<1>1. PICK d \in Drives : d = job.drive /\ clean[d] = 0
  BY DEF IInv, TypeOK, Job, LInv, ClearDirectory
<1>2. PICK w \in Bit :
        /\ dir' = IF w = 1 THEN [dir EXCEPT ![d] = Blank] ELSE dir
        /\ clean' = IF w = 1 THEN [clean EXCEPT ![d] = signature[d]] ELSE clean
        /\ Fails(1 - w)
  BY <1>1 DEF ClearDirectory
<1>3. w = 1 /\ data' = data
  BY <1>2, AllSucceed DEF ClearDirectory
<1>4. \A c \in Drives : c # d => clean'[c] = clean[c] /\ dir'[c] = dir[c]
  BY <1>2, <1>3 DEF IInv, TypeOK
<1>5. \A j \in OnDisk : dir'[d][j] = NoEntry
  BY <1>1, <1>2, <1>3 DEF IInv, TypeOK, Blank
<1>6. \A j \in OnDisk : Shown(d, j)' = Shown(d, j)
  BY <1>1, <1>5 DEF Shown, NoEntry, Free
<1>7. \A c \in Drives, j \in OnDisk : Shown(c, j)' = Shown(c, j)
  BY <1>3, <1>4, <1>6 DEF Shown, Free, Folder
<1> QED BY <1>7, SameShown

LEMMA InitShown == Init => FS!Init
<1> SUFFICES ASSUME Init PROVE FS!Init
  OBVIOUS
<1>1. \A d \in Drives, i \in OnDisk : Shown(d, i) = Free
  BY DEF Init, Shown
<1> QED BY <1>1, FilesAre DEF Files

LEMMA StepShown ==
  ASSUME MaxFailures = 0, IInv, LInv, [Next]_cfsVars
  PROVE  FS!Next \/ Files' = Files
<1>1. ASSUME NEW d \in Drives, NewFile(d) \/ NewFolder(d) \/ Format(d)
      PROVE  FS!Next \/ Files' = Files
  BY <1>1, NewFileShown, NewFolderShown, FormatShown
<1>2. ASSUME NEW d \in Drives, SaveAs(d) \/ CopyToCfs(d) \/ Look(d)
      PROVE  Files' = Files
  <2>1. UNCHANGED <<clean, dir, data>>
    BY <1>2 DEF SaveAs, CopyToCfs, Look
  <2> QED BY <2>1, SameShown DEF Shown
<1>3. ASSUME NEW d \in Drives, NEW i \in Slots,
             Delete(d, i) \/ Rename(d, i) \/ Recover(d, i)
      PROVE  FS!Next \/ Files' = Files
  BY <1>3, EditShown
<1>4. ASSUME NEW d \in Drives, NEW x \in Sectors, Save(d, x)
      PROVE  FS!Next \/ Files' = Files
  BY <1>4, SaveShown
<1>5. CASE WriteData \/ WriteEntry
  BY <1>5, WriteDataShown, WriteEntryShown
<1>6. CASE ClearDirectory
  BY <1>6, ClearShown
<1>7. CASE Mount \/ PowerLoss \/ UNCHANGED cfsVars
  <2>1. UNCHANGED <<clean, dir, data>>
    BY <1>7 DEF Mount, PowerLoss, cfsVars
  <2> QED BY <2>1, SameShown DEF Shown
<1> QED BY <1>1, <1>2, <1>3, <1>4, <1>5, <1>6, <1>7 DEF Next

(* When no transfer fails, the clean drives implement the file store,      *)
(* whenever power is lost.                                                 *)
THEOREM StoreIsImplemented == MaxFailures = 0 => (Spec => ImplementsFileStore)
<1> SUFFICES ASSUME MaxFailures = 0 PROVE Spec => ImplementsFileStore
  OBVIOUS
<1>1. Init => FS!Init
  BY InitShown
<1>2. IInv /\ LInv /\ [Next]_cfsVars => [FS!Next]_Files
  BY StepShown
<1>3. Init => LInv
  BY LabelsInitially
<1>4. IInv /\ LInv /\ [Next]_cfsVars => LInv'
  BY LabelsPreserved DEF IInv
<1>5. Spec => [][FS!Next]_Files
  BY <1>2, <1>3, <1>4, Invariance, PTL DEF Spec
<1>6. Spec => FS!Init
  BY <1>1 DEF Spec
<1> QED BY <1>5, <1>6, PTL DEF ImplementsFileStore, FS!Spec, Files
=============================================================================
