---------------------------- MODULE CfsDirectory ----------------------------
(***************************************************************************)
(* The CFS directory as the windows of the 32-bit kernel keep it           *)
(* (kernel.cpp): one directory sector (LBA 1002), one data sector per slot *)
(* (LBA 4000 + slot), and RAM buffers through which every operation reads, *)
(* edits and writes back the directory.  The code scans TableSlots entries *)
(* of a buffer although only SectorSlots of them come from the sector.     *)
(*                                                                         *)
(* A click runs to its end before the next one, so what can happen between *)
(* the sector writes of an operation is the loss of power; and a transfer  *)
(* may fail, which no caller looks at.  Which slot or sector a click names *)
(* comes from file_table and is any slot or sector here.                   *)
(***************************************************************************)
EXTENDS Integers

CONSTANTS Drives,        \* AHCI port numbers
          SectorSlots,   \* directory entries in one sector: 512 / 64
          TableSlots,    \* entries the code scans, and slots of file_table
          MaxTexts,      \* bound on the texts written
          MaxFailures    \* bound on the failed transfers

ASSUME CfsConstants == /\ Drives \subseteq Nat /\ Drives # {}
                       /\ SectorSlots \in Nat \ {0}
                       /\ TableSlots \in Nat
                       /\ SectorSlots <= TableSlots
                       /\ MaxTexts \in Nat
                       /\ MaxFailures \in Nat

VARIABLES
  signature,  \* disk: sector 0 carries the CFS signature
  dir,        \* disk: the directory sector
  data,       \* disk: the data sectors
  clean,      \* ghost: the drive was formatted, and the format ran to its end
  label,      \* RAM: drives[].model names CFS
  bufs,       \* RAM: the directory buffers
  job,        \* the operation in progress, between two of its sector writes
  texts,      \* number of texts written so far; also names the latest
  failures,   \* transfers that failed so far
  told        \* ghost: the text the user was last told to be saved in a slot

cfsVars == <<signature, dir, data, clean, label, bufs, job, texts, failures,
             told>>

-----------------------------------------------------------------------------
Slots == 0 .. TableSlots - 1
OnDisk == 0 .. SectorSlots - 1
Bit == {0, 1}

(* Texts are told apart by the click that wrote them; 0 is what a sector   *)
(* held before, and in told: nothing.                                      *)
Texts == 0 .. MaxTexts

(* Mutants: the slot is not added; one too many is added.                  *)
OneSector(i) == 1
NextSector(i) == i + 2

(* LBA 4000 + i is sector i + 1 here; 0 is the code's "no sector".         *)
Sectors == 1 .. TableSlots
DataSector(i) == i + 1

(* type: 0 empty or deleted, 1 file, 2 folder.  named: the name is not     *)
(* empty, which makes a deleted entry recoverable.                          *)
Entry == [type : 0 .. 2, named : Bit, lba : 0 .. TableSlots]
NoEntry == [type |-> 0, named |-> 0, lba |-> 0]
Blank == [i \in OnDisk |-> NoEntry]

(* Something that is no CFS directory, as the code would read it: every    *)
(* entry is taken, and claims the same sector.                             *)
Junk == [i \in OnDisk |-> [type |-> 1, named |-> 1, lba |-> 1]]

(* 0x07000000, shared by all operations and drives, and 0x08000000, used   *)
(* by the undelete view only.                                              *)
Buffers == {"edit", "ghost"}

Job == [pc : {"idle", "data", "entry", "clear"}, drive : Drives,
        slot : Slots, text : Texts, says : Bit]
Idle == [pc |-> "idle", drive |-> CHOOSE d \in Drives : TRUE, slot |-> 0,
         text |-> 0, says |-> 0]

-----------------------------------------------------------------------------
(* A transfer succeeds (1) or leaves its target as it was (0).             *)

Fails(n) == failures + n <= MaxFailures /\ failures' = failures + n

(* Mutant: the buffer is trusted instead of reading the sector.            *)
NotReloaded(d, b, r) == bufs[b]

(* ahci_read_sectors(port, 1002, 1, buffer)                                *)
Loaded(d, b, r) ==
  [i \in Slots |-> IF r = 1 /\ i \in OnDisk THEN dir[d][i] ELSE bufs[b][i]]

(* ahci_write_sectors(port, 1002, 1, buffer)                               *)
DirWritten(d, es, w) ==
  IF w = 1 THEN [dir EXCEPT ![d] = [i \in OnDisk |-> es[i]]] ELSE dir

(* ahci_write_sectors(port, 4000 + slot, 1, text)                          *)
DataWritten(d, x, t, w) == IF w = 1 THEN [data EXCEPT ![d][x] = t] ELSE data

(* Mutant: the first slot that holds no file.                              *)
IsFirstNonFile(es, i) ==
  /\ i \in Slots /\ es[i].type # 1
  /\ \A j \in Slots : j < i => es[j].type = 1

(* The first slot whose type is 0.                                         *)
IsFreeSlot(es, i) ==
  /\ i \in Slots /\ es[i].type = 0
  /\ \A j \in Slots : j < i => es[j].type # 0
IsFull(es) == \A i \in Slots : es[i].type # 0

(* Read, change entry i to e, write back.                                  *)
PutEntry(d, b, r, w, i, e) ==
  LET es == [Loaded(d, b, r) EXCEPT ![i] = e]
  IN  /\ bufs' = [bufs EXCEPT ![b] = es]
      /\ dir' = DirWritten(d, es, w)
      /\ Fails((1 - r) + (1 - w))

(* The directory was read, and has no free slot.                           *)
FoundFull(d) ==
  \E r \in Bit :
    /\ IsFull(Loaded(d, "edit", r))
    /\ bufs' = [bufs EXCEPT !["edit"] = Loaded(d, "edit", r)]
    /\ Fails(1 - r)

-----------------------------------------------------------------------------
Init ==
  /\ signature = [d \in Drives |-> 0]
  /\ dir \in [Drives -> {Blank, Junk}]
  /\ data = [d \in Drives |-> [x \in Sectors |-> 0]]
  /\ clean = [d \in Drives |-> 0]
  /\ label = [d \in Drives |-> 0]
  /\ bufs = [b \in Buffers |-> [i \in Slots |-> NoEntry]]
  /\ job = Idle
  /\ texts = 0
  /\ failures = 0
  /\ told = [d \in Drives |-> [i \in Slots |-> 0]]

(* Buttons + FILE and + DIR of the root view, drives labelled CFS only;    *)
(* NEW FOLDER of the Save-As dialog, any drive.                            *)
NewFileEntry(i) == [type |-> 1, named |-> 1, lba |-> DataSector(i)]
FolderEntry == [type |-> 2, named |-> 1, lba |-> 0]

NewFile(d) ==
  /\ job = Idle /\ label[d] = 1
  /\ \/ FoundFull(d) /\ UNCHANGED dir
     \/ \E r, w \in Bit, i \in Slots :
          /\ IsFreeSlot(Loaded(d, "edit", r), i)
          /\ PutEntry(d, "edit", r, w, i, NewFileEntry(i))
  /\ UNCHANGED <<signature, data, clean, label, job, texts, told>>

(* The name of the dialog's folder may be empty.                           *)
NewFolder(d) ==
  /\ job = Idle
  /\ \/ FoundFull(d) /\ UNCHANGED dir
     \/ \E r, w \in Bit, i \in Slots, n \in Bit :
          /\ IsFreeSlot(Loaded(d, "edit", r), i)
          /\ PutEntry(d, "edit", r, w, i, [FolderEntry EXCEPT !.named = n])
  /\ UNCHANGED <<signature, data, clean, label, job, texts, told>>

(* A click on the drive of the Save-As dialog reads the next drive's       *)
(* directory, for the list of folders.                                     *)
Look(d) ==
  /\ job = Idle
  /\ \E r \in Bit :
       /\ bufs' = [bufs EXCEPT !["edit"] = Loaded(d, "edit", r)]
       /\ Fails(1 - r)
  /\ UNCHANGED <<signature, dir, data, clean, label, job, texts, told>>

(* DEL: the type is zeroed, name and sector stay.                          *)
Deleted(e) == [e EXCEPT !.type = 0]

Delete(d, i) ==
  /\ job = Idle /\ label[d] = 1
  /\ \E r, w \in Bit :
       PutEntry(d, "edit", r, w, i, Deleted(Loaded(d, "edit", r)[i]))
  /\ told' = [told EXCEPT ![d][i] = 0]
  /\ UNCHANGED <<signature, data, clean, label, job, texts>>

(* SAVE in the rename overlay; the drive is the one active by then.        *)
Renamed(e, n) == [e EXCEPT !.named = n]

Rename(d, i) ==
  /\ job = Idle
  /\ \E r, w, n \in Bit :
       PutEntry(d, "edit", r, w, i, Renamed(Loaded(d, "edit", r)[i], n))
  /\ UNCHANGED <<signature, data, clean, label, job, texts, told>>

(* RECOVER in the undelete view, on any drive.                             *)
Recovered(e) == [e EXCEPT !.type = IF e.lba > 0 THEN 1 ELSE 2]

Recover(d, i) ==
  /\ job = Idle
  /\ \E r, w \in Bit :
       LET e == Loaded(d, "ghost", r)[i]
       IN  /\ e.type = 0 /\ e.named = 1
           /\ PutEntry(d, "ghost", r, w, i, Recovered(e))
  /\ UNCHANGED <<signature, data, clean, label, job, texts, told>>

-----------------------------------------------------------------------------
(* Operations that write more than one sector                              *)

NewText == texts < MaxTexts /\ texts' = texts + 1

(* Read the directory and find a slot, or report that it is full.          *)
StartWriting(d, says) ==
  \/ FoundFull(d) /\ UNCHANGED <<job, texts>>
  \/ \E r \in Bit, i \in Slots :
       /\ IsFreeSlot(Loaded(d, "edit", r), i)
       /\ bufs' = [bufs EXCEPT !["edit"] = Loaded(d, "edit", r)]
       /\ Fails(1 - r)
       /\ NewText
       /\ job' = [pc |-> "data", drive |-> d, slot |-> i,
                  text |-> texts + 1, says |-> says]

(* SAVE in the Save-As dialog, any drive; success is announced.            *)
SaveAs(d) ==
  /\ job = Idle
  /\ StartWriting(d, 1)
  /\ UNCHANGED <<signature, dir, data, clean, label, told>>

(* COPY TO CFS from a drive of another kind to the CFS drive the search    *)
(* ends with.  Port 0 doubles as "none found".  One sector is copied.      *)
CopyToCfs(d) ==
  /\ job = Idle
  /\ \E s \in Drives : label[s] = 0
  /\ label[d] = 1 /\ d # 0
  /\ \A e \in Drives : label[e] = 1 => e <= d
  /\ StartWriting(d, 0)
  /\ UNCHANGED <<signature, dir, data, clean, label, told>>

WriteData ==
  /\ job.pc = "data"
  /\ \E w \in Bit :
       /\ data' = DataWritten(job.drive, DataSector(job.slot), job.text, w)
       /\ Fails(1 - w)
  /\ job' = [job EXCEPT !.pc = "entry"]
  /\ UNCHANGED <<signature, dir, clean, label, bufs, texts, told>>

(* The last write; afterwards Save As says "CFS: SAVED VIA DMA!".          *)
WriteEntry ==
  LET i  == job.slot
      es == [bufs["edit"] EXCEPT ![i] =
               [type |-> 1, named |-> 1, lba |-> DataSector(i)]]
  IN  /\ job.pc = "entry"
      /\ bufs' = [bufs EXCEPT !["edit"] = es]
      /\ \E w \in Bit : dir' = DirWritten(job.drive, es, w) /\ Fails(1 - w)
      /\ told' = IF job.says = 1 THEN [told EXCEPT ![job.drive][i] = job.text]
                 ELSE told
      /\ job' = Idle
      /\ UNCHANGED <<signature, data, clean, label, texts>>

(* SAVE in the notepad overwrites one sector and says "FILE SAVED TO SSD!".*)
(* The promise is about the file that the directory has there, if any.     *)
Save(d, x) ==
  /\ job = Idle
  /\ NewText
  /\ \E w \in Bit : data' = DataWritten(d, x, texts + 1, w) /\ Fails(1 - w)
  /\ told' = IF x - 1 \in OnDisk /\ dir[d][x - 1].type = 1
             THEN [told EXCEPT ![d][x - 1] = texts + 1] ELSE told
  /\ UNCHANGED <<signature, dir, clean, label, bufs, job>>

(* FORMAT CFS, unless the label says that the drive is CFS already: the    *)
(* signature first, then the directory.                                    *)
Format(d) ==
  /\ job = Idle /\ label[d] = 0
  /\ \E w \in Bit :
       /\ signature' = IF w = 1 THEN [signature EXCEPT ![d] = 1] ELSE signature
       /\ Fails(1 - w)
  /\ clean' = [clean EXCEPT ![d] = 0]
  /\ told' = [told EXCEPT ![d] = [i \in Slots |-> 0]]
  /\ job' = [Idle EXCEPT !.pc = "clear", !.drive = d]
  /\ UNCHANGED <<dir, data, label, bufs, texts>>

ClearDirectory ==
  LET d == job.drive
  IN  /\ job.pc = "clear"
      /\ \E w \in Bit :
           /\ dir' = IF w = 1 THEN [dir EXCEPT ![d] = Blank] ELSE dir
           /\ clean' = IF w = 1 THEN [clean EXCEPT ![d] = signature[d]]
                       ELSE clean
           /\ Fails(1 - w)
      /\ label' = [label EXCEPT ![d] = 1]
      /\ job' = Idle
      /\ UNCHANGED <<signature, data, bufs, texts, told>>

-----------------------------------------------------------------------------
(* ahci_mount_drive: sector 0 of every drive is read; a drive whose read   *)
(* fails is listed without a label.                                        *)
Mounted(rs) == [d \in Drives |-> IF rs[d] = 1 THEN signature[d] ELSE 0]
MountAll == \E bad \in {{}} \cup {{d} : d \in Drives} :
              /\ label' = Mounted([d \in Drives |-> IF d \in bad THEN 0 ELSE 1])
              /\ Fails(IF bad = {} THEN 0 ELSE 1)

Mount ==
  /\ job = Idle
  /\ MountAll
  /\ UNCHANGED <<signature, dir, data, clean, bufs, job, texts, told>>

(* Power is lost, at any point, and comes back.  RAM then reads as zero.   *)
PowerLoss ==
  /\ job' = Idle
  /\ bufs' = [b \in Buffers |-> [i \in Slots |-> NoEntry]]
  /\ MountAll
  /\ UNCHANGED <<signature, dir, data, clean, texts, told>>

Next ==
  \/ \E d \in Drives :
       \/ NewFile(d) \/ NewFolder(d) \/ SaveAs(d) \/ CopyToCfs(d) \/ Format(d)
       \/ Look(d)
       \/ \E i \in Slots : Delete(d, i) \/ Rename(d, i) \/ Recover(d, i)
       \/ \E x \in Sectors : Save(d, x)
  \/ WriteData \/ WriteEntry \/ ClearDirectory \/ Mount \/ PowerLoss

Spec == Init /\ [][Next]_cfsVars

-----------------------------------------------------------------------------
(* Properties *)

(* The type of every variable.                                             *)
TypeOK ==
  /\ signature \in [Drives -> Bit]
  /\ dir \in [Drives -> [OnDisk -> Entry]]
  /\ data \in [Drives -> [Sectors -> Texts]]
  /\ clean \in [Drives -> Bit]
  /\ label \in [Drives -> Bit]
  /\ bufs \in [Buffers -> [Slots -> Entry]]
  /\ job \in Job
  /\ texts \in Texts
  /\ failures \in 0 .. MaxFailures
  /\ told \in [Drives -> [Slots -> Texts]]

IsFile(d, i) == dir[d][i].type = 1

(* The code picks data sectors by slot number and keeps no allocation map: *)
(* on a drive whose format was completed, two files nevertheless never     *)
(* share a sector, whatever is deleted, recovered, renamed or copied in    *)
(* between, also across power losses, as long as no transfer failed.       *)
NoSharedSector ==
  failures = 0 =>
    \A d \in Drives : clean[d] = 1 =>
      \A i, j \in OnDisk : IsFile(d, i) /\ IsFile(d, j) /\ i # j
                             => dir[d][i].lba # dir[d][j].lba

Holds(d, i, t) == IsFile(d, i) /\ dir[d][i].lba # 0
                    /\ data[d][dir[d][i].lba] = t

(* What the user was told to be saved in a slot of the directory sector is *)
(* what a later reader finds there, until the user deletes the file: no    *)
(* other click, and no power loss, takes the slot or the sector away.      *)
SavedTextIsKept ==
  failures = 0 =>
    \A d \in Drives : clean[d] = 1 =>
      \A i \in OnDisk : told[d][i] # 0 => Holds(d, i, told[d][i])

(* Clean drives implement the abstract file store; a text becomes visible  *)
(* with the directory write, never half way.                               *)
Free == -1
Folder == -2
Shown(d, i) == IF clean[d] = 0 \/ dir[d][i].type = 0 THEN Free
               ELSE IF dir[d][i].type = 2 THEN Folder
               ELSE data[d][dir[d][i].lba]

FS == INSTANCE FileStore WITH
        FileSlots <- OnDisk, Free <- Free, Folder <- Folder,
        files <- [d \in Drives |-> [i \in OnDisk |-> Shown(d, i)]]

ImplementsFileStore == FS!Spec

(* "Inhaltsverzeichnis aktualisieren und auf SSD brennen" precedes the     *)
(* message that the text is saved: it then has a directory entry on disk.  *)
SavedFileIsListed ==
  failures = 0 /\ job = Idle =>
    \A d \in Drives, i \in Slots :
      clean[d] = 1 /\ told[d][i] # 0 => i \in OnDisk /\ IsFile(d, i)

(* The FORMAT button comes "with protection": it is locked for a drive     *)
(* that is "already CFS", so that a finished CFS directory is not cleared. *)
FormatIsProtected ==
  \A d \in Drives : clean[d] = 1 => label[d] = 1

(* A drive that carries the CFS label, on which the buttons work and on    *)
(* which FORMAT is locked, has a directory that a format has cleared.      *)
LabelMeansCleared ==
  \A d \in Drives : label[d] = 1 => clean[d] = 1
=============================================================================
