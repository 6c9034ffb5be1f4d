---------------------------- MODULE Os2DiskProofs -----------------------------
(***************************************************************************)
(* Theorems about the disk manager and notepad of OS2, for any number of   *)
(* drives, entries, sectors per copy, clicks and failures.                 *)
(***************************************************************************)
EXTENDS Os2Disk, TLAPS

Dirs == [Index -> Entries]
Uis == [selected : Drives \cup {None}, port : Drives, mounted : BOOLEAN,
        opened : BOOLEAN, folder : Index \cup {Root}, ntfs : BOOLEAN]
Tables == [Index -> Rows]
Rams == [0 .. CopySectors - 1 -> 0 .. MaxTexts]
Notes == [text : 0 .. MaxTexts, lba : Sectors \cup {None}]
Clips == [active : BOOLEAN, folder : BOOLEAN, bin : BOOLEAN]

-----------------------------------------------------------------------------
(* Where things lie on the disk                                            *)

LEMMA SizeFacts ==
  /\ DirSlots \in Nat /\ DirSlots > 0 /\ CopySectors \in Nat /\ CopySectors > 0
  /\ DirSlots * CopySectors \in Nat /\ DirSlots * CopySectors >= DirSlots
<1>1. DirSlots \in Nat /\ DirSlots > 0 /\ CopySectors \in Nat /\ CopySectors > 0
  BY Os2Constants
<1>2. \A a, b \in Nat : b > 0 => a * b \in Nat /\ a * b >= a
  OBVIOUS
<1> QED BY <1>1, <1>2

LEMMA CopiesFit ==
  ASSUME NEW s \in Index
  PROVE  /\ PasteLba(s) \in Nat /\ PasteLba(s) >= s
         /\ PasteLba(s) + CopySectors <= AppLba
<1>1. s \in Nat /\ s + 1 <= DirSlots
  BY SizeFacts DEF Index
<1>2. \A a, b, c \in Nat : c > 0 /\ a + 1 <= b =>
        a * c \in Nat /\ a * c >= a /\ a * c + c <= b * c
  OBVIOUS
<1> QED BY <1>1, <1>2, SizeFacts DEF PasteLba, AppLba

LEMMA PlaceFacts ==
  /\ Index \subseteq Sectors /\ 0 \in Sectors /\ AppLba \in Sectors
  /\ Scratch \in Sectors /\ Record \in Sectors
  /\ \A s \in Index : SaveLba(s) \in Sectors /\ PasteLba(s) \in Sectors
  /\ Scratch \notin Index /\ None \notin Index
BY SizeFacts, CopiesFit DEF Index, Sectors, AppLba, Scratch, Record, SaveLba, None

-----------------------------------------------------------------------------
(* Records and updates                                                     *)

LEMMA Types ==
  Os2TypeOK <=>
    /\ disk \in [Drives -> Disks] /\ ui \in Uis /\ cfs_files \in Tables
    /\ clip \in Clips /\ ram \in Rams /\ note \in Notes
    /\ save_step \in {"closed", "ask", "file", "folder"}
    /\ buf_dir \in Dirs /\ failures \in Nat /\ misread \in BOOLEAN
    /\ texts \in 0 .. MaxTexts
BY DEF Os2TypeOK, Uis, Tables, Clips, Rams, Notes, Dirs

LEMMA EntryUpdates ==
  ASSUME NEW e \in Entries
  PROVE  /\ [e EXCEPT !.type = 1, !.lba = AppLba, !.bin = TRUE] \in Entries
         /\ [e EXCEPT !.type = 1, !.lba = Record] \in Entries
         /\ [e EXCEPT !.type = 2, !.lba = 0, !.bin = FALSE] \in Entries
<1>1. /\ 1 \in 0..2 /\ 2 \in 0..2
      /\ AppLba \in Sectors /\ Record \in Sectors /\ 0 \in Sectors
  BY PlaceFacts
<1>2. \A t \in 0..2, l \in Sectors, b \in BOOLEAN :
        [e EXCEPT !.type = t, !.lba = l, !.bin = b] \in Entries
  BY DEF Entries
<1>3. \A t \in 0..2, l \in Sectors : [e EXCEPT !.type = t, !.lba = l] \in Entries
  BY DEF Entries
<1> QED BY <1>1, <1>2, <1>3

LEMMA Constants ==
  /\ EmptyDir \in Dirs /\ Foreign \in Dirs /\ NoRows \in Tables
  /\ NoClip \in Clips /\ NoNote \in Notes /\ Cleared \in Rams
  /\ Booted \subseteq Uis
  /\ NoEntry \in Entries /\ NoRow \in Rows
<1>1. NoEntry \in Entries /\ [NoEntry EXCEPT !.type = 1, !.lba = Record] \in Entries
  <2>1. 0 \in Index
    BY SizeFacts DEF Index
  <2>2. NoEntry \in Entries
    BY <2>1, PlaceFacts DEF NoEntry, Entries
  <2>3. [NoEntry EXCEPT !.type = 1, !.lba = Record] \in Entries
    BY <2>2, EntryUpdates, PlaceFacts
  <2> QED BY <2>2, <2>3
<1>2. NoRow \in Rows
  BY PlaceFacts DEF NoRow, Rows
<1>3. EmptyDir \in Dirs /\ Foreign \in Dirs
  BY <1>1 DEF EmptyDir, Foreign, Dirs
<1>4. NoRows \in Tables
  BY <1>2 DEF NoRows, Tables
<1>5. 0 \in 0 .. MaxTexts
  BY Os2Constants
<1>6. NoNote \in Notes /\ Cleared \in Rams
  BY <1>5 DEF NoNote, Notes, Cleared, Rams, Blank
<1> QED BY <1>1, <1>2, <1>3, <1>4, <1>6 DEF NoClip, Clips, Booted, Uis

LEMMA DiskFields ==
  ASSUME NEW d \in Disks
  PROVE  d.label \in Labels /\ d.dir \in Dirs /\ d.data \in Data
BY DEF Disks, Dirs

LEMMA EntryFields ==
  ASSUME NEW e \in Entries
  PROVE  /\ e.type \in 0..2 /\ e.lba \in Sectors /\ e.bin \in BOOLEAN
         /\ e.parent \in Index \cup {Root}
BY DEF Entries

LEMMA RowFields ==
  ASSUME NEW r \in Rows
  PROVE  /\ r.exists \in BOOLEAN /\ r.folder \in BOOLEAN /\ r.lba \in Sectors
         /\ r.bin \in BOOLEAN /\ r.parent \in Index \cup {Root}
BY DEF Rows

LEMMA DiskUpdates ==
  ASSUME NEW d \in Disks, NEW l \in Labels, NEW r \in Dirs, NEW x \in Data
  PROVE  /\ [d EXCEPT !.label = l, !.dir = r] \in Disks
         /\ [d EXCEPT !.dir = r] \in Disks
         /\ [d EXCEPT !.data = x] \in Disks
         /\ [d EXCEPT !.dir = r, !.data = x] \in Disks
BY DEF Disks, Dirs

LEMMA UiUpdates ==
  ASSUME NEW u \in Uis, NEW d \in Drives, NEW f \in Index \cup {Root},
         NEW b \in BOOLEAN
  PROVE  /\ [u EXCEPT !.selected = d, !.port = d, !.mounted = FALSE] \in Uis
         /\ [u EXCEPT !.mounted = FALSE, !.folder = Root] \in Uis
         /\ [u EXCEPT !.port = d, !.mounted = TRUE, !.opened = TRUE,
                      !.folder = Root, !.ntfs = b] \in Uis
         /\ [u EXCEPT !.opened = FALSE] \in Uis
         /\ [u EXCEPT !.folder = f] \in Uis
BY DEF Uis

LEMMA RowUpdates ==
  ASSUME NEW r \in Rows, NEW e \in Entries
  PROVE  /\ [r EXCEPT !.exists = FALSE, !.folder = FALSE, !.parent = Root] \in Rows
         /\ Emptied(r) \in Rows /\ RowOf(r, e) \in Rows
         /\ [r EXCEPT !.exists = FALSE] \in Rows
         /\ [r EXCEPT !.exists = TRUE, !.folder = FALSE, !.lba = AppLba,
                      !.bin = TRUE] \in Rows
<1>1. [r EXCEPT !.exists = FALSE, !.folder = FALSE, !.parent = Root] \in Rows
  BY DEF Rows
<1>2. Emptied(r) \in Rows
  BY DEF Rows, Emptied
<1>3. [exists |-> TRUE, folder |-> e.type = 2, lba |-> e.lba,
       parent |-> e.parent, bin |-> e.bin] \in Rows
  BY EntryFields DEF Rows
<1>4. RowOf(r, e) \in Rows
  BY <1>2, <1>3 DEF RowOf
<1>5. [r EXCEPT !.exists = FALSE] \in Rows
  BY DEF Rows
<1>6. [r EXCEPT !.exists = TRUE, !.folder = FALSE, !.lba = AppLba,
               !.bin = TRUE] \in Rows
  BY PlaceFacts DEF Rows
<1> QED BY <1>1, <1>2, <1>4, <1>5, <1>6

-----------------------------------------------------------------------------
(* What a click may do to the drives                                       *)

LEMMA TransfersCounted ==
  ASSUME Os2TypeOK, NEW t \in Transfers, Transferred(t)
  PROVE  /\ failures' \in Nat /\ misread' \in BOOLEAN
         /\ ~misread' => ~misread /\ t.read
         /\ failures' = 0 => failures = 0 /\ t.read /\ t.data /\ t.dir
<1>1. t.read \in BOOLEAN /\ t.data \in BOOLEAN /\ t.dir \in BOOLEAN
  BY DEF Transfers
<1>2. /\ Loses(t.read) \in 0..1 /\ Loses(t.data) \in 0..1 /\ Loses(t.dir) \in 0..1
      /\ Loses(t.read) = 0 => t.read
      /\ Loses(t.data) = 0 => t.data
      /\ Loses(t.dir) = 0 => t.dir
  BY <1>1 DEF Loses
<1>3. failures \in Nat /\ failures' = failures + Failed(t)
  BY DEF Os2TypeOK, Transferred
<1>4. /\ failures' \in Nat
      /\ failures' = 0 => failures = 0 /\ Loses(t.read) = 0
                           /\ Loses(t.data) = 0 /\ Loses(t.dir) = 0
  BY <1>2, <1>3 DEF Failed
<1>5. misread' \in BOOLEAN /\ (~misread' => ~misread /\ t.read)
  BY <1>1 DEF Os2TypeOK, Transferred
<1> QED BY <1>1, <1>2, <1>4, <1>5 DEF Loses

LEMMA FreePlace ==
  ASSUME NEW dir \in Dirs, NEW n \in {DirSlots, ShellSlots},
         NEW s \in Index \cup {None}, Free(dir, n, s)
  PROVE  s # None => /\ s \in Index /\ dir[s].type = 0
                     /\ \A k \in 0 .. s - 1 : dir[k].type # 0
BY Os2Constants DEF Free, None, Index, Dirs

LEMMA PortChanges ==
  ASSUME NEW f \in [Drives -> Disks], NEW p \in Drives, NEW x \in Disks
  PROVE  /\ [f EXCEPT ![p] = x] \in [Drives -> Disks]
         /\ [f EXCEPT ![p] = x][p] = x
         /\ \A d \in Drives : d # p => [f EXCEPT ![p] = x][d] = f[d]
OBVIOUS

(* What was read of the directory of the active drive is written with one  *)
(* more entry in its first free place s, and no sector before the s-th     *)
(* changes its data.                                                       *)
Adds(t, s, e, r) ==
  /\ r[s].type = 0 /\ \A k \in 0 .. s - 1 : r[k].type # 0
  /\ e.type # 0
  /\ t.read => r = disk[ui.port].dir
  /\ t.dir => disk'[ui.port].dir = [r EXCEPT ![s] = e]
  /\ ~t.dir => disk'[ui.port].dir = disk[ui.port].dir
  /\ \A l \in 0 .. s - 1 : disk'[ui.port].data[l] = disk[ui.port].data[l]

(* If the table changes, then in the row of that entry.                    *)
Shows(s, e) ==
  \A i \in Index : \/ cfs_files'[i] = cfs_files[i]
                   \/ /\ i = s /\ cfs_files'[i].lba = e.lba
                      /\ cfs_files'[i].folder = (e.type = 2)

OnlyPort ==
  /\ disk' \in [Drives -> Disks]
  /\ \A d \in Drives : d # ui.port => disk'[d] = disk[d]
  /\ disk'[ui.port].label = disk[ui.port].label

(* All that the five writers of the directory have in common.              *)
Writer(t) ==
  /\ OnlyPort /\ buf_dir' \in Dirs /\ cfs_files' \in Tables
  /\ \/ disk' = disk /\ cfs_files' = cfs_files
     \/ \E s \in Index, e \in Entries, r \in Dirs :
          Adds(t, s, e, r) /\ Shows(s, e)

LEMMA WrittenOnPort ==
  ASSUME Os2TypeOK, NEW t \in Transfers, NEW dir \in Dirs, Written(dir, t)
  PROVE  /\ OnlyPort
         /\ disk'[ui.port].dir = IF t.dir THEN dir ELSE disk[ui.port].dir
         /\ disk'[ui.port].data = disk[ui.port].data
<1> DEFINE x == [disk[ui.port] EXCEPT
                   !.dir = IF t.dir THEN dir ELSE disk[ui.port].dir]
<1>1. ui.port \in Drives /\ disk \in [Drives -> Disks] /\ disk[ui.port] \in Disks
  BY DEF Os2TypeOK
<1>2. (IF t.dir THEN dir ELSE disk[ui.port].dir) \in Dirs
  BY <1>1, DiskFields
<1>3. x \in Disks
  BY <1>1, <1>2, DiskFields, DiskUpdates
<1>4. /\ x.dir = IF t.dir THEN dir ELSE disk[ui.port].dir
      /\ x.label = disk[ui.port].label /\ x.data = disk[ui.port].data
  BY <1>1 DEF Disks
<1>5. disk' = [disk EXCEPT ![ui.port] = x]
  BY DEF Written
<1> HIDE DEF x
<1> QED BY <1>1, <1>3, <1>4, <1>5, PortChanges DEF OnlyPort

LEMMA ReadTyped ==
  ASSUME Os2TypeOK, NEW t \in Transfers
  PROVE  /\ ui.port \in Drives /\ disk[ui.port] \in Disks
         /\ DirRead(t) \in Dirs
         /\ t.read => DirRead(t) = disk[ui.port].dir
BY Constants, DiskFields DEF Os2TypeOK, DirRead

LEMMA Unwritten ==
  ASSUME Os2TypeOK, NEW t \in Transfers, UNCHANGED <<disk, cfs_files>>,
         buf_dir' \in Dirs
  PROVE  Writer(t)
BY DEF Os2TypeOK, Writer, OnlyPort, Tables

LEMMA RowShows ==
  ASSUME cfs_files \in Tables, NEW s \in Index, NEW e, NEW row,
         cfs_files' = [cfs_files EXCEPT ![s] = row],
         row.lba = e.lba, row.folder = (e.type = 2)
  PROVE  Shows(s, e)
<1>1. cfs_files'[s] = row /\ \A i \in Index : i # s => cfs_files'[i] = cfs_files[i]
  BY DEF Tables
<1> QED BY <1>1 DEF Shows

LEMMA PastedTyped ==
  ASSUME Os2TypeOK, NEW data \in Data, NEW s \in Index, NEW t \in Transfers
  PROVE  /\ Pasted(data, s, t) \in Data
         /\ \A l \in 0 .. s - 1 : Pasted(data, s, t)[l] = data[l]
<1> DEFINE x == [l \in Sectors |->
                   IF l - PasteLba(s) \in DOMAIN ram THEN ram[l - PasteLba(s)]
                   ELSE data[l]]
<1>1. ram \in Rams
  BY Types
<1>2. x \in Data
  BY <1>1 DEF Data, Rams
<1>3. ASSUME NEW l \in 0 .. s - 1 PROVE x[l] = data[l]
  <2>0. l \in Index /\ l < s /\ s \in Nat /\ l \in Int
    BY SizeFacts DEF Index
  <2>1. l \in Sectors /\ l - PasteLba(s) < 0
    BY <2>0, CopiesFit, PlaceFacts
  <2>2. l - PasteLba(s) \notin DOMAIN ram
    BY <2>1, <1>1, CopiesFit DEF Rams, Index, Sectors
  <2> QED BY <2>1, <2>2
<1> HIDE DEF x
<1>4. Pasted(data, s, t) = data \/ Pasted(data, s, t) = x
  BY DEF Pasted, x
<1> QED BY <1>2, <1>3, <1>4

(* One entry and some sectors of one drive.                                *)
LEMMA PutOnPort ==
  ASSUME Os2TypeOK, NEW t \in Transfers, NEW dir \in Dirs, NEW data \in Data,
         disk' = [disk EXCEPT
                    ![ui.port].dir = IF t.dir THEN dir ELSE disk[ui.port].dir,
                    ![ui.port].data = data]
  PROVE  /\ OnlyPort
         /\ disk'[ui.port].dir = IF t.dir THEN dir ELSE disk[ui.port].dir
         /\ disk'[ui.port].data = data
<1> DEFINE r == IF t.dir THEN dir ELSE disk[ui.port].dir
           x == [disk[ui.port] EXCEPT !.dir = r, !.data = data]
<1>1. ui.port \in Drives /\ disk \in [Drives -> Disks] /\ disk[ui.port] \in Disks
  BY DEF Os2TypeOK
<1>2. r \in Dirs
  BY <1>1, DiskFields
<1>3. disk' = [disk EXCEPT ![ui.port] = x]
  OBVIOUS
<1> HIDE DEF r
<1>4. x \in Disks
  BY <1>1, <1>2, DiskFields, DiskUpdates
<1>5. x.dir = r /\ x.label = disk[ui.port].label /\ x.data = data
  BY <1>1 DEF Disks
<1> HIDE DEF x
<1> QED BY <1>1, <1>3, <1>4, <1>5, PortChanges DEF OnlyPort, r

LEMMA PasteWrites ==
  ASSUME Os2TypeOK, NEW t \in Transfers, Paste(t)
  PROVE  Writer(t)
<1> DEFINE dir == DirRead(t)
<1>1. /\ ui.port \in Drives /\ disk[ui.port] \in Disks /\ dir \in Dirs
      /\ t.read => dir = disk[ui.port].dir
      /\ disk \in [Drives -> Disks] /\ cfs_files \in Tables
  BY ReadTyped, Types
<1> HIDE DEF dir
<1>2. PICK s \in Index \cup {None} :
        /\ Free(dir, DirSlots, s)
        /\ IF s = None
           THEN UNCHANGED <<disk, clip>> /\ buf_dir' = dir
           ELSE /\ buf_dir' = [dir EXCEPT ![s] =
                     [type |-> IF clip.folder THEN 2 ELSE 1,
                      lba |-> IF clip.folder THEN 0 ELSE PasteLba(s),
                      parent |-> ui.folder, bin |-> clip.bin]]
                /\ disk' = [disk EXCEPT
                     ![ui.port].dir =
                         IF t.dir THEN buf_dir' ELSE disk[ui.port].dir,
                     ![ui.port].data = Pasted(disk[ui.port].data, s, t)]
  BY DEF Paste, dir
<1>3. UNCHANGED cfs_files
  BY DEF Paste
<1>4. CASE s = None
  BY <1>1, <1>2, <1>3, <1>4, Unwritten
<1>5. CASE s # None
  <2> DEFINE e == [type |-> IF clip.folder THEN 2 ELSE 1,
                   lba |-> IF clip.folder THEN 0 ELSE PasteLba(s),
                   parent |-> ui.folder, bin |-> clip.bin]
             data == Pasted(disk[ui.port].data, s, t)
  <2>1. s \in Index /\ dir[s].type = 0 /\ \A k \in 0 .. s - 1 : dir[k].type # 0
    BY <1>1, <1>2, <1>5, FreePlace
  <2>2. e \in Entries /\ e.type # 0
    BY <2>1, PlaceFacts DEF Entries, Os2TypeOK
  <2>3. buf_dir' = [dir EXCEPT ![s] = e] /\ buf_dir' \in Dirs
    BY <1>1, <1>2, <1>5, <2>1, <2>2 DEF Dirs
  <2>4. /\ data \in Data
        /\ \A l \in 0 .. s - 1 : data[l] = disk[ui.port].data[l]
    BY <1>1, <2>1, DiskFields, PastedTyped
  <2>5. disk' = [disk EXCEPT
                   ![ui.port].dir =
                       IF t.dir THEN buf_dir' ELSE disk[ui.port].dir,
                   ![ui.port].data = data]
    BY <1>2, <1>5
  <2> HIDE DEF e, data
  <2>7. /\ OnlyPort /\ disk'[ui.port].data = data
        /\ disk'[ui.port].dir = IF t.dir THEN buf_dir' ELSE disk[ui.port].dir
    BY <2>3, <2>4, <2>5, PutOnPort
  <2>8. Adds(t, s, e, dir)
    BY <1>1, <2>1, <2>2, <2>3, <2>4, <2>7 DEF Adds
  <2>9. Shows(s, e)
    BY <1>3 DEF Shows
  <2> QED BY <1>1, <1>3, <2>1, <2>2, <2>3, <2>7, <2>8, <2>9 DEF Writer
<1> QED BY <1>4, <1>5

LEMMA PlusFileWrites ==
  ASSUME Os2TypeOK, NEW t \in Transfers, PlusFile(t)
  PROVE  Writer(t)
<1> DEFINE dir == DirRead(t)
<1>1. /\ ui.port \in Drives /\ disk[ui.port] \in Disks /\ dir \in Dirs
      /\ t.read => dir = disk[ui.port].dir
      /\ cfs_files \in Tables
  BY ReadTyped, Types
<1> HIDE DEF dir
<1>2. PICK s \in Index \cup {None} :
        /\ Free(dir, DirSlots, s)
        /\ IF s = None
           THEN UNCHANGED <<disk, cfs_files>> /\ buf_dir' = dir
           ELSE /\ buf_dir' = [dir EXCEPT ![s] =
                     [dir[s] EXCEPT !.type = 1, !.lba = AppLba, !.bin = TRUE]]
                /\ Written(buf_dir', t)
                /\ cfs_files' = [cfs_files EXCEPT ![s] =
                     [cfs_files[s] EXCEPT !.exists = TRUE, !.folder = FALSE,
                                          !.lba = AppLba, !.bin = TRUE]]
  BY DEF PlusFile, dir
<1>3. CASE s = None
  BY <1>1, <1>2, <1>3, Unwritten
<1>4. CASE s # None
  <2> DEFINE e == [dir[s] EXCEPT !.type = 1, !.lba = AppLba, !.bin = TRUE]
             row == [cfs_files[s] EXCEPT !.exists = TRUE, !.folder = FALSE,
                                         !.lba = AppLba, !.bin = TRUE]
  <2>1. /\ s \in Index /\ dir[s].type = 0 /\ \A k \in 0 .. s - 1 : dir[k].type # 0
        /\ dir[s] \in Entries /\ cfs_files[s] \in Rows
    BY <1>1, <1>2, <1>4, FreePlace DEF Dirs, Tables
  <2>2. e \in Entries /\ row \in Rows
    BY <2>1, EntryUpdates, RowUpdates
  <2>3. e.type = 1 /\ e.lba = AppLba
    BY <2>1 DEF Entries
  <2>4. row.lba = AppLba /\ row.folder = FALSE
    BY <2>1 DEF Rows
  <2>5. /\ buf_dir' = [dir EXCEPT ![s] = e]
        /\ cfs_files' = [cfs_files EXCEPT ![s] = row]
        /\ Written(buf_dir', t)
    BY <1>2, <1>4
  <2> HIDE DEF e, row
  <2>6. buf_dir' \in Dirs /\ cfs_files' \in Tables
    BY <1>1, <2>1, <2>2, <2>5 DEF Dirs, Tables
  <2>7. /\ OnlyPort
        /\ disk'[ui.port].dir = IF t.dir THEN buf_dir' ELSE disk[ui.port].dir
        /\ disk'[ui.port].data = disk[ui.port].data
    BY <2>5, <2>6, WrittenOnPort
  <2>8. Adds(t, s, e, dir)
    BY <1>1, <2>1, <2>3, <2>5, <2>7 DEF Adds
  <2>9. Shows(s, e)
    <3>1. row.folder = (e.type = 2)
      <4>1. e.type # 2
        BY <2>3
      <4> QED BY <4>1, <2>4, Zenon
    <3> QED BY <1>1, <2>1, <2>3, <2>4, <2>5, <3>1, RowShows
  <2> QED BY <1>1, <2>1, <2>2, <2>6, <2>7, <2>8, <2>9 DEF Writer
<1> QED BY <1>3, <1>4

LEMMA MkdirWrites ==
  ASSUME Os2TypeOK, NEW t \in Transfers, Mkdir(t)
  PROVE  Writer(t)
<1> DEFINE dir == IF t.read THEN disk[ui.port].dir ELSE buf_dir
<1>1. /\ ui.port \in Drives /\ disk[ui.port] \in Disks /\ dir \in Dirs
      /\ t.read => dir = disk[ui.port].dir
      /\ cfs_files \in Tables
  BY ReadTyped, Types, DiskFields
<1> HIDE DEF dir
<1>2. PICK s \in Index \cup {None} :
        /\ Free(dir, ShellSlots, s)
        /\ IF s = None
           THEN UNCHANGED disk /\ buf_dir' = dir
           ELSE /\ buf_dir' = [dir EXCEPT ![s] =
                     [dir[s] EXCEPT !.type = 2, !.lba = 0, !.bin = FALSE]]
                /\ Written(buf_dir', t)
  BY DEF Mkdir, dir
<1>3. UNCHANGED cfs_files
  BY DEF Mkdir
<1>4. CASE s = None
  BY <1>1, <1>2, <1>3, <1>4, Unwritten
<1>5. CASE s # None
  <2> DEFINE e == [dir[s] EXCEPT !.type = 2, !.lba = 0, !.bin = FALSE]
  <2>1. /\ s \in Index /\ dir[s].type = 0 /\ \A k \in 0 .. s - 1 : dir[k].type # 0
        /\ dir[s] \in Entries
    BY <1>1, <1>2, <1>5, FreePlace DEF Dirs
  <2>2. e \in Entries
    BY <2>1, EntryUpdates
  <2>3. e.type = 2
    BY <2>1 DEF Entries
  <2>4. buf_dir' = [dir EXCEPT ![s] = e] /\ Written(buf_dir', t)
    BY <1>2, <1>5
  <2> HIDE DEF e
  <2>5. buf_dir' \in Dirs
    BY <1>1, <2>1, <2>2, <2>4 DEF Dirs
  <2>6. /\ OnlyPort
        /\ disk'[ui.port].dir = IF t.dir THEN buf_dir' ELSE disk[ui.port].dir
        /\ disk'[ui.port].data = disk[ui.port].data
    BY <2>4, <2>5, WrittenOnPort
  <2>7. Adds(t, s, e, dir)
    BY <1>1, <2>1, <2>3, <2>4, <2>6 DEF Adds
  <2> QED BY <1>1, <1>3, <2>1, <2>2, <2>5, <2>6, <2>7 DEF Writer, Shows
<1> QED BY <1>4, <1>5

LEMMA SaveFileWrites ==
  ASSUME Os2TypeOK, NEW t \in Transfers, NEW bin \in BOOLEAN, SaveFile(t, bin)
  PROVE  Writer(t) /\ note' \in Notes
<1> DEFINE dir == DirRead(t)
<1>1. /\ ui.port \in Drives /\ disk[ui.port] \in Disks /\ dir \in Dirs
      /\ t.read => dir = disk[ui.port].dir
      /\ cfs_files \in Tables /\ note \in Notes
      /\ ui.folder \in Index \cup {Root} /\ note.text \in 0 .. MaxTexts
  BY ReadTyped, Types DEF Uis, Notes
<1> HIDE DEF dir
<1>2. PICK s \in Index \cup {None} :
        /\ Free(dir, DirSlots, s)
        /\ IF s = None
           THEN UNCHANGED <<disk, cfs_files, note>> /\ buf_dir' = dir
           ELSE /\ buf_dir' = [dir EXCEPT ![s] =
                     [type |-> 1, lba |-> SaveLba(s), parent |-> ui.folder,
                      bin |-> bin]]
                /\ disk' = [disk EXCEPT
                     ![ui.port].dir =
                         IF t.dir THEN buf_dir' ELSE disk[ui.port].dir,
                     ![ui.port].data[SaveLba(s)] =
                         IF t.data THEN note.text
                         ELSE disk[ui.port].data[SaveLba(s)]]
                /\ cfs_files' = [cfs_files EXCEPT ![s] =
                     [exists |-> TRUE, folder |-> FALSE, lba |-> SaveLba(s),
                      parent |-> ui.folder, bin |-> bin]]
                /\ note' = [note EXCEPT !.lba = SaveLba(s)]
  BY DEF SaveFile, dir
<1>3. CASE s = None
  BY <1>1, <1>2, <1>3, Unwritten
<1>4. CASE s # None
  <2> DEFINE e == [type |-> 1, lba |-> SaveLba(s), parent |-> ui.folder,
                   bin |-> bin]
             row == [exists |-> TRUE, folder |-> FALSE, lba |-> SaveLba(s),
                     parent |-> ui.folder, bin |-> bin]
             v == IF t.data THEN note.text ELSE disk[ui.port].data[SaveLba(s)]
             data == [disk[ui.port].data EXCEPT ![SaveLba(s)] = v]
  <2>1. /\ s \in Index /\ dir[s].type = 0 /\ \A k \in 0 .. s - 1 : dir[k].type # 0
        /\ SaveLba(s) \in Sectors
    BY <1>1, <1>2, <1>4, FreePlace, PlaceFacts
  <2>2. e \in Entries /\ row \in Rows
    BY <1>1, <2>1 DEF Entries, Rows
  <2>3. /\ buf_dir' = [dir EXCEPT ![s] = e]
        /\ cfs_files' = [cfs_files EXCEPT ![s] = row]
        /\ note' = [note EXCEPT !.lba = SaveLba(s)]
    BY <1>2, <1>4
  <2>4. disk' = [disk EXCEPT
                   ![ui.port].dir =
                       IF t.dir THEN buf_dir' ELSE disk[ui.port].dir,
                   ![ui.port].data = data]
    BY <1>2, <1>4
  <2>5. data \in Data /\ \A l \in 0 .. s - 1 : data[l] = disk[ui.port].data[l]
    <3>1. disk[ui.port].data \in Data
      BY <1>1, DiskFields
    <3>2. v \in 0 .. MaxTexts
      BY <1>1, <2>1, <3>1 DEF Data
    <3>3. s \in Nat
      BY <2>1, SizeFacts DEF Index
    <3> HIDE DEF v
    <3>4. data \in Data
      BY <2>1, <3>1, <3>2 DEF Data
    <3> QED BY <3>1, <3>3, <3>4 DEF Data, SaveLba
  <2> HIDE DEF data
  <2>6. buf_dir' \in Dirs /\ cfs_files' \in Tables
    BY <1>1, <2>1, <2>2, <2>3 DEF Dirs, Tables
  <2>7. /\ OnlyPort /\ disk'[ui.port].data = data
        /\ disk'[ui.port].dir = IF t.dir THEN buf_dir' ELSE disk[ui.port].dir
    BY <2>4, <2>5, <2>6, PutOnPort
  <2>8. Adds(t, s, e, dir)
    BY <1>1, <2>1, <2>3, <2>5, <2>7 DEF Adds
  <2>9. Shows(s, e)
    <3>1. row.lba = e.lba /\ row.folder = (e.type = 2)
      <4>1. row.lba = e.lba /\ row.folder = FALSE /\ e.type # 2
        OBVIOUS
      <4> HIDE DEF e, row
      <4> QED BY <4>1, Zenon
    <3> HIDE DEF e, row
    <3> QED BY <1>1, <2>1, <2>3, <3>1, RowShows
  <2>10. note' \in Notes
    BY <1>1, <2>1, <2>3 DEF Notes
  <2> QED BY <1>1, <2>1, <2>2, <2>6, <2>7, <2>8, <2>9, <2>10 DEF Writer
<1> QED BY <1>3, <1>4

LEMMA SaveFolderWrites ==
  ASSUME Os2TypeOK, NEW t \in Transfers, SaveFolder(t)
  PROVE  Writer(t)
<1> DEFINE dir == DirRead(t)
<1>1. /\ ui.port \in Drives /\ disk[ui.port] \in Disks /\ dir \in Dirs
      /\ t.read => dir = disk[ui.port].dir
      /\ cfs_files \in Tables /\ ui.folder \in Index \cup {Root}
  BY ReadTyped, Types DEF Uis
<1> HIDE DEF dir
<1>2. PICK s \in Index \cup {None} :
        /\ Free(dir, DirSlots, s)
        /\ IF s = None
           THEN UNCHANGED <<disk, cfs_files>> /\ buf_dir' = dir
           ELSE /\ buf_dir' = [dir EXCEPT ![s] =
                     [type |-> 2, lba |-> 0, parent |-> ui.folder, bin |-> FALSE]]
                /\ Written(buf_dir', t)
                /\ cfs_files' = [cfs_files EXCEPT ![s] =
                     [exists |-> TRUE, folder |-> TRUE, lba |-> 0,
                      parent |-> ui.folder, bin |-> FALSE]]
  BY DEF SaveFolder, dir
<1>3. CASE s = None
  BY <1>1, <1>2, <1>3, Unwritten
<1>4. CASE s # None
  <2> DEFINE e == [type |-> 2, lba |-> 0, parent |-> ui.folder, bin |-> FALSE]
             row == [exists |-> TRUE, folder |-> TRUE, lba |-> 0,
                     parent |-> ui.folder, bin |-> FALSE]
  <2>1. s \in Index /\ dir[s].type = 0 /\ \A k \in 0 .. s - 1 : dir[k].type # 0
    BY <1>1, <1>2, <1>4, FreePlace
  <2>2. e \in Entries /\ row \in Rows
    BY <1>1, PlaceFacts DEF Entries, Rows
  <2>3. /\ buf_dir' = [dir EXCEPT ![s] = e]
        /\ cfs_files' = [cfs_files EXCEPT ![s] = row]
        /\ Written(buf_dir', t)
    BY <1>2, <1>4
  <2>4. buf_dir' \in Dirs /\ cfs_files' \in Tables
    BY <1>1, <2>1, <2>2, <2>3 DEF Dirs, Tables
  <2>5. /\ OnlyPort
        /\ disk'[ui.port].dir = IF t.dir THEN buf_dir' ELSE disk[ui.port].dir
        /\ disk'[ui.port].data = disk[ui.port].data
    BY <2>3, <2>4, WrittenOnPort
  <2>6. Adds(t, s, e, dir)
    BY <1>1, <2>1, <2>3, <2>5 DEF Adds
  <2>7. Shows(s, e)
    BY <1>1, <2>1, <2>3 DEF Shows, Tables
  <2> QED BY <1>1, <2>1, <2>2, <2>4, <2>5, <2>6, <2>7 DEF Writer
<1> QED BY <1>3, <1>4

LEMMA FormatWrites ==
  ASSUME Os2TypeOK, NEW t \in Transfers, Format(t)
  PROVE  /\ disk' \in [Drives -> Disks] /\ cfs_files' \in Tables
         /\ \A d \in Drives :
              /\ disk'[d].data = disk[d].data
              /\ disk'[d].dir = disk[d].dir \/ disk'[d].dir = EmptyDir
<1> DEFINE l == IF t.data THEN "cfs" ELSE disk[ui.port].label
           r == IF t.dir THEN EmptyDir ELSE disk[ui.port].dir
           x == [disk[ui.port] EXCEPT !.label = l, !.dir = r]
<1>1. /\ ui.port \in Drives /\ disk \in [Drives -> Disks] /\ disk[ui.port] \in Disks
      /\ cfs_files \in Tables
  BY Types DEF Uis
<1>2. l \in Labels /\ r \in Dirs
  BY <1>1, DiskFields, Constants DEF Labels
<1>3. Formatted(disk[ui.port], t) = x
  BY DEF Formatted
<1>4. r = disk[ui.port].dir \/ r = EmptyDir
  OBVIOUS
<1> HIDE DEF l, r
<1>5. x \in Disks /\ x.dir = r /\ x.data = disk[ui.port].data
  BY <1>1, <1>2, DiskUpdates DEF Disks
<1>6. disk' = [disk EXCEPT ![ui.port] = x]
  BY <1>3 DEF Format
<1> HIDE DEF x
<1>7. disk' \in [Drives -> Disks] /\ disk'[ui.port] = x
  BY <1>1, <1>5, <1>6
<1>8. \A d \in Drives : /\ disk'[d].data = disk[d].data
                        /\ disk'[d].dir = disk[d].dir \/ disk'[d].dir = EmptyDir
  BY <1>1, <1>4, <1>5, <1>6, <1>7, PortChanges
<1>9. cfs_files' \in Tables
  <2>1. \A i \in Index : [cfs_files[i] EXCEPT !.exists = FALSE, !.folder = FALSE,
                                              !.parent = Root] \in Rows
    BY <1>1, RowUpdates, Constants DEF Tables
  <2> QED BY <2>1 DEF Format, Tables
<1> QED BY <1>7, <1>8, <1>9

LEMMA SaveWrites ==
  ASSUME Os2TypeOK, NEW t \in Transfers, Save(t)
  PROVE  /\ OnlyPort /\ disk'[ui.port].dir = disk[ui.port].dir
         /\ ram' \in Rams
         /\ \A l \in Index : disk'[ui.port].data[l] # disk[ui.port].data[l] =>
              note.lba = l /\ disk'[ui.port].data[l] = note.text
<1> DEFINE a == IF note.lba > 0 \/ note.lba = SaveLba(0) THEN note.lba ELSE Scratch
           v == IF t.data THEN note.text ELSE disk[ui.port].data[a]
           x == [disk[ui.port] EXCEPT !.data = [disk[ui.port].data EXCEPT ![a] = v]]
<1>1. /\ ui.port \in Drives /\ disk \in [Drives -> Disks] /\ disk[ui.port] \in Disks
      /\ note.text \in 0 .. MaxTexts /\ note.lba \in Sectors \cup {None}
      /\ ram \in Rams /\ disk[ui.port].data \in Data
  BY Types, DiskFields DEF Uis, Notes
<1>2. a \in Sectors /\ (a \in Index => a = note.lba)
  BY <1>1, PlaceFacts DEF None, SaveLba
<1>3. disk' = [disk EXCEPT ![ui.port] = x]
  BY DEF Save
<1>4. ram' \in Rams
  BY <1>1 DEF Save, Rams
<1> HIDE DEF a
<1>5. v \in 0 .. MaxTexts /\ (v = note.text \/ v = disk[ui.port].data[a])
  BY <1>1, <1>2 DEF Data
<1> HIDE DEF v
<1>6. [disk[ui.port].data EXCEPT ![a] = v] \in Data
  BY <1>1, <1>2, <1>5 DEF Data
<1>7. /\ x \in Disks /\ x.dir = disk[ui.port].dir /\ x.label = disk[ui.port].label
      /\ x.data = [disk[ui.port].data EXCEPT ![a] = v]
  BY <1>1, <1>6, DiskUpdates DEF Disks
<1> HIDE DEF x
<1>8. OnlyPort /\ disk'[ui.port] = x
  BY <1>1, <1>3, <1>7, PortChanges DEF OnlyPort
<1>9. ASSUME NEW l \in Index, x.data[l] # disk[ui.port].data[l]
      PROVE  note.lba = l /\ x.data[l] = note.text
  BY <1>1, <1>2, <1>5, <1>7, <1>9, PlaceFacts DEF Data
<1> QED BY <1>4, <1>7, <1>8, <1>9

LEMMA ScrapedTyped ==
  ASSUME Os2TypeOK, NEW folder \in Index \cup {Root}
  PROVE  Scraped(folder) \subseteq Tables
<1> SUFFICES ASSUME NEW n \in {0, 1}, NEW f \in BOOLEAN
             PROVE  [i \in Index |->
                       IF i < n THEN [exists |-> TRUE, folder |-> f, lba |-> Record,
                                      parent |-> folder, bin |-> FALSE]
                       ELSE [cfs_files[i] EXCEPT !.exists = FALSE]] \in Tables
  BY DEF Scraped
<1>1. [exists |-> TRUE, folder |-> f, lba |-> Record, parent |-> folder,
       bin |-> FALSE] \in Rows
  BY PlaceFacts DEF Rows
<1>2. \A i \in Index : [cfs_files[i] EXCEPT !.exists = FALSE] \in Rows
  BY RowUpdates, Constants, Types DEF Tables
<1> QED BY <1>1, <1>2 DEF Tables

(* What OPEN makes of the table.                                           *)
LEMMA OpenedTyped ==
  ASSUME Os2TypeOK, NEW t \in Transfers, OpenDrive(t)
  PROVE  /\ ui' \in Uis /\ ui'.port = ui.selected /\ ui'.selected = ui.selected
         /\ cfs_files' \in Tables /\ buf_dir' \in Dirs
         /\ (t.data /\ t.read /\ disk[ui.selected].label = "cfs") =>
              /\ ~ui'.ntfs
              /\ \A i \in Index : cfs_files'[i] =
                   RowOf(cfs_files[i], disk[ui.selected].dir[i])
<1> DEFINE label == IF t.data THEN disk[ui.selected].label ELSE "other"
           ntfs == CASE label = "cfs" -> FALSE [] label = "ntfs" -> TRUE
                     [] OTHER -> ui.ntfs
<1>1. /\ ui.selected \in Drives /\ disk[ui.selected] \in Disks /\ ui \in Uis
      /\ cfs_files \in Tables /\ buf_dir \in Dirs /\ ui.ntfs \in BOOLEAN
  BY Types DEF OpenDrive, Uis
<1>2. label \in Labels
  BY <1>1, DiskFields DEF Labels
<1>3. /\ ui' = [ui EXCEPT !.port = ui.selected, !.mounted = TRUE,
                          !.opened = TRUE, !.folder = Root, !.ntfs = ntfs]
      /\ CASE label = "cfs" ->
                /\ buf_dir' = IF t.read THEN disk[ui.selected].dir ELSE EmptyDir
                /\ cfs_files' = [i \in Index |-> RowOf(cfs_files[i], buf_dir'[i])]
           [] label = "ntfs" -> buf_dir' = Foreign /\ cfs_files' \in Scraped(Root)
           [] OTHER -> /\ UNCHANGED buf_dir
                       /\ cfs_files' = [i \in Index |-> Emptied(cfs_files[i])]
  BY DEF OpenDrive
<1>4. ntfs \in BOOLEAN /\ (label = "cfs" => ntfs = FALSE)
  BY <1>1
<1>5. (t.data /\ disk[ui.selected].label = "cfs") => label = "cfs"
  OBVIOUS
<1> HIDE DEF label, ntfs
<1>6. /\ ui' \in Uis /\ ui'.port = ui.selected /\ ui'.selected = ui.selected
      /\ ui'.ntfs = ntfs
  BY <1>1, <1>3, <1>4, UiUpdates DEF Uis
<1>7. CASE label = "cfs"
  <2>1. /\ buf_dir' = IF t.read THEN disk[ui.selected].dir ELSE EmptyDir
        /\ cfs_files' = [i \in Index |-> RowOf(cfs_files[i], buf_dir'[i])]
    BY <1>3, <1>7
  <2>2. buf_dir' \in Dirs
    BY <1>1, <2>1, Constants, DiskFields
  <2>3. cfs_files' \in Tables
    BY <1>1, <2>1, <2>2, RowUpdates DEF Dirs, Tables
  <2> QED BY <1>4, <1>6, <1>7, <2>1, <2>2, <2>3
<1>8. CASE label = "ntfs"
  <2>1. buf_dir' = Foreign /\ cfs_files' \in Scraped(Root)
    BY <1>3, <1>8
  <2> QED BY <1>5, <1>6, <1>8, <2>1, Constants, ScrapedTyped
<1>9. CASE label \notin {"cfs", "ntfs"}
  <2>1. UNCHANGED buf_dir /\ cfs_files' = [i \in Index |-> Emptied(cfs_files[i])]
    BY <1>3, <1>9
  <2>2. cfs_files' \in Tables
    <3>1. \A i \in Index : Emptied(cfs_files[i]) \in Rows
      BY <1>1, RowUpdates, Constants DEF Tables, Dirs
    <3> QED BY <2>1, <3>1 DEF Tables
  <2> QED BY <1>1, <1>5, <1>6, <1>9, <2>1, <2>2
<1> QED BY <1>7, <1>8, <1>9

-----------------------------------------------------------------------------
(* Types                                                                   *)

LEMMA TransferStepTyped ==
  ASSUME Os2TypeOK, NEW t \in Transfers,
         \/ Format(t) \/ OpenDrive(t) \/ Paste(t) \/ PlusFile(t) \/ Mkdir(t)
         \/ Save(t) \/ SaveFolder(t) \/ \E bin \in BOOLEAN : SaveFile(t, bin)
  PROVE  Os2TypeOK'
<1>1. /\ disk \in [Drives -> Disks] /\ ui \in Uis /\ cfs_files \in Tables
      /\ clip \in Clips /\ ram \in Rams /\ note \in Notes
      /\ save_step \in {"closed", "ask", "file", "folder"} /\ buf_dir \in Dirs
      /\ texts \in 0 .. MaxTexts
  BY Types
<1>2. failures' \in Nat /\ misread' \in BOOLEAN
  <2>1. Transferred(t)
    BY DEF Format, OpenDrive, Paste, PlusFile, Mkdir, Save, SaveFolder, SaveFile
  <2> QED BY <2>1, TransfersCounted
<1>3. UNCHANGED texts
  BY DEF Format, OpenDrive, Paste, PlusFile, Mkdir, Save, SaveFolder, SaveFile
<1>4. CASE Format(t)
  <2>1. ui' \in Uis /\ buf_dir' \in Dirs
    BY <1>1, <1>4, UiUpdates, Constants DEF Format, Uis
  <2>2. UNCHANGED <<clip, ram, note, save_step>>
    BY <1>4 DEF Format
  <2> QED BY <1>1, <1>2, <1>3, <1>4, <2>1, <2>2, FormatWrites
          DEF Os2TypeOK, Uis, Tables, Clips, Rams, Notes, Dirs
<1>5. CASE OpenDrive(t)
  <2>1. UNCHANGED <<disk, clip, ram, note, save_step>>
    BY <1>5 DEF OpenDrive
  <2> QED BY <1>1, <1>2, <1>3, <1>5, <2>1, OpenedTyped
          DEF Os2TypeOK, Uis, Tables, Clips, Rams, Notes, Dirs
<1>6. CASE Paste(t)
  <2>1. clip' = clip \/ clip' = [clip EXCEPT !.active = FALSE]
    BY <1>6 DEF Paste
  <2>2. clip' \in Clips
    BY <1>1, <2>1 DEF Clips
  <2>3. UNCHANGED <<ui, ram, note, save_step>>
    BY <1>6 DEF Paste
  <2>4. Writer(t)
    BY <1>6, PasteWrites
  <2> QED BY <1>1, <1>2, <1>3, <2>2, <2>3, <2>4
          DEF Writer, OnlyPort, Os2TypeOK, Uis, Tables, Clips, Rams, Notes, Dirs
<1>7. CASE PlusFile(t) \/ Mkdir(t) \/ SaveFolder(t)
  <2>1. Writer(t)
    BY <1>7, PlusFileWrites, MkdirWrites, SaveFolderWrites
  <2>2. UNCHANGED <<ui, clip, ram, note>> /\ save_step' \in {save_step, "closed"}
    BY <1>7 DEF PlusFile, Mkdir, SaveFolder
  <2> QED BY <1>1, <1>2, <1>3, <2>1, <2>2
          DEF Writer, OnlyPort, Os2TypeOK, Uis, Tables, Clips, Rams, Notes, Dirs
<1>8. CASE Save(t)
  <2>1. UNCHANGED <<ui, cfs_files, clip, note, save_step, buf_dir>>
    BY <1>8 DEF Save
  <2> QED BY <1>1, <1>2, <1>3, <1>8, <2>1, SaveWrites
          DEF OnlyPort, Os2TypeOK, Uis, Tables, Clips, Rams, Notes, Dirs
<1>9. ASSUME NEW bin \in BOOLEAN, SaveFile(t, bin) PROVE Os2TypeOK'
  <2>1. Writer(t) /\ note' \in Notes
    BY <1>9, SaveFileWrites
  <2>2. ram' \in Rams
    <3>1. ram' = [Cleared EXCEPT ![0] = note.text] /\ note.text \in 0 .. MaxTexts
      BY <1>1, <1>9 DEF SaveFile, Notes
    <3> QED BY <3>1, Constants DEF Rams
  <2>3. UNCHANGED <<ui, clip>> /\ save_step' = "closed"
    BY <1>9 DEF SaveFile
  <2> QED BY <1>1, <1>2, <1>3, <2>1, <2>2, <2>3
          DEF Writer, OnlyPort, Os2TypeOK, Uis, Tables, Clips, Rams, Notes, Dirs
<1> QED BY <1>4, <1>5, <1>6, <1>7, <1>8, <1>9

LEMMA RowStepTyped ==
  ASSUME Os2TypeOK, NEW t \in Transfers, NEW i \in Index,
         CopyRow(i, t) \/ OpenFile(i, t)
  PROVE  Os2TypeOK'
<1>1. /\ disk \in [Drives -> Disks] /\ ui \in Uis /\ cfs_files \in Tables
      /\ clip \in Clips /\ ram \in Rams /\ note \in Notes
      /\ save_step \in {"closed", "ask", "file", "folder"} /\ buf_dir \in Dirs
      /\ texts \in 0 .. MaxTexts
  BY Types
<1>2. /\ cfs_files[i] \in Rows /\ disk[ui.port] \in Disks
      /\ disk[ui.port].data \in Data /\ disk[ui.port].dir \in Dirs
  BY <1>1, ReadTyped, DiskFields DEF Tables
<1>3. CASE CopyRow(i, t)
  <2>1. failures' \in Nat /\ misread' \in BOOLEAN
    BY <1>3, TransfersCounted DEF CopyRow
  <2>2. clip' \in Clips
    BY <1>2, <1>3, RowFields DEF CopyRow, Clips
  <2>3. \A l : SectorAt(l) \in 0 .. MaxTexts
    BY <1>2, Os2Constants DEF SectorAt, Data, Blank
  <2>4. ram' \in Rams
    <3>1. DOMAIN ram = 0 .. CopySectors - 1 /\ Blank \in 0 .. MaxTexts
      BY <1>1, Os2Constants DEF Rams, Blank
    <3> QED BY <1>1, <1>3, <2>3, <3>1 DEF CopyRow, Rams
  <2>5. UNCHANGED <<disk, ui, cfs_files, note, save_step, buf_dir, texts>>
    BY <1>3 DEF CopyRow
  <2> QED BY <1>1, <2>1, <2>2, <2>4, <2>5
          DEF Os2TypeOK, Uis, Tables, Clips, Rams, Notes, Dirs
<1>4. CASE OpenFile(i, t)
  <2>1. failures' \in Nat /\ misread' \in BOOLEAN
    <3>1. [t EXCEPT !.read = TRUE] \in Transfers
      BY DEF Transfers
    <3> QED BY <1>4, <3>1, TransfersCounted DEF OpenFile
  <2>2. buf_dir' \in Dirs
    BY <1>1, <1>2, <1>4 DEF OpenFile
  <2>3. note' \in Notes
    <3>1. cfs_files[i].lba \in Sectors
      BY <1>2, RowFields
    <3>2. (IF t.data THEN disk[ui.port].data[cfs_files[i].lba] ELSE Blank)
            \in 0 .. MaxTexts
      BY <1>2, <3>1, Os2Constants DEF Data, Blank
    <3> QED BY <1>1, <1>4, <3>1, <3>2 DEF OpenFile, Notes
  <2>4. UNCHANGED <<disk, ui, cfs_files, clip, ram, save_step, texts>>
    BY <1>4 DEF OpenFile
  <2> QED BY <1>1, <2>1, <2>2, <2>3, <2>4
          DEF Os2TypeOK, Uis, Tables, Clips, Rams, Notes, Dirs
<1> QED BY <1>3, <1>4

LEMMA OtherStepTyped ==
  ASSUME Os2TypeOK,
         \/ \E d \in Drives : SelectDrive(d)
         \/ Back \/ Leave \/ Type \/ SaveAs \/ SaveNext \/ PowerCut
         \/ \E i \in Index : OpenFolder(i)
  PROVE  Os2TypeOK' /\ UNCHANGED <<disk, failures, misread>>
<1>1. /\ disk \in [Drives -> Disks] /\ ui \in Uis /\ cfs_files \in Tables
      /\ clip \in Clips /\ ram \in Rams /\ note \in Notes
      /\ save_step \in {"closed", "ask", "file", "folder"} /\ buf_dir \in Dirs
      /\ failures \in Nat /\ misread \in BOOLEAN
      /\ texts \in 0 .. MaxTexts
  BY Types
<1>2. UNCHANGED <<disk, failures, misread>>
  BY DEF SelectDrive, Back, Leave, Type, SaveAs, SaveNext, PowerCut, OpenFolder,
         NoTransfer
<1>3. ASSUME NEW folder \in Index \cup {Root}, Refreshed(folder)
      PROVE  cfs_files' \in Tables
  BY <1>1, <1>3, ScrapedTyped DEF Refreshed
<1>4. CASE (\E d \in Drives : SelectDrive(d)) \/ Back
  <2>1. ui' \in Uis
    <3>1. ui.port \in Drives /\ Root \in Index \cup {Root}
      BY <1>1 DEF Uis
    <3> QED BY <1>1, <1>4, <3>1, UiUpdates DEF SelectDrive, Back
  <2>2. UNCHANGED <<cfs_files, clip, ram, note, save_step, texts, buf_dir>>
    BY <1>4 DEF SelectDrive, Back, NoTransfer
  <2> QED BY <1>1, <1>2, <2>1, <2>2
          DEF Os2TypeOK, Uis, Tables, Clips, Rams, Notes, Dirs
<1>5. CASE Leave \/ \E i \in Index : OpenFolder(i)
  <2>1. PICK folder \in Index \cup {Root} :
          ui' = [ui EXCEPT !.folder = folder] /\ Refreshed(folder)
    BY <1>1, <1>5 DEF Leave, OpenFolder, Uis
  <2>2. ui' \in Uis /\ cfs_files' \in Tables
    BY <1>1, <1>3, <2>1, UiUpdates DEF Uis
  <2>3. UNCHANGED <<clip, ram, note, save_step, texts, buf_dir>>
    BY <1>5 DEF Leave, OpenFolder, NoTransfer
  <2> QED BY <1>1, <1>2, <2>2, <2>3
          DEF Os2TypeOK, Uis, Tables, Clips, Rams, Notes, Dirs
<1>6. CASE Type
  <2>1. texts' \in 0 .. MaxTexts
    BY <1>1, <1>6, Os2Constants DEF Type
  <2>2. note' \in Notes
    BY <1>1, <1>6, <2>1 DEF Type, Notes
  <2>3. UNCHANGED <<ui, cfs_files, clip, ram, save_step, buf_dir>>
    BY <1>6 DEF Type, NoTransfer
  <2> QED BY <1>1, <1>2, <2>1, <2>2, <2>3
          DEF Os2TypeOK, Uis, Tables, Clips, Rams, Notes, Dirs
<1>7. CASE SaveAs \/ SaveNext
  <2>1. /\ UNCHANGED <<ui, cfs_files, clip, ram, note, texts, buf_dir>>
        /\ save_step' \in {"ask", "file", "folder"}
    BY <1>7 DEF SaveAs, SaveNext, NoTransfer
  <2> QED BY <1>1, <1>2, <2>1
          DEF Os2TypeOK, Uis, Tables, Clips, Rams, Notes, Dirs
<1>8. CASE PowerCut
  <2>1. /\ ui' \in Uis /\ cfs_files' \in Tables /\ clip' \in Clips
        /\ ram' \in Rams /\ note' \in Notes /\ buf_dir' \in Dirs
        /\ save_step' = "closed" /\ UNCHANGED texts
    BY <1>8, Constants DEF PowerCut
  <2> QED BY <1>1, <1>2, <2>1
          DEF Os2TypeOK, Uis, Tables, Clips, Rams, Notes, Dirs
<1> QED BY <1>2, <1>4, <1>5, <1>6, <1>7, <1>8

LEMMA Os2Initially == Os2Init => Os2TypeOK
<1> SUFFICES ASSUME Os2Init PROVE Os2TypeOK
  OBVIOUS
<1>1. /\ disk \in [Drives -> Disks] /\ ui \in Uis /\ cfs_files \in Tables
      /\ clip \in Clips /\ ram \in Rams /\ note \in Notes /\ buf_dir \in Dirs
  BY Constants, FirstDisksTyped DEF Os2Init
<1>2. /\ save_step = "closed" /\ failures \in Nat /\ misread \in BOOLEAN
      /\ texts \in 0 .. MaxTexts
  <2>1. save_step = "closed" /\ failures = 0 /\ misread = FALSE /\ texts = 0
    BY Zenon DEF Os2Init
  <2>2. misread \in BOOLEAN
    BY <2>1, Zenon
  <2>3. failures \in Nat
    BY <2>1
  <2>4. texts \in 0 .. MaxTexts
    BY <2>1, Os2Constants
  <2> QED BY <2>1, <2>2, <2>3, <2>4, Zenon
<1> QED BY <1>1, <1>2, Types

LEMMA Os2StepTyped == ASSUME Os2TypeOK, [Os2Next]_os2Vars PROVE Os2TypeOK'
<1>1. CASE UNCHANGED os2Vars
  BY <1>1 DEF os2Vars, Os2TypeOK
<1> QED BY <1>1, TransferStepTyped, RowStepTyped, OtherStepTyped DEF Os2Next

(* Every variable keeps its type, whatever fails: no row or entry names a  *)
(* sector behind the last one, no folder but a row of the table, and the   *)
(* dialog is in a step that it has.                                        *)
THEOREM Os2DiskTyped == Os2Spec => []Os2TypeOK
<1> QED BY Os2Initially, Os2StepTyped, PTL DEF Os2Spec

-----------------------------------------------------------------------------
(* Entries and texts on the drives                                         *)

LEMMA DriveStep ==
  ASSUME Os2TypeOK, Os2Next
  PROVE  \/ UNCHANGED disk /\ (~misread' => ~misread)
         \/ \E t \in Transfers :
              Transferred(t) /\ (Format(t) \/ Save(t) \/ Writer(t))
<1>1. CASE \/ \E d \in Drives : SelectDrive(d)
           \/ Back \/ Leave \/ Type \/ SaveAs \/ SaveNext \/ PowerCut
           \/ \E i \in Index : OpenFolder(i)
  BY <1>1, OtherStepTyped
<1>2. ASSUME NEW t \in Transfers, Format(t) \/ Save(t)
      PROVE  Transferred(t) /\ (Format(t) \/ Save(t) \/ Writer(t))
  BY <1>2 DEF Format, Save
<1>3. ASSUME NEW t \in Transfers,
             \/ Paste(t) \/ PlusFile(t) \/ Mkdir(t) \/ SaveFolder(t)
             \/ \E bin \in BOOLEAN : SaveFile(t, bin)
      PROVE  Transferred(t) /\ Writer(t)
  <2>1. Transferred(t)
    BY <1>3 DEF Paste, PlusFile, Mkdir, SaveFolder, SaveFile
  <2> QED BY <1>3, <2>1, PasteWrites, PlusFileWrites, MkdirWrites,
             SaveFolderWrites, SaveFileWrites
<1>4. ASSUME NEW t \in Transfers, OpenDrive(t)
      PROVE  UNCHANGED disk /\ (~misread' => ~misread)
  BY <1>4, TransfersCounted DEF OpenDrive
<1>5. ASSUME NEW t \in Transfers, NEW i \in Index, CopyRow(i, t) \/ OpenFile(i, t)
      PROVE  UNCHANGED disk /\ (~misread' => ~misread)
  BY <1>5 DEF CopyRow, OpenFile, Transferred
<1> QED BY <1>1, <1>2, <1>3, <1>4, <1>5 DEF Os2Next

(* The same, by what it does to one drive.                                 *)
Untouched(d) == disk'[d].dir = disk[d].dir /\ disk'[d].data = disk[d].data
Wiped(d) == disk'[d].dir = EmptyDir /\ disk'[d].data = disk[d].data
NoteSaved(d) ==
  /\ disk'[d].dir = disk[d].dir
  /\ \A l \in Index : disk'[d].data[l] # disk[d].data[l] =>
                      note.lba = l /\ disk'[d].data[l] = note.text
EntryAdded(d) ==
  \E s \in Index, e \in Entries :
    /\ disk[d].dir[s].type = 0 /\ e.type # 0
    /\ \A k \in 0 .. s - 1 : disk[d].dir[k].type # 0
    /\ disk'[d].dir \in {disk[d].dir, [disk[d].dir EXCEPT ![s] = e]}
    /\ \A l \in 0 .. s - 1 : disk'[d].data[l] = disk[d].data[l]
Effect(d) == Untouched(d) \/ Wiped(d) \/ NoteSaved(d) \/ EntryAdded(d)

LEMMA OneDriveStep ==
  ASSUME Os2TypeOK, [Os2Next]_os2Vars, ~misread', NEW d \in Drives
  PROVE  ~misread /\ Effect(d)
<1>1. CASE UNCHANGED os2Vars
  BY <1>1 DEF os2Vars, Effect, Untouched
<1>2. CASE UNCHANGED disk /\ (~misread' => ~misread)
  BY <1>2 DEF Effect, Untouched
<1>3. ASSUME NEW t \in Transfers, Transferred(t), Format(t) \/ Save(t) \/ Writer(t)
      PROVE  ~misread /\ Effect(d)
  <2>1. ~misread /\ t.read
    BY <1>3, TransfersCounted
  <2>2. CASE Format(t)
    BY <2>1, <2>2, FormatWrites DEF Effect, Untouched, Wiped
  <2>3. CASE Save(t)
    <3>1. CASE d = ui.port
      BY <2>1, <2>3, <3>1, SaveWrites DEF Effect, NoteSaved
    <3>2. CASE d # ui.port
      BY <2>1, <2>3, <3>2, SaveWrites DEF OnlyPort, Effect, Untouched
    <3> QED BY <3>1, <3>2
  <2>4. CASE Writer(t)
    <3>1. CASE disk' = disk \/ d # ui.port
      BY <2>1, <2>4, <3>1 DEF Writer, OnlyPort, Effect, Untouched
    <3>2. CASE disk' # disk /\ d = ui.port
      <4>1. PICK s \in Index, e \in Entries, r \in Dirs : Adds(t, s, e, r)
        BY <2>4, <3>2 DEF Writer
      <4>2. r = disk[d].dir /\ t.dir \in BOOLEAN
        BY <2>1, <3>2, <4>1 DEF Adds, Transfers
      <4>3. disk'[d].dir \in {disk[d].dir, [disk[d].dir EXCEPT ![s] = e]}
        BY <3>2, <4>1, <4>2 DEF Adds
      <4>4. EntryAdded(d)
        BY <3>2, <4>1, <4>2, <4>3 DEF Adds, EntryAdded
      <4> QED BY <2>1, <4>4 DEF Effect
    <3> QED BY <3>1, <3>2
  <2> QED BY <1>3, <2>2, <2>3, <2>4
<1> QED BY <1>1, <1>2, <1>3, DriveStep

LEMMA Os2TypeFacts ==
  ASSUME Os2TypeOK, NEW d \in Drives
  PROVE  /\ disk[d] \in Disks /\ disk[d].dir \in Dirs /\ disk[d].data \in Data
         /\ \A i \in Index : disk[d].dir[i] \in Entries
BY DiskFields DEF Os2TypeOK, Dirs

(* While the directory can be read, an entry that any of the five writers  *)
(* has put on a drive stays there until the drive is formatted.            *)
THEOREM WrittenEntriesStay == Os2Spec => EntriesStay
<1>1. ASSUME Os2TypeOK, [Os2Next]_os2Vars
      PROVE  [\A d \in Drives : (~misread' /\ disk'[d].dir # EmptyDir) =>
                \A i \in Index : disk[d].dir[i].type # 0 =>
                                   disk'[d].dir[i] = disk[d].dir[i]]_os2Vars
  <2> SUFFICES ASSUME NEW d \in Drives, ~misread', disk'[d].dir # EmptyDir,
                      NEW i \in Index, disk[d].dir[i].type # 0
               PROVE  disk'[d].dir[i] = disk[d].dir[i]
    OBVIOUS
  <2>1. Effect(d)
    BY <1>1, OneDriveStep
  <2>2. CASE EntryAdded(d)
    <3>1. PICK s \in Index, e \in Entries :
            /\ disk[d].dir[s].type = 0
            /\ disk'[d].dir \in {disk[d].dir, [disk[d].dir EXCEPT ![s] = e]}
      BY <2>2 DEF EntryAdded
    <3>2. s # i
      BY <3>1
    <3> QED BY <1>1, <3>1, <3>2, Os2TypeFacts DEF Dirs
  <2> QED BY <2>1, <2>2 DEF Effect, Untouched, Wiped, NoteSaved
<1>2. QED
  BY <1>1, Os2DiskTyped, PTL DEF Os2Spec, EntriesStay

(* The occupied entries of a directory come first: with that the sectors   *)
(* of PASTE, which start at the first free entry or later, lie behind      *)
(* those of every text that SAVE AS has stored.                            *)
Dense(dir) ==
  \A i, k \in Index : (k < i /\ dir[i].type # 0) => dir[k].type # 0
DensityInv == ~misread => \A d \in Drives : Dense(disk[d].dir)

LEMMA StaysDense ==
  ASSUME Os2TypeOK, DensityInv, [Os2Next]_os2Vars
  PROVE  DensityInv'
<1> SUFFICES ASSUME ~misread', NEW d \in Drives PROVE Dense(disk'[d].dir)
  BY DEF DensityInv
<1>1. ~misread /\ Effect(d)
  BY OneDriveStep
<1>2. Dense(disk[d].dir)
  BY <1>1 DEF DensityInv
<1>3. Dense(EmptyDir)
  BY DEF Dense, EmptyDir, NoEntry
<1>4. CASE EntryAdded(d)
  <2>1. PICK s \in Index, e \in Entries :
          /\ e.type # 0
          /\ \A k \in 0 .. s - 1 : disk[d].dir[k].type # 0
          /\ disk'[d].dir \in {disk[d].dir, [disk[d].dir EXCEPT ![s] = e]}
    BY <1>4 DEF EntryAdded
  <2> DEFINE r == [disk[d].dir EXCEPT ![s] = e]
  <2>2. Dense(r)
    <3> SUFFICES ASSUME NEW i \in Index, NEW k \in Index, k < i, r[i].type # 0
                 PROVE  r[k].type # 0
      BY DEF Dense
    <3>1. r[s] = e /\ \A x \in Index : x # s => r[x] = disk[d].dir[x]
      BY Os2TypeFacts DEF Dirs
    <3> HIDE DEF r
    <3>2. CASE k = s
      BY <2>1, <3>1, <3>2
    <3>3. CASE k # s /\ i = s
      <4>1. k \in 0 .. s - 1
        BY <3>3, SizeFacts DEF Index
      <4> QED BY <2>1, <3>1, <3>3, <4>1
    <3>4. CASE k # s /\ i # s
      BY <1>2, <3>1, <3>4 DEF Dense
    <3> QED BY <3>2, <3>3, <3>4
  <2> QED BY <1>2, <2>1, <2>2
<1> QED BY <1>1, <1>2, <1>3, <1>4 DEF Effect, Untouched, Wiped, NoteSaved

(* While the directory can be read, a text that SAVE AS has stored changes *)
(* only when the notepad saves with that sector open: on drives that have  *)
(* their free entries behind the others when the kernel boots.             *)
THEOREM StoredTextsStay ==
  ASSUME \A f \in FirstDisks : Dense(f.dir)
  PROVE  Os2Spec => SavedTextsStay
<1>1. Os2Init => Os2TypeOK /\ DensityInv
  <2> SUFFICES ASSUME Os2Init PROVE DensityInv
    BY Os2Initially
  <2>1. disk \in [Drives -> FirstDisks]
    BY DEF Os2Init
  <2> QED BY <2>1 DEF DensityInv
<1>2. (Os2TypeOK /\ DensityInv) /\ [Os2Next]_os2Vars => (Os2TypeOK /\ DensityInv)'
  BY Os2StepTyped, StaysDense
<1>3. ASSUME Os2TypeOK, DensityInv, [Os2Next]_os2Vars
      PROVE  [~misread' =>
                \A d \in Drives, s \in Index :
                  (/\ disk[d].dir[s].type = 1 /\ disk[d].dir[s].lba = SaveLba(s)
                   /\ disk'[d].data[s] # disk[d].data[s])
                  => note.lba = s /\ disk'[d].data[s] = note.text]_os2Vars
  <2> SUFFICES ASSUME ~misread', NEW d \in Drives, NEW s \in Index,
                      disk[d].dir[s].type = 1,
                      disk'[d].data[s] # disk[d].data[s]
               PROVE  note.lba = s /\ disk'[d].data[s] = note.text
    OBVIOUS
  <2>1. ~misread /\ Effect(d)
    BY <1>3, OneDriveStep
  <2>2. Dense(disk[d].dir)
    BY <1>3, <2>1 DEF DensityInv
  <2>3. CASE EntryAdded(d)
    <3>1. PICK f \in Index :
            /\ disk[d].dir[f].type = 0
            /\ \A l \in 0 .. f - 1 : disk'[d].data[l] = disk[d].data[l]
      BY <2>3 DEF EntryAdded
    <3>2. ~(f < s) /\ f # s
      BY <2>2, <3>1 DEF Dense
    <3>3. s \in 0 .. f - 1
      BY <3>2, SizeFacts DEF Index
    <3> QED BY <3>1, <3>3
  <2> QED BY <2>1, <2>3 DEF Effect, Untouched, Wiped, NoteSaved
<1>4. QED
  BY <1>1, <1>2, <1>3, PTL DEF Os2Spec, SavedTextsStay

-----------------------------------------------------------------------------
(* Rows and entries                                                        *)

(* A row shows what its entry says.                                        *)
Agree(row, e) ==
  row.exists => e.type # 0 /\ e.lba = row.lba /\ (e.type = 2) = row.folder
AllAgree(table, dir) == \A i \in Index : Agree(table[i], dir[i])

(* RowsAreOnDisk, and what keeps it: the rows of a CFS drive are never     *)
(* those of the NTFS scraper, which could read them again.                 *)
RowsInv ==
  (ui.opened /\ failures = 0) =>
    /\ ui.port = ui.selected
    /\ disk[ui.port].label = "cfs" =>
         ~ui.ntfs /\ AllAgree(cfs_files, disk[ui.port].dir)

LEMMA RowsInvMeans == RowsInv => RowsAreOnDisk
BY DEF RowsInv, RowsAreOnDisk, AllAgree, Agree

LEMMA RowOfAgrees ==
  ASSUME NEW row \in Rows, NEW e \in Entries
  PROVE  Agree(RowOf(row, e), e)
<1>1. CASE e.type = 0
  <2>1. Emptied(row).exists = FALSE
    BY DEF Emptied, Rows
  <2> QED BY <1>1, <2>1 DEF Agree, RowOf
<1>2. CASE e.type # 0
  <2> DEFINE r == [exists |-> TRUE, folder |-> e.type = 2, lba |-> e.lba,
                   parent |-> e.parent, bin |-> e.bin]
  <2>1. RowOf(row, e) = r
    BY <1>2 DEF RowOf
  <2>2. r.lba = e.lba /\ r.folder = (e.type = 2)
    BY Zenon
  <2> HIDE DEF r
  <2> QED BY <1>2, <2>1, <2>2, Zenon DEF Agree
<1> QED BY <1>1, <1>2

LEMMA OnRows ==
  ASSUME Os2TypeOK, NEW table \in Tables, NEW dir \in Dirs, AllAgree(table, dir),
         NEW s \in Index, NEW e \in Entries, dir[s].type = 0, e.type # 0,
         NEW table2 \in Tables,
         \A i \in Index : \/ table2[i] = table[i]
                         \/ /\ i = s /\ table2[i].lba = e.lba
                            /\ table2[i].folder = (e.type = 2)
  PROVE  AllAgree(table2, [dir EXCEPT ![s] = e])
<1> SUFFICES ASSUME NEW i \in Index
             PROVE  Agree(table2[i], [dir EXCEPT ![s] = e][i])
  BY DEF AllAgree
<1>1. Agree(table[i], dir[i])
  BY DEF AllAgree
<1>2. CASE i = s
  <2>1. [dir EXCEPT ![s] = e][i] = e
    BY <1>2 DEF Dirs
  <2>2. ~table[i].exists
    BY <1>1, <1>2 DEF Agree
  <2>3. CASE table2[i] = table[i]
    BY <2>1, <2>2, <2>3 DEF Agree
  <2>4. CASE table2[i].lba = e.lba /\ table2[i].folder = (e.type = 2)
    BY <2>1, <2>4, Zenon DEF Agree
  <2> QED BY <2>3, <2>4
<1>3. CASE i # s
  <2>1. [dir EXCEPT ![s] = e][i] = dir[i] /\ table2[i] = table[i]
    BY <1>3 DEF Dirs
  <2> QED BY <1>1, <2>1
<1> QED BY <1>2, <1>3

LEMMA WriterKeepsRows ==
  ASSUME Os2TypeOK, RowsInv, NEW t \in Transfers, Transferred(t), Writer(t),
         UNCHANGED ui
  PROVE  RowsInv'
<1> SUFFICES ASSUME ui.opened, failures' = 0
             PROVE  /\ ui.port = ui.selected
                    /\ disk'[ui.port].label = "cfs" =>
                         ~ui.ntfs /\ AllAgree(cfs_files', disk'[ui.port].dir)
  BY DEF RowsInv
<1>1. failures = 0 /\ t.read /\ t.dir /\ ui.port = ui.selected
  BY TransfersCounted DEF RowsInv
<1>2. disk'[ui.port].label = disk[ui.port].label
  BY DEF Writer, OnlyPort
<1> SUFFICES ASSUME disk[ui.port].label = "cfs"
             PROVE  ~ui.ntfs /\ AllAgree(cfs_files', disk'[ui.port].dir)
  BY <1>1, <1>2
<1>3. ~ui.ntfs /\ AllAgree(cfs_files, disk[ui.port].dir)
  BY <1>1 DEF RowsInv
<1>4. CASE disk' = disk /\ cfs_files' = cfs_files
  BY <1>3, <1>4
<1>5. ASSUME NEW s \in Index, NEW e \in Entries, NEW r \in Dirs,
             Adds(t, s, e, r), Shows(s, e)
      PROVE  AllAgree(cfs_files', disk'[ui.port].dir)
  <2>1. /\ r = disk[ui.port].dir /\ disk'[ui.port].dir = [r EXCEPT ![s] = e]
        /\ r[s].type = 0 /\ e.type # 0
    BY <1>1, <1>5 DEF Adds
  <2>2. cfs_files \in Tables /\ cfs_files' \in Tables
    BY Types DEF Writer
  <2>3. AllAgree(cfs_files', [r EXCEPT ![s] = e])
    BY <1>3, <1>5, <2>1, <2>2, OnRows DEF Shows
  <2> QED BY <2>1, <2>3
<1> QED BY <1>3, <1>4, <1>5 DEF Writer

LEMMA RowsKept ==
  ASSUME Os2TypeOK, RowsInv, [Os2Next]_os2Vars
  PROVE  RowsInv'
<1>1. CASE UNCHANGED os2Vars
  BY <1>1 DEF os2Vars, RowsInv
<1>2. ASSUME NEW t \in Transfers,
             \/ Paste(t) \/ PlusFile(t) \/ Mkdir(t) \/ SaveFolder(t)
             \/ \E bin \in BOOLEAN : SaveFile(t, bin)
      PROVE  RowsInv'
  <2>1. Transferred(t) /\ UNCHANGED ui
    BY <1>2 DEF Paste, PlusFile, Mkdir, SaveFolder, SaveFile
  <2>2. Writer(t)
    BY <1>2, PasteWrites, PlusFileWrites, MkdirWrites, SaveFolderWrites,
       SaveFileWrites
  <2> QED BY <2>1, <2>2, WriterKeepsRows
<1>3. ASSUME NEW t \in Transfers, OpenDrive(t) PROVE RowsInv'
  <2> SUFFICES ASSUME failures' = 0
               PROVE  /\ ui'.port = ui'.selected
                      /\ disk'[ui'.port].label = "cfs" =>
                           ~ui'.ntfs /\ AllAgree(cfs_files', disk'[ui'.port].dir)
    BY DEF RowsInv
  <2>1. t.read /\ t.data
    BY <1>3, TransfersCounted DEF OpenDrive
  <2>2. /\ UNCHANGED disk /\ ui'.port = ui.selected /\ ui'.selected = ui.selected
        /\ ui.selected \in Drives /\ cfs_files \in Tables
    BY <1>3, OpenedTyped, Types DEF OpenDrive, Uis
  <2>3. ASSUME disk[ui.selected].label = "cfs"
        PROVE  ~ui'.ntfs /\ AllAgree(cfs_files', disk[ui.selected].dir)
    <3>1. /\ ~ui'.ntfs
          /\ \A i \in Index : cfs_files'[i] =
               RowOf(cfs_files[i], disk[ui.selected].dir[i])
      BY <1>3, <2>1, <2>3, OpenedTyped
    <3>2. \A i \in Index : /\ cfs_files[i] \in Rows
                           /\ disk[ui.selected].dir[i] \in Entries
      BY <2>2, Os2TypeFacts DEF Tables
    <3> QED BY <3>1, <3>2, RowOfAgrees DEF AllAgree
  <2> QED BY <2>2, <2>3
<1>4. ASSUME NEW folder, ui' = [ui EXCEPT !.folder = folder], Refreshed(folder),
             UNCHANGED <<disk, failures>>
      PROVE  RowsInv'
  <2>1. /\ ui'.opened = ui.opened /\ ui'.port = ui.port
        /\ ui'.selected = ui.selected /\ ui'.ntfs = ui.ntfs
    BY <1>4, Types DEF Uis
  <2> QED BY <1>4, <2>1 DEF RowsInv, Refreshed
<1>5. CASE Leave \/ \E i \in Index : OpenFolder(i)
  BY <1>4, <1>5 DEF Leave, OpenFolder, NoTransfer
<1>6. CASE \/ \E d \in Drives : SelectDrive(d)
           \/ Back \/ PowerCut \/ \E t \in Transfers : Format(t)
  <2>1. ~ui'.opened
    <3>1. ui \in Uis
      BY Types
    <3> QED BY <1>6, <3>1 DEF SelectDrive, Back, PowerCut, Booted, Format, Uis
  <2> QED BY <2>1 DEF RowsInv
<1>7. CASE Type \/ SaveAs \/ SaveNext
  BY <1>7 DEF Type, SaveAs, SaveNext, NoTransfer, RowsInv
<1>8. ASSUME NEW t \in Transfers, NEW i \in Index, CopyRow(i, t) \/ OpenFile(i, t)
      PROVE  RowsInv'
  <2>1. UNCHANGED <<disk, ui, cfs_files>>
    BY <1>8 DEF CopyRow, OpenFile
  <2>2. failures' = 0 => failures = 0
    <3>1. [t EXCEPT !.read = TRUE] \in Transfers
      BY DEF Transfers
    <3> QED BY <1>8, <3>1, TransfersCounted DEF CopyRow, OpenFile
  <2> QED BY <2>1, <2>2 DEF RowsInv
<1>9. ASSUME NEW t \in Transfers, Save(t) PROVE RowsInv'
  <2>1. /\ UNCHANGED <<ui, cfs_files>> /\ disk'[ui.port].dir = disk[ui.port].dir
        /\ disk'[ui.port].label = disk[ui.port].label
    BY <1>9, SaveWrites DEF Save, OnlyPort
  <2>2. failures' = 0 => failures = 0
    BY <1>9, TransfersCounted DEF Save
  <2> QED BY <2>1, <2>2 DEF RowsInv
<1> QED BY <1>1, <1>2, <1>3, <1>5, <1>6, <1>7, <1>8, <1>9 DEF Os2Next

(* Before the first failed transfer, the rows of an open CFS drive are     *)
(* those of its directory, and clicks go to the drive that is selected.    *)
THEOREM RowsStayOnDisk == Os2Spec => []RowsAreOnDisk
<1>1. Os2Init => RowsInv
  BY DEF Os2Init, Booted, RowsInv
<1>2. (Os2TypeOK /\ RowsInv) /\ [Os2Next]_os2Vars => (Os2TypeOK /\ RowsInv)'
  BY Os2StepTyped, RowsKept
<1>3. QED
  BY <1>1, <1>2, Os2Initially, RowsInvMeans, PTL DEF Os2Spec
=============================================================================
