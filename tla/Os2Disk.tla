------------------------------ MODULE Os2Disk -------------------------------
(***************************************************************************)
(* Disk manager, notepad, Save-As dialog, clipboard and the command MKDIR  *)
(* of the 64-bit kernel (kernel_main.cpp).  Five places read sector 1002   *)
(* into the one buffer at 0x00901000, take the first free entry and write  *)
(* the sector back; what the notepad saves, what the clipboard holds and   *)
(* what PASTE writes all pass through the one buffer at 0x09000000.        *)
(*                                                                         *)
(* Sectors are counted from LBA 4000.  SAVE AS puts the text of entry s    *)
(* into sector s, PASTE its copy into CopySectors sectors from             *)
(* s * CopySectors.  A window is taken to be in front whenever one of its  *)
(* buttons is clicked.  need_ui_refresh is left out: an NTFS listing is    *)
(* read again in the frame that asks for it, before the next click.        *)
(***************************************************************************)
EXTENDS Integers

CONSTANTS Drives,       \* detected_ports
          DirSlots,     \* number of entries in the directory sector (28)
          ShellSlots,   \* how many of them MKDIR looks at (8)
          CopySectors,  \* sectors that COPY and PASTE move (10)
          FirstDisks,   \* what the drives may hold when the kernel boots
          MaxTexts,     \* bound on the texts typed into the notepad
          MaxFailures,  \* bound on the transfers that fail
          MaxClicks     \* bound on the clicks

ASSUME Os2Constants ==
  /\ DirSlots \in Nat \ {0} /\ ShellSlots \in 1..DirSlots /\ CopySectors \in Nat \ {0}
  /\ MaxTexts \in Nat /\ MaxFailures \in Nat /\ MaxClicks \in Nat
  /\ Drives # {}

VARIABLES disk,      \* per drive: label (sector 0), dir (1002), data
          ui,        \* selected_drive_idx, active_sata_port, is_mounted,
                     \* dsk_mgr_opened, current_folder_id, is_ntfs_drive
          cfs_files, \* the rows of the disk manager
          clip,      \* clipboard_active, _is_folder and _name
          ram,       \* the sectors at 0x09000000
          note,      \* text of the notepad and active_file_lba
          save_step, \* the Save-As dialog, or "closed"
          buf_dir,   \* the entries at 0x00901000
          failures,  \* transfers that have failed so far
          misread,   \* ghost: some read of the directory has failed
          texts, clicks

os2Vars == <<disk, ui, cfs_files, clip, ram, note, save_step, buf_dir,
             failures, misread, texts, clicks>>
-----------------------------------------------------------------------------
Index == 0 .. DirSlots - 1
None == -1
Root == 255
Blank == 0                              \* zeros, or nothing of interest
AppLba == DirSlots * CopySectors        \* LBA 10000
Scratch == AppLba + CopySectors         \* LBA 500
Record == Scratch + CopySectors         \* a sector whose number is that of an
                                        \* MFT record
Sectors == 0 .. Record
Data == [Sectors -> 0 .. MaxTexts]

Labels == {"cfs", "ntfs", "other"}
Entries == [type : 0..2, lba : Sectors, parent : Index \cup {Root}, bin : BOOLEAN]
Rows == [exists : BOOLEAN, folder : BOOLEAN, lba : Sectors,
         parent : Index \cup {Root}, bin : BOOLEAN]
NoEntry == [type |-> 0, lba |-> 0, parent |-> 0, bin |-> FALSE]
NoRow == [exists |-> FALSE, folder |-> FALSE, lba |-> 0, parent |-> Root,
          bin |-> FALSE]
Disks == [label : Labels, dir : [Index -> Entries], data : Data]
EmptyDir == [i \in Index |-> NoEntry]
Foreign == [i \in Index |-> [NoEntry EXCEPT !.type = 1, !.lba = Record]]

ASSUME FirstDisksTyped == FirstDisks \subseteq Disks

(* Entry i is the first free one among the first n; a search that ends     *)
(* without one leaves -1.                                                  *)
Free(dir, n, i) ==
  IF \A k \in 0 .. n - 1 : dir[k].type # 0 THEN i = None
  ELSE /\ i \in 0 .. n - 1 /\ dir[i].type = 0
       /\ \A k \in 0 .. i - 1 : dir[k].type # 0

SaveLba(s) == s

(* Mutant: PASTE begins two sectors early.                                 *)
PasteBehind(s) == IF s = 0 THEN 0 ELSE s * CopySectors - 2

PasteLba(s) == s * CopySectors

(* Which transfers of a click succeed: reading the directory, moving the   *)
(* data, writing the directory.  Nobody looks at the results but SAVE.     *)
Transfers == [read : BOOLEAN, data : BOOLEAN, dir : BOOLEAN]
Loses(ok) == IF ok THEN 0 ELSE 1
Failed(t) == Loses(t.read) + Loses(t.data) + Loses(t.dir)
Transferred(t) ==
  /\ failures' = failures + Failed(t) /\ failures' <= MaxFailures
  /\ misread' = (misread \/ ~t.read)

Click == clicks < MaxClicks /\ clicks' = clicks + 1
NoTransfer == UNCHANGED <<disk, buf_dir, failures, misread>>

(* Mutant: the directory is taken from the buffer without reading it.      *)
DirStale(t) == buf_dir

(* disk_read_auto clears the buffer first: after a failed read every entry *)
(* looks free.                                                             *)
DirRead(t) == IF t.read THEN disk[ui.port].dir ELSE EmptyDir

NoClip == [active |-> FALSE, folder |-> FALSE, bin |-> FALSE]
NoNote == [text |-> Blank, lba |-> None]
Cleared == [k \in 0 .. CopySectors - 1 |-> Blank]
NoRows == [i \in Index |-> NoRow]
Booted == [selected : {None}, port : Drives, mounted : {FALSE},
           opened : {FALSE}, folder : {Root}, ntfs : {FALSE}]

Os2Init ==
  /\ disk \in [Drives -> FirstDisks] /\ ui \in Booted
  /\ cfs_files = NoRows /\ clip = NoClip /\ ram = Cleared /\ note = NoNote
  /\ save_step = "closed" /\ buf_dir = EmptyDir
  /\ failures = 0 /\ misread = FALSE /\ texts = 0 /\ clicks = 0

-----------------------------------------------------------------------------
(* The list of drives                                                      *)

SelectDrive(d) ==
  /\ Click /\ ~ui.opened
  /\ ui' = [ui EXCEPT !.selected = d, !.port = d, !.mounted = FALSE]
  /\ UNCHANGED <<cfs_files, clip, ram, note, save_step, texts>> /\ NoTransfer

(* FORMAT asks nobody and writes two sectors, whatever the drive holds.    *)
Formatted(d, t) ==
  [d EXCEPT !.label = IF t.data THEN "cfs" ELSE @,
            !.dir = IF t.dir THEN EmptyDir ELSE @]

Format(t) ==
  /\ Click /\ ~ui.opened /\ ui.selected # None
  /\ t.read /\ Transferred(t)
  /\ disk' = [disk EXCEPT ![ui.port] = Formatted(@, t)]
  /\ buf_dir' = EmptyDir
  /\ cfs_files' = [i \in Index |-> [cfs_files[i] EXCEPT !.exists = FALSE,
                                      !.folder = FALSE, !.parent = Root]]
  /\ ui' = [ui EXCEPT !.mounted = FALSE, !.folder = Root]
  /\ UNCHANGED <<clip, ram, note, save_step, texts>>

(* The rows of an open drive.                                              *)
Emptied(row) == [row EXCEPT !.exists = FALSE, !.parent = Root, !.folder = FALSE]
(* Mutant: OPEN does not clear the table first.                            *)
RowStays(row, e) ==
  IF e.type = 0 THEN row
  ELSE [exists |-> TRUE, folder |-> e.type = 2, lba |-> e.lba,
        parent |-> e.parent, bin |-> e.bin]

RowOf(row, e) ==
  IF e.type = 0 THEN Emptied(row)
  ELSE [exists |-> TRUE, folder |-> e.type = 2, lba |-> e.lba,
        parent |-> e.parent, bin |-> e.bin]

(* The scraper lists up to eight records of a page of the MFT; the number  *)
(* of a record stands where a CFS row has its sector.                      *)
Scraped(folder) ==
  {[i \in Index |-> IF i < n THEN [exists |-> TRUE, folder |-> f, lba |-> Record,
                                   parent |-> folder, bin |-> FALSE]
                    ELSE [cfs_files[i] EXCEPT !.exists = FALSE]] :
     n \in {0, 1}, f \in BOOLEAN}

(* OPEN.  t.data is the reading of sector 0.  A drive with neither CFS nor *)
(* NTFS counts as mounted, too, and leaves is_ntfs_drive as it was.        *)
OpenDrive(t) ==
  LET label == IF t.data THEN disk[ui.selected].label ELSE "other"
  IN  /\ Click /\ ~ui.opened /\ ui.selected # None
      /\ t.dir /\ (label # "cfs" => t.read) /\ Transferred(t)
      /\ ui' = [ui EXCEPT !.port = ui.selected, !.mounted = TRUE,
                          !.opened = TRUE, !.folder = Root,
                          !.ntfs = CASE label = "cfs" -> FALSE
                                     [] label = "ntfs" -> TRUE
                                     [] OTHER -> @]
      /\ CASE label = "cfs" ->
                /\ buf_dir' = IF t.read THEN disk[ui.selected].dir ELSE EmptyDir
                /\ cfs_files' = [i \in Index |-> RowOf(cfs_files[i], buf_dir'[i])]
           [] label = "ntfs" -> buf_dir' = Foreign /\ cfs_files' \in Scraped(Root)
           [] OTHER -> /\ UNCHANGED buf_dir
                       /\ cfs_files' = [i \in Index |-> Emptied(cfs_files[i])]
      /\ UNCHANGED <<disk, clip, ram, note, save_step, texts>>

Back ==
  /\ Click /\ ui.opened /\ ui.folder = Root
  /\ ui' = [ui EXCEPT !.opened = FALSE]
  /\ UNCHANGED <<cfs_files, clip, ram, note, save_step, texts>> /\ NoTransfer

(* [ BACK ], PREV, NEXT and REF inside a folder: an NTFS listing is read   *)
(* again from the cache.                                                   *)
Refreshed(folder) ==
  IF ui.ntfs THEN cfs_files' \in Scraped(folder) ELSE UNCHANGED cfs_files

Leave ==
  /\ Click /\ ui.opened /\ ui.folder # Root
  /\ \E folder \in {Root, ui.folder} :
       ui' = [ui EXCEPT !.folder = folder] /\ Refreshed(folder)
  /\ UNCHANGED <<clip, ram, note, save_step, texts>> /\ NoTransfer

-----------------------------------------------------------------------------
(* The rows                                                                *)
Shown(i) == ui.opened /\ cfs_files[i].exists /\ cfs_files[i].parent = ui.folder

OpenFolder(i) ==
  /\ Click /\ Shown(i) /\ cfs_files[i].folder
  /\ ui' = [ui EXCEPT !.folder = i] /\ Refreshed(i)
  /\ UNCHANGED <<clip, ram, note, save_step, texts>> /\ NoTransfer

(* A .BIN goes to the loader, another file to the notepad: the sector that *)
(* the row names.  The directory is read too, and not used.                *)
OpenFile(i, t) ==
  /\ Click /\ Shown(i) /\ ~cfs_files[i].folder
  /\ t.dir /\ Transferred([t EXCEPT !.read = TRUE])
  /\ buf_dir' = IF t.read THEN disk[ui.port].dir ELSE buf_dir
  /\ note' = IF cfs_files[i].bin THEN note
              ELSE [lba |-> cfs_files[i].lba,
                    text |-> IF t.data THEN disk[ui.port].data[cfs_files[i].lba]
                             ELSE Blank]
  /\ UNCHANGED <<disk, ui, cfs_files, clip, ram, save_step, texts>>

SectorAt(lba) == IF lba \in Sectors THEN disk[ui.port].data[lba] ELSE Blank

CopyRow(i, t) ==
  /\ Click /\ Shown(i)
  /\ t.read /\ t.dir /\ Transferred(t)
  /\ ram' = IF cfs_files[i].folder THEN ram
             ELSE [k \in DOMAIN ram |->
                     IF t.data THEN SectorAt(cfs_files[i].lba + k) ELSE Blank]
  /\ clip' = [active |-> TRUE, folder |-> cfs_files[i].folder,
              bin |-> cfs_files[i].bin]
  /\ UNCHANGED <<disk, ui, cfs_files, note, save_step, buf_dir, texts>>

-----------------------------------------------------------------------------
(* The writers of the directory.  Each one puts an entry into the first    *)
(* free place of what it takes for the directory, and writes that.         *)
Written(dir, t) ==
  disk' = [disk EXCEPT ![ui.port].dir = IF t.dir THEN dir ELSE @]

(* PASTE.  The table is not read again, so the row shows after the next    *)
(* OPEN only.                                                              *)
Pasted(data, s, t) ==
  IF clip.folder \/ ~t.data THEN data
  ELSE [l \in Sectors |->
          IF l - PasteLba(s) \in DOMAIN ram THEN ram[l - PasteLba(s)] ELSE data[l]]

Paste(t) ==
  LET dir == DirRead(t)
  IN  /\ Click /\ ui.opened /\ clip.active /\ ~ui.ntfs
      /\ \E s \in Index \cup {None} :
           /\ Free(dir, DirSlots, s)
           /\ (s = None \/ clip.folder => t.data) /\ (s = None => t.dir)
           /\ Transferred(t)
           /\ IF s = None
              THEN UNCHANGED <<disk, clip>> /\ buf_dir' = dir
              ELSE /\ buf_dir' = [dir EXCEPT ![s] =
                        [type |-> IF clip.folder THEN 2 ELSE 1,
                         lba |-> IF clip.folder THEN 0 ELSE PasteLba(s),
                         parent |-> ui.folder, bin |-> clip.bin]]
                   /\ disk' = [disk EXCEPT
                        ![ui.port].dir = IF t.dir THEN buf_dir' ELSE @,
                        ![ui.port].data = Pasted(@, s, t)]
                   /\ clip' = [clip EXCEPT !.active = FALSE]
      /\ UNCHANGED <<ui, cfs_files, ram, note, save_step, texts>>

(* + FILE: an entry for the program at LBA 10000.  Neither the entry nor   *)
(* the row gets a parent: the row is in the root until the next OPEN, and  *)
(* then in the folder of row 0.                                            *)
PlusFile(t) ==
  LET dir == DirRead(t)
  IN  /\ Click /\ ui.opened /\ t.data
      /\ \E s \in Index \cup {None} :
           /\ Free(dir, DirSlots, s) /\ (s = None => t.dir) /\ Transferred(t)
           /\ IF s = None
              THEN UNCHANGED <<disk, cfs_files>> /\ buf_dir' = dir
              ELSE /\ buf_dir' = [dir EXCEPT ![s] =
                        [@ EXCEPT !.type = 1, !.lba = AppLba, !.bin = TRUE]]
                   /\ Written(buf_dir', t)
                   /\ cfs_files' = [cfs_files EXCEPT ![s] =
                        [@ EXCEPT !.exists = TRUE, !.folder = FALSE,
                                  !.lba = AppLba, !.bin = TRUE]]
      /\ UNCHANGED <<ui, clip, ram, note, save_step, texts>>

(* MKDIR of the shell goes to the active port, opened or not, looks at     *)
(* eight entries only, and does not clear the buffer first.                *)
Mkdir(t) ==
  LET dir == IF t.read THEN disk[ui.port].dir ELSE buf_dir
  IN  /\ Click /\ t.data
      /\ \E s \in Index \cup {None} :
           /\ Free(dir, ShellSlots, s) /\ (s = None => t.dir) /\ Transferred(t)
           /\ IF s = None
              THEN UNCHANGED disk /\ buf_dir' = dir
              ELSE /\ buf_dir' = [dir EXCEPT ![s] =
                        [@ EXCEPT !.type = 2, !.lba = 0, !.bin = FALSE]]
                   /\ Written(buf_dir', t)
      /\ UNCHANGED <<ui, cfs_files, clip, ram, note, save_step, texts>>

-----------------------------------------------------------------------------
(* The notepad                                                             *)

Type ==
  /\ Click /\ texts < MaxTexts /\ texts' = texts + 1
  /\ note' = [note EXCEPT !.text = texts']
  /\ UNCHANGED <<ui, cfs_files, clip, ram, save_step>> /\ NoTransfer

(* SAVE goes to the drive that is active now, by way of the clipboard's    *)
(* first sector.                                                           *)
Save(t) ==
  /\ Click /\ t.read /\ t.dir /\ Transferred(t)
  /\ ram' = [ram EXCEPT ![0] = note.text]
  /\ disk' = [disk EXCEPT ![ui.port].data[IF note.lba > 0 \/ note.lba = SaveLba(0)
                                          THEN note.lba ELSE Scratch] =
                 IF t.data THEN note.text ELSE @]
  /\ UNCHANGED <<ui, cfs_files, clip, note, save_step, buf_dir, texts>>

SaveAs ==
  /\ Click /\ save_step' = "ask"
  /\ UNCHANGED <<ui, cfs_files, clip, ram, note, texts>> /\ NoTransfer

(* Only the first step asks for a mounted drive.                           *)
SaveNext ==
  /\ Click /\ save_step = "ask" /\ ui.mounted
  /\ save_step' \in {"file", "folder"}
  /\ UNCHANGED <<ui, cfs_files, clip, ram, note, texts>> /\ NoTransfer

SaveFile(t, bin) ==
  LET dir == DirRead(t)
  IN  /\ Click /\ save_step = "file"
      /\ ram' = [Cleared EXCEPT ![0] = note.text]
      /\ \E s \in Index \cup {None} :
           /\ Free(dir, DirSlots, s) /\ (s = None => t.data /\ t.dir) /\ Transferred(t)
           /\ IF s = None
              THEN UNCHANGED <<disk, cfs_files, note>> /\ buf_dir' = dir
              ELSE /\ buf_dir' = [dir EXCEPT ![s] =
                        [type |-> 1, lba |-> SaveLba(s), parent |-> ui.folder,
                         bin |-> bin]]
                   /\ disk' = [disk EXCEPT
                        ![ui.port].dir = IF t.dir THEN buf_dir' ELSE @,
                        ![ui.port].data[SaveLba(s)] =
                            IF t.data THEN note.text ELSE @]
                   /\ cfs_files' = [cfs_files EXCEPT ![s] =
                        [exists |-> TRUE, folder |-> FALSE, lba |-> SaveLba(s),
                         parent |-> ui.folder, bin |-> bin]]
                   /\ note' = [note EXCEPT !.lba = SaveLba(s)]
      /\ save_step' = "closed"
      /\ UNCHANGED <<ui, clip, texts>>

SaveFolder(t) ==
  LET dir == DirRead(t)
  IN  /\ Click /\ save_step = "folder" /\ t.data
      /\ \E s \in Index \cup {None} :
           /\ Free(dir, DirSlots, s) /\ (s = None => t.dir) /\ Transferred(t)
           /\ IF s = None
              THEN UNCHANGED <<disk, cfs_files>> /\ buf_dir' = dir
              ELSE /\ buf_dir' = [dir EXCEPT ![s] =
                        [type |-> 2, lba |-> 0, parent |-> ui.folder, bin |-> FALSE]]
                   /\ Written(buf_dir', t)
                   /\ cfs_files' = [cfs_files EXCEPT ![s] =
                        [exists |-> TRUE, folder |-> TRUE, lba |-> 0,
                         parent |-> ui.folder, bin |-> FALSE]]
      /\ save_step' = "closed"
      /\ UNCHANGED <<ui, clip, ram, note, texts>>

(* Power is lost and comes back; after a click whose last writes failed it *)
(* was lost in the middle of that click.                                   *)
PowerCut ==
  /\ Click /\ ui' \in Booted
  /\ cfs_files' = NoRows /\ clip' = NoClip /\ ram' = Cleared /\ note' = NoNote
  /\ save_step' = "closed" /\ buf_dir' = EmptyDir
  /\ UNCHANGED <<disk, failures, misread, texts>>

Os2Next ==
  \/ \E d \in Drives : SelectDrive(d)
  \/ Back \/ Leave \/ Type \/ SaveAs \/ SaveNext \/ PowerCut
  \/ \E t \in Transfers :
       \/ Format(t) \/ OpenDrive(t) \/ Paste(t) \/ PlusFile(t) \/ Mkdir(t)
       \/ Save(t) \/ SaveFolder(t)
       \/ \E bin \in BOOLEAN : SaveFile(t, bin)
       \/ \E i \in Index : CopyRow(i, t) \/ OpenFile(i, t)
  \/ \E i \in Index : OpenFolder(i)

Os2Spec == Os2Init /\ [][Os2Next]_os2Vars
-----------------------------------------------------------------------------
Os2TypeOK ==
  /\ disk \in [Drives -> Disks]
  /\ ui \in [selected : Drives \cup {None}, port : Drives, mounted : BOOLEAN,
             opened : BOOLEAN, folder : Index \cup {Root}, ntfs : BOOLEAN]
  /\ cfs_files \in [Index -> Rows]
  /\ clip \in [active : BOOLEAN, folder : BOOLEAN, bin : BOOLEAN]
  /\ ram \in [0 .. CopySectors - 1 -> 0 .. MaxTexts]
  /\ note \in [text : 0 .. MaxTexts, lba : Sectors \cup {None}]
  /\ save_step \in {"closed", "ask", "file", "folder"}
  /\ buf_dir \in [Index -> Entries]
  /\ failures \in Nat /\ misread \in BOOLEAN /\ texts \in 0 .. MaxTexts

(* As long as no transfer has failed, the rows of an open CFS drive name   *)
(* the sectors that its directory names, whatever the dialog and the shell *)
(* have added since, and the port is that of the selected drive.           *)
RowsAreOnDisk ==
  (ui.opened /\ failures = 0) =>
    /\ ui.port = ui.selected
    /\ disk[ui.port].label = "cfs" =>
         \A i \in Index : cfs_files[i].exists =>
           LET e == disk[ui.port].dir[i]
           IN  e.type # 0 /\ e.lba = cfs_files[i].lba
               /\ (e.type = 2) = cfs_files[i].folder

(* As long as the directory could be read, an entry once written stays as  *)
(* it is until the drive is formatted, although five places write the      *)
(* whole sector from one buffer.                                           *)
EntriesStay ==
  [][\A d \in Drives : (~misread' /\ disk'[d].dir # EmptyDir) =>
       \A i \in Index : disk[d].dir[i].type # 0 =>
                          disk'[d].dir[i] = disk[d].dir[i]]_os2Vars

(* ... and the sector of a text that SAVE AS has stored changes only when  *)
(* the notepad, with that sector open, saves: PASTE never covers it.  (It  *)
(* may be another drive's sector of the same number.)                      *)
SavedTextsStay ==
  [][~misread' =>
       \A d \in Drives, s \in Index :
         (/\ disk[d].dir[s].type = 1 /\ disk[d].dir[s].lba = SaveLba(s)
          /\ disk'[d].data[s] # disk[d].data[s])
         => note.lba = s /\ disk'[d].data[s] = note.text]_os2Vars
=============================================================================
