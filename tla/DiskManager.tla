---------------------------- MODULE DiskManager -----------------------------
(***************************************************************************)
(* The RAM side of the 32-bit kernel's disk manager, notepad and Save-As   *)
(* dialog (kernel.cpp): one table of files for all drives, the drive that  *)
(* is selected, and the rows of the table that the tabs of the notepad     *)
(* mean.  Nothing ties the three together: a click changes one of them,    *)
(* and the next click combines it with what the others were before.        *)
(*                                                                         *)
(* What a click does to the drives is an action of CfsDirectory, which     *)
(* allows any slot and drive; here they come from the table.  Which window *)
(* is in front is left out: a button can be clicked whenever its window    *)
(* would show it.                                                          *)
(***************************************************************************)
EXTENDS CfsDirectory

CONSTANTS Tabs,          \* tabs of the notepad
          StackEntries,  \* what a buffer on the stack may hold, per entry
          MaxClicks      \* bound on the clicks

ASSUME DiskManagerConstants == /\ Tabs \subseteq Nat /\ 0 \in Tabs
                               /\ StackEntries \subseteq Entry
                               /\ StackEntries # {}
                               /\ MaxClicks \in Nat

VARIABLES table,   \* file_table
          ui,      \* active_drive_idx, dsk_view, current_folder_view_idx,
                   \* current_path_id and renaming_file_idx
          note,    \* active_tab, tab_files and current_open_file
          loaded,  \* ghost: the drive whose directory the table was read from,
                   \* and has followed since
          clicks   \* clicks so far

dmVars == <<cfsVars, table, ui, note, loaded, clicks>>

-----------------------------------------------------------------------------
None == -1
Root == -1
Rows == [exists : BOOLEAN, folder : BOOLEAN, parent : Slots \cup {Root},
         lba : 0 .. TableSlots]
NoRow == [exists |-> FALSE, folder |-> FALSE, parent |-> Root, lba |-> 0]

(* Mutant: the sector stays from before.                                   *)
RowKeepsSector(row, e) ==
  IF e.type = 0 THEN [row EXCEPT !.exists = FALSE]
  ELSE [row EXCEPT !.exists = TRUE, !.folder = e.type = 2, !.parent = Root]

(* The row for an entry of a directory; without one only exists changes.   *)
RowOf(row, e) ==
  IF e.type = 0 THEN [row EXCEPT !.exists = FALSE]
  ELSE [exists |-> TRUE, folder |-> e.type = 2, parent |-> Root, lba |-> e.lba]

Listed(es) == [i \in Slots |-> RowOf(table[i], es[i])]

(* Mutant: the row of a new file has the sector behind the file's.         *)
NewRowBehind(row, isFolder, i) ==
  [row EXCEPT !.exists = TRUE, !.folder = isFolder,
              !.lba = IF isFolder THEN 0 ELSE NextSector(i)]

(* The rows of + FILE and + DIR: in the root view the parent stays as it   *)
(* was, below a folder it is the folder.                                   *)
NewRow(row, isFolder, i) ==
  [row EXCEPT !.exists = TRUE, !.folder = isFolder,
              !.lba = IF isFolder THEN 0 ELSE DataSector(i)]

(* Mutant: the row of a deleted file stays.                                *)
NotRemoved(row) == row

Removed(row) == [row EXCEPT !.exists = FALSE]

(* drives[-1] lies in front of the array: its port may be any port.        *)
DriveOf(d) == IF d = None THEN Drives ELSE {d}

(* The table follows the drive only as long as it is used with it.         *)
Follows(d) == loaded' = IF loaded = d THEN d ELSE None

Click == job = Idle /\ clicks < MaxClicks /\ clicks' = clicks + 1
OnlyTheWindow == Click /\ UNCHANGED cfsVars

Hidden == [active |-> None, view |-> 0, folder |-> None, path |-> Root,
           renaming |-> None]

(* fs_init, which finds no disk: the two files that it invents, rows in    *)
(* the root as far as it sets them, and rows that nobody has set.          *)
FirstRow(i) == [exists |-> i < 2, folder |-> FALSE,
                parent |-> IF i \in OnDisk THEN Root ELSE 0, lba |-> 0]
FirstTable == [i \in Slots |-> FirstRow(i)]

DmInit ==
  /\ Init
  /\ table = FirstTable
  /\ ui = Hidden
  /\ note = [tab |-> 0, files |-> [t \in Tabs |-> None], open |-> None]
  /\ loaded = None
  /\ clicks = 0

-----------------------------------------------------------------------------
(* The list of drives (view 0)                                             *)

(* Mounting moves the rows of sticks to the front and adds the disks again *)
(* behind them; active_drive_idx stays, in every view, and may now mean    *)
(* another drive.  (Rows behind the last one keep what they held.)         *)
Renumbered == IF ui.active = None THEN {None} ELSE Drives

OpenWindow ==
  /\ Click /\ Mount
  /\ \E home \in BOOLEAN, d \in Renumbered :   \* the icon, or the button REF
       ui' = IF home THEN [ui EXCEPT !.active = d, !.view = 0, !.path = Root]
             ELSE [ui EXCEPT !.active = d]
  /\ UNCHANGED <<table, note, loaded>>

(* HOME, and closing the window, which keeps the folder.                   *)
Home ==
  /\ OnlyTheWindow
  /\ ui' \in {[ui EXCEPT !.view = 0, !.folder = None, !.path = Root],
              [ui EXCEPT !.view = 0, !.path = Root]}
  /\ UNCHANGED <<table, note, loaded>>

SelectDrive(d) ==
  /\ OnlyTheWindow /\ ui.view = 0
  /\ ui' = [ui EXCEPT !.active = d]
  /\ UNCHANGED <<table, note, loaded>>

(* OPEN DRIVE.  From a CFS drive every row is set, the rows beyond the     *)
(* sector, and all of them when the read fails, from the stack.            *)
OpenCfs(d) ==
  \E r \in Bit, stack \in [Slots -> StackEntries] :
    /\ failures + 1 - r <= MaxFailures
    /\ table' = Listed([i \in Slots |-> IF r = 1 /\ i \in OnDisk THEN dir[d][i]
                                       ELSE stack[i]])
    /\ loaded' = IF r = 1 THEN d ELSE None

(* Another drive has up to eight rows of FAT or exFAT files, two rows that *)
(* only name its kind (GPT, ext), or leaves the table as it was (NTFS, and *)
(* a read that failed).                                                    *)
OpenOther ==
  \/ table' = Listed([i \in Slots |-> IF i \in OnDisk THEN Junk[i] ELSE NoEntry])
     /\ loaded' = None
  \/ table' = [i \in Slots |-> IF i > 1 THEN Removed(table[i])
                 ELSE [table[i] EXCEPT !.exists = TRUE, !.folder = FALSE,
                                       !.parent = Root]]
     /\ loaded' = None
  \/ UNCHANGED <<table, loaded>>

OpenDrive ==
  /\ OnlyTheWindow /\ ui.view = 0 /\ ui.active # None
  /\ ui' = [ui EXCEPT !.view = 1]
  /\ IF signature[ui.active] = 1 THEN OpenCfs(ui.active) ELSE OpenOther
  /\ UNCHANGED note

FormatClicked ==
  /\ Click /\ ui.view = 0 /\ ui.active # None
  /\ Format(ui.active)
  /\ loaded' = IF loaded = ui.active THEN None ELSE loaded
  /\ UNCHANGED <<table, ui, note>>

-----------------------------------------------------------------------------
(* The files of a drive (view 1) or of a folder (view 2)                   *)

(* Mutant: the selected drive is forgotten, the view stays.                *)
BackNowhere == IF ui.view = 1 THEN [ui EXCEPT !.active = None] ELSE ui

Behind == IF ui.view = 1 THEN [ui EXCEPT !.view = 0, !.active = None]
          ELSE [ui EXCEPT !.view = 1, !.path = Root]

Back ==
  /\ OnlyTheWindow /\ ui.view # 0
  /\ ui' = Behind
  /\ UNCHANGED <<table, note, loaded>>

(* Which rows are drawn.  In the root view an open renaming hides all.     *)
ShownRows ==
  CASE ui.view = 1 -> {f \in Slots : table[f].exists /\ table[f].parent = Root
                                       /\ ui.renaming = None}
    [] ui.view = 2 -> {f \in Slots : table[f].exists
                                       /\ table[f].parent = ui.folder}
    [] OTHER -> {}

(* Mutant: the toolbar is there for every drive.                           *)
AlwaysEditable == ui.active = ui.active

(* The toolbar and DEL exist for drives labelled CFS.                      *)
Editable == label[ui.active] = 1

(* + FILE and + DIR of the root view.                                      *)
AddToDrive ==
  /\ Click /\ ui.view = 1 /\ Editable
  /\ \/ FoundFull(ui.active) /\ UNCHANGED <<dir, table>>
     \/ \E r, w \in Bit, i \in Slots, isFolder \in BOOLEAN :
          /\ IsFreeSlot(Loaded(ui.active, "edit", r), i)
          /\ PutEntry(ui.active, "edit", r, w, i,
                      IF isFolder THEN FolderEntry ELSE NewFileEntry(i))
          /\ table' = [table EXCEPT ![i] = NewRow(@, isFolder, i)]
  /\ Follows(ui.active)
  /\ UNCHANGED <<signature, data, clean, label, job, texts, told, ui, note>>

(* Below a folder they take a row that is free and tell the drive nothing. *)
AddToFolder ==
  /\ OnlyTheWindow /\ ui.view = 2 /\ Editable
  /\ \/ (\A i \in Slots : table[i].exists) /\ UNCHANGED table
     \/ \E i \in Slots, isFolder \in BOOLEAN :
          /\ ~table[i].exists /\ \A j \in Slots : j < i => table[j].exists
          /\ table' = [table EXCEPT ![i] =
                         [NewRow(@, isFolder, i) EXCEPT !.parent = ui.folder]]
  /\ UNCHANGED <<ui, note, loaded>>

DeleteRow(f) ==
  /\ Click /\ f \in ShownRows /\ Editable
  /\ Delete(ui.active, f)
  /\ table' = [table EXCEPT ![f] = Removed(@)]
  /\ Follows(ui.active)
  /\ UNCHANGED <<ui, note>>

(* RENAME opens an overlay that stays, whatever else is clicked, until its *)
(* own SAVE writes the name to the drive that is active then.              *)
RenameRow(f) ==
  /\ OnlyTheWindow /\ f \in ShownRows /\ (ui.view = 1 => Editable)
  /\ ui' = [ui EXCEPT !.renaming = f]
  /\ UNCHANGED <<table, note, loaded>>

RenameDone ==
  /\ Click /\ ui.renaming # None
  /\ \E d \in DriveOf(ui.active) : Rename(d, ui.renaming)
  /\ ui' = [ui EXCEPT !.renaming = None]
  /\ UNCHANGED <<table, note, loaded>>

CopyRow(f) ==
  /\ Click /\ ui.view = 1 /\ f \in ShownRows /\ ~Editable
  /\ \E d \in Drives : CopyToCfs(d)
  /\ UNCHANGED <<table, ui, note, loaded>>

(* A folder is entered, a file is read into the active tab.                *)
ClickRow(f) ==
  /\ OnlyTheWindow /\ f \in ShownRows
  /\ IF table[f].folder
     THEN /\ ui' = [ui EXCEPT !.view = 2, !.folder = f, !.path = f]
          /\ UNCHANGED note
     ELSE /\ note' = [note EXCEPT !.open = f, !.files[note.tab] = f]
          /\ UNCHANGED ui
  /\ UNCHANGED <<table, loaded>>

(* RECOVER refuses to work without a drive.  The table is not told.        *)
RecoverClicked(i) ==
  /\ Click /\ ui.active # None
  /\ Recover(ui.active, i)
  /\ UNCHANGED <<table, ui, note, loaded>>

-----------------------------------------------------------------------------
(* The notepad and its dialog                                              *)

ClickTab(t) ==
  /\ OnlyTheWindow
  /\ note' = [note EXCEPT !.tab = t, !.open = note.files[t]]
  /\ UNCHANGED <<table, ui, loaded>>

NewNote ==
  /\ OnlyTheWindow
  /\ note' = [note EXCEPT !.open = None]
  /\ UNCHANGED <<table, ui, loaded>>

(* SAVE: the sector of the row that the tab means by now, on the drive     *)
(* that is active by now.                                                  *)
SaveNote ==
  /\ Click /\ note.open # None /\ table[note.open].lba # 0
  /\ \E d \in DriveOf(ui.active) : Save(d, table[note.open].lba)
  /\ UNCHANGED <<table, ui, note, loaded>>

IsFirst(d) == \A e \in Drives : d <= e

OpenDialog ==
  /\ OnlyTheWindow
  /\ \E d \in DriveOf(ui.active) :
       /\ ui.active = None => IsFirst(d)
       /\ ui' = [ui EXCEPT !.active = d]
  /\ UNCHANGED <<table, note, loaded>>

(* The next drive, whose table is read as a CFS directory, CFS or not.     *)
IsNext(c, d) == IF \E e \in Drives : e > c
                THEN d > c /\ \A e \in Drives : e > c => d <= e
                ELSE IsFirst(d)

DialogDrive ==
  /\ Click
  /\ \E d \in Drives :
       /\ IsNext(ui.active, d)
       /\ Look(d)
       /\ loaded' = IF failures' = failures THEN d ELSE None
       /\ ui' = [ui EXCEPT !.active = d, !.path = Root]
  /\ table' = Listed(bufs'["edit"])
  /\ UNCHANGED note

DialogPath ==
  /\ OnlyTheWindow
  /\ \E p \in {Root} \cup {f \in Slots : table[f].exists /\ table[f].folder
                                          /\ table[f].parent = ui.path} :
       ui' = [ui EXCEPT !.path = p]
  /\ UNCHANGED <<table, note, loaded>>

DialogFolder ==
  /\ Click
  /\ \E d \in DriveOf(ui.active) : NewFolder(d)
  /\ UNCHANGED <<table, ui, note, loaded>>

DialogSave ==
  /\ Click
  /\ \E d \in DriveOf(ui.active) : SaveAs(d)
  /\ UNCHANGED <<table, ui, note, loaded>>

-----------------------------------------------------------------------------
(* What an operation does after its first write, and the power             *)

Continues ==
  /\ \/ WriteData /\ UNCHANGED <<table, loaded>>
     \/ ClearDirectory /\ UNCHANGED <<table, loaded>>
     \/ /\ WriteEntry
        /\ IF job.says = 1
           THEN /\ table' = [table EXCEPT ![job.slot] =
                      [exists |-> TRUE, folder |-> FALSE, parent |-> ui.path,
                       lba |-> DataSector(job.slot)]]
                /\ Follows(job.drive)
           ELSE UNCHANGED <<table, loaded>>
  /\ UNCHANGED <<ui, note, clicks>>

PowerComesBack ==
  /\ clicks < MaxClicks /\ clicks' = clicks + 1
  /\ PowerLoss
  /\ table' = FirstTable
  /\ ui' = Hidden
  /\ note' = [tab |-> 0, files |-> [t \in Tabs |-> None], open |-> None]
  /\ loaded' = None

DmNext ==
  \/ OpenWindow \/ Home \/ OpenDrive \/ FormatClicked \/ Back
  \/ \E d \in Drives : SelectDrive(d)
  \/ AddToDrive \/ AddToFolder \/ RenameDone
  \/ \E f \in Slots : DeleteRow(f) \/ RenameRow(f) \/ CopyRow(f) \/ ClickRow(f)
                        \/ RecoverClicked(f)
  \/ \E t \in Tabs : ClickTab(t)
  \/ NewNote \/ SaveNote
  \/ OpenDialog \/ DialogDrive \/ DialogPath \/ DialogFolder \/ DialogSave
  \/ Continues \/ PowerComesBack

DmSpec == DmInit /\ [][DmNext]_dmVars

-----------------------------------------------------------------------------
(* Properties *)

(* The type of every variable.                                             *)
WindowTypeOK ==
  /\ table \in [Slots -> Rows]
  /\ ui \in [active : Drives \cup {None}, view : 0 .. 2,
             folder : Slots \cup {None}, path : Slots \cup {Root},
             renaming : Slots \cup {None}]
  /\ note \in [tab : Tabs, files : [Tabs -> Slots \cup {None}],
               open : Slots \cup {None}]
  /\ loaded \in Drives \cup {None}
  /\ clicks \in 0 .. MaxClicks
DmTypeOK == TypeOK /\ WindowTypeOK

(* The views of files index drives[] with the active drive at every frame: *)
(* however clicks and the dialog alternate, there is one.                  *)
OpenViewHasDrive == ui.view # 0 => ui.active # None

(* Every click does to the drives what an operation of CfsDirectory may do *)
(* there, so that what is proved of CfsDirectory holds of the windows.     *)
ImplementsCfsDirectory == Spec

(* As long as the table follows a drive, what the root view shows is on    *)
(* it, under the same sector, although files below folders are kept in RAM *)
(* only, other windows write the directory too, and rows are reused.       *)
RootRowsAreOnDisk ==
  (loaded # None /\ failures = 0 /\ clean[loaded] = 1) =>
    \A i \in OnDisk : table[i].exists /\ table[i].parent = Root =>
      /\ dir[loaded][i].type = IF table[i].folder THEN 2 ELSE 1
      /\ dir[loaded][i].lba = table[i].lba

(* SAVE with the drive that the table follows, and a row that still exists,*)
(* changes the sector of the opened slot and nobody else's.  (Without one  *)
(* of these conditions it may overwrite any file: see the README.)         *)
Settled == /\ loaded # None /\ ui.active = loaded /\ clean[loaded] = 1
           /\ failures = 0
           /\ note.open \in OnDisk /\ table[note.open].exists
SaveStaysInSlot ==
  [][Settled /\ SaveNote =>
       \A d \in Drives, x \in Sectors :
         d # loaded \/ x # DataSector(note.open) => data'[d][x] = data[d][x]]_dmVars
=============================================================================
