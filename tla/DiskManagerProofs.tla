------------------------- MODULE DiskManagerProofs --------------------------
(***************************************************************************)
(* The windows of the disk manager only ever do to the drives what         *)
(* CfsDirectory allows.  So the theorems about CfsDirectory hold of every  *)
(* sequence of clicks, for any number of drives, slots and tabs.  And what *)
(* the table of files shows of the drive that it follows is on that drive. *)
(***************************************************************************)
EXTENDS DiskManager, CfsDirectoryProofs

DmInv == IInv /\ WindowTypeOK /\ OpenViewHasDrive

LEMMA DriveFacts ==
  ASSUME WindowTypeOK
  PROVE  /\ None \notin Drives
         /\ DriveOf(ui.active) \subseteq Drives
         /\ ui.active # None => ui.active \in Drives
         /\ ui.view \in 0 .. 2
BY CfsConstants DEF WindowTypeOK, None, DriveOf

-----------------------------------------------------------------------------
(* Steps that touch the drives are steps of CfsDirectory                   *)

LEMMA AddIsNew == ASSUME WindowTypeOK, OpenViewHasDrive, AddToDrive PROVE Next
<1>1. ui.active \in Drives /\ label[ui.active] = 1 /\ job = Idle
  BY DriveFacts DEF AddToDrive, OpenViewHasDrive, Editable, Click
<1>2. UNCHANGED <<signature, data, clean, label, job, texts, told>>
  BY DEF AddToDrive
<1>3. CASE FoundFull(ui.active) /\ UNCHANGED dir
  BY <1>1, <1>2, <1>3 DEF NewFile, Next
<1>4. ASSUME NEW r \in Bit, NEW w \in Bit, NEW i \in Slots,
             NEW isFolder \in BOOLEAN,
             IsFreeSlot(Loaded(ui.active, "edit", r), i),
             PutEntry(ui.active, "edit", r, w, i,
                      IF isFolder THEN FolderEntry ELSE NewFileEntry(i))
      PROVE  Next
  <2>1. CASE ~isFolder
    <3>1. PutEntry(ui.active, "edit", r, w, i, NewFileEntry(i))
      BY <1>4, <2>1
    <3>2. NewFile(ui.active)
      BY <1>1, <1>2, <1>4, <3>1 DEF NewFile
    <3> QED BY <1>1, <3>2 DEF Next
  <2>2. CASE isFolder
    <3>1. FolderEntry = [FolderEntry EXCEPT !.named = 1] /\ 1 \in Bit
      BY DEF FolderEntry, Bit
    <3>2. PutEntry(ui.active, "edit", r, w, i, [FolderEntry EXCEPT !.named = 1])
      BY <1>4, <2>2, <3>1
    <3>3. NewFolder(ui.active)
      BY <1>1, <1>2, <1>4, <3>1, <3>2 DEF NewFolder
    <3> QED BY <1>1, <3>3 DEF Next
  <2> QED BY <2>1, <2>2
<1> QED BY <1>3, <1>4 DEF AddToDrive

LEMMA ClickIsOperation ==
  ASSUME WindowTypeOK, OpenViewHasDrive, [DmNext]_dmVars
  PROVE  [Next]_cfsVars
<1>1. CASE OpenWindow
  BY <1>1 DEF OpenWindow, Next
<1>2. CASE FormatClicked
  BY <1>2, DriveFacts DEF FormatClicked, Next
<1>3. CASE AddToDrive
  BY <1>3, AddIsNew
<1>4. ASSUME NEW f \in Slots, DeleteRow(f) \/ CopyRow(f) \/ RecoverClicked(f)
      PROVE  Next
  <2>1. CASE DeleteRow(f)
    <3>1. ui.view # 0
      BY <2>1 DEF DeleteRow, ShownRows
    <3> QED BY <2>1, <3>1, DriveFacts DEF DeleteRow, OpenViewHasDrive, Next
  <2>2. CASE CopyRow(f)
    BY <2>2 DEF CopyRow, Next
  <2>3. CASE RecoverClicked(f)
    BY <2>3, DriveFacts DEF RecoverClicked, Next
  <2> QED BY <1>4, <2>1, <2>2, <2>3
<1>5. CASE RenameDone
  <2>1. ui.renaming \in Slots
    BY <1>5 DEF RenameDone, WindowTypeOK
  <2> QED BY <1>5, <2>1, DriveFacts DEF RenameDone, Next
<1>6. CASE SaveNote
  <2>1. table[note.open].lba \in Sectors
    BY <1>6, CfsConstants DEF SaveNote, WindowTypeOK, Rows, Sectors
  <2> QED BY <1>6, <2>1, DriveFacts DEF SaveNote, Next
<1>7. CASE DialogDrive \/ DialogFolder \/ DialogSave
  BY <1>7, DriveFacts DEF DialogDrive, DialogFolder, DialogSave, Next
<1>8. CASE Continues \/ PowerComesBack
  BY <1>8 DEF Continues, PowerComesBack, Next
<1>9. CASE \/ Home \/ OpenDrive \/ Back \/ AddToFolder
           \/ \E d \in Drives : SelectDrive(d)
           \/ \E f \in Slots : RenameRow(f) \/ ClickRow(f)
           \/ \E t \in Tabs : ClickTab(t)
           \/ NewNote \/ OpenDialog \/ DialogPath
  BY <1>9 DEF Home, OpenDrive, Back, AddToFolder, SelectDrive,
              RenameRow, ClickRow, ClickTab, NewNote, OpenDialog, DialogPath,
              OnlyTheWindow
<1>10. CASE UNCHANGED dmVars
  BY <1>10 DEF dmVars
<1> QED BY <1>1, <1>2, <1>3, <1>4, <1>5, <1>6, <1>7, <1>8, <1>9, <1>10
        DEF DmNext

-----------------------------------------------------------------------------
(* The window's own variables keep their types, and a view its drive       *)

LEMMA RowFacts ==
  ASSUME NEW row \in Rows
  PROVE  /\ \A e \in Entry : RowOf(row, e) \in Rows
         /\ \A f \in BOOLEAN, i \in Slots : NewRow(row, f, i) \in Rows
         /\ Removed(row) \in Rows
<1>1. \A e \in Entry : RowOf(row, e) \in Rows
  BY DEF RowOf, Rows, Entry
<1>2. \A f \in BOOLEAN, i \in Slots : NewRow(row, f, i) \in Rows
  <2> SUFFICES ASSUME NEW f \in BOOLEAN, NEW i \in Slots
               PROVE  NewRow(row, f, i) \in Rows
    OBVIOUS
  <2> DEFINE x == IF f THEN 0 ELSE DataSector(i)
  <2>1. x \in 0 .. TableSlots
    BY CfsConstants DEF Slots, DataSector
  <2> HIDE DEF x
  <2>2. [row EXCEPT !.exists = TRUE, !.folder = f, !.lba = x] \in Rows
    BY <2>1 DEF Rows
  <2> QED BY <2>2 DEF NewRow, x
<1>3. Removed(row) \in Rows
  BY DEF Removed, Rows
<1> QED BY <1>1, <1>2, <1>3

Ui == [active : Drives \cup {None}, view : 0 .. 2, folder : Slots \cup {None},
       path : Slots \cup {Root}, renaming : Slots \cup {None}]
Note == [tab : Tabs, files : [Tabs -> Slots \cup {None}],
         open : Slots \cup {None}]

LEMMA Counted == ASSUME WindowTypeOK, Click PROVE clicks' \in 0 .. MaxClicks
BY DiskManagerConstants DEF WindowTypeOK, Click

(* A change of the user interface that leaves a drive for the view.        *)
UiOk(u) == u \in Ui /\ (u.view # 0 => u.active # None)

LEMMA UiUpdates ==
  ASSUME NEW u \in Ui, UiOk(u), NEW d \in Drives, d # None,
         NEW f \in Slots \cup {None}
  PROVE  /\ UiOk([u EXCEPT !.view = 0, !.path = Root])
         /\ UiOk([u EXCEPT !.view = 0, !.folder = None, !.path = Root])
         /\ UiOk([u EXCEPT !.active = d])
         /\ UiOk([u EXCEPT !.active = d, !.path = Root])
         /\ UiOk([u EXCEPT !.active = d, !.view = 0, !.path = Root])
         /\ u.active # None => UiOk([u EXCEPT !.view = 1])
         /\ UiOk([u EXCEPT !.view = 0, !.active = None])
         /\ u.view # 0 => UiOk([u EXCEPT !.view = 1, !.path = Root])
         /\ UiOk([u EXCEPT !.renaming = f])
         /\ f # None /\ u.view # 0 =>
              UiOk([u EXCEPT !.view = 2, !.folder = f, !.path = f])
<1>1. UiOk([u EXCEPT !.view = 0, !.path = Root])
  <2> DEFINE v == [u EXCEPT !.view = 0, !.path = Root]
  <2>1. v \in Ui
    BY 0 \in 0 .. 2, 1 \in 0 .. 2, 2 \in 0 .. 2 DEF Ui
  <2>2. v.view # 0 => v.active # None
    BY DEF UiOk, Ui
  <2> QED BY <2>1, <2>2 DEF UiOk
<1>2. UiOk([u EXCEPT !.view = 0, !.folder = None, !.path = Root])
  <2> DEFINE v == [u EXCEPT !.view = 0, !.folder = None, !.path = Root]
  <2>1. v \in Ui
    BY 0 \in 0 .. 2, 1 \in 0 .. 2, 2 \in 0 .. 2 DEF Ui
  <2>2. v.view # 0 => v.active # None
    BY DEF UiOk, Ui
  <2> QED BY <2>1, <2>2 DEF UiOk
<1>3. UiOk([u EXCEPT !.active = d])
  BY DEF UiOk, Ui
<1>4. UiOk([u EXCEPT !.active = d, !.path = Root])
  BY DEF UiOk, Ui
<1>5. u.active # None => UiOk([u EXCEPT !.view = 1])
  BY DEF UiOk, Ui
<1>6. UiOk([u EXCEPT !.view = 0, !.active = None])
  <2> DEFINE v == [u EXCEPT !.view = 0, !.active = None]
  <2>1. v \in Ui
    BY 0 \in 0 .. 2, 1 \in 0 .. 2, 2 \in 0 .. 2 DEF Ui
  <2>2. v.view # 0 => v.active # None
    BY DEF UiOk, Ui
  <2> QED BY <2>1, <2>2 DEF UiOk
<1>7. u.view # 0 => UiOk([u EXCEPT !.view = 1, !.path = Root])
  <2> DEFINE v == [u EXCEPT !.view = 1, !.path = Root]
  <2>1. v \in Ui
    BY 0 \in 0 .. 2, 1 \in 0 .. 2, 2 \in 0 .. 2 DEF Ui
  <2>2. u.view # 0 => v.active # None
    BY DEF UiOk, Ui
  <2> QED BY <2>1, <2>2 DEF UiOk
<1>8. UiOk([u EXCEPT !.renaming = f])
  BY DEF UiOk, Ui
<1>9. f # None /\ u.view # 0 =>
        UiOk([u EXCEPT !.view = 2, !.folder = f, !.path = f])
  <2> DEFINE v == [u EXCEPT !.view = 2, !.folder = f, !.path = f]
  <2>0. f \in Slots \cup {Root}
    BY DEF None, Root
  <2>1. v \in Ui
    BY <2>0, 0 \in 0 .. 2, 1 \in 0 .. 2, 2 \in 0 .. 2 DEF Ui
  <2>2. u.view # 0 => v.active # None
    BY DEF UiOk, Ui
  <2> QED BY <2>1, <2>2 DEF UiOk
<1>10. UiOk([u EXCEPT !.active = d, !.view = 0, !.path = Root])
  <2> DEFINE v == [u EXCEPT !.active = d, !.view = 0, !.path = Root]
  <2>1. v \in Ui
    BY 0 \in 0 .. 2, 1 \in 0 .. 2, 2 \in 0 .. 2 DEF Ui
  <2>2. v.view # 0 => v.active # None
    BY DEF UiOk, Ui
  <2> QED BY <2>1, <2>2 DEF UiOk
<1> QED BY <1>1, <1>2, <1>3, <1>4, <1>5, <1>6, <1>7, <1>8, <1>9, <1>10

LEMMA PathUpdate ==
  ASSUME NEW u \in Ui, UiOk(u), NEW p \in Slots \cup {Root}
  PROVE  UiOk([u EXCEPT !.path = p])
BY DEF UiOk, Ui

LEMMA UiKept ==
  ASSUME WindowTypeOK, OpenViewHasDrive, DmNext PROVE UiOk(ui')
<1>1. UiOk(ui) /\ ui \in Ui
  BY DEF WindowTypeOK, OpenViewHasDrive, UiOk, Ui
<1>2. PICK d0 \in Drives : TRUE
  BY CfsConstants
<1>3. /\ None \in Slots \cup {None} /\ None \notin Drives
      /\ ui.view \in 0 .. 2 /\ (ui.view # 0 => ui.active # None)
      /\ DriveOf(ui.active) \subseteq Drives
  BY DriveFacts DEF OpenViewHasDrive
<1>4. CASE OpenWindow
  <2>1. PICK d \in Renumbered :
             \/ ui' = [ui EXCEPT !.active = d, !.view = 0, !.path = Root]
             \/ ui' = [ui EXCEPT !.active = d]
    BY <1>4 DEF OpenWindow
  <2>2. CASE ui.active = None
    <3>1. d = ui.active
      BY <2>2 DEF Renumbered
    <3>2. ui' = ui \/ ui' = [ui EXCEPT !.view = 0, !.path = Root]
      BY <1>1, <2>1, <3>1 DEF UiOk, Ui
    <3> QED BY <3>2, <1>1, <1>2, <1>3, UiUpdates
  <2>3. CASE ui.active # None
    <3>1. d \in Drives /\ d # None
      BY <1>3, <2>3 DEF Renumbered
    <3> QED BY <2>1, <3>1, <1>1, <1>2, <1>3, UiUpdates
  <2> QED BY <2>2, <2>3
<1>5. CASE Home
  <2>1. \/ ui' = [ui EXCEPT !.view = 0, !.folder = None, !.path = Root]
        \/ ui' = [ui EXCEPT !.view = 0, !.path = Root]
    BY <1>5 DEF Home
  <2> QED BY <2>1, <1>1, <1>2, <1>3, UiUpdates
<1>6. CASE OpenDrive
  <2>1. ui' = [ui EXCEPT !.view = 1] /\ ui.active # None
    BY <1>6 DEF OpenDrive
  <2> QED BY <2>1, <1>1, <1>2, <1>3, UiUpdates
<1>7. CASE Back
  BY <1>1, <1>2, <1>3, <1>7, UiUpdates DEF Back, Behind
<1>8. ASSUME NEW d \in Drives, SelectDrive(d) PROVE UiOk(ui')
  BY <1>1, <1>3, <1>8, UiUpdates DEF SelectDrive
<1>9. ASSUME NEW f \in Slots, RenameRow(f) \/ ClickRow(f) PROVE UiOk(ui')
  <2>1. /\ f # None /\ f \in Slots \cup {None}
        /\ ClickRow(f) => ui.view # 0
    BY CfsConstants DEF ClickRow, ShownRows, Slots, None
  <2> QED BY <1>1, <1>2, <1>3, <1>9, <2>1, UiUpdates DEF RenameRow, ClickRow
<1>10. CASE RenameDone
  BY <1>1, <1>2, <1>3, <1>10, UiUpdates DEF RenameDone
<1>11. CASE DialogPath
  <2>1. \E p \in Slots \cup {Root} : ui' = [ui EXCEPT !.path = p]
    BY <1>11 DEF DialogPath
  <2> QED BY <1>1, <2>1, PathUpdate
<1>12. CASE OpenDialog \/ DialogDrive
  <2>1. \E d \in Drives : ui' = [ui EXCEPT !.active = d]
                            \/ ui' = [ui EXCEPT !.active = d, !.path = Root]
    BY <1>3, <1>12 DEF OpenDialog, DialogDrive
  <2> QED BY <1>1, <1>3, <2>1, UiUpdates
<1>13. CASE PowerComesBack
  BY <1>13 DEF PowerComesBack, Hidden, UiOk, Ui
<1>14. CASE UNCHANGED ui
  BY <1>1, <1>14
<1>15. \A f \in Slots : DeleteRow(f) \/ CopyRow(f) \/ RecoverClicked(f)
                          => UNCHANGED ui
  BY DEF DeleteRow, CopyRow, RecoverClicked
<1>16. \A t \in Tabs : ClickTab(t) => UNCHANGED ui
  BY DEF ClickTab
<1> QED BY <1>4, <1>5, <1>6, <1>7, <1>8, <1>9, <1>10, <1>11, <1>12, <1>13,
           <1>14, <1>15, <1>16
        DEF DmNext, FormatClicked, AddToDrive, AddToFolder, NewNote,
            SaveNote, DialogFolder, DialogSave, Continues

LEMMA NoteKept == ASSUME WindowTypeOK, DmNext PROVE note' \in Note
<1>1. note \in Note
  BY DEF WindowTypeOK, Note
<1>2. ASSUME NEW f \in Slots, ClickRow(f) PROVE note' \in Note
  <2>1. [note EXCEPT !.open = f, !.files[note.tab] = f] \in Note
    BY <1>1 DEF Note
  <2> QED BY <1>1, <1>2, <2>1 DEF ClickRow
<1>3. ASSUME NEW t \in Tabs, ClickTab(t) PROVE note' \in Note
  <2>1. [note EXCEPT !.tab = t, !.open = note.files[t]] \in Note
    BY <1>1 DEF Note
  <2> QED BY <1>3, <2>1 DEF ClickTab
<1>4. CASE NewNote
  BY <1>1, <1>4 DEF NewNote, Note
<1>5. CASE PowerComesBack
  BY <1>5, DiskManagerConstants DEF PowerComesBack, Note
<1>6. CASE UNCHANGED note
  BY <1>1, <1>6
<1>7. \A f \in Slots : DeleteRow(f) \/ RenameRow(f) \/ CopyRow(f)
                         \/ RecoverClicked(f) => UNCHANGED note
  BY DEF DeleteRow, RenameRow, CopyRow, RecoverClicked
<1>8. \A d \in Drives : SelectDrive(d) => UNCHANGED note
  BY DEF SelectDrive
<1> QED BY <1>2, <1>3, <1>4, <1>5, <1>6, <1>7, <1>8
        DEF DmNext, OpenWindow, Home, OpenDrive, FormatClicked,
            Back, AddToDrive, AddToFolder, RenameDone, SaveNote, OpenDialog,
            DialogDrive, DialogPath, DialogFolder, DialogSave, Continues

(* The files of a directory, whoever it comes from, make rows.             *)
LEMMA ListedTyped ==
  ASSUME WindowTypeOK, NEW es \in [Slots -> Entry]
  PROVE  Listed(es) \in [Slots -> Rows]
<1>1. \A i \in Slots : table[i] \in Rows /\ es[i] \in Entry
  BY DEF WindowTypeOK
<1> QED BY <1>1, RowFacts DEF Listed

(* The rows of power-on are rows.                                          *)
LEMMA FirstTableTyped == FirstTable \in [Slots -> Rows]
<1>1. 0 \in Slots
  BY CfsConstants DEF Slots
<1>2. ASSUME NEW i \in Slots PROVE FirstRow(i) \in Rows
  <2>1. /\ (i < 2) \in BOOLEAN
        /\ (IF i \in OnDisk THEN Root ELSE 0) \in Slots \cup {Root}
        /\ 0 \in 0 .. TableSlots
    BY <1>1, CfsConstants DEF Slots
  <2> QED BY <2>1 DEF FirstRow, Rows
<1> QED BY <1>2 DEF FirstTable

LEMMA OneRowTyped ==
  ASSUME WindowTypeOK, NEW i \in Slots, NEW row \in Rows,
         table' = [table EXCEPT ![i] = row]
  PROVE  table' \in [Slots -> Rows]
BY DEF WindowTypeOK

LEMMA TableKept ==
  ASSUME IInv, IInv', WindowTypeOK, OpenViewHasDrive, DmNext
  PROVE  table' \in [Slots -> Rows]
<1>1. TypeOK /\ TypeOK' /\ NoEntry \in Entry
  BY EntryFacts DEF IInv, Entry, NoEntry, Bit
<1>2. \A i \in Slots : table[i] \in Rows
  BY DEF WindowTypeOK
<1>3. CASE OpenDrive
  <2>1. CASE OpenCfs(ui.active)
    <3>1. PICK r \in Bit, stack \in [Slots -> StackEntries] :
            table' = Listed([i \in Slots |-> IF r = 1 /\ i \in OnDisk
                                             THEN dir[ui.active][i]
                                             ELSE stack[i]])
      BY <2>1 DEF OpenCfs
    <3>2. ui.active \in Drives
      BY <1>3, DriveFacts DEF OpenDrive
    <3>3. [i \in Slots |-> IF r = 1 /\ i \in OnDisk THEN dir[ui.active][i]
                           ELSE stack[i]] \in [Slots -> Entry]
      BY <1>1, <3>2, DiskManagerConstants DEF TypeOK
    <3> QED BY <3>1, <3>3, ListedTyped
  <2>2. CASE OpenOther
    <3>1. [i \in Slots |-> IF i \in OnDisk THEN Junk[i] ELSE NoEntry]
            \in [Slots -> Entry]
      BY <1>1, CfsConstants DEF Junk, Entry, Bit
    <3>2. CASE table' = Listed([i \in Slots |-> IF i \in OnDisk THEN Junk[i]
                                               ELSE NoEntry])
      BY <3>1, <3>2, ListedTyped
    <3>3. CASE table' = [i \in Slots |-> IF i > 1 THEN Removed(table[i])
                 ELSE [table[i] EXCEPT !.exists = TRUE, !.folder = FALSE,
                                       !.parent = Root]]
      <4>1. \A i \in Slots : [table[i] EXCEPT !.exists = TRUE, !.folder = FALSE,
                                              !.parent = Root] \in Rows
        BY <1>2 DEF Rows
      <4> QED BY <1>2, <3>3, <4>1, RowFacts
    <3>4. CASE UNCHANGED table
      BY <3>4 DEF WindowTypeOK
    <3> QED BY <2>2, <3>2, <3>3, <3>4 DEF OpenOther
  <2> QED BY <1>3, <2>1, <2>2 DEF OpenDrive
<1>4. CASE AddToDrive
  <2>1. CASE UNCHANGED table
    BY <2>1 DEF WindowTypeOK
  <2>2. ASSUME NEW i \in Slots, NEW isFolder \in BOOLEAN,
               table' = [table EXCEPT ![i] = NewRow(table[i], isFolder, i)]
        PROVE  table' \in [Slots -> Rows]
    BY <1>2, <2>2, RowFacts, OneRowTyped
  <2> QED BY <1>4, <2>1, <2>2 DEF AddToDrive
<1>5. CASE AddToFolder
  <2>1. CASE UNCHANGED table
    BY <2>1 DEF WindowTypeOK
  <2>2. ASSUME NEW i \in Slots, NEW isFolder \in BOOLEAN, ui.view = 2,
               table' = [table EXCEPT ![i] =
                 [NewRow(table[i], isFolder, i) EXCEPT !.parent = ui.folder]]
        PROVE  table' \in [Slots -> Rows]
    <3>1. NewRow(table[i], isFolder, i) \in Rows
      BY <1>2, RowFacts
    <3>2. ui.folder \in Slots \cup {Root}
      BY DEF WindowTypeOK, None, Root
    <3>3. [NewRow(table[i], isFolder, i) EXCEPT !.parent = ui.folder] \in Rows
      BY <3>1, <3>2 DEF Rows
    <3> QED BY <2>2, <3>3, OneRowTyped
  <2> QED BY <1>5, <2>1, <2>2 DEF AddToFolder
<1>6. ASSUME NEW f \in Slots, DeleteRow(f) PROVE table' \in [Slots -> Rows]
  BY <1>2, <1>6, RowFacts, OneRowTyped DEF DeleteRow
<1>7. CASE DialogDrive
  <2>1. bufs'["edit"] \in [Slots -> Entry]
    BY <1>1 DEF TypeOK, Buffers
  <2> QED BY <1>7, <2>1, ListedTyped DEF DialogDrive
<1>8. CASE Continues
  <2>1. job.slot \in Slots
    BY <1>1 DEF TypeOK, Job
  <2>2. [exists |-> TRUE, folder |-> FALSE, parent |-> ui.path,
         lba |-> DataSector(job.slot)] \in Rows
    BY <2>1, CfsConstants DEF WindowTypeOK, Rows, DataSector, Slots
  <2>3. CASE UNCHANGED table
    BY <2>3 DEF WindowTypeOK
  <2> QED BY <1>8, <2>1, <2>2, <2>3, OneRowTyped DEF Continues
<1>9. CASE PowerComesBack
  BY <1>9, FirstTableTyped DEF PowerComesBack
<1>10. CASE UNCHANGED table
  BY <1>10 DEF WindowTypeOK
<1>11. \A f \in Slots : RenameRow(f) \/ CopyRow(f) \/ ClickRow(f)
                          \/ RecoverClicked(f) => UNCHANGED table
  BY DEF RenameRow, CopyRow, ClickRow, RecoverClicked
<1>12. /\ \A d \in Drives : SelectDrive(d) => UNCHANGED table
       /\ \A t \in Tabs : ClickTab(t) => UNCHANGED table
  BY DEF SelectDrive, ClickTab
<1> QED BY <1>3, <1>4, <1>5, <1>6, <1>7, <1>8, <1>9, <1>10, <1>11, <1>12
        DEF DmNext, OpenWindow, Home, FormatClicked, Back,
            RenameDone, NewNote, SaveNote, OpenDialog, DialogPath,
            DialogFolder, DialogSave

LEMMA RestKept ==
  ASSUME TypeOK, WindowTypeOK, OpenViewHasDrive, DmNext
  PROVE  loaded' \in Drives \cup {None} /\ clicks' \in 0 .. MaxClicks
<1>1. loaded \in Drives \cup {None} /\ clicks \in 0 .. MaxClicks
  BY DEF WindowTypeOK
<1>2. clicks' = clicks \/ (clicks < MaxClicks /\ clicks' = clicks + 1)
  <2>1. \A f \in Slots : DeleteRow(f) \/ RenameRow(f) \/ CopyRow(f)
                         \/ ClickRow(f) \/ RecoverClicked(f) => Click
    BY DEF DeleteRow, RenameRow, CopyRow, ClickRow, RecoverClicked,
           OnlyTheWindow
  <2>2. /\ \A d \in Drives : SelectDrive(d) => Click
        /\ \A t \in Tabs : ClickTab(t) => Click
    BY DEF SelectDrive, ClickTab, OnlyTheWindow
  <2>3. \/ OpenWindow \/ Home \/ OpenDrive \/ FormatClicked \/ Back
        \/ AddToDrive \/ AddToFolder \/ RenameDone \/ NewNote \/ SaveNote
        \/ OpenDialog \/ DialogDrive \/ DialogPath \/ DialogFolder \/ DialogSave
        => Click
    BY DEF OpenWindow, Home, OpenDrive, FormatClicked, Back,
           AddToDrive, AddToFolder, RenameDone, NewNote, SaveNote, OpenDialog,
           DialogDrive, DialogPath, DialogFolder, DialogSave, OnlyTheWindow
  <2> QED BY <2>1, <2>2, <2>3 DEF DmNext, Click, Continues, PowerComesBack
<1>3. clicks' \in 0 .. MaxClicks
  BY <1>1, <1>2, DiskManagerConstants
<1>4. loaded' = loaded \/ loaded' \in Drives \cup {None}
  <2>1. CASE OpenDrive
    BY <2>1, DriveFacts DEF OpenDrive, OpenCfs, OpenOther
  <2>2. CASE AddToDrive
    BY <2>2 DEF AddToDrive, Follows
  <2>3. ASSUME NEW f \in Slots, DeleteRow(f)
        PROVE  loaded' = loaded \/ loaded' = None
    BY <2>3 DEF DeleteRow, Follows
  <2>4. CASE DialogDrive
    BY <2>4 DEF DialogDrive
  <2>5. CASE Continues
    BY <2>5 DEF Continues, Follows
  <2>6. \A f \in Slots : RenameRow(f) \/ CopyRow(f) \/ ClickRow(f)
                           \/ RecoverClicked(f) => UNCHANGED loaded
    BY DEF RenameRow, CopyRow, ClickRow, RecoverClicked
  <2>7. /\ \A d \in Drives : SelectDrive(d) => UNCHANGED loaded
        /\ \A t \in Tabs : ClickTab(t) => UNCHANGED loaded
    BY DEF SelectDrive, ClickTab
  <2> QED BY <2>1, <2>2, <2>3, <2>4, <2>5, <2>6, <2>7
          DEF DmNext, OpenWindow, Home, FormatClicked, Back,
              AddToFolder, RenameDone, NewNote, SaveNote, OpenDialog,
              DialogPath, DialogFolder, DialogSave, PowerComesBack
<1> QED BY <1>1, <1>3, <1>4

-----------------------------------------------------------------------------
(* Theorems *)

LEMMA DmInitially == DmInit => DmInv
<1> SUFFICES ASSUME DmInit PROVE DmInv
  OBVIOUS
<1>1. IInv
  BY Initially DEF DmInit
<1>2. WindowTypeOK
  BY CfsConstants, DiskManagerConstants, FirstTableTyped
     DEF DmInit, WindowTypeOK, Hidden
<1>3. OpenViewHasDrive
  BY DEF DmInit, Hidden, OpenViewHasDrive
<1> QED BY <1>1, <1>2, <1>3 DEF DmInv

LEMMA DmPreserved == DmInv /\ [DmNext]_dmVars => DmInv' /\ [Next]_cfsVars
<1> SUFFICES ASSUME DmInv, [DmNext]_dmVars PROVE DmInv' /\ [Next]_cfsVars
  OBVIOUS
<1>1. [Next]_cfsVars
  BY ClickIsOperation DEF DmInv
<1>2. IInv'
  BY <1>1, Preserved DEF DmInv
<1>3. CASE DmNext
  <2>1. UiOk(ui') /\ note' \in Note
    BY <1>3, UiKept, NoteKept DEF DmInv
  <2>2. /\ table' \in [Slots -> Rows] /\ loaded' \in Drives \cup {None}
        /\ clicks' \in 0 .. MaxClicks
    BY <1>2, <1>3, TableKept, RestKept DEF DmInv, IInv
  <2>3. WindowTypeOK' /\ OpenViewHasDrive'
    BY <2>1, <2>2 DEF WindowTypeOK, OpenViewHasDrive, UiOk, Ui, Note
  <2> QED BY <1>1, <1>2, <2>3 DEF DmInv
<1>4. CASE UNCHANGED dmVars
  BY <1>1, <1>2, <1>4 DEF DmInv, dmVars, WindowTypeOK, OpenViewHasDrive
<1> QED BY <1>3, <1>4

(* The table, the views and the notepad keep their types, on top of the    *)
(* drives and buffers.                                                     *)
THEOREM WindowsTyped == DmSpec => []DmTypeOK
<1>1. DmInv => DmTypeOK
  BY DEF DmInv, DmTypeOK, IInv
<1> QED BY <1>1, DmInitially, DmPreserved, PTL DEF DmSpec

(* No sequence of clicks leaves a view of files without a drive:           *)
(* drives[] is never indexed with -1 there.                                *)
THEOREM ViewsHaveDrives == DmSpec => []OpenViewHasDrive
<1>1. DmInv => OpenViewHasDrive
  BY DEF DmInv
<1> QED BY <1>1, DmInitially, DmPreserved, PTL DEF DmSpec

(* The windows implement the operations of CfsDirectory.                   *)
THEOREM WindowsImplement == DmSpec => ImplementsCfsDirectory
<1>1. DmInit => Init
  BY DEF DmInit
<1> QED BY <1>1, DmInitially, DmPreserved, PTL
        DEF DmSpec, ImplementsCfsDirectory, Spec

(* So whatever is clicked, files do not share sectors, and what was saved  *)
(* stays, on a drive whose format was completed, without failed transfers. *)
THEOREM WindowsKeepFiles == DmSpec => [](NoSharedSector /\ SavedTextIsKept)
<1>1. DmSpec => []NoSharedSector
  BY WindowsImplement, SectorsAreNotShared DEF ImplementsCfsDirectory
<1>2. DmSpec => []SavedTextIsKept
  BY WindowsImplement, SavedTextsStay DEF ImplementsCfsDirectory
<1> QED BY <1>1, <1>2, PTL

-----------------------------------------------------------------------------
(* What the table says about the drive that it follows                     *)
(*                                                                         *)
(* The root rows are on the drive because whatever changes an entry that   *)
(* the directory uses tells the table (FilesStay says who need not), and   *)
(* because a row of the table never names a foreign sector.                *)

(* A row that exists names no sector but its slot's own, and in the root   *)
(* it is the entry of the directory.                                       *)
RowAgrees(row, e, i) ==
  row.exists =>
    /\ row.lba \in {0, DataSector(i)}
    /\ row.parent = Root => /\ e.type = IF row.folder THEN 2 ELSE 1
                            /\ e.lba = row.lba

Followed == loaded # None /\ failures = 0 /\ clean[loaded] = 1
RowsFollow == Followed => \A i \in OnDisk : RowAgrees(table[i], dir[loaded][i], i)

(* A folder that is shown is a row, so that what is made in it is not in   *)
(* the root; and a format has parted the table from the drive it clears.   *)
FolderInView == ui.view = 2 => ui.folder \in Slots
ClearingUnfollowed == job.pc = "clear" => loaded # job.drive

FollowInv == RowsFollow /\ FolderInView /\ ClearingUnfollowed

(* The entries in use keep kind and sector.                                *)
SameFile(e, f) == e.type # 0 => f.type = e.type /\ f.lba = e.lba
FilesStay ==
  failures' = 0 =>
    /\ failures = 0
    /\ \A c \in Drives : clean'[c] = 1 =>
         /\ clean[c] = 1
         /\ \A j \in OnDisk : SameFile(dir[c][j], dir'[c][j])

LEMMA SameDirStays ==
  ASSUME UNCHANGED dir, failures' = 0 => failures = 0,
         \A c \in Drives : clean'[c] = 1 => clean[c] = 1
  PROVE  FilesStay
BY DEF FilesStay, SameFile

LEMMA OneEntryStays ==
  ASSUME IInv, NEW d \in Drives, NEW b \in Buffers, NEW r \in Bit,
         NEW w \in Bit, NEW i \in Slots, NEW e \in Entry,
         PutEntry(d, b, r, w, i, e), UNCHANGED clean,
         r = 1 /\ i \in OnDisk => SameFile(dir[d][i], e)
  PROVE  FilesStay
<1>1. failures' = 0 => failures = 0 /\ r = 1 /\ OneEntry(d, i, e)
  BY PutEntryFacts DEF IInv
<1> QED BY <1>1 DEF FilesStay, OneEntry, SameFile

LEMMA StartWritingStays ==
  ASSUME IInv, NEW d \in Drives, NEW says \in Bit, StartWriting(d, says),
         UNCHANGED <<dir, clean>>
  PROVE  FilesStay
<1>1. CASE FoundFull(d)
  BY <1>1, OnlyRead, SameDirStays DEF IInv
<1>2. ASSUME NEW r \in Bit, Fails(1 - r) PROVE FilesStay
  <2>1. 1 - r \in 0 .. 2
    BY DEF Bit
  <2> QED BY <1>2, <2>1, FailsMonotone, SameDirStays DEF IInv
<1> QED BY <1>1, <1>2 DEF StartWriting

LEMMA MountStays == ASSUME IInv, Mount PROVE FilesStay
<1>1. PICK n \in {0, 1} : Fails(n)
  BY DEF Mount, MountAll
<1>2. n \in 0 .. 2
  OBVIOUS
<1> QED BY <1>1, <1>2, FailsMonotone, SameDirStays DEF IInv, Mount

LEMMA LookStays == ASSUME IInv, NEW d \in Drives, Look(d) PROVE FilesStay
BY OnlyRead, SameDirStays DEF IInv, Look

LEMMA NewFolderStays ==
  ASSUME IInv, NEW d \in Drives, NewFolder(d) PROVE FilesStay
<1>1. CASE FoundFull(d) /\ UNCHANGED dir
  BY <1>1, OnlyRead, SameDirStays DEF IInv, NewFolder
<1>2. CASE \E r, w \in Bit, i \in Slots, n \in Bit :
             /\ IsFreeSlot(Loaded(d, "edit", r), i)
             /\ PutEntry(d, "edit", r, w, i, [FolderEntry EXCEPT !.named = n])
  <2>1. PICK r \in Bit, w \in Bit, i \in Slots, n \in Bit :
             /\ IsFreeSlot(Loaded(d, "edit", r), i)
             /\ PutEntry(d, "edit", r, w, i, [FolderEntry EXCEPT !.named = n])
    BY <1>2
  <2>2. r = 1 /\ i \in OnDisk => dir[d][i].type = 0
    BY <2>1, FreeOnDisk DEF IInv
  <2>3. r = 1 /\ i \in OnDisk =>
          SameFile(dir[d][i], [FolderEntry EXCEPT !.named = n])
    BY <2>2 DEF SameFile
  <2>4. UNCHANGED clean /\ "edit" \in Buffers
    BY DEF NewFolder, Buffers
  <2> QED BY <2>1, <2>3, <2>4, EntryFacts, OneEntryStays
<1> QED BY <1>1, <1>2 DEF NewFolder

LEMMA RenameStays ==
  ASSUME IInv, NEW d \in Drives, NEW i \in Slots, Rename(d, i) PROVE FilesStay
<1>1. PICK r \in Bit, w \in Bit, n \in Bit :
        PutEntry(d, "edit", r, w, i, Renamed(Loaded(d, "edit", r)[i], n))
  BY DEF Rename
<1>2. PICK old : old = Loaded(d, "edit", r)[i]
  OBVIOUS
<1>3. old \in Entry /\ (r = 1 /\ i \in OnDisk => old = dir[d][i])
  BY <1>2, EditedEntry DEF IInv, Buffers
<1>4. Renamed(old, n) \in Entry /\ SameFile(old, Renamed(old, n))
  BY <1>3, EntryFacts DEF Renamed, Entry, SameFile
<1>5. UNCHANGED clean /\ "edit" \in Buffers
  BY DEF Rename, Buffers
<1> QED BY <1>1, <1>2, <1>3, <1>4, <1>5, OneEntryStays

LEMMA RecoverStays ==
  ASSUME IInv, NEW d \in Drives, NEW i \in Slots, Recover(d, i) PROVE FilesStay
<1>1. PICK r \in Bit, w \in Bit :
        /\ Loaded(d, "ghost", r)[i].type = 0
        /\ PutEntry(d, "ghost", r, w, i, Recovered(Loaded(d, "ghost", r)[i]))
  BY DEF Recover
<1>2. PICK old : old = Loaded(d, "ghost", r)[i]
  OBVIOUS
<1>3. old \in Entry /\ (r = 1 /\ i \in OnDisk => old = dir[d][i])
  BY <1>2, EditedEntry DEF IInv, Buffers
<1>4. Recovered(old) \in Entry /\ SameFile(old, Recovered(old))
  BY <1>1, <1>2, <1>3, EntryFacts DEF SameFile
<1>5. UNCHANGED clean /\ "ghost" \in Buffers
  BY DEF Recover, Buffers
<1> QED BY <1>1, <1>2, <1>3, <1>4, <1>5, OneEntryStays

LEMMA SaveStays ==
  ASSUME IInv, NEW d \in Drives, NEW x \in Sectors, Save(d, x) PROVE FilesStay
<1>1. PICK w \in Bit : Fails(1 - w)
  BY DEF Save
<1>2. 1 - w \in 0 .. 2
  BY DEF Bit
<1> QED BY <1>1, <1>2, FailsMonotone, SameDirStays DEF IInv, Save

LEMMA FormatStays == ASSUME IInv, NEW d \in Drives, Format(d) PROVE FilesStay
<1>1. PICK w \in Bit : Fails(1 - w)
  BY DEF Format
<1>2. 1 - w \in 0 .. 2
  BY DEF Bit
<1>3. \A c \in Drives : clean'[c] = 1 => clean[c] = 1
  BY DEF Format, IInv, TypeOK
<1> QED BY <1>1, <1>2, <1>3, FailsMonotone, SameDirStays DEF IInv, Format

LEMMA WriteDataStays == ASSUME IInv, WriteData PROVE FilesStay
<1>1. PICK w \in Bit : Fails(1 - w)
  BY DEF WriteData
<1>2. 1 - w \in 0 .. 2
  BY DEF Bit
<1> QED BY <1>1, <1>2, FailsMonotone, SameDirStays DEF IInv, WriteData

(* The last write of a save: the entry was free.                           *)
LEMMA WriteEntryStays ==
  ASSUME IInv, WriteEntry
  PROVE  /\ FilesStay
         /\ job.drive \in Drives /\ job.slot \in Slots
         /\ failures' = 0 /\ job.slot \in OnDisk =>
              /\ dir'[job.drive][job.slot].type = 1
              /\ dir'[job.drive][job.slot].lba = DataSector(job.slot)
<1>0. PICK d \in Drives, i \in Slots : d = job.drive /\ i = job.slot
  <2>1. job.drive \in Drives /\ job.slot \in Slots
    BY DEF IInv, TypeOK, Job
  <2> QED BY <2>1
<1>1. PICK e : e = [type |-> 1, named |-> 1, lba |-> DataSector(i)]
  OBVIOUS
<1>2. PICK es : es = [bufs["edit"] EXCEPT ![i] = e]
  OBVIOUS
<1>3. PICK w \in Bit : dir' = DirWritten(d, es, w) /\ Fails(1 - w)
  BY <1>0, <1>1, <1>2 DEF WriteEntry
<1>4. e \in Entry /\ e.type = 1 /\ e.lba = DataSector(i)
  BY <1>1, SlotFacts DEF Entry, Bit
<1>5. es \in [Slots -> Entry] /\ \A j \in Slots : es[j] = IF j = i THEN e ELSE bufs["edit"][j]
  BY <1>2, <1>4 DEF IInv, TypeOK, Buffers
<1>6. ASSUME failures' = 0
      PROVE  /\ failures = 0
             /\ \A c \in Drives, j \in OnDisk : SameFile(dir[c][j], dir'[c][j])
             /\ i \in OnDisk => dir'[d][i] = e
  <2>1. 1 - w \in 0 .. 2
    BY DEF Bit
  <2>2. failures = 0 /\ 1 - w = 0
    BY <1>3, <1>6, <2>1, FailsCounts DEF IInv
  <2>3. w = 1
    BY <2>2 DEF Bit
  <2>4. \A c \in Drives, j \in OnDisk :
          dir'[c][j] = IF c = d THEN es[j] ELSE dir[c][j]
    BY <1>3, <1>5, <2>3, DirWrittenFacts DEF IInv
  <2>5. bufs["edit"][i].type = 0 /\ \A j \in OnDisk : bufs["edit"][j] = dir[d][j]
    BY <1>0, <2>2 DEF IInv, NothingFailed, JobKnowsSector, WriteEntry
  <2>6. \A j \in OnDisk : es[j] = IF j = i THEN e ELSE dir[d][j]
    BY <1>5, <2>5, SlotFacts
  <2>7. i \in OnDisk => dir[d][i].type = 0
    BY <2>5
  <2> QED BY <2>2, <2>4, <2>6, <2>7 DEF SameFile
<1>7. UNCHANGED clean
  BY DEF WriteEntry
<1> QED BY <1>0, <1>4, <1>6, <1>7 DEF FilesStay

LEMMA TableStays ==
  ASSUME WindowTypeOK, RowsFollow, FilesStay, UNCHANGED table,
         loaded' \in {loaded, None}
  PROVE  RowsFollow'
<1> SUFFICES ASSUME Followed', NEW i \in OnDisk
             PROVE  RowAgrees(table'[i], dir'[loaded'][i], i)
  BY DEF RowsFollow
<1>1. loaded' = loaded /\ loaded \in Drives
  BY DEF Followed, WindowTypeOK
<1>2. Followed /\ SameFile(dir[loaded][i], dir'[loaded][i])
  BY <1>1 DEF Followed, FilesStay
<1>3. RowAgrees(table[i], dir[loaded][i], i)
  BY <1>2 DEF RowsFollow
<1> QED BY <1>1, <1>2, <1>3 DEF RowAgrees, SameFile

(* One row changed, and with it at most its own entry.                     *)
LEMMA OneRowFollows ==
  ASSUME WindowTypeOK, RowsFollow, NEW i \in Slots, NEW row \in Rows,
         table' = [table EXCEPT ![i] = row], loaded' \in {loaded, None},
         loaded' # None /\ failures' = 0 /\ clean'[loaded] = 1 =>
           /\ failures = 0 /\ clean[loaded] = 1
           /\ \A j \in OnDisk \ {i} : SameFile(dir[loaded][j], dir'[loaded][j])
           /\ i \in OnDisk => RowAgrees(row, dir'[loaded][i], i)
  PROVE  RowsFollow'
<1> SUFFICES ASSUME Followed', NEW j \in OnDisk
             PROVE  RowAgrees(table'[j], dir'[loaded'][j], j)
  BY DEF RowsFollow
<1>1. loaded' = loaded /\ Followed /\ j \in Slots
  BY SlotFacts DEF Followed
<1>2. CASE j = i
  <2>1. table'[j] = row
    BY <1>1, <1>2 DEF WindowTypeOK
  <2> QED BY <1>1, <1>2, <2>1 DEF Followed
<1>3. CASE j # i
  <2>1. table'[j] = table[j]
    BY <1>1, <1>3 DEF WindowTypeOK
  <2>2. RowAgrees(table[j], dir[loaded][j], j)
    BY <1>1 DEF RowsFollow
  <2>3. SameFile(dir[loaded][j], dir'[loaded][j])
    BY <1>1, <1>3 DEF Followed
  <2> QED BY <1>1, <2>1, <2>2, <2>3 DEF RowAgrees, SameFile
<1> QED BY <1>2, <1>3

(* The rows of a sound directory agree with it.                            *)
LEMMA ListedAgrees ==
  ASSUME WindowTypeOK, NEW es \in [Slots -> Entry], NEW i \in OnDisk,
         Sound(es[i], i)
  PROVE  RowAgrees(Listed(es)[i], es[i], i)
<1>1. i \in Slots /\ es[i] \in Entry /\ table[i] \in Rows
  BY SlotFacts DEF WindowTypeOK
<1>2. Listed(es)[i] = RowOf(table[i], es[i])
  BY <1>1 DEF Listed
<1>3. CASE es[i].type = 0
  <2>1. RowOf(table[i], es[i]).exists = FALSE
    BY <1>1, <1>3 DEF RowOf, Rows
  <2> QED BY <1>2, <2>1 DEF RowAgrees
<1>4. CASE es[i].type # 0
  <2>1. RowOf(table[i], es[i]) = [exists |-> TRUE, folder |-> es[i].type = 2,
                                  parent |-> Root, lba |-> es[i].lba]
    BY <1>4 DEF RowOf
  <2>2. es[i].type = 1 \/ es[i].type = 2
    BY <1>1, <1>4 DEF Entry
  <2>3. PICK row : row = Listed(es)[i]
    OBVIOUS
  <2>4. row.lba = es[i].lba
    BY <1>2, <2>1, <2>3
  <2>5. es[i].type = IF row.folder THEN 2 ELSE 1
    <3>1. PICK b \in BOOLEAN : b = (es[i].type = 2)
      OBVIOUS
    <3>2. row = [exists |-> TRUE, folder |-> b, parent |-> Root, lba |-> es[i].lba]
      BY <1>2, <2>1, <2>3, <3>1, Zenon
    <3>3. row.folder = b
      BY <3>2
    <3> QED BY <2>2, <3>1, <3>3
  <2>6. row.lba \in {0, DataSector(i)}
    BY <2>4 DEF Sound
  <2> QED BY <2>3, <2>4, <2>5, <2>6 DEF RowAgrees
<1> QED BY <1>3, <1>4

LEMMA NewRowAgrees ==
  ASSUME NEW row \in Rows, NEW i \in Slots, NEW isFolder \in BOOLEAN
  PROVE  /\ RowAgrees(NewRow(row, isFolder, i),
                      IF isFolder THEN FolderEntry ELSE NewFileEntry(i), i)
         /\ \A p \in Slots, e \in Entry :
              RowAgrees([NewRow(row, isFolder, i) EXCEPT !.parent = p], e, i)
<1>1. /\ NewRow(row, isFolder, i).folder = isFolder
      /\ NewRow(row, isFolder, i).lba = IF isFolder THEN 0 ELSE DataSector(i)
      /\ NewRow(row, isFolder, i) \in Rows
  BY RowFacts DEF NewRow, Rows
<1>2. RowAgrees(NewRow(row, isFolder, i),
                IF isFolder THEN FolderEntry ELSE NewFileEntry(i), i)
  BY <1>1 DEF RowAgrees, FolderEntry, NewFileEntry
<1>3. ASSUME NEW p \in Slots, NEW e \in Entry
      PROVE  RowAgrees([NewRow(row, isFolder, i) EXCEPT !.parent = p], e, i)
  <2>1. PICK q \in Rows : q = NewRow(row, isFolder, i)
    BY <1>1
  <2>2. /\ [q EXCEPT !.parent = p].parent = p
        /\ [q EXCEPT !.parent = p].lba = q.lba
    BY DEF Rows
  <2>3. p # Root
    BY CfsConstants DEF Slots, Root
  <2>4. q.lba \in {0, DataSector(i)}
    BY <1>1, <2>1
  <2> QED BY <2>1, <2>2, <2>3, <2>4 DEF RowAgrees
<1> QED BY <1>2, <1>3

LEMMA OpenDriveFollows ==
  ASSUME IInv, WindowTypeOK, RowsFollow, OpenDrive PROVE RowsFollow'
<1>1. /\ ui.active \in Drives
      /\ UNCHANGED <<dir, clean, failures>>
  BY DriveFacts DEF OpenDrive, OnlyTheWindow, cfsVars
<1>2. CASE OpenCfs(ui.active)
  <2>1. PICK r \in Bit, stack \in [Slots -> StackEntries] :
          /\ table' = Listed([i \in Slots |-> IF r = 1 /\ i \in OnDisk
                                              THEN dir[ui.active][i]
                                              ELSE stack[i]])
          /\ loaded' = IF r = 1 THEN ui.active ELSE None
    BY <1>2 DEF OpenCfs
  <2>2. PICK es : es = [i \in Slots |-> IF r = 1 /\ i \in OnDisk
                                        THEN dir[ui.active][i] ELSE stack[i]]
    OBVIOUS
  <2>3. es \in [Slots -> Entry]
    BY <1>1, <2>2, DiskManagerConstants DEF IInv, TypeOK
  <2> SUFFICES ASSUME Followed', NEW i \in OnDisk
               PROVE  RowAgrees(table'[i], dir'[loaded'][i], i)
    BY DEF RowsFollow
  <2>4. r = 1 /\ loaded' = ui.active /\ failures = 0 /\ clean[ui.active] = 1
    BY <1>1, <2>1 DEF Followed
  <2>5. es[i] = dir[ui.active][i]
    BY <2>2, <2>4, SlotFacts
  <2>6. Sound(es[i], i)
    BY <1>1, <2>4, <2>5 DEF IInv, NothingFailed, SoundDirectory
  <2> QED BY <1>1, <2>1, <2>2, <2>3, <2>4, <2>5, <2>6, ListedAgrees
<1>3. CASE loaded' = None
  BY <1>3 DEF RowsFollow, Followed
<1>4. CASE UNCHANGED <<table, loaded>>
  BY <1>1, <1>4, SameDirStays, TableStays
<1> QED BY <1>2, <1>3, <1>4 DEF OpenDrive, OpenOther

LEMMA DialogDriveFollows ==
  ASSUME IInv, WindowTypeOK, RowsFollow, DialogDrive PROVE RowsFollow'
<1>1. PICK d \in Drives : /\ Look(d)
                          /\ loaded' = IF failures' = failures THEN d ELSE None
  BY DEF DialogDrive
<1>2. PICK r \in Bit : /\ bufs' = [bufs EXCEPT !["edit"] = Loaded(d, "edit", r)]
                       /\ Fails(1 - r)
  BY <1>1 DEF Look
<1>3. UNCHANGED <<dir, clean>> /\ table' = Listed(bufs'["edit"])
  BY <1>1 DEF Look, DialogDrive
<1>4. PICK es : es = Loaded(d, "edit", r)
  OBVIOUS
<1>5. es \in [Slots -> Entry] /\ bufs'["edit"] = es
  BY <1>2, <1>4, LoadedFacts DEF IInv, TypeOK, Buffers
<1> SUFFICES ASSUME Followed', NEW i \in OnDisk
             PROVE  RowAgrees(table'[i], dir'[loaded'][i], i)
  BY DEF RowsFollow
<1>6. loaded' = d /\ failures' = 0 /\ clean[d] = 1
  BY <1>1, <1>3 DEF Followed
<1>7. failures = 0 /\ r = 1
  <2>1. 1 - r \in 0 .. 2
    BY DEF Bit
  <2>2. failures = 0 /\ 1 - r = 0
    BY <1>2, <1>6, <2>1, FailsCounts DEF IInv
  <2> QED BY <2>2 DEF Bit
<1>8. es[i] = dir[d][i]
  BY <1>4, <1>7, LoadedFacts DEF IInv, Buffers
<1>9. Sound(es[i], i)
  BY <1>6, <1>7, <1>8 DEF IInv, NothingFailed, SoundDirectory
<1> QED BY <1>3, <1>5, <1>6, <1>8, <1>9, ListedAgrees

LEMMA AddToDriveFollows ==
  ASSUME IInv, WindowTypeOK, OpenViewHasDrive, RowsFollow, AddToDrive
  PROVE  RowsFollow'
<1>1. /\ ui.active \in Drives /\ "edit" \in Buffers
      /\ UNCHANGED clean
      /\ loaded' = IF loaded = ui.active THEN ui.active ELSE None
  BY DriveFacts DEF AddToDrive, OpenViewHasDrive, Buffers, Follows
<1>2. loaded' \in {loaded, None} /\ (loaded' # None => loaded = ui.active)
  BY <1>1
<1>3. CASE FoundFull(ui.active) /\ UNCHANGED <<dir, table>>
  BY <1>1, <1>2, <1>3, OnlyRead, SameDirStays, TableStays DEF IInv
<1>4. ASSUME NEW r \in Bit, NEW w \in Bit, NEW i \in Slots,
             NEW isFolder \in BOOLEAN,
             PutEntry(ui.active, "edit", r, w, i,
                      IF isFolder THEN FolderEntry ELSE NewFileEntry(i)),
             table' = [table EXCEPT ![i] = NewRow(@, isFolder, i)]
      PROVE  RowsFollow'
  <2>1. PICK e : e = IF isFolder THEN FolderEntry ELSE NewFileEntry(i)
    OBVIOUS
  <2>2. e \in Entry
    <3>1. FolderEntry = [FolderEntry EXCEPT !.named = 1] /\ 1 \in Bit
      BY DEF FolderEntry, Bit
    <3> QED BY <2>1, <3>1, EntryFacts
  <2>3. failures' = 0 => failures = 0 /\ OneEntry(ui.active, i, e)
    BY <1>1, <1>4, <2>1, <2>2, PutEntryFacts DEF IInv
  <2>4. PICK row \in Rows : row = NewRow(table[i], isFolder, i)
    <3>1. NewRow(table[i], isFolder, i) \in Rows
      BY RowFacts DEF WindowTypeOK
    <3> QED BY <3>1
  <2>5. RowAgrees(row, e, i)
    BY <2>1, <2>4, NewRowAgrees DEF WindowTypeOK
  <2>6. table' = [table EXCEPT ![i] = row]
    BY <1>4, <2>4
  <2>7. ASSUME loaded' # None, failures' = 0, clean'[loaded] = 1
        PROVE  /\ failures = 0 /\ clean[loaded] = 1
               /\ \A j \in OnDisk \ {i} : SameFile(dir[loaded][j], dir'[loaded][j])
               /\ i \in OnDisk => RowAgrees(row, dir'[loaded][i], i)
    BY <1>1, <1>2, <2>3, <2>5, <2>7 DEF OneEntry, SameFile
  <2> QED BY <1>2, <2>6, <2>7, OneRowFollows
<1> QED BY <1>3, <1>4 DEF AddToDrive

LEMMA AddToFolderFollows ==
  ASSUME IInv, WindowTypeOK, RowsFollow, FolderInView, AddToFolder
  PROVE  RowsFollow'
<1>1. UNCHANGED <<dir, clean, failures, loaded>> /\ ui.folder \in Slots
  BY DEF AddToFolder, OnlyTheWindow, cfsVars, FolderInView
<1>2. CASE UNCHANGED table
  BY <1>1, <1>2, SameDirStays, TableStays
<1>3. ASSUME NEW i \in Slots, NEW isFolder \in BOOLEAN,
             table' = [table EXCEPT ![i] =
                         [NewRow(@, isFolder, i) EXCEPT !.parent = ui.folder]]
      PROVE  RowsFollow'
  <2>1. PICK row \in Rows :
          row = [NewRow(table[i], isFolder, i) EXCEPT !.parent = ui.folder]
    <3>1. NewRow(table[i], isFolder, i) \in Rows
      BY RowFacts DEF WindowTypeOK
    <3>2. [NewRow(table[i], isFolder, i) EXCEPT !.parent = ui.folder] \in Rows
      BY <1>1, <3>1 DEF Rows
    <3> QED BY <3>2
  <2>2. \A e \in Entry : RowAgrees(row, e, i)
    BY <1>1, <2>1, NewRowAgrees DEF WindowTypeOK
  <2>3. table' = [table EXCEPT ![i] = row]
    BY <1>3, <2>1
  <2>4. ASSUME loaded' # None, failures' = 0, clean'[loaded] = 1
        PROVE  /\ failures = 0 /\ clean[loaded] = 1
               /\ \A j \in OnDisk \ {i} : SameFile(dir[loaded][j], dir'[loaded][j])
               /\ i \in OnDisk => RowAgrees(row, dir'[loaded][i], i)
    <3>1. loaded \in Drives
      BY <1>1, <2>4 DEF WindowTypeOK
    <3>2. i \in OnDisk => dir[loaded][i] \in Entry
      BY <3>1 DEF IInv, TypeOK
    <3> QED BY <1>1, <2>2, <2>4, <3>2 DEF SameFile
  <2> QED BY <1>1, <2>3, <2>4, OneRowFollows
<1> QED BY <1>2, <1>3 DEF AddToFolder

LEMMA DeleteRowFollows ==
  ASSUME IInv, WindowTypeOK, OpenViewHasDrive, RowsFollow,
         NEW f \in Slots, DeleteRow(f)
  PROVE  RowsFollow'
<1>1. ui.view # 0
  BY DEF DeleteRow, ShownRows
<1>2. /\ ui.active \in Drives /\ "edit" \in Buffers
      /\ UNCHANGED clean
      /\ loaded' = IF loaded = ui.active THEN ui.active ELSE None
  BY <1>1, DriveFacts DEF DeleteRow, Delete, OpenViewHasDrive, Buffers, Follows
<1>3. loaded' \in {loaded, None} /\ (loaded' # None => loaded = ui.active)
  BY <1>2
<1>4. PICK r \in Bit, w \in Bit :
        PutEntry(ui.active, "edit", r, w, f,
                 Deleted(Loaded(ui.active, "edit", r)[f]))
  BY DEF DeleteRow, Delete
<1>5. Deleted(Loaded(ui.active, "edit", r)[f]) \in Entry
  BY <1>2, LoadedFacts, EntryFacts DEF IInv
<1>6. PICK e \in Entry : e = Deleted(Loaded(ui.active, "edit", r)[f])
  BY <1>5
<1>7. failures' = 0 => failures = 0 /\ OneEntry(ui.active, f, e)
  BY <1>2, <1>4, <1>6, PutEntryFacts DEF IInv
<1>8. PICK row \in Rows : row = Removed(table[f])
  <2>1. Removed(table[f]) \in Rows
    BY RowFacts DEF WindowTypeOK
  <2> QED BY <2>1
<1>9. RowAgrees(row, e, f)
  <2>1. row.exists = FALSE
    BY <1>8 DEF Removed, Rows, WindowTypeOK
  <2> QED BY <2>1 DEF RowAgrees
<1>10. table' = [table EXCEPT ![f] = row]
  BY <1>8 DEF DeleteRow
<1>11. ASSUME loaded' # None, failures' = 0, clean'[loaded] = 1
       PROVE  /\ failures = 0 /\ clean[loaded] = 1
              /\ \A j \in OnDisk \ {f} : SameFile(dir[loaded][j], dir'[loaded][j])
              /\ f \in OnDisk => RowAgrees(row, dir'[loaded][f], f)
  BY <1>2, <1>3, <1>7, <1>9, <1>11 DEF OneEntry, SameFile
<1> QED BY <1>3, <1>10, <1>11, OneRowFollows

(* A clear of the drive that the table does not follow says nothing of it. *)
LEMMA ClearFollows ==
  ASSUME IInv, WindowTypeOK, RowsFollow, ClearingUnfollowed,
         ClearDirectory, UNCHANGED <<table, loaded>>
  PROVE  RowsFollow'
<1>1. job.drive \in Drives /\ loaded # job.drive
  BY DEF ClearDirectory, ClearingUnfollowed, IInv, TypeOK, Job
<1>2. PICK w \in Bit :
        /\ dir' = IF w = 1 THEN [dir EXCEPT ![job.drive] = Blank] ELSE dir
        /\ clean' = IF w = 1 THEN [clean EXCEPT ![job.drive] = signature[job.drive]]
                    ELSE clean
        /\ Fails(1 - w)
  BY DEF ClearDirectory
<1>3. 1 - w \in 0 .. 2
  BY DEF Bit
<1>4. failures' = 0 => failures = 0
  BY <1>2, <1>3, FailsMonotone DEF IInv
<1>5. loaded \in Drives => dir'[loaded] = dir[loaded] /\ clean'[loaded] = clean[loaded]
  BY <1>1, <1>2 DEF IInv, TypeOK
<1> SUFFICES ASSUME Followed', NEW i \in OnDisk
             PROVE  RowAgrees(table'[i], dir'[loaded'][i], i)
  BY DEF RowsFollow
<1>6. loaded \in Drives
  BY DEF Followed, WindowTypeOK
<1>7. Followed
  BY <1>4, <1>5, <1>6 DEF Followed
<1> QED BY <1>5, <1>6, <1>7 DEF RowsFollow

(* The last write of a save, which tells the table.                        *)
LEMMA ContinuesFollows ==
  ASSUME IInv, WindowTypeOK, RowsFollow, ClearingUnfollowed, Continues
  PROVE  RowsFollow'
<1>1. CASE WriteData /\ UNCHANGED <<table, loaded>>
  BY <1>1, WriteDataStays, TableStays
<1>2. CASE ClearDirectory /\ UNCHANGED <<table, loaded>>
  BY <1>2, ClearFollows
<1>3. CASE WriteEntry /\ UNCHANGED <<table, loaded>>
  BY <1>3, WriteEntryStays, TableStays
<1>4. ASSUME WriteEntry,
             table' = [table EXCEPT ![job.slot] =
                      [exists |-> TRUE, folder |-> FALSE, parent |-> ui.path,
                       lba |-> DataSector(job.slot)]],
             Follows(job.drive)
      PROVE  RowsFollow'
  <2>1. PICK i \in Slots, d \in Drives : i = job.slot /\ d = job.drive
    <3>1. job.slot \in Slots /\ job.drive \in Drives
      BY <1>4, WriteEntryStays
    <3> QED BY <3>1
  <2>2. PICK row \in Rows : row = [exists |-> TRUE, folder |-> FALSE,
                                   parent |-> ui.path, lba |-> DataSector(i)]
    <3>1. [exists |-> TRUE, folder |-> FALSE, parent |-> ui.path,
           lba |-> DataSector(i)] \in Rows
      BY CfsConstants DEF WindowTypeOK, Rows, DataSector, Slots
    <3> QED BY <3>1
  <2>3. loaded' = IF loaded = d THEN d ELSE None
    BY <1>4, <2>1 DEF Follows
  <2>4. FilesStay /\ (failures' = 0 /\ i \in OnDisk => dir'[d][i].type = 1
                                          /\ dir'[d][i].lba = DataSector(i))
    BY <1>4, <2>1, WriteEntryStays
  <2>5. ASSUME loaded' # None, failures' = 0, clean'[loaded] = 1
        PROVE  /\ failures = 0 /\ clean[loaded] = 1
               /\ \A j \in OnDisk \ {i} : SameFile(dir[loaded][j], dir'[loaded][j])
               /\ i \in OnDisk => RowAgrees(row, dir'[loaded][i], i)
    <3>1. loaded = d
      BY <2>3, <2>5
    <3>2. i \in OnDisk => RowAgrees(row, dir'[d][i], i)
      BY <2>2, <2>4, <2>5 DEF RowAgrees
    <3> QED BY <2>4, <2>5, <3>1, <3>2 DEF FilesStay
  <2>6. table' = [table EXCEPT ![i] = row] /\ loaded' \in {loaded, None}
    BY <1>4, <2>1, <2>2, <2>3
  <2> QED BY <2>5, <2>6, OneRowFollows
<1> QED BY <1>1, <1>2, <1>3, <1>4 DEF Continues

(* Clicks that neither change a row nor take an entry away.                *)
LEMMA QuietFollows ==
  ASSUME IInv, WindowTypeOK, OpenViewHasDrive, RowsFollow,
         \/ OpenWindow \/ Home \/ FormatClicked \/ Back
         \/ \E d \in Drives : SelectDrive(d)
         \/ RenameDone
         \/ \E f \in Slots : RenameRow(f) \/ CopyRow(f) \/ ClickRow(f)
                               \/ RecoverClicked(f)
         \/ \E t \in Tabs : ClickTab(t)
         \/ NewNote \/ SaveNote
         \/ OpenDialog \/ DialogPath \/ DialogFolder \/ DialogSave
  PROVE  RowsFollow'
<1>0. /\ DriveOf(ui.active) \subseteq Drives
      /\ ui.active # None => ui.active \in Drives
  BY DriveFacts
<1>1. CASE OpenWindow
  BY <1>1, MountStays, TableStays DEF OpenWindow
<1>2. CASE FormatClicked
  <2>1. FilesStay
    BY <1>0, <1>2, FormatStays DEF FormatClicked
  <2> QED BY <1>2, <2>1, TableStays DEF FormatClicked
<1>3. CASE RenameDone
  <2>1. ui.renaming \in Slots
    BY <1>3 DEF RenameDone, WindowTypeOK
  <2>2. FilesStay
    BY <1>0, <1>3, <2>1, RenameStays DEF RenameDone
  <2> QED BY <1>3, <2>2, TableStays DEF RenameDone
<1>4. ASSUME NEW f \in Slots, CopyRow(f) PROVE RowsFollow'
  <2>1. PICK d \in Drives : CopyToCfs(d)
    BY <1>4 DEF CopyRow
  <2>2. FilesStay
    BY <2>1, StartWritingStays DEF CopyToCfs, Bit
  <2> QED BY <1>4, <2>2, TableStays DEF CopyRow
<1>5. ASSUME NEW f \in Slots, RecoverClicked(f) PROVE RowsFollow'
  BY <1>0, <1>5, RecoverStays, TableStays DEF RecoverClicked
<1>6. CASE SaveNote
  <2>1. table[note.open].lba \in Sectors
    BY <1>6, CfsConstants DEF SaveNote, WindowTypeOK, Rows, Sectors
  <2>2. FilesStay
    BY <1>0, <1>6, <2>1, SaveStays DEF SaveNote
  <2> QED BY <1>6, <2>2, TableStays DEF SaveNote
<1>7. CASE DialogFolder
  BY <1>0, <1>7, NewFolderStays, TableStays DEF DialogFolder
<1>8. CASE DialogSave
  <2>1. PICK d \in Drives : SaveAs(d)
    BY <1>0, <1>8 DEF DialogSave
  <2>2. FilesStay
    BY <2>1, StartWritingStays DEF SaveAs, Bit
  <2> QED BY <1>8, <2>2, TableStays DEF DialogSave
<1>9. CASE UNCHANGED <<cfsVars, table, loaded>>
  <2>1. UNCHANGED <<dir, clean, failures, table, loaded>>
    BY <1>9 DEF cfsVars
  <2> QED BY <2>1, SameDirStays, TableStays
<1>10. CASE Home \/ Back \/ NewNote \/ OpenDialog \/ DialogPath
  BY <1>9, <1>10 DEF Home, Back, NewNote, OpenDialog, DialogPath, OnlyTheWindow
<1>11. /\ \A d \in Drives : SelectDrive(d) => RowsFollow'
       /\ \A f \in Slots : RenameRow(f) \/ ClickRow(f) => RowsFollow'
       /\ \A t \in Tabs : ClickTab(t) => RowsFollow'
  BY <1>9 DEF SelectDrive, RenameRow, ClickRow, ClickTab, OnlyTheWindow
<1> QED BY <1>1, <1>2, <1>3, <1>4, <1>5, <1>6, <1>7, <1>8, <1>10, <1>11

LEMMA RowsFollowKept ==
  ASSUME IInv, WindowTypeOK, OpenViewHasDrive, FollowInv, DmNext
  PROVE  RowsFollow'
<1>1. RowsFollow /\ FolderInView /\ ClearingUnfollowed
  BY DEF FollowInv
<1>2. CASE PowerComesBack
  BY <1>2 DEF PowerComesBack, RowsFollow, Followed
<1>3. ASSUME NEW f \in Slots, DeleteRow(f) PROVE RowsFollow'
  BY <1>1, <1>3, DeleteRowFollows
<1>4. CASE OpenDrive
  BY <1>1, <1>4, OpenDriveFollows
<1>5. CASE AddToDrive
  BY <1>1, <1>5, AddToDriveFollows
<1>6. CASE AddToFolder
  BY <1>1, <1>6, AddToFolderFollows
<1>7. CASE DialogDrive
  BY <1>1, <1>7, DialogDriveFollows
<1>8. CASE Continues
  BY <1>1, <1>8, ContinuesFollows
<1> QED BY <1>1, <1>2, <1>3, <1>4, <1>5, <1>6, <1>7, <1>8, QuietFollows
        DEF DmNext

(* The view of a folder is entered with one, and left before it changes.   *)
LEMMA FolderInViewKept ==
  ASSUME WindowTypeOK, FolderInView, DmNext PROVE FolderInView'
<1>0. ui \in Ui
  BY DEF WindowTypeOK, Ui
<1>1. CASE OpenWindow \/ Home \/ OpenDrive \/ Back
  <2>1. ui'.view \in {ui.view, 0, 1} /\ (ui'.view # 0 => ui'.folder = ui.folder)
    BY <1>0, <1>1 DEF OpenWindow, Home, OpenDrive, Back, Behind, Ui
  <2> QED BY <2>1 DEF FolderInView
<1>2. CASE RenameDone \/ OpenDialog \/ DialogDrive \/ DialogPath
  <2>1. ui'.view = ui.view /\ ui'.folder = ui.folder
    BY <1>0, <1>2 DEF RenameDone, OpenDialog, DialogDrive, DialogPath, Ui
  <2> QED BY <2>1 DEF FolderInView
<1>3. ASSUME NEW f \in Slots, ClickRow(f) PROVE FolderInView'
  <2>1. UNCHANGED ui \/ ui' = [ui EXCEPT !.view = 2, !.folder = f, !.path = f]
    BY <1>3 DEF ClickRow
  <2>2. UNCHANGED ui \/ ui'.folder = f
    BY <1>0, <2>1 DEF Ui
  <2> QED BY <2>2 DEF FolderInView
<1>4. ASSUME NEW f \in Slots, RenameRow(f) PROVE FolderInView'
  <2>1. ui'.view = ui.view /\ ui'.folder = ui.folder
    BY <1>0, <1>4 DEF RenameRow, Ui
  <2> QED BY <2>1 DEF FolderInView
<1>5. ASSUME NEW d \in Drives, SelectDrive(d) PROVE FolderInView'
  <2>1. ui'.view = ui.view /\ ui'.folder = ui.folder
    BY <1>0, <1>5 DEF SelectDrive, Ui
  <2> QED BY <2>1 DEF FolderInView
<1>6. CASE PowerComesBack
  BY <1>6 DEF PowerComesBack, Hidden, FolderInView
<1>7. CASE UNCHANGED ui
  BY <1>7 DEF FolderInView
<1>8. /\ \A f \in Slots : DeleteRow(f) \/ CopyRow(f) \/ RecoverClicked(f)
                            => UNCHANGED ui
      /\ \A t \in Tabs : ClickTab(t) => UNCHANGED ui
  BY DEF DeleteRow, CopyRow, RecoverClicked, ClickTab
<1> QED BY <1>1, <1>2, <1>3, <1>4, <1>5, <1>6, <1>7, <1>8
        DEF DmNext, FormatClicked, AddToDrive, AddToFolder, NewNote,
            SaveNote, DialogFolder, DialogSave, Continues

(* Only FORMAT begins a clear, and it parts the table from the drive.      *)
LEMMA ClearingKept ==
  ASSUME IInv, WindowTypeOK, DmNext PROVE ClearingUnfollowed'
<1>1. CASE FormatClicked
  <2>1. ui.active # None /\ loaded' = IF loaded = ui.active THEN None ELSE loaded
    BY <1>1 DEF FormatClicked
  <2>2. job' = [Idle EXCEPT !.pc = "clear", !.drive = ui.active]
    BY <1>1 DEF FormatClicked, Format
  <2>3. job'.drive = ui.active
    BY <2>2 DEF Idle
  <2> QED BY <2>1, <2>3 DEF ClearingUnfollowed
<1>2. CASE job' = Idle
  BY <1>2 DEF ClearingUnfollowed, Idle
<1>3. CASE job'.pc # "clear"
  BY <1>3 DEF ClearingUnfollowed
<1>4. CASE Continues
  <2>1. job' = Idle \/ job' = [job EXCEPT !.pc = "entry"]
    BY <1>4 DEF Continues, WriteData, WriteEntry, ClearDirectory
  <2>2. job' = Idle \/ job'.pc # "clear"
    BY <2>1 DEF IInv, TypeOK, Job
  <2> QED BY <1>2, <1>3, <2>2
<1>5. ASSUME NEW d \in Drives, NEW says \in Bit, job = Idle, StartWriting(d, says)
      PROVE  job' = Idle \/ job'.pc # "clear"
  BY <1>5 DEF StartWriting
<1>6. ASSUME NEW f \in Slots, CopyRow(f)
      PROVE  job' = Idle \/ job'.pc # "clear"
  BY <1>5, <1>6 DEF CopyRow, CopyToCfs, Bit
<1>7. CASE DialogSave
  BY <1>2, <1>3, <1>5, <1>7, DriveFacts DEF DialogSave, SaveAs, Bit
<1>8. ASSUME NEW f \in Slots, DeleteRow(f) \/ RenameRow(f) \/ ClickRow(f)
                                \/ RecoverClicked(f)
      PROVE  job' = Idle
  BY <1>8 DEF DeleteRow, RenameRow, ClickRow, RecoverClicked, Click,
              OnlyTheWindow, cfsVars, Delete, Recover
<1>9. CASE \/ OpenWindow \/ Home \/ OpenDrive \/ Back \/ AddToDrive \/ AddToFolder
           \/ NewNote \/ OpenDialog \/ DialogPath
  BY <1>2, <1>9 DEF OpenWindow, Mount, Home, OpenDrive, Back, AddToDrive,
     AddToFolder, NewNote, OpenDialog, DialogPath, Click, OnlyTheWindow, cfsVars
<1>10. CASE RenameDone \/ SaveNote \/ DialogDrive \/ DialogFolder
  BY <1>2, <1>10 DEF RenameDone, Rename, SaveNote, Save, DialogDrive, Look,
     DialogFolder, NewFolder
<1>11. /\ \A d \in Drives : SelectDrive(d) => job' = Idle
       /\ \A t \in Tabs : ClickTab(t) => job' = Idle
  BY DEF SelectDrive, ClickTab, Click, OnlyTheWindow, cfsVars
<1>12. CASE PowerComesBack
  BY <1>2, <1>12 DEF PowerComesBack, PowerLoss
<1> QED BY <1>1, <1>2, <1>3, <1>4, <1>6, <1>7, <1>8, <1>9, <1>10, <1>11, <1>12
        DEF DmNext

LEMMA FollowInitially == DmInit => FollowInv
BY DEF DmInit, Init, Idle, Hidden, FollowInv, RowsFollow, Followed,
       FolderInView, ClearingUnfollowed

LEMMA FollowKept == DmInv /\ FollowInv /\ [DmNext]_dmVars => FollowInv'
<1> SUFFICES ASSUME DmInv, FollowInv, [DmNext]_dmVars PROVE FollowInv'
  OBVIOUS
<1>1. CASE DmNext
  BY <1>1, RowsFollowKept, FolderInViewKept, ClearingKept DEF DmInv, FollowInv
<1>2. CASE UNCHANGED dmVars
  BY <1>2 DEF dmVars, cfsVars, FollowInv, RowsFollow, Followed, RowAgrees,
     FolderInView, ClearingUnfollowed
<1> QED BY <1>1, <1>2

LEMMA RowsAlwaysFollow == DmSpec => [](DmInv /\ FollowInv)
BY DmInitially, DmPreserved, FollowInitially, FollowKept, PTL DEF DmSpec

(* What the window of a drive shows in its root is on the drive, under the *)
(* same sector, whatever other windows did to drive and table since the    *)
(* directory was read, as long as the table still follows that drive.      *)
THEOREM RowsStayOnDisk == DmSpec => []RootRowsAreOnDisk
<1>1. DmInv /\ FollowInv => RootRowsAreOnDisk
  BY DEF FollowInv, RowsFollow, Followed, RowAgrees, RootRowsAreOnDisk
<1> QED BY <1>1, RowsAlwaysFollow, PTL

(* SAVE of the notepad, which takes its sector from the table and its      *)
(* drive from the list of drives, changes no sector but that of the slot   *)
(* that was opened, as long as the two belong together.                    *)
THEOREM SaveKeepsToSlot == DmSpec => SaveStaysInSlot
<1>1. ASSUME DmInv, FollowInv, Settled, SaveNote,
             NEW d \in Drives, NEW x \in Sectors,
             d # loaded \/ x # DataSector(note.open)
      PROVE  data'[d][x] = data[d][x]
  <2>1. /\ ui.active = loaded /\ loaded \in Drives /\ Followed
        /\ note.open \in OnDisk /\ table[note.open].exists
        /\ table[note.open].lba # 0
    BY <1>1 DEF Settled, Followed, DmInv, WindowTypeOK, SaveNote
  <2>2. RowAgrees(table[note.open], dir[loaded][note.open], note.open)
    BY <1>1, <2>1 DEF FollowInv, RowsFollow
  <2>3. table[note.open].lba = DataSector(note.open)
    BY <2>1, <2>2 DEF RowAgrees
  <2>4. DriveOf(ui.active) = {loaded}
    BY <2>1, <1>1 DEF DriveOf, Settled
  <2>5. Save(loaded, DataSector(note.open))
    BY <1>1, <2>3, <2>4 DEF SaveNote
  <2>6. PICK w \in Bit :
          data' = DataWritten(loaded, DataSector(note.open), texts + 1, w)
    BY <2>5 DEF Save
  <2>7. data \in [Drives -> [Sectors -> Texts]]
    BY <1>1 DEF DmInv, IInv, TypeOK
  <2> QED BY <1>1, <2>1, <2>6, <2>7 DEF DataWritten
<1>2. DmInv /\ FollowInv /\ [DmNext]_dmVars =>
        [Settled /\ SaveNote =>
           \A d \in Drives, x \in Sectors :
             d # loaded \/ x # DataSector(note.open)
               => data'[d][x] = data[d][x]]_dmVars
  BY <1>1
<1> QED BY <1>2, RowsAlwaysFollow, PTL DEF DmSpec, SaveStaysInSlot
=============================================================================
