# A formal model of COSMOS OS

COSMOS OS is a bare-metal system for x86 in two kernels: `kernel.cpp` is OS1
(32 bit, desktop with a disk manager), `kernel_main.cpp` is OS2 (64 bit,
preemptive tasks), and both link the same drivers. Neither has tests. This
directory holds TLA+ models of the parts whose correctness depends on the order
of steps, the TLC configurations that check them on small instances, and
TLAPS proofs of the safety results for all sizes. Line numbers refer to the
files as they are in `src/`; the code is written with the macros of
`schneider_lang.h`, which change words and not lines.

## 1. Inventory

| component | state | operations | what makes it hard | correct means | module |
|---|---|---|---|---|---|
| OS2 multitasking (`kernel_main.cpp` 51-218, 1103-1193, 1472-1510, 1587-1611) | `tasks[4]`, `current_task`, `num_tasks`, one stack per task, `system_ticks`, the program area at 0x01100000 | `create_task`, `pit_isr`/`schedule`, `yield`, int 0x80, `sleep_ms`, START, RUNAPP, `load_and_run_bin` | the timer strikes between any two instructions | each task gets its own context back; nobody starves; waits end | `Scheduler` |
| CFS directory of the OS1 disk manager (`kernel.cpp` 2230-4000) | on disk: sector 0, directory sector 1002, one data sector 4000 + slot per slot; in RAM: buffers at 0x07000000 and 0x08000000, labels in `drives[].model` | + FILE, + DIR, NEW FOLDER, DEL, rename, RECOVER, Save As, COPY TO CFS, SAVE, FORMAT CFS, REF | several sector writes per click, power loss between them, transfers that fail unseen, buffers shared by drives, no allocation map | files share no sector; what was saved stays; a drive with files is not formatted | `CfsDirectory` |
| OS1 disk manager, RAM side (`kernel.cpp` 2229-2284, 2484-3345, 3704-3990; `fs_init`) | `file_table[28]`, `active_drive_idx`, `dsk_view`, the folder, the rename overlay, three notepad tabs | choose and open a drive, rows, folders, tabs, dialogs | table, drive and opened file change separately | an operation acts on the file and drive that are shown | `DiskManager` |
| AHCI drivers (`cosmos_ahci.cpp`, `kernel_main.cpp` 565-660) | command list, FIS area and command table per port at fixed addresses, port registers | mount, MBR read, read, write, identify | the device completes commands while the driver polls with a bounded count; several places for one port's command list | a call that returns success moved the data it names; a timed-out command does not disturb the next | `AhciPort`, `AhciOs1`, `AhciOs2`, `Ahci` |
| Network (`net.cpp`) | E1000 and RTL8139 rings and the driver's indices into them, own address | starting a card, `net_raw` and its callers, `check_incoming`, ARP, DHCP | the card writes the rings while they are read; a ring that stalls; restarts | every received frame is seen once and in order; what counts as sent was sent | `E1000`, `Rtl8139`, `Net` |
| PCI scan (`pci.cpp` 849-1030, SCAN, INSTALL) | lists of functions, the started card | scan, select, SCAN, INSTALL | a second scan finds the lists and a running card | indices in the lists, card started is one that is there | `Pci` |
| USB sticks (`kernel.cpp` 277-522, `cosmos_usb.cpp`) | addresses and stages of the sticks, `drives[]` | enumeration, capacity, list of drives, REF | transactions fail in every phase; the firmware's addresses; the list is shared with SATA | a row of a stick is heard by that stick alone; REF keeps it | `Usb` |
| OS2 disk manager, notepad, dialogs, clipboard, MKDIR (`kernel_main.cpp` 1428-1468, 2290-2930) | `cfs_files[28]`, the directory at sector 1002 and its buffer, clipboard, `active_file_lba` | open, format, folders, copy, paste, + FILE, save, save as | five writers share a buffer, and three a sector area | entries and saved texts stay; rows agree with the disk | `Os2Disk` |
| Input and windows (`kernel_main.cpp` 370-405, 795-861, 1141, 1691-1900, 2005-2270; `kernel.cpp` 1319-1434, 1712-1751) | bytes of a packet, click edge, shift, one key, z-order, drag | bytes, frames, hotkeys, clicks | bytes of two devices mix, packets begin in the middle, several fit in a frame | no click is invented; shift is known; the loop ends | `Input` |
| Games (`kernel.cpp` 3440-3690, `arcade.cpp`) | states, scores, ball, touches | a frame of each engine, menus | several events in one frame, a window resized under the ball | one winner, once | `Games` |
| COSMOS file system (`cosmos_fs.cpp`) | `file_table` | `fs_init`; the rest has no caller | | | `DiskManager!FirstTable` |
| CFS library (`cosmos_cfs.cpp`), TBA recorder (`cosmos_tba.cpp`) | superblock, directory; a ring of frames | finalize, read, format; record | write only through a port nobody returns | | |
| Heaps (`kernel_main.cpp` 300-340, `kernel.cpp`, `memory.cpp`) | block list | `malloc`, `free`, without a caller | | | |
| Formats (`cosmos_partition.cpp`, `cosmos_bytes.cpp`, parts of `cosmos_fs.cpp`, `cosmos_ahci.cpp`) | none | parse MBR, GPT, FAT32, exFAT, NTFS, ISO 9660 | fields at fixed offsets | parsing inverts the layout | |
| Boot, paging, IDT (`boot.s`, `os2_entry.s`, `memory.cpp`, `pci.cpp`) | tables | straight line | | | |
| Script interpreter and browser window (`arcade.cpp`) | window text | drawing | | | |
| `cosmos_kernel.cpp` | | | not compiled by `build.sh` | | |

How they interact: the desktop loops of both kernels call everything else
directly, on one CPU. In OS2 the timer interrupt takes the CPU away from the
desktop and from the tasks; in OS1 a click runs to its end. The disk managers
call the AHCI driver and mostly look at no result. Directory operations
communicate through fixed buffers in RAM and the sectors of the disk;
`ahci_mount_drive` reads back, as a label in the model string, what FORMAT wrote
to sector 0. The list `drives[]` is filled by the AHCI and the USB code. The
desktop looks at the network once in ten frames and hands the shell's commands
to it. `PROJECT.json` lists every component with its status and, under
`hazards`, the places where the order of events could go wrong.

## 2. Modules

| module | content |
|---|---|
| `RoundRobin` | abstract: what multitasking promises to the code inside a task |
| `Scheduler` | OS2 multitasking, interrupt by interrupt |
| `SchedulerProofs` | its safety theorems |
| `FileStore` | abstract: what a directory promises to the user |
| `CfsDirectory` | the directory operations of OS1, sector write by sector write |
| `CfsDirectoryProofs` | its theorems |
| `AhciPort` | the AHCI adapter, its command structures in memory and the drive (hardware) |
| `AhciOs1`, `AhciOs2` | the drivers of the two kernels |
| `Ahci` | each driver together with the adapter, and what callers may rely on |
| `DiskManager` | extends `CfsDirectory` with the windows that use it: the table, the selected drive, folders, tabs, dialogs |
| `DiskManagerProofs` | its theorems, among them that it implements `CfsDirectory` |
| `E1000`, `Rtl8139`, `Pci`, `Net` | the two cards with their drivers, the PCI lists, and the machine around them |
| `Usb` | the sticks, their enumeration, the list of drives |
| `Scans` | what a loop over numbered things leaves in a list, for `Pci` and `Usb` |
| `Os2Disk` | disk manager, notepad, Save-As dialog, clipboard and MKDIR of OS2 |
| `Input` | mouse, keyboard and windows of both desktops |
| `Games` | Pong and Blobby Volley of both kernels |
| `Desktop` | the last five parts as one specification |
| `AhciProofs`, `NetProofs`, `GamesProofs`, `Os2DiskProofs` | theorems about the modules of the same name |
| `DesktopProofs` | theorems about `Input`, `Usb` and `Desktop` |
| `MCScheduler`, `MCCfsDirectory`, `MCAhci`, `MCDiskManager`, `MCDesktop` | the instances TLC checks |

### Scheduler

There is one CPU, so the only concurrency is the timer. `cpu` is the register
context (which program, where in it, one register of its own progress, IF), `sp`
is RSP (the stack it points into and how many frames lie below), `mem` are the
stacks. The interrupt entry *pushes* a context on the stack RSP points into,
`schedule()` only exchanges stack pointers and `iretq` *pops* what it finds
there. That tasks keep their contexts is therefore a consequence of the protocol
and not of how the model is written.

| action | code |
|---|---|
| `StartMultitasking` | `kernel_main` making itself task 0 and creating the test task |
| `CreateCli`, `CreateFrame` (`Refuse`, `BuildFrame`), `CreateRegister` | `create_task` between `cli` and `sti` |
| `TimerTick`, `PitIsr` (`Saved`, `NextTask`, `Eoi`) | the oscillator; `pit_isr` with `schedule` |
| `WorkerYield`, `WorkerResumes` | a direct call of `yield` |
| `SyscallEnter`, `SyscallYield`, `SyscallReturn` | `int 0x80` through an interrupt gate |
| `SpawnCommand`, `OpenBin`, `LoadZero`, `LoadCopy` | START and RUNAPP; opening a .BIN file |
| `SleepBegin`, `SleepLoop` | `sleep_ms` |
| `UserWork` | a step of the task's own program |

The interrupt entry masks interrupts until `iretq`, so `PitIsr` is one action.
Whatever else runs with interrupts on is split wherever a switch matters.

### CfsDirectory

A click runs to its end, so between two sector writes only the loss of power
can come. The variable `job` is the operation that is in progress there. `bufs`
holds the two directory buffers; they keep what the last operation of *any*
drive left in them. The code scans `TableSlots` (28) entries of a buffer of
which one sector brings `SectorSlots` (8): the difference is kept, because a
finding lives in it. `Loaded`, `DirWritten` and `DataWritten` are the sector
transfers, each of which may fail, up to `MaxFailures` times. Which slot or
sector a click names comes from `file_table`, the subject of `DiskManager`;
here it is any slot or sector, which includes every wrong one.

| action | code in `kernel.cpp` |
|---|---|
| `NewFile`, `NewFolder` | + FILE, + DIR, NEW FOLDER of the Save-As dialog |
| `Delete`, `Rename`, `Recover` | DEL, the rename overlay, GHOST DATA RECOVERY |
| `SaveAs`, `CopyToCfs`, `WriteData`, `WriteEntry` | Save As; COPY TO CFS |
| `Save` | SAVE of the notepad |
| `Format`, `ClearDirectory` | FORMAT CFS |
| `Mount`, `PowerLoss` | REF; power lost, then boot with `ahci_mount_drive` |

`clean` and `told` are ghosts: the drive was formatted to the end, and what the
user was told to be saved where. They guard nothing.

### Ahci

The drivers write a command into memory, set a bit in PxCI and poll; the adapter
works beside them. `AhciPort` is the adapter: it takes up a command
(`HbaFetch`), finishes it (`HbaFinish`), reports an error and stops (`HbaFail`),
or does nothing for longer than the driver polls. Headers and tables live in
`mem` at the addresses the drivers compute, in units of 512 bytes, so that the
places where two functions disagree about a port's list are in the model. Where
the drivers leave the rules of AHCI the adapter may do what real ones do: a list
address changed while the engine runs counts at once or at the next start; a
PxCI bit set while the engine is stopped sticks or not; the buffer address of a
command is read when it is taken up or when the data is there; a header with the
wrong direction moves the data or nothing. Assumed is that clearing PxCMD.ST
ends what was issued, although the drivers wait for it a bounded time only.

A driver call is a few steps of `call.pc`; one disjunct per step.

| action of `AhciOs1` | code in `cosmos_ahci.cpp` |
|---|---|
| `StartMount`, `MountNoLink`, `MountIdentify`, `MountSkips`, `MountSector0`, `MountLists` | `ahci_mount_drive`, port by port: reset, IDENTIFY, sector 0, listing |
| `ReadMbr` | `ahci_read_mbr`, which moves the list and issues nothing |
| `ReadSectors`, `WriteSectors`, `RawIdentify` | the beginning of `ahci_read_sectors`, `ahci_write_sectors`, `ahci_get_raw_identify` |
| `Submit`, `Return` | their PxCI := 1, and the end of the bounded poll |

| action of `AhciOs2` | code in `kernel_main.cpp` |
|---|---|
| `InitPort` | `ahci_init_port`, when a drive is clicked |
| `ReadSector`, `WriteSector`, `Identify`, `FillTable` | `ahci_rw`, `ahci_identify` up to the wait |
| `Issue`, `StaysBusy` | the wait for BSY and DRQ |
| `Completed`, `ErrorSeen`, `GiveUp` | the three ends of the poll of PxCI |

`trust` is a ghost that guards nothing. It says what the properties promise for
a port: "sound" after the driver has set it up, "late" once a call gave up while
its command was still with the adapter, "unknown" when the port was not set up
by the driver that uses it, or its list was moved under a running engine.

### DiskManager

Three things decide what a click does to which drive: `table` (the rows of
`file_table`), `ui` (the selected drive, the view, the folder, the path of the
dialog, the rename overlay) and `note` (which row each tab of the notepad means).
They change separately. A click is an action; what it does to the disk is the
action of `CfsDirectory` that it includes, with the slot, sector and drive that
the three variables give it, so that `ImplementsCfsDirectory` says that no click
does anything else. Reading sector 1002 as 28 entries leaves rows from
`StackEntries` beyond the eighth; after a failed read all rows come from there.
The table a machine starts with is the one that `fs_init` invents
(`FirstTable`). `loaded` is a ghost: the drive whose directory the table was read
from and has followed since. `drives[-1]`, which BACK makes the active drive,
is any drive (`DriveOf`). REF and the icon build the list again, the rows of
sticks first, so that the selected index may mean another drive afterwards
(`Renumbered`: any). `ui.active` is the drive that the index means now, `loaded`
the one the table is about; the properties speak of the second, or of both being the
same. That a click after REF acts on the drive selected before is not promised.
Rows of sticks, which this module does not let the user select, and a list that a
failing IDENTIFY has made shorter are not in it.

| action | code in `kernel.cpp` |
|---|---|
| `OpenWindow`, `Home`, `SelectDrive`, `OpenDrive`, `FormatClicked` | the list of drives: REF and the icon, HOME and closing, a row, OPEN DRIVE, FORMAT |
| `Back`, `AddToDrive`, `AddToFolder`, `DeleteRow`, `RenameRow`, `RenameDone`, `CopyRow`, `ClickRow` | the list of files and of a folder |
| `RecoverClicked` | RECOVER |
| `ClickTab`, `NewNote`, `SaveNote` | the notepad |
| `OpenDialog`, `DialogDrive`, `DialogPath`, `DialogFolder`, `DialogSave` | SAVE AS |
| `Continues`, `PowerComesBack` | the rest of an operation after its first write; power |

### E1000, Rtl8139, Pci, Net

`E1000` and `Rtl8139` hold what card and driver share: the descriptor rings with
head and tail, the byte ring with CBR and CAPR. Actions of the card
(`CardReceives`, `CardSends`, `RtlReceives`, `RtlSends`, `Cable`) come at any time,
also between two rounds of `e1000_check_rx` or while `net_raw` polls. The driver
keeps indices of its own (`rx_cur_intel`, `tx_cur_intel`, `rx_idx_rtl`), which a
restart of the card resets or not as the code does. `Pci` holds the lists that a
scan fills, from a bus that the machine of an instance gives; `Net` is the loop
(`Boot`, `check_incoming`, `e1000_check_rx`, `RxLoopEnds`, `CheckRtl`), the
commands, what a frame does to the addresses (of a DHCP answer any of the options
may be missing), and the network, which delivers
any frame at any time or none. Ghosts: `received`, `seen`, `wire`, `unread`, `lap`,
and `in_step`, true when the last start of the card found `rx_cur_intel` at 0.
After another start the driver waits at a descriptor that the card reaches a lap
later; order is promised for `in_step` only, because without it it does not
hold. The RTL index agrees with the card's until the card goes round the first
time: `FirstLapInStep` says this much and no more, because that is what is true.

### Usb

`boot` walks through `usb_mount_drive` port by port (`FindUhci`, `LookAtPort`,
`ResetPort`, `SetAddress`, `SetConfiguration`, `AskCapacity`, `TakeCapacity`,
`TakeStatus`); each transaction may be lost before or after the stick took it. A
stick knows whether its port is enabled, its address and its stage of a
bulk-only command. Several sticks may hear one address. The second driver, in
`kernel.cpp`, has a base port that nothing sets, and refuses every transfer
(`usb_bot_read_sectors`). `drives` is shared with the SATA disks, which REF
looks for again; the user pulls and exchanges sticks.

### Os2Disk

One action per button. `Transfers` says which of a click's transfers succeed:
reading the directory, moving the data, writing the directory. What a failed
read leaves differs per writer (`DirRead` clears the buffer, `Mkdir` does not), and
so does the number of entries looked at. `ram` are the ten sectors at
0x09000000, which COPY, PASTE, SAVE and SAVE AS share. `PowerCut` may follow a
click whose last writes failed, which is a power cut inside that click.

### Input

Bytes of mouse and keyboard wait in one queue, mixed. `ReadOs1`, `ReadOs2` take
one; `PollEnds`, `Keys`, `Mouse`, `AppsDraw` are the rest of a frame. Where the mouse
points is open: a click may hit any window in sight. A user (`Users`) has a number of
packets and keys, may be met in the middle of a packet, may have movements that
look like first bytes, and may move the mouse without end.

### Games

A frame of an engine is one action, in the order of the code: movement or fall,
left, right, floor or goals, and the comparison with the winning score at the end.
Pong's ball is exact along its line; heights are open, so every shot can be
met or missed.

### Desktop

Network, OS2 disks, input, USB and games share no variable in the models (what
connects them in the code, the desktop loop calling each, changes nothing of one
in another). `Desktop` puts them into one specification in which `part`, chosen
at the start, says which of them is exercised while the others rest in one state.
A behaviour of `Desktop` is therefore a behaviour of one part, and its fairness is
that part's. This is a packaging of five instances, not a claim about their
interplay.

## 3. Runs

| run | asks | instance |
|---|---|---|
| `scheduler` | contexts, stacks, interrupts never lost, the limit test, the first .BIN program, the refinement of `RoundRobin`, three liveness properties | 3 tasks, progress mod 2, sleeps of up to 2 ticks, 2 launches |
| `scheduler_reload` | violated: the program area is safe | 4 tasks |
| `cfs_one_drive` | no shared sector; saved texts stay | 1 drive, 2 entries on disk of 3 scanned, 3 texts |
| `cfs_two_drives` | the refinement of `FileStore` | ports 0 and 1, 1 entry on disk of 2 scanned, 2 texts |
| `cfs_ninth_file` | violated: a file reported as saved is listed | as `cfs_one_drive` |
| `cfs_format_lock` | violated: FORMAT is locked for CFS drives | 1 drive, one failed transfer |
| `cfs_torn_format` | violated: a label means a cleared directory | 1 drive, 2 texts |
| `ahci` | a true answer means the data was moved; no stray writes; calls end | port 1, 2 sectors, 1 text besides zeroes, 2 buffers |
| `ahci_identify` | violated: the raw IDENTIFY shows IDENTIFY data | port 0, 2 sectors |
| `ahci_hang` | violated: no call of OS2 hangs with an adapter that answers | port 0, 1 sector |
| `disk_manager` | windows implement `CfsDirectory`; views have a drive; rows are on the disk; SAVE stays in the opened slot | 2 drives, 2 entries on disk of 3 scanned, 2 tabs, 6 clicks |
| `desktop` | see below | see below |

Why the bounds are enough to be interesting. Three tasks are the fewest for which
"the next task" differs from "the other task", for which the table becomes
full while somebody is preempted, and for which a task can be skipped. Two
launches let a second .BIN clear the first. Two entries on disk let a freed slot
be taken while another is in use; one entry more in the table reaches the
part of the buffer that is never written. Three texts let a slot be written,
freed, written by another and written again. Two drives share the buffer and,
being ports 0 and 1, show the role of port 0 as "no drive" in COPY TO CFS.

For `Ahci`, two sectors and two buffers are what it takes to move the
right data to the wrong place. Ports do not share anything but addresses, and
port 1 is one whose list `ahci_read_mbr` moves (0x410000 becomes 0x400400) while its
table stays; at port 0 the list stays and the table moves, which
`ahci_identify` uses. The runs do not check deadlock, because
IDENTIFY of OS2 really can stop the system.

`MCCfsDirectory` uses a `VIEW` in runs without failing transfers: the sector's
part of a buffer is read anew before every use, so states that differ only
there behave alike. With `MaxFailures` above 0 this would be wrong, and those
runs have no view.

In `disk_manager` the first view, choosing and opening a drive, one change and
one use of what it changed are five clicks; six let another window come between.
Transfers may fail in `CfsDirectory`'s runs and do not fail here, because without
that condition the properties promise nothing.

`desktop` exercises five parts:

* network: rings of 3 descriptors (the fewest in which full, half full and empty
  differ), a byte buffer of 3 units with packets of 1 and 2, seven machines: one that
  receives more than a lap, one that sends more than a lap, several cards, lists
  that are longer than what is started, OS2, and none. `ReceivedIsSeenInOrder`,
  `ReceptionGoesOn`, `DoneMeansOnWire`, `WireInOrder`, `FirstLapInStep`.
* OS2 disks: 2 drives of 3 entries, of which MKDIR looks at 2, copies of 2 sectors,
  one text on the disk and one typed, one failing transfer, 6 clicks. `EntriesStay`,
  `SavedTextsStay`, `RowsAreOnDisk`.
* input: two apps and the dialog, queue of 2, a poll limit of 2 (so that a packet
  spreads over frames), ten users. `WholePackets`, `NoPhantomClick`, `ShiftTracks`,
  `FramesGoOn`.
* USB: two ports, three rows, one fault, three clicks, six machines.
  `StickAnswersAlone`, `SticksStay`.
* games: winning score 2, so that a game has both a point that decides and one that
  does not; two widths that differ by more than the distance to the wall.
  `OneWinner`.

What is excluded, and why. `misread`, `failures`, `in_step`, `lost`, `Settled`
and `InPhase` in the properties name the conditions without which they do not hold in
the code; each is explained where it is defined and recorded as a hazard. The
most important ones: after a failed read of the directory OS2 overwrites entry 0;
after a second start of the Intel card frames wait a lap; a movement byte that
looks like a first byte makes a click; SAVE with another drive selected than the
one the table was read from overwrites that drive's sector.

Liveness and fairness. `Scheduler!Spec` assumes: the oscillator ticks (weak);
an unmasked pending timer interrupt is taken although IF goes off and on
between (strong: the controller latches the request, and the CPU looks at every
instruction boundary); a task that gets the CPU again and again gets through the
kernel's straight-line code (strong, per task: a tick is a millisecond, and the
code between two switches is a handful of instructions). Nothing is assumed of
the programs themselves: a task may compute for ever, which is what preemption
is for. `CfsDirectory` is a safety model: no user has to click. `Ahci!Spec`
assumes that the driver's code runs on (weak fairness of its next step) and
nothing of the adapter, which may stay silent for ever; `AnsweringSpec`, used
for the finding only, makes it answer too. `Net!Spec` assumes that the desktop
loop goes on (weak) and, since a command may be typed whenever the loop
could look at the network, that it looks again and again (strong); nothing of
cards and network. `Input!InputSpec` assumes that the frame goes on, and nothing of
the devices, which may send without end. `DiskManager`, `Os2Disk`, `Usb` and
`Games` are safety models: nobody has to click.

Findings (each one is a `violation` run; the text is in `PROJECT.json`):

1. `load_and_run_bin` clears the program area while an earlier program may be
   running in it. `FirstAppIntact` is what remains true.
2. The ninth file of a drive is reported as saved and is not on the disk.
3. After one failed read of sector 0, FORMAT is offered for a CFS drive.
4. A format cut off by power loss leaves a drive labelled CFS, with foreign
   data as its directory, on which FORMAT is locked.
5. The raw IDENTIFY of OS1 does not build a command header and runs whatever
   the last header says.
6. After a drive has rejected IDENTIFY, the next IDENTIFY of OS2 polls for ever.

`TrueMeansDone` differs between the kernels, and the run is what told so: OS1
needs a port on which no call gave up, for a late completion clears the bit that
the next call polls; OS2 waits for BSY first and needs less. Both need that no
given-up command waits in *another* drive: its completion would write into the buffer
that the call at hand was given. The run has one port, where this says nothing; the
proof covers any number, and two ports show the condition to be
necessary. `NoStrayWrite` holds
in neither after a call gave up: the next call reuses the table of a
command that the drive still has.

## 4. Proofs

Proved with TLAPS for every value of the constants, from the named assumptions on
them only (`SchedulerConstants`, `CfsConstants`, `DiskManagerConstants`,
`FirstTableTyped`, `Os2Constants`, `FirstDisksTyped`, `GamesConstants`,
`AhciConstants`, `AhciLayout`, `RingSizeAssumption`, `SizesAssumption`,
`NetConstants`, `InputConstants`, `UsbConstants`). Two of them say something of the
world: `AhciLayout`, explained below, and `UsbConstants`, that a stick which the
firmware left enabled has got an address other than 0 (the driver of another
system cannot leave a stick usable without one; a stick enabled at 0 would hear
the first SET_ADDRESS together with the one that was just reset).

`SchedulerProofs`: `TypeCorrect`, `ContextsAreSaved`, `StacksStaySeparate`,
`NobodyIsDeaf`, `CallersTestIsEnough`, `FirstProgramIntact` and the safety part of
the refinement, `ImplementsRoundRobinSafely`. None of these invariants is inductive alone. The
inductive one says what every suspended task looks like (its `rsp` names a frame
on its own stack, at height 1, or 2 above the frame of a system call, whose
saved context has IF = 1), relates the height of RSP to where the running task is
(a frame below it exactly inside a system call), and says that only the desktop
can be in `create_task` or the loader. With it, each action changes
only the running task's part, and `PitIsr` moves the running context to the frame
its `rsp` now names, which is why the abstract state does not change but for
`running`. The limit test and the program area need to know who does what: that task
0 and no other runs the desktop's code, and that between the caller's test and the
entry in the table, however often that task is preempted, there is room for one
more (`DeskInv`, kept because nobody else creates tasks); and that before the first
program is copied no task could run it, neither one of the table nor the one
that is being created (`AppInv`).

`CfsDirectoryProofs`: `TypeCorrect` (whatever fails), `SectorsAreNotShared`,
`SavedTextsStay`, and `StoreIsImplemented`, the refinement of `FileStore`, for
`MaxFailures = 0`. The inductive invariant is that in the directory of a clean
drive every entry's sector is 0 or the sector of its own slot, with a file never
at 0 (`SoundDirectory`); that an interrupted operation knows the slot it chose,
that the slot is free on disk and in the buffer, and that the buffer is the
directory (`JobKnowsSector`); and, for the refinement, that a clean drive has its
signature and, as long as nothing failed, its label, while a drive that is
being cleared is not clean (`LInv`). The first part is why no allocation map is needed: slots never
exchange sectors, not even through deletion and recovery.

`DiskManagerProofs`: `WindowsTyped`, `ViewsHaveDrives`, `WindowsImplement`,
`WindowsKeepFiles`, `RowsStayOnDisk` and `SaveKeepsToSlot`, for every number of drives, slots and tabs and whatever fails.
The inductive invariant adds to the one of `CfsDirectory` the types of the
windows and that a view of files has a drive; each click is shown to be a step
of `CfsDirectory`, or to leave its variables alone, which carries
`NoSharedSector` and `SavedTextIsKept` over to the windows. The last two rest on
`FollowInv`: while the table follows a drive, a row that exists names its own
slot's sector or none, and a row of the root is the entry of the directory. It is
kept because the clicks that do not tell the table (RECOVER, COPY TO CFS, the
folder of the dialog) only take entries that were free (`FilesStay`), for which
there is no row in the root; because a file made below a folder has that folder
for a parent (`FolderInView`; the code's "no folder" is the number of the root);
and because FORMAT parts the table from the drive before it is cleared
(`ClearingUnfollowed`).

`Os2DiskProofs`: `Os2DiskTyped`, `WrittenEntriesStay`, `StoredTextsStay` and
`RowsStayOnDisk`, for every number of drives, entries, sectors per copy, texts,
clicks and failures. What the five writers of the directory have in common
is stated once (`Writer`) and proved of each: the entry goes to the first free
place of what was read, and no sector before that place changes. `EntriesStay`
follows from it. `SavedTextsStay` needs an invariant besides: occupied entries
come first (`Dense`), so the sectors of PASTE, which start at the number of the
first free entry or behind it, lie behind those of every stored text. It is proved
of drives that have this form when the kernel boots: OS2 deletes nothing, but
another system may have. `RowsAreOnDisk` needs that `is_ntfs_drive` is off while
a CFS drive is open, for otherwise the listing of an NTFS cache would replace the
rows (`RowsInv`); the first failed transfer ends it.

`GamesProofs`: `GamesTyped` and `OneSideWins`, for every winning score, window and
ball. The inductive invariant (`Sound`) is that nobody has the winning score
while a game runs, and one side has when it is over. It is kept because a frame
counts one point at most: in Pong a goal puts the ball between the walls, and in
Blobby Volley a foul lifts the ball from the floor and takes the touches back,
so the tests further down the same frame cannot fire.

`AhciProofs`: `AhciTyped`, `TrueAnswerMoved` and `NoStrayWrites`, for every set of
ports below 32, of sectors, texts and buffers. `AhciLayout` says that the areas
of memory contain the addresses that the drivers use; that areas of two ports do
not overlap where it matters is not assumed but proved from the arithmetic of the
addresses (`Places`, `MbrPlaces`). The inductive invariant `AhciInv` says of every port
how engine and list belong together (`EngineInv`: only a started port with its bit
set works, and a trusted one uses the driver's list), that a trusted one
works for the call in progress only (`SoundInv`), and that its header names its
own table (`HeaderInv`); and of the call in progress that list and table hold
its command (`BuiltInv`), that the command in the drive is that one (`WorkInv`),
and that once its bit is clear the data has been moved and nothing moves it on
(`MovedInv`). `TrueMeansDone` and `NoStrayWrite` are what a caller sees of the last two.

`NetProofs`: `NetTyped`, `FramesSeenInOrder`, `DoneFrameLeft`, `FramesLeaveInOrder` and
`RtlInStepAtFirst`, for every ring size from 2, every byte buffer and set of packet
sizes, and machines with any list of functions. `NetInv` has one part per ring. Of
receiving (`RxInv`): going round from the driver's place there are first the
frames that the card has filled, with consecutive numbers up to `received`, then empty
descriptors; what is filled and what the card may still fill are together at most `RingSize - 1`. Of sending (`TxInv`): the frames that
wait lie between TDH and TDT, younger ones behind older ones, all younger than the one
on the wire; TDT is `tx_cur_intel`, so DD on the descriptor just given means
that the ring is empty and the last frame on the wire is this one. Of the Realtek
buffer (`RtlInv`): during the first lap the unread packets lie without gaps between
CAPR and CBR, and none has been written over. `PciInv` bounds the lists
and the selected indices. The numbers modulo `RingSize` are reduced to one lemma
on distances (`DistanceIs`), and that `Ascending` lists a set in order
(`AscendingIs`) is shown by a least counterexample.

`DesktopProofs` has three parts.

Of `Input`: `InputTyped`, `PacketsStayWhole`, `NoClickInvented` and `ShiftIsTracked`, for
every set of windows, queue length, poll limit and user. That `win_z` holds every
window once is kept because bringing one to the front moves the others up by
one (`WinZOK`; that a window is in it at all is the pigeonhole principle). The two
invariants of the bytes have the same form: they say that there is a history
along the queue. For the mouse (`MouseInv`) it is the state in which the mouse was before it
sent each waiting byte; its first element is what the driver must have seen, so
that what is in hand (`InHand`) are the first bytes of one packet, and the clicks
taken, the one not yet taken up and the one in hand are at most those made by then. A
driver that is not in step finds the mark of a first byte only at a first byte,
if the movements do not look like one, which is the condition of the properties. For
the keyboard (`KeyInv`) it is what the driver's mark E0 and its shift will be behind
every byte under way; at the end it has no mark and agrees with the key. That a
shift behind E0 counts for nothing in both is why the shifts that arrow keys
pretend do no harm.

Of `Usb`: `UsbTyped`, `StickAnswers` and `SticksStayListed`, for every machine, any number of
rows, faults and clicks. The invariant of the addresses (`Addressed`, while nothing was
lost) divides the ports into those done with, where an enabled stick has
the port's number as its address; the one at work, which has address 0 between
reset and SET_ADDRESS; and those to come, where nobody hears 0. So exactly one
stick hears SET_ADDRESS (`OneHears0`), and addresses that the firmware had given to a later port
are gone before the last port is done with. Before that they may
collide with the new ones, which is why the property speaks of the time behind the
last port. The list (`DrivesInv`) names no port twice, and the boot appends a row
only for a port that is not done with; that REF leaves the sticks in their order
(`SticksMounted`) is shown with lemmas on `Ascending` and `Subsequence`.

Of `Desktop`: `DesktopTyped`, `DesktopSafe` and `DesktopSteps`, the properties that the run
`desktop` checks, for its own specification: each step of the machine is, for
every part, one of its steps or none (`MachineIsItsParts`). `SavedTextsStay` is not
among them because of its condition on the drives; it follows from the same lemma.

Out of reach of the prover and checked by TLC only: the liveness properties
(`EveryTaskRuns`, `SleepEnds`, `YieldReturns`, `ReceptionGoesOn`, `FramesGoOn`,
`BoundedCallsEnd`), and the fairness part of `ImplementsRoundRobin`. Every
other property of a passing run is stated by a theorem.

## 5. Not modelled

* XMM registers: no handler saves them. Which code uses them depends on the
  compiler, so this is recorded as a hazard.
* Names, sizes and dates of entries: the properties tell entries apart by type,
  sector, parent and whether they have a name.
* ATAPI packets, which follow the protocol of the sector calls; a CD drive, which
  `ahci_mount_drive` lists after IDENTIFY without reading sector 0 (`MountLists` lists
  a disk after that read, whatever came of it); the time a port takes to stop (see
  the assumption on PxCMD.ST).
* An Intel card without an address in BAR0: its driver returns before it touches
  the card, as for a card without driver (`Pci`, "generic").
* The bytes of network frames, drawing, sound, coordinates.
* Boot, paging, IDT, page tables: straight-line code without alternatives.
* Parsers of partition and container formats: they keep no state; the disk
  manager models which rows they set.
* Code that no caller reaches in either kernel: the AHCI functions that search a
  free slot and `ahci_panzer_scan_tick` (`get_active_ahci_port()` never
  returns a port, so neither does the TBA recorder ever write); `fs_save_file`,
  `fs_create_folder`, `fs_format_drive` and the COSMOS block functions;
  `cfs_read_file`, `cfs_finalize_file`; `iso9660` and `fat32_load_file`; the xHCI
  driver of `pci.cpp` but for the BIOS handoff, its event ring and mouse;
  `handle_global_keys`; `e1000_base_reset`, `find_undi_entry`; `malloc` and `free`;
  `usb_bot_get_capacity` of `kernel.cpp` and `usb_bot_read_sectors` of
  `cosmos_usb.cpp`.
* `cosmos_kernel.cpp`: not built.

## 6. Plan

Done: the modules of section 2. What is left, in this order:

| modules | what | kind |
|---|---|---|
| formats | operators for MBR, GPT, FAT32, NTFS, ISO 9660 against reference layouts | model |
