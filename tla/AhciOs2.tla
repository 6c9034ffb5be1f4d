------------------------------- MODULE AhciOs2 -------------------------------
(***************************************************************************)
(* The AHCI driver of the 64-bit kernel (kernel_main.cpp): setting up the  *)
(* port of the drive that was clicked, reading and writing a sector, and   *)
(* IDENTIFY.  Command slot 0; before a command is issued the driver waits  *)
(* until the drive is not busy.                                            *)
(***************************************************************************)
EXTENDS AhciPort

CONSTANT CallerBuffers   \* buffers of the code that calls the driver

-----------------------------------------------------------------------------
(* Where the structures of a port are, in units of 512 bytes from 0x800000.*)
CmdList(p) == 128 * p
CmdTable(p) == 128 * p + 8

First(S) == CHOOSE p \in S : \A q \in S : p <= q

Call == [pc : {"ready", "build", "bsy", "wait", "returned"},
         p : Ports, op : Ops, lba : Lbas, buf : Buffers, ok : Bit]

(* The ports are as the firmware left them, stopped.                       *)
Init ==
  /\ mem = [a \in Areas |-> HeaderFor(First(Areas), 0)]
  /\ ram = [b \in Buffers |-> "zero"]
  /\ disk = [p \in Ports |-> [l \in Lbas |-> "zero"]]
  /\ port = [p \in Ports |->
               [clb |-> CmdList(p), latched |-> CmdList(p), st |-> 0,
                ci |-> 0, tfes |-> 0, hba |-> "idle", cmd |-> NoCommand]]
  /\ call = [pc |-> "ready", p |-> First(Ports), op |-> "identify", lba |-> 0,
             buf |-> First(Buffers), ok |-> 0]
  /\ trust = [p \in Ports |-> "unknown"]

Ready == call.pc \in {"ready", "returned"}

(* ahci_init_port, when a drive is clicked: the port's memory is cleared   *)
(* and its 32 headers point to their tables.  active_sata_port is call.p.  *)
InitPort(p) ==
  /\ Ready
  /\ mem' = [mem EXCEPT ![CmdList(p)] = HeaderFor(CmdTable(p), 0),
                        ![CmdTable(p)] = Zeroed]
  /\ port' = [port EXCEPT ![p] = Started(@, CmdList(p))]
  /\ trust' = [trust EXCEPT ![p] = "sound"]
  /\ call' = [call EXCEPT !.pc = "ready", !.p = p]
  /\ UNCHANGED <<ram, disk>>

(* PxIS and the table are cleared, the header's flags set.  The drive is   *)
(* the one that was clicked last.                                          *)
Called(p, op, l, b) ==
  /\ Ready /\ p = call.p /\ port[p].st = 1
  /\ call' = [call EXCEPT !.pc = "build", !.p = p, !.op = op, !.lba = l,
                          !.buf = b, !.ok = 0]
  /\ mem' = [mem EXCEPT ![CmdList(p)].w = IF op = "write" THEN 1 ELSE 0,
                        ![CmdTable(p)] = Zeroed]
  /\ port' = [port EXCEPT ![p].tfes = 0]

(* ahci_rw                                                                 *)
ReadSector(p, l, b) == Called(p, "read", l, b) /\ UNCHANGED <<ram, disk, trust>>

WriteSector(p, l, b, t) ==
  /\ Called(p, "write", l, b)
  /\ ram' = [ram EXCEPT ![b] = t]
  /\ UNCHANGED <<disk, trust>>

(* ahci_identify                                                           *)
Identify(p, b) ==
  /\ Called(p, "identify", 0, b)
  /\ UNCHANGED <<ram, disk, trust>>

FillTable ==
  /\ call.pc = "build"
  /\ mem' = [mem EXCEPT ![CmdTable(call.p)] =
               TableFor(call.op, call.lba, call.buf)]
  /\ call' = [call EXCEPT !.pc = "bsy"]
  /\ UNCHANGED <<ram, disk, port, trust>>

-----------------------------------------------------------------------------
(* Mutant: the command is issued although the drive may be busy.           *)
AnyTime(r) == TRUE

(* The wait for BSY and DRQ to clear has ended well.                       *)
NotBusy(r) == ~ Busy(r)

(* Identify does not look at how its wait ended.                           *)
Issue ==
  LET p == call.p
  IN  /\ call.pc = "bsy"
      /\ NotBusy(port[p]) \/ call.op = "identify"
      /\ \E r \in Issued(port[p]) : port' = [port EXCEPT ![p] = r]
      /\ call' = [call EXCEPT !.pc = "wait"]
      /\ UNCHANGED <<mem, ram, disk, trust>>

Answer(o) == call' = [call EXCEPT !.pc = "returned", !.ok = o]

StaysBusy ==
  /\ call.pc = "bsy" /\ call.op # "identify" /\ Busy(port[call.p])
  /\ Answer(0)
  /\ UNCHANGED <<mem, ram, disk, port, trust>>

(* The bit is clear; PxTFD shows an error if the engine was stopped by one.*)
Completed ==
  /\ call.pc = "wait" /\ port[call.p].ci = 0
  /\ Answer(IF port[call.p].hba = "halted" THEN 0 ELSE 1)
  /\ UNCHANGED <<mem, ram, disk, port, trust>>

ErrorSeen ==
  /\ call.pc = "wait" /\ port[call.p].ci = 1 /\ port[call.p].tfes = 1
  /\ Answer(0)
  /\ UNCHANGED <<mem, ram, disk, port, trust>>

(* Mutant: reading and writing poll for ever, too.                         *)
WaitsLikeIdentify == FALSE /\ UNCHANGED ahciVars

(* Reading and writing end after 100 million rounds; identify never gives  *)
(* up.                                                                     *)
GiveUp ==
  /\ call.pc = "wait" /\ call.op # "identify" /\ port[call.p].ci = 1
  /\ Answer(0)
  /\ trust' = [trust EXCEPT ![call.p] = IF @ = "sound" THEN "late" ELSE @]
  /\ UNCHANGED <<mem, ram, disk, port>>

-----------------------------------------------------------------------------
DriverStep == FillTable \/ Issue \/ StaysBusy \/ Completed \/ ErrorSeen
              \/ GiveUp

UserStep == \E p \in Ports :
              \/ InitPort(p)
              \/ \E b \in CallerBuffers :
                   \/ Identify(p, b)
                   \/ \E l \in Lbas :
                        \/ ReadSector(p, l, b)
                        \/ \E t \in Texts : WriteSector(p, l, b, t)

Next == DriverStep \/ UserStep \/ HbaStep
=============================================================================
