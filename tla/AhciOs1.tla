------------------------------- MODULE AhciOs1 -------------------------------
(***************************************************************************)
(* The AHCI driver of the 32-bit kernel (cosmos_ahci.cpp): mounting, the   *)
(* look at sector 0, reading and writing sectors, and the raw IDENTIFY.    *)
(* All use command slot 0, poll a bounded number of times, and go on.      *)
(***************************************************************************)
EXTENDS AhciPort

CONSTANT CallerBuffers   \* buffers of the code that reads and writes sectors

VARIABLE drives          \* the ports listed in drives[]

os1Vars == <<mem, ram, disk, port, call, trust, drives>>

-----------------------------------------------------------------------------
(* Where the structures of a port are, in units of 512 bytes from 0x400000.*)
CmdList(p) == 128 * p
DataBuffer(p) == 128 * p + 24
CmdTable(p) == 128 * p + 16
MbrList(p) == 2 * p
MbrTable(p) == 128 + 16 * p
MbrBuffer(p) == 2048 + p

First(S) == CHOOSE p \in S : \A q \in S : p <= q

(* Mutant: every number is tried, the mask of implemented ports is not     *)
(* looked at.                                                              *)
AllBehind(p) == {q \in 0..31 : q > p}

After(p) == {q \in Ports : q > p}

Call == [pc : {"reset", "ident", "sector0", "mbr", "ready", "build", "wait",
               "returned"},
         p : Ports, op : Ops, lba : Lbas, buf : Buffers, ok : Bit, boot : Bit]

Init ==
  /\ mem = [a \in Areas |-> Zeroed]
  /\ ram = [b \in Buffers |-> "zero"]
  /\ disk = [p \in Ports |-> [l \in Lbas |-> "zero"]]
  /\ port = [p \in Ports |->
               [clb |-> First(Areas), latched |-> First(Areas), st |-> 0,
                ci |-> 0, tfes |-> 0, hba |-> "idle", cmd |-> NoCommand]]
  /\ call = [pc |-> "reset", p |-> First(Ports), op |-> "identify", lba |-> 0,
             buf |-> First(Buffers), ok |-> 0, boot |-> 1]
  /\ trust = [p \in Ports |-> "unknown"]
  /\ drives = {}

-----------------------------------------------------------------------------
(* ahci_mount_drive: port after port                                       *)

StartMount ==
  /\ call.pc \in {"ready", "returned"}
  /\ call' = [call EXCEPT !.pc = "reset", !.p = First(Ports)]
  /\ drives' = {}
  /\ UNCHANGED <<mem, ram, disk, port, trust>>

(* The next port, or the end; at boot ahci_read_mbr follows.               *)
NextPort ==
  call' = IF After(call.p) # {} THEN [call EXCEPT !.pc = "reset",
                                                  !.p = First(After(call.p))]
          ELSE [call EXCEPT !.pc = IF call.boot = 1 THEN "mbr" ELSE "ready"]

MountNoLink ==
  /\ call.pc = "reset"
  /\ port' = [port EXCEPT ![call.p] = Stopped(@)]
  /\ trust' = [trust EXCEPT ![call.p] = "unknown"]
  /\ NextPort
  /\ UNCHANGED <<mem, ram, disk, drives>>

MountIdentify ==
  LET p == call.p
  IN  /\ call.pc = "reset"
      /\ mem' = [mem EXCEPT ![CmdList(p)] = HeaderFor(CmdTable(p), 0),
                            ![CmdTable(p)] = TableFor("identify", 0,
                                                      DataBuffer(p))]
      /\ ram' = [ram EXCEPT ![DataBuffer(p)] = "zero"]
      /\ port' = [port EXCEPT ![p] = [Started(@, CmdList(p)) EXCEPT !.ci = 1]]
      /\ trust' = [trust EXCEPT ![p] = "sound"]
      /\ call' = [call EXCEPT !.pc = "ident"]
      /\ UNCHANGED <<disk, drives>>

(* Mutant: PxCI is not polled.                                             *)
NotPolled(r) == TRUE

(* The polling loop ends with the bit cleared or after its last round; if  *)
(* both happen at once the call counts as failed.                          *)
Done(r) == r.ci = 0
Succeeded(r) == Done(r) /\ r.tfes = 0
TrustAfter(p) == IF Done(port[p]) THEN trust
                 ELSE [trust EXCEPT ![p] = "late"]

MountSector0 ==
  LET p == call.p
  IN  /\ call.pc = "ident" /\ Succeeded(port[p])
      /\ mem' = [mem EXCEPT ![CmdTable(p)] = TableFor("read", 0,
                                                      DataBuffer(p))]
      /\ ram' = [ram EXCEPT ![DataBuffer(p)] = "zero"]
      /\ port' = [port EXCEPT ![p].ci = 1]
      /\ call' = [call EXCEPT !.pc = "sector0"]
      /\ UNCHANGED <<disk, trust, drives>>

MountSkips ==
  /\ call.pc = "ident"
  /\ trust' = TrustAfter(call.p)
  /\ NextPort
  /\ UNCHANGED <<mem, ram, disk, port, drives>>

(* The drive is listed whether sector 0 could be read or not, unless the   *)
(* list is full: of its eight rows sticks may have any number.             *)
MountLists ==
  /\ call.pc = "sector0"
  /\ drives' \in {drives, drives \cup {call.p}}
  /\ trust' = TrustAfter(call.p)
  /\ NextPort
  /\ UNCHANGED <<mem, ram, disk, port>>

(* ahci_read_mbr: other places for list and table, and no command issued:  *)
(* what is set and polled is PxSERR.                                       *)
ListMoved(p) ==
  p \in drives /\ MbrList(p) # port[p].latched

ReadMbr ==
  /\ call.pc = "mbr"
  /\ mem' = [a \in Areas |->
       IF \E p \in drives : a = MbrList(p)
       THEN HeaderFor(MbrTable(CHOOSE p \in drives : a = MbrList(p)), 0)
       ELSE IF \E p \in drives : a = MbrTable(p)
       THEN TableFor("read", 0,
                     MbrBuffer(CHOOSE p \in drives : a = MbrTable(p)))
       ELSE mem[a]]
  /\ ram' = [b \in Buffers |-> IF \E p \in drives : b = MbrBuffer(p)
                               THEN "zero" ELSE ram[b]]
  /\ port' = [p \in Ports |-> IF p \in drives
                              THEN [port[p] EXCEPT !.clb = MbrList(p)]
                              ELSE port[p]]
  /\ trust' = [p \in Ports |-> IF ListMoved(p) THEN "unknown" ELSE trust[p]]
  /\ call' = [call EXCEPT !.pc = "ready", !.boot = 0]
  /\ UNCHANGED <<disk, drives>>

-----------------------------------------------------------------------------
(* ahci_read_sectors, ahci_write_sectors, ahci_get_raw_identify            *)

Called(p, op, l, b) ==
  call' = [call EXCEPT !.pc = "build", !.p = p, !.op = op, !.lba = l,
                       !.buf = b, !.ok = 0]

Ready == call.pc \in {"ready", "returned"}

(* The header is built, the table zeroed.                                  *)
ReadSectors(p, l, b) ==
  /\ Ready
  /\ Called(p, "read", l, b)
  /\ mem' = [mem EXCEPT ![CmdList(p)] = HeaderFor(CmdTable(p), 0),
                        ![CmdTable(p)] = Zeroed]
  /\ UNCHANGED <<ram, disk, port, trust, drives>>

(* The caller has put text t into the buffer.                              *)
WriteSectors(p, l, b, t) ==
  /\ Ready
  /\ Called(p, "write", l, b)
  /\ mem' = [mem EXCEPT ![CmdList(p)] = HeaderFor(CmdTable(p), 1),
                        ![CmdTable(p)] = Zeroed]
  /\ ram' = [ram EXCEPT ![b] = t]
  /\ UNCHANGED <<disk, port, trust, drives>>

(* The header is what the last command left.                               *)
RawIdentify(p) ==
  /\ Ready
  /\ Called(p, "identify", 0, DataBuffer(p))
  /\ mem' = [mem EXCEPT ![CmdTable(p)] = Zeroed]
  /\ UNCHANGED <<ram, disk, port, trust, drives>>

(* The table is filled and the command issued, whatever the port is doing. *)
Submit ==
  LET p == call.p
  IN  /\ call.pc = "build"
      /\ mem' = [mem EXCEPT ![CmdTable(p)] =
                   TableFor(call.op, call.lba, call.buf)]
      /\ \E r \in Issued(port[p]) : port' = [port EXCEPT ![p] = r]
      /\ call' = [call EXCEPT !.pc = "wait"]
      /\ UNCHANGED <<ram, disk, trust, drives>>

(* The loop is left: the answer is true if the bit is clear and PxIS shows *)
(* no error since the mount, which is the only place that clears it.       *)
Return ==
  /\ call.pc = "wait"
  /\ \E o \in Bit : /\ o = 1 => Succeeded(port[call.p])
                   /\ call' = [call EXCEPT !.pc = "returned", !.ok = o]
  /\ trust' = TrustAfter(call.p)
  /\ UNCHANGED <<mem, ram, disk, port, drives>>

-----------------------------------------------------------------------------
DriverStep == \/ MountNoLink \/ MountIdentify \/ MountSector0 \/ MountSkips
              \/ MountLists \/ ReadMbr \/ Submit \/ Return

UserStep == \/ StartMount
            \/ \E p \in Ports :
                 \/ RawIdentify(p)
                 \/ \E l \in Lbas, b \in CallerBuffers :
                      \/ ReadSectors(p, l, b)
                      \/ \E t \in Texts : WriteSectors(p, l, b, t)

Next == DriverStep \/ UserStep \/ (HbaStep /\ UNCHANGED drives)
=============================================================================
