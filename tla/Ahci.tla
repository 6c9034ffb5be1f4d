-------------------------------- MODULE Ahci --------------------------------
(***************************************************************************)
(* The two AHCI drivers, each with the adapter it drives: the machine is   *)
(* booted with one of the kernels.  What can the code that calls the       *)
(* drivers rely on, when commands take longer than the drivers poll, drives*)
(* report errors, and disk windows are opened again?                       *)
(***************************************************************************)
EXTENDS AhciPort

CONSTANT CallerBuffers

VARIABLES kernel,   \* the kernel that was booted
          drives    \* OS1: drives[]

vars == <<mem, ram, disk, port, call, trust, drives, kernel>>

Os1 == INSTANCE AhciOs1
Os2 == INSTANCE AhciOs2

(* AHCI has 32 ports; the structures of each have their places in memory.  *)
ASSUME AhciLayout ==
  /\ Ports \subseteq 0 .. 31
  /\ \A p \in Ports :
       /\ {Os1!CmdList(p), Os1!CmdTable(p), Os1!MbrList(p), Os1!MbrTable(p),
           Os2!CmdList(p), Os2!CmdTable(p)} \subseteq Areas
       /\ {Os1!DataBuffer(p), Os1!MbrBuffer(p)} \subseteq Buffers
  /\ CallerBuffers \subseteq Buffers

Init == \/ kernel = "os1" /\ Os1!Init
        \/ kernel = "os2" /\ Os2!Init /\ drives = {}

DriverStep == \/ kernel = "os1" /\ Os1!DriverStep /\ UNCHANGED kernel
              \/ kernel = "os2" /\ Os2!DriverStep /\ UNCHANGED <<kernel, drives>>

UserStep == \/ kernel = "os1" /\ Os1!UserStep /\ UNCHANGED kernel
            \/ kernel = "os2" /\ Os2!UserStep /\ UNCHANGED <<kernel, drives>>

Adapter == HbaStep /\ UNCHANGED <<kernel, drives>>

Next == DriverStep \/ UserStep \/ Adapter

(* The driver's code runs on: nothing takes the CPU from it for ever.  The *)
(* adapter need not answer.                                                *)
Spec == Init /\ [][Next]_vars /\ WF_vars(DriverStep)

(* The adapter works on what it was given, too.                            *)
AnsweringSpec == Spec /\ WF_vars(Adapter)

-----------------------------------------------------------------------------
(* The type of every variable.                                             *)
TypeOK ==
  /\ HbaType
  /\ kernel \in {"os1", "os2"}
  /\ drives \subseteq Ports
  /\ call \in IF kernel = "os1" THEN Os1!Call ELSE Os2!Call

Answered(ops) == call.pc = "returned" /\ call.ok = 1 /\ call.op \in ops

(* No command can be left in port q from an earlier call, to be executed   *)
(* in the middle of a later one.                                           *)
Quiet(q) == trust[q] = "sound" \/ port[q].st = 0

(* A sector call that returns true has moved its own sector between the    *)
(* drive and its own buffer.  In OS1 that needs a port on which no earlier *)
(* call gave up since the last mount; in OS2 the wait for BSY makes it     *)
(* true even with a forgotten command still in the drive.  Both need that  *)
(* no forgotten command is left in another drive: when it is executed at   *)
(* last it may write to the same buffer.                                   *)
TrueMeansDone ==
  /\ Answered({"read", "write"})
  /\ trust[call.p] \in IF kernel = "os1" THEN {"sound"} ELSE {"sound", "late"}
  /\ \A q \in Ports \ {call.p} : Quiet(q)
  => ram[call.buf] = disk[call.p][call.lba]

(* Unless a call gave up before, a sector on the drive changes only during *)
(* a write call for that sector, and to what its caller passed.            *)
NoStrayWrite ==
  [][\A p \in Ports, l \in Lbas :
       trust[p] = "sound" /\ disk'[p][l] # disk[p][l] =>
         /\ call.pc = "wait" /\ call.op = "write"
         /\ call.p = p /\ call.lba = l /\ disk'[p][l] = ram[call.buf]]_vars

InCall == call.pc \notin {"ready", "returned"}
CallEnds == InCall ~> ~ InCall

(* All calls end, also if the adapter never answers: they poll a bounded   *)
(* number of times.  IDENTIFY of OS2 is the exception.                     *)
BoundedCallsEnd ==
  InCall /\ ~ (kernel = "os2" /\ call.op = "identify") ~> ~ InCall

(* "RAW IDENTIFY READ": what the command AHCI of OS1 shows as the drive's  *)
(* name is the answer to IDENTIFY.                                         *)
IdentifyIsRead ==
  kernel = "os1" /\ Answered({"identify"}) /\ trust[call.p] = "sound"
    => ram[call.buf] = "identity"

(* The driver of OS2 is called bulletproof: with an adapter that answers   *)
(* every command, if only by an error, no call hangs.                      *)
BulletProof == kernel = "os2" => CallEnds
=============================================================================
