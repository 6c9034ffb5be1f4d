------------------------------ MODULE AhciPort ------------------------------
(***************************************************************************)
(* The AHCI host bus adapter as both kernels use it (slot 0 of each port), *)
(* the command structures it reads from memory, and the drive behind it.   *)
(* This is hardware: what it does is what the drivers rely on, and where   *)
(* they leave the AHCI rules, everything a real adapter might do.          *)
(*                                                                         *)
(* Memory is addressed in units of 512 bytes.                              *)
(***************************************************************************)
EXTENDS Integers

CONSTANTS Ports,     \* port numbers that are implemented
          Lbas,      \* sector numbers; 0 is among them
          Texts,     \* what a sector can hold
          Areas,     \* addresses of command lists and command tables
          Buffers    \* addresses of data buffers

ASSUME AhciConstants == /\ Ports \subseteq Nat /\ Ports # {}
                        /\ 0 \in Lbas /\ Texts # {}
                        /\ Areas \subseteq Nat /\ Buffers \subseteq Nat

VARIABLES mem,    \* command structures in memory
          ram,    \* data buffers in memory
          disk,   \* the sectors of each port's drive
          port,   \* the registers of each port and its command engine
          call,   \* the driver's call in progress, or the last one
          trust   \* ghost: "sound"; "late": a call gave up before its command was
          \* done; "unknown": not set up by the driver that uses it

ahciVars == <<mem, ram, disk, port, call, trust>>

-----------------------------------------------------------------------------
Bit == {0, 1}
Ops == {"read", "write", "identify"}

(* What memory holds besides sectors: zeroes, and the IDENTIFY data.       *)
Contents == Texts \cup {"zero", "identity"}

(* A command header: direction (w = 1 writes to the drive), command table. *)
Header == [kind : {"header"}, w : Bit, table : Areas]
(* A command table: the command and the buffer of its one PRDT entry.      *)
Table == [kind : {"table"}, op : Ops, lba : Lbas, buf : Buffers]
Zeroed == [kind |-> "zeroed"]
Block == Header \cup Table \cup {Zeroed}

HeaderFor(table, w) == [kind |-> "header", w |-> w, table |-> table]
TableFor(op, l, b) == [kind |-> "table", op |-> op, lba |-> l, buf |-> b]

(* The command engine: idle, executing cmd, stopped by an error, or lost   *)
(* with a command that makes no sense.                                     *)
Command == [op : Ops, lba : Lbas, buf : Buffers, w : Bit, table : Areas]
NoCommand == [op |-> "read", lba |-> 0, buf |-> CHOOSE b \in Buffers : TRUE,
              w |-> 0, table |-> CHOOSE a \in Areas : TRUE]

(* clb as it was written, and as it was when the engine was started.       *)
Port == [clb : Areas, latched : Areas, st : Bit, ci : Bit, tfes : Bit,
         hba : {"idle", "busy", "halted", "lost"}, cmd : Command]

(* The engine is stopped (ST = 0): commands that were issued are gone.     *)
Stopped(r) == [r EXCEPT !.st = 0, !.ci = 0, !.hba = "idle", !.cmd = NoCommand]

(* The engine is started with this command list, errors cleared.           *)
Started(r, list) ==
  [Stopped(r) EXCEPT !.clb = list, !.latched = list, !.st = 1, !.tfes = 0]

(* PxCI := 1.  Without a running engine the bit may stick or not.          *)
Issued(r) == IF r.st = 1 THEN {[r EXCEPT !.ci = 1]}
             ELSE {[r EXCEPT !.ci = c] : c \in Bit}

-----------------------------------------------------------------------------
(* The engine takes up the command.  A list address that was changed while *)
(* it runs may be used at once or only after the next start.               *)
Fetched(p, h) == [op |-> mem[h.table].op, lba |-> mem[h.table].lba,
                  buf |-> mem[h.table].buf, w |-> h.w, table |-> h.table]
MakesSense(h) == h.kind = "header" /\ mem[h.table].kind = "table"

HbaFetch(p) ==
  /\ port[p].st = 1 /\ port[p].ci = 1 /\ port[p].hba = "idle"
  /\ \E list \in {port[p].clb, port[p].latched} :
       LET h == mem[list]
       IN  \/ /\ MakesSense(h)
              /\ port' = [port EXCEPT ![p].hba = "busy",
                                      ![p].cmd = Fetched(p, h)]
           \/ /\ ~ MakesSense(h)
              /\ port' = [port EXCEPT ![p].hba = "lost"]
  /\ UNCHANGED <<mem, ram, disk, call, trust>>

(* The PRDT may be read with the command or when the data is there.        *)
BuffersOf(c) == {c.buf} \cup {t.buf : t \in {mem[c.table]} \cap Table}

Moved(p, c, b) ==
  /\ ram' = CASE c.op = "read"     -> [ram EXCEPT ![b] = disk[p][c.lba]]
              [] c.op = "identify" -> [ram EXCEPT ![b] = "identity"]
              [] OTHER             -> ram
  /\ disk' = IF c.op = "write" THEN [disk EXCEPT ![p][c.lba] = ram[b]]
             ELSE disk

(* The command is executed and its bit in PxCI cleared.  With the wrong    *)
(* direction in its header it may move nothing.                            *)
HbaFinish(p) ==
  LET c == port[p].cmd
  IN  /\ port[p].hba = "busy"
      /\ \/ \E b \in BuffersOf(c) : Moved(p, c, b)
         \/ (c.w = 1) # (c.op = "write") /\ UNCHANGED <<ram, disk>>
      /\ port' = [port EXCEPT ![p].ci = 0, ![p].hba = "idle",
                              ![p].cmd = NoCommand]
      /\ UNCHANGED <<mem, call, trust>>

(* The drive reports an error: the engine stops, the bit stays set.        *)
HbaFail(p) ==
  /\ port[p].hba = "busy"
  /\ port' = [port EXCEPT ![p].tfes = 1, ![p].hba = "halted"]
  /\ UNCHANGED <<mem, ram, disk, call, trust>>

HbaStep == \E p \in Ports : HbaFetch(p) \/ HbaFinish(p) \/ HbaFail(p)

(* BSY is set as long as the drive has a command.                          *)
Busy(r) == r.hba \in {"busy", "lost"}

HbaType == /\ mem \in [Areas -> Block]
           /\ ram \in [Buffers -> Contents]
           /\ disk \in [Ports -> [Lbas -> Contents]]
           /\ port \in [Ports -> Port]
           /\ trust \in [Ports -> {"sound", "late", "unknown"}]
=============================================================================
