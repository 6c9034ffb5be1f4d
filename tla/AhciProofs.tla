----------------------------- MODULE AhciProofs ------------------------------
(***************************************************************************)
(* Theorems about the AHCI drivers, for every number of ports, sectors,    *)
(* texts and buffers: types, what a true answer means, and what may change *)
(* a sector.                                                               *)
(***************************************************************************)
EXTENDS Ahci, WellFoundedInduction, TLAPS

-----------------------------------------------------------------------------
(* The inductive invariant                                                 *)

List(p) == 128 * p
TableAt(p) == IF kernel = "os1" THEN Os1!CmdTable(p) ELSE Os2!CmdTable(p)

SectorCall == call.op \in {"read", "write"}
Waiting(p) == call.p = p /\ call.pc = "wait"
(* The driver polls for a command that it has given to port p.             *)
Sent(p) == call.p = p /\ call.pc \in {"ident", "sector0", "wait"}

Direction(op) == IF op = "write" THEN 1 ELSE 0
Header1(p, op) == HeaderFor(TableAt(p), Direction(op))
Expected == [op |-> call.op, lba |-> call.lba, buf |-> call.buf,
             w |-> Direction(call.op), table |-> TableAt(call.p)]

(* What is true of every port.                                             *)
EngineInv(p) ==
  /\ port[p].hba # "idle" => port[p].ci = 1 /\ port[p].st = 1
  /\ trust[p] = "sound" => port[p].st = 1
  /\ kernel = "os2" => (trust[p] = "unknown" <=> port[p].st = 0)
  /\ kernel = "os2" /\ port[p].tfes = 1 => port[p].hba = "halted"
  /\ trust[p] = "sound" \/ kernel = "os2" =>
       port[p].clb = List(p) /\ port[p].latched = List(p)

(* A sound port works for the call in progress only, and what it has been  *)
(* given is that call's command.                                           *)
SoundInv(p) ==
  trust[p] = "sound" =>
    /\ ~ Sent(p) => \/ port[p].hba = "idle" /\ port[p].ci = 0
                    \/ port[p].hba = "halted"
    /\ port[p].hba = "busy" =>
         IF Waiting(p) /\ SectorCall THEN port[p].cmd = Expected
         ELSE port[p].cmd.op # "write"

(* The command header of a port leads to its own table; ahci_read_mbr may  *)
(* lead that of port 0 to a table that reads, or put such a table there.   *)
HeaderInv(p) ==
  /\ kernel = "os2" /\ port[p].st = 1 =>
       mem[List(p)] \in Header /\ mem[List(p)].table = TableAt(p)
  /\ kernel = "os1" /\ trust[p] = "sound" /\ mem[List(p)] \in Header =>
       \/ mem[List(p)].table = TableAt(p)
       \/ p = 0 /\ mem[List(p)].table = Os1!MbrTable(p)
  /\ kernel = "os1" /\ p = 0 /\ mem[Os1!MbrTable(p)] \in Table =>
       mem[Os1!MbrTable(p)].op # "write"

(* What the call in progress has written into memory.                      *)
BuiltInv ==
  /\ call.pc \in {"build", "bsy", "wait"} /\ SectorCall =>
       mem[List(call.p)] = Header1(call.p, call.op)
  /\ call.pc \in {"bsy", "wait"} =>
       mem[TableAt(call.p)] = TableFor(call.op, call.lba, call.buf)
  /\ call.pc \in {"ident", "sector0"} =>
       /\ trust[call.p] = "sound"
       /\ mem[List(call.p)] = Header1(call.p, "read")
       /\ mem[TableAt(call.p)] \in Table /\ mem[TableAt(call.p)].op # "write"
  /\ kernel = "os2" /\ call.pc \in {"build", "bsy", "wait"} => port[call.p].st = 1

Trusted == IF kernel = "os1" THEN {"sound"} ELSE {"sound", "late"}

(* A call for a sector that is polled for does not have an older command   *)
(* executed.                                                               *)
WorkInv ==
  call.pc = "wait" /\ SectorCall /\ trust[call.p] \in Trusted =>
    /\ port[call.p].hba # "lost"
    /\ port[call.p].hba = "busy" => port[call.p].cmd = Expected

(* When its bit is clear the data has been moved, and nothing moves it on. *)
MovedInv ==
  /\ SectorCall /\ trust[call.p] \in Trusted
  /\ \/ call.pc = "wait" /\ port[call.p].ci = 0
     \/ call.pc = "returned" /\ call.ok = 1
  => /\ port[call.p].ci = 0
     /\ (\A q \in Ports \ {call.p} : Quiet(q)) =>
          ram[call.buf] = disk[call.p][call.lba]

AhciInv ==
  /\ TypeOK
  /\ \A p \in Ports : EngineInv(p) /\ SoundInv(p) /\ HeaderInv(p)
  /\ BuiltInv /\ WorkInv /\ MovedInv

-----------------------------------------------------------------------------
(* Lemmas on numbers, addresses and records                                *)

(* A set of numbers has a least one: the CHOOSE of the scans is defined.   *)
LEMMA Least ==
  ASSUME NEW S, S \subseteq Nat, S # {}
  PROVE  (CHOOSE p \in S : \A q \in S : p <= q) \in S
<1>1. PICK x \in S : \A y \in S : ~ (<<y, x>> \in OpToRel(<, Nat))
  BY WFMin, NatLessThanWellFounded
<1>2. \A y \in S : ~ (y < x)
  BY <1>1 DEF OpToRel
<1>3. \A y \in S : x <= y
  BY <1>2
<1>. QED
  BY <1>3

(* The places of the structures of a port.                                 *)
LEMMA Places ==
  ASSUME NEW p \in Ports
  PROVE  /\ p \in Nat /\ p <= 31
         /\ Os1!CmdList(p) = 128 * p /\ Os2!CmdList(p) = 128 * p
         /\ List(p) = 128 * p
         /\ Os1!CmdTable(p) = 128 * p + 16 /\ Os2!CmdTable(p) = 128 * p + 8
         /\ Os1!MbrList(p) = 2 * p /\ Os1!MbrTable(p) = 128 + 16 * p
         /\ List(p) \in Areas /\ Os1!CmdTable(p) \in Areas
         /\ Os2!CmdTable(p) \in Areas /\ Os1!MbrList(p) \in Areas
         /\ Os1!MbrTable(p) \in Areas
         /\ Os1!DataBuffer(p) \in Buffers /\ Os1!MbrBuffer(p) \in Buffers
BY AhciConstants, AhciLayout
   DEF Os1!CmdList, Os2!CmdList, List, Os1!CmdTable, Os2!CmdTable,
       Os1!MbrList, Os1!MbrTable

LEMMA NonEmpty == Ports # {} /\ Areas # {} /\ Buffers # {}
BY AhciConstants, Places

(* A kind tells what a block is.                                           *)
LEMMA Kinds ==
  ASSUME NEW b \in Block
  PROVE  /\ b \in Header <=> b.kind = "header"
         /\ b \in Table <=> b.kind = "table"
         /\ b \in Header => b.w \in Bit /\ b.table \in Areas
         /\ b \in Table => b.op \in Ops /\ b.lba \in Lbas /\ b.buf \in Buffers
BY DEF Block, Header, Table, Zeroed

LEMMA HeaderIs ==
  ASSUME NEW t \in Areas, NEW w \in Bit
  PROVE  /\ HeaderFor(t, w) \in Header /\ HeaderFor(t, w) \in Block
         /\ HeaderFor(t, w) \notin Table
         /\ HeaderFor(t, w).table = t /\ HeaderFor(t, w).w = w
         /\ HeaderFor(t, w).kind = "header"
BY DEF HeaderFor, Header, Table, Block

LEMMA TableIs ==
  ASSUME NEW o \in Ops, NEW l \in Lbas, NEW b \in Buffers
  PROVE  /\ TableFor(o, l, b) \in Table /\ TableFor(o, l, b) \in Block
         /\ TableFor(o, l, b) \notin Header
         /\ TableFor(o, l, b).op = o /\ TableFor(o, l, b).lba = l
         /\ TableFor(o, l, b).buf = b /\ TableFor(o, l, b).kind = "table"
BY DEF TableFor, Header, Table, Block

LEMMA ZeroedIs == Zeroed \in Block /\ Zeroed \notin Header /\ Zeroed \notin Table
BY DEF Zeroed, Header, Table, Block

LEMMA NoCommandIs == NoCommand \in Command
<1>1. (CHOOSE b \in Buffers : TRUE) \in Buffers /\ (CHOOSE a \in Areas : TRUE) \in Areas
  BY NonEmpty
<1>. QED
  BY <1>1, AhciConstants DEF NoCommand, Command, Ops, Bit

LEMMA StoppedIs ==
  ASSUME NEW r \in Port
  PROVE  /\ Stopped(r) \in Port
         /\ Stopped(r).clb = r.clb /\ Stopped(r).latched = r.latched
         /\ Stopped(r).st = 0 /\ Stopped(r).ci = 0 /\ Stopped(r).hba = "idle"
         /\ Stopped(r).cmd = NoCommand /\ Stopped(r).tfes = r.tfes
BY NoCommandIs DEF Stopped, Port, Bit

LEMMA StartedIs ==
  ASSUME NEW r \in Port, NEW a \in Areas
  PROVE  /\ Started(r, a) \in Port
         /\ Started(r, a).clb = a /\ Started(r, a).latched = a
         /\ Started(r, a).st = 1 /\ Started(r, a).ci = 0
         /\ Started(r, a).hba = "idle" /\ Started(r, a).cmd = NoCommand
<1>. DEFINE s == Stopped(r)
<1>1. s \in Port /\ s.ci = 0 /\ s.hba = "idle" /\ s.cmd = NoCommand
  BY StoppedIs
<1>2. Started(r, a) = [s EXCEPT !.clb = a, !.latched = a, !.st = 1, !.tfes = 0]
  BY DEF Started
<1>. HIDE DEF s
<1>. QED
  BY <1>1, <1>2 DEF Port, Bit

LEMMA CiIs ==
  ASSUME NEW r \in Port, NEW c \in Bit
  PROVE  /\ [r EXCEPT !.ci = c] \in Port
         /\ [r EXCEPT !.ci = c].clb = r.clb /\ [r EXCEPT !.ci = c].latched = r.latched
         /\ [r EXCEPT !.ci = c].st = r.st /\ [r EXCEPT !.ci = c].ci = c
         /\ [r EXCEPT !.ci = c].hba = r.hba /\ [r EXCEPT !.ci = c].cmd = r.cmd
         /\ [r EXCEPT !.ci = c].tfes = r.tfes
BY DEF Port

(* The instances' copies of the operators of AhciPort are the same.        *)
LEMMA Os1Names ==
  /\ Os1!Zeroed = Zeroed /\ Os1!Ops = Ops /\ Os1!Bit = Bit
  /\ \A t, w : Os1!HeaderFor(t, w) = HeaderFor(t, w)
  /\ \A o, l, b : Os1!TableFor(o, l, b) = TableFor(o, l, b)
  /\ \A r : Os1!Stopped(r) = Stopped(r)
  /\ \A r, a : Os1!Started(r, a) = Started(r, a)
  /\ \A r : Os1!Issued(r) = Issued(r)
<1>1. Os1!NoCommand = NoCommand
  BY DEF Os1!NoCommand, NoCommand
<1>2. \A r : Os1!Stopped(r) = Stopped(r)
  BY <1>1 DEF Os1!Stopped, Stopped
<1>3. \A r, a : Os1!Started(r, a) = Started(r, a)
  BY <1>2 DEF Os1!Started, Started
<1>4. \A r : Os1!Issued(r) = Issued(r)
  BY DEF Os1!Issued, Issued, Os1!Bit, Bit
<1>5. \A t, w : Os1!HeaderFor(t, w) = HeaderFor(t, w)
  BY DEF Os1!HeaderFor, HeaderFor
<1>6. \A o, l, b : Os1!TableFor(o, l, b) = TableFor(o, l, b)
  BY DEF Os1!TableFor, TableFor
<1>7. Os1!Zeroed = Zeroed /\ Os1!Ops = Ops /\ Os1!Bit = Bit
  BY DEF Os1!Zeroed, Zeroed, Os1!Ops, Ops, Os1!Bit, Bit
<1>. QED
  BY <1>2, <1>3, <1>4, <1>5, <1>6, <1>7

LEMMA Os2Names ==
  /\ Os2!Zeroed = Zeroed /\ Os2!Ops = Ops /\ Os2!Bit = Bit
  /\ \A t, w : Os2!HeaderFor(t, w) = HeaderFor(t, w)
  /\ \A o, l, b : Os2!TableFor(o, l, b) = TableFor(o, l, b)
  /\ \A r, a : Os2!Started(r, a) = Started(r, a)
  /\ \A r : Os2!Issued(r) = Issued(r)
  /\ \A r : Os2!Busy(r) = Busy(r)
<1>1. Os2!NoCommand = NoCommand
  BY DEF Os2!NoCommand, NoCommand
<1>2. \A r : Os2!Stopped(r) = Stopped(r)
  BY <1>1 DEF Os2!Stopped, Stopped
<1>3. \A r, a : Os2!Started(r, a) = Started(r, a)
  BY <1>2 DEF Os2!Started, Started
<1>4. \A r : Os2!Issued(r) = Issued(r)
  BY DEF Os2!Issued, Issued, Os2!Bit, Bit
<1>5. \A t, w : Os2!HeaderFor(t, w) = HeaderFor(t, w)
  BY DEF Os2!HeaderFor, HeaderFor
<1>6. \A o, l, b : Os2!TableFor(o, l, b) = TableFor(o, l, b)
  BY DEF Os2!TableFor, TableFor
<1>7. Os2!Zeroed = Zeroed /\ Os2!Ops = Ops /\ Os2!Bit = Bit
  BY DEF Os2!Zeroed, Zeroed, Os2!Ops, Ops, Os2!Bit, Bit
<1>8. \A r : Os2!Busy(r) = Busy(r)
  BY DEF Os2!Busy, Busy
<1>. QED
  BY <1>3, <1>4, <1>5, <1>6, <1>7, <1>8

-----------------------------------------------------------------------------
(* What all steps of the 32-bit kernel have in common                      *)

Call1 == [pc : {"reset", "ident", "sector0", "mbr", "ready", "build", "wait",
                "returned"},
          p : Ports, op : Ops, lba : Lbas, buf : Buffers, ok : Bit, boot : Bit]

LEMMA Call1Is == Os1!Call = Call1
BY Os1Names DEF Os1!Call, Call1

LEMMA Types1 ==
  ASSUME TypeOK, kernel = "os1"
  PROVE  /\ mem \in [Areas -> Block] /\ ram \in [Buffers -> Contents]
         /\ disk \in [Ports -> [Lbas -> Contents]]
         /\ port \in [Ports -> Port]
         /\ trust \in [Ports -> {"sound", "late", "unknown"}]
         /\ call \in Call1 /\ call.p \in Ports /\ drives \subseteq Ports
<1>1. call \in Call1
  BY Call1Is DEF TypeOK
<1>2. call.p \in Ports
  BY <1>1 DEF Call1
<1>. QED
  BY <1>1, <1>2 DEF TypeOK, HbaType

LEMMA TypeFrom1 ==
  ASSUME kernel = "os1", kernel' = kernel,
         mem' \in [Areas -> Block], ram' \in [Buffers -> Contents],
         disk' \in [Ports -> [Lbas -> Contents]], port' \in [Ports -> Port],
         trust' \in [Ports -> {"sound", "late", "unknown"}],
         call' \in Call1, drives' \subseteq Ports
  PROVE  TypeOK'
BY Call1Is DEF TypeOK, HbaType

(* A port on which nothing happens, and no call waits, stays as it is.     *)
LEMMA PortKept ==
  ASSUME AhciInv, kernel' = kernel, NEW q \in Ports, ~ Sent(q), ~ Sent(q)',
         port'[q] = port[q], trust'[q] = trust[q]
  PROVE  EngineInv(q)' /\ SoundInv(q)'
<1>1. EngineInv(q) /\ SoundInv(q)
  BY DEF AhciInv
<1>2. List(q)' = List(q)
  BY DEF List
<1>3. EngineInv(q)'
  BY <1>1, <1>2 DEF EngineInv
<1>4. SoundInv(q)'
  BY <1>1, <1>3 DEF SoundInv, EngineInv, Sent, Waiting
<1>. QED
  BY <1>3, <1>4

LEMMA Elsewhere ==
  ASSUME AhciInv, kernel' = kernel, NEW q \in Ports, ~ Sent(q), ~ Sent(q)',
         port'[q] = port[q], trust'[q] = trust[q],
         mem'[List(q)] = mem[List(q)],
         kernel = "os1" /\ q = 0 =>
           \/ mem'[Os1!MbrTable(0)] = mem[Os1!MbrTable(0)]
           \/ mem'[Os1!MbrTable(0)] \notin Table
  PROVE  EngineInv(q)' /\ SoundInv(q)' /\ HeaderInv(q)'
<1>1. HeaderInv(q)
  BY DEF AhciInv
<1>2. List(q)' = List(q) /\ TableAt(q)' = TableAt(q)
  BY DEF List, TableAt
<1>3. HeaderInv(q)'
  BY <1>1, <1>2 DEF HeaderInv
<1>. QED
  BY <1>3, PortKept

(* A step of the call for port p leaves the other ports as they are: of the*)
(* memory it writes the list and the table of its own port only.           *)
LEMMA Others ==
  ASSUME AhciInv, kernel' = kernel, NEW p \in Ports,
         \A q \in Ports \ {p} : /\ port'[q] = port[q] /\ trust'[q] = trust[q]
                                /\ ~ Sent(q) /\ ~ Sent(q)',
         \A a \in Areas \ {List(p), TableAt(p)} : mem'[a] = mem[a],
         mem'[List(p)] = mem[List(p)] \/ mem'[List(p)] \notin Table
  PROVE  \A q \in Ports \ {p} : EngineInv(q)' /\ SoundInv(q)' /\ HeaderInv(q)'
<1>. SUFFICES ASSUME NEW q \in Ports \ {p}
              PROVE  EngineInv(q)' /\ SoundInv(q)' /\ HeaderInv(q)'
  OBVIOUS
<1>1. List(q) \in Areas \ {List(p), TableAt(p)}
  BY Places DEF TableAt
<1>2. ASSUME kernel = "os1", q = 0
      PROVE  \/ mem'[Os1!MbrTable(0)] = mem[Os1!MbrTable(0)]
             \/ mem'[Os1!MbrTable(0)] \notin Table
  <2>1. Os1!MbrTable(0) \in Areas /\ Os1!MbrTable(0) = 128
    BY <1>2, Places
  <2>2. TableAt(p) # 128
    BY <1>2, Places DEF TableAt
  <2>. QED
    BY <2>1, <2>2
<1>. QED
  BY <1>1, <1>2, Elsewhere

(* The header of the port in hand, in the 32-bit kernel.                   *)
LEMMA OwnHeader1 ==
  ASSUME AhciInv, kernel = "os1", kernel' = kernel, NEW p \in Ports,
         \A a \in Areas \ {List(p), TableAt(p)} : mem'[a] = mem[a],
         \/ mem'[List(p)].table = TableAt(p)
         \/ /\ mem'[List(p)] = mem[List(p)]
            /\ trust'[p] = "sound" => trust[p] = "sound"
  PROVE  HeaderInv(p)'
<1>1. HeaderInv(p)
  BY DEF AhciInv
<1>2. p = 0 => mem'[Os1!MbrTable(p)] = mem[Os1!MbrTable(p)]
  BY Places DEF TableAt
<1>3. TableAt(p)' = TableAt(p) /\ List(p)' = List(p)
  BY DEF TableAt, List
<1>. QED
  BY <1>1, <1>2, <1>3 DEF HeaderInv

(* Calls that have not been given to the adapter ask for nothing.          *)
LEMMA NoWork ==
  ASSUME call.pc' \notin {"build", "bsy", "wait", "ident", "sector0", "returned"}
  PROVE  BuiltInv' /\ WorkInv' /\ MovedInv'
BY DEF BuiltInv, WorkInv, MovedInv

LEMMA NextPort1 ==
  ASSUME call \in Call1, Os1!NextPort
  PROVE  call' \in Call1 /\ call'.pc \in {"reset", "mbr", "ready"}
<1>1. CASE Os1!After(call.p) # {}
  <2>1. Os1!After(call.p) \subseteq Nat
    BY AhciConstants DEF Os1!After
  <2>2. Os1!First(Os1!After(call.p)) \in Os1!After(call.p)
    BY <1>1, <2>1, Least DEF Os1!First
  <2>3. Os1!First(Os1!After(call.p)) \in Ports
    BY <2>2 DEF Os1!After
  <2>. QED
    BY <1>1, <2>3 DEF Os1!NextPort, Call1
<1>2. CASE ~ (Os1!After(call.p) # {})
  BY <1>2 DEF Os1!NextPort, Call1
<1>. QED
  BY <1>1, <1>2

(* The loop that polls is left: a command that may still be executed makes *)
(* the port "late".                                                        *)
LEMMA AfterPoll1 ==
  ASSUME AhciInv, kernel = "os1", kernel' = kernel, Sent(call.p),
         port' = port, mem' = mem, trust' = Os1!TrustAfter(call.p),
         call'.pc \notin {"ident", "sector0", "wait"}
  PROVE  /\ trust' \in [Ports -> {"sound", "late", "unknown"}]
         /\ trust'[call.p] = "sound" =>
              trust[call.p] = "sound" /\ port[call.p].ci = 0
         /\ \A q \in Ports : EngineInv(q)' /\ SoundInv(q)' /\ HeaderInv(q)'
<1>1. trust \in [Ports -> {"sound", "late", "unknown"}] /\ call.p \in Ports
  BY Types1 DEF AhciInv
<1>. PICK p \in Ports : p = call.p
  BY <1>1
<1>2. /\ trust' \in [Ports -> {"sound", "late", "unknown"}]
      /\ \A q \in Ports \ {p} : trust'[q] = trust[q]
      /\ trust'[p] = "sound" => trust[p] = "sound" /\ port[p].ci = 0
  BY <1>1 DEF Os1!TrustAfter, Os1!Done
<1>3. \A q \in Ports : ~ Sent(q)'
  BY DEF Sent
<1>4. ASSUME NEW q \in Ports \ {p}
      PROVE  EngineInv(q)' /\ SoundInv(q)' /\ HeaderInv(q)'
  <2>1. ~ Sent(q)
    BY DEF Sent
  <2>. QED
    BY <1>2, <1>3, <2>1, Elsewhere
<1>5. EngineInv(p)' /\ SoundInv(p)' /\ HeaderInv(p)'
  <2>1. EngineInv(p) /\ SoundInv(p) /\ HeaderInv(p)
    BY <1>1 DEF AhciInv
  <2>2. List(p)' = List(p) /\ TableAt(p)' = TableAt(p)
    BY DEF List, TableAt
  <2>3. EngineInv(p)'
    BY <1>2, <2>1, <2>2 DEF EngineInv
  <2>4. SoundInv(p)'
    BY <1>2, <1>3, <2>1 DEF SoundInv, EngineInv
  <2>5. HeaderInv(p)'
    BY <1>2, <2>1, <2>2 DEF HeaderInv
  <2>. QED
    BY <2>3, <2>4, <2>5
<1>. QED
  BY <1>1, <1>2, <1>4, <1>5

-----------------------------------------------------------------------------
(* The steps of the 32-bit kernel                                          *)

LEMMA StartMountStep ==
  ASSUME AhciInv, kernel = "os1", kernel' = kernel, Os1!StartMount
  PROVE  AhciInv'
<1>. USE DEF Os1!StartMount
<1>1. Os1!First(Ports) \in Ports
  BY Least, AhciConstants DEF Os1!First
<1>2. call \in Call1
  BY Types1 DEF AhciInv
<1>3. call' \in Call1 /\ call'.pc = "reset"
  BY <1>1, <1>2 DEF Call1
<1>4. TypeOK'
  BY <1>3, Types1, TypeFrom1 DEF AhciInv
<1>5. \A q \in Ports : ~ Sent(q) /\ ~ Sent(q)'
  BY <1>3 DEF Sent
<1>6. \A q \in Ports : EngineInv(q)' /\ SoundInv(q)' /\ HeaderInv(q)'
  BY <1>5, Elsewhere
<1>7. BuiltInv' /\ WorkInv' /\ MovedInv'
  BY <1>3, NoWork
<1>. QED
  BY <1>4, <1>6, <1>7 DEF AhciInv

LEMMA MountNoLinkStep ==
  ASSUME AhciInv, kernel = "os1", kernel' = kernel, Os1!MountNoLink
  PROVE  AhciInv'
<1>. USE DEF Os1!MountNoLink
<1>1. TypeOK /\ call \in Call1 /\ call.p \in Ports
  BY Types1 DEF AhciInv
<1>. PICK p \in Ports : p = call.p
  BY <1>1
<1>2. call' \in Call1 /\ call'.pc \in {"reset", "mbr", "ready"}
  BY <1>1, NextPort1
<1>3. port' = [port EXCEPT ![p] = Stopped(port[p])]
  BY Os1Names
<1>4. port[p] \in Port
  BY <1>1, Types1
<1>5. TypeOK'
  <2>1. port' \in [Ports -> Port]
    BY <1>1, <1>3, <1>4, StoppedIs, Types1
  <2>2. trust' \in [Ports -> {"sound", "late", "unknown"}]
    BY <1>1, Types1
  <2>. QED
    BY <1>1, <1>2, <2>1, <2>2, Types1, TypeFrom1
<1>6. \A q \in Ports : ~ Sent(q) /\ ~ Sent(q)'
  BY <1>2 DEF Sent
<1>7. ASSUME NEW q \in Ports \ {p}
      PROVE  EngineInv(q)' /\ SoundInv(q)' /\ HeaderInv(q)'
  <2>1. port'[q] = port[q] /\ trust'[q] = trust[q]
    BY <1>1, Types1, <1>3
  <2>. QED
    BY <2>1, <1>6, Elsewhere
<1>8. EngineInv(p)' /\ SoundInv(p)' /\ HeaderInv(p)'
  <2>1. trust'[p] = "unknown" /\ port'[p] = Stopped(port[p])
    BY <1>1, <1>3, Types1
  <2>2. HeaderInv(p)
    BY DEF AhciInv
  <2>3. EngineInv(p)' /\ SoundInv(p)'
    BY <2>1, <1>4, StoppedIs DEF EngineInv, SoundInv
  <2>4. HeaderInv(p)'
    BY <2>1, <2>2 DEF HeaderInv, List, TableAt
  <2>. QED
    BY <2>3, <2>4
<1>9. BuiltInv' /\ WorkInv' /\ MovedInv'
  BY <1>2, NoWork
<1>. QED
  BY <1>5, <1>7, <1>8, <1>9 DEF AhciInv

LEMMA MountIdentifyStep ==
  ASSUME AhciInv, kernel = "os1", kernel' = kernel, Os1!MountIdentify
  PROVE  AhciInv'
<1>. USE DEF Os1!MountIdentify
<1>1. TypeOK /\ call \in Call1 /\ call.p \in Ports
  BY Types1 DEF AhciInv
<1>. PICK p \in Ports : p = call.p
  BY <1>1
<1>. DEFINE list == Os1!CmdList(p)
            table == Os1!CmdTable(p)
            h == HeaderFor(table, 0)
            t == TableFor("identify", 0, Os1!DataBuffer(p))
            r == Started(port[p], list)
<1>2. /\ list = List(p) /\ list \in Areas /\ table \in Areas /\ list # table
      /\ Os1!DataBuffer(p) \in Buffers
  BY Places
<1>3. mem' = [mem EXCEPT ![list] = h, ![table] = t]
  BY Os1Names
<1>4. port' = [port EXCEPT ![p] = [r EXCEPT !.ci = 1]]
  BY Os1Names
<1>5. h \in Header /\ h \in Block /\ h.table = table
  BY <1>2, HeaderIs DEF Bit
<1>6. t \in Table /\ t \in Block /\ t \notin Header /\ t.op = "identify"
  BY <1>2, TableIs, AhciConstants DEF Ops
<1>7. r \in Port /\ r.clb = list /\ r.latched = list /\ r.st = 1 /\ r.hba = "idle"
  BY <1>1, <1>2, Types1, StartedIs
<1>8. call' \in Call1 /\ call'.pc = "ident" /\ call'.p = p
  BY <1>1 DEF Call1
<1>9. mem'[list] = h /\ mem'[table] = t
  BY <1>1, <1>2, <1>3, Types1
<1>10. \A a \in Areas \ {list, table} : mem'[a] = mem[a]
  BY <1>1, <1>2, <1>3, Types1
<1>. HIDE DEF r
<1>11. /\ port'[p] \in Port /\ port'[p].clb = list /\ port'[p].latched = list
       /\ port'[p].st = 1 /\ port'[p].ci = 1 /\ port'[p].hba = "idle"
  <2>1. port'[p] = [r EXCEPT !.ci = 1]
    BY <1>1, <1>4, Types1
  <2>. QED
    BY <2>1, <1>7, CiIs DEF Bit
<1>. HIDE DEF h, t, list, table
<1>12. TypeOK'
  <2>1. mem' \in [Areas -> Block]
    BY <1>1, <1>2, <1>3, <1>5, <1>6, Types1
  <2>2. port' \in [Ports -> Port]
    BY <1>1, <1>4, <1>11, Types1
  <2>3. trust' \in [Ports -> {"sound", "late", "unknown"}]
    BY <1>1, Types1
  <2>4. ram' \in [Buffers -> Contents]
    BY <1>1, <1>2, Types1 DEF Contents
  <2>. QED
    BY <1>1, <1>8, <2>1, <2>2, <2>3, <2>4, Types1, TypeFrom1
<1>13. list = List(p) /\ table = TableAt(p)
  BY <1>2 DEF table, TableAt
<1>14. mem'[List(p)] \notin Table
  BY <1>2, <1>5, <1>9, Kinds
<1>15. \A q \in Ports \ {p} : EngineInv(q)' /\ SoundInv(q)' /\ HeaderInv(q)'
  <2>1. \A q \in Ports \ {p} : port'[q] = port[q] /\ trust'[q] = trust[q]
    BY <1>1, Types1, <1>4
  <2>2. \A q \in Ports \ {p} : ~ Sent(q) /\ ~ Sent(q)'
    BY <1>8 DEF Sent
  <2>. QED
    BY <2>1, <2>2, <1>10, <1>13, <1>14, Others
<1>16. HeaderInv(p)'
  BY <1>5, <1>9, <1>10, <1>13, OwnHeader1
<1>17. trust'[p] = "sound" /\ Sent(p)' /\ List(p)' = List(p) /\ TableAt(p)' = TableAt(p)
  BY <1>1, <1>8, Types1 DEF Sent, List, TableAt
<1>18. EngineInv(p)' /\ SoundInv(p)'
  BY <1>11, <1>13, <1>17 DEF EngineInv, SoundInv
<1>19. BuiltInv'
  <2>1. h = Header1(p, "read")'
    BY <1>13, <1>17 DEF h, Header1, Direction
  <2>. QED
    BY <1>2, <1>6, <1>8, <1>9, <1>13, <1>17, <2>1 DEF BuiltInv
<1>20. WorkInv' /\ MovedInv'
  BY <1>8 DEF WorkInv, MovedInv
<1>. QED
  BY <1>12, <1>15, <1>16, <1>18, <1>19, <1>20 DEF AhciInv

LEMMA MountSector0Step ==
  ASSUME AhciInv, kernel = "os1", kernel' = kernel, Os1!MountSector0
  PROVE  AhciInv'
<1>. USE DEF Os1!MountSector0
<1>1. TypeOK /\ call \in Call1 /\ call.p \in Ports
  BY Types1 DEF AhciInv
<1>. PICK p \in Ports : p = call.p
  BY <1>1
<1>. DEFINE t == TableFor("read", 0, Os1!DataBuffer(p))
<1>2. /\ TableAt(p) = Os1!CmdTable(p) /\ TableAt(p) \in Areas
      /\ List(p) \in Areas /\ List(p) # TableAt(p)
      /\ Os1!DataBuffer(p) \in Buffers
  BY Places DEF TableAt
<1>3. mem' = [mem EXCEPT ![TableAt(p)] = t]
  BY <1>2, Os1Names
<1>4. t \in Table /\ t \in Block /\ t.op = "read"
  BY <1>2, TableIs, AhciConstants DEF Ops
<1>. HIDE DEF t
<1>5. mem'[TableAt(p)] = t /\ \A a \in Areas \ {TableAt(p)} : mem'[a] = mem[a]
  BY <1>1, <1>2, <1>3, Types1
<1>6. call' \in Call1 /\ call'.pc = "sector0" /\ call'.p = p
  BY <1>1 DEF Call1
<1>7. port[p] \in Port /\ port' = [port EXCEPT ![p] = [port[p] EXCEPT !.ci = 1]]
  BY <1>1, Types1
<1>8. /\ port'[p] \in Port /\ port'[p].ci = 1 /\ port'[p].clb = port[p].clb
      /\ port'[p].latched = port[p].latched /\ port'[p].st = port[p].st
      /\ port'[p].hba = port[p].hba
  <2>1. port'[p] = [port[p] EXCEPT !.ci = 1]
    BY <1>1, <1>7, Types1
  <2>2. PICK r \in Port : r = port[p]
    BY <1>7
  <2>3. 1 \in Bit
    BY DEF Bit
  <2>4. PICK s \in Port : s = [r EXCEPT !.ci = 1]
    BY <2>3, CiIs
  <2>5. /\ s.ci = 1 /\ s.clb = r.clb /\ s.latched = r.latched
        /\ s.st = r.st /\ s.hba = r.hba
    BY <2>3, <2>4, CiIs
  <2>6. port'[p] = s
    BY <2>1, <2>2, <2>4
  <2>. QED
    BY <2>2, <2>5, <2>6
<1>9. trust[p] = "sound" /\ mem[List(p)] = Header1(p, "read") /\ port[p].ci = 0
  BY <1>2 DEF AhciInv, BuiltInv, Os1!Succeeded, Os1!Done
<1>10. EngineInv(p) /\ port[p].hba = "idle"
  BY <1>9 DEF AhciInv, EngineInv
<1>11. TypeOK'
  <2>1. mem' \in [Areas -> Block]
    BY <1>1, <1>2, <1>3, <1>4, Types1
  <2>2. port' \in [Ports -> Port]
    BY <1>1, <1>7, <1>8, Types1
  <2>3. ram' \in [Buffers -> Contents]
    BY <1>1, <1>2, Types1 DEF Contents
  <2>. QED
    BY <1>1, <1>6, <2>1, <2>2, <2>3, Types1, TypeFrom1
<1>12. \A q \in Ports \ {p} : EngineInv(q)' /\ SoundInv(q)' /\ HeaderInv(q)'
  <2>1. \A q \in Ports \ {p} : port'[q] = port[q] /\ trust'[q] = trust[q]
    BY <1>1, Types1, <1>7
  <2>2. \A q \in Ports \ {p} : ~ Sent(q) /\ ~ Sent(q)'
    BY <1>6 DEF Sent
  <2>. QED
    BY <2>1, <2>2, <1>2, <1>5, Others
<1>13. HeaderInv(p)'
  BY <1>2, <1>5, OwnHeader1
<1>14. trust'[p] = "sound" /\ Sent(p)' /\ List(p)' = List(p) /\ TableAt(p)' = TableAt(p)
  BY <1>6, <1>9 DEF Sent, List, TableAt
<1>15. EngineInv(p)' /\ SoundInv(p)'
  BY <1>8, <1>10, <1>14 DEF EngineInv, SoundInv
<1>16. BuiltInv'
  <2>1. Header1(p, "read")' = Header1(p, "read")
    BY <1>14 DEF Header1, Direction
  <2>. QED
    BY <1>2, <1>4, <1>5, <1>6, <1>9, <1>14, <2>1 DEF BuiltInv
<1>17. WorkInv' /\ MovedInv'
  BY <1>6 DEF WorkInv, MovedInv
<1>. QED
  BY <1>11, <1>12, <1>13, <1>15, <1>16, <1>17 DEF AhciInv

LEMMA MountSkipsStep ==
  ASSUME AhciInv, kernel = "os1", kernel' = kernel, Os1!MountSkips
  PROVE  AhciInv'
<1>. USE DEF Os1!MountSkips
<1>1. TypeOK /\ call \in Call1 /\ call.p \in Ports
  BY Types1 DEF AhciInv
<1>2. call' \in Call1 /\ call'.pc \in {"reset", "mbr", "ready"}
  BY <1>1, NextPort1
<1>3. /\ trust' \in [Ports -> {"sound", "late", "unknown"}]
      /\ \A q \in Ports : EngineInv(q)' /\ SoundInv(q)' /\ HeaderInv(q)'
  BY <1>2, AfterPoll1 DEF Sent
<1>4. TypeOK'
  BY <1>1, <1>2, <1>3, Types1, TypeFrom1
<1>. QED
  BY <1>2, <1>3, <1>4, NoWork DEF AhciInv

LEMMA MountListsStep ==
  ASSUME AhciInv, kernel = "os1", kernel' = kernel, Os1!MountLists
  PROVE  AhciInv'
<1>. USE DEF Os1!MountLists
<1>1. TypeOK /\ call \in Call1 /\ call.p \in Ports
  BY Types1 DEF AhciInv
<1>2. call' \in Call1 /\ call'.pc \in {"reset", "mbr", "ready"}
  BY <1>1, NextPort1
<1>3. /\ trust' \in [Ports -> {"sound", "late", "unknown"}]
      /\ \A q \in Ports : EngineInv(q)' /\ SoundInv(q)' /\ HeaderInv(q)'
  BY <1>2, AfterPoll1 DEF Sent
<1>4. drives' \subseteq Ports
  BY <1>1, Types1
<1>5. TypeOK'
  BY <1>1, <1>2, <1>3, <1>4, Types1, TypeFrom1
<1>. QED
  BY <1>2, <1>3, <1>5, NoWork DEF AhciInv

(* Only port 0 has its second list where its first one is.                 *)
LEMMA MbrPlaces ==
  ASSUME NEW p \in Ports, NEW q \in Ports
  PROVE  /\ Os1!MbrList(q) = List(p) => p = 0 /\ q = 0
         /\ p = 0 => Os1!MbrTable(p) = 128
         /\ Os1!MbrList(q) # 128
         /\ List(p) \in Areas /\ Os1!MbrTable(p) \in Areas
<1>1. /\ Os1!MbrList(q) = 2 * q /\ List(p) = 128 * p
      /\ Os1!MbrTable(p) = 128 + 16 * p
      /\ p \in Nat /\ q \in Nat /\ q <= 31
  BY Places
<1>2. 2 * q = 128 * p => p = 0 /\ q = 0
  BY <1>1
<1>. QED
  BY <1>1, <1>2, Places

LEMMA ReadMbrStep ==
  ASSUME AhciInv, kernel = "os1", kernel' = kernel, Os1!ReadMbr
  PROVE  AhciInv'
<1>. USE DEF Os1!ReadMbr
<1>1. TypeOK /\ call \in Call1 /\ drives \subseteq Ports
  BY Types1 DEF AhciInv
<1>2. call' \in Call1 /\ call'.pc = "ready" /\ call.pc = "mbr"
  BY <1>1 DEF Call1, Bit
<1>3. ASSUME NEW a \in Areas, NEW p \in drives, a = Os1!MbrList(p)
      PROVE  mem'[a] = HeaderFor(Os1!MbrTable(p), 0)
  <2>1. p = CHOOSE x \in drives : a = Os1!MbrList(x)
    BY <1>1, <1>3, Places
  <2>. QED
    BY <1>3, <2>1, Os1Names
<1>4. ASSUME NEW a \in Areas, NEW p \in drives, a = Os1!MbrTable(p),
             \A q \in drives : a # Os1!MbrList(q)
      PROVE  mem'[a] = TableFor("read", 0, Os1!MbrBuffer(p))
  <2>1. p = CHOOSE x \in drives : a = Os1!MbrTable(x)
    BY <1>1, <1>4, Places
  <2>. QED
    BY <1>4, <2>1, Os1Names
<1>5. ASSUME NEW a \in Areas, \A q \in drives : a # Os1!MbrList(q) /\ a # Os1!MbrTable(q)
      PROVE  mem'[a] = mem[a]
  BY <1>5
<1>6. mem' \in [Areas -> Block]
  <2>1. ASSUME NEW a \in Areas PROVE mem'[a] \in Block
    <3>1. CASE \E p \in drives : a = Os1!MbrList(p)
      BY <3>1, <1>1, <1>3, HeaderIs, Places DEF Bit
    <3>2. CASE ~ (\E p \in drives : a = Os1!MbrList(p)) /\ \E p \in drives : a = Os1!MbrTable(p)
      BY <3>2, <1>1, <1>4, TableIs, Places, AhciConstants DEF Ops
    <3>3. CASE \A q \in drives : a # Os1!MbrList(q) /\ a # Os1!MbrTable(q)
      BY <3>3, <1>1, <1>5, Types1
    <3>. QED
      BY <3>1, <3>2, <3>3
  <2>. QED
    BY <2>1
<1>7. \A p \in Ports : port[p] \in Port /\ Os1!MbrList(p) \in Areas
  BY <1>1, Types1, Places
<1>8. \A p \in Ports :
        /\ port'[p] \in Port /\ port'[p].st = port[p].st
        /\ port'[p].ci = port[p].ci /\ port'[p].hba = port[p].hba
        /\ port'[p].cmd = port[p].cmd /\ port'[p].latched = port[p].latched
        /\ port'[p].clb = IF p \in drives THEN Os1!MbrList(p) ELSE port[p].clb
  BY <1>7 DEF Port
<1>9. \A p \in Ports :
        /\ trust'[p] \in {"sound", "late", "unknown"}
        /\ trust'[p] = "sound" => trust[p] = "sound" /\ ~ Os1!ListMoved(p)
  BY <1>1, Types1
<1>10. TypeOK'
  <2>1. port' \in [Ports -> Port] /\ trust' \in [Ports -> {"sound", "late", "unknown"}]
    BY <1>8, <1>9
  <2>2. ram' \in [Buffers -> Contents]
    BY <1>1, Types1 DEF Contents
  <2>. QED
    BY <1>1, <1>2, <1>6, <2>1, <2>2, Types1, TypeFrom1
<1>. HIDE DEF Os1!ReadMbr
<1>. DEFINE t(q) == TableFor("read", 0, Os1!MbrBuffer(q))
<1>read. \A q \in Ports : t(q) \notin Header /\ t(q).op = "read"
  <2>1. "read" \in Ops /\ 0 \in Lbas /\ \A q \in Ports : Os1!MbrBuffer(q) \in Buffers
    BY Places, AhciConstants DEF Ops
  <2>. QED
    BY <2>1, TableIs
<1>. HIDE DEF t
<1>11. \A p \in Ports : EngineInv(p) /\ SoundInv(p) /\ HeaderInv(p)
  BY DEF AhciInv
<1>12. ASSUME NEW p \in Ports, trust'[p] = "sound"
       PROVE  /\ trust[p] = "sound" /\ (p \in drives => p = 0)
              /\ port'[p].clb = List(p) /\ port[p].latched = List(p)
  <2>1. trust[p] = "sound" /\ ~ Os1!ListMoved(p)
    BY <1>9, <1>12
  <2>2. port[p].clb = List(p) /\ port[p].latched = List(p)
    BY <1>11, <2>1 DEF EngineInv
  <2>3. p \in drives => Os1!MbrList(p) = List(p)
    BY <2>1, <2>2 DEF Os1!ListMoved
  <2>4. p \in drives => p = 0
    BY <1>1, <2>3, MbrPlaces
  <2>. QED
    BY <1>8, <2>1, <2>2, <2>3, <2>4
<1>13. ASSUME NEW p \in Ports PROVE EngineInv(p)' /\ SoundInv(p)'
  <2>1. EngineInv(p)'
    BY <1>8, <1>11, <1>12 DEF EngineInv, List
  <2>2. ~ Sent(p) /\ ~ Sent(p)'
    BY <1>2 DEF Sent
  <2>3. SoundInv(p)'
    BY <1>8, <1>11, <1>12, <2>2 DEF SoundInv, Waiting, Sent
  <2>. QED
    BY <2>1, <2>3
<1>14. ASSUME NEW p \in Ports PROVE HeaderInv(p)'
  <2>1. ASSUME trust'[p] = "sound", mem'[List(p)] \in Header
        PROVE  \/ mem'[List(p)].table = TableAt(p)
               \/ p = 0 /\ mem'[List(p)].table = Os1!MbrTable(p)
    <3>1. CASE \E q \in drives : List(p) = Os1!MbrList(q)
      <4>1. PICK q \in drives : List(p) = Os1!MbrList(q)
        BY <3>1
      <4>2. p = 0 /\ q = 0
        BY <4>1, <1>1, MbrPlaces
      <4>3. mem'[List(p)] = HeaderFor(Os1!MbrTable(q), 0)
        BY <4>1, <1>3, Places
      <4>. QED
        BY <4>2, <4>3, Places, HeaderIs DEF Bit
    <3>2. CASE \A q \in drives : List(p) # Os1!MbrList(q)
      <4>1. ASSUME NEW q \in drives PROVE List(p) # Os1!MbrTable(q)
        <5>1. SUFFICES ASSUME List(p) = Os1!MbrTable(q) PROVE FALSE
          OBVIOUS
        <5>2. mem'[List(p)] = t(q) /\ q \in Ports
          BY <1>1, <1>4, <3>2, <5>1, Places DEF t
        <5>. QED
          BY <5>2, <2>1, <1>read
      <4>2. mem'[List(p)] = mem[List(p)]
        BY <1>5, <3>2, <4>1, Places
      <4>. QED
        BY <1>11, <1>12, <2>1, <4>2 DEF HeaderInv
    <3>. QED
      BY <3>1, <3>2
  <2>2. ASSUME p = 0, mem'[Os1!MbrTable(p)] \in Table
        PROVE  mem'[Os1!MbrTable(p)].op # "write"
    <3>1. Os1!MbrTable(p) = 128 /\ \A q \in drives : Os1!MbrList(q) # 128
      BY <1>1, <2>2, MbrPlaces
    <3>2. CASE \E q \in drives : Os1!MbrTable(q) = Os1!MbrTable(p)
      <4>1. PICK q \in drives : Os1!MbrTable(q) = Os1!MbrTable(p)
        BY <3>2
      <4>2. mem'[Os1!MbrTable(p)] = t(q)
        BY <1>4, <2>2, <3>1, <4>1, Places DEF t
      <4>3. q \in Ports
        BY <1>1
      <4>. QED
        BY <4>2, <4>3, <1>read
    <3>3. CASE \A q \in drives : Os1!MbrTable(q) # Os1!MbrTable(p)
      <4>1. mem'[Os1!MbrTable(p)] = mem[Os1!MbrTable(p)]
        BY <1>5, <2>2, <3>1, <3>3, MbrPlaces
      <4>. QED
        BY <4>1, <1>11, <2>2 DEF HeaderInv
    <3>. QED
      BY <3>2, <3>3
  <2>3. List(p)' = List(p) /\ TableAt(p)' = TableAt(p)
    BY DEF List, TableAt
  <2>. QED
    BY <2>1, <2>2, <2>3 DEF HeaderInv
<1>15. BuiltInv' /\ WorkInv' /\ MovedInv'
  BY <1>2, NoWork
<1>. QED
  BY <1>10, <1>13, <1>14, <1>15 DEF AhciInv

(* A call begins: the port is not touched, its memory is prepared.         *)
LEMMA CallBegins1 ==
  ASSUME AhciInv, kernel = "os1", kernel' = kernel, NEW p \in Ports, Os1!Ready,
         port' = port, trust' = trust, call'.p = p, call'.pc = "build",
         \A a \in Areas \ {List(p), TableAt(p)} : mem'[a] = mem[a],
         mem'[List(p)] \notin Table \/ mem'[List(p)] = mem[List(p)],
         mem'[List(p)].table = TableAt(p) \/ mem'[List(p)] = mem[List(p)]
  PROVE  \A q \in Ports : EngineInv(q)' /\ SoundInv(q)' /\ HeaderInv(q)'
<1>1. \A q \in Ports : ~ Sent(q) /\ ~ Sent(q)'
  BY DEF Sent, Os1!Ready
<1>2. \A q \in Ports \ {p} : EngineInv(q)' /\ SoundInv(q)' /\ HeaderInv(q)'
  BY <1>1, Others
<1>3. EngineInv(p)' /\ SoundInv(p)'
  BY <1>1, PortKept
<1>4. HeaderInv(p)'
  BY OwnHeader1
<1>. QED
  BY <1>2, <1>3, <1>4

LEMMA ReadSectorsStep ==
  ASSUME AhciInv, kernel = "os1", kernel' = kernel,
         NEW p \in Ports, NEW l \in Lbas, NEW b \in CallerBuffers,
         Os1!ReadSectors(p, l, b)
  PROVE  AhciInv'
<1>. USE DEF Os1!ReadSectors
<1>1. TypeOK /\ call \in Call1 /\ b \in Buffers
  BY Types1, AhciLayout DEF AhciInv
<1>. DEFINE h == HeaderFor(Os1!CmdTable(p), 0)
<1>2. /\ TableAt(p) = Os1!CmdTable(p) /\ TableAt(p) \in Areas
      /\ List(p) \in Areas /\ List(p) # TableAt(p) /\ List(p) = Os1!CmdList(p)
  BY Places DEF TableAt
<1>3. mem' = [mem EXCEPT ![List(p)] = h, ![TableAt(p)] = Zeroed]
  BY <1>2, Os1Names
<1>4. h \in Block /\ h \notin Table /\ h.table = TableAt(p)
  BY <1>2, HeaderIs, Kinds DEF Bit
<1>5. call' \in Call1 /\ call'.pc = "build" /\ call'.p = p /\ call'.op = "read"
  BY <1>1 DEF Call1, Os1!Called, Ops, Bit
<1>. HIDE DEF h
<1>6. mem'[List(p)] = h /\ \A a \in Areas \ {List(p), TableAt(p)} : mem'[a] = mem[a]
  BY <1>1, <1>2, <1>3, Types1
<1>7. TypeOK'
  <2>1. mem' \in [Areas -> Block]
    BY <1>1, <1>2, <1>3, <1>4, ZeroedIs, Types1
  <2>. QED
    BY <1>1, <1>5, <2>1, Types1, TypeFrom1
<1>8. \A q \in Ports : EngineInv(q)' /\ SoundInv(q)' /\ HeaderInv(q)'
  BY <1>4, <1>5, <1>6, CallBegins1
<1>9. BuiltInv'
  <2>1. Header1(p, "read")' = h /\ List(p)' = List(p)
    BY <1>2 DEF h, Header1, Direction, TableAt, List
  <2>. QED
    BY <1>5, <1>6, <2>1 DEF BuiltInv
<1>10. WorkInv' /\ MovedInv'
  BY <1>5 DEF WorkInv, MovedInv
<1>. QED
  BY <1>7, <1>8, <1>9, <1>10 DEF AhciInv

LEMMA WriteSectorsStep ==
  ASSUME AhciInv, kernel = "os1", kernel' = kernel, NEW p \in Ports,
         NEW l \in Lbas, NEW b \in CallerBuffers, NEW t \in Texts,
         Os1!WriteSectors(p, l, b, t)
  PROVE  AhciInv'
<1>. USE DEF Os1!WriteSectors
<1>1. TypeOK /\ call \in Call1 /\ b \in Buffers
  BY Types1, AhciLayout DEF AhciInv
<1>. DEFINE h == HeaderFor(Os1!CmdTable(p), 1)
<1>2. /\ TableAt(p) = Os1!CmdTable(p) /\ TableAt(p) \in Areas
      /\ List(p) \in Areas /\ List(p) # TableAt(p) /\ List(p) = Os1!CmdList(p)
  BY Places DEF TableAt
<1>3. mem' = [mem EXCEPT ![List(p)] = h, ![TableAt(p)] = Zeroed]
  BY <1>2, Os1Names
<1>4. h \in Block /\ h \notin Table /\ h.table = TableAt(p)
  BY <1>2, HeaderIs, Kinds DEF Bit
<1>5. call' \in Call1 /\ call'.pc = "build" /\ call'.p = p /\ call'.op = "write"
  BY <1>1 DEF Call1, Os1!Called, Ops, Bit
<1>. HIDE DEF h
<1>6. mem'[List(p)] = h /\ \A a \in Areas \ {List(p), TableAt(p)} : mem'[a] = mem[a]
  BY <1>1, <1>2, <1>3, Types1
<1>7. TypeOK'
  <2>1. mem' \in [Areas -> Block]
    BY <1>1, <1>2, <1>3, <1>4, ZeroedIs, Types1
  <2>2. ram' \in [Buffers -> Contents]
    BY <1>1, Types1 DEF Contents
  <2>. QED
    BY <1>1, <1>5, <2>1, <2>2, Types1, TypeFrom1
<1>8. \A q \in Ports : EngineInv(q)' /\ SoundInv(q)' /\ HeaderInv(q)'
  BY <1>4, <1>5, <1>6, CallBegins1
<1>9. BuiltInv'
  <2>1. Header1(p, "write")' = h /\ List(p)' = List(p)
    BY <1>2 DEF h, Header1, Direction, TableAt, List
  <2>. QED
    BY <1>5, <1>6, <2>1 DEF BuiltInv
<1>10. WorkInv' /\ MovedInv'
  BY <1>5 DEF WorkInv, MovedInv
<1>. QED
  BY <1>7, <1>8, <1>9, <1>10 DEF AhciInv

LEMMA RawIdentifyStep ==
  ASSUME AhciInv, kernel = "os1", kernel' = kernel, NEW p \in Ports,
         Os1!RawIdentify(p)
  PROVE  AhciInv'
<1>. USE DEF Os1!RawIdentify
<1>1. TypeOK /\ call \in Call1 /\ Os1!DataBuffer(p) \in Buffers
  BY Types1, Places DEF AhciInv
<1>2. /\ TableAt(p) = Os1!CmdTable(p) /\ TableAt(p) \in Areas
      /\ List(p) \in Areas /\ List(p) # TableAt(p)
  BY Places DEF TableAt
<1>3. mem' = [mem EXCEPT ![TableAt(p)] = Zeroed]
  BY <1>2, Os1Names
<1>4. call' \in Call1 /\ call'.pc = "build" /\ call'.p = p /\ call'.op = "identify"
  BY <1>1, AhciConstants DEF Call1, Os1!Called, Ops, Bit
<1>5. \A a \in Areas \ {TableAt(p)} : mem'[a] = mem[a]
  BY <1>1, <1>2, <1>3, Types1
<1>6. TypeOK'
  <2>1. mem' \in [Areas -> Block]
    BY <1>1, <1>2, <1>3, ZeroedIs, Types1
  <2>. QED
    BY <1>1, <1>4, <2>1, Types1, TypeFrom1
<1>7. \A q \in Ports : EngineInv(q)' /\ SoundInv(q)' /\ HeaderInv(q)'
  BY <1>2, <1>4, <1>5, CallBegins1
<1>8. BuiltInv' /\ WorkInv' /\ MovedInv'
  BY <1>4 DEF BuiltInv, WorkInv, MovedInv, SectorCall
<1>. QED
  BY <1>6, <1>7, <1>8 DEF AhciInv

(* PxCI is set, on a running engine for certain.                           *)
LEMMA IssuedIs ==
  ASSUME NEW r \in Port, NEW s \in Issued(r)
  PROVE  /\ s \in Port /\ s.clb = r.clb /\ s.latched = r.latched
         /\ s.st = r.st /\ s.hba = r.hba /\ s.cmd = r.cmd /\ s.tfes = r.tfes
         /\ r.st = 1 => s.ci = 1
<1>1. PICK c \in Bit : s = [r EXCEPT !.ci = c] /\ (r.st = 1 => c = 1)
  BY DEF Issued, Bit
<1>. QED
  BY <1>1, CiIs

LEMMA SubmitStep ==
  ASSUME AhciInv, kernel = "os1", kernel' = kernel, Os1!Submit
  PROVE  AhciInv'
<1>. USE DEF Os1!Submit
<1>1. TypeOK /\ call \in Call1 /\ call.p \in Ports
  BY Types1 DEF AhciInv
<1>. PICK p \in Ports : p = call.p
  BY <1>1
<1>. DEFINE t == TableFor(call.op, call.lba, call.buf)
<1>2. /\ TableAt(p) = Os1!CmdTable(p) /\ TableAt(p) \in Areas
      /\ List(p) \in Areas /\ List(p) # TableAt(p)
  BY Places DEF TableAt
<1>3. mem' = [mem EXCEPT ![TableAt(p)] = t]
  BY <1>2, Os1Names
<1>4. t \in Block
  BY <1>1, TableIs DEF Call1
<1>. HIDE DEF t
<1>5. mem'[TableAt(p)] = t /\ \A a \in Areas \ {TableAt(p)} : mem'[a] = mem[a]
  BY <1>1, <1>2, <1>3, Types1
<1>6. /\ call' \in Call1 /\ call'.pc = "wait" /\ call'.p = p
      /\ call'.op = call.op /\ call'.lba = call.lba /\ call'.buf = call.buf
  BY <1>1 DEF Call1
<1>7. PICK r \in Issued(port[p]) : port' = [port EXCEPT ![p] = r]
  BY Os1Names
<1>8. port[p] \in Port /\ port'[p] = r
  BY <1>1, <1>7, Types1
<1>9. /\ r \in Port /\ r.clb = port[p].clb /\ r.latched = port[p].latched
      /\ r.st = port[p].st /\ r.hba = port[p].hba
      /\ port[p].st = 1 => r.ci = 1
  BY <1>7, <1>8, IssuedIs
<1>10. EngineInv(p) /\ SoundInv(p) /\ ~ Sent(p)
  BY DEF AhciInv, Sent
<1>11. trust[p] = "sound" => r.hba \in {"idle", "halted"} /\ r.ci = 1
  BY <1>9, <1>10 DEF EngineInv, SoundInv
<1>12. TypeOK'
  <2>1. mem' \in [Areas -> Block]
    BY <1>1, <1>2, <1>3, <1>4, Types1
  <2>2. port' \in [Ports -> Port]
    BY <1>1, <1>7, <1>9, Types1
  <2>. QED
    BY <1>1, <1>6, <2>1, <2>2, Types1, TypeFrom1
<1>13. \A q \in Ports \ {p} : EngineInv(q)' /\ SoundInv(q)' /\ HeaderInv(q)'
  <2>1. \A q \in Ports \ {p} : port'[q] = port[q] /\ trust'[q] = trust[q]
    BY <1>1, Types1, <1>7
  <2>2. \A q \in Ports \ {p} : ~ Sent(q) /\ ~ Sent(q)'
    BY <1>6 DEF Sent
  <2>. QED
    BY <2>1, <2>2, <1>2, <1>5, Others
<1>14. HeaderInv(p)'
  BY <1>2, <1>5, OwnHeader1
<1>15. Sent(p)' /\ List(p)' = List(p) /\ TableAt(p)' = TableAt(p)
  BY <1>6 DEF Sent, List, TableAt
<1>16. EngineInv(p)'
  BY <1>8, <1>9, <1>10, <1>15 DEF EngineInv
<1>17. SoundInv(p)'
  BY <1>8, <1>11, <1>15 DEF SoundInv
<1>18. BuiltInv'
  <2>1. Header1(p, call.op)' = Header1(p, call.op)
    BY <1>6, <1>15 DEF Header1, Direction
  <2>2. SectorCall => mem[List(p)] = Header1(p, call.op)
    BY DEF AhciInv, BuiltInv
  <2>. QED
    BY <1>2, <1>5, <1>6, <1>15, <2>1, <2>2 DEF BuiltInv, SectorCall, t
<1>19. WorkInv' /\ MovedInv'
  BY <1>6, <1>8, <1>11 DEF WorkInv, MovedInv, Trusted
<1>. QED
  BY <1>12, <1>13, <1>14, <1>16, <1>17, <1>18, <1>19 DEF AhciInv

LEMMA ReturnStep ==
  ASSUME AhciInv, kernel = "os1", kernel' = kernel, Os1!Return
  PROVE  AhciInv'
<1>. USE DEF Os1!Return
<1>1. TypeOK /\ call \in Call1 /\ call.p \in Ports
  BY Types1 DEF AhciInv
<1>2. /\ call' \in Call1 /\ call'.pc = "returned" /\ call'.p = call.p
      /\ call'.op = call.op /\ call'.lba = call.lba /\ call'.buf = call.buf
      /\ call'.ok = 1 => port[call.p].ci = 0
  BY <1>1, Os1Names DEF Call1, Os1!Succeeded, Os1!Done
<1>3. /\ trust' \in [Ports -> {"sound", "late", "unknown"}]
      /\ \A q \in Ports : EngineInv(q)' /\ SoundInv(q)' /\ HeaderInv(q)'
  BY <1>2, AfterPoll1 DEF Sent
<1>4. TypeOK'
  BY <1>1, <1>2, <1>3, Types1, TypeFrom1
<1>5. call'.ok = 1 => trust' = trust
  BY <1>2 DEF Os1!TrustAfter, Os1!Done
<1>6. MovedInv'
  <2>1. MovedInv
    BY DEF AhciInv
  <2>. QED
    BY <1>2, <1>5, <2>1 DEF MovedInv, SectorCall, Trusted, Quiet
<1>7. BuiltInv' /\ WorkInv'
  BY <1>2 DEF BuiltInv, WorkInv
<1>. QED
  BY <1>3, <1>4, <1>6, <1>7 DEF AhciInv

-----------------------------------------------------------------------------
(* What all steps of the 64-bit kernel have in common                      *)

Call2 == [pc : {"ready", "build", "bsy", "wait", "returned"},
          p : Ports, op : Ops, lba : Lbas, buf : Buffers, ok : Bit]

LEMMA Call2Is == Os2!Call = Call2
BY Os2Names DEF Os2!Call, Call2

LEMMA Types2 ==
  ASSUME TypeOK, kernel = "os2"
  PROVE  /\ mem \in [Areas -> Block] /\ ram \in [Buffers -> Contents]
         /\ disk \in [Ports -> [Lbas -> Contents]]
         /\ port \in [Ports -> Port]
         /\ trust \in [Ports -> {"sound", "late", "unknown"}]
         /\ call \in Call2 /\ call.p \in Ports /\ drives \subseteq Ports
<1>1. call \in Call2
  BY Call2Is DEF TypeOK
<1>2. call.p \in Ports
  BY <1>1 DEF Call2
<1>. QED
  BY <1>1, <1>2 DEF TypeOK, HbaType

LEMMA TypeFrom2 ==
  ASSUME kernel = "os2", kernel' = kernel,
         mem' \in [Areas -> Block], ram' \in [Buffers -> Contents],
         disk' \in [Ports -> [Lbas -> Contents]], port' \in [Ports -> Port],
         trust' \in [Ports -> {"sound", "late", "unknown"}],
         call' \in Call2, drives' \subseteq Ports
  PROVE  TypeOK'
BY Call2Is DEF TypeOK, HbaType

LEMMA OwnHeader2 ==
  ASSUME AhciInv, kernel = "os2", kernel' = kernel, NEW p \in Ports,
         \/ mem'[List(p)] \in Header /\ mem'[List(p)].table = TableAt(p)
         \/ mem'[List(p)] = mem[List(p)] /\ port'[p].st = port[p].st
  PROVE  HeaderInv(p)'
<1>1. HeaderInv(p)
  BY DEF AhciInv
<1>2. TableAt(p)' = TableAt(p) /\ List(p)' = List(p)
  BY DEF TableAt, List
<1>. QED
  BY <1>1, <1>2 DEF HeaderInv

(* A driver that has its answer, or gives up, touches nothing but trust.   *)
LEMMA AllKept ==
  ASSUME AhciInv, kernel = "os2", kernel' = kernel, port' = port, mem' = mem,
         trust' = trust, call'.pc = "returned",
         Sent(call.p) =>
           port[call.p].ci = 0 \/ port[call.p].hba = "halted"
  PROVE  \A q \in Ports : EngineInv(q)' /\ SoundInv(q)' /\ HeaderInv(q)'
<1>. SUFFICES ASSUME NEW q \in Ports
              PROVE  EngineInv(q)' /\ SoundInv(q)' /\ HeaderInv(q)'
  OBVIOUS
<1>1. EngineInv(q) /\ SoundInv(q) /\ HeaderInv(q)
  BY DEF AhciInv
<1>2. List(q)' = List(q) /\ TableAt(q)' = TableAt(q)
  BY DEF List, TableAt
<1>3. EngineInv(q)' /\ HeaderInv(q)'
  BY <1>1, <1>2 DEF EngineInv, HeaderInv
<1>4. trust[q] = "sound" =>
        (port[q].hba = "idle" /\ port[q].ci = 0) \/ port[q].hba = "halted"
  BY <1>1 DEF SoundInv, EngineInv, Sent
<1>5. SoundInv(q)'
  BY <1>4 DEF SoundInv
<1>. QED
  BY <1>3, <1>5

-----------------------------------------------------------------------------
(* The steps of the 64-bit kernel                                          *)

LEMMA InitPortStep ==
  ASSUME AhciInv, kernel = "os2", kernel' = kernel, drives' = drives,
         NEW p \in Ports, Os2!InitPort(p)
  PROVE  AhciInv'
<1>. USE DEF Os2!InitPort
<1>1. TypeOK /\ call \in Call2
  BY Types2 DEF AhciInv
<1>. DEFINE h == HeaderFor(Os2!CmdTable(p), 0)
            r == Started(port[p], List(p))
<1>2. /\ TableAt(p) = Os2!CmdTable(p) /\ TableAt(p) \in Areas
      /\ List(p) \in Areas /\ List(p) # TableAt(p) /\ List(p) = Os2!CmdList(p)
  BY Places DEF TableAt
<1>3. mem' = [mem EXCEPT ![List(p)] = h, ![TableAt(p)] = Zeroed]
  BY <1>2, Os2Names
<1>4. h \in Header /\ h \in Block /\ h \notin Table /\ h.table = TableAt(p)
  BY <1>2, HeaderIs DEF Bit
<1>5. port' = [port EXCEPT ![p] = r]
  BY <1>2, Os2Names
<1>6. /\ r \in Port /\ r.clb = List(p) /\ r.latched = List(p) /\ r.st = 1
      /\ r.ci = 0 /\ r.hba = "idle" /\ r.tfes = 0
  <2>1. port[p] \in Port
    BY <1>1, Types2
  <2>2. r.tfes = 0
    <3>1. Stopped(port[p]) \in Port
      BY <2>1, StoppedIs
    <3>. QED
      BY <3>1 DEF Started, Port
  <2>. QED
    BY <1>2, <2>1, <2>2, StartedIs
<1>. HIDE DEF h, r
<1>7. call' \in Call2 /\ call'.pc = "ready" /\ call'.p = p
  BY <1>1 DEF Call2
<1>8. mem'[List(p)] = h /\ \A a \in Areas \ {List(p), TableAt(p)} : mem'[a] = mem[a]
  BY <1>1, <1>2, <1>3, Types2
<1>9. port'[p] = r /\ trust'[p] = "sound"
  BY <1>1, <1>5, Types2
<1>10. TypeOK'
  <2>1. mem' \in [Areas -> Block]
    BY <1>1, <1>2, <1>3, <1>4, ZeroedIs, Types2
  <2>2. port' \in [Ports -> Port]
    BY <1>1, <1>5, <1>6, Types2
  <2>3. trust' \in [Ports -> {"sound", "late", "unknown"}]
    BY <1>1, Types2
  <2>. QED
    BY <1>1, <1>7, <2>1, <2>2, <2>3, Types2, TypeFrom2
<1>11. \A q \in Ports \ {p} : EngineInv(q)' /\ SoundInv(q)' /\ HeaderInv(q)'
  <2>1. \A q \in Ports \ {p} : port'[q] = port[q] /\ trust'[q] = trust[q]
    BY <1>1, Types2, <1>5
  <2>2. \A q \in Ports \ {p} : ~ Sent(q) /\ ~ Sent(q)'
    BY <1>7 DEF Sent, Os2!Ready
  <2>. QED
    BY <2>1, <2>2, <1>4, <1>8, Others
<1>12. HeaderInv(p)'
  BY <1>4, <1>8, OwnHeader2
<1>13. List(p)' = List(p)
  BY DEF List
<1>14. EngineInv(p)' /\ SoundInv(p)'
  BY <1>6, <1>9, <1>13 DEF EngineInv, SoundInv
<1>15. BuiltInv' /\ WorkInv' /\ MovedInv'
  BY <1>7, NoWork
<1>. QED
  BY <1>10, <1>11, <1>12, <1>14, <1>15 DEF AhciInv

(* A call begins: all of its variants.                                     *)
LEMMA CalledStep ==
  ASSUME AhciInv, kernel = "os2", kernel' = kernel, drives' = drives,
         NEW p \in Ports, NEW op \in Ops, NEW l \in Lbas, NEW b \in Buffers,
         Os2!Called(p, op, l, b), ram' \in [Buffers -> Contents],
         disk' = disk, trust' = trust
  PROVE  AhciInv'
<1>. USE DEF Os2!Called
<1>1. TypeOK /\ call \in Call2
  BY Types2 DEF AhciInv
<1>. DEFINE w == IF op = "write" THEN 1 ELSE 0
            h == [mem[List(p)] EXCEPT !.w = w]
<1>2. /\ TableAt(p) = Os2!CmdTable(p) /\ TableAt(p) \in Areas
      /\ List(p) \in Areas /\ List(p) # TableAt(p) /\ List(p) = Os2!CmdList(p)
  BY Places DEF TableAt
<1>3. mem' = [mem EXCEPT ![List(p)] = h, ![TableAt(p)] = Zeroed]
  BY <1>2, Os2Names
<1>4. mem[List(p)] \in Header /\ mem[List(p)].table = TableAt(p)
  BY DEF AhciInv, HeaderInv
<1>5. h \in Header /\ h = Header1(p, op)
  <2>1. w \in Bit
    BY DEF Bit
  <2>. HIDE DEF w
  <2>2. h \in Header /\ h = [kind |-> "header", w |-> w, table |-> TableAt(p)]
    BY <1>4, <2>1 DEF Header
  <2>. QED
    BY <2>2 DEF Header1, HeaderFor, Direction, w
<1>6. h \in Block /\ h \notin Table /\ h.table = TableAt(p)
  <2>1. h.table = TableAt(p)
    BY <1>5 DEF Header1, HeaderFor
  <2>2. h \in Block
    BY <1>5 DEF Block
  <2>. QED
    BY <1>5, <2>1, <2>2, Kinds
<1>. HIDE DEF h, w
<1>7. call' \in Call2 /\ call'.pc = "build" /\ call'.p = p /\ call'.op = op
  BY <1>1 DEF Call2, Bit
<1>8. mem'[List(p)] = h /\ \A a \in Areas \ {List(p), TableAt(p)} : mem'[a] = mem[a]
  BY <1>1, <1>2, <1>3, Types2
<1>9. /\ port'[p] \in Port /\ port'[p].clb = port[p].clb
      /\ port'[p].latched = port[p].latched /\ port'[p].st = 1 /\ port[p].st = 1
      /\ port'[p].ci = port[p].ci /\ port'[p].hba = port[p].hba
      /\ port'[p].cmd = port[p].cmd /\ port'[p].tfes = 0
  BY <1>1, Types2 DEF Port, Bit
<1>10. TypeOK'
  <2>1. mem' \in [Areas -> Block]
    BY <1>1, <1>2, <1>3, <1>6, ZeroedIs, Types2
  <2>2. port' \in [Ports -> Port]
    BY <1>1, <1>9, Types2
  <2>. QED
    BY <1>1, <1>7, <2>1, <2>2, Types2, TypeFrom2
<1>11. \A q \in Ports : ~ Sent(q) /\ ~ Sent(q)'
  BY <1>7 DEF Sent, Os2!Ready
<1>12. \A q \in Ports \ {p} : EngineInv(q)' /\ SoundInv(q)' /\ HeaderInv(q)'
  <2>1. \A q \in Ports \ {p} : port'[q] = port[q] /\ trust'[q] = trust[q]
    BY <1>1, Types2
  <2>. QED
    BY <2>1, <1>6, <1>8, <1>11, Others
<1>13. HeaderInv(p)'
  BY <1>5, <1>6, <1>8, OwnHeader2
<1>14. List(p)' = List(p)
  BY DEF List
<1>15. EngineInv(p)' /\ SoundInv(p)'
  <2>1. EngineInv(p) /\ SoundInv(p)
    BY DEF AhciInv
  <2>2. EngineInv(p)'
    BY <1>9, <1>14, <2>1 DEF EngineInv
  <2>3. SoundInv(p)'
    BY <1>9, <1>11, <2>1 DEF SoundInv
  <2>. QED
    BY <2>2, <2>3
<1>16. BuiltInv'
  <2>1. Header1(p, op)' = Header1(p, op)
    BY DEF Header1, Direction, TableAt
  <2>. QED
    BY <1>5, <1>7, <1>8, <1>9, <1>14, <2>1 DEF BuiltInv
<1>17. WorkInv' /\ MovedInv'
  BY <1>7 DEF WorkInv, MovedInv
<1>. QED
  BY <1>10, <1>12, <1>13, <1>15, <1>16, <1>17 DEF AhciInv

LEMMA FillTableStep ==
  ASSUME AhciInv, kernel = "os2", kernel' = kernel, drives' = drives,
         Os2!FillTable
  PROVE  AhciInv'
<1>. USE DEF Os2!FillTable
<1>1. TypeOK /\ call \in Call2 /\ call.p \in Ports
  BY Types2 DEF AhciInv
<1>. PICK p \in Ports : p = call.p
  BY <1>1
<1>. DEFINE t == TableFor(call.op, call.lba, call.buf)
<1>2. /\ TableAt(p) = Os2!CmdTable(p) /\ TableAt(p) \in Areas
      /\ List(p) \in Areas /\ List(p) # TableAt(p)
  BY Places DEF TableAt
<1>3. mem' = [mem EXCEPT ![TableAt(p)] = t]
  BY <1>2, Os2Names
<1>4. t \in Block
  BY <1>1, TableIs DEF Call2
<1>. HIDE DEF t
<1>5. mem'[TableAt(p)] = t /\ \A a \in Areas \ {TableAt(p)} : mem'[a] = mem[a]
  BY <1>1, <1>2, <1>3, Types2
<1>6. /\ call' \in Call2 /\ call'.pc = "bsy" /\ call'.p = p
      /\ call'.op = call.op /\ call'.lba = call.lba /\ call'.buf = call.buf
  BY <1>1 DEF Call2
<1>7. TypeOK'
  <2>1. mem' \in [Areas -> Block]
    BY <1>1, <1>2, <1>3, <1>4, Types2
  <2>. QED
    BY <1>1, <1>6, <2>1, Types2, TypeFrom2
<1>8. \A q \in Ports : ~ Sent(q) /\ ~ Sent(q)'
  BY <1>6 DEF Sent
<1>9. \A q \in Ports \ {p} : EngineInv(q)' /\ SoundInv(q)' /\ HeaderInv(q)'
  BY <1>2, <1>5, <1>8, Others
<1>10. EngineInv(p)' /\ SoundInv(p)'
  BY <1>8, PortKept
<1>11. HeaderInv(p)'
  BY <1>2, <1>5, OwnHeader2
<1>12. BuiltInv'
  <2>1. List(p)' = List(p) /\ TableAt(p)' = TableAt(p)
    BY DEF List, TableAt
  <2>2. Header1(p, call.op)' = Header1(p, call.op)
    BY <1>6, <2>1 DEF Header1, Direction
  <2>3. /\ SectorCall => mem[List(p)] = Header1(p, call.op)
        /\ port[p].st = 1
    BY DEF AhciInv, BuiltInv
  <2>. QED
    BY <1>2, <1>5, <1>6, <2>1, <2>2, <2>3 DEF BuiltInv, SectorCall, t
<1>13. WorkInv' /\ MovedInv'
  BY <1>6 DEF WorkInv, MovedInv
<1>. QED
  BY <1>7, <1>9, <1>10, <1>11, <1>12, <1>13 DEF AhciInv

LEMMA IssueStep ==
  ASSUME AhciInv, kernel = "os2", kernel' = kernel, drives' = drives, Os2!Issue
  PROVE  AhciInv'
<1>. USE DEF Os2!Issue
<1>1. TypeOK /\ call \in Call2 /\ call.p \in Ports
  BY Types2 DEF AhciInv
<1>. PICK p \in Ports : p = call.p
  BY <1>1
<1>2. /\ call' \in Call2 /\ call'.pc = "wait" /\ call'.p = p
      /\ call'.op = call.op /\ call'.lba = call.lba /\ call'.buf = call.buf
  BY <1>1 DEF Call2
<1>3. PICK r \in Issued(port[p]) : port' = [port EXCEPT ![p] = r]
  BY Os2Names
<1>4. port[p] \in Port /\ port'[p] = r
  BY <1>1, <1>3, Types2
<1>5. EngineInv(p) /\ SoundInv(p) /\ ~ Sent(p) /\ port[p].st = 1
  BY DEF AhciInv, Sent, BuiltInv
<1>6. /\ r \in Port /\ r.clb = port[p].clb /\ r.latched = port[p].latched
      /\ r.st = 1 /\ r.hba = port[p].hba /\ r.ci = 1 /\ r.tfes = port[p].tfes
  BY <1>3, <1>4, <1>5, IssuedIs
<1>7. SectorCall => r.hba \notin {"busy", "lost"}
  BY <1>6, Os2Names DEF SectorCall, Os2!NotBusy, Busy
<1>8. TypeOK'
  <2>1. port' \in [Ports -> Port]
    BY <1>1, <1>3, <1>6, Types2
  <2>. QED
    BY <1>1, <1>2, <2>1, Types2, TypeFrom2
<1>9. \A q \in Ports \ {p} : EngineInv(q)' /\ SoundInv(q)' /\ HeaderInv(q)'
  <2>1. \A q \in Ports \ {p} : port'[q] = port[q] /\ trust'[q] = trust[q]
    BY <1>1, Types2, <1>3
  <2>2. \A q \in Ports \ {p} : ~ Sent(q) /\ ~ Sent(q)'
    BY <1>2 DEF Sent
  <2>. QED
    BY <2>1, <2>2, Others
<1>10. HeaderInv(p)'
  BY <1>4, <1>5, <1>6, OwnHeader2
<1>11. Sent(p)' /\ List(p)' = List(p) /\ TableAt(p)' = TableAt(p)
  BY <1>2 DEF Sent, List, TableAt
<1>12. EngineInv(p)'
  BY <1>4, <1>5, <1>6, <1>11 DEF EngineInv
<1>13. SoundInv(p)'
  BY <1>4, <1>5, <1>6, <1>11 DEF SoundInv
<1>14. BuiltInv'
  <2>1. Header1(p, call.op)' = Header1(p, call.op)
    BY <1>2, <1>11 DEF Header1, Direction
  <2>2. BuiltInv
    BY DEF AhciInv
  <2>3. TableFor(call.op, call.lba, call.buf)' = TableFor(call.op, call.lba, call.buf)
    BY <1>2 DEF TableFor
  <2>. QED
    BY <1>2, <1>4, <1>6, <1>11, <2>1, <2>2, <2>3 DEF BuiltInv, SectorCall
<1>15. WorkInv' /\ MovedInv'
  BY <1>2, <1>4, <1>6, <1>7 DEF WorkInv, MovedInv, SectorCall
<1>. QED
  BY <1>8, <1>9, <1>10, <1>12, <1>13, <1>14, <1>15 DEF AhciInv

LEMMA AnswerIs ==
  ASSUME call \in Call2, NEW o \in Bit, Os2!Answer(o)
  PROVE  /\ call' \in Call2 /\ call'.pc = "returned" /\ call'.ok = o
         /\ call'.p = call.p /\ call'.op = call.op /\ call'.lba = call.lba
         /\ call'.buf = call.buf
BY DEF Os2!Answer, Call2

(* StaysBusy and ErrorSeen: the answer is false, and the port is at rest.  *)
LEMMA FailedStep ==
  ASSUME AhciInv, kernel = "os2", kernel' = kernel, drives' = drives,
         Os2!StaysBusy \/ Os2!ErrorSeen
  PROVE  AhciInv'
<1>1. TypeOK /\ call \in Call2 /\ call.p \in Ports
  BY Types2 DEF AhciInv
<1>2. /\ Os2!Answer(0) /\ mem' = mem /\ ram' = ram /\ disk' = disk
      /\ port' = port /\ trust' = trust
  BY DEF Os2!StaysBusy, Os2!ErrorSeen
<1>3. call' \in Call2 /\ call'.pc = "returned" /\ call'.ok = 0
  BY <1>1, <1>2, AnswerIs DEF Bit
<1>4. Sent(call.p) => port[call.p].hba = "halted"
  <2>1. EngineInv(call.p)
    BY <1>1 DEF AhciInv
  <2>. QED
    BY <2>1 DEF Os2!StaysBusy, Os2!ErrorSeen, Sent, EngineInv
<1>5. \A q \in Ports : EngineInv(q)' /\ SoundInv(q)' /\ HeaderInv(q)'
  BY <1>2, <1>3, <1>4, AllKept
<1>6. TypeOK'
  BY <1>1, <1>2, <1>3, Types2, TypeFrom2
<1>7. BuiltInv' /\ WorkInv' /\ MovedInv'
  BY <1>3 DEF BuiltInv, WorkInv, MovedInv
<1>. QED
  BY <1>5, <1>6, <1>7 DEF AhciInv

LEMMA CompletedStep ==
  ASSUME AhciInv, kernel = "os2", kernel' = kernel, drives' = drives,
         Os2!Completed
  PROVE  AhciInv'
<1>. USE DEF Os2!Completed
<1>1. TypeOK /\ call \in Call2 /\ call.p \in Ports
  BY Types2 DEF AhciInv
<1>2. /\ call' \in Call2 /\ call'.pc = "returned" /\ call'.p = call.p
      /\ call'.op = call.op /\ call'.lba = call.lba /\ call'.buf = call.buf
  BY <1>1, AnswerIs DEF Bit
<1>3. \A q \in Ports : EngineInv(q)' /\ SoundInv(q)' /\ HeaderInv(q)'
  BY <1>2, AllKept
<1>4. TypeOK'
  BY <1>1, <1>2, Types2, TypeFrom2
<1>5. MovedInv'
  <2>1. MovedInv
    BY DEF AhciInv
  <2>. QED
    BY <1>2, <2>1 DEF MovedInv, SectorCall, Trusted, Quiet
<1>6. BuiltInv' /\ WorkInv'
  BY <1>2 DEF BuiltInv, WorkInv
<1>. QED
  BY <1>3, <1>4, <1>5, <1>6 DEF AhciInv

LEMMA GiveUpStep ==
  ASSUME AhciInv, kernel = "os2", kernel' = kernel, drives' = drives, Os2!GiveUp
  PROVE  AhciInv'
<1>. USE DEF Os2!GiveUp
<1>1. TypeOK /\ call \in Call2 /\ call.p \in Ports
  BY Types2 DEF AhciInv
<1>. PICK p \in Ports : p = call.p
  BY <1>1
<1>2. call' \in Call2 /\ call'.pc = "returned" /\ call'.ok = 0
  BY <1>1, AnswerIs DEF Bit
<1>3. /\ trust' \in [Ports -> {"sound", "late", "unknown"}]
      /\ \A q \in Ports \ {p} : trust'[q] = trust[q]
      /\ trust'[p] = IF trust[p] = "sound" THEN "late" ELSE trust[p]
  BY <1>1, Types2
<1>4. TypeOK'
  BY <1>1, <1>2, <1>3, Types2, TypeFrom2
<1>5. \A q \in Ports \ {p} : ~ Sent(q) /\ ~ Sent(q)'
  BY <1>2 DEF Sent
<1>6. \A q \in Ports \ {p} : EngineInv(q)' /\ SoundInv(q)' /\ HeaderInv(q)'
  BY <1>3, <1>5, Others
<1>7. HeaderInv(p)'
  BY OwnHeader2
<1>8. EngineInv(p)' /\ SoundInv(p)'
  <2>1. EngineInv(p)
    BY DEF AhciInv
  <2>2. List(p)' = List(p)
    BY DEF List
  <2>. QED
    BY <1>3, <2>1, <2>2 DEF EngineInv, SoundInv
<1>9. BuiltInv' /\ WorkInv' /\ MovedInv'
  BY <1>2 DEF BuiltInv, WorkInv, MovedInv
<1>. QED
  BY <1>4, <1>6, <1>7, <1>8, <1>9 DEF AhciInv

-----------------------------------------------------------------------------
(* The steps of the adapter, under either kernel                           *)

LEMMA HbaTypes ==
  ASSUME TypeOK
  PROVE  /\ mem \in [Areas -> Block] /\ ram \in [Buffers -> Contents]
         /\ disk \in [Ports -> [Lbas -> Contents]]
         /\ port \in [Ports -> Port]
         /\ trust \in [Ports -> {"sound", "late", "unknown"}]
         /\ call.p \in Ports /\ call.op \in Ops /\ call.lba \in Lbas
         /\ call.buf \in Buffers /\ kernel \in {"os1", "os2"}
<1>1. kernel \in {"os1", "os2"}
  BY DEF TypeOK
<1>2. kernel = "os1" => call \in Call1
  BY Types1
<1>3. kernel = "os2" => call \in Call2
  BY Types2
<1>4. call.p \in Ports /\ call.op \in Ops /\ call.lba \in Lbas /\ call.buf \in Buffers
  BY <1>1, <1>2, <1>3 DEF Call1, Call2
<1>. QED
  BY <1>1, <1>4 DEF TypeOK, HbaType

LEMMA HbaTypesNext ==
  ASSUME TypeOK, UNCHANGED <<mem, call, trust, kernel, drives>>,
         ram' \in [Buffers -> Contents],
         disk' \in [Ports -> [Lbas -> Contents]], port' \in [Ports -> Port]
  PROVE  TypeOK'
BY Call1Is, Call2Is DEF TypeOK, HbaType

(* Whatever the adapter does on port p: the other ports, and what is in    *)
(* memory.                                                                 *)
LEMMA HbaKeeps ==
  ASSUME AhciInv, NEW p \in Ports, UNCHANGED <<mem, call, trust, kernel>>,
         \A q \in Ports \ {p} : port'[q] = port[q],
         port'[p].st = port[p].st
  PROVE  /\ \A q \in Ports \ {p} : EngineInv(q)' /\ SoundInv(q)' /\ HeaderInv(q)'
         /\ HeaderInv(p)' /\ BuiltInv' /\ Expected' = Expected
         /\ \A q \in Ports : List(q)' = List(q) /\ TableAt(q)' = TableAt(q)
         /\ \A q \in Ports : (Sent(q)' <=> Sent(q)) /\ (Waiting(q)' <=> Waiting(q))
         /\ \A q \in Ports : Quiet(q)' <=> Quiet(q)
         /\ SectorCall' <=> SectorCall
<1>0. TypeOK /\ call.p \in Ports
  BY HbaTypes DEF AhciInv
<1>1. \A q \in Ports : List(q)' = List(q) /\ TableAt(q)' = TableAt(q)
  BY DEF List, TableAt
<1>2. /\ \A q \in Ports : (Sent(q)' <=> Sent(q)) /\ (Waiting(q)' <=> Waiting(q))
      /\ SectorCall' <=> SectorCall
  BY DEF Sent, Waiting, SectorCall
<1>3. Expected' = Expected
  BY <1>0, <1>1 DEF Expected, Direction
<1>4. \A q \in Ports : port'[q].st = port[q].st
  OBVIOUS
<1>5. \A q \in Ports : Quiet(q)' <=> Quiet(q)
  BY <1>4 DEF Quiet
<1>6. \A q \in Ports : HeaderInv(q)'
  BY <1>1, <1>4 DEF AhciInv, HeaderInv
<1>7. \A q \in Ports : \A o : Header1(q, o)' = Header1(q, o)
  BY <1>1 DEF Header1, Direction
<1>8. BuiltInv'
  <2>1. BuiltInv
    BY DEF AhciInv
  <2>. QED
    BY <1>0, <1>1, <1>2, <1>4, <1>7, <2>1 DEF BuiltInv
<1>9. ASSUME NEW q \in Ports \ {p} PROVE EngineInv(q)' /\ SoundInv(q)'
  <2>1. EngineInv(q) /\ SoundInv(q) /\ port'[q] = port[q]
    BY DEF AhciInv
  <2>2. EngineInv(q)'
    BY <1>1, <2>1 DEF EngineInv
  <2>3. SoundInv(q)'
    BY <1>2, <1>3, <2>1 DEF SoundInv
  <2>. QED
    BY <2>2, <2>3
<1>. QED
  BY <1>1, <1>2, <1>3, <1>5, <1>6, <1>8, <1>9

(* What the engine of a port that works for a call takes up.               *)
LEMMA FetchedIs ==
  ASSUME AhciInv, NEW p \in Ports, port[p].ci = 1, port[p].hba = "idle",
         NEW list \in {port[p].clb, port[p].latched}
  PROVE  /\ trust[p] = "sound" => Sent(p)
         /\ Waiting(p) /\ SectorCall /\ trust[p] \in Trusted =>
              MakesSense(mem[list]) /\ Fetched(p, mem[list]) = Expected
         /\ trust[p] = "sound" /\ ~ (Waiting(p) /\ SectorCall)
              /\ MakesSense(mem[list]) => Fetched(p, mem[list]).op # "write"
<1>1. EngineInv(p) /\ SoundInv(p) /\ HeaderInv(p) /\ BuiltInv /\ TypeOK
  BY DEF AhciInv
<1>2. /\ List(p) \in Areas /\ TableAt(p) \in Areas /\ mem \in [Areas -> Block]
      /\ kernel \in {"os1", "os2"} /\ call.op \in Ops /\ call.lba \in Lbas
      /\ call.buf \in Buffers
  BY <1>1, HbaTypes, Places DEF TableAt
<1>3. trust[p] = "sound" => Sent(p)
  BY <1>1 DEF SoundInv
<1>4. trust[p] = "sound" \/ trust[p] \in Trusted => list = List(p)
  BY <1>1, <1>2 DEF EngineInv, Trusted
<1>5. ASSUME Waiting(p), SectorCall, trust[p] \in Trusted
      PROVE  MakesSense(mem[list]) /\ Fetched(p, mem[list]) = Expected
  <2>1. call.p = p /\ mem[list] = Header1(p, call.op)
    BY <1>1, <1>4, <1>5 DEF BuiltInv, Waiting
  <2>2. mem[TableAt(p)] = TableFor(call.op, call.lba, call.buf)
    BY <1>1, <1>5, <2>1 DEF BuiltInv, Waiting
  <2>3. Direction(call.op) \in Bit
    BY DEF Direction, Bit
  <2>4. /\ mem[list].kind = "header" /\ mem[list].table = TableAt(p)
        /\ mem[list].w = Direction(call.op)
    BY <1>2, <2>1, <2>3, HeaderIs DEF Header1
  <2>5. /\ mem[TableAt(p)].kind = "table" /\ mem[TableAt(p)].op = call.op
        /\ mem[TableAt(p)].lba = call.lba /\ mem[TableAt(p)].buf = call.buf
    BY <1>2, <2>2, TableIs
  <2>. QED
    BY <2>1, <2>4, <2>5 DEF MakesSense, Fetched, Expected
<1>6. ASSUME trust[p] = "sound", ~ (Waiting(p) /\ SectorCall), MakesSense(mem[list])
      PROVE  Fetched(p, mem[list]).op # "write"
  <2>1. list = List(p) /\ Sent(p) /\ call.p = p
    BY <1>3, <1>4, <1>6 DEF Sent
  <2>2. mem[list] \in Header /\ mem[list].table \in Areas
    BY <1>2, <1>6, <2>1, Kinds DEF MakesSense
  <2>3. mem[mem[list].table] \in Table
    BY <1>2, <1>6, <2>2, Kinds DEF MakesSense
  <2>4. SUFFICES mem[mem[list].table].op # "write"
    BY DEF Fetched
  <2>5. CASE call.pc \in {"ident", "sector0"}
    <3>1. mem[list] = Header1(p, "read") /\ mem[TableAt(p)].op # "write"
      BY <1>1, <2>1, <2>5 DEF BuiltInv
    <3>2. mem[list].table = TableAt(p)
      BY <1>2, <3>1, HeaderIs DEF Header1, Direction, Bit
    <3>. QED
      BY <3>1, <3>2
  <2>6. CASE call.pc = "wait" /\ mem[list].table = TableAt(p)
    <3>1. mem[TableAt(p)] = TableFor(call.op, call.lba, call.buf)
      BY <1>1, <2>1, <2>6 DEF BuiltInv
    <3>2. call.op # "write"
      BY <1>6, <2>1, <2>6 DEF Waiting, SectorCall
    <3>. QED
      BY <1>2, <2>6, <3>1, <3>2, TableIs
  <2>7. CASE call.pc = "wait" /\ mem[list].table # TableAt(p)
    <3>1. kernel = "os1"
      BY <1>1, <1>2, <2>1, <2>7 DEF HeaderInv, BuiltInv
    <3>. QED
      BY <1>1, <1>6, <2>1, <2>2, <2>3, <2>7, <3>1 DEF HeaderInv
  <2>. QED
    BY <2>1, <2>5, <2>6, <2>7 DEF Sent
<1>. QED
  BY <1>3, <1>5, <1>6

LEMMA HbaFetchStep ==
  ASSUME AhciInv, NEW p \in Ports, HbaFetch(p), UNCHANGED <<kernel, drives>>
  PROVE  AhciInv'
<1>1. TypeOK /\ EngineInv(p) /\ SoundInv(p) /\ WorkInv /\ MovedInv
  BY DEF AhciInv
<1>2. /\ port[p].st = 1 /\ port[p].ci = 1 /\ port[p].hba = "idle"
      /\ UNCHANGED <<mem, ram, disk, call, trust, kernel>>
  BY DEF HbaFetch
<1>3. PICK list \in {port[p].clb, port[p].latched} :
        \/ /\ MakesSense(mem[list])
           /\ port' = [port EXCEPT ![p].hba = "busy",
                                   ![p].cmd = Fetched(p, mem[list])]
        \/ /\ ~ MakesSense(mem[list])
           /\ port' = [port EXCEPT ![p].hba = "lost"]
  BY Zenon DEF HbaFetch
<1>. DEFINE F == Fetched(p, mem[list])
<1>4. port \in [Ports -> Port] /\ list \in Areas /\ mem[list] \in Block
  BY <1>1, HbaTypes DEF Port
<1>5. MakesSense(mem[list]) => F \in Command
  <2>. SUFFICES ASSUME MakesSense(mem[list]) PROVE F \in Command
    OBVIOUS
  <2>1. mem[list].w \in Bit /\ mem[list].table \in Areas
    BY <1>4, Kinds DEF MakesSense
  <2>2. mem[mem[list].table] \in Block
    BY <1>1, <2>1, HbaTypes
  <2>3. /\ mem[mem[list].table].op \in Ops /\ mem[mem[list].table].lba \in Lbas
        /\ mem[mem[list].table].buf \in Buffers
    BY <2>2, Kinds DEF MakesSense
  <2>. QED
    BY <2>1, <2>3 DEF Fetched, Command
<1>. HIDE DEF F
<1>6. /\ port' \in [Ports -> Port]
      /\ \A q \in Ports \ {p} : port'[q] = port[q]
      /\ port'[p].clb = port[p].clb /\ port'[p].latched = port[p].latched
      /\ port'[p].st = 1 /\ port'[p].ci = 1 /\ port'[p].tfes = port[p].tfes
      /\ \/ MakesSense(mem[list]) /\ port'[p].hba = "busy" /\ port'[p].cmd = F
         \/ ~ MakesSense(mem[list]) /\ port'[p].hba = "lost"
  <2>1. CASE MakesSense(mem[list]) /\ port' = [port EXCEPT ![p].hba = "busy", ![p].cmd = F]
    <3>1. port[p] \in Port
      BY <1>4
    <3>2. /\ [port[p] EXCEPT !.hba = "busy", !.cmd = F] \in Port
          /\ [port[p] EXCEPT !.hba = "busy", !.cmd = F].clb = port[p].clb
          /\ [port[p] EXCEPT !.hba = "busy", !.cmd = F].latched = port[p].latched
          /\ [port[p] EXCEPT !.hba = "busy", !.cmd = F].st = port[p].st
          /\ [port[p] EXCEPT !.hba = "busy", !.cmd = F].ci = port[p].ci
          /\ [port[p] EXCEPT !.hba = "busy", !.cmd = F].tfes = port[p].tfes
          /\ [port[p] EXCEPT !.hba = "busy", !.cmd = F].hba = "busy"
          /\ [port[p] EXCEPT !.hba = "busy", !.cmd = F].cmd = F
      BY <1>5, <2>1, <3>1 DEF Port
    <3>3. port' = [port EXCEPT ![p] = [port[p] EXCEPT !.hba = "busy", !.cmd = F]]
      BY <1>4, <2>1
    <3>. QED
      BY <1>2, <1>4, <2>1, <3>2, <3>3
  <2>2. CASE ~ MakesSense(mem[list]) /\ port' = [port EXCEPT ![p].hba = "lost"]
    BY <1>2, <1>4, <2>2 DEF Port
  <2>. QED
    BY <1>3, <2>1, <2>2 DEF F
<1>7. TypeOK'
  BY <1>1, <1>2, <1>6, HbaTypes, HbaTypesNext DEF HbaFetch
<1>8. /\ \A q \in Ports \ {p} : EngineInv(q)' /\ SoundInv(q)' /\ HeaderInv(q)'
      /\ HeaderInv(p)' /\ BuiltInv' /\ Expected' = Expected
      /\ List(p)' = List(p) /\ (Sent(p)' <=> Sent(p)) /\ (Waiting(p)' <=> Waiting(p))
      /\ \A q \in Ports : Quiet(q)' <=> Quiet(q)
      /\ SectorCall' <=> SectorCall
  BY <1>2, <1>6, HbaKeeps
<1>9. /\ trust[p] = "sound" => Sent(p)
      /\ Waiting(p) /\ SectorCall /\ trust[p] \in Trusted =>
           MakesSense(mem[list]) /\ F = Expected
      /\ trust[p] = "sound" /\ ~ (Waiting(p) /\ SectorCall)
           /\ MakesSense(mem[list]) => F.op # "write"
  BY <1>2, FetchedIs DEF F
<1>10. EngineInv(p)'
  BY <1>1, <1>2, <1>6, <1>8 DEF EngineInv
<1>11. SoundInv(p)'
  <2>1. trust[p] = "sound" => trust[p] \in Trusted
    BY DEF Trusted
  <2>. QED
    BY <1>2, <1>6, <1>8, <1>9, <2>1 DEF SoundInv
<1>12. WorkInv'
  BY <1>1, <1>2, <1>6, <1>8, <1>9, HbaTypes DEF WorkInv, Waiting, Trusted
<1>13. MovedInv'
  BY <1>1, <1>2, <1>6, <1>8, HbaTypes DEF MovedInv, Trusted
<1>. QED
  BY <1>7, <1>8, <1>10, <1>11, <1>12, <1>13 DEF AhciInv

(* What a command can move, and where.                                     *)
LEMMA MovedIs ==
  ASSUME AhciInv, NEW p \in Ports, NEW c \in Command, NEW b \in BuffersOf(c),
         Moved(p, c, b)
  PROVE  /\ b \in Buffers
         /\ ram' \in [Buffers -> Contents]
         /\ disk' \in [Ports -> [Lbas -> Contents]]
         /\ c.op = "read" => ram'[b] = disk[p][c.lba] /\ disk' = disk
         /\ c.op = "write" => disk'[p][c.lba] = ram[b] /\ ram' = ram
         /\ \A q \in Ports, l \in Lbas :
              disk'[q][l] # disk[q][l] => c.op = "write" /\ q = p /\ l = c.lba
<1>1. /\ ram \in [Buffers -> Contents] /\ disk \in [Ports -> [Lbas -> Contents]]
      /\ mem \in [Areas -> Block]
  BY HbaTypes DEF AhciInv
<1>2. c.op \in Ops /\ c.lba \in Lbas /\ c.buf \in Buffers
  BY DEF Command
<1>3. b \in Buffers
  BY <1>2, Kinds DEF BuffersOf, Block
<1>4. "identity" \in Contents /\ ram[b] \in Contents /\ disk[p][c.lba] \in Contents
  BY <1>1, <1>2, <1>3 DEF Contents
<1>5. CASE c.op = "read"
  BY <1>1, <1>2, <1>3, <1>4, <1>5 DEF Moved
<1>6. CASE c.op = "identify"
  BY <1>1, <1>2, <1>3, <1>4, <1>6 DEF Moved
<1>7. CASE c.op = "write"
  BY <1>1, <1>2, <1>3, <1>4, <1>7 DEF Moved
<1>. QED
  BY <1>2, <1>5, <1>6, <1>7 DEF Ops

(* The call's own command has only the call's buffer to work on.           *)
LEMMA ExpectedIs ==
  ASSUME AhciInv, call.pc = "wait"
  PROVE  /\ BuffersOf(Expected) = {call.buf}
         /\ Expected.op = call.op /\ Expected.lba = call.lba
         /\ (Expected.w = 1) <=> (Expected.op = "write")
<1>1. /\ call.op \in Ops /\ call.lba \in Lbas /\ call.buf \in Buffers
      /\ BuiltInv
  BY HbaTypes DEF AhciInv
<1>2. mem[TableAt(call.p)] = TableFor(call.op, call.lba, call.buf)
  BY <1>1 DEF BuiltInv
<1>3. Expected.table = TableAt(call.p) /\ Expected.buf = call.buf
  BY DEF Expected
<1>4. BuffersOf(Expected) = {call.buf}
  BY <1>1, <1>2, <1>3, TableIs DEF BuffersOf
<1>. QED
  BY <1>4 DEF Expected, Direction

LEMMA HbaFinishStep ==
  ASSUME AhciInv, NEW p \in Ports, HbaFinish(p), UNCHANGED <<kernel, drives>>
  PROVE  AhciInv'
<1>1. TypeOK /\ EngineInv(p) /\ SoundInv(p) /\ WorkInv /\ MovedInv /\ call.p \in Ports
  BY HbaTypes DEF AhciInv
<1>. DEFINE c == port[p].cmd
<1>2. /\ port[p].hba = "busy" /\ UNCHANGED <<mem, call, trust, kernel>>
      /\ port[p].st = 1 /\ port[p].ci = 1
  BY <1>1 DEF HbaFinish, EngineInv
<1>3. port \in [Ports -> Port] /\ c \in Command
  BY <1>1, HbaTypes DEF Port
<1>4. /\ port' \in [Ports -> Port]
      /\ \A q \in Ports \ {p} : port'[q] = port[q]
      /\ port'[p].clb = port[p].clb /\ port'[p].latched = port[p].latched
      /\ port'[p].st = 1 /\ port'[p].ci = 0 /\ port'[p].tfes = port[p].tfes
      /\ port'[p].hba = "idle"
  <2>1. port' = [port EXCEPT ![p] = [port[p] EXCEPT !.ci = 0, !.hba = "idle",
                                                    !.cmd = NoCommand]]
    BY <1>3 DEF HbaFinish
  <2>2. /\ [port[p] EXCEPT !.ci = 0, !.hba = "idle", !.cmd = NoCommand] \in Port
        /\ \A r : r = [port[p] EXCEPT !.ci = 0, !.hba = "idle", !.cmd = NoCommand] =>
             /\ r.clb = port[p].clb /\ r.latched = port[p].latched
             /\ r.st = port[p].st /\ r.ci = 0 /\ r.tfes = port[p].tfes
             /\ r.hba = "idle"
    BY <1>3, NoCommandIs DEF Port, Bit
  <2>. QED
    BY <1>2, <1>3, <2>1, <2>2
<1>5. ram' \in [Buffers -> Contents] /\ disk' \in [Ports -> [Lbas -> Contents]]
  <2>1. CASE \E b \in BuffersOf(c) : Moved(p, c, b)
    BY <1>3, <2>1, MovedIs
  <2>2. CASE UNCHANGED <<ram, disk>>
    BY <1>1, <2>2, HbaTypes
  <2>. QED
    BY <2>1, <2>2 DEF HbaFinish
<1>6. TypeOK'
  BY <1>1, <1>2, <1>4, <1>5, HbaTypesNext
<1>7. /\ \A q \in Ports \ {p} : EngineInv(q)' /\ SoundInv(q)' /\ HeaderInv(q)'
      /\ HeaderInv(p)' /\ BuiltInv' /\ Expected' = Expected
      /\ List(p)' = List(p) /\ (Sent(p)' <=> Sent(p)) /\ (Waiting(p)' <=> Waiting(p))
      /\ \A q \in Ports : Quiet(q)' <=> Quiet(q)
      /\ SectorCall' <=> SectorCall
  BY <1>2, <1>4, HbaKeeps
<1>8. EngineInv(p)'
  BY <1>1, <1>2, <1>4, <1>7 DEF EngineInv
<1>9. SoundInv(p)'
  BY <1>4 DEF SoundInv
<1>10. WorkInv'
  BY <1>1, <1>2, <1>4, <1>7 DEF WorkInv, Trusted
<1>11. MovedInv'
  <2>1. CASE call.p = p
    <3>. SUFFICES ASSUME SectorCall, trust[p] \in Trusted, call.pc = "wait"
                  PROVE  ram'[call.buf] = disk'[p][call.lba]
      BY <1>1, <1>2, <1>4, <1>7, <2>1 DEF MovedInv, Trusted
    <3>1. c = Expected
      BY <1>1, <1>2, <2>1 DEF WorkInv
    <3>2. /\ BuffersOf(c) = {call.buf} /\ c.op = call.op /\ c.lba = call.lba
          /\ (c.w = 1) <=> (c.op = "write")
      BY <3>1, ExpectedIs
    <3>3. PICK b \in BuffersOf(c) : Moved(p, c, b)
      BY <3>2 DEF HbaFinish
    <3>4. b = call.buf /\ c.op \in {"read", "write"}
      BY <3>2 DEF SectorCall
    <3>. HIDE DEF c
    <3>. QED
      BY <1>3, <3>2, <3>3, <3>4, MovedIs
  <2>2. CASE call.p # p
    <3>1. ~ Quiet(p)
      BY <1>1, <1>2, <2>2 DEF Quiet, SoundInv, Sent
    <3>. QED
      BY <1>1, <1>2, <1>4, <1>7, <2>2, <3>1 DEF MovedInv, Trusted
  <2>. QED
    BY <2>1, <2>2
<1>. QED
  BY <1>6, <1>7, <1>8, <1>9, <1>10, <1>11 DEF AhciInv

LEMMA HbaFailStep ==
  ASSUME AhciInv, NEW p \in Ports, HbaFail(p), UNCHANGED <<kernel, drives>>
  PROVE  AhciInv'
<1>1. TypeOK /\ EngineInv(p) /\ SoundInv(p) /\ WorkInv /\ MovedInv /\ call.p \in Ports
  BY HbaTypes DEF AhciInv
<1>2. /\ port[p].hba = "busy" /\ UNCHANGED <<mem, ram, disk, call, trust, kernel>>
      /\ port[p].st = 1 /\ port[p].ci = 1
  BY <1>1 DEF HbaFail, EngineInv
<1>3. port \in [Ports -> Port]
  BY <1>1, HbaTypes
<1>4. /\ port' \in [Ports -> Port]
      /\ \A q \in Ports \ {p} : port'[q] = port[q]
      /\ port'[p].clb = port[p].clb /\ port'[p].latched = port[p].latched
      /\ port'[p].st = 1 /\ port'[p].ci = 1 /\ port'[p].hba = "halted"
  BY <1>2, <1>3 DEF HbaFail, Port, Bit
<1>5. TypeOK'
  BY <1>1, <1>2, <1>4, HbaTypes, HbaTypesNext
<1>6. /\ \A q \in Ports \ {p} : EngineInv(q)' /\ SoundInv(q)' /\ HeaderInv(q)'
      /\ HeaderInv(p)' /\ BuiltInv' /\ Expected' = Expected
      /\ List(p)' = List(p) /\ \A q \in Ports : Quiet(q)' <=> Quiet(q)
      /\ SectorCall' <=> SectorCall
  BY <1>2, <1>4, HbaKeeps
<1>7. EngineInv(p)'
  BY <1>1, <1>2, <1>4, <1>6 DEF EngineInv
<1>8. SoundInv(p)'
  BY <1>4 DEF SoundInv
<1>9. WorkInv'
  BY <1>1, <1>2, <1>4, <1>6 DEF WorkInv, Trusted
<1>10. MovedInv'
  BY <1>1, <1>2, <1>4, <1>6 DEF MovedInv, Trusted
<1>. QED
  BY <1>5, <1>6, <1>7, <1>8, <1>9, <1>10 DEF AhciInv

-----------------------------------------------------------------------------
(* The theorems                                                            *)

LEMMA AhciInit == Init => AhciInv
<1>. SUFFICES ASSUME Init PROVE AhciInv
  OBVIOUS
<1>1. /\ (CHOOSE a \in Areas : \A b \in Areas : a <= b) \in Areas
      /\ (CHOOSE a \in Ports : \A b \in Ports : a <= b) \in Ports
      /\ (CHOOSE a \in Buffers : \A b \in Buffers : a <= b) \in Buffers
  BY Least, NonEmpty, AhciConstants
<1>2. CASE kernel = "os1" /\ Os1!Init
  <2>1. Os1!First(Areas) \in Areas /\ Os1!First(Ports) \in Ports /\ Os1!First(Buffers) \in Buffers
    BY <1>1 DEF Os1!First
  <2>2. Os1!NoCommand \in Command
    BY NoCommandIs DEF Os1!NoCommand, NoCommand
  <2>3. /\ port \in [Ports -> Port]
        /\ \A p \in Ports : /\ port[p].hba = "idle" /\ port[p].ci = 0
                            /\ port[p].st = 0 /\ trust[p] = "unknown"
    BY <1>2, <2>1, <2>2 DEF Os1!Init, Port, Bit
  <2>4. call \in Call1 /\ call.pc = "reset"
    BY <1>2, <2>1, AhciConstants DEF Os1!Init, Call1, Ops, Bit
  <2>5. /\ \A a \in Areas : mem[a] = Zeroed
        /\ mem \in [Areas -> Block]
    BY <1>2, ZeroedIs, Os1Names DEF Os1!Init
  <2>6. TypeOK
    BY <1>2, <2>3, <2>4, <2>5, Call1Is DEF Os1!Init, TypeOK, HbaType, Contents
  <2>7. ASSUME NEW p \in Ports PROVE EngineInv(p) /\ SoundInv(p) /\ HeaderInv(p)
    <3>1. EngineInv(p) /\ SoundInv(p)
      BY <1>2, <2>3 DEF EngineInv, SoundInv
    <3>2. mem[Os1!MbrTable(p)] \notin Table
      BY <2>5, ZeroedIs, Places
    <3>3. HeaderInv(p)
      BY <1>2, <2>3, <3>2 DEF HeaderInv
    <3>. QED
      BY <3>1, <3>3
  <2>8. BuiltInv /\ WorkInv /\ MovedInv
    BY <2>4 DEF BuiltInv, WorkInv, MovedInv
  <2>. QED
    BY <2>6, <2>7, <2>8 DEF AhciInv
<1>3. CASE kernel = "os2" /\ Os2!Init /\ drives = {}
  <2>1. Os2!First(Areas) \in Areas /\ Os2!First(Ports) \in Ports /\ Os2!First(Buffers) \in Buffers
    BY <1>1 DEF Os2!First
  <2>2. Os2!NoCommand \in Command
    BY NoCommandIs DEF Os2!NoCommand, NoCommand
  <2>3. \A p \in Ports : Os2!CmdList(p) = List(p) /\ List(p) \in Areas
    BY Places
  <2>4. /\ port \in [Ports -> Port]
        /\ \A p \in Ports : /\ port[p].hba = "idle" /\ port[p].ci = 0
                            /\ port[p].st = 0 /\ trust[p] = "unknown"
                            /\ port[p].clb = List(p) /\ port[p].latched = List(p)
                            /\ port[p].tfes = 0
    BY <1>3, <2>2, <2>3 DEF Os2!Init, Port, Bit
  <2>5. call \in Call2 /\ call.pc = "ready"
    BY <1>3, <2>1, AhciConstants DEF Os2!Init, Call2, Ops, Bit
  <2>6. mem \in [Areas -> Block]
    <3>1. HeaderFor(Os2!First(Areas), 0) \in Block
      BY <2>1, HeaderIs DEF Bit
    <3>. QED
      BY <1>3, <3>1, Os2Names DEF Os2!Init
  <2>7. TypeOK
    BY <1>3, <2>4, <2>5, <2>6, Call2Is DEF Os2!Init, TypeOK, HbaType, Contents
  <2>8. ASSUME NEW p \in Ports PROVE EngineInv(p) /\ SoundInv(p) /\ HeaderInv(p)
    BY <1>3, <2>4 DEF EngineInv, SoundInv, HeaderInv
  <2>9. BuiltInv /\ WorkInv /\ MovedInv
    BY <2>5 DEF BuiltInv, WorkInv, MovedInv
  <2>. QED
    BY <2>7, <2>8, <2>9 DEF AhciInv
<1>. QED
  BY <1>2, <1>3 DEF Init

LEMMA AhciDriverStep == AhciInv /\ DriverStep => AhciInv'
<1>. SUFFICES ASSUME AhciInv, DriverStep PROVE AhciInv'
  OBVIOUS
<1>1. CASE kernel = "os1" /\ Os1!DriverStep /\ UNCHANGED kernel
  BY <1>1, MountNoLinkStep, MountIdentifyStep, MountSector0Step, MountSkipsStep,
     MountListsStep, ReadMbrStep, SubmitStep, ReturnStep DEF Os1!DriverStep
<1>2. CASE kernel = "os2" /\ Os2!DriverStep /\ UNCHANGED <<kernel, drives>>
  BY <1>2, FillTableStep, IssueStep, FailedStep, CompletedStep, GiveUpStep
     DEF Os2!DriverStep
<1>. QED
  BY <1>1, <1>2 DEF DriverStep

LEMMA AhciUserStep == AhciInv /\ UserStep => AhciInv'
<1>. SUFFICES ASSUME AhciInv, UserStep PROVE AhciInv'
  OBVIOUS
<1>1. CASE kernel = "os1" /\ Os1!UserStep /\ UNCHANGED kernel
  BY <1>1, StartMountStep, RawIdentifyStep, ReadSectorsStep, WriteSectorsStep
     DEF Os1!UserStep
<1>2. CASE kernel = "os2" /\ Os2!UserStep /\ UNCHANGED <<kernel, drives>>
  <2>1. TypeOK /\ CallerBuffers \subseteq Buffers
    BY AhciLayout DEF AhciInv
  <2>2. PICK p \in Ports :
          \/ Os2!InitPort(p)
          \/ \E b \in CallerBuffers :
               \/ Os2!Identify(p, b)
               \/ \E l \in Lbas : \/ Os2!ReadSector(p, l, b)
                                  \/ \E t \in Texts : Os2!WriteSector(p, l, b, t)
    BY <1>2 DEF Os2!UserStep
  <2>3. CASE Os2!InitPort(p)
    BY <1>2, <2>3, InitPortStep
  <2>4. ASSUME NEW b \in CallerBuffers, Os2!Identify(p, b) PROVE AhciInv'
    <3>1. ram' \in [Buffers -> Contents] /\ disk' = disk /\ trust' = trust
      BY <1>2, <2>1, <2>4, Types2 DEF Os2!Identify
    <3>. QED
      BY <1>2, <2>1, <2>4, <3>1, CalledStep, AhciConstants DEF Os2!Identify, Ops
  <2>5. ASSUME NEW b \in CallerBuffers, NEW l \in Lbas, Os2!ReadSector(p, l, b)
        PROVE  AhciInv'
    <3>1. ram' \in [Buffers -> Contents] /\ disk' = disk /\ trust' = trust
      BY <1>2, <2>1, <2>5, Types2 DEF Os2!ReadSector
    <3>. QED
      BY <1>2, <2>1, <2>5, <3>1, CalledStep DEF Os2!ReadSector, Ops
  <2>6. ASSUME NEW b \in CallerBuffers, NEW l \in Lbas, NEW t \in Texts,
               Os2!WriteSector(p, l, b, t)
        PROVE  AhciInv'
    <3>1. ram' \in [Buffers -> Contents] /\ disk' = disk /\ trust' = trust
      BY <1>2, <2>1, <2>6, Types2 DEF Os2!WriteSector, Contents
    <3>. QED
      BY <1>2, <2>1, <2>6, <3>1, CalledStep DEF Os2!WriteSector, Ops
  <2>. QED
    BY <2>2, <2>3, <2>4, <2>5, <2>6
<1>. QED
  BY <1>1, <1>2 DEF UserStep

LEMMA AhciStep == AhciInv /\ [Next]_vars => AhciInv'
<1>. SUFFICES ASSUME AhciInv, [Next]_vars PROVE AhciInv'
  OBVIOUS
<1>1. CASE DriverStep \/ UserStep
  BY <1>1, AhciDriverStep, AhciUserStep
<1>2. CASE Adapter
  <2>1. PICK p \in Ports : HbaFetch(p) \/ HbaFinish(p) \/ HbaFail(p)
    BY <1>2 DEF Adapter, HbaStep
  <2>. QED
    BY <1>2, <2>1, HbaFetchStep, HbaFinishStep, HbaFailStep DEF Adapter
<1>3. CASE UNCHANGED vars
  <2>1. /\ UNCHANGED <<mem, call, trust, kernel, drives, port>>
        /\ ram' = ram /\ disk' = disk
    BY <1>3 DEF vars
  <2>2. TypeOK'
    BY <2>1, HbaTypes, HbaTypesNext DEF AhciInv
  <2>3. call.p \in Ports
    BY HbaTypes DEF AhciInv
  <2>4. PICK p \in Ports : p = call.p
    BY <2>3
  <2>5. /\ \A q \in Ports \ {p} : EngineInv(q)' /\ SoundInv(q)' /\ HeaderInv(q)'
        /\ HeaderInv(p)' /\ BuiltInv' /\ Expected' = Expected
        /\ List(p)' = List(p) /\ (Sent(p)' <=> Sent(p)) /\ (Waiting(p)' <=> Waiting(p))
        /\ \A q \in Ports : Quiet(q)' <=> Quiet(q)
        /\ SectorCall' <=> SectorCall
    BY <2>1, HbaKeeps
  <2>6. EngineInv(p)' /\ SoundInv(p)'
    BY <2>1, <2>5 DEF AhciInv, EngineInv, SoundInv
  <2>7. WorkInv' /\ MovedInv'
    BY <2>1, <2>3, <2>5 DEF AhciInv, WorkInv, MovedInv, Trusted
  <2>. QED
    BY <2>2, <2>5, <2>6, <2>7 DEF AhciInv
<1>. QED
  BY <1>1, <1>2, <1>3 DEF Next

(* The inductive invariant of both drivers.                                *)
THEOREM AhciInvariant == Spec => []AhciInv
<1>. QED
  BY AhciInit, AhciStep, PTL DEF Spec

(* Every variable of the drivers keeps its type.                           *)
THEOREM AhciTyped == Spec => []TypeOK
<1>1. AhciInv => TypeOK
  BY DEF AhciInv
<1>. QED
  BY <1>1, AhciInvariant, PTL

(* Of any number of drives, with commands that finish late, fail or never  *)
(* come back: a sector call that returns true has moved its own sector,    *)
(* as long as no forgotten command is left in another drive - nor, in the  *)
(* 32-bit kernel, in its own.                                              *)
THEOREM TrueAnswerMoved == Spec => []TrueMeansDone
<1>1. AhciInv => TrueMeansDone
  <2>. SUFFICES ASSUME AhciInv PROVE TrueMeansDone
    OBVIOUS
  <2>1. MovedInv
    BY DEF AhciInv
  <2>. QED
    BY <2>1 DEF TrueMeansDone, MovedInv, Answered, SectorCall, Trusted
<1>. QED
  BY <1>1, AhciInvariant, PTL

(* A sector of a drive on which no call gave up changes only during the    *)
(* write call for it, and to what the caller passed.                       *)
LEMMA DiskChanges ==
  ASSUME AhciInv, [Next]_vars, NEW p \in Ports, NEW l \in Lbas,
         trust[p] = "sound", disk'[p][l] # disk[p][l]
  PROVE  /\ call.pc = "wait" /\ call.op = "write"
         /\ call.p = p /\ call.lba = l /\ disk'[p][l] = ram[call.buf]
<1>1. ~ DriverStep
  BY DEF DriverStep, Os1!DriverStep, Os2!DriverStep, Os1!MountNoLink,
         Os1!MountIdentify, Os1!MountSector0, Os1!MountSkips, Os1!MountLists,
         Os1!ReadMbr, Os1!Submit, Os1!Return, Os2!FillTable, Os2!Issue,
         Os2!StaysBusy, Os2!Completed, Os2!ErrorSeen, Os2!GiveUp
<1>2. ~ UserStep
  BY DEF UserStep, Os1!UserStep, Os2!UserStep, Os1!StartMount, Os1!RawIdentify,
         Os1!ReadSectors, Os1!WriteSectors, Os2!InitPort, Os2!Identify,
         Os2!ReadSector, Os2!WriteSector
<1>3. Adapter
  BY <1>1, <1>2 DEF Next, vars
<1>4. PICK q \in Ports : HbaFinish(q)
  BY <1>3 DEF Adapter, HbaStep, HbaFetch, HbaFail
<1>. DEFINE c == port[q].cmd
<1>5. PICK b \in BuffersOf(c) : Moved(q, c, b)
  BY <1>4 DEF HbaFinish
<1>6. c \in Command /\ TypeOK /\ SoundInv(q)
  BY HbaTypes DEF AhciInv, Port
<1>. HIDE DEF c
<1>7. c.op = "write" /\ q = p /\ l = c.lba /\ disk'[p][l] = ram[b]
  BY <1>5, <1>6, MovedIs
<1>8. Waiting(p) /\ SectorCall /\ c = Expected
  BY <1>4, <1>6, <1>7 DEF SoundInv, HbaFinish, c
<1>9. /\ BuffersOf(Expected) = {call.buf}
      /\ Expected.op = call.op /\ Expected.lba = call.lba
  BY <1>8, ExpectedIs DEF Waiting
<1>. QED
  BY <1>5, <1>7, <1>8, <1>9 DEF Waiting

(* The same as a theorem about every behaviour.                            *)
THEOREM NoStrayWrites == Spec => NoStrayWrite
<1>. DEFINE A == \A p \in Ports, l \in Lbas :
                   trust[p] = "sound" /\ disk'[p][l] # disk[p][l] =>
                     /\ call.pc = "wait" /\ call.op = "write"
                     /\ call.p = p /\ call.lba = l /\ disk'[p][l] = ram[call.buf]
<1>1. AhciInv /\ [Next]_vars => [A]_vars
  BY DiskChanges
<1>. QED
  BY <1>1, AhciInvariant, PTL DEF Spec, NoStrayWrite
=============================================================================
