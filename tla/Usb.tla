-------------------------------- MODULE Usb ---------------------------------
(***************************************************************************)
(* USB sticks as the 32-bit kernel finds them at its start, and the list   *)
(* of drives that they share with the SATA disks.  The driver asks the     *)
(* bus once: it resets each of the two ports of the first UHCI controller, *)
(* tells the stick at address 0 a new address, and lists it.  Every        *)
(* transaction is awaited with a timeout; what a stick took of one that    *)
(* failed, the driver does not know.                                       *)
(*                                                                         *)
(* The firmware may have used the sticks before and left them enabled at   *)
(* addresses of its own: the controller as a whole is never reset.         *)
(***************************************************************************)
EXTENDS Naturals, Sequences, FiniteSets, SequencesExt, Scans

CONSTANTS UsbMachines,    \* the machines: see UsbInit
          MaxRows,        \* 8 in the source: the length of drives
          MaxUsbFaults,   \* bound on transactions lost and sticks pulled
          MaxUsbClicks    \* bound on the user's clicks

UsbPort == {1, 2}

(* What is plugged into a port; a stick that the firmware enabled has got  *)
(* an address from it.                                                     *)
Stick == [in: BOOLEAN, enabled: BOOLEAN, address: 0..127,
          stage: {"none", "cbw", "data", "csw"}]
StickAtStart(s) == /\ s.enabled => s.in /\ s.address # 0
                   /\ s.stage # "none" => s.enabled

ASSUME UsbConstants ==
  /\ MaxRows \in Nat /\ MaxUsbFaults \in Nat /\ MaxUsbClicks \in Nat
  /\ \A m \in UsbMachines: /\ m.disks \subseteq 0..31
                           /\ m.sticks \in [UsbPort -> Stick]
                           /\ \A p \in UsbPort: StickAtStart(m.sticks[p])

VARIABLES host,       \* the machine
          boot,       \* where usb_mount_drive stands
          stick,      \* per port: what is plugged in
          drives,     \* the list of drives; drive_count is its length
          chosen,     \* active_drive_idx, from 1; 0 for none
          usb_read,   \* how the last usb_bot_read_sectors ended
          usbLeft,    \* what is left of the bounds
          lost        \* ghost: ports whose handshake failed, or stick was pulled

usbVars == <<host, boot, stick, drives, chosen, usb_read, usbLeft, lost>>

-----------------------------------------------------------------------------
Stack == 3             \* the size computed from an uninitialised buffer
Nothing == [in |-> FALSE, enabled |-> FALSE, address |-> 0, stage |-> "none"]
Fresh == [Nothing EXCEPT !.in = TRUE]
Row(type, port, size, name) ==                \* name stands for model
  [type |-> type, port |-> port, size |-> size, name |-> name]
Steps == {"pci", "port", "reset", "address", "configure", "cbw", "data", "csw",
          "test", "desktop"}

(* ahci_mount_drive: the disks that answer come behind the rows that stay, *)
(* as far as there is room.                                                *)
Mounted(answer, kept) ==
  LET found == Cardinality(answer)
      room == MaxRows - Len(kept)
      Disk(p) == Row(2, p, 0, p)
  IN  kept \o [n \in 1..(IF found < room THEN found ELSE room) |->
                 Disk(Ascending(answer)[n])]

UsbInit ==
  /\ host \in UsbMachines
  /\ boot = [at |-> "pci", port |-> 1, size |-> 0]
  /\ stick = host.sticks
  /\ drives = Mounted(host.disks, <<>>)
  /\ chosen = 0
  /\ usb_read = "none"
  /\ usbLeft = [faults |-> MaxUsbFaults, clicks |-> MaxUsbClicks]
  /\ lost = {}

(* The first UHCI function; behind a function that is missing, the others  *)
(* of its slot are not looked at.                                          *)
pci_find_uhci(bus) ==
  \E s \in DOMAIN bus : \E f \in DOMAIN bus[s] :
    bus[s][f] = "uhci" /\ \A g \in 1..f : bus[s][g] # "none"

(* Mutant: every stick gets the same address.                              *)
dev_addr_one == 1

(* "Port 0 bekommt Adresse 1, Port 1 bekommt Adresse 2"                    *)
dev_addr == boot.port

(* The boot goes on with a step, and with a port.                          *)
Goes(step) == boot' = [boot EXCEPT !.at = step]
NextPort == boot' = [boot EXCEPT !.at = IF boot.port = 2 THEN "test" ELSE "port",
                                 !.port = IF boot.port = 2 THEN 2 ELSE @ + 1,
                                 !.size = 0]
Fails == NextPort /\ lost' = lost \cup {boot.port}

Spends(n) == /\ usbLeft.faults >= n
             /\ usbLeft' = [usbLeft EXCEPT !.faults = @ - n]
SticksOnly == UNCHANGED <<host, drives, chosen, usb_read>>

-----------------------------------------------------------------------------
(* One transaction on the bus                                              *)

Hearers(address) ==
  {p \in UsbPort: stick[p].enabled /\ stick[p].address = address}

(* A control transfer: who took the request, and whether it is seen to     *)
(* succeed.  A fault may come before or after the stick took it; when two  *)
(* sticks answer at once anything may come of it.                          *)
uhci_execute_control(address, taken, ok) ==
  LET all == Hearers(address)
  IN  /\ taken \subseteq all
      /\ ok => taken # {}
      /\ Spends(IF Cardinality(all) # 1 \/ ok THEN 0 ELSE 1)

(* A bulk transfer from or to the one stick that waits for it.  The driver *)
(* numbers every packet 0 (DATA0), the stick's status comes as packet 1:   *)
(* a strict controller drops it and waits until the time is up.            *)
Ready(address, stage) == {p \in Hearers(address): stick[p].stage = stage}
uhci_execute_td(address, stage, ok) ==
  LET there == Ready(address, stage)
      heard == there # {} /\ ~(stage = "csw" /\ host.strict)
  IN  /\ ok => heard
      /\ Spends(IF ~heard \/ ok \/ Cardinality(there) > 1 THEN 0 ELSE 1)

-----------------------------------------------------------------------------
(* usb_mount_drive, and the test of the first sector behind it             *)

FindUhci ==
  /\ boot.at = "pci"
  /\ Goes(IF pci_find_uhci(host.bus) THEN "port" ELSE "test")
  /\ SticksOnly /\ UNCHANGED <<stick, usbLeft, lost>>

LookAtPort ==
  /\ boot.at = "port"
  /\ IF stick[boot.port].in THEN Goes("reset") ELSE NextPort
  /\ SticksOnly /\ UNCHANGED <<stick, usbLeft, lost>>

(* The reset takes the stick back to address 0; then the port is enabled.  *)
PortReset(s) == IF s.in THEN [Fresh EXCEPT !.enabled = TRUE] ELSE s

ResetPort ==
  /\ boot.at = "reset"
  /\ stick' = [stick EXCEPT ![boot.port] = PortReset(@)]
  /\ IF stick'[boot.port].enabled THEN Goes("address") /\ UNCHANGED lost ELSE Fails
  /\ SticksOnly /\ UNCHANGED usbLeft

SetAddress ==
  /\ boot.at = "address"
  /\ \E taken \in SUBSET UsbPort, ok \in BOOLEAN :
       /\ uhci_execute_control(0, taken, ok)
       /\ stick' = [p \in UsbPort |-> IF p \in taken
                      THEN [stick[p] EXCEPT !.address = dev_addr] ELSE stick[p]]
       /\ IF ok THEN Goes("configure") /\ UNCHANGED lost ELSE Fails
  /\ SticksOnly

(* The stick is listed if there is room, and then asked for its size.      *)
SetConfiguration ==
  /\ boot.at = "configure"
  /\ \E taken \in SUBSET UsbPort, ok \in BOOLEAN :
       /\ uhci_execute_control(dev_addr, taken, ok)
       /\ stick' = [p \in UsbPort |-> IF p \in taken
                      THEN [stick[p] EXCEPT !.stage = "cbw"] ELSE stick[p]]
       /\ IF ~ok THEN Fails
          ELSE /\ IF Len(drives) < MaxRows THEN Goes("cbw") ELSE NextPort
               /\ UNCHANGED lost
  /\ SticksOnly

(* usb_bot_get_capacity: what it returns is the size of the row.           *)
Listed(size) ==
  /\ drives' = Append(drives, Row(3, dev_addr, size, boot.port))
  /\ NextPort
Answered(stage) ==
  [p \in UsbPort |-> IF p \in Ready(dev_addr, boot.at)
                     THEN [stick[p] EXCEPT !.stage = stage] ELSE stick[p]]
BulkDone == UNCHANGED <<host, chosen, usb_read, lost>>

AskCapacity ==
  /\ boot.at = "cbw"
  /\ \/ /\ uhci_execute_td(dev_addr, "cbw", TRUE)
        /\ stick' = Answered("data")
        /\ Goes("data") /\ UNCHANGED drives
     \/ uhci_execute_td(dev_addr, "cbw", FALSE) /\ Listed(0) /\ UNCHANGED stick
  /\ BulkDone

(* A stick that is not ready may end the data at once: then the bytes are  *)
(* those of the stack, and nobody looks at the status that says so.        *)
TakeCapacity ==
  /\ boot.at = "data"
  /\ \/ /\ uhci_execute_td(dev_addr, "data", TRUE)
        /\ stick' = Answered("csw")
        /\ \E size \in Ready(dev_addr, "data") \cup {Stack} :
             boot' = [boot EXCEPT !.at = "csw", !.size = size]
        /\ UNCHANGED drives
     \/ uhci_execute_td(dev_addr, "data", FALSE) /\ Listed(0) /\ UNCHANGED stick
  /\ BulkDone

TakeStatus ==
  /\ boot.at = "csw"
  /\ \/ /\ uhci_execute_td(dev_addr, "csw", TRUE)
        /\ stick' = Answered("cbw")
        /\ Listed(boot.size)
     \/ uhci_execute_td(dev_addr, "csw", FALSE) /\ Listed(0) /\ UNCHANGED stick
  /\ BulkDone

(* The second driver, of kernel.cpp, has a base port of its own, which     *)
(* nothing ever sets: every transfer is refused.                           *)
uhci_base_port == 0
uhci_bulk_transfer == IF uhci_base_port = 0 THEN 1 ELSE 0
usb_bot_read_sectors == IF uhci_bulk_transfer # 0 THEN "cbw failed" ELSE "read"

ReadBootSector ==
  /\ boot.at = "test"
  /\ usb_read' = usb_bot_read_sectors
  /\ Goes("desktop")
  /\ UNCHANGED <<host, stick, drives, chosen, usbLeft, lost>>

-----------------------------------------------------------------------------
(* The user                                                                *)

ClickDrives == /\ boot.at = "desktop" /\ usbLeft.clicks > 0
               /\ usbLeft' = [usbLeft EXCEPT !.clicks = @ - 1]
               /\ UNCHANGED <<host, boot, stick, lost>>

ChooseRow ==
  /\ ClickDrives
  /\ \E i \in DOMAIN drives : chosen' = i
  /\ UNCHANGED <<drives, usb_read>>

(* The mouse over the line USB of the hardware window: all addresses and   *)
(* endpoints are tried, with the second driver.                            *)
SweepUsb ==
  /\ ClickDrives
  /\ usb_read' = usb_bot_read_sectors
  /\ UNCHANGED <<drives, chosen>>

(* Mutant: the list begins anew.                                           *)
NoneRetained(rows) == <<>>

Retained(rows) == Subsequence(rows, {i \in DOMAIN rows: rows[i].type # 2})

(* REF looks for the disks again; chosen keeps its number.                 *)
Refresh ==
  /\ ClickDrives
  /\ \E answer \in SUBSET host.disks : drives' = Mounted(answer, Retained(drives))
  /\ UNCHANGED <<chosen, usb_read>>

(* A stick is pulled, or exchanged for another.                            *)
PullStick ==
  /\ Spends(1)
  /\ \E p \in UsbPort : /\ stick[p].in
                        /\ \E s \in {Nothing, Fresh} : stick' = [stick EXCEPT ![p] = s]
                        /\ lost' = lost \cup {p}
  /\ UNCHANGED <<host, boot, drives, chosen, usb_read>>

UsbBoot == \/ FindUhci \/ LookAtPort \/ ResetPort \/ SetAddress \/ SetConfiguration
           \/ AskCapacity \/ TakeCapacity \/ TakeStatus \/ ReadBootSector
UsbNext == UsbBoot \/ ChooseRow \/ SweepUsb \/ Refresh \/ PullStick

UsbSpec == UsbInit /\ [][UsbNext]_usbVars

-----------------------------------------------------------------------------
(* The types of the driver's state: the list has at most MaxRows rows.     *)
UsbTypeOK ==
  /\ boot.at \in Steps /\ boot.port \in UsbPort /\ boot.size \in 0..Stack
  /\ \A p \in UsbPort : /\ stick[p].enabled => stick[p].in
                        /\ stick[p].stage # "none" => stick[p].enabled
  /\ Len(drives) <= MaxRows
  /\ \A i \in DOMAIN drives : drives[i].type \in {2, 3}
  /\ usb_read \in {"none", "cbw failed"}
  /\ lost \subseteq UsbPort

SticksOf(rows) == Subsequence(rows, {i \in DOMAIN rows: rows[i].type = 3})

(* A row of a stick means that stick: unless a handshake failed or a stick *)
(* was pulled, the address in the row is heard by the stick in the port    *)
(* which the row names and by no other, whatever addresses the firmware    *)
(* had given, once both ports have been looked at.                         *)
StickAnswersAlone ==
  boot.at \in {"test", "desktop"} /\ lost = {} =>
    \A i \in DOMAIN drives :
      drives[i].type = 3 => Hearers(drives[i].port) = {drives[i].name}

(* A stick that is listed stays listed, in its order among the sticks and  *)
(* once, however often the disks are looked for again ("we keep all drives *)
(* that are no SATA disks").                                               *)
SticksStay ==
  [][/\ IsPrefix(SticksOf(drives), SticksOf(drives'))
     /\ IsInjective([i \in DOMAIN drives' |-> <<drives'[i].type, drives'[i].name>>])
    ]_usbVars
=============================================================================
