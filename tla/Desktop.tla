------------------------------ MODULE Desktop -------------------------------
(***************************************************************************)
(* The parts of the machine that share no variable with each other, one    *)
(* specification for all: network and PCI bus, the disks of OS2, mouse,    *)
(* keyboard and windows, the USB ports, and the games.  A behaviour        *)
(* exercises one part, with the others at rest, so that what each part     *)
(* shows is what it shows alone, and every interleaving inside a part is   *)
(* there.                                                                  *)
(***************************************************************************)
EXTENDS Net, Os2Disk, Input, Usb, Games

VARIABLE part                                     \* the part exercised

desktopVars == <<part, vars, os2Vars, inputVars, usbVars, gamesVars>>

(* A part at rest: no card, whatever disks, an idle user, no controller,   *)
(* whatever game.                                                          *)
NetAtRest == Init /\ bus = <<>>
DiskAtRest == Os2Init /\ disk = [d \in Drives |-> CHOOSE f \in FirstDisks: TRUE]
                      /\ ui.port = CHOOSE d \in Drives: TRUE
InputAtRest == InputInit /\ desk = "OS1" /\ devices.packets + devices.keys = 0
UsbAtRest == UsbInit /\ host = CHOOSE m \in UsbMachines: ~pci_find_uhci(m.bus)
GamesAtRest == GamesInit /\ cabinet = [kernel |-> "OS2", game |-> "pong"]
                         /\ view.width = CHOOSE w \in Widths: TRUE

DesktopInit ==
  /\ part \in {"net", "disk", "input", "usb", "games"}
  /\ IF part = "net" THEN Init ELSE NetAtRest
  /\ IF part = "disk" THEN Os2Init ELSE DiskAtRest
  /\ IF part = "input" THEN InputInit ELSE InputAtRest
  /\ IF part = "usb" THEN UsbInit ELSE UsbAtRest
  /\ IF part = "games" THEN GamesInit ELSE GamesAtRest

(* The parts that rest when p is exercised.                                *)
OnlyPart(p) ==
  /\ part = p /\ part' = p
  /\ p # "net" => UNCHANGED vars
  /\ p # "disk" => UNCHANGED os2Vars
  /\ p # "input" => UNCHANGED inputVars
  /\ p # "usb" => UNCHANGED usbVars
  /\ p # "games" => UNCHANGED gamesVars

NetLoop == OnlyPart("net") /\ Loop
NetLooks == OnlyPart("net") /\ check_incoming
InputFrame == OnlyPart("input") /\ Frame

DesktopNext ==
  \/ OnlyPart("net") /\ Next
  \/ OnlyPart("disk") /\ Os2Next
  \/ OnlyPart("input") /\ InputNext
  \/ OnlyPart("usb") /\ UsbNext
  \/ OnlyPart("games") /\ GamesNext

(* The fairness of the parts: that of the loop which each kernel runs.     *)
DesktopFairness == /\ SF_desktopVars(NetLooks)
                   /\ WF_desktopVars(NetLoop)
                   /\ WF_desktopVars(InputFrame)

DesktopSpec == DesktopInit /\ [][DesktopNext]_desktopVars /\ DesktopFairness

-----------------------------------------------------------------------------
(* The types of what every part keeps: the rings' and the list's indices   *)
(* in range, the windows' order a permutation, the list of drives no       *)
(* longer than its array, the scores bounded.                              *)
DesktopTypeOK ==
  TypeOK /\ Os2TypeOK /\ InputTypeOK /\ UsbTypeOK /\ GamesTypeOK
=============================================================================
