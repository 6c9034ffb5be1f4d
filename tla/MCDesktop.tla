----------------------------- MODULE MCDesktop ------------------------------
(* Instances of the parts of Desktop for model checking.                   *)
EXTENDS Desktop

(* Receiving and sending each get their turn to have enough frames for     *)
(* more than a lap of the rings; the other machines have several cards,    *)
(* none with a driver first, or OS2.  The last is the one at rest.         *)
Machine(k, b, f, s, n) ==
  [kernel |-> k, bus |-> b, frames |-> f, sends |-> s, scans |-> n]
MCMachines ==
  {Machine("OS1", <<"intel">>, 4, 1, 1), Machine("OS1", <<"intel">>, 1, 4, 1),
   Machine("OS1", <<"gpu", "rtl", "ide">>, 3, 1, 2),
   Machine("OS1", <<"gpu", "gpu", "sata", "intel", "gpu", "rtl", "sata">>, 1, 1, 2),
   Machine("OS1", <<"generic", "intel">>, 1, 1, 2),
   Machine("OS2", <<"xhci", "intel", "sata">>, 1, 2, 0),
   Machine("OS2", <<>>, 0, 0, 0)}

(* A disk with one text, one of NTFS and one of something else.            *)
NoText == [s \in Sectors |-> Blank]
MCFirstDisks ==
  {[label |-> "cfs", data |-> [NoText EXCEPT ![0] = 1],
    dir |-> [EmptyDir EXCEPT ![0] = [NoEntry EXCEPT !.type = 1, !.parent = Root]]],
   [label |-> "ntfs", dir |-> Foreign, data |-> NoText],
   [label |-> "other", dir |-> EmptyDir, data |-> NoText]}

(* Users who click more or type more; one whose mouse the kernel meets in  *)
(* the middle of a packet; one whose movements look like buttons; one who  *)
(* moves the mouse for ever.                                               *)
Person(packets, keys, first, plain) ==
  [packets |-> packets, keys |-> keys, first |-> first, plain |-> plain,
   endless |-> FALSE]
Mover == [Person(1, 0, 1, TRUE) EXCEPT !.endless = TRUE]
MCFirstOrder == <<"notepad", "dialog", "disk">>
MCUsers == {Person(3, 0, 1, FALSE), Person(1, 1, 1, FALSE), Person(0, 3, 1, TRUE),
            Person(5, 0, 1, TRUE), Person(1, 2, 1, TRUE),
            Person(1, 1, 3, TRUE), Person(3, 0, 2, TRUE), Person(2, 0, 2, FALSE),
            Mover, Person(0, 0, 1, FALSE)}

(* Machines with sticks in the ports: fresh, or with an address from the   *)
(* firmware; disks that leave room for both, for one and for none; one     *)
(* whose controller hides behind a missing function.                       *)
Warm(address) == [in |-> TRUE, enabled |-> TRUE, address |-> address,
                  stage |-> "cbw"]
Pc(b, strict, d, s1, s2) ==
  [bus |-> b, strict |-> strict, disks |-> d, sticks |-> <<s1, s2>>]
Piix == <<<<"host">>, <<"isa", "ide", "uhci", "acpi">>>>
Holed == <<<<"host">>, <<"none", "uhci">>>>
MCUsbMachines ==
  {Pc(Piix, FALSE, {0}, Fresh, Fresh), Pc(Piix, TRUE, {0}, Fresh, Warm(1)),
   Pc(Piix, FALSE, {0, 1}, Warm(2), Warm(1)), Pc(Piix, FALSE, {}, Nothing, Warm(1)),
   Pc(Piix, FALSE, {0, 1, 2}, Warm(1), Nothing), Pc(Holed, TRUE, {0}, Fresh, Nothing)}
=============================================================================
