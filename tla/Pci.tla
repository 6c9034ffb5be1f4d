-------------------------------- MODULE Pci ---------------------------------
(***************************************************************************)
(* The PCI bus as the two kernels scan it.  OS1 scans at its start, when   *)
(* the notepad's INSTALL is clicked and from the command SCAN, builds the  *)
(* lists of cards and drives from nothing, and then starts the first       *)
(* network card of the list: also when that card is running.  OS2 scans    *)
(* once and only notes the address of an E1000.                            *)
(*                                                                         *)
(* The bus is the sequence of functions in the order of the scan.  The     *)
(* entries of the notepad's list of devices change names only.  A function *)
(* "intel" has an address in BAR0: intel_e1000_init returns at once from a *)
(* card without one, which is thus a "generic" card here.                  *)
(***************************************************************************)
EXTENDS Naturals, Sequences, FiniteSets, Scans

VARIABLES kernel, bus,
          found_nics, active_nic_idx,     \* 0 stands for none
          storage_list, gpu_list,
          current_storage_idx, current_gpu_idx,
          sys_hw                          \* the controllers found last

pciVars == <<kernel, bus, found_nics, active_nic_idx, storage_list, gpu_list,
             current_storage_idx, current_gpu_idx, sys_hw>>

Nics == {"rtl", "intel", "generic"}
Storage == {"sata", "ide"}
Functions == Nics \cup Storage \cup {"gpu", "xhci", "uhci"}

PciInit(machine) ==
  /\ kernel = machine.kernel /\ bus = machine.bus
  /\ found_nics = <<>> /\ active_nic_idx = 0
  /\ storage_list = <<>> /\ gpu_list = <<>>
  /\ current_storage_idx = 0 /\ current_gpu_idx = 0
  /\ sys_hw = [net |-> 0, ahci |-> 0, usb |-> 0, e1000 |-> 0]

-----------------------------------------------------------------------------
At(kinds) == {i \in 1..Len(bus): bus[i] \in kinds}

(* The first functions of these kinds, as far as the list reaches.         *)
FirstOf(kinds, most) ==
  LET found == Cardinality(At(kinds))
  IN  [n \in 1..(IF found < most THEN found ELSE most) |-> bus[Ascending(At(kinds))[n]]]

(* Where the registers of a kind are said to be: those of its last         *)
(* function, and what was there before if there is none.                   *)
LastOf(kinds, before) ==
  IF At(kinds) = {} THEN before
  ELSE CHOOSE i \in At(kinds): \A j \in At(kinds): j <= i

(* OS1.  The lists are filled again, the places to show next are not.      *)
pci_scan_all ==
  /\ found_nics' = FirstOf(Nics, 5)
  /\ storage_list' = FirstOf(Storage, 4)
  /\ gpu_list' = FirstOf({"gpu"}, 2)
  /\ active_nic_idx' = IF At(Nics) = {} THEN active_nic_idx ELSE 1
  /\ sys_hw' = [sys_hw EXCEPT !.net = LastOf(Nics, @),
                              !.ahci = LastOf({"sata"}, @),
                              !.usb = LastOf({"xhci"}, @)]
  /\ UNCHANGED <<kernel, bus, current_storage_idx, current_gpu_idx>>

(* What nic_select_next then starts, if there is a driver for it.          *)
StartedCard == IF found_nics' = <<>> THEN "generic" ELSE found_nics'[1]

(* OS2: the first E1000 that is function 0 of its slot.                    *)
pci_scan_e1000 ==
  /\ sys_hw' = [sys_hw EXCEPT !.e1000 =
                  IF At({"intel"}) = {} THEN @
                  ELSE CHOOSE i \in At({"intel"}):
                         \A j \in At({"intel"}): i <= j]
  /\ UNCHANGED <<kernel, bus, found_nics, active_nic_idx, storage_list, gpu_list,
                 current_storage_idx, current_gpu_idx>>

(* The command SCAN shows the next drive and the next graphics card; it    *)
(* scans only if there are neither.                                        *)
ScanScans == storage_list = <<>> /\ gpu_list = <<>>
NextShown(index, list) == IF list = <<>> THEN index ELSE (index + 1) % Len(list)
ShowNext ==
  /\ current_storage_idx' = NextShown(current_storage_idx, storage_list)
  /\ current_gpu_idx' = NextShown(current_gpu_idx, gpu_list)
  /\ UNCHANGED <<kernel, bus, found_nics, active_nic_idx, storage_list, gpu_list,
                 sys_hw>>

-----------------------------------------------------------------------------
PciTypeOK ==
  /\ found_nics \in Seq(Nics) /\ Len(found_nics) <= 5
  /\ active_nic_idx \in 0..Len(found_nics)
  /\ storage_list \in Seq(Storage) /\ gpu_list \in Seq({"gpu"})
  /\ current_storage_idx = 0 \/ current_storage_idx < Len(storage_list)
  /\ current_gpu_idx = 0 \/ current_gpu_idx < Len(gpu_list)
=============================================================================
