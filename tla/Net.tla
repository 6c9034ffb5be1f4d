-------------------------------- MODULE Net ---------------------------------
(***************************************************************************)
(* The network part of both kernels: the two cards of net.cpp with their   *)
(* drivers, frames that the desktop's loop takes from them, the address    *)
(* the machine believes to have, and the commands that send.  The network  *)
(* delivers any frame at any time: late, repeated, for somebody else.      *)
(***************************************************************************)
EXTENDS E1000, Rtl8139, Pci

CONSTANTS Octets,      \* octets of addresses; one stands for all four
          Machines     \* the kernel, the bus, and bounds: how often the
                       \* network delivers, the desktop sends, and the bus
                       \* is scanned

ASSUME NetConstants ==
  /\ Octets \subseteq 0..255
  /\ \A m \in Machines:
       /\ m.kernel \in {"OS1", "OS2"} /\ m.bus \in Seq(Functions)
       /\ m.frames \in Nat /\ m.scans \in Nat
       /\ m.sends \in Nat /\ m.sends < NothingSent     \* frames have numbers

Kinds == {"arp_request", "arp_reply", "dhcp", "other"}

VARIABLES config,        \* ip_address, net_mask and gateway_ip
          cpu,           \* where the desktop's loop is
          left           \* what is left of the bounds

netVars == <<config, cpu, left>>
vars == <<cardVars, rtlVars, pciVars, netVars>>

Desktop == [at |-> "desktop"]

Init ==
  /\ E1000Init /\ RtlInit
  /\ config = [ip |-> 0, mask |-> "default", gateway |-> 0]
  /\ cpu = [at |-> "boot"]
  /\ \E m \in Machines: /\ PciInit(m)
                        /\ left = [frames |-> m.frames, sends |-> m.sends,
                                   scans |-> m.scans]

-----------------------------------------------------------------------------
(* The cards and the network.                                              *)
Arrives ==
  /\ left.frames > 0
  /\ left' = [left EXCEPT !.frames = @ - 1]
  /\ \E kind \in Kinds, octet \in Octets:
       \/ /\ CardReceives(kind, octet)
          /\ UNCHANGED rtlVars
       \/ /\ \E size \in Sizes:
               RtlReceives([kind |-> kind, octet |-> octet], size)
          /\ UNCHANGED cardVars
  /\ UNCHANGED <<pciVars, config, cpu>>

CardWorks ==
  /\ \/ CardSends /\ UNCHANGED rtlVars
     \/ Cable /\ UNCHANGED rtlVars
     \/ RtlSends /\ UNCHANGED cardVars
  /\ UNCHANGED <<pciVars, netVars>>

-----------------------------------------------------------------------------
(* What a frame does to the addresses.                                     *)

(* e1000_check_rx: a reply to ARP gives the address of its sender, DHCP    *)
(* the offered one, and the mask and the gateway if they are among its     *)
(* options, whoever the offer is for.                                      *)
Configured(frame) ==
  CASE frame.kind = "arp_reply" -> {[config EXCEPT !.ip = frame.octet]}
    [] frame.kind = "dhcp" ->
         [ip : {frame.octet}, mask : {config.mask, "offered"},
          gateway : {config.gateway, frame.octet}]
    [] OTHER -> {config}

(* check_incoming reads the octets of the offer through a char, and no     *)
(* options.                                                                *)
Signed(octet) == IF octet > 127 THEN octet - 256 ELSE octet
ConfiguredByRtl(frame) ==
  IF frame.kind = "dhcp" THEN [config EXCEPT !.ip = Signed(frame.octet)]
  ELSE config

-----------------------------------------------------------------------------
(* Sending.  A call of net_raw serves every card that was started; with    *)
(* the Intel card it waits for DD a bounded time.                          *)
net_raw(frame) ==
  /\ IF rtl_io_base THEN RtlGiven(frame) ELSE UNCHANGED <<tsd, tx_buffer>>
  /\ IF intel_mem_base /\ reg.link
     THEN /\ FrameGiven(frame)
          /\ cpu' = [at |-> "tx", slot |-> tx_cur_intel, frame |-> frame]
     ELSE UNCHANGED cardVars /\ cpu' = Desktop

(* The poll ends with DD, or without.                                      *)
TxDone ==
  /\ cpu.at = "tx" /\ e1000_tx_ring[cpu.slot].dd
  /\ cpu' = [at |-> "sent", frame |-> cpu.frame]
  /\ UNCHANGED <<cardVars, rtlVars, pciVars, config, left>>
TxTimeout ==
  /\ cpu.at = "tx" /\ ~e1000_tx_ring[cpu.slot].dd
  /\ cpu' = Desktop
  /\ UNCHANGED <<cardVars, rtlVars, pciVars, config, left>>
Returns ==
  /\ cpu.at = "sent" /\ cpu' = Desktop
  /\ UNCHANGED <<cardVars, rtlVars, pciVars, config, left>>

CanSend == cpu = Desktop /\ left.sends > 0
MacKnown == intel_mem_base \/ rtl_io_base
Gives == /\ net_raw(left.sends)
         /\ left' = [left EXCEPT !.sends = IF @ = 0 THEN 0 ELSE @ - 1]

(* The commands of OS1 that broadcast a frame and change nothing else: ARP *)
(* ping, UDP texts and blocks, TCP SYN.  (net_ip and its callers fill in the     *)
(* frame, with fixed addresses that do not depend on config.)              *)
Broadcast ==
  /\ kernel = "OS1" /\ CanSend /\ Gives
  /\ UNCHANGED <<rtlRxVars, pciVars, config>>

(* DHCP: a discover with one fixed transaction id, if there is a MAC.      *)
send_dhcp_discover ==
  /\ CanSend /\ MacKnown /\ Gives
  /\ UNCHANGED <<rtlRxVars, pciVars, config>>

(* The configurator of OS2: a typed address, the usual mask and the one    *)
(* router; then an ARP ping, for which OS2 has no card in use.             *)
apply_static_ip ==
  /\ kernel = "OS2" /\ CanSend
  /\ \E octet \in Octets:
       config' = [ip |-> octet, mask |-> "default", gateway |-> 14]
  /\ Gives
  /\ UNCHANGED <<rtlRxVars, pciVars>>

-----------------------------------------------------------------------------
(* Receiving.  Every tenth frame of the screen the loop calls              *)
(* check_incoming: first all frames of the Intel card, then one of the     *)
(* RTL card.                                                               *)

(* Data taken for a packet may look like anything.                         *)
JunkFrames == [kind: Kinds, octet: Octets]

(* The RTL part, without and with an answer to an ARP request.             *)
RtlPart ==
  IF ~rtl_io_base \/ BufferEmpty
  THEN cpu' = Desktop /\ UNCHANGED <<rtlVars, cardVars, config, left>>
  ELSE \/ /\ rx_buffer_rtl[rx_idx_rtl] = Junk
          /\ NoPacketHere /\ cpu' = Desktop
          /\ UNCHANGED <<cardVars, config, left>>
       \/ \E packet \in PacketsAtIndex(JunkFrames):
            /\ IndexAdvanced(packet.size)
            /\ config' = ConfiguredByRtl(packet.frame)
            /\ IF packet.frame.kind = "arp_request"
               THEN Gives
               ELSE cpu' = Desktop /\ UNCHANGED <<cardVars, tsd, tx_buffer, left>>

check_incoming ==
  /\ cpu = Desktop
  /\ IF intel_mem_base
     THEN /\ cpu' = [at |-> "rx", i |-> 0, last |-> rx_cur_intel]
          /\ UNCHANGED <<cardVars, rtlVars, config, left>>
     ELSE RtlPart
  /\ UNCHANGED pciVars

(* The loop of e1000_check_rx: at most one round per descriptor, and none  *)
(* without DD.                                                             *)
e1000_check_rx ==
  /\ cpu.at = "rx" /\ cpu.i < RingSize
  /\ FrameHandled
  /\ config' \in Configured(e1000_rx_ring[rx_cur_intel])
  /\ cpu' = [cpu EXCEPT !.i = @ + 1, !.last = rx_cur_intel]
  /\ UNCHANGED <<rtlVars, pciVars, left>>

RxLoopEnds ==
  /\ cpu.at = "rx"
  /\ cpu.i = RingSize \/ e1000_rx_ring[rx_cur_intel] = NoFrame
  /\ RdtWritten(cpu.i > 0, cpu.last)
  /\ cpu' = [at |-> "rtl"]
  /\ UNCHANGED <<rtlVars, pciVars, config, left>>

CheckRtl ==
  /\ cpu.at = "rtl" /\ RtlPart
  /\ UNCHANGED pciVars

(* nic_select_next, which only a scan calls: the first card of the list.   *)
nic_select_next ==
  CASE StartedCard = "intel" -> intel_e1000_init /\ UNCHANGED <<rtlVars, config>>
    [] StartedCard = "rtl" -> /\ rtl8139_init /\ UNCHANGED cardVars
                              /\ config' = [config EXCEPT !.ip = 0]
    [] OTHER -> UNCHANGED <<cardVars, rtlVars, config>>

(* The start of the kernel.  OS2 starts no card, and looks for frames once.*)
Boot ==
  /\ cpu.at = "boot" /\ cpu' = Desktop
  /\ IF kernel = "OS1" THEN pci_scan_all /\ nic_select_next
     ELSE pci_scan_e1000 /\ UNCHANGED <<cardVars, rtlVars, config>>
  /\ UNCHANGED left

CanScan == /\ cpu = Desktop /\ kernel = "OS1" /\ left.scans > 0
           /\ left' = [left EXCEPT !.scans = @ - 1]
           /\ UNCHANGED cpu

(* INSTALL in the notepad of OS1.                                          *)
Install == CanScan /\ pci_scan_all /\ nic_select_next

(* The command SCAN.                                                       *)
Scan ==
  /\ CanScan
  /\ IF ScanScans THEN pci_scan_all /\ nic_select_next
     ELSE ShowNext /\ UNCHANGED <<cardVars, rtlVars, config>>

-----------------------------------------------------------------------------
Loop == check_incoming \/ CheckRtl \/ e1000_check_rx \/ RxLoopEnds
        \/ TxDone \/ TxTimeout \/ Returns \/ Boot
User == \/ Install \/ Scan \/ Broadcast \/ send_dhcp_discover \/ apply_static_ip
Hardware == Arrives \/ CardWorks

Next == Loop \/ User \/ Hardware

(* The loop of the desktop comes round for ever, and what it has called    *)
(* runs to its end.  Nothing is assumed of the cards and the network.      *)
Fairness == /\ SF_vars(check_incoming)
            /\ WF_vars(Loop)

Spec == Init /\ [][Next]_vars /\ Fairness
-----------------------------------------------------------------------------
Desktops == {"boot", "desktop", "rtl", "rx", "tx", "sent"}

(* Indices stay in their rings; the address is one somebody could mean,    *)
(* but for the sign that the RTL part gives it.                            *)
TypeOK ==
  /\ intel_mem_base \in BOOLEAN /\ rtl_io_base \in BOOLEAN
  /\ {rx_cur_intel, tx_cur_intel, reg.rdh, reg.rdt, reg.tdh, reg.tdt} \subseteq Slots
  /\ cpu.at \in Desktops /\ PciTypeOK
  /\ rx_idx_rtl \in 0..BufferSize /\ {cbr, capr} \subseteq 0..BufferSize - 1
  /\ config.ip \in Octets \cup {0} \cup {Signed(o): o \in Octets}

(* Every frame that the Intel card took is handled once and in order: the  *)
(* frames between the driver's place and the card's are exactly those not  *)
(* seen yet.  (After a start that found rx_cur_intel elsewhere than at 0   *)
(* nothing is promised.)                                                   *)
ReceivedIsSeenInOrder ==
  in_step => seen \o Unseen = [i \in 1..received |-> i]

(* The card always gets descriptors back: it does not stay full.           *)
ReceptionGoesOn ==
  (in_step /\ reg.rdh = reg.rdt) ~> (~in_step \/ reg.rdh # reg.rdt)

(* When net_raw found DD, the frame it was called with is the one that has *)
(* just left the card, also if earlier ones were given up and the ring is  *)
(* in a later lap.                                                         *)
DoneMeansOnWire == cpu.at = "sent" => cpu.frame = wire

(* What leaves the card was given later than what left before: a stalled   *)
(* ring may lose frames and sends none late or twice.  (Frames are numbered*)
(* downwards.)                                                             *)
WireInOrder == [][wire' # wire => wire' < wire]_vars

(* net.cpp:697 says of raw_data that it points exactly at the first byte   *)
(* of a packet.                                                            *)
RawDataPointsAtPacket ==
  (rtl_io_base /\ unread # <<>>) => rx_idx_rtl = Head(unread)

(* That is true in the first lap after the first start of the card.        *)
FirstLapInStep == lap \/ RawDataPointsAtPacket
=============================================================================
