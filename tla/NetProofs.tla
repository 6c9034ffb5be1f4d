----------------------------- MODULE NetProofs ------------------------------
(***************************************************************************)
(* Theorems about the network cards and their drivers, for rings and       *)
(* buffers of every size, every bus and every traffic: what the Intel card *)
(* received is handled once and in order, what it sent leaves in order,    *)
(* and the RTL driver is in step for its first lap.                        *)
(***************************************************************************)
EXTENDS Net, FiniteSetTheorems, WellFoundedInduction, TLAPS

-----------------------------------------------------------------------------
(* Slots of a ring                                                         *)

(* The i-th slot from one on.                                              *)
Nth(from, i) == (from + i - 1) % RingSize

LEMMA RingIs == RingSize \in Nat /\ RingSize > 1 /\ Slots = 0 .. RingSize - 1
BY RingSizeAssumption DEF Slots

(* What the remainders come to.                                            *)
LEMMA AfterIs ==
  ASSUME NEW s \in Slots
  PROVE  /\ After(s) \in Slots
         /\ After(s) = IF s = RingSize - 1 THEN 0 ELSE s + 1
BY RingIs DEF After

LEMMA DistanceIs ==
  ASSUME NEW s \in Slots, NEW t \in Slots
  PROVE  /\ Distance(s, t) = IF s <= t THEN t - s ELSE t + RingSize - s
         /\ Distance(s, t) \in 0 .. RingSize - 1
<1>1. CASE s <= t
  <2>1. t + RingSize - s \in Nat /\ t + RingSize - s >= RingSize
        /\ t + RingSize - s < RingSize + RingSize
    BY <1>1, RingIs
  <2>2. (t + RingSize - s) % RingSize = (t + RingSize - s) - RingSize
    BY <2>1, RingIs
  <2>. QED
    BY <1>1, <2>2, RingIs DEF Distance
<1>2. CASE s > t
  <2>1. t + RingSize - s \in Nat /\ t + RingSize - s < RingSize
    BY <1>2, RingIs
  <2>2. (t + RingSize - s) % RingSize = t + RingSize - s
    BY <2>1, RingIs
  <2>. QED
    BY <1>2, <2>2, RingIs DEF Distance
<1>. QED
  BY <1>1, <1>2, RingIs

LEMMA NthIs ==
  ASSUME NEW s \in Slots, NEW i \in 1 .. RingSize
  PROVE  /\ Nth(s, i) \in Slots
         /\ Nth(s, i) = IF s + i - 1 < RingSize THEN s + i - 1
                        ELSE s + i - 1 - RingSize
<1>1. CASE s + i - 1 < RingSize
  <2>1. s + i - 1 \in Nat
    BY RingIs
  <2>2. (s + i - 1) % RingSize = s + i - 1
    BY <1>1, <2>1, RingIs
  <2>. QED
    BY <1>1, <2>1, <2>2, RingIs DEF Nth
<1>2. CASE s + i - 1 >= RingSize
  <2>1. s + i - 1 \in Nat /\ s + i - 1 < RingSize + RingSize
    BY RingIs
  <2>2. (s + i - 1) % RingSize = s + i - 1 - RingSize
    BY <1>2, <2>1, RingIs
  <2>. QED
    BY <1>2, <2>1, <2>2, RingIs DEF Nth
<1>. QED
  BY <1>1, <1>2, RingIs

(* How an index that moves changes the distances and the numbering.        *)
LEMMA Moves ==
  ASSUME NEW s \in Slots, NEW t \in Slots
  PROVE  /\ Distance(s, s) = 0 /\ (Distance(s, t) = 0 => s = t)
         /\ s # t => Distance(After(s), t) = Distance(s, t) - 1
         /\ After(t) # s => Distance(s, After(t)) = Distance(s, t) + 1
         /\ Distance(s, t) < RingSize - 1 => After(t) # s
         /\ Nth(s, 1) = s
         /\ Nth(s, Distance(s, t) + 1) = t
         /\ \A i \in 1 .. RingSize - 1 : Nth(After(s), i) = Nth(s, i + 1)
         /\ Nth(After(s), RingSize) = s
         /\ \A i, j \in 1 .. RingSize : Nth(s, i) = Nth(s, j) => i = j
<1>1. After(s) \in Slots /\ After(t) \in Slots
  BY AfterIs
<1>a. After(s) = IF s = RingSize - 1 THEN 0 ELSE s + 1
  BY AfterIs
<1>b. After(t) = IF t = RingSize - 1 THEN 0 ELSE t + 1
  BY AfterIs
<1>d. /\ Distance(s, t) = IF s <= t THEN t - s ELSE t + RingSize - s
      /\ Distance(s, t) \in 0 .. RingSize - 1
  BY <1>1, DistanceIs
<1>e. /\ Distance(s, s) = IF s <= s THEN s - s ELSE s + RingSize - s
      /\ Distance(s, s) \in 0 .. RingSize - 1
  BY <1>1, DistanceIs
<1>f. /\ Distance(After(s), t) = IF After(s) <= t THEN t - After(s) ELSE t + RingSize - After(s)
      /\ Distance(After(s), t) \in 0 .. RingSize - 1
  BY <1>1, DistanceIs
<1>g. /\ Distance(s, After(t)) = IF s <= After(t) THEN After(t) - s ELSE After(t) + RingSize - s
      /\ Distance(s, After(t)) \in 0 .. RingSize - 1
  BY <1>1, DistanceIs
<1>n. \A u \in Slots, i \in 1 .. RingSize :
        Nth(u, i) = IF u + i - 1 < RingSize THEN u + i - 1
                    ELSE u + i - 1 - RingSize
  BY NthIs
<1>2. /\ Distance(s, s) = 0 /\ (Distance(s, t) = 0 => s = t)
      /\ Distance(s, t) < RingSize - 1 => After(t) # s
  BY <1>d, <1>e, <1>b, RingIs
<1>8. s # t => Distance(After(s), t) = Distance(s, t) - 1
  BY <1>d, <1>f, <1>1, <1>a, RingIs
<1>9. After(t) # s => Distance(s, After(t)) = Distance(s, t) + 1
  BY <1>d, <1>g, <1>1, <1>b, RingIs
<1>3. Nth(s, 1) = s
  BY <1>n, RingIs
<1>4. Nth(s, Distance(s, t) + 1) = t
  <2>1. Distance(s, t) + 1 \in 1 .. RingSize
    BY <1>d, RingIs
  <2>2. Nth(s, Distance(s, t) + 1)
          = IF s + Distance(s, t) < RingSize THEN s + Distance(s, t)
            ELSE s + Distance(s, t) - RingSize
    BY <2>1, <1>n, <1>d, RingIs
  <2>. QED
    BY <2>2, <1>d, RingIs
<1>5. ASSUME NEW i \in 1 .. RingSize - 1 PROVE Nth(After(s), i) = Nth(s, i + 1)
  <2>1. i \in 1 .. RingSize /\ i + 1 \in 1 .. RingSize
    BY RingIs
  <2>2. Nth(s, i + 1) = IF s + i < RingSize THEN s + i ELSE s + i - RingSize
    BY <2>1, <1>n, RingIs
  <2>3. Nth(After(s), i) = IF After(s) + i - 1 < RingSize THEN After(s) + i - 1
                           ELSE After(s) + i - 1 - RingSize
    BY <2>1, <1>1, <1>n
  <2>. QED
    BY <2>2, <2>3, <1>a, RingIs
<1>6. Nth(After(s), RingSize) = s
  <2>1. RingSize \in 1 .. RingSize
    BY RingIs
  <2>2. Nth(After(s), RingSize)
          = IF After(s) + RingSize - 1 < RingSize THEN After(s) + RingSize - 1
            ELSE After(s) + RingSize - 1 - RingSize
    BY <2>1, <1>1, <1>n
  <2>. QED
    BY <2>2, <1>a, <1>1, RingIs
<1>7. ASSUME NEW i \in 1 .. RingSize, NEW j \in 1 .. RingSize, Nth(s, i) = Nth(s, j)
      PROVE  i = j
  <2>1. Nth(s, i) = IF s + i - 1 < RingSize THEN s + i - 1 ELSE s + i - 1 - RingSize
    BY <1>n
  <2>2. Nth(s, j) = IF s + j - 1 < RingSize THEN s + j - 1 ELSE s + j - 1 - RingSize
    BY <1>n
  <2>. QED
    BY <2>1, <2>2, <1>7, RingIs
<1>. QED
  BY <1>2, <1>3, <1>4, <1>5, <1>6, <1>7, <1>8, <1>9

-----------------------------------------------------------------------------
(* Numbers in their order                                                  *)

(* A set of positions has an element with as many below it as one likes.   *)
LEMMA AscendingIs ==
  ASSUME NEW m \in Nat, NEW S \in SUBSET (0 .. m), NEW n \in 1 .. Cardinality(S)
  PROVE  /\ Ascending(S)[n] \in S
         /\ Cardinality({j \in S : j < Ascending(S)[n]}) = n - 1
<1> DEFINE Below(k) == {j \in S : j < k}
           K == {k \in Nat : Cardinality(Below(k)) >= n}
<1>0. \A j \in S : j \in Nat /\ j <= m
  OBVIOUS
<1>1. IsFiniteSet(S) /\ Cardinality(S) \in Nat
  <2>1. IsFiniteSet(0 .. m)
    BY FS_Interval
  <2>. QED
    BY <2>1, FS_Subset, FS_CardinalityType
<1>2. \A k \in Nat : IsFiniteSet(Below(k)) /\ Cardinality(Below(k)) \in Nat
  BY <1>1, FS_Subset, FS_CardinalityType
<1>3. m + 1 \in K
  <2>1. \A j \in S : j < m + 1
    BY <1>0
  <2>2. Below(m + 1) = S
    BY <2>1, Zenon
  <2>. QED
    BY <2>2
<1>4. PICK k \in K : \A y \in K : ~ (<<y, k>> \in OpToRel(<, Nat))
  BY <1>3, WFMin, NatLessThanWellFounded
<1>5. ASSUME NEW y \in K PROVE k <= y
  <2>1. ~(y < k)
    BY <1>4 DEF OpToRel
  <2>. QED
    BY <2>1
<1>6. k # 0
  <2>1. \A j \in S : ~(j < 0)
    BY <1>0
  <2>2. Below(0) = {}
    BY <2>1, Zenon
  <2>. QED
    BY <2>2, FS_EmptySet
<1>7. k - 1 \in Nat /\ k - 1 \notin K
  BY <1>5, <1>6
<1>8. Cardinality(Below(k - 1)) < n
  <2>1. ~(Cardinality(Below(k - 1)) >= n)
    BY <1>7
  <2>2. Cardinality(Below(k - 1)) \in Nat /\ n \in Nat
    BY <1>1, <1>2, <1>7
  <2>. QED
    BY <2>1, <2>2
<1>9. k - 1 \in S /\ Cardinality(Below(k)) = Cardinality(Below(k - 1)) + 1
  <2>1. CASE k - 1 \in S
    <3>2. /\ \A j \in S : j < k <=> (j < k - 1 \/ j = k - 1)
          /\ ~(k - 1 < k - 1)
      BY <1>7, <1>0
    <3>1. Below(k) = Below(k - 1) \cup {k - 1} /\ k - 1 \notin Below(k - 1)
      BY <2>1, <3>2, Zenon
    <3>. QED
      BY <2>1, <3>1, <1>7, <1>2, FS_AddElement
  <2>2. CASE k - 1 \notin S
    <3>2. \A j \in S : j < k <=> (j < k - 1 \/ j = k - 1)
      BY <1>7, <1>0
    <3>1. Below(k) = Below(k - 1)
      BY <2>2, <3>2, Zenon
    <3>. QED
      BY <3>1, <1>7, <1>8, <1>2
  <2>. QED
    BY <2>1, <2>2
<1>10. Cardinality(Below(k - 1)) = n - 1
  <2>1. Cardinality(Below(k)) \in Nat /\ Cardinality(Below(k)) >= n
        /\ Cardinality(Below(k - 1)) \in Nat
    BY <1>2, <1>7
  <2>. QED
    BY <2>1, <1>8, <1>9
<1>11. \E i \in S : Cardinality({j \in S : j < i}) = n - 1
  BY <1>9, <1>10
<1>12. Ascending(S)[n] = CHOOSE i \in S : Cardinality({j \in S : j < i}) = n - 1
  BY DEF Ascending
<1>. QED
  BY <1>11, <1>12

(* What a scan lists.                                                      *)
LEMMA FirstOfIs ==
  ASSUME bus \in Seq(Functions), NEW kinds \in SUBSET Functions, NEW most \in Nat
  PROVE  /\ FirstOf(kinds, most) \in Seq(kinds)
         /\ Len(FirstOf(kinds, most)) <= most
         /\ most > 0 => (FirstOf(kinds, most) = <<>> <=> At(kinds) = {})
<1> DEFINE m == Len(bus)
           found == Cardinality(At(kinds))
           len == IF found < most THEN found ELSE most
<1>1. m \in Nat /\ At(kinds) \in SUBSET (0 .. m)
  BY DEF At
<1>2. IsFiniteSet(At(kinds)) /\ found \in Nat
  <2>1. IsFiniteSet(0 .. m)
    BY <1>1, FS_Interval
  <2>. QED
    BY <1>1, <2>1, FS_Subset, FS_CardinalityType
<1>3. found = 0 <=> At(kinds) = {}
  BY <1>2, FS_EmptySet
<1>4. ASSUME NEW n \in 1 .. len PROVE bus[Ascending(At(kinds))[n]] \in kinds
  <2>1. n \in 1 .. found
    BY <1>2
  <2>2. Ascending(At(kinds))[n] \in At(kinds)
    BY <1>1, <2>1, AscendingIs
  <2>. QED
    BY <2>2 DEF At
<1>5. FirstOf(kinds, most) = [n \in 1 .. len |-> bus[Ascending(At(kinds))[n]]]
  BY DEF FirstOf
<1>6. len \in Nat /\ len <= most /\ (most > 0 => (len = 0 <=> found = 0))
  BY <1>2
<1> HIDE DEF len, found, m
<1>7. FirstOf(kinds, most) \in Seq(kinds) /\ Len(FirstOf(kinds, most)) = len
  BY <1>4, <1>5, <1>6
<1>. QED
  BY <1>3, <1>6, <1>7

-----------------------------------------------------------------------------
(* The inductive invariant                                                 *)

(* What the variables hold, also when the driver is out of step.           *)
RxFrames == {NoFrame} \cup [id : Nat, kind : Kinds, octet : Octets]
TxFrames == [frame : Nat, dd : BOOLEAN]
Packets == {Junk} \cup [size : Sizes, frame : JunkFrames]
Registers == [rdh : Slots, rdt : Slots, tdh : Slots, tdt : Slots, link : BOOLEAN]
Bounds == [frames : Nat, sends : Nat, scans : Nat]
Cpus == {[at |-> "boot"], Desktop, [at |-> "rtl"]}
        \cup [at : {"rx"}, i : 0 .. RingSize, last : Slots]
        \cup [at : {"tx"}, slot : Slots, frame : Nat]
        \cup [at : {"sent"}, frame : Nat]
Addresses == Octets \cup {0} \cup {Signed(o) : o \in Octets}
Configs == [ip : Addresses, mask : {"default", "offered"}, gateway : 0 .. 255]

CardTypes ==
  /\ intel_mem_base \in BOOLEAN /\ in_step \in BOOLEAN
  /\ e1000_rx_ring \in [Slots -> RxFrames]
  /\ e1000_tx_ring \in [Slots -> TxFrames]
  /\ rx_cur_intel \in Slots /\ tx_cur_intel \in Slots /\ reg \in Registers
  /\ received \in Nat /\ seen \in Seq(Nat) /\ wire \in Nat

RtlTypes ==
  /\ rtl_io_base \in BOOLEAN /\ lap \in BOOLEAN
  /\ rx_buffer_rtl \in [Places -> Packets]
  /\ rx_idx_rtl \in 0 .. BufferSize
  /\ cbr \in 0 .. BufferSize - 1 /\ capr \in 0 .. BufferSize - 1
  /\ unread \in Seq(0 .. BufferSize - 1)

NetTypes ==
  /\ cpu \in Cpus /\ left \in Bounds /\ config \in Configs

(* The receive ring: from the driver's place on lie the frames the card    *)
(* took and the driver did not see, then descriptors without DD; RDT keeps *)
(* a descriptor behind the driver's place, and while the driver's loop     *)
(* runs last_processed is the one right behind it.                         *)
New == Distance(rx_cur_intel, reg.rdh)
Unfilled == Distance(reg.rdh, reg.rdt)
RxInv ==
  in_step =>
    /\ received = Len(seen) + New
    /\ New + Unfilled <= RingSize - 1
    /\ \A i \in 1 .. Len(seen) : seen[i] = i
    /\ \A i \in 1 .. New : e1000_rx_ring[Nth(rx_cur_intel, i)].id = Len(seen) + i
    /\ \A i \in New + 1 .. RingSize :
         e1000_rx_ring[Nth(rx_cur_intel, i)] = NoFrame
    /\ cpu.at = "rx" /\ cpu.i > 0 => After(cpu.last) = rx_cur_intel

(* The send ring: what waits in it was given in the order in which it      *)
(* lies, after all that left and before all that will be given.  A frame   *)
(* whose DD the driver polls for is the last one given; with DD it has     *)
(* just left and the ring is empty.                                        *)
Waiting == Distance(reg.tdh, reg.tdt)
Given(i) == e1000_tx_ring[Nth(reg.tdh, i)].frame
TxInv ==
  /\ reg.tdt = tx_cur_intel
  /\ left.sends <= wire
  /\ \A i \in 1 .. Waiting : left.sends <= Given(i) /\ Given(i) <= wire
  /\ \A i, j \in 1 .. Waiting : i <= j => Given(j) <= Given(i)
  /\ cpu.at = "tx" =>
       /\ After(cpu.slot) = tx_cur_intel
       /\ e1000_tx_ring[cpu.slot].frame = cpu.frame
       /\ e1000_tx_ring[cpu.slot].dd => Waiting = 0 /\ wire = cpu.frame
  /\ cpu.at = "sent" => Waiting = 0 /\ wire = cpu.frame

(* The receive buffer in the first lap: the packets not yet seen lie one   *)
(* behind the other from the driver's place, which is CAPR, to the card's. *)
Ahead(place) == IF place >= capr THEN place - capr ELSE place + BufferSize - capr
SizeAt(i) == rx_buffer_rtl[unread[i]].size
RtlInv ==
  rtl_io_base /\ ~lap =>
    /\ capr = rx_idx_rtl
    /\ unread = <<>> => cbr = capr
    /\ unread # <<>> => /\ unread[1] = capr
                        /\ Ahead(cbr) = Ahead(unread[Len(unread)]) + SizeAt(Len(unread))
    /\ \A i \in 1 .. Len(unread) : rx_buffer_rtl[unread[i]] # Junk
    /\ \A i \in 1 .. Len(unread) - 1 :
         Ahead(unread[i + 1]) = Ahead(unread[i]) + SizeAt(i)
    /\ \A i \in 1 .. Len(unread) : Ahead(unread[i]) + SizeAt(i) <= Ahead(cbr)
    /\ \A i, j \in 1 .. Len(unread) :
         i < j => Ahead(unread[i]) + SizeAt(i) <= Ahead(unread[j])

(* The lists of the scan: empty, or those of the bus.                      *)
PciInv ==
  /\ kernel \in {"OS1", "OS2"} /\ bus \in Seq(Functions)
  /\ found_nics \in {<<>>, FirstOf(Nics, 5)}
  /\ storage_list \in {<<>>, FirstOf(Storage, 4)}
  /\ gpu_list \in {<<>>, FirstOf({"gpu"}, 2)}
  /\ active_nic_idx \in 0 .. Len(found_nics)
  /\ current_storage_idx \in Nat /\ current_gpu_idx \in Nat
  /\ current_storage_idx = 0 \/ current_storage_idx < Len(storage_list)
  /\ current_gpu_idx = 0 \/ current_gpu_idx < Len(gpu_list)

NetInv == /\ CardTypes /\ RtlTypes /\ NetTypes /\ PciInv
          /\ RxInv /\ TxInv /\ RtlInv

-----------------------------------------------------------------------------
(* The scan of the bus                                                     *)

(* A step scans, shows the next entry, or leaves the lists alone.          *)
LEMMA ScanSteps ==
  ASSUME [Next]_vars
  PROVE  UNCHANGED pciVars \/ pci_scan_all \/ pci_scan_e1000 \/ ShowNext
<1>1. CASE UNCHANGED vars
  BY <1>1 DEF vars, pciVars
<1>2. CASE Boot \/ Install \/ Scan
  BY <1>2 DEF Boot, Install, Scan
<1>3. CASE \/ check_incoming \/ CheckRtl \/ e1000_check_rx \/ RxLoopEnds
           \/ TxDone \/ TxTimeout \/ Returns
  BY <1>3 DEF check_incoming, CheckRtl, e1000_check_rx, RxLoopEnds, TxDone,
              TxTimeout, Returns
<1>4. CASE Broadcast \/ send_dhcp_discover \/ apply_static_ip \/ Arrives \/ CardWorks
  BY <1>4 DEF Broadcast, send_dhcp_discover, apply_static_ip, Arrives, CardWorks
<1>. QED
  BY <1>1, <1>2, <1>3, <1>4 DEF Next, Loop, User, Hardware

LEMMA ListsAre ==
  ASSUME PciInv
  PROVE  /\ FirstOf(Nics, 5) \in Seq(Nics) /\ Len(FirstOf(Nics, 5)) <= 5
         /\ FirstOf(Storage, 4) \in Seq(Storage) /\ FirstOf({"gpu"}, 2) \in Seq({"gpu"})
         /\ FirstOf(Nics, 5) = <<>> <=> At(Nics) = {}
         /\ found_nics \in Seq(Nics) /\ Len(found_nics) <= 5
         /\ storage_list \in Seq(Storage) /\ gpu_list \in Seq({"gpu"})
<1>1. bus \in Seq(Functions)
  BY DEF PciInv
<1>2. Nics \in SUBSET Functions /\ Storage \in SUBSET Functions
      /\ {"gpu"} \in SUBSET Functions /\ 2 \in Nat /\ 4 \in Nat /\ 5 \in Nat
      /\ 5 > 0
  BY DEF Functions
<1>3. FirstOf(Nics, 5) \in Seq(Nics) /\ Len(FirstOf(Nics, 5)) <= 5
      /\ (FirstOf(Nics, 5) = <<>> <=> At(Nics) = {})
  BY <1>1, <1>2, FirstOfIs
<1>4. FirstOf(Storage, 4) \in Seq(Storage)
  BY <1>1, <1>2, FirstOfIs
<1>5. FirstOf({"gpu"}, 2) \in Seq({"gpu"})
  BY <1>1, <1>2, FirstOfIs
<1>6. \A T : <<>> \in Seq(T) /\ Len(<<>>) = 0
  OBVIOUS
<1>7. <<>> \in Seq(Nics) /\ <<>> \in Seq(Storage) /\ <<>> \in Seq({"gpu"})
  BY <1>6
<1>8. /\ found_nics = <<>> \/ found_nics = FirstOf(Nics, 5)
      /\ storage_list = <<>> \/ storage_list = FirstOf(Storage, 4)
      /\ gpu_list = <<>> \/ gpu_list = FirstOf({"gpu"}, 2)
  BY DEF PciInv
<1>9. found_nics \in Seq(Nics)
  BY <1>3, <1>7, <1>8, Zenon
<1>10. Len(<<>>) <= 5
  BY <1>6
<1>11. Len(found_nics) <= 5
  BY <1>3, <1>10, <1>8, Zenon
<1>12. storage_list \in Seq(Storage) /\ gpu_list \in Seq({"gpu"})
  BY <1>4, <1>5, <1>7, <1>8, Zenon
<1>. QED
  BY <1>3, <1>4, <1>5, <1>9, <1>11, <1>12

LEMMA PciKept ==
  ASSUME PciInv, [Next]_vars
  PROVE  PciInv'
<1>. DEFINE nics == FirstOf(Nics, 5)
            disks == FirstOf(Storage, 4)
            gpus == FirstOf({"gpu"}, 2)
<1>1. /\ nics \in Seq(Nics) /\ disks \in Seq(Storage) /\ gpus \in Seq({"gpu"})
      /\ nics = <<>> <=> At(Nics) = {}
  BY ListsAre
<1>2. Len(nics) \in Nat /\ Len(disks) \in Nat /\ Len(gpus) \in Nat
      /\ (Len(nics) = 0 <=> nics = <<>>)
  BY <1>1
<1>3. kernel' = kernel /\ bus' = bus
  BY ScanSteps DEF pciVars, pci_scan_all, pci_scan_e1000, ShowNext
<1>4. nics' = nics /\ disks' = disks /\ gpus' = gpus
  BY <1>3 DEF FirstOf, At
<1>5. CASE UNCHANGED pciVars \/ pci_scan_e1000
  BY <1>3, <1>4, <1>5 DEF pciVars, pci_scan_e1000, PciInv
<1>6. CASE pci_scan_all
  <2>1. /\ found_nics' = nics /\ storage_list' = disks /\ gpu_list' = gpus
        /\ active_nic_idx' = IF At(Nics) = {} THEN active_nic_idx ELSE 1
        /\ current_storage_idx' = current_storage_idx
        /\ current_gpu_idx' = current_gpu_idx
    BY <1>6 DEF pci_scan_all
  <2>2. active_nic_idx' \in 0 .. Len(nics)
    BY <1>1, <1>2, <2>1 DEF PciInv
  <2>3. /\ current_storage_idx = 0 \/ current_storage_idx < Len(disks)
        /\ current_gpu_idx = 0 \/ current_gpu_idx < Len(gpus)
    BY <1>2 DEF PciInv
  <2>. QED
    BY <1>3, <1>4, <2>1, <2>2, <2>3 DEF PciInv
<1>7. CASE ShowNext
  <2>1. /\ UNCHANGED <<found_nics, active_nic_idx, storage_list, gpu_list>>
        /\ current_storage_idx' = NextShown(current_storage_idx, storage_list)
        /\ current_gpu_idx' = NextShown(current_gpu_idx, gpu_list)
    BY <1>7 DEF ShowNext
  <2>2. storage_list \in Seq(Storage) /\ gpu_list \in Seq({"gpu"})
    BY ListsAre
  <2>3. ASSUME NEW i \in Nat, NEW T, NEW list \in Seq(T), i = 0 \/ i < Len(list)
        PROVE  /\ NextShown(i, list) \in Nat
               /\ NextShown(i, list) = 0 \/ NextShown(i, list) < Len(list)
    <3>1. CASE list = <<>>
      BY <2>3, <3>1 DEF NextShown
    <3>2. CASE list # <<>>
      <4>1. Len(list) \in Nat /\ Len(list) > 0
        BY <3>2
      <4>2. (i + 1) % Len(list) \in 0 .. Len(list) - 1
        BY <4>1
      <4>. QED
        BY <3>2, <4>1, <4>2 DEF NextShown
    <3>. QED
      BY <3>1, <3>2
  <2>4. /\ current_storage_idx' \in Nat /\ current_gpu_idx' \in Nat
        /\ current_storage_idx' = 0 \/ current_storage_idx' < Len(storage_list)
        /\ current_gpu_idx' = 0 \/ current_gpu_idx' < Len(gpu_list)
    BY <2>1, <2>2, <2>3 DEF PciInv
  <2>. QED
    BY <1>3, <1>4, <2>1, <2>4 DEF PciInv
<1>. QED
  BY <1>5, <1>6, <1>7, ScanSteps

LEMMA PciMeans ==
  ASSUME PciInv
  PROVE  PciTypeOK
BY ListsAre DEF PciInv, PciTypeOK

-----------------------------------------------------------------------------
(* The RTL card and its driver                                             *)

(* What a step does to the receiving side.                                 *)
RtlRests == UNCHANGED <<rtl_io_base, rx_buffer_rtl, rx_idx_rtl, cbr, capr, unread, lap>>
RtlLooks == rtl_io_base /\ ~BufferEmpty

LEMMA RtlPartIs ==
  ASSUME RtlPart
  PROVE  \/ RtlRests
         \/ RtlLooks /\ rx_buffer_rtl[rx_idx_rtl] = Junk /\ NoPacketHere
         \/ RtlLooks /\ \E packet \in PacketsAtIndex(JunkFrames) :
                          IndexAdvanced(packet.size)
BY DEF RtlPart, RtlRests, RtlLooks, rtlVars, rtlRxVars

LEMMA RtlSteps ==
  ASSUME [Next]_vars
  PROVE  \/ RtlRests
         \/ \E frame \in JunkFrames, size \in Sizes : RtlReceives(frame, size)
         \/ rtl8139_init
         \/ RtlLooks /\ rx_buffer_rtl[rx_idx_rtl] = Junk /\ NoPacketHere
         \/ RtlLooks /\ \E packet \in PacketsAtIndex(JunkFrames) :
                          IndexAdvanced(packet.size)
<1>1. CASE UNCHANGED vars
  BY <1>1 DEF vars, rtlVars, rtlRxVars, RtlRests
<1>2. CASE Boot \/ Install \/ Scan
  BY <1>2 DEF Boot, Install, Scan, nic_select_next, rtlVars, rtlRxVars, RtlRests
<1>3. CASE check_incoming \/ CheckRtl
  <2>1. RtlPart \/ UNCHANGED rtlVars
    BY <1>3 DEF check_incoming, CheckRtl
  <2>. QED
    BY <2>1, RtlPartIs DEF rtlVars, rtlRxVars, RtlRests
<1>4. CASE e1000_check_rx \/ RxLoopEnds \/ TxDone \/ TxTimeout \/ Returns
  BY <1>4 DEF e1000_check_rx, RxLoopEnds, TxDone, TxTimeout, Returns, rtlVars,
              rtlRxVars, RtlRests
<1>5. CASE Broadcast \/ send_dhcp_discover \/ apply_static_ip
  BY <1>5 DEF Broadcast, send_dhcp_discover, apply_static_ip, rtlRxVars, RtlRests
<1>6. CASE Arrives
  <2>1. CASE UNCHANGED rtlVars
    BY <2>1 DEF rtlVars, rtlRxVars, RtlRests
  <2>2. ASSUME NEW kind \in Kinds, NEW octet \in Octets, NEW size \in Sizes,
               RtlReceives([kind |-> kind, octet |-> octet], size)
        PROVE  \E frame \in JunkFrames : RtlReceives(frame, size)
    BY <2>2 DEF JunkFrames
  <2>. QED
    BY <1>6, <2>1, <2>2 DEF Arrives
<1>7. CASE CardWorks
  BY <1>7 DEF CardWorks, RtlSends, rtlVars, rtlRxVars, RtlRests
<1>. QED
  BY <1>1, <1>2, <1>3, <1>4, <1>5, <1>6, <1>7 DEF Next, Loop, User, Hardware

(* A remainder of something in the first two laps.                         *)
LEMMA Wraps ==
  ASSUME NEW x \in Int
  PROVE  /\ x % BufferSize \in 0 .. BufferSize - 1
         /\ 0 <= x /\ x < BufferSize => x % BufferSize = x
         /\ BufferSize <= x /\ x < BufferSize + BufferSize
              => x % BufferSize = x - BufferSize
         /\ -BufferSize <= x /\ x < 0 => x % BufferSize = x + BufferSize
BY SizesAssumption

LEMMA RtlTypesKept ==
  ASSUME RtlTypes, [Next]_vars
  PROVE  RtlTypes'
<1>0. BufferSize \in Nat /\ BufferSize > 0 /\ \A size \in Sizes : size \in 1 .. BufferSize - 1
  BY SizesAssumption
<1>1. CASE RtlRests
  BY <1>1 DEF RtlRests, RtlTypes
<1>2. ASSUME NEW frame \in JunkFrames, NEW size \in Sizes, RtlReceives(frame, size)
      PROVE  RtlTypes'
  <2>1. rx_buffer_rtl' \in [Places -> Packets]
    <3>1. [size |-> size, frame |-> frame] \in Packets /\ Junk \in Packets
      BY DEF Packets
    <3>2. \A p \in Places : rx_buffer_rtl[p] \in Packets
      BY DEF RtlTypes
    <3>. QED
      BY <1>2, <3>1, <3>2 DEF RtlReceives
  <2>2. cbr + size \in Int
    BY <1>0 DEF RtlTypes
  <2>3. cbr' \in 0 .. BufferSize - 1
    BY <1>2, <2>2, Wraps DEF RtlReceives
  <2>4. unread' \in Seq(0 .. BufferSize - 1)
    BY <1>2 DEF RtlReceives, RtlTypes
  <2>. QED
    BY <1>2, <2>1, <2>3, <2>4 DEF RtlReceives, RtlTypes
<1>3. CASE rtl8139_init
  BY <1>0, <1>3 DEF rtl8139_init, RtlTypes
<1>4. CASE NoPacketHere
  <2>1. capr' \in 0 .. BufferSize - 1
    BY <1>4, Wraps DEF NoPacketHere, RtlTypes
  <2>. QED
    BY <1>4, <2>1 DEF NoPacketHere, RtlTypes
<1>5. ASSUME NEW packet \in PacketsAtIndex(JunkFrames), IndexAdvanced(packet.size)
      PROVE  RtlTypes'
  <2>1. packet.size \in Sizes
    <3>1. rx_buffer_rtl[rx_idx_rtl] \in Packets
      BY <1>0 DEF RtlTypes, Places
    <3>2. rx_buffer_rtl[rx_idx_rtl] # Junk => rx_buffer_rtl[rx_idx_rtl].size \in Sizes
      BY <3>1 DEF Packets
    <3>. QED
      BY <3>2 DEF PacketsAtIndex
  <2>2. NextIndex(packet.size) \in 0 .. BufferSize
    BY <1>0, <2>1 DEF NextIndex, RtlTypes
  <2>3. capr' \in 0 .. BufferSize - 1
    BY <1>5, <2>2, Wraps DEF IndexAdvanced
  <2>4. unread' \in Seq(0 .. BufferSize - 1)
    <3>1. unread \in Seq(0 .. BufferSize - 1)
      BY DEF RtlTypes
    <3>2. unread # <<>> => Tail(unread) \in Seq(0 .. BufferSize - 1)
      BY <3>1
    <3>. QED
      BY <1>5, <3>1, <3>2 DEF IndexAdvanced
  <2>5. lap' \in BOOLEAN
    BY <1>5 DEF IndexAdvanced, RtlTypes
  <2>. QED
    BY <1>5, <2>2, <2>3, <2>4, <2>5 DEF IndexAdvanced, RtlTypes
<1>. QED
  BY <1>1, <1>2, <1>3, <1>4, <1>5, RtlSteps

(* What is ahead of the driver's place, when the card is in use in its     *)
(* first lap.                                                              *)
LEMMA AheadIs ==
  ASSUME RtlTypes, NEW p \in 0 .. BufferSize - 1
  PROVE  /\ Ahead(p) \in 0 .. BufferSize - 1
         /\ Ahead(p) = 0 <=> p = capr
BY SizesAssumption DEF RtlTypes, Ahead

LEMMA ElementIs ==
  ASSUME NEW T, NEW q \in Seq(T), NEW i \in 1 .. Len(q)
  PROVE  q[i] \in T
OBVIOUS

LEMMA UnreadIs ==
  ASSUME RtlTypes, RtlInv, rtl_io_base, ~lap
  PROVE  /\ Len(unread) \in Nat
         /\ \A i \in 1 .. Len(unread) :
              /\ unread[i] \in 0 .. BufferSize - 1
              /\ Ahead(unread[i]) \in Nat
              /\ SizeAt(i) \in 1 .. BufferSize - 1
              /\ Ahead(unread[i]) < Ahead(cbr)
         /\ Ahead(cbr) \in 0 .. BufferSize - 1
         /\ unread # <<>> => 1 \in 1 .. Len(unread)
<1>0. BufferSize \in Nat /\ \A size \in Sizes : size \in 1 .. BufferSize - 1
  BY SizesAssumption
<1>1. unread \in Seq(0 .. BufferSize - 1) /\ cbr \in 0 .. BufferSize - 1
  BY DEF RtlTypes
<1>2. Ahead(cbr) \in 0 .. BufferSize - 1
  BY <1>1, AheadIs
<1>3. ASSUME NEW i \in 1 .. Len(unread)
      PROVE  /\ unread[i] \in 0 .. BufferSize - 1
             /\ Ahead(unread[i]) \in Nat
             /\ SizeAt(i) \in 1 .. BufferSize - 1
             /\ Ahead(unread[i]) < Ahead(cbr)
  <2>1. unread[i] \in 0 .. BufferSize - 1
    BY <1>1, ElementIs
  <2>2. Ahead(unread[i]) \in 0 .. BufferSize - 1
    BY <2>1, AheadIs
  <2>3. rx_buffer_rtl[unread[i]] \in Packets /\ rx_buffer_rtl[unread[i]] # Junk
    BY <1>0, <2>1 DEF RtlTypes, RtlInv, Places
  <2>4. SizeAt(i) \in Sizes
    BY <2>3 DEF Packets, SizeAt
  <2>5. Ahead(unread[i]) + SizeAt(i) <= Ahead(cbr)
    BY DEF RtlInv
  <2>. QED
    BY <1>0, <1>2, <2>1, <2>2, <2>4, <2>5
<1>. QED
  BY <1>1, <1>2, <1>3

LEMMA IndexKept ==
  ASSUME RtlTypes, RtlInv, RtlLooks,
         NEW packet \in PacketsAtIndex(JunkFrames), IndexAdvanced(packet.size)
  PROVE  RtlInv'
<1>. SUFFICES ASSUME ~lap' PROVE RtlInv'
  BY DEF RtlInv
<1>. DEFINE s == packet.size
<1>. PICK n \in Nat : n = Len(unread)
  BY DEF RtlTypes
<1>0. BufferSize \in Nat /\ \A size \in Sizes : size \in 1 .. BufferSize - 1
  BY SizesAssumption
<1>1. /\ rtl_io_base /\ ~lap /\ rx_idx_rtl + s < BufferSize
      /\ ~ (rx_idx_rtl + s >= BufferSize)
  <2>1. packet.size \in Int /\ rx_idx_rtl \in Int
    <3>1. rx_buffer_rtl[rx_idx_rtl] \in Packets /\ rx_idx_rtl \in Int
      BY <1>0 DEF RtlTypes, Places
    <3>. QED
      BY <1>0, <3>1 DEF PacketsAtIndex, Packets, Junk
  <2>2. ~lap /\ ~ (rx_idx_rtl + s >= BufferSize)
    BY DEF IndexAdvanced
  <2>. QED
    BY <1>0, <2>1, <2>2 DEF RtlLooks
<1>2. /\ unread # <<>> /\ unread[1] = capr /\ capr = rx_idx_rtl
      /\ rx_buffer_rtl[capr] # Junk /\ SizeAt(1) = s /\ s \in 1 .. BufferSize - 1
      /\ n \in Nat /\ n >= 1 /\ Ahead(unread[1]) = 0
  <2>1. unread # <<>> /\ capr = rx_idx_rtl
    BY <1>1 DEF RtlInv, RtlLooks, BufferEmpty
  <2>2. 1 \in 1 .. n /\ n \in Nat /\ n >= 1
    BY <1>1, <2>1, UnreadIs
  <2>3. unread[1] = capr /\ rx_buffer_rtl[unread[1]] # Junk
    BY <1>1, <2>1, <2>2 DEF RtlInv
  <2>4. packet = rx_buffer_rtl[capr]
    BY <2>1, <2>3 DEF PacketsAtIndex
  <2>5. SizeAt(1) = s
    BY <2>3, <2>4 DEF SizeAt
  <2>6. SizeAt(1) \in 1 .. BufferSize - 1
    BY <1>1, <2>2, UnreadIs
  <2>7. Ahead(unread[1]) = 0
    BY <2>3, <1>0 DEF RtlTypes, Ahead
  <2>. QED
    BY <2>1, <2>2, <2>3, <2>5, <2>6, <2>7
<1>3. /\ rx_idx_rtl' = capr + s /\ capr' = capr + s /\ capr + s < BufferSize
      /\ unread' = Tail(unread) /\ rx_buffer_rtl' = rx_buffer_rtl /\ cbr' = cbr
  <2>1. capr \in 0 .. BufferSize - 1
    BY DEF RtlTypes
  <2>2. NextIndex(s) = capr + s /\ capr + s \in Int
        /\ 0 <= capr + s /\ capr + s < BufferSize
    BY <1>0, <1>1, <1>2, <2>1 DEF NextIndex
  <2>3. (capr + s) % BufferSize = capr + s
    BY <2>2, Wraps
  <2>. QED
    BY <1>1, <1>2, <2>2, <2>3 DEF IndexAdvanced
<1>4. ASSUME NEW p \in 0 .. BufferSize - 1, Ahead(p) >= s
      PROVE  Ahead(p)' = Ahead(p) - s
  <2>1. capr \in 0 .. BufferSize - 1
    BY DEF RtlTypes
  <2>. QED
    BY <1>0, <1>2, <1>3, <1>4, <2>1 DEF Ahead
<1>5. /\ unread \in Seq(0 .. BufferSize - 1) /\ Len(unread') = n - 1
      /\ \A i \in 1 .. n - 1 : i + 1 \in 1 .. n /\ unread'[i] = unread[i + 1]
  BY <1>2, <1>3 DEF RtlTypes
<1>6. \A i \in 1 .. n - 1 : SizeAt(i)' = SizeAt(i + 1)
  BY <1>3, <1>5 DEF SizeAt
<1>7. \A i \in 1 .. n : /\ unread[i] \in 0 .. BufferSize - 1
                        /\ Ahead(unread[i]) \in Nat
                        /\ SizeAt(i) \in 1 .. BufferSize - 1
  BY <1>1, UnreadIs
<1>8. \A i \in 1 .. n - 1 : Ahead(unread[i + 1]) >= s
  <2>1. \A i \in 1 .. n - 1 : Ahead(unread[1]) + SizeAt(1) <= Ahead(unread[i + 1])
    <3>1. \A i \in 1 .. n - 1 : i + 1 \in 1 .. n /\ 1 \in 1 .. n /\ 1 < i + 1
      BY <1>2
    <3>. QED
      BY <1>1, <3>1 DEF RtlInv
  <2>. QED
    BY <1>2, <1>5, <1>7, <2>1
<1>9. \A i \in 1 .. n - 1 : Ahead(unread[i])' = Ahead(unread[i + 1]) - s
  <2>1. ASSUME NEW i \in 1 .. n - 1 PROVE Ahead(unread[i])' = Ahead(unread[i + 1]) - s
    <3>1. PICK p \in 0 .. BufferSize - 1 : p = unread[i + 1]
      BY <1>5, <1>7
    <3>2. Ahead(p)' = Ahead(p) - s
      BY <1>4, <1>8, <3>1
    <3>3. Ahead(unread[i])' = Ahead(p)'
      BY <3>1, <1>5 DEF Ahead
    <3>. QED
      BY <3>1, <3>2, <3>3
  <2>. QED
    BY <2>1
<1>10. Ahead(cbr)' = Ahead(cbr) - s /\ Ahead(cbr) >= s /\ Ahead(cbr) \in Nat
  <2>1. 1 \in 1 .. n
    BY <1>2
  <2>2. Ahead(unread[1]) + SizeAt(1) <= Ahead(cbr)
    BY <1>1, <2>1 DEF RtlInv
  <2>3. Ahead(cbr) \in 0 .. BufferSize - 1 /\ cbr \in 0 .. BufferSize - 1
    BY <1>1, UnreadIs DEF RtlTypes
  <2>4. PICK p \in 0 .. BufferSize - 1 : p = cbr
    BY <2>3
  <2>5. Ahead(p) >= s
    BY <2>2, <2>3, <2>4, <1>2
  <2>6. Ahead(p)' = Ahead(p) - s
    BY <1>4, <2>5
  <2>7. Ahead(cbr)' = Ahead(p)'
    BY <2>4, <1>3 DEF Ahead
  <2>. QED
    BY <2>3, <2>4, <2>5, <2>6, <2>7
<1>. HIDE DEF s
<1>11. capr' = rx_idx_rtl'
  BY <1>3
<1>12. ASSUME unread' = <<>> PROVE cbr' = capr'
  <2>0. Len(unread') = 0
    BY <1>12
  <2>1. n = 1
    <3>1. n \in Int
      BY <1>2
    <3>2. n - 1 = 0
      BY <1>5, <2>0
    <3>3. \A x \in Int : x - 1 = 0 => x = 1
      OBVIOUS
    <3>. QED
      BY <3>1, <3>2, <3>3, Zenon
  <2>2. Ahead(cbr) = Ahead(unread[n]) + SizeAt(n)
    BY <1>1, <1>2 DEF RtlInv
  <2>3. Ahead(cbr)' = 0
    BY <1>2, <1>7, <1>10, <2>1, <2>2
  <2>4. cbr \in 0 .. BufferSize - 1 /\ capr' \in Nat /\ capr' < BufferSize
    BY <1>0, <1>2, <1>3 DEF RtlTypes
  <2>. QED
    BY <1>0, <1>3, <2>3, <2>4 DEF Ahead
<1>13. ASSUME unread' # <<>>
       PROVE  /\ unread'[1] = capr'
              /\ Ahead(cbr)' = Ahead(unread[Len(unread)])' + SizeAt(Len(unread))'
  <2>1. n > 1 /\ n - 1 \in 1 .. n - 1 /\ 1 \in 1 .. n - 1 /\ n \in 1 .. n
    <3>1. unread' \in Seq(0 .. BufferSize - 1)
      BY <1>2, <1>3, <1>5
    <3>. QED
      BY <1>2, <1>5, <1>13, <3>1
  <2>2. Ahead(cbr) = Ahead(unread[n]) + SizeAt(n)
    BY <1>1, <1>2 DEF RtlInv
  <2>3. /\ Ahead(unread[n - 1])' = Ahead(unread[n]) - s
        /\ SizeAt(n - 1)' = SizeAt(n)
    <3>1. (n - 1) + 1 = n
      BY <1>2
    <3>2. /\ Ahead(unread[n - 1])' = Ahead(unread[(n - 1) + 1]) - s
          /\ SizeAt(n - 1)' = SizeAt((n - 1) + 1)
      BY <1>6, <1>9, <2>1
    <3>. QED
      BY <3>1, <3>2
  <2>4. Ahead(cbr)' = Ahead(unread[n - 1])' + SizeAt(n - 1)'
    BY <1>2, <1>7, <1>10, <2>1, <2>2, <2>3
  <2>5. Ahead(unread[1])' = Ahead(unread[2]) - s
    BY <1>9, <2>1
  <2>6. Ahead(unread[1 + 1]) = Ahead(unread[1]) + SizeAt(1)
    BY <1>1, <2>1 DEF RtlInv
  <2>7. Ahead(unread[1])' = 0
    BY <1>2, <2>5, <2>6
  <2>8. unread'[1] \in 0 .. BufferSize - 1 /\ capr' \in Nat /\ capr' < BufferSize
    BY <1>0, <1>2, <1>3, <1>5, <1>7, <2>1 DEF RtlTypes
  <2>9. unread'[1] = capr'
    BY <1>0, <2>7, <2>8 DEF Ahead
  <2>. QED
    BY <1>5, <2>4, <2>9
<1>14. \A i \in 1 .. n - 1 : rx_buffer_rtl'[unread'[i]] # Junk
  BY <1>1, <1>3, <1>5 DEF RtlInv
<1>15. ASSUME NEW i \in 1 .. n - 1 - 1
       PROVE  Ahead(unread[i + 1])' = Ahead(unread[i])' + SizeAt(i)'
  <2>1. i \in 1 .. n - 1 /\ i + 1 \in 1 .. n - 1 /\ i + 1 \in 1 .. n /\ i + 1 + 1 \in 1 .. n
    BY <1>2
  <2>2. Ahead(unread[(i + 1) + 1]) = Ahead(unread[i + 1]) + SizeAt(i + 1)
    BY <1>1, <2>1 DEF RtlInv
  <2>3. /\ Ahead(unread[i])' = Ahead(unread[i + 1]) - s
        /\ Ahead(unread[i + 1])' = Ahead(unread[(i + 1) + 1]) - s
        /\ SizeAt(i)' = SizeAt(i + 1)
    BY <1>6, <1>9, <2>1
  <2>4. Ahead(unread[i + 1]) \in Nat /\ SizeAt(i + 1) \in Nat
    BY <1>7, <2>1
  <2>. QED
    BY <1>2, <2>2, <2>3, <2>4
<1>16. ASSUME NEW i \in 1 .. n - 1
       PROVE  Ahead(unread[i])' + SizeAt(i)' <= Ahead(cbr)'
  <2>1. i + 1 \in 1 .. n
    BY <1>2
  <2>2. Ahead(unread[i + 1]) + SizeAt(i + 1) <= Ahead(cbr)
    BY <1>1, <2>1 DEF RtlInv
  <2>4. Ahead(unread[i + 1]) \in Nat /\ SizeAt(i + 1) \in Nat
    BY <1>7, <2>1
  <2>5. Ahead(unread[i])' = Ahead(unread[i + 1]) - s /\ SizeAt(i)' = SizeAt(i + 1)
    BY <1>6, <1>9
  <2>. QED
    BY <1>2, <1>10, <2>2, <2>4, <2>5
<1>17. ASSUME NEW i \in 1 .. n - 1, NEW j \in 1 .. n - 1, i < j
       PROVE  Ahead(unread[i])' + SizeAt(i)' <= Ahead(unread[j])'
  <2>1. i + 1 \in 1 .. n /\ j + 1 \in 1 .. n /\ i + 1 < j + 1
    BY <1>2, <1>17
  <2>2. Ahead(unread[i + 1]) + SizeAt(i + 1) <= Ahead(unread[j + 1])
    BY <1>1, <2>1 DEF RtlInv
  <2>4. Ahead(unread[i + 1]) \in Nat /\ SizeAt(i + 1) \in Nat /\ Ahead(unread[j + 1]) \in Nat
    BY <1>7, <2>1
  <2>5. /\ Ahead(unread[i])' = Ahead(unread[i + 1]) - s /\ SizeAt(i)' = SizeAt(i + 1)
        /\ Ahead(unread[j])' = Ahead(unread[j + 1]) - s
    BY <1>6, <1>9
  <2>. QED
    BY <1>2, <2>2, <2>4, <2>5
<1>. QED
  BY <1>5, <1>11, <1>12, <1>13, <1>14, <1>15, <1>16, <1>17 DEF RtlInv

(* A packet that arrives goes behind the others and touches none of them.  *)
LEMMA ReceptionKept ==
  ASSUME RtlTypes, RtlInv, NEW frame, NEW s \in Sizes, RtlReceives(frame, s)
  PROVE  RtlInv'
<1>. SUFFICES ASSUME ~lap' PROVE RtlInv'
  BY DEF RtlInv
<1>. PICK n \in Nat : n = Len(unread)
  BY DEF RtlTypes
<1>0. /\ BufferSize \in Nat /\ s \in 1 .. BufferSize - 1
      /\ cbr \in 0 .. BufferSize - 1 /\ capr \in 0 .. BufferSize - 1
      /\ unread \in Seq(0 .. BufferSize - 1)
  BY SizesAssumption DEF RtlTypes
<1>1. rtl_io_base /\ ~lap
  BY DEF RtlReceives
<1>2. /\ capr' = capr /\ rx_idx_rtl' = rx_idx_rtl /\ unread' = Append(unread, cbr)
      /\ cbr' = (cbr + s) % BufferSize
      /\ rx_buffer_rtl' = [p \in Places |->
           IF p = cbr THEN [size |-> s, frame |-> frame]
           ELSE IF p \in cbr + 1 .. cbr + s - 1 THEN Junk ELSE rx_buffer_rtl[p]]
      /\ Room = 0 \/ s < Room
  BY DEF RtlReceives
<1>3. \A i \in 1 .. n : /\ unread[i] \in 0 .. BufferSize - 1
                        /\ Ahead(unread[i]) \in Nat
                        /\ SizeAt(i) \in 1 .. BufferSize - 1
                        /\ Ahead(unread[i]) < Ahead(cbr)
                        /\ Ahead(unread[i]) + SizeAt(i) <= Ahead(cbr)
  BY <1>1, UnreadIs DEF RtlInv
<1>4. Ahead(cbr) \in Nat /\ Ahead(cbr) + s < BufferSize
  <2>1. CASE capr = cbr
    BY <1>0, <2>1 DEF Ahead
  <2>2. CASE capr # cbr
    <3>1. Room = IF cbr < capr THEN capr - cbr ELSE capr - cbr + BufferSize
      <4>1. capr - cbr \in Int
        BY <1>0
      <4>2. CASE cbr < capr
        <5>1. 0 <= capr - cbr /\ capr - cbr < BufferSize
          BY <1>0, <4>2
        <5>. QED
          BY <4>1, <4>2, <5>1, Wraps DEF Room
      <4>3. CASE cbr > capr
        <5>1. -BufferSize <= capr - cbr /\ capr - cbr < 0
          BY <1>0, <4>3
        <5>2. ~ (cbr < capr)
          BY <1>0, <4>3
        <5>. QED
          BY <4>1, <5>1, <5>2, Wraps DEF Room
      <4>. QED
        BY <1>0, <2>2, <4>2, <4>3
    <3>. QED
      BY <1>0, <1>2, <2>2, <3>1 DEF Ahead
  <2>. QED
    BY <2>1, <2>2
<1>5. cbr' \in 0 .. BufferSize - 1 /\ Ahead(cbr') = Ahead(cbr) + s
  <2>1. /\ cbr + s \in Int
        /\ cbr' = IF cbr + s < BufferSize THEN cbr + s ELSE cbr + s - BufferSize
    <3>1. CASE cbr + s < BufferSize
      <4>1. cbr + s \in Int /\ 0 <= cbr + s
        BY <1>0
      <4>. QED
        BY <1>2, <3>1, <4>1, Wraps
    <3>2. CASE ~ (cbr + s < BufferSize)
      <4>1. cbr + s \in Int /\ BufferSize <= cbr + s /\ cbr + s < BufferSize + BufferSize
        BY <1>0, <3>2
      <4>2. PICK x \in Int : x = cbr + s
        BY <4>1
      <4>3. x % BufferSize = x - BufferSize
        BY <4>1, <4>2, Wraps
      <4>. QED
        BY <1>0, <1>2, <3>2, <4>1, <4>2, <4>3
    <3>. QED
      BY <3>1, <3>2
  <2>. QED
    BY <1>0, <1>4, <2>1 DEF Ahead
<1>7. Ahead(cbr)' = Ahead(cbr) + s
  BY <1>2, <1>5 DEF Ahead
<1>8. /\ Len(unread') = n + 1 /\ unread'[n + 1] = cbr /\ unread' # <<>>
      /\ \A i \in 1 .. n : unread'[i] = unread[i]
  BY <1>0, <1>2
<1>9. ASSUME NEW i \in 1 .. n
      PROVE  /\ Ahead(unread[i])' = Ahead(unread[i])
             /\ SizeAt(i)' = SizeAt(i)
             /\ rx_buffer_rtl'[unread'[i]] = rx_buffer_rtl[unread[i]]
  <2>1. unread[i] \in 0 .. BufferSize - 1 /\ Ahead(unread[i]) < Ahead(cbr)
    BY <1>3
  <2>2. unread[i] # cbr /\ unread[i] \notin cbr + 1 .. cbr + s - 1
    BY <1>0, <1>4, <2>1 DEF Ahead
  <2>3. unread[i] \in Places
    BY <1>0, <2>1 DEF Places
  <2>4. rx_buffer_rtl'[unread[i]] = rx_buffer_rtl[unread[i]]
    BY <1>2, <2>2, <2>3
  <2>. QED
    BY <1>2, <1>8, <2>4 DEF Ahead, SizeAt
<1>10. /\ Ahead(unread[n + 1])' = Ahead(cbr)
       /\ SizeAt(n + 1)' = s
       /\ rx_buffer_rtl'[unread'[n + 1]] # Junk
  <2>1. cbr \in Places
    BY <1>0 DEF Places
  <2>2. rx_buffer_rtl'[cbr] = [size |-> s, frame |-> frame]
    BY <1>2, <2>1
  <2>3. [size |-> s, frame |-> frame] # Junk
    BY <1>0 DEF Junk
  <2>. QED
    BY <1>2, <1>8, <2>2, <2>3 DEF Ahead, SizeAt
<1>11. capr' = rx_idx_rtl'
  BY <1>1, <1>2 DEF RtlInv
<1>12. unread'[1] = capr'
  <2>1. CASE unread = <<>>
    <3>1. n = 0 /\ cbr = capr
      BY <1>1, <2>1 DEF RtlInv
    <3>. QED
      BY <1>2, <1>8, <3>1
  <2>2. CASE unread # <<>>
    <3>1. 1 \in 1 .. n
      BY <1>0, <2>2
    <3>. QED
      BY <1>1, <1>2, <1>8, <2>2, <3>1 DEF RtlInv
  <2>. QED
    BY <2>1, <2>2
<1>13. Ahead(cbr)' = Ahead(unread[Len(unread)])' + SizeAt(Len(unread))'
  BY <1>7, <1>8, <1>10
<1>14. ASSUME NEW i \in 1 .. n + 1 PROVE rx_buffer_rtl'[unread'[i]] # Junk
  <2>1. CASE i = n + 1
    BY <1>10, <2>1
  <2>2. CASE i \in 1 .. n
    BY <1>1, <1>9, <2>2 DEF RtlInv
  <2>. QED
    BY <2>1, <2>2
<1>15. ASSUME NEW i \in 1 .. n + 1 - 1
       PROVE  Ahead(unread[i + 1])' = Ahead(unread[i])' + SizeAt(i)'
  <2>1. CASE i = n
    <3>1. unread # <<>> /\ n \in 1 .. n
      BY <1>0, <2>1
    <3>2. Ahead(cbr) = Ahead(unread[n]) + SizeAt(n)
      BY <1>1, <3>1 DEF RtlInv
    <3>. QED
      BY <1>9, <1>10, <2>1, <3>1, <3>2
  <2>2. CASE i \in 1 .. n - 1
    <3>1. i \in 1 .. n /\ i + 1 \in 1 .. n
      BY <2>2
    <3>2. Ahead(unread[i + 1]) = Ahead(unread[i]) + SizeAt(i)
      BY <1>1, <2>2 DEF RtlInv
    <3>. QED
      BY <1>9, <3>1, <3>2
  <2>. QED
    BY <2>1, <2>2
<1>16. ASSUME NEW i \in 1 .. n + 1
       PROVE  Ahead(unread[i])' + SizeAt(i)' <= Ahead(cbr)'
  <2>1. CASE i = n + 1
    BY <1>0, <1>4, <1>7, <1>10, <2>1
  <2>2. CASE i \in 1 .. n
    <3>1. /\ Ahead(unread[i])' = Ahead(unread[i]) /\ SizeAt(i)' = SizeAt(i)
          /\ Ahead(unread[i]) \in Nat /\ SizeAt(i) \in 1 .. BufferSize - 1
          /\ Ahead(unread[i]) + SizeAt(i) <= Ahead(cbr)
      BY <1>3, <1>9, <2>2
    <3>. QED
      BY <1>0, <1>4, <1>7, <3>1
  <2>. QED
    BY <2>1, <2>2
<1>17. ASSUME NEW i \in 1 .. n + 1, NEW j \in 1 .. n + 1, i < j
       PROVE  Ahead(unread[i])' + SizeAt(i)' <= Ahead(unread[j])'
  <2>0. i \in 1 .. n
    BY <1>17
  <2>1. CASE j = n + 1
    <3>1. /\ Ahead(unread[i])' = Ahead(unread[i]) /\ SizeAt(i)' = SizeAt(i)
          /\ Ahead(unread[i]) + SizeAt(i) <= Ahead(cbr)
      BY <1>3, <1>9, <2>0
    <3>. QED
      BY <1>10, <2>1, <3>1
  <2>2. CASE j \in 1 .. n
    <3>1. Ahead(unread[i]) + SizeAt(i) <= Ahead(unread[j])
      BY <1>1, <1>17, <2>0, <2>2 DEF RtlInv
    <3>. QED
      BY <1>9, <2>0, <2>2, <3>1
  <2>. QED
    BY <2>1, <2>2
<1>. QED
  BY <1>8, <1>11, <1>12, <1>13, <1>14, <1>15, <1>16, <1>17 DEF RtlInv

LEMMA RtlKept ==
  ASSUME RtlTypes, RtlInv, [Next]_vars
  PROVE  RtlInv'
<1>1. CASE RtlRests
  BY <1>1 DEF RtlRests, RtlInv, Ahead, SizeAt
<1>2. CASE rtl8139_init
  <2>1. unread' = <<>> /\ cbr' = 0 /\ capr' = 0 /\ rx_idx_rtl' = rx_idx_rtl
        /\ (~lap' => rx_idx_rtl = 0) /\ Len(unread') = 0
    BY <1>2 DEF rtl8139_init
  <2>2. 1 .. Len(unread') = {} /\ 1 .. Len(unread') - 1 = {}
    BY <2>1
  <2>. QED
    BY <2>1, <2>2 DEF RtlInv
<1>3. CASE RtlLooks /\ rx_buffer_rtl[rx_idx_rtl] = Junk /\ NoPacketHere
  <2>1. lap
    <3>1. SUFFICES ASSUME ~lap PROVE FALSE
      OBVIOUS
    <3>2. unread # <<>> /\ unread[1] = capr /\ capr = rx_idx_rtl
      BY <1>3, <3>1 DEF RtlInv, RtlLooks, BufferEmpty
    <3>3. 1 \in 1 .. Len(unread)
      BY <1>3, <3>1, <3>2, UnreadIs DEF RtlLooks
    <3>. QED
      BY <1>3, <3>1, <3>2, <3>3 DEF RtlInv, RtlLooks
  <2>. QED
    BY <1>3, <2>1 DEF NoPacketHere, RtlInv
<1>. QED
  BY <1>1, <1>2, <1>3, RtlSteps, ReceptionKept, IndexKept

-----------------------------------------------------------------------------
(* The Intel card and its driver                                           *)

(* What a step does to the card's side.                                    *)
Turns == \/ cpu' = cpu \/ cpu' = Desktop \/ cpu' = [at |-> "rtl"]
         \/ cpu' = [at |-> "rx", i |-> 0, last |-> rx_cur_intel]
         \/ /\ cpu.at = "tx" /\ e1000_tx_ring[cpu.slot].dd
            /\ cpu' = [at |-> "sent", frame |-> cpu.frame]
CardRests == UNCHANGED cardVars /\ Turns /\ left'.sends <= left.sends
CardGets == /\ \E kind \in Kinds, octet \in Octets : CardReceives(kind, octet)
            /\ UNCHANGED cpu /\ left'.sends = left.sends
CardDoes == CardSends /\ UNCHANGED <<cpu, left>>
CableMoves == Cable /\ UNCHANGED <<cpu, left>>
CardStarts == intel_e1000_init /\ cpu' = Desktop /\ left'.sends = left.sends
FrameSeen == /\ cpu.at = "rx" /\ cpu.i < RingSize /\ FrameHandled
             /\ cpu' = [cpu EXCEPT !.i = @ + 1, !.last = rx_cur_intel]
             /\ UNCHANGED left
SlotsReturned == /\ cpu.at = "rx" /\ RdtWritten(cpu.i > 0, cpu.last)
                 /\ cpu' = [at |-> "rtl"] /\ UNCHANGED left
FrameGoes == /\ FrameGiven(left.sends)
             /\ cpu' = [at |-> "tx", slot |-> tx_cur_intel, frame |-> left.sends]
             /\ left'.sends <= left.sends

CardStep == \/ CardRests \/ CardGets \/ CardDoes \/ CableMoves \/ CardStarts
            \/ FrameSeen \/ SlotsReturned \/ FrameGoes

LEMMA CpuIs ==
  ASSUME cpu \in Cpus
  PROVE  /\ cpu.at \in Desktops
         /\ cpu.at = "boot" => cpu = [at |-> "boot"]
         /\ cpu.at = "rx" => cpu \in [at : {"rx"}, i : 0 .. RingSize, last : Slots]
         /\ cpu.at = "tx" => cpu \in [at : {"tx"}, slot : Slots, frame : Nat]
         /\ cpu.at = "sent" => cpu \in [at : {"sent"}, frame : Nat]
BY DEF Cpus, Desktops, Desktop

LEMMA LeftIs ==
  ASSUME NetTypes
  PROVE  left.frames \in Nat /\ left.sends \in Nat /\ left.scans \in Nat
         /\ left.sends <= left.sends
         /\ \A k \in Nat : /\ [left EXCEPT !.frames = k] \in Bounds
                           /\ [left EXCEPT !.frames = k].sends = left.sends
                           /\ [left EXCEPT !.scans = k] \in Bounds
                           /\ [left EXCEPT !.scans = k].sends = left.sends
                           /\ [left EXCEPT !.sends = k] \in Bounds
                           /\ [left EXCEPT !.sends = k].sends = k
BY DEF NetTypes, Bounds

LEMMA GivesIs ==
  ASSUME NetTypes, Gives
  PROVE  left' \in Bounds /\ left'.sends <= left.sends
<1>1. left' = [left EXCEPT !.sends = IF left.sends = 0 THEN 0 ELSE left.sends - 1]
  BY DEF Gives
<1>2. PICK k \in Nat : k = (IF left.sends = 0 THEN 0 ELSE left.sends - 1)
  BY LeftIs
<1>3. k <= left.sends
  BY <1>2, LeftIs
<1>. QED
  BY <1>1, <1>2, <1>3, LeftIs

LEMMA GivesSteps ==
  ASSUME NetTypes, Gives
  PROVE  CardRests \/ FrameGoes
<1>1. net_raw(left.sends)
  BY DEF Gives
<1>. QED
  BY <1>1, GivesIs DEF net_raw, CardRests, FrameGoes, Turns

LEMMA RtlPartSteps ==
  ASSUME NetTypes, RtlPart
  PROVE  CardRests \/ FrameGoes
<1>1. CASE Gives
  BY <1>1, GivesSteps
<1>2. CASE UNCHANGED <<cardVars, left>> /\ cpu' = Desktop
  BY <1>2, LeftIs DEF CardRests, Turns
<1>. QED
  BY <1>1, <1>2 DEF RtlPart

LEMMA CardSteps ==
  ASSUME NetTypes, [Next]_vars
  PROVE  CardStep
<1>1. CASE UNCHANGED vars
  BY <1>1, LeftIs DEF vars, netVars, CardStep, CardRests, Turns
<1>2. CASE Install \/ Scan
  <2>1. /\ cpu = Desktop /\ UNCHANGED cpu /\ left'.sends = left.sends
    <3>1. /\ cpu = Desktop /\ UNCHANGED cpu /\ left.scans > 0
          /\ left' = [left EXCEPT !.scans = left.scans - 1]
      BY <1>2 DEF Install, Scan, CanScan
    <3>2. left.scans - 1 \in Nat
      BY <3>1, LeftIs
    <3>. QED
      BY <3>1, <3>2, LeftIs
  <2>2. UNCHANGED cardVars \/ intel_e1000_init
    BY <1>2 DEF Install, Scan, nic_select_next
  <2>. QED
    BY <2>1, <2>2, LeftIs DEF CardStep, CardRests, CardStarts, Turns
<1>3. CASE Boot
  <2>1. cpu' = Desktop /\ left' = left
    BY <1>3 DEF Boot
  <2>2. UNCHANGED cardVars \/ intel_e1000_init
    BY <1>3 DEF Boot, nic_select_next
  <2>. QED
    BY <2>1, <2>2, LeftIs DEF CardStep, CardRests, CardStarts, Turns
<1>4. CASE check_incoming
  <2>1. CASE RtlPart
    BY <2>1, RtlPartSteps DEF CardStep
  <2>2. CASE /\ cpu' = [at |-> "rx", i |-> 0, last |-> rx_cur_intel]
             /\ UNCHANGED <<cardVars, left>>
    BY <2>2, LeftIs DEF CardStep, CardRests, Turns
  <2>. QED
    BY <1>4, <2>1, <2>2 DEF check_incoming
<1>5. CASE CheckRtl
  BY <1>5, RtlPartSteps DEF CheckRtl, CardStep
<1>6. CASE e1000_check_rx
  BY <1>6 DEF e1000_check_rx, CardStep, FrameSeen
<1>7. CASE RxLoopEnds
  BY <1>7 DEF RxLoopEnds, CardStep, SlotsReturned
<1>8. CASE TxDone \/ TxTimeout \/ Returns
  BY <1>8, LeftIs DEF TxDone, TxTimeout, Returns, CardStep, CardRests, Turns
<1>9. CASE Broadcast \/ send_dhcp_discover \/ apply_static_ip
  BY <1>9, GivesSteps DEF Broadcast, send_dhcp_discover, apply_static_ip, CardStep
<1>10. CASE Arrives
  <2>1. left'.sends = left.sends /\ UNCHANGED cpu
    <3>1. left' = [left EXCEPT !.frames = left.frames - 1] /\ left.frames > 0
      BY <1>10 DEF Arrives
    <3>2. left.frames - 1 \in Nat
      BY <3>1, LeftIs
    <3>. QED
      BY <1>10, <3>1, <3>2, LeftIs DEF Arrives
  <2>2. (\E kind \in Kinds, octet \in Octets : CardReceives(kind, octet))
        \/ UNCHANGED cardVars
    BY <1>10 DEF Arrives
  <2>. QED
    BY <2>1, <2>2, LeftIs DEF CardStep, CardRests, CardGets, Turns
<1>11. CASE CardWorks
  BY <1>11, LeftIs DEF CardWorks, netVars, CardStep, CardRests, CardDoes, CableMoves, Turns
<1>. QED
  BY <1>1, <1>2, <1>3, <1>4, <1>5, <1>6, <1>7, <1>8, <1>9, <1>10, <1>11
     DEF Next, Loop, User, Hardware

(* The registers, one by one.                                              *)
LEMMA RegIs ==
  ASSUME CardTypes
  PROVE  /\ reg.rdh \in Slots /\ reg.rdt \in Slots /\ reg.tdh \in Slots
         /\ reg.tdt \in Slots
         /\ \A t \in Slots :
              /\ [reg EXCEPT !.rdh = t] \in Registers
              /\ [reg EXCEPT !.rdt = t] \in Registers
              /\ [reg EXCEPT !.tdh = t] \in Registers
              /\ [reg EXCEPT !.tdt = t] \in Registers
         /\ [reg EXCEPT !.link = ~reg.link] \in Registers
<1>1. reg \in Registers
  BY DEF CardTypes
<1>2. [reg EXCEPT !.link = ~reg.link] \in Registers
  <2>1. (~reg.link) \in BOOLEAN
    OBVIOUS
  <2>. QED
    BY <1>1, <2>1 DEF Registers
<1>. QED
  BY <1>1, <1>2 DEF Registers

LEMMA CardTypesKept ==
  ASSUME CardTypes, NetTypes, CardStep
  PROVE  CardTypes'
<1>0. /\ RingSize \in Nat /\ RingSize > 1 /\ 0 \in Slots /\ RingSize - 1 \in Slots
  BY RingIs
<1>1. CASE CardRests
  BY <1>1 DEF CardRests, cardVars, CardTypes
<1>2. CASE CardGets
  <2>. PICK kind \in Kinds, octet \in Octets : CardReceives(kind, octet)
    BY <1>2 DEF CardGets
  <2>1. [id |-> received + 1, kind |-> kind, octet |-> octet] \in RxFrames
        /\ received + 1 \in Nat
    BY DEF CardTypes, RxFrames
  <2>2. e1000_rx_ring' \in [Slots -> RxFrames]
    BY <2>1 DEF CardTypes, CardReceives
  <2>3. reg' \in Registers
    <3>1. After(reg.rdh) \in Slots
      BY RegIs, AfterIs
    <3>. QED
      BY <3>1, RegIs DEF CardReceives
  <2>. QED
    BY <2>1, <2>2, <2>3 DEF CardTypes, CardReceives
<1>3. CASE CardDoes
  <2>1. CardSends
    BY <1>3 DEF CardDoes
  <2>2. wire' \in Nat
    BY <2>1, RegIs DEF CardTypes, CardSends, TxFrames
  <2>3. e1000_tx_ring' \in [Slots -> TxFrames]
    <3>1. \A t \in Slots : [e1000_tx_ring[t] EXCEPT !.dd = TRUE] \in TxFrames
      BY DEF CardTypes, TxFrames
    <3>. QED
      BY <2>1, <3>1 DEF CardTypes, CardSends
  <2>4. reg' \in Registers
    <3>1. After(reg.tdh) \in Slots
      BY RegIs, AfterIs
    <3>. QED
      BY <2>1, <3>1, RegIs DEF CardSends
  <2>. QED
    BY <2>1, <2>2, <2>3, <2>4 DEF CardTypes, CardSends
<1>4. CASE CableMoves
  BY <1>4, RegIs DEF CableMoves, Cable, CardTypes
<1>5. CASE CardStarts
  <2>1. intel_e1000_init
    BY <1>5 DEF CardStarts
  <2>2. e1000_rx_ring' \in [Slots -> RxFrames]
    BY <2>1 DEF intel_e1000_init, RxEnabled, RxFrames
  <2>3. e1000_tx_ring' \in [Slots -> TxFrames]
    BY <2>1 DEF intel_e1000_init, TxEnabled, TxFrames
  <2>4. reg' \in Registers
    <3>1. reg \in Registers
      BY DEF CardTypes
    <3>. QED
      BY <1>0, <2>1, <3>1 DEF intel_e1000_init, TxEnabled, Registers
  <2>5. in_step' \in BOOLEAN
    BY <2>1 DEF intel_e1000_init, RxEnabled
  <2>6. seen' \in Seq(Nat) /\ received' \in Nat
    BY <2>1 DEF intel_e1000_init, RxEnabled
  <2>. QED
    BY <1>0, <2>1, <2>2, <2>3, <2>4, <2>5, <2>6
       DEF intel_e1000_init, RxEnabled, TxEnabled, CardTypes
<1>6. CASE FrameSeen
  <2>1. FrameHandled
    BY <1>6 DEF FrameSeen
  <2>2. After(rx_cur_intel) \in Slots
    BY AfterIs DEF CardTypes
  <2>3. e1000_rx_ring[rx_cur_intel].id \in Nat
    BY DEF CardTypes, RxFrames, NoFrame
  <2>4. e1000_rx_ring' \in [Slots -> RxFrames]
    BY <2>1 DEF CardTypes, FrameHandled, RxFrames
  <2>5. seen' \in Seq(Nat)
    BY <2>1, <2>3 DEF CardTypes, FrameHandled
  <2>. QED
    BY <2>1, <2>2, <2>4, <2>5 DEF CardTypes, FrameHandled
<1>7. CASE SlotsReturned
  <2>1. cpu.last \in Slots
    BY <1>7, CpuIs DEF SlotsReturned, NetTypes
  <2>2. reg' \in Registers
    BY <1>7, <2>1, RegIs DEF SlotsReturned, RdtWritten, CardTypes
  <2>. QED
    BY <1>7, <2>2 DEF SlotsReturned, RdtWritten, CardTypes
<1>8. CASE FrameGoes
  <2>1. FrameGiven(left.sends) /\ left.sends \in Nat
    BY <1>8, LeftIs DEF FrameGoes
  <2>2. After(tx_cur_intel) \in Slots
    BY AfterIs DEF CardTypes
  <2>3. e1000_tx_ring' \in [Slots -> TxFrames]
    BY <2>1 DEF CardTypes, FrameGiven, TxFrames
  <2>4. reg' \in Registers
    BY <2>1, <2>2, RegIs DEF FrameGiven
  <2>. QED
    BY <2>1, <2>2, <2>3, <2>4 DEF CardTypes, FrameGiven
<1>. QED
  BY <1>1, <1>2, <1>3, <1>4, <1>5, <1>6, <1>7, <1>8 DEF CardStep

LEMMA AddressesAre ==
  ASSUME NEW octet \in Octets
  PROVE  octet \in Addresses /\ Signed(octet) \in Addresses /\ octet \in 0 .. 255
BY NetConstants DEF Addresses

LEMMA ConfigKept ==
  ASSUME CardTypes, RtlTypes, NetTypes, [Next]_vars
  PROVE  config' \in Configs
<1>0. config \in Configs /\ 0 \in Addresses /\ 0 \in 0 .. 255 /\ 14 \in 0 .. 255
  BY DEF NetTypes, Addresses
<1>1. CASE UNCHANGED config
  BY <1>0, <1>1
<1>2. ASSUME NEW octet \in Octets,
             config' = [ip |-> octet, mask |-> "default", gateway |-> 14]
      PROVE  config' \in Configs
  BY <1>0, <1>2, AddressesAre DEF Configs
<1>3. CASE config' = [config EXCEPT !.ip = 0]
  BY <1>0, <1>3 DEF Configs
<1>4. CASE FrameHandled /\ config' \in Configured(e1000_rx_ring[rx_cur_intel])
  <2>1. e1000_rx_ring[rx_cur_intel] \in [id : Nat, kind : Kinds, octet : Octets]
    BY <1>4 DEF FrameHandled, CardTypes, RxFrames
  <2>2. PICK octet \in Octets : octet = e1000_rx_ring[rx_cur_intel].octet
    BY <2>1
  <2>3. [config EXCEPT !.ip = octet] \in Configs
    BY <1>0, AddressesAre DEF Configs
  <2>4. [ip : {octet}, mask : {config.mask, "offered"},
         gateway : {config.gateway, octet}] \subseteq Configs
    BY <1>0, AddressesAre DEF Configs
  <2>. QED
    BY <1>0, <1>4, <2>2, <2>3, <2>4 DEF Configured
<1>5. ASSUME NEW packet \in PacketsAtIndex(JunkFrames),
             config' = ConfiguredByRtl(packet.frame)
      PROVE  config' \in Configs
  <2>1. packet.frame \in JunkFrames
    <3>1. rx_buffer_rtl[rx_idx_rtl] \in Packets
      BY SizesAssumption DEF RtlTypes, Places
    <3>2. rx_buffer_rtl[rx_idx_rtl] # Junk => rx_buffer_rtl[rx_idx_rtl].frame \in JunkFrames
      BY <3>1 DEF Packets
    <3>. QED
      BY <3>2 DEF PacketsAtIndex
  <2>2. PICK octet \in Octets : octet = packet.frame.octet
    BY <2>1 DEF JunkFrames
  <2>3. [config EXCEPT !.ip = Signed(octet)] \in Configs
    BY <1>0, AddressesAre DEF Configs
  <2>. QED
    BY <1>0, <1>5, <2>2, <2>3 DEF ConfiguredByRtl
<1>6. CASE RtlPart
  BY <1>1, <1>5, <1>6 DEF RtlPart
<1>7. CASE UNCHANGED vars
  BY <1>1, <1>7 DEF vars, netVars
<1>8. CASE Boot \/ Install \/ Scan
  BY <1>1, <1>3, <1>8 DEF Boot, Install, Scan, nic_select_next
<1>9. CASE check_incoming \/ CheckRtl
  BY <1>1, <1>6, <1>9 DEF check_incoming, CheckRtl
<1>10. CASE e1000_check_rx
  BY <1>4, <1>10 DEF e1000_check_rx
<1>11. CASE \/ RxLoopEnds \/ TxDone \/ TxTimeout \/ Returns \/ Broadcast
            \/ send_dhcp_discover \/ Arrives \/ CardWorks
  BY <1>1, <1>11 DEF RxLoopEnds, TxDone, TxTimeout, Returns, Broadcast,
                     send_dhcp_discover, Arrives, CardWorks, netVars
<1>12. CASE apply_static_ip
  BY <1>2, <1>12 DEF apply_static_ip
<1>. QED
  BY <1>7, <1>8, <1>9, <1>10, <1>11, <1>12 DEF Next, Loop, User, Hardware

LEMMA LeftKept ==
  ASSUME NetTypes, [Next]_vars
  PROVE  left' \in Bounds
<1>1. CASE UNCHANGED left
  BY <1>1 DEF NetTypes
<1>2. CASE Gives
  BY <1>2, GivesIs
<1>3. ASSUME left.frames > 0, left' = [left EXCEPT !.frames = left.frames - 1]
      PROVE  left' \in Bounds
  <2>1. left.frames - 1 \in Nat
    BY <1>3, LeftIs
  <2>. QED
    BY <1>3, <2>1, LeftIs
<1>4. ASSUME left.scans > 0, left' = [left EXCEPT !.scans = left.scans - 1]
      PROVE  left' \in Bounds
  <2>1. left.scans - 1 \in Nat
    BY <1>4, LeftIs
  <2>. QED
    BY <1>4, <2>1, LeftIs
<1>5. CASE UNCHANGED vars
  BY <1>1, <1>5 DEF vars, netVars
<1>6. CASE Install \/ Scan
  BY <1>4, <1>6 DEF Install, Scan, CanScan
<1>7. CASE RtlPart
  BY <1>1, <1>2, <1>7 DEF RtlPart
<1>8. CASE check_incoming \/ CheckRtl
  BY <1>1, <1>7, <1>8 DEF check_incoming, CheckRtl
<1>9. CASE Broadcast \/ send_dhcp_discover \/ apply_static_ip
  BY <1>2, <1>9 DEF Broadcast, send_dhcp_discover, apply_static_ip
<1>10. CASE \/ e1000_check_rx \/ RxLoopEnds \/ TxDone \/ TxTimeout \/ Returns
            \/ Boot \/ CardWorks
  BY <1>1, <1>10 DEF e1000_check_rx, RxLoopEnds, TxDone, TxTimeout, Returns,
                     Boot, CardWorks, netVars
<1>11. CASE Arrives
  BY <1>3, <1>11 DEF Arrives
<1>. QED
  BY <1>5, <1>6, <1>8, <1>9, <1>10, <1>11 DEF Next, Loop, User, Hardware

LEMMA CpuKept ==
  ASSUME CardTypes, NetTypes, CardStep
  PROVE  cpu' \in Cpus
<1>0. cpu \in Cpus /\ rx_cur_intel \in Slots /\ tx_cur_intel \in Slots
      /\ left.sends \in Nat /\ 0 \in 0 .. RingSize
  BY LeftIs, RingIs DEF CardTypes, NetTypes
<1>1. CASE UNCHANGED cpu \/ cpu' = Desktop \/ cpu' = [at |-> "rtl"]
  BY <1>0, <1>1 DEF Cpus
<1>2. CASE cpu' = [at |-> "rx", i |-> 0, last |-> rx_cur_intel]
  BY <1>0, <1>2 DEF Cpus
<1>3. CASE cpu.at = "tx" /\ cpu' = [at |-> "sent", frame |-> cpu.frame]
  <2>1. cpu.frame \in Nat
    BY <1>0, <1>3, CpuIs
  <2>. QED
    BY <1>3, <2>1 DEF Cpus
<1>4. CASE FrameSeen
  <2>1. cpu \in [at : {"rx"}, i : 0 .. RingSize, last : Slots] /\ cpu.i < RingSize
        /\ cpu' = [cpu EXCEPT !.i = cpu.i + 1, !.last = rx_cur_intel]
    BY <1>0, <1>4, CpuIs DEF FrameSeen
  <2>2. cpu.i + 1 \in 0 .. RingSize
    BY <2>1, RingIs
  <2>3. cpu' \in [at : {"rx"}, i : 0 .. RingSize, last : Slots]
    BY <1>0, <2>1, <2>2
  <2>. QED
    BY <2>3 DEF Cpus
<1>5. CASE FrameGoes
  BY <1>0, <1>5 DEF FrameGoes, Cpus
<1>. QED
  BY <1>1, <1>2, <1>3, <1>4, <1>5
     DEF CardStep, CardRests, CardGets, CardDoes, CableMoves, CardStarts,
         SlotsReturned, Turns

(* How the registers and the processor look after a step.                  *)
LEMMA RxTurns ==
  ASSUME NetTypes, Turns
  PROVE  cpu'.at = "rx" /\ cpu'.i > 0 => cpu' = cpu
BY DEF Turns, Desktop

LEMMA Moved ==
  ASSUME CardTypes
  PROVE  /\ \A t \in Slots :
              /\ reg' = [reg EXCEPT !.rdh = t] =>
                   /\ reg'.rdh = t /\ reg'.rdt = reg.rdt
                   /\ reg'.tdh = reg.tdh /\ reg'.tdt = reg.tdt
              /\ reg' = [reg EXCEPT !.rdt = t] =>
                   /\ reg'.rdt = t /\ reg'.rdh = reg.rdh
                   /\ reg'.tdh = reg.tdh /\ reg'.tdt = reg.tdt
              /\ reg' = [reg EXCEPT !.tdh = t] =>
                   /\ reg'.tdh = t /\ reg'.rdt = reg.rdt
                   /\ reg'.rdh = reg.rdh /\ reg'.tdt = reg.tdt
              /\ reg' = [reg EXCEPT !.tdt = t] =>
                   /\ reg'.tdt = t /\ reg'.rdt = reg.rdt
                   /\ reg'.rdh = reg.rdh /\ reg'.tdh = reg.tdh
         /\ \A b : reg' = [reg EXCEPT !.link = b] =>
                   /\ reg'.rdh = reg.rdh /\ reg'.rdt = reg.rdt
                   /\ reg'.tdh = reg.tdh /\ reg'.tdt = reg.tdt
BY DEF CardTypes, Registers

LEMMA RoundTrip ==
  ASSUME NEW s \in Slots, NEW t \in Slots, s # t
  PROVE  Distance(s, t) + Distance(t, s) = RingSize
<1>1. Distance(s, t) = IF s <= t THEN t - s ELSE t + RingSize - s
  BY DistanceIs
<1>2. Distance(t, s) = IF t <= s THEN s - t ELSE s + RingSize - t
  BY DistanceIs
<1>. QED
  BY <1>1, <1>2, RingIs

(* Nothing of the receiving side changes.                                  *)
LEMMA RxRests ==
  ASSUME RxInv, UNCHANGED <<in_step, received, seen, rx_cur_intel, e1000_rx_ring>>,
         reg'.rdh = reg.rdh, reg'.rdt = reg.rdt,
         cpu'.at = "rx" /\ cpu'.i > 0 => cpu' = cpu
  PROVE  RxInv'
BY DEF RxInv, New, Unfilled

LEMMA FrameReceived ==
  ASSUME CardTypes, NetTypes, RxInv, CardGets
  PROVE  RxInv'
<1>. SUFFICES ASSUME in_step' PROVE RxInv'
  BY DEF RxInv
<1>. PICK kind \in Kinds, octet \in Octets : CardReceives(kind, octet)
  BY DEF CardGets
<1>. PICK s, h, r : s = rx_cur_intel /\ h = reg.rdh /\ r = reg.rdt
  OBVIOUS
<1>. PICK d, e : d = Distance(s, h) /\ e = Distance(h, r)
  OBVIOUS
<1>1. /\ s \in Slots /\ h \in Slots /\ r \in Slots /\ h # r /\ After(h) \in Slots
      /\ RingSize \in Nat /\ RingSize > 1
  BY RegIs, AfterIs, RingIs DEF CardTypes, CardReceives
<1>2. d \in 0 .. RingSize - 1 /\ e \in 0 .. RingSize - 1
  BY <1>1, DistanceIs
<1>3. /\ in_step /\ received = Len(seen) + d /\ d + e <= RingSize - 1
      /\ \A i \in 1 .. Len(seen) : seen[i] = i
      /\ \A i \in 1 .. d : e1000_rx_ring[Nth(s, i)].id = Len(seen) + i
      /\ \A i \in d + 1 .. RingSize : e1000_rx_ring[Nth(s, i)] = NoFrame
      /\ cpu.at = "rx" /\ cpu.i > 0 => After(cpu.last) = s
  BY DEF RxInv, New, Unfilled, CardReceives
<1>4. e > 0
  BY <1>1, <1>2, Moves
<1>5. After(h) # s /\ Distance(s, After(h)) = d + 1
  <2>1. d < RingSize - 1
    BY <1>1, <1>2, <1>3, <1>4
  <2>. QED
    BY <1>1, <2>1, Moves
<1>6. Distance(After(h), r) = e - 1
  BY <1>1, Moves
<1>7. reg'.rdh = After(h) /\ reg'.rdt = r
  BY <1>1, Moved DEF CardReceives
<1>8. New' = d + 1 /\ Unfilled' = e - 1 /\ rx_cur_intel' = s /\ seen' = seen
      /\ received' = received + 1 /\ cpu' = cpu
  BY <1>5, <1>6, <1>7 DEF New, Unfilled, CardReceives, CardGets
<1>9. Nth(s, d + 1) = h /\ d + 1 \in 1 .. RingSize
  BY <1>1, <1>2, Moves
<1>10. ASSUME NEW i \in 1 .. RingSize
       PROVE  e1000_rx_ring'[Nth(s, i)] =
                IF i = d + 1 THEN [id |-> received + 1, kind |-> kind, octet |-> octet]
                ELSE e1000_rx_ring[Nth(s, i)]
  <2>1. Nth(s, i) \in Slots
    BY <1>1, NthIs
  <2>2. i # d + 1 => Nth(s, i) # h
    BY <1>1, <1>9, Moves
  <2>. QED
    BY <1>9, <2>1, <2>2 DEF CardReceives, CardTypes
<1>11. Len(seen) \in Nat
  BY DEF CardTypes
<1>12. \A i \in 1 .. d + 1 : e1000_rx_ring'[Nth(s, i)].id = Len(seen) + i
  <2>1. ASSUME NEW i \in 1 .. d + 1 PROVE e1000_rx_ring'[Nth(s, i)].id = Len(seen) + i
    <3>1. i \in 1 .. RingSize
      BY <1>1, <1>9, <1>2
    <3>2. CASE i = d + 1
      BY <1>10, <1>3, <1>11, <1>2, <3>1, <3>2
    <3>3. CASE i \in 1 .. d
      BY <1>10, <1>3, <1>2, <3>1, <3>3
    <3>. QED
      BY <1>2, <3>2, <3>3
  <2>. QED
    BY <2>1
<1>13. \A i \in d + 1 + 1 .. RingSize : e1000_rx_ring'[Nth(s, i)] = NoFrame
  <2>1. ASSUME NEW i \in d + 1 + 1 .. RingSize
        PROVE  e1000_rx_ring'[Nth(s, i)] = NoFrame
    <3>1. i \in 1 .. RingSize /\ i # d + 1 /\ i \in d + 1 .. RingSize
      BY <1>1, <1>2
    <3>. QED
      BY <1>3, <1>10, <3>1
  <2>. QED
    BY <2>1
<1>14. received + 1 = Len(seen) + (d + 1) /\ (d + 1) + (e - 1) <= RingSize - 1
  BY <1>2, <1>3, <1>11
<1>. QED
  BY <1>3, <1>8, <1>12, <1>13, <1>14 DEF RxInv

LEMMA SeenKept ==
  ASSUME CardTypes, NetTypes, RxInv, FrameSeen
  PROVE  RxInv'
<1>. SUFFICES ASSUME in_step' PROVE RxInv'
  BY DEF RxInv
<1>. PICK s, h, r : s = rx_cur_intel /\ h = reg.rdh /\ r = reg.rdt
  OBVIOUS
<1>. PICK d, e, n : d = Distance(s, h) /\ e = Distance(h, r) /\ n = Len(seen)
  OBVIOUS
<1>1. /\ s \in Slots /\ h \in Slots /\ r \in Slots /\ After(s) \in Slots
      /\ RingSize \in Nat /\ RingSize > 1
  BY RegIs, AfterIs, RingIs DEF CardTypes
<1>2. d \in 0 .. RingSize - 1 /\ e \in 0 .. RingSize - 1 /\ n \in Nat /\ seen \in Seq(Nat)
  <2>1. seen \in Seq(Nat) /\ Len(seen) \in Nat
    BY DEF CardTypes
  <2>. QED
    BY <1>1, <2>1, DistanceIs
<1>3. /\ in_step /\ received = n + d /\ d + e <= RingSize - 1
      /\ \A i \in 1 .. n : seen[i] = i
      /\ \A i \in 1 .. d : e1000_rx_ring[Nth(s, i)].id = n + i
      /\ \A i \in d + 1 .. RingSize : e1000_rx_ring[Nth(s, i)] = NoFrame
  BY DEF RxInv, New, Unfilled, FrameSeen, FrameHandled
<1>4. /\ e1000_rx_ring[s] # NoFrame
      /\ e1000_rx_ring' = [e1000_rx_ring EXCEPT ![s] = NoFrame]
      /\ seen' = Append(seen, e1000_rx_ring[s].id)
      /\ rx_cur_intel' = After(s) /\ reg' = reg /\ received' = received
      /\ cpu.at = "rx" /\ cpu' = [cpu EXCEPT !.i = cpu.i + 1, !.last = s]
  BY DEF FrameSeen, FrameHandled
<1>5. Nth(s, 1) = s /\ 1 \in 1 .. RingSize
  BY <1>1, Moves
<1>6. d > 0 /\ s # h
  <2>1. d # 0
    BY <1>1, <1>3, <1>4, <1>5
  <2>. QED
    BY <1>1, <1>2, <2>1, Moves
<1>7. Distance(After(s), h) = d - 1
  BY <1>1, <1>6, Moves
<1>8. New' = d - 1 /\ Unfilled' = e
  BY <1>4, <1>7 DEF New, Unfilled
<1>9. e1000_rx_ring[s].id = n + 1
  BY <1>2, <1>3, <1>5, <1>6
<1>10. /\ Len(seen') = n + 1 /\ \A i \in 1 .. n + 1 : seen'[i] = i
  BY <1>2, <1>3, <1>4, <1>9
<1>11. ASSUME NEW i \in 1 .. RingSize - 1
       PROVE  /\ Nth(After(s), i) = Nth(s, i + 1) /\ i + 1 \in 1 .. RingSize
              /\ e1000_rx_ring'[Nth(After(s), i)] = e1000_rx_ring[Nth(s, i + 1)]
  <2>1. Nth(After(s), i) = Nth(s, i + 1) /\ i + 1 \in 1 .. RingSize /\ i + 1 # 1
    BY <1>1, Moves
  <2>2. Nth(s, i + 1) # s /\ Nth(s, i + 1) \in Slots
    BY <1>1, <1>5, <2>1, Moves, NthIs
  <2>. QED
    BY <1>4, <2>1, <2>2 DEF CardTypes
<1>12. Nth(After(s), RingSize) = s /\ e1000_rx_ring'[s] = NoFrame
  BY <1>1, <1>4, Moves DEF CardTypes
<1>13. \A i \in 1 .. d - 1 : e1000_rx_ring'[Nth(After(s), i)].id = (n + 1) + i
  <2>1. ASSUME NEW i \in 1 .. d - 1
        PROVE  e1000_rx_ring'[Nth(After(s), i)].id = (n + 1) + i
    <3>1. i \in 1 .. RingSize - 1 /\ i + 1 \in 1 .. d /\ n + (i + 1) = (n + 1) + i
      BY <1>1, <1>2
    <3>. QED
      BY <1>3, <1>11, <3>1
  <2>. QED
    BY <2>1
<1>14. \A i \in (d - 1) + 1 .. RingSize : e1000_rx_ring'[Nth(After(s), i)] = NoFrame
  <2>1. ASSUME NEW i \in (d - 1) + 1 .. RingSize
        PROVE  e1000_rx_ring'[Nth(After(s), i)] = NoFrame
    <3>1. CASE i = RingSize
      BY <1>12, <3>1
    <3>2. CASE i # RingSize
      <4>1. i \in 1 .. RingSize - 1 /\ i + 1 \in d + 1 .. RingSize
        BY <1>1, <1>2, <1>6, <3>2
      <4>. QED
        BY <1>3, <1>11, <4>1
    <3>. QED
      BY <3>1, <3>2
  <2>. QED
    BY <2>1
<1>15. cpu'.last = s
  <2>1. cpu \in [at : {"rx"}, i : 0 .. RingSize, last : Slots]
    BY <1>4, CpuIs DEF NetTypes
  <2>. QED
    BY <1>4, <2>1
<1>16. received = (n + 1) + (d - 1) /\ (d - 1) + e <= RingSize - 1
  BY <1>1, <1>2, <1>3
<1>. QED
  BY <1>3, <1>4, <1>8, <1>10, <1>13, <1>14, <1>15, <1>16 DEF RxInv

LEMMA ReturnKept ==
  ASSUME CardTypes, NetTypes, RxInv, SlotsReturned
  PROVE  RxInv'
<1>. PICK s, h, l : s = rx_cur_intel /\ h = reg.rdh /\ l = cpu.last
  OBVIOUS
<1>1. /\ s \in Slots /\ h \in Slots /\ l \in Slots /\ RingSize \in Nat /\ RingSize > 1
      /\ cpu'.at # "rx"
  BY RegIs, RingIs, CpuIs DEF CardTypes, NetTypes, SlotsReturned
<1>2. UNCHANGED <<in_step, received, seen, rx_cur_intel, e1000_rx_ring>>
  BY DEF SlotsReturned, RdtWritten
<1>3. CASE ~ (cpu.i > 0)
  <2>1. reg' = reg
    BY <1>3 DEF SlotsReturned, RdtWritten
  <2>. QED
    BY <1>1, <1>2, <2>1, RxRests
<1>4. CASE cpu.i > 0 /\ in_step
  <2>1. /\ received = Len(seen) + New
        /\ \A i \in 1 .. Len(seen) : seen[i] = i
        /\ \A i \in 1 .. New : e1000_rx_ring[Nth(rx_cur_intel, i)].id = Len(seen) + i
        /\ \A i \in New + 1 .. RingSize :
             e1000_rx_ring[Nth(rx_cur_intel, i)] = NoFrame
        /\ After(l) = s
    BY <1>4 DEF RxInv, SlotsReturned
  <2>2. reg' = [reg EXCEPT !.rdt = l]
    BY <1>4 DEF SlotsReturned, RdtWritten
  <2>3. reg'.rdh = h /\ reg'.rdt = l
    BY <1>1, <2>2, Moved
  <2>4. New' = New /\ Unfilled' = Distance(h, l) /\ New = Distance(s, h)
    BY <1>2, <2>3 DEF New, Unfilled
  <2>5. Distance(s, h) + Distance(h, l) <= RingSize - 1
    <3>1. Distance(s, h) \in 0 .. RingSize - 1 /\ Distance(h, l) \in 0 .. RingSize - 1
      BY <1>1, DistanceIs
    <3>2. CASE s = h
      <4>1. Distance(s, h) = 0
        BY <1>1, <3>2, Moves
      <4>. QED
        BY <1>1, <3>1, <4>1
    <3>3. CASE s # h
      <4>1. Distance(h, s) = Distance(h, l) + 1
        BY <1>1, <2>1, <3>3, Moves
      <4>2. Distance(s, h) + Distance(h, s) = RingSize
        BY <1>1, <3>3, RoundTrip
      <4>. QED
        BY <1>1, <3>1, <4>1, <4>2
    <3>. QED
      BY <3>2, <3>3
  <2>. QED
    BY <1>1, <1>2, <2>1, <2>4, <2>5 DEF RxInv
<1>5. CASE ~in_step
  BY <1>2, <1>5 DEF RxInv
<1>. QED
  BY <1>3, <1>4, <1>5

LEMMA StartedInStep ==
  ASSUME CardTypes, CardStarts
  PROVE  RxInv'
<1>. SUFFICES ASSUME in_step' PROVE RxInv'
  BY DEF RxInv
<1>1. intel_e1000_init /\ cpu'.at # "rx"
  BY DEF CardStarts, Desktop
<1>2. rx_cur_intel = 0 /\ rx_cur_intel' = 0 /\ received' = 0 /\ seen' = <<>>
  BY <1>1 DEF intel_e1000_init, RxEnabled
<1>3. /\ RingSize \in Nat /\ RingSize > 1 /\ 0 \in Slots /\ RingSize - 1 \in Slots
  BY RingIs
<1>4. reg'.rdh = 0 /\ reg'.rdt = RingSize - 1
  <2>1. reg \in Registers
    BY DEF CardTypes
  <2>. QED
    BY <1>1, <2>1 DEF intel_e1000_init, TxEnabled, Registers
<1>5. New' = 0 /\ Unfilled' \in 0 .. RingSize - 1
  BY <1>2, <1>3, <1>4, Moves, DistanceIs DEF New, Unfilled
<1>6. \A i \in 1 .. RingSize : e1000_rx_ring'[Nth(0, i)] = NoFrame
  <2>1. e1000_rx_ring' = [t \in Slots |-> NoFrame]
    BY <1>1 DEF intel_e1000_init, RxEnabled
  <2>. QED
    BY <1>3, <2>1, NthIs
<1>7. Len(seen') = 0 /\ 1 .. Len(seen') = {} /\ 1 .. New' = {}
      /\ New' + 1 .. RingSize = 1 .. RingSize
  BY <1>2, <1>5
<1>8. \A i \in New' + 1 .. RingSize : e1000_rx_ring'[Nth(rx_cur_intel', i)] = NoFrame
  BY <1>2, <1>6, <1>7
<1>9. received' = Len(seen') + New' /\ New' + Unfilled' <= RingSize - 1
  <2>1. received' = Len(seen') + New'
    BY <1>2, <1>5, <1>7
  <2>2. PICK f \in 0 .. RingSize - 1 : f = Unfilled'
    BY <1>5
  <2>3. 0 + f <= RingSize - 1
    BY <1>3
  <2>. QED
    BY <1>5, <2>1, <2>2, <2>3
<1>. QED
  BY <1>1, <1>7, <1>8, <1>9 DEF RxInv

LEMMA RxKept ==
  ASSUME CardTypes, NetTypes, RxInv, CardStep
  PROVE  RxInv'
<1>1. CASE CardRests
  <2>1. cpu'.at = "rx" /\ cpu'.i > 0 => cpu' = cpu
    BY <1>1, RxTurns DEF CardRests
  <2>. QED
    BY <1>1, <2>1, RxRests DEF CardRests, cardVars
<1>2. CASE CardDoes
  <2>1. After(reg.tdh) \in Slots /\ reg' = [reg EXCEPT !.tdh = After(reg.tdh)]
    BY <1>2, RegIs, AfterIs DEF CardDoes, CardSends
  <2>2. reg'.rdh = reg.rdh /\ reg'.rdt = reg.rdt
    BY <2>1, Moved
  <2>. QED
    BY <1>2, <2>2, RxRests DEF CardDoes, CardSends
<1>3. CASE CableMoves
  <2>1. reg'.rdh = reg.rdh /\ reg'.rdt = reg.rdt
    BY <1>3, Moved DEF CableMoves, Cable
  <2>. QED
    BY <1>3, <2>1, RxRests DEF CableMoves, Cable
<1>4. CASE FrameGoes
  <2>1. After(tx_cur_intel) \in Slots /\ reg' = [reg EXCEPT !.tdt = After(tx_cur_intel)]
    BY <1>4, AfterIs DEF FrameGoes, FrameGiven, CardTypes
  <2>2. reg'.rdh = reg.rdh /\ reg'.rdt = reg.rdt
    BY <2>1, Moved
  <2>3. cpu'.at # "rx"
    BY <1>4 DEF FrameGoes
  <2>. QED
    BY <1>4, <2>2, <2>3, RxRests DEF FrameGoes, FrameGiven
<1>. QED
  BY <1>1, <1>2, <1>3, <1>4, FrameReceived, SeenKept, ReturnKept, StartedInStep
     DEF CardStep

-----------------------------------------------------------------------------
(* Sending                                                                 *)

(* Nothing of the sending side changes, but the bound on what is to come.  *)
LEMMA TxRests ==
  ASSUME CardTypes, NetTypes, left'.sends \in Nat, TxInv,
         UNCHANGED <<e1000_tx_ring, tx_cur_intel, wire>>,
         reg'.tdh = reg.tdh, reg'.tdt = reg.tdt, left'.sends <= left.sends,
         Turns \/ cpu'.at \notin {"tx", "sent"}
  PROVE  TxInv'
<1>1. Waiting' = Waiting /\ \A i : Given(i)' = Given(i)'
  BY DEF Waiting
<1>2. left.sends \in Nat /\ wire \in Nat
  BY LeftIs DEF CardTypes
<1>3. Waiting \in 0 .. RingSize - 1
  BY RegIs, DistanceIs DEF Waiting
<1>4. \A i \in 1 .. Waiting : Nth(reg.tdh, i) \in Slots
  <2>1. \A i \in 1 .. Waiting : i \in 1 .. RingSize
    BY <1>3, RingIs
  <2>. QED
    BY <2>1, RegIs, NthIs
<1>5. \A i \in 1 .. Waiting : Given(i)' = Given(i) /\ Given(i) \in Nat
  BY <1>4 DEF Given, CardTypes, TxFrames
<1>6. \A i \in 1 .. Waiting' : left'.sends <= Given(i)' /\ Given(i)' <= wire'
  BY <1>1, <1>2, <1>5 DEF TxInv
<1>7. \A i, j \in 1 .. Waiting' : i <= j => Given(j)' <= Given(i)'
  BY <1>1, <1>5 DEF TxInv
<1>8. reg'.tdt = tx_cur_intel' /\ left'.sends <= wire'
  BY <1>2 DEF TxInv
<1>9. cpu'.at = "tx" => cpu' = cpu
  BY DEF Turns, Desktop
<1>10. cpu'.at = "tx" =>
         /\ After(cpu'.slot) = tx_cur_intel'
         /\ e1000_tx_ring'[cpu'.slot].frame = cpu'.frame
         /\ e1000_tx_ring'[cpu'.slot].dd => Waiting' = 0 /\ wire' = cpu'.frame
  BY <1>1, <1>9 DEF TxInv
<1>11. cpu'.at = "sent" => Waiting' = 0 /\ wire' = cpu'.frame
  BY <1>1 DEF TxInv, Turns, Desktop
<1>. QED
  BY <1>6, <1>7, <1>8, <1>10, <1>11 DEF TxInv

LEMMA SentKept ==
  ASSUME CardTypes, NetTypes, TxInv, CardDoes
  PROVE  TxInv' /\ wire' <= wire
<1>. PICK h, t, p : h = reg.tdh /\ t = reg.tdt /\ p = Distance(h, t)
  OBVIOUS
<1>1. /\ h \in Slots /\ t \in Slots /\ h # t /\ After(h) \in Slots
      /\ RingSize \in Nat /\ RingSize > 1 /\ p \in 0 .. RingSize - 1
  BY RegIs, AfterIs, RingIs, DistanceIs DEF CardDoes, CardSends
<1>2. /\ wire' = e1000_tx_ring[h].frame
      /\ e1000_tx_ring' = [e1000_tx_ring EXCEPT ![h].dd = TRUE]
      /\ reg' = [reg EXCEPT !.tdh = After(h)]
      /\ cpu' = cpu /\ left' = left /\ tx_cur_intel' = tx_cur_intel
  BY DEF CardDoes, CardSends
<1>3. reg'.tdh = After(h) /\ reg'.tdt = t
  BY <1>1, <1>2, Moved
<1>4. p > 0 /\ Waiting = p /\ Waiting' = p - 1
  <2>1. Distance(After(h), t) = p - 1 /\ p # 0
    BY <1>1, Moves
  <2>. QED
    BY <1>1, <1>3, <2>1 DEF Waiting
<1>5. Nth(h, 1) = h /\ Given(1) = wire' /\ 1 \in 1 .. p
  BY <1>1, <1>2, <1>4, Moves DEF Given
<1>6. left.sends \in Nat /\ wire \in Nat /\ wire' \in Nat
  BY <1>1, <1>2, LeftIs DEF CardTypes, TxFrames
<1>7. left.sends <= wire' /\ wire' <= wire
  BY <1>4, <1>5 DEF TxInv
<1>8. \A u \in Slots : /\ e1000_tx_ring'[u].frame = e1000_tx_ring[u].frame
                       /\ u # h => e1000_tx_ring'[u] = e1000_tx_ring[u]
  BY <1>2 DEF CardTypes, TxFrames
<1>9. ASSUME NEW i \in 1 .. p - 1
      PROVE  Given(i)' = Given(i + 1) /\ i + 1 \in 1 .. p /\ 1 <= i + 1
  <2>1. i \in 1 .. RingSize - 1 /\ i + 1 \in 1 .. RingSize /\ i + 1 \in 1 .. p
    BY <1>1
  <2>2. Nth(After(h), i) = Nth(h, i + 1)
    BY <1>1, <2>1, Moves
  <2>3. Nth(h, i + 1) \in Slots
    BY <1>1, <2>1, NthIs
  <2>. QED
    BY <1>3, <1>8, <2>1, <2>2, <2>3 DEF Given
<1>10. \A i \in 1 .. p - 1 : left'.sends <= Given(i)' /\ Given(i)' <= wire'
  BY <1>2, <1>4, <1>5, <1>9 DEF TxInv
<1>11. ASSUME NEW i \in 1 .. p - 1, NEW j \in 1 .. p - 1, i <= j
       PROVE  Given(j)' <= Given(i)'
  <2>1. i + 1 \in 1 .. p /\ j + 1 \in 1 .. p /\ i + 1 <= j + 1
    BY <1>1, <1>11
  <2>. QED
    BY <1>4, <1>9, <2>1 DEF TxInv
<1>12. reg'.tdt = tx_cur_intel' /\ t = tx_cur_intel
  BY <1>2, <1>3 DEF TxInv
<1>13. ASSUME cpu'.at = "tx"
       PROVE  /\ After(cpu'.slot) = tx_cur_intel'
              /\ e1000_tx_ring'[cpu'.slot].frame = cpu'.frame
              /\ e1000_tx_ring'[cpu'.slot].dd => Waiting' = 0 /\ wire' = cpu'.frame
  <2>1. cpu.slot \in Slots /\ After(cpu.slot) = t /\ e1000_tx_ring[cpu.slot].frame = cpu.frame
    BY <1>2, <1>12, <1>13, CpuIs DEF TxInv, NetTypes
  <2>2. CASE cpu.slot = h
    <3>1. Waiting' = 0
      BY <1>1, <1>3, <2>1, <2>2, Moves DEF Waiting
    <3>. QED
      BY <1>2, <1>8, <1>12, <2>1, <2>2, <3>1
  <2>3. CASE cpu.slot # h
    <3>1. ~ e1000_tx_ring[cpu.slot].dd
      BY <1>2, <1>4, <1>13 DEF TxInv
    <3>2. e1000_tx_ring'[cpu.slot] = e1000_tx_ring[cpu.slot]
      BY <1>8, <2>1, <2>3
    <3>. QED
      BY <1>2, <1>12, <2>1, <3>1, <3>2
  <2>. QED
    BY <2>2, <2>3
<1>14. cpu'.at # "sent"
  BY <1>2, <1>4 DEF TxInv
<1>. QED
  BY <1>2, <1>4, <1>7, <1>10, <1>11, <1>12, <1>13, <1>14 DEF TxInv

LEMMA GivenKept ==
  ASSUME CardTypes, NetTypes, left'.sends \in Nat, TxInv, FrameGoes
  PROVE  TxInv'
<1>. PICK h, t, p, f : h = reg.tdh /\ t = reg.tdt /\ p = Distance(h, t)
                       /\ f = left.sends
  OBVIOUS
<1>1. /\ h \in Slots /\ t \in Slots /\ After(t) \in Slots /\ t = tx_cur_intel
      /\ RingSize \in Nat /\ RingSize > 1 /\ p \in 0 .. RingSize - 1
  BY RegIs, AfterIs, RingIs, DistanceIs DEF TxInv
<1>2. /\ e1000_tx_ring' = [e1000_tx_ring EXCEPT ![t] = [frame |-> f, dd |-> FALSE]]
      /\ reg' = [reg EXCEPT !.tdt = After(t)] /\ tx_cur_intel' = After(t)
      /\ cpu' = [at |-> "tx", slot |-> t, frame |-> f]
      /\ left'.sends <= f /\ wire' = wire
  BY <1>1 DEF FrameGoes, FrameGiven
<1>3. reg'.tdh = h /\ reg'.tdt = After(t)
  BY <1>1, <1>2, Moved
<1>4. f \in Nat /\ wire \in Nat /\ f <= wire /\ left'.sends <= wire'
  BY <1>2, LeftIs DEF TxInv, CardTypes
<1>5. e1000_tx_ring'[t] = [frame |-> f, dd |-> FALSE]
  BY <1>1, <1>2 DEF CardTypes
<1>6. /\ reg'.tdt = tx_cur_intel' /\ cpu'.at = "tx" /\ After(cpu'.slot) = tx_cur_intel'
      /\ e1000_tx_ring'[cpu'.slot].frame = cpu'.frame
      /\ ~ e1000_tx_ring'[cpu'.slot].dd
  BY <1>2, <1>3, <1>5
<1>7. Waiting = p /\ Waiting' = Distance(h, After(t))
  BY <1>3 DEF Waiting
<1>8. CASE After(t) = h
  <2>1. Waiting' = 0 /\ 1 .. Waiting' = {}
    BY <1>1, <1>7, <1>8, Moves
  <2>. QED
    BY <1>4, <1>6, <2>1 DEF TxInv
<1>9. CASE After(t) # h
  <2>1. Waiting' = p + 1
    BY <1>1, <1>7, <1>9, Moves
  <2>2. Nth(h, p + 1) = t /\ p + 1 \in 1 .. RingSize
    BY <1>1, Moves
  <2>3. Given(p + 1)' = f
    <3>1. Given(p + 1)' = e1000_tx_ring'[Nth(h, p + 1)].frame
      BY <1>3 DEF Given
    <3>. QED
      BY <1>5, <2>2, <3>1
  <2>4. ASSUME NEW i \in 1 .. p
        PROVE  Given(i)' = Given(i) /\ Given(i) \in Nat
    <3>1. i \in 1 .. RingSize /\ i # p + 1
      BY <1>1
    <3>2. Nth(h, i) \in Slots
      BY <1>1, <3>1, NthIs
    <3>3. Nth(h, i) # t
      BY <1>1, <2>2, <3>1, Moves
    <3>4. e1000_tx_ring'[Nth(h, i)] = e1000_tx_ring[Nth(h, i)]
      BY <1>2, <3>2, <3>3 DEF CardTypes
    <3>. QED
      BY <1>3, <3>2, <3>4 DEF Given, CardTypes, TxFrames
  <2>5. \A i \in 1 .. p : f <= Given(i) /\ Given(i) <= wire
    BY <1>7 DEF TxInv
  <2>6. ASSUME NEW i \in 1 .. p + 1
        PROVE  left'.sends <= Given(i)' /\ Given(i)' <= wire'
    <3>1. CASE i = p + 1
      BY <1>2, <1>4, <2>3, <3>1
    <3>2. CASE i \in 1 .. p
      BY <1>2, <1>4, <2>4, <2>5, <3>2
    <3>. QED
      BY <1>1, <3>1, <3>2
  <2>7. ASSUME NEW i \in 1 .. p + 1, NEW j \in 1 .. p + 1, i <= j
        PROVE  Given(j)' <= Given(i)'
    <3>1. CASE j = p + 1 /\ i = p + 1
      BY <1>4, <2>3, <3>1
    <3>2. CASE j = p + 1 /\ i \in 1 .. p
      BY <1>4, <2>3, <2>4, <2>5, <3>2
    <3>3. CASE j \in 1 .. p
      <4>1. i \in 1 .. p
        BY <1>1, <2>7, <3>3
      <4>. QED
        BY <1>7, <2>4, <2>7, <3>3, <4>1 DEF TxInv
    <3>. QED
      BY <1>1, <3>1, <3>2, <3>3
  <2>. QED
    BY <1>4, <1>6, <2>1, <2>6, <2>7 DEF TxInv
<1>. QED
  BY <1>8, <1>9

LEMMA TxKept ==
  ASSUME CardTypes, NetTypes, left' \in Bounds, TxInv, CardStep
  PROVE  TxInv' /\ (wire' # wire => wire' < wire)
<1>0. left'.sends \in Nat /\ left.sends \in Nat /\ left.sends <= left.sends
      /\ wire \in Nat
  BY LeftIs DEF Bounds, CardTypes
<1>1. CASE CardRests
  BY <1>0, <1>1, TxRests DEF CardRests, cardVars
<1>2. CASE CardGets
  <2>1. After(reg.rdh) \in Slots /\ reg' = [reg EXCEPT !.rdh = After(reg.rdh)]
    BY <1>2, RegIs, AfterIs DEF CardGets, CardReceives
  <2>2. reg'.tdh = reg.tdh /\ reg'.tdt = reg.tdt
    BY <2>1, Moved
  <2>3. Turns /\ left'.sends <= left.sends
    BY <1>0, <1>2 DEF CardGets, Turns
  <2>4. UNCHANGED <<e1000_tx_ring, tx_cur_intel, wire>>
    BY <1>2 DEF CardGets, CardReceives
  <2>. QED
    BY <1>0, <2>2, <2>3, <2>4, TxRests
<1>3. CASE CardDoes
  <2>1. TxInv' /\ wire' <= wire
    BY <1>3, SentKept
  <2>2. wire' \in Nat
    BY <1>3, RegIs DEF CardDoes, CardSends, CardTypes, TxFrames
  <2>. QED
    BY <1>0, <2>1, <2>2
<1>4. CASE CableMoves
  <2>1. reg'.tdh = reg.tdh /\ reg'.tdt = reg.tdt
    BY <1>4, Moved DEF CableMoves, Cable
  <2>2. Turns /\ left'.sends <= left.sends /\ UNCHANGED <<e1000_tx_ring, tx_cur_intel, wire>>
    BY <1>0, <1>4 DEF CableMoves, Cable, Turns
  <2>. QED
    BY <1>0, <2>1, <2>2, TxRests
<1>5. CASE CardStarts
  <2>1. /\ reg'.tdh = 0 /\ reg'.tdt = 0 /\ tx_cur_intel' = 0 /\ wire' = wire
        /\ cpu' = Desktop
    <3>1. reg \in Registers
      BY DEF CardTypes
    <3>. QED
      BY <1>5, <3>1 DEF CardStarts, intel_e1000_init, TxEnabled, Registers
  <2>2. Waiting' = 0 /\ 1 .. Waiting' = {}
    <3>1. 0 \in Slots
      BY RingIs
    <3>. QED
      BY <2>1, <3>1, Moves DEF Waiting
  <2>3. left'.sends <= wire'
    BY <1>5, <2>1 DEF CardStarts, TxInv
  <2>. QED
    BY <2>1, <2>2, <2>3 DEF TxInv, Desktop
<1>6. CASE FrameSeen
  <2>1. cpu'.at = "rx"
    <3>1. cpu \in [at : {"rx"}, i : 0 .. RingSize, last : Slots]
      BY <1>6, CpuIs DEF FrameSeen, NetTypes
    <3>. QED
      BY <1>6, <3>1 DEF FrameSeen
  <2>2. UNCHANGED <<e1000_tx_ring, tx_cur_intel, wire>> /\ reg' = reg
        /\ left'.sends <= left.sends
    BY <1>0, <1>6 DEF FrameSeen, FrameHandled
  <2>3. cpu'.at \notin {"tx", "sent"}
    BY <2>1
  <2>. QED
    BY <1>0, <2>2, <2>3, TxRests
<1>7. CASE SlotsReturned
  <2>1. cpu.last \in Slots
    BY <1>7, CpuIs DEF SlotsReturned, NetTypes
  <2>2. reg'.tdh = reg.tdh /\ reg'.tdt = reg.tdt
    BY <1>7, <2>1, Moved DEF SlotsReturned, RdtWritten
  <2>3. Turns /\ left'.sends <= left.sends /\ UNCHANGED <<e1000_tx_ring, tx_cur_intel, wire>>
    BY <1>0, <1>7 DEF SlotsReturned, RdtWritten, Turns
  <2>. QED
    BY <1>0, <2>2, <2>3, TxRests
<1>8. CASE FrameGoes
  <2>1. TxInv'
    BY <1>0, <1>8, GivenKept
  <2>. QED
    BY <1>8, <2>1 DEF FrameGoes, FrameGiven
<1>. QED
  BY <1>1, <1>2, <1>3, <1>4, <1>5, <1>6, <1>7, <1>8 DEF CardStep

-----------------------------------------------------------------------------
(* Theorems                                                                *)

LEMMA NetStart ==
  ASSUME Init
  PROVE  NetInv
<1>0. /\ RingSize \in Nat /\ RingSize > 1 /\ 0 \in Slots
      /\ BufferSize \in Nat /\ BufferSize > 0
  BY RingIs, SizesAssumption
<1>1. PICK m \in Machines : /\ PciInit(m)
                            /\ left = [frames |-> m.frames, sends |-> m.sends,
                                       scans |-> m.scans]
  BY DEF Init
<1>2. /\ m.kernel \in {"OS1", "OS2"} /\ m.bus \in Seq(Functions) /\ m.frames \in Nat
      /\ m.scans \in Nat /\ m.sends \in Nat /\ m.sends < NothingSent
  BY NetConstants
<1>3. CardTypes
  <2>1. reg \in Registers
    BY <1>0 DEF Init, E1000Init, Registers
  <2>2. e1000_rx_ring \in [Slots -> RxFrames] /\ e1000_tx_ring \in [Slots -> TxFrames]
    BY DEF Init, E1000Init, RxFrames, TxFrames
  <2>3. /\ intel_mem_base \in BOOLEAN /\ in_step \in BOOLEAN /\ received \in Nat
        /\ seen \in Seq(Nat) /\ wire \in Nat
    <3>1. intel_mem_base \in BOOLEAN /\ in_step \in BOOLEAN
      BY DEF Init, E1000Init
    <3>2. seen \in Seq(Nat)
      BY DEF Init, E1000Init
    <3>3. received \in Nat /\ wire \in Nat
      BY DEF Init, E1000Init, NothingSent
    <3>. QED
      BY <3>1, <3>2, <3>3
  <2>. QED
    BY <1>0, <2>1, <2>2, <2>3 DEF Init, E1000Init, CardTypes
<1>4. RtlTypes
  <2>1. rx_buffer_rtl \in [Places -> Packets] /\ unread \in Seq(0 .. BufferSize - 1)
        /\ rtl_io_base \in BOOLEAN /\ lap \in BOOLEAN
    <3>1. rtl_io_base \in BOOLEAN /\ lap \in BOOLEAN
      BY DEF Init, RtlInit
    <3>2. unread \in Seq(0 .. BufferSize - 1)
      BY DEF Init, RtlInit
    <3>3. rx_buffer_rtl \in [Places -> Packets]
      BY DEF Init, RtlInit, Packets
    <3>. QED
      BY <3>1, <3>2, <3>3
  <2>. QED
    BY <1>0, <2>1 DEF Init, RtlInit, RtlTypes
<1>5. NetTypes
  <2>1. left \in Bounds
    BY <1>1, <1>2 DEF Bounds
  <2>2. cpu \in Cpus /\ config \in Configs
    BY DEF Init, Cpus, Configs, Addresses
  <2>. QED
    BY <2>1, <2>2 DEF NetTypes
<1>6. PciInv
  BY <1>1, <1>2 DEF PciInit, PciInv
<1>7. RxInv /\ RtlInv
  BY DEF Init, E1000Init, RtlInit, RxInv, RtlInv
<1>8. TxInv
  <2>1. reg.tdt = tx_cur_intel /\ left.sends <= wire /\ cpu.at = "boot"
    BY <1>1, <1>2 DEF Init, E1000Init, NothingSent
  <2>2. Waiting = 0
    BY <1>0, Moves DEF Init, E1000Init, Waiting
  <2>3. 1 .. Waiting = {}
    BY <2>2
  <2>. QED
    BY <2>1, <2>3 DEF TxInv
<1>. QED
  BY <1>3, <1>4, <1>5, <1>6, <1>7, <1>8 DEF NetInv

LEMMA NetStep ==
  ASSUME NetInv, [Next]_vars
  PROVE  NetInv' /\ (wire' # wire => wire' < wire)
<1>1. /\ CardTypes /\ RtlTypes /\ NetTypes /\ PciInv
      /\ RxInv /\ TxInv /\ RtlInv
  BY DEF NetInv
<1>2. CardStep
  BY <1>1, CardSteps
<1>3. CardTypes' /\ RtlTypes' /\ PciInv' /\ RtlInv' /\ RxInv'
  BY <1>1, <1>2, CardTypesKept, RtlTypesKept, PciKept, RtlKept, RxKept
<1>4. left' \in Bounds
  BY <1>1, LeftKept
<1>5. NetTypes'
  BY <1>1, <1>2, <1>4, CpuKept, ConfigKept DEF NetTypes
<1>6. TxInv' /\ (wire' # wire => wire' < wire)
  BY <1>1, <1>2, <1>4, TxKept
<1>. QED
  BY <1>3, <1>5, <1>6 DEF NetInv

(* The invariant of the network part is one.                               *)
THEOREM NetInvariant == Spec => []NetInv
<1>1. NetInv /\ [Next]_vars => NetInv'
  BY NetStep
<1>. QED
  BY <1>1, NetStart, PTL DEF Spec

(* What the invariant says of the properties.                              *)
LEMMA NetTypesMean == ASSUME NetInv PROVE TypeOK
<1>1. CardTypes /\ RtlTypes /\ NetTypes /\ PciInv
  BY DEF NetInv
<1>2. {rx_cur_intel, tx_cur_intel, reg.rdh, reg.rdt, reg.tdh, reg.tdt} \subseteq Slots
  BY <1>1, RegIs DEF CardTypes
<1>3. cpu.at \in Desktops
  BY <1>1, CpuIs DEF NetTypes
<1>4. config.ip \in Addresses
  BY <1>1 DEF NetTypes, Configs
<1>5. PciTypeOK
  BY <1>1, PciMeans
<1>. QED
  BY <1>1, <1>2, <1>3, <1>4, <1>5 DEF TypeOK, Addresses, CardTypes, RtlTypes

LEMMA SeenMeans ==
  ASSUME NetInv, in_step
  PROVE  seen \o Unseen = [i \in 1 .. received |-> i]
<1>. PICK n, d : n = Len(seen) /\ d = Distance(rx_cur_intel, reg.rdh)
  OBVIOUS
<1>1. CardTypes /\ RxInv
  BY DEF NetInv
<1>2. n \in Nat /\ d \in 0 .. RingSize - 1 /\ seen \in Seq(Nat)
  <2>1. seen \in Seq(Nat) /\ Len(seen) \in Nat
    BY <1>1 DEF CardTypes
  <2>. QED
    BY <1>1, <2>1, RegIs, DistanceIs DEF CardTypes
<1>3. /\ received = n + d /\ \A i \in 1 .. n : seen[i] = i
      /\ \A i \in 1 .. d : e1000_rx_ring[Nth(rx_cur_intel, i)].id = n + i
  BY <1>1 DEF RxInv, New
<1>4. \A i \in 1 .. d : Between(rx_cur_intel, reg.rdh)[i] = Nth(rx_cur_intel, i)
  BY DEF Between, Nth
<1>5. Unseen = [i \in 1 .. d |-> n + i]
  BY <1>3, <1>4 DEF Unseen
<1>6. Unseen \in Seq(Nat) /\ Len(Unseen) = d
  BY <1>2, <1>5
<1>7. seen \o Unseen \in Seq(Nat) /\ Len(seen \o Unseen) = n + d
  BY <1>2, <1>6
<1>8. ASSUME NEW i \in 1 .. n + d PROVE (seen \o Unseen)[i] = i
  <2>1. CASE i \in 1 .. n
    BY <1>2, <1>3, <1>6, <2>1
  <2>2. CASE i \notin 1 .. n
    <3>1. i - n \in 1 .. d
      BY <1>2, <2>2
    <3>2. (seen \o Unseen)[i] = Unseen[i - n]
      BY <1>2, <1>6, <2>2
    <3>. QED
      BY <1>2, <1>5, <3>1, <3>2
  <2>. QED
    BY <2>1, <2>2
<1>9. PICK q \in Seq(Nat) : q = seen \o Unseen
  BY <1>7
<1>10. q = [i \in 1 .. Len(q) |-> q[i]]
  OBVIOUS
<1>11. q = [i \in 1 .. received |-> i]
  BY <1>3, <1>7, <1>8, <1>9, <1>10
<1>. QED
  BY <1>9, <1>11

LEMMA NetShown ==
  NetInv => /\ TypeOK /\ ReceivedIsSeenInOrder /\ DoneMeansOnWire /\ FirstLapInStep
<1>1. NetInv => TypeOK
  BY NetTypesMean
<1>2. NetInv => ReceivedIsSeenInOrder
  BY SeenMeans DEF ReceivedIsSeenInOrder
<1>3. NetInv => DoneMeansOnWire
  BY DEF NetInv, TxInv, DoneMeansOnWire
<1>4. ASSUME NetInv PROVE FirstLapInStep
  <2>1. SUFFICES ASSUME rtl_io_base, ~lap, unread # <<>>
                 PROVE  rx_idx_rtl = Head(unread)
    BY DEF FirstLapInStep, RawDataPointsAtPacket
  <2>2. unread[1] = rx_idx_rtl
    BY <1>4, <2>1 DEF NetInv, RtlInv
  <2>3. unread \in Seq(0 .. BufferSize - 1)
    BY <1>4 DEF NetInv, RtlTypes
  <2>. QED
    BY <2>1, <2>2, <2>3
<1>. QED
  BY <1>1, <1>2, <1>3, <1>4

(* Indices stay in their rings and the buffer, the lists of a scan fit     *)
(* their arrays, and the address is one that somebody could have meant.    *)
THEOREM NetTyped == Spec => []TypeOK
BY NetInvariant, NetShown, PTL

(* The frames that the Intel card took are handled once and in order, for  *)
(* every size of the ring and however the card and the loop interleave.    *)
THEOREM FramesSeenInOrder == Spec => []ReceivedIsSeenInOrder
BY NetInvariant, NetShown, PTL

(* When net_raw finds DD, the frame it was called with is the one that has *)
(* just left the card.                                                     *)
THEOREM DoneFrameLeft == Spec => []DoneMeansOnWire
BY NetInvariant, NetShown, PTL

(* What leaves the card was given later than all that left before.         *)
THEOREM FramesLeaveInOrder == Spec => WireInOrder
<1>1. NetInv /\ [Next]_vars => [wire' # wire => wire' < wire]_vars
  BY NetStep
<1>. QED
  BY <1>1, NetInvariant, PTL DEF Spec, WireInOrder

(* The RTL driver is in step with the card until its index has been at the *)
(* end of the buffer.                                                      *)
THEOREM RtlInStepAtFirst == Spec => []FirstLapInStep
BY NetInvariant, NetShown, PTL
=============================================================================
