------------------------------- MODULE E1000 --------------------------------
(***************************************************************************)
(* The Intel E1000 card and its driver in net.cpp: two descriptor rings in *)
(* memory.  The card fills receive descriptors from RDH up to RDT and sets *)
(* DD; the driver looks at descriptor rx_cur_intel, clears DD and returns  *)
(* what it has seen by moving RDT.  Sending works the other way round.     *)
(*                                                                         *)
(* The card works while the driver runs: every step of the driver that     *)
(* looks at the card is an operator of its own; Net makes actions of them. *)
(***************************************************************************)
EXTENDS Naturals, Sequences, SequencesExt

CONSTANT RingSize      \* descriptors of a ring, 32 in the code

ASSUME RingSizeAssumption == RingSize \in Nat /\ RingSize > 1

Slots == 0..RingSize - 1
NoFrame == [id |-> 0]
NothingSent == 1000
After(slot) == (slot + 1) % RingSize

VARIABLES intel_mem_base,              \* the card is in use
          e1000_rx_ring,               \* a frame: DD is set; NoFrame: clear
          e1000_tx_ring,               \* frame and DD of each descriptor
          rx_cur_intel, tx_cur_intel,
          reg,                         \* RDH, RDT, TDH, TDT and STATUS.LU
          (* ghosts, which guard nothing *)
          received,                    \* frames the card took since its start
          seen,                        \* of these, what the driver handled
          wire,                        \* the last frame the card has sent
          in_step                      \* the last start found rx_cur_intel at 0

cardVars == <<intel_mem_base, e1000_rx_ring, e1000_tx_ring, rx_cur_intel,
              tx_cur_intel, reg, received, seen, wire, in_step>>

E1000Init ==
  /\ intel_mem_base = FALSE
  /\ e1000_rx_ring = [s \in Slots |-> NoFrame]
  /\ e1000_tx_ring = [s \in Slots |-> [frame |-> 0, dd |-> FALSE]]
  /\ rx_cur_intel = 0 /\ tx_cur_intel = 0
  /\ reg = [rdh |-> 0, rdt |-> 0, tdh |-> 0, tdt |-> 0, link |-> TRUE]
  /\ received = 0 /\ seen = <<>> /\ wire = NothingSent /\ in_step = FALSE

-----------------------------------------------------------------------------
(* The card.                                                               *)

(* A frame arrives.  Without a free descriptor it is lost, and so it is    *)
(* while the link is down.                                                 *)
CardReceives(kind, octet) ==
  /\ intel_mem_base /\ reg.link /\ reg.rdh # reg.rdt
  /\ received' = received + 1
  /\ e1000_rx_ring' = [e1000_rx_ring EXCEPT ![reg.rdh] =
                         [id |-> received + 1, kind |-> kind, octet |-> octet]]
  /\ reg' = [reg EXCEPT !.rdh = After(@)]
  /\ UNCHANGED <<intel_mem_base, e1000_tx_ring, rx_cur_intel, tx_cur_intel,
                 seen, wire, in_step>>

CardSends ==
  /\ intel_mem_base /\ reg.link /\ reg.tdh # reg.tdt
  /\ wire' = e1000_tx_ring[reg.tdh].frame
  /\ e1000_tx_ring' = [e1000_tx_ring EXCEPT ![reg.tdh].dd = TRUE]
  /\ reg' = [reg EXCEPT !.tdh = After(@)]
  /\ UNCHANGED <<intel_mem_base, e1000_rx_ring, rx_cur_intel, tx_cur_intel,
                 received, seen, in_step>>

(* The cable is pulled or plugged.                                         *)
Cable ==
  /\ intel_mem_base
  /\ reg' = [reg EXCEPT !.link = ~@]
  /\ UNCHANGED <<intel_mem_base, e1000_rx_ring, e1000_tx_ring, rx_cur_intel,
                 tx_cur_intel, received, seen, wire, in_step>>

-----------------------------------------------------------------------------
(* The driver.                                                             *)

(* e1000_enable_rx: RDH := 0, RDT := last descriptor.  rx_cur_intel stays  *)
(* where it was.                                                           *)
RxEnabled ==
  /\ e1000_rx_ring' = [s \in Slots |-> NoFrame]
  /\ received' = 0 /\ seen' = <<>> /\ in_step' = (rx_cur_intel = 0)
  /\ UNCHANGED rx_cur_intel

(* e1000_enable_tx: TDH := TDT := tx_cur_intel := 0.                       *)
TxEnabled ==
  /\ e1000_tx_ring' = [s \in Slots |-> [frame |-> 0, dd |-> FALSE]]
  /\ tx_cur_intel' = 0
  /\ reg' = [reg EXCEPT !.rdh = 0, !.rdt = RingSize - 1, !.tdh = 0, !.tdt = 0]

(* intel_e1000_init.                                                       *)
intel_e1000_init ==
  /\ intel_mem_base' = TRUE
  /\ RxEnabled /\ TxEnabled
  /\ UNCHANGED wire

(* A form that leaves DD set.                                              *)
FrameStays ==
  /\ e1000_rx_ring[rx_cur_intel] # NoFrame
  /\ seen' = Append(seen, e1000_rx_ring[rx_cur_intel].id)
  /\ rx_cur_intel' = After(rx_cur_intel)
  /\ UNCHANGED <<intel_mem_base, e1000_rx_ring, e1000_tx_ring, tx_cur_intel, reg,
                 received, wire, in_step>>

(* A round of the loop of e1000_check_rx: one frame is handled.            *)
FrameHandled ==
  /\ e1000_rx_ring[rx_cur_intel] # NoFrame
  /\ e1000_rx_ring' = [e1000_rx_ring EXCEPT ![rx_cur_intel] = NoFrame]
  /\ seen' = Append(seen, e1000_rx_ring[rx_cur_intel].id)
  /\ rx_cur_intel' = After(rx_cur_intel)
  /\ UNCHANGED <<intel_mem_base, e1000_tx_ring, tx_cur_intel, reg, received,
                 wire, in_step>>

(* A form that returns one descriptor too many.                            *)
RdtTooFar(processed_any, last_processed) ==
  /\ reg' = IF processed_any THEN [reg EXCEPT !.rdt = After(last_processed)] ELSE reg
  /\ UNCHANGED <<intel_mem_base, e1000_rx_ring, e1000_tx_ring, rx_cur_intel,
                 tx_cur_intel, received, seen, wire, in_step>>

(* Its end: the card is told once which descriptors are free again.        *)
RdtWritten(processed_any, last_processed) ==
  /\ reg' = IF processed_any THEN [reg EXCEPT !.rdt = last_processed] ELSE reg
  /\ UNCHANGED <<intel_mem_base, e1000_rx_ring, e1000_tx_ring, rx_cur_intel,
                 tx_cur_intel, received, seen, wire, in_step>>

(* A form that does not clear the status of the descriptor.                *)
FrameGivenKeepingDd(frame) ==
  /\ e1000_tx_ring' = [e1000_tx_ring EXCEPT ![tx_cur_intel].frame = frame]
  /\ tx_cur_intel' = After(tx_cur_intel)
  /\ reg' = [reg EXCEPT !.tdt = After(tx_cur_intel)]
  /\ UNCHANGED <<intel_mem_base, e1000_rx_ring, rx_cur_intel, received, seen,
                 wire, in_step>>

(* A form that wraps the index one too early and tells the card the other. *)
FrameGivenShort(frame) ==
  /\ e1000_tx_ring' = [e1000_tx_ring EXCEPT ![tx_cur_intel] =
                         [frame |-> frame, dd |-> FALSE]]
  /\ tx_cur_intel' = (tx_cur_intel + 1) % (RingSize - 1)
  /\ reg' = [reg EXCEPT !.tdt = After(tx_cur_intel)]
  /\ UNCHANGED <<intel_mem_base, e1000_rx_ring, rx_cur_intel, received, seen,
                 wire, in_step>>

(* net_raw: the frame goes into the descriptor at tx_cur_intel, whether    *)
(* the card is done with that descriptor or not.                           *)
FrameGiven(frame) ==
  /\ e1000_tx_ring' = [e1000_tx_ring EXCEPT ![tx_cur_intel] =
                         [frame |-> frame, dd |-> FALSE]]
  /\ tx_cur_intel' = After(tx_cur_intel)
  /\ reg' = [reg EXCEPT !.tdt = After(tx_cur_intel)]
  /\ UNCHANGED <<intel_mem_base, e1000_rx_ring, rx_cur_intel, received, seen,
                 wire, in_step>>

-----------------------------------------------------------------------------
(* What the rings hold between the two.                                    *)

(* The slots from one index up to, and without, another.                   *)
Distance(from, to) == (to + RingSize - from) % RingSize
Between(from, to) == [i \in 1..Distance(from, to) |-> (from + i - 1) % RingSize]

(* Frames the card has taken and the driver has not seen, in order.        *)
Unseen == [i \in 1..Distance(rx_cur_intel, reg.rdh) |->
             e1000_rx_ring[Between(rx_cur_intel, reg.rdh)[i]].id]
=============================================================================
