------------------------------ MODULE Rtl8139 -------------------------------
(***************************************************************************)
(* The RTL8139 card and its driver in net.cpp.  The card writes packets,   *)
(* each behind a header, one after the other into a receive buffer.  A     *)
(* packet that begins before the end of the buffer is written on beyond it *)
(* (the driver sets WRAP in RCR), and the next one follows at the place    *)
(* modulo the size of the buffer.  The driver follows with rx_idx_rtl.     *)
(* Places and sizes are counted in units that stand for the 4 bytes the    *)
(* card aligns to; a size is that of a packet with its header.             *)
(***************************************************************************)
EXTENDS Integers, Sequences

CONSTANTS BufferSize,   \* units of the buffer, 8192 bytes in the code
          Sizes         \* sizes of packets

ASSUME SizesAssumption ==
  /\ BufferSize \in Nat \ {0}
  /\ Sizes \subseteq 1..BufferSize - 1 /\ Sizes # {}

VARIABLES rtl_io_base,        \* the card is in use
          rx_buffer_rtl,      \* what begins at each place: a packet, or junk
          rx_idx_rtl,
          cbr, capr,          \* the card's place, and the driver's as told to it
          tsd,                \* a frame waits in the send descriptor 0
          tx_buffer,          \* the frame in the one send buffer
          tx_next,            \* the descriptor the card sends from next
          (* ghosts *)
          unread,             \* places of packets the card wrote, not yet seen
          lap                 \* the index has been at the end, or was not 0
                              \* when the card was reset

rtlRxVars == <<rtl_io_base, rx_buffer_rtl, rx_idx_rtl, cbr, capr, tx_next,
               unread, lap>>
rtlVars == <<rtlRxVars, tsd, tx_buffer>>

Junk == [size |-> 0]
Places == 0..2 * BufferSize

RtlInit ==
  /\ rtl_io_base = FALSE
  /\ rx_buffer_rtl = [p \in Places |-> Junk]
  /\ rx_idx_rtl = 0 /\ cbr = 0 /\ capr = 0
  /\ tsd = FALSE /\ tx_buffer = 0 /\ tx_next = 0
  /\ unread = <<>> /\ lap = FALSE

-----------------------------------------------------------------------------
(* The card.                                                               *)

(* The room the card sees; 0 means all of it.                              *)
Room == (capr - cbr) % BufferSize
BufferEmpty == capr = cbr

RtlReceives(frame, size) ==
  /\ rtl_io_base
  /\ Room = 0 \/ size < Room
  /\ rx_buffer_rtl' = [p \in Places |->
       IF p = cbr THEN [size |-> size, frame |-> frame]
       ELSE IF p \in cbr + 1..cbr + size - 1 THEN Junk
       ELSE rx_buffer_rtl[p]]
  /\ cbr' = (cbr + size) % BufferSize
  /\ unread' = Append(unread, cbr)
  /\ UNCHANGED <<rtl_io_base, rx_idx_rtl, capr, tsd, tx_buffer, tx_next, lap>>

(* The card sends from its four descriptors in turn, and reads the buffer  *)
(* only then.                                                              *)
RtlSends ==
  /\ rtl_io_base /\ tsd /\ tx_next = 0
  /\ tsd' = FALSE /\ tx_next' = 1
  /\ UNCHANGED <<rtl_io_base, rx_buffer_rtl, rx_idx_rtl, cbr, capr, tx_buffer,
                 unread, lap>>

-----------------------------------------------------------------------------
(* The driver.                                                             *)

(* rtl8139_init with rtl_enable_rx: the reset clears the card's side, and  *)
(* rx_idx_rtl stays where it was.                                          *)
rtl8139_init ==
  /\ rtl_io_base' = TRUE
  /\ cbr' = 0 /\ capr' = 0 /\ tsd' = FALSE /\ tx_next' = 0
  /\ unread' = <<>> /\ lap' = (rx_idx_rtl # 0)
  /\ UNCHANGED <<rx_buffer_rtl, rx_idx_rtl, tx_buffer>>

(* net_raw: always the one buffer and descriptor tx_cur, which is 0 for    *)
(* ever.  The driver does not look whether the last frame has left.        *)
RtlGiven(frame) == tx_buffer' = frame /\ tsd' = TRUE

(* Forms that do not count the header, and that never wrap.                *)
NextIndexNoHeader(size) == LET i == rx_idx_rtl + size - 1
                           IN  IF i > BufferSize THEN 0 ELSE i
NextIndexOn(size) == rx_idx_rtl + size

(* The index behind a packet, as the code wraps it: to the beginning, and  *)
(* only when it is beyond the end.                                         *)
NextIndex(size) == LET i == rx_idx_rtl + size
                   IN  IF i > BufferSize THEN 0 ELSE i

(* The part of check_incoming after a packet of this size was looked at.   *)
IndexAdvanced(size) ==
  /\ rx_idx_rtl' = NextIndex(size)
  /\ capr' = NextIndex(size) % BufferSize
  /\ unread' = IF unread = <<>> THEN unread ELSE Tail(unread)
  /\ lap' = (lap \/ rx_idx_rtl + size >= BufferSize)
  /\ UNCHANGED <<rtl_io_base, rx_buffer_rtl, cbr, tx_next>>

(* It returns early at what is no packet.                                  *)
NoPacketHere ==
  /\ capr' = rx_idx_rtl % BufferSize
  /\ UNCHANGED <<rtl_io_base, rx_buffer_rtl, rx_idx_rtl, cbr, tsd, tx_buffer,
                 tx_next, unread, lap>>

(* What the driver may take for a packet where it looks: the packet that   *)
(* begins there, in this lap or an earlier one, or data.                   *)
PacketsAtIndex(junk) ==
  LET here == rx_buffer_rtl[rx_idx_rtl]
  IN  IF here = Junk THEN [size: Sizes, frame: junk] ELSE {here}
=============================================================================
