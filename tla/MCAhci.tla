------------------------------- MODULE MCAhci -------------------------------
(* Instances of Ahci for model checking: addresses in units of 512 bytes,  *)
(* as the drivers compute them.                                            *)
EXTENDS Ahci

(* The structures of the ports: lists and tables of OS1 (mount and MBR)    *)
(* and of OS2; the data buffers of OS1, and two buffers of callers.        *)
MCAreas == {128 * p : p \in Ports} \cup {128 * p + 16 : p \in Ports}
             \cup {2 * p : p \in Ports} \cup {128 + 16 * p : p \in Ports}
             \cup {128 * p + 8 : p \in Ports}
MCCallerBuffers == {3000, 3001}
MCBuffers == {128 * p + 24 : p \in Ports} \cup {2048 + p : p \in Ports}
               \cup MCCallerBuffers
=============================================================================
