--------------------------- MODULE MCDiskManager ----------------------------
(* The instance of DiskManager that TLC checks.                            *)
EXTENDS DiskManager

(* A buffer on the stack holds zeros, or the entry of another file.        *)
MCStackEntries == {NoEntry, [type |-> 1, named |-> 1, lba |-> 1]}
=============================================================================
