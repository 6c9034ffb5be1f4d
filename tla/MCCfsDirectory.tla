--------------------------- MODULE MCCfsDirectory ---------------------------
(***************************************************************************)
(* The models that TLC checks: CfsDirectory with the values of the .cfg    *)
(* files.  The run with two drives has port 0 among them, because COPY TO  *)
(* CFS treats it as "no drive".                                            *)
(***************************************************************************)
EXTENDS CfsDirectory

(* For runs in which no transfer fails: the sector's part of a buffer is   *)
(* read anew by every operation before it is used, so two states that      *)
(* differ only there behave alike.                                         *)
Kept(b) == [i \in Slots |->
              IF i \in OnDisk /\ (b = "ghost" \/ job = Idle) THEN NoEntry
              ELSE bufs[b][i]]

FreshReads == <<signature, dir, data, clean, label,
                [b \in Buffers |-> Kept(b)], job, texts, failures, told>>
=============================================================================
