------------------------------ MODULE FileStore ------------------------------
(***************************************************************************)
(* What a CFS directory promises to the user of the disk manager: a slot   *)
(* shows nothing, a folder or a file with one text; one step changes at    *)
(* most one slot of one drive; a file that is half written is not there.   *)
(***************************************************************************)
CONSTANTS Drives, FileSlots, Texts,
          Free, Folder   \* two values that are no texts

VARIABLE files    \* what each slot of each drive's directory shows

Init == files = [d \in Drives |-> [s \in FileSlots |-> Free]]

Shows(d, s, c) == files' = [files EXCEPT ![d][s] = c]

(* A new file or folder, or a deleted one that is recovered.               *)
Appear(d, s) == /\ files[d][s] = Free
                /\ \E c \in Texts \cup {Folder} : Shows(d, s, c)

Vanish(d, s) == /\ files[d][s] # Free
                /\ Shows(d, s, Free)

Overwrite(d, s) == /\ files[d][s] \notin {Free, Folder}
                   /\ \E c \in Texts : Shows(d, s, c)

Next == \E d \in Drives, s \in FileSlots :
          Appear(d, s) \/ Vanish(d, s) \/ Overwrite(d, s)

Spec == Init /\ [][Next]_files
=============================================================================
