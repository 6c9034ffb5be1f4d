----------------------------- MODULE RoundRobin -----------------------------
(***************************************************************************)
(* What the 64-bit kernel's multitasking promises to the code that runs in *)
(* a task: one task has the CPU at a time, only that task makes progress,  *)
(* the CPU goes round the existing tasks in order, and a task that was     *)
(* preempted continues exactly where it was.                               *)
(***************************************************************************)
EXTENDS Naturals

CONSTANTS MaxTasks,   \* size of the task table, tasks[4] in the code
          WorkMod,    \* progress of a task is counted modulo WorkMod
          Programs    \* what a task can be created to run

VARIABLES n,        \* number of tasks that exist
          running,  \* the task that has the CPU
          program,  \* what each existing task runs
          progress  \* how far each task has come in its own program

rrVars == <<n, running, program, progress>>

TaskIds == 0 .. MaxTasks - 1

(* The program of a task that does not exist yet. *)
NoProgram == "none"

Init == /\ n = 1
        /\ running = 0
        /\ program \in [TaskIds -> Programs \cup {NoProgram}]
        /\ \A t \in TaskIds : t > 0 => program[t] = NoProgram
        /\ progress = [t \in TaskIds |-> 0]

Work == /\ progress' = [progress EXCEPT ![running] = (@ + 1) % WorkMod]
        /\ UNCHANGED <<n, running, program>>

Spawn == /\ n < MaxTasks
         /\ n' = n + 1
         /\ \E p \in Programs : program' = [program EXCEPT ![n] = p]
         /\ UNCHANGED <<running, progress>>

Rotate == /\ running' = IF running + 1 < n THEN running + 1 ELSE 0
          /\ UNCHANGED <<n, program, progress>>

Next == Work \/ Spawn \/ Rotate

SafeSpec == Init /\ [][Next]_rrVars

Spec == SafeSpec /\ WF_rrVars(Rotate)
=============================================================================
