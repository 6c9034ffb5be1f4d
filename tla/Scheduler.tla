----------------------------- MODULE Scheduler ------------------------------
(***************************************************************************)
(* Preemptive multitasking of the 64-bit kernel (kernel_main.cpp): the     *)
(* task table, create_task, the timer interrupt with its context switch,   *)
(* the voluntary yield, the system-call gate, sleep_ms and the loader of   *)
(* .BIN programs.                                                          *)
(*                                                                         *)
(* There is one CPU, so the only concurrency is the timer interrupt, which *)
(* is taken between two instructions while IF = 1.  A register context is  *)
(* a record; the interrupt entry pushes it on the stack that RSP points    *)
(* into, and schedule() only exchanges stack pointers.  That every task    *)
(* gets its own context back is therefore a property of the protocol, not  *)
(* of the model.                                                           *)
(***************************************************************************)
EXTENDS Naturals

CONSTANTS MaxTasks,     \* size of tasks[]
          WorkMod,      \* a task's own progress, kept in a register, modulo this
          MaxSleep,     \* bound on the argument of sleep_ms, in ticks
          MaxLaunches   \* bound on the number of .BIN programs that are opened

ASSUME SchedulerConstants == /\ MaxTasks \in Nat \ {0, 1}
                             /\ WorkMod \in Nat \ {0}
                             /\ MaxSleep \in Nat
                             /\ MaxLaunches \in Nat

VARIABLES
  cpu,          \* the register context of the CPU
  sp,           \* RSP: the stack it points into and the frames below it
  mem,          \* the stacks: the frame at each height of each of them
  num_tasks, current_task,
  tasks,        \* tasks[id]: rsp of the saved frame, active
  entry,        \* argument of the create_task call in progress
  wake_in,      \* sleep_ms: target_ticks - system_ticks, at least 0
  irr,          \* timer request latched in the interrupt controller
  in_service,   \* timer interrupt not yet acknowledged (EOI)
  ram,          \* the program area at 0x01100000
  launches      \* .BIN programs opened so far (bounds the model)

vars == <<cpu, sp, mem, num_tasks, current_task, tasks, entry, wake_in,
          irr, in_service, ram, launches>>

-----------------------------------------------------------------------------
TaskIds == 0 .. MaxTasks - 1

(* The programs a task can run: the desktop loop, a loop that calls yield  *)
(* directly, a loop that uses int 0x80 (internal_test_task, and app_bin    *)
(* started in place by RUNAPP), and a program loaded at 0x01100000.        *)
Code == {"main", "worker", "syscaller", "app"}

(* Where in its program a task is.  "halted" and "dozing" wait in hlt.     *)
Pc == {"user", "sys", "halted", "woken", "boot", "call", "limit", "frame",
       "sleep", "dozing", "zero", "copy"}

(* Flags of the hardware and of the task table are bits.                   *)
Bit == {0, 1}

Context == [code : Code, pc : Pc, work : 0 .. WorkMod - 1, if : Bit]

Heights == 0 .. 3
Rsp == [stk : TaskIds, h : Heights]
NoRsp == [stk |-> 0, h |-> 0]       \* tasks[] lies in .bss: rsp = 0

(* Registers a handler leaves behind: nothing the caller put there.        *)
Scratch(c) == [c EXCEPT !.work = 0]

-----------------------------------------------------------------------------
(* Stack operations *)

(* The stack memory with context c stored as the next frame of rsp.        *)
Pushed(m, rsp, c) == [m EXCEPT ![rsp.stk][rsp.h + 1] = c]
Grown(rsp) == [rsp EXCEPT !.h = @ + 1]
(* Mutant: the frame is read but never popped.                             *)
ShrunkForgetsPop(rsp) == rsp

Shrunk(rsp) == [rsp EXCEPT !.h = @ - 1]
FrameAt(m, rsp) == m[rsp.stk][rsp.h]

(* The frame create_task builds for a fresh task: entry point, zeroed      *)
(* registers and RFLAGS = 0x202, that is IF = 1.                           *)
FreshFrame(e) == [code |-> e, pc |-> "user", work |-> 0, if |-> 1]

(* Mutant: sleep_ms halts again without looking at the clock.              *)
SleepNeverLooks(c) == IF c.pc = "halted" THEN [c EXCEPT !.pc = "woken"] ELSE c

(* Mutant: the frame of a halted yield returns to the hlt itself.          *)
YieldHaltsAgain(c) == IF c.pc = "dozing" THEN [c EXCEPT !.pc = "sleep"] ELSE c

(* hlt is left when an interrupt arrives: the pushed RIP is behind it.     *)
BehindHlt(c) == CASE c.pc = "halted" -> [c EXCEPT !.pc = "woken"]
                  [] c.pc = "dozing" -> [c EXCEPT !.pc = "sleep"]
                  [] OTHER -> c

-----------------------------------------------------------------------------
(* Boot: the entry code ran cli, main filled the IDT, and only then makes  *)
(* itself task 0 and creates the test task.                                *)
Init ==
  /\ cpu = [code |-> "main", pc |-> "boot", work |-> 0, if |-> 0]
  /\ sp = [stk |-> 0, h |-> 0]
  /\ mem = [s \in TaskIds |-> [h \in Heights |-> FreshFrame("main")]]
  /\ num_tasks = 1
  /\ current_task = 0
  /\ tasks = [t \in TaskIds |-> [rsp |-> NoRsp, active |-> 0]]
  /\ entry = "syscaller"
  /\ wake_in = 0
  /\ irr = 0
  /\ in_service = 0
  /\ ram = "zero"
  /\ launches = 0

StartMultitasking ==
  /\ cpu.pc = "boot"
  /\ tasks' = [tasks EXCEPT ![0].active = 1]
  /\ cpu' = [cpu EXCEPT !.pc = "call"]
  /\ entry' = "syscaller"
  /\ UNCHANGED <<sp, mem, num_tasks, current_task, wake_in, irr, in_service,
                 ram, launches>>

-----------------------------------------------------------------------------
(* create_task, called by the desktop only; its argument is in entry.      *)

(* cli *)
EnterCreate(c) == [c EXCEPT !.pc = "limit", !.if = 0]

CreateCli ==
  /\ cpu.pc = "call"
  /\ cpu' = EnterCreate(cpu)
  /\ UNCHANGED <<sp, mem, num_tasks, current_task, tasks, entry, wake_in, irr,
                 in_service, ram, launches>>

Refuse ==
  /\ cpu' = [cpu EXCEPT !.pc = "user", !.if = 1]
  /\ UNCHANGED mem

(* Mutant: every task is given the same megabyte.                          *)
SharedStack(id) == [stk |-> 0, h |-> 0]

(* The frame goes to the top of the megabyte that belongs to the new id.   *)
NewStack(id) == [stk |-> id, h |-> 0]

BuildFrame ==
  /\ mem' = Pushed(mem, NewStack(num_tasks), FreshFrame(entry))
  /\ cpu' = [cpu EXCEPT !.pc = "frame"]

CreateFrame ==
  /\ cpu.pc = "limit"
  /\ IF num_tasks >= MaxTasks THEN Refuse ELSE BuildFrame
  /\ UNCHANGED <<sp, num_tasks, current_task, tasks, entry, wake_in, irr,
                 in_service, ram, launches>>

CreateRegister ==
  /\ cpu.pc = "frame"
  /\ tasks' = [tasks EXCEPT ![num_tasks] =
                 [rsp |-> Grown(NewStack(num_tasks)), active |-> 1]]
  /\ num_tasks' = num_tasks + 1
  /\ cpu' = [cpu EXCEPT !.pc = "user", !.if = 1]
  /\ UNCHANGED <<sp, mem, current_task, entry, wake_in, irr, in_service, ram,
                 launches>>

-----------------------------------------------------------------------------
(* The timer interrupt *)

(* The oscillator: a request that is still pending absorbs the next one.   *)
TimerTick ==
  /\ irr = 0
  /\ irr' = 1
  /\ UNCHANGED <<cpu, sp, mem, num_tasks, current_task, tasks, entry, wake_in,
                 in_service, ram, launches>>

(* Mutant: the handler forgets the EOI.                                    *)
NoEoi(busy) == busy

(* End of interrupt: the controller may deliver the next request.          *)
Eoi(busy) == 0

(* Mutant: schedule() advances current_task before it saves.               *)
SavedTooLate(tab, cur, old) ==
  [tab EXCEPT ![(cur + 1) % MaxTasks].rsp = old]

(* Mutant: the last task is left out of the round.                         *)
SkipsLastTask(tab, cur, n) == IF cur + 2 >= n \/ tab[cur + 1].active = 0
                              THEN 0 ELSE cur + 1

(* schedule(old_rsp): where the stack pointer is stored, and the successor.*)
Saved(tab, cur, old) == [tab EXCEPT ![cur].rsp = old]
NextTask(tab, cur, n) == IF cur + 1 >= n \/ tab[cur + 1].active = 0
                         THEN 0 ELSE cur + 1

(* pit_isr with schedule(): runs with IF = 0 from the gate to iretq, so it *)
(* is one step.  iretq loads the context that the new stack pointer finds. *)
PitIsr ==
  LET old    == Grown(sp)
      pushed == Pushed(mem, sp, BehindHlt(cpu))
      tab    == Saved(tasks, current_task, old)
      nxt    == NextTask(tab, current_task, num_tasks)
  IN  /\ cpu.if = 1 /\ irr = 1 /\ in_service = 0
      /\ mem' = pushed
      /\ tasks' = tab
      /\ current_task' = nxt
      /\ cpu' = FrameAt(pushed, tab[nxt].rsp)
      /\ sp' = Shrunk(tab[nxt].rsp)
      /\ wake_in' = IF wake_in > 0 THEN wake_in - 1 ELSE 0   \* system_ticks++
      /\ irr' = 0
      /\ in_service' = Eoi(1)
      /\ UNCHANGED <<num_tasks, entry, ram, launches>>

-----------------------------------------------------------------------------
(* What the running task does between interrupts *)

(* One step of its own program.                                            *)
UserWork ==
  /\ cpu.pc = "user"
  /\ cpu' = [cpu EXCEPT !.work = (@ + 1) % WorkMod]
  /\ UNCHANGED <<sp, mem, num_tasks, current_task, tasks, entry, wake_in, irr,
                 in_service, ram, launches>>

(* Mutant: yield() without the sti.                                        *)
HaltWithoutSti(c) == [c EXCEPT !.pc = "halted"]

(* yield() called directly: sti, then hlt until the next interrupt.        *)
YieldHalt(c) == [c EXCEPT !.pc = "halted", !.if = 1]

WorkerYield ==
  /\ cpu.pc = "user" /\ cpu.code = "worker"
  /\ cpu' = YieldHalt(cpu)
  /\ UNCHANGED <<sp, mem, num_tasks, current_task, tasks, entry, wake_in, irr,
                 in_service, ram, launches>>

(* yield() returns to its direct caller.                                   *)
WorkerResumes ==
  /\ cpu.pc = "woken" /\ cpu.code = "worker"
  /\ cpu' = [cpu EXCEPT !.pc = "user"]
  /\ UNCHANGED <<sp, mem, num_tasks, current_task, tasks, entry, wake_in, irr,
                 in_service, ram, launches>>

(* int 0x80 through an interrupt gate: syscall_isr saves the registers,    *)
(* and the dispatcher runs with IF = 0.                                    *)
SyscallEnter ==
  /\ cpu.pc = "user" /\ cpu.code \in {"syscaller", "app"}
  /\ mem' = Pushed(mem, sp, cpu)
  /\ sp' = Grown(sp)
  /\ cpu' = [Scratch(cpu) EXCEPT !.pc = "sys", !.if = 0]
  /\ UNCHANGED <<num_tasks, current_task, tasks, entry, wake_in, irr,
                 in_service, ram, launches>>

(* System call 0 opens the interrupts again and halts inside the handler.  *)
SyscallYield ==
  /\ cpu.pc = "sys"
  /\ cpu' = YieldHalt(cpu)
  /\ UNCHANGED <<sp, mem, num_tasks, current_task, tasks, entry, wake_in, irr,
                 in_service, ram, launches>>

(* The other system calls do their work and return; so does a yield that   *)
(* was woken, with interrupts on.                                          *)
SyscallReturn ==
  /\ \/ cpu.pc = "sys"
     \/ cpu.pc = "woken" /\ cpu.code \in {"syscaller", "app"}
  /\ cpu' = FrameAt(mem, sp)
  /\ sp' = Shrunk(sp)
  /\ UNCHANGED <<mem, num_tasks, current_task, tasks, entry, wake_in, irr,
                 in_service, ram, launches>>

-----------------------------------------------------------------------------
(* What only the desktop does *)

InDesktop == cpu.code = "main" /\ cpu.pc = "user"

(* Mutant: the command does not look at the task limit.                    *)
SpawnUnguarded ==
  /\ InDesktop
  /\ \E e \in {"worker", "syscaller"} : entry' = e
  /\ cpu' = [cpu EXCEPT !.pc = "call"]
  /\ UNCHANGED <<sp, mem, num_tasks, current_task, tasks, wake_in, irr,
                 in_service, ram, launches>>

(* Commands START (a worker) and RUNAPP (app_bin in place).                *)
SpawnCommand ==
  /\ InDesktop
  /\ num_tasks < MaxTasks
  /\ \E e \in {"worker", "syscaller"} : entry' = e
  /\ cpu' = [cpu EXCEPT !.pc = "call"]
  /\ UNCHANGED <<sp, mem, num_tasks, current_task, tasks, wake_in, irr,
                 in_service, ram, launches>>

(* load_and_run_bin: refuse when the table is full, clear the program      *)
(* area, copy the program, create the task.  Interrupts stay on.           *)
OpenBin ==
  /\ InDesktop
  /\ launches < MaxLaunches
  /\ launches' = launches + 1
  /\ cpu' = [cpu EXCEPT !.pc = IF num_tasks >= MaxTasks THEN "user" ELSE "zero"]
  /\ UNCHANGED <<sp, mem, num_tasks, current_task, tasks, entry, wake_in, irr,
                 in_service, ram>>

LoadZero ==
  /\ cpu.pc = "zero"
  /\ ram' = "zero"
  /\ cpu' = [cpu EXCEPT !.pc = "copy"]
  /\ UNCHANGED <<sp, mem, num_tasks, current_task, tasks, entry, wake_in, irr,
                 in_service, launches>>

(* Mutant: the area is cleared after the program was copied.               *)
ClearAfterCopy ==
  /\ cpu.pc = "copy"
  /\ ram' = "zero"
  /\ entry' = "app"
  /\ cpu' = [cpu EXCEPT !.pc = "call"]
  /\ UNCHANGED <<sp, mem, num_tasks, current_task, tasks, wake_in, irr,
                 in_service, launches>>

LoadCopy ==
  /\ cpu.pc = "copy"
  /\ ram' = "image"
  /\ entry' = "app"
  /\ cpu' = [cpu EXCEPT !.pc = "call"]
  /\ UNCHANGED <<sp, mem, num_tasks, current_task, tasks, wake_in, irr,
                 in_service, launches>>

(* sleep_ms: hlt as long as the target tick is not reached.                *)
SleepBegin ==
  /\ InDesktop
  /\ \E ms \in 1 .. MaxSleep : wake_in' = ms
  /\ cpu' = [cpu EXCEPT !.pc = "sleep"]
  /\ UNCHANGED <<sp, mem, num_tasks, current_task, tasks, entry, irr,
                 in_service, ram, launches>>

SleepLoop ==
  /\ cpu.pc = "sleep"
  /\ cpu' = [cpu EXCEPT !.pc = IF wake_in > 0 THEN "dozing" ELSE "user"]
  /\ UNCHANGED <<sp, mem, num_tasks, current_task, tasks, entry, wake_in, irr,
                 in_service, ram, launches>>

-----------------------------------------------------------------------------
(* The kernel's own code runs on as long as the CPU is not in hlt.         *)
KernelStep == \/ StartMultitasking \/ CreateCli \/ CreateFrame
              \/ CreateRegister \/ WorkerResumes
              \/ SyscallYield \/ SyscallReturn
              \/ LoadZero \/ LoadCopy \/ SleepLoop

UserStep == UserWork \/ WorkerYield \/ SyscallEnter \/ SpawnCommand
            \/ OpenBin \/ SleepBegin

Next == TimerTick \/ PitIsr \/ KernelStep \/ UserStep

SafeSpec == Init /\ [][Next]_vars

(* The oscillator never stops.  An unmasked pending interrupt is taken at  *)
(* an instruction boundary, however often IF goes off and on: strong       *)
(* fairness.  A tick is a millisecond, so a task that gets the CPU again   *)
(* and again gets through the kernel's straight-line code: strong fairness *)
(* of the kernel steps of each task.  Nothing is assumed of user steps.    *)
Fairness ==
  /\ WF_vars(TimerTick)
  /\ SF_vars(PitIsr)
  /\ \A t \in TaskIds : SF_vars(current_task = t /\ KernelStep)

Spec == SafeSpec /\ Fairness

-----------------------------------------------------------------------------
(* Properties *)

(* Where a task's context is: in the CPU, or in the frame its rsp names.   *)
TopContext(t) == IF t = current_task THEN cpu ELSE FrameAt(mem, tasks[t].rsp)

(* The number of frames a task has below its top context.                  *)
Below(t) == IF t = current_task THEN sp.h ELSE tasks[t].rsp.h - 1

(* A task inside a system call has its own registers in the gate's frame.  *)
OwnContext(t) == IF Below(t) = 0 THEN TopContext(t) ELSE mem[t][1]

Exists(t) == t < num_tasks

(* The type of every variable.                                             *)
TypeOK ==
  /\ cpu \in Context
  /\ sp \in Rsp
  /\ mem \in [TaskIds -> [Heights -> Context]]
  /\ num_tasks \in 1 .. MaxTasks
  /\ current_task \in TaskIds
  /\ tasks \in [TaskIds -> [rsp : Rsp, active : Bit]]
  /\ entry \in Code
  /\ wake_in \in 0 .. MaxSleep
  /\ irr \in Bit
  /\ in_service \in Bit
  /\ ram \in {"zero", "image"}
  /\ launches \in 0 .. MaxLaunches

(* schedule() can be called in any state in which IF = 1: whichever task   *)
(* it picks, the stack pointer it finds there names a frame on that task's *)
(* own stack, written by a timer interrupt or by create_task, that lets    *)
(* the timer in again.                                                     *)
SavedContextsSound ==
  \A t \in TaskIds \ {current_task} : Exists(t) =>
    /\ tasks[t].active = 1
    /\ tasks[t].rsp.stk = t
    /\ tasks[t].rsp.h \in {1, 2}
    /\ FrameAt(mem, tasks[t].rsp).if = 1

(* RSP is on the stack of the task the scheduler believes is running, and  *)
(* no stack ever holds more than one system-call and one timer frame.      *)
StackOfCurrentTask ==
  /\ Exists(current_task)
  /\ sp.stk = current_task
  /\ sp.h <= 1

(* A task never computes, and never waits in hlt, with interrupts off:     *)
(* cli, the interrupt gates and yield's sti leave no path back to a task   *)
(* (or into hlt) that the timer could not end.                             *)
NeverDeaf ==
  cpu.pc \in {"user", "halted", "woken", "sleep", "dozing", "zero", "copy"}
     => cpu.if = 1

(* create_task's own limit test never has to refuse: although the caller   *)
(* tests the limit with interrupts on, several switches before the cli,    *)
(* nobody else creates tasks in between.                                   *)
CallerTestStillHolds == cpu.pc = "limit" => num_tasks < MaxTasks

(* load_and_run_bin calls the area at 0x01100000 a safe harbour and clears *)
(* it "safely": whenever a task executes code there, the program is there. *)
AppCodeIntact ==
  cpu.code = "app" /\ cpu.pc = "user" => ram = "image"

(* What remains of that: as long as only one .BIN program is opened, its   *)
(* task never executes the area before it is filled, whatever the desktop  *)
(* and the timer do in between.                                            *)
FirstAppIntact == launches <= 1 => AppCodeIntact

(* The scheduler implements round robin: only the running task's context   *)
(* moves, the others come back unchanged, nobody is skipped.               *)
RR == INSTANCE RoundRobin WITH
        Programs <- Code,
        n        <- num_tasks,
        running  <- current_task,
        program  <- [t \in TaskIds |->
                       IF Exists(t) THEN OwnContext(t).code ELSE "none"],
        progress <- [t \in TaskIds |->
                       IF Exists(t) THEN OwnContext(t).work ELSE 0]

ImplementsRoundRobin == RR!Spec

(* Every task that was created gets the CPU again and again.               *)
EveryTaskRuns ==
  \A t \in TaskIds : [](Exists(t) => <>(current_task = t))

(* sleep_ms returns, although the desktop shares the CPU while it sleeps.  *)
SleepEnds ==
  OwnContext(0).pc \in {"sleep", "dozing"} ~> OwnContext(0).pc = "user"

(* A task that gave the CPU away in yield comes back out of it.            *)
YieldReturns ==
  \A t \in TaskIds :
    (t = current_task /\ cpu.pc = "halted")
       ~> (t = current_task /\ cpu.pc = "user")
=============================================================================
